-------------------------------- MODULE Notices --------------------------------
(***************************************************************************)
(* Telling the user that something waits: the webhook (cli/src/notifier.ts *)
(* and who calls it in server.ts).                                         *)
(*                                                                         *)
(* An item is an approval card, a question or an urgent report.  A worker  *)
(* the user woke runs on when its chat is deleted (agents.ts:266,          *)
(* server.ts:938), so approvals may come from a chat that is gone;         *)
(* questions and reports may not: their row refers to the chat's.  A timer *)
(* fires in the tick it is due.                                            *)
(***************************************************************************)
EXTENDS Naturals, FiniteSets

CONSTANTS Chats, GhostChats,
          Labels,      \* detail: the label of a tool, the title of a question
          Delay,       \* delaySeconds, in ticks
          Window,      \* equal messages closer than this are one: 10 s
          MaxItems, MaxClock, MaxSaves  \* bounds

Kinds == {"approval", "question", "urgent"}

VARIABLES settings,  \* the webhook's address, the events and the opt-in to details
          kept,      \* chats that exist
          items,     \* what waits or waited, by number
          timers,    \* events queued for later
          recent,    \* when a message was last sent, by key
          told,      \* item -> what became of its message
          detailed,  \* items a message was specific about
          clock, saves
vars == <<settings, kept, items, timers, recent, told, detailed, clock, saves>>

Numbers == 1 .. MaxItems
NoItem == [at |-> "none"]
Waiting(n) == items[n].at = "waiting"
Key(item) == <<item.kind, item.chat, item.label>>

TypeOK ==
    /\ settings \in [url : BOOLEAN, details : BOOLEAN, events : SUBSET Kinds]
    /\ kept \subseteq Chats /\ clock \in 0 .. MaxClock
    /\ \A n \in Numbers : items[n].at \in {"none", "waiting", "settled"}
    /\ timers \subseteq [item : Numbers, due : 0 .. MaxClock + Delay, ghost : BOOLEAN, details : BOOLEAN]
    /\ \A e \in recent : e.at \in 0 .. MaxClock
    /\ told \in [Numbers -> {"none", "off", "queued", "sent", "equal", "failed", "needless", "lost"}]
    /\ detailed \subseteq Numbers

Init ==
    /\ settings = [url |-> TRUE, details |-> TRUE, events |-> Kinds]
    /\ kept = Chats /\ items = [n \in Numbers |-> NoItem] /\ timers = {} /\ recent = {}
    /\ told = [n \in Numbers |-> "none"] /\ detailed = {} /\ clock = 0 /\ saves = 0

-----------------------------------------------------------------------------
(* notifier.ts *)

\* The key of a message.  (KindOnly: a plausible bug, whatever the chat.)
KindOnly(item, e) == e.key[1] = item.kind /\ e.key[3] = item.label
SameKey(item, e) == e.key = Key(item)

\* buildPayload: a ghost chat's message says nothing, another's only by opt-in.
OptIn(event) == event.details
Specific(event) == event.details /\ ~event.ghost

\* fire(), with send(), for item n as it is now.
Fire(n, item, event) ==
    IF item.at # "waiting"
      THEN told' = [told EXCEPT ![n] = "needless"] /\ UNCHANGED <<recent, detailed>>
    ELSE IF \E e \in recent : SameKey(item, e) /\ clock - e.at < Window
      THEN told' = [told EXCEPT ![n] = "equal"] /\ UNCHANGED <<recent, detailed>>
    ELSE /\ recent' = {e \in recent : e.key # Key(item)} \cup {[key |-> Key(item), at |-> clock]}
         /\ \/ /\ settings.url /\ told' = [told EXCEPT ![n] = "sent"]
               /\ detailed' = IF Specific(event) THEN detailed \cup {n} ELSE detailed
            \/ told' = [told EXCEPT ![n] = "failed"] /\ UNCHANGED detailed

TimerFires(event) ==
    /\ event.due <= clock /\ timers' = timers \ {event} /\ Fire(event.item, items[event.item], event)
    /\ UNCHANGED <<settings, kept, items, clock, saves>>

\* notifyChat: what is known of the chat when the event is queued.
ChatIsGhost(chat) == chat \in kept \cap GhostChats
\* An item appears and is made known (onPending, humanInputTool, reportTool):
\* the urgent at once, the others after the delay.
Appears(n, kind, chat, label, row) ==
    LET item == [at |-> "waiting", kind |-> kind, chat |-> chat, label |-> label, row |-> row, orphan |-> chat \notin kept]
        event == [item |-> n, due |-> clock + Delay, ghost |-> ChatIsGhost(chat), details |-> settings.details]
    IN /\ items[n] = NoItem /\ (n > 1 => items[n - 1] # NoItem)
       /\ items' = [items EXCEPT ![n] = item]
       /\ IF kind \notin settings.events \/ ~settings.url
            THEN told' = [told EXCEPT ![n] = "off"] /\ UNCHANGED <<timers, recent, detailed>>
          ELSE IF kind = "urgent" THEN Fire(n, item, event) /\ UNCHANGED timers
          ELSE told' = [told EXCEPT ![n] = "queued"] /\ timers' = timers \cup {event} /\ UNCHANGED <<recent, detailed>>
       /\ UNCHANGED <<settings, kept, clock, saves>>

ApprovalWaits(n, chat, label) == Appears(n, "approval", chat, label, FALSE)
AsksQuestion(n, chat, label, urgent) ==
    chat \in kept /\ Appears(n, IF urgent THEN "urgent" ELSE "question", chat, label, TRUE)
UrgentReport(n, chat, label) == chat \in kept /\ Appears(n, "urgent", chat, label, TRUE)

\* Answered, dismissed, expired, the turn stopped; a report is dismissed.
Settled(n) ==
    /\ Waiting(n) /\ items' = [items EXCEPT ![n].at = "settled"]
    /\ UNCHANGED <<settings, kept, timers, recent, told, detailed, clock, saves>>

\* PUT /api/notifications: a webhook is set or removed, the form is saved.
Save(url, details, events) ==
    /\ saves < MaxSaves /\ saves' = saves + 1
    /\ settings' = [url |-> url, details |-> details, events |-> events]
    /\ UNCHANGED <<kept, items, timers, recent, told, detailed, clock>>

\* DELETE /api/conversations/:id: the chat's items stay.
DeleteChat(chat) ==
    /\ chat \in kept /\ kept' = kept \ {chat}
    /\ UNCHANGED <<settings, items, timers, recent, told, detailed, clock, saves>>

-----------------------------------------------------------------------------

Tick ==
    /\ clock < MaxClock /\ clock' = clock + 1 /\ \A e \in timers : e.due > clock
    /\ UNCHANGED <<settings, kept, items, timers, recent, told, detailed, saves>>

\* What only the process knew is gone: timers and approval cards.
Restart ==
    /\ told' = [n \in Numbers |-> IF \E e \in timers : e.item = n THEN "lost" ELSE told[n]]
    /\ items' = [n \in Numbers |-> IF Waiting(n) /\ ~items[n].row THEN [items[n] EXCEPT !.at = "settled"] ELSE items[n]]
    /\ timers' = {} /\ recent' = {}
    /\ UNCHANGED <<settings, kept, detailed, clock, saves>>

Next ==
    \/ Tick \/ Restart
    \/ \E e \in timers : TimerFires(e)
    \/ \E n \in Numbers : Settled(n)
    \/ \E n \in Numbers, c \in Chats, l \in Labels :
        \/ ApprovalWaits(n, c, l) \/ UrgentReport(n, c, l)
        \/ \E urgent \in BOOLEAN : AsksQuestion(n, c, l, urgent)
    \/ \E c \in Chats : DeleteChat(c)
    \/ \E url, details \in BOOLEAN, events \in {Kinds, Kinds \ {"question"}} : Save(url, details, events)

Spec == Init /\ [][Next]_vars

-----------------------------------------------------------------------------
(***************************************************************************)
(* What waits longer than the delay was made known, if that was asked for  *)
(* when it appeared: its message went out, failed (and the settings say    *)
(* so), was lost in a restart, or is spared because the same was said of   *)
(* the same chat within the window (notifier.ts:197-205).                  *)
(***************************************************************************)
WaitingWasBuzzed ==
    \A n \in Numbers :
        Waiting(n) /\ told[n] # "off" =>
            \/ told[n] \in {"sent", "failed", "lost"}
            \/ told[n] = "queued" /\ \E e \in timers : e.item = n /\ e.due >= clock
            \/ told[n] = "equal" /\ \E m \in Numbers \ {n} : items[m] # NoItem /\ Key(items[m]) = Key(items[n]) /\ told[m] \in {"sent", "failed", "lost"}

(***************************************************************************)
(* A message is specific about a ghost chat only if the chat was gone      *)
(* before the item appeared (notifier.ts:16, server.ts:317-320).           *)
(***************************************************************************)
SilentWhileKept == \A n \in detailed : items[n].chat \in GhostChats => items[n].orphan

(***************************************************************************)
(* A ghost chat never contributes anything but a content-free line         *)
(* (notifier.ts:16).  Not so for a worker that outlives its chat.          *)
(***************************************************************************)
GhostIsSilent == \A n \in detailed : items[n].chat \notin GhostChats

\* Details are opt-in (notifier.ts:15), when they are sent.
DetailsOptedIn == [][detailed' # detailed => settings.details]_vars
=============================================================================
