--------------------------------- MODULE Cards ---------------------------------
(***************************************************************************)
(* The approval cards as the person gets them: the list the web client     *)
(* polls (useApprovals.ts), the cards in the chat (InlineApprovals.tsx),   *)
(* the modal that stands in for them while Settings or the inbox cover the *)
(* chat (ApprovalBanner.tsx, ApprovalModal.tsx), and the gate they are     *)
(* asked of and answered to (server.ts, web-approval.ts).  Polls and       *)
(* answers are requests of their own: they overtake each other, and any of *)
(* them may be lost.                                                       *)
(*                                                                         *)
(* Abstracted: what a call says and the domain card; what a grant covers   *)
(* and when a call needs a card at all (Approvals).                        *)
(***************************************************************************)
EXTENDS Naturals, FiniteSets

CONSTANTS Rooms,                      \* conversations
          Asked,                      \* bound: the cards, in the order in which they are made
          MaxPolls, MaxAnswers, MaxMoves   \* bounds: polls under way, answers given, changes of what is shown

VARIABLES card,      \* WebApprovalGate: the cards by number
          granted,   \* cards whose approval was stored as a grant
          list,      \* useApprovals: `all`
          room,      \* the conversation shown
          covered,   \* Settings or the inbox are open
          picker,    \* ApprovalModal: scopePickerOpen
          read,      \* the card the person has read in the modal
          polls,     \* GET /api/pending-approvals under way
          answers,   \* POST /api/approve under way
          revived,   \* history: cards a poll brought back although their answer was under way
          answered, moves

cardVars == <<card, granted, list, room, covered, picker, read, polls, answers, revived, answered, moves>>

Ids == 1 .. Asked
NoCard == 0
Unasked == [of |-> "none", dangerous |-> FALSE, at |-> "none"]
Scopes == {"once", "chat", "always"}
Answers == [id : Ids, approved : BOOLEAN, scope : Scopes]

CardType == [of : Rooms \cup {"none"}, dangerous : BOOLEAN, at : {"none", "waiting", "yes", "no", "over"}]

TypeOK ==
    /\ card \in [Ids -> CardType]
    /\ granted \subseteq Ids /\ list \subseteq Ids /\ room \in Rooms /\ covered \in BOOLEAN /\ picker \in BOOLEAN
    /\ read \in Ids \cup {NoCard}
    /\ polls \subseteq [told : BOOLEAN, body : SUBSET Ids] /\ Cardinality(polls) <= MaxPolls
    /\ \A a \in answers : a.answer \in Answers /\ a.n \in 1 .. MaxAnswers
    /\ revived \subseteq Ids /\ answered \in 0 .. MaxAnswers /\ moves \in 0 .. MaxMoves

Init ==
    /\ card = [i \in Ids |-> Unasked] /\ granted = {} /\ list = {} /\ room \in Rooms /\ covered = FALSE /\ picker = FALSE
    /\ read = NoCard /\ polls = {} /\ answers = {} /\ revived = {} /\ answered = 0 /\ moves = 0

gate == <<card, granted>>

-----------------------------------------------------------------------------
(* The gate *)

Waiting == {i \in Ids : card[i].at = "waiting"}
\* A call of a conversation waits for its card.
Confirm(r, dangerous) ==
    \E i \in Ids :
        /\ card[i].at = "none" /\ \A j \in Ids : j < i => card[j].at # "none"
        /\ card' = [card EXCEPT ![i] = [of |-> r, dangerous |-> dangerous, at |-> "waiting"]]
        /\ UNCHANGED <<granted, list, room, covered, picker, read, polls, answers, revived, answered, moves>>
\* Its turn was killed.
Abort(i) ==
    /\ card[i].at = "waiting" /\ card' = [card EXCEPT ![i].at = "over"]
    /\ UNCHANGED <<granted, list, room, covered, picker, read, polls, answers, revived, answered, moves>>

\* resolve: 404 for a card that waits no more; the scope of a dangerous call is not looked at.
\* (StoresAny: a plausible bug.)
StoresAny(a) == IF a.approved /\ a.scope # "once" THEN {a.id} ELSE {}
Stores(a) == IF a.approved /\ a.scope # "once" /\ ~card[a.id].dangerous THEN {a.id} ELSE {}
Resolve(a) ==
    IF card[a.id].at # "waiting" THEN UNCHANGED gate
    ELSE /\ card' = [card EXCEPT ![a.id].at = IF a.approved THEN "yes" ELSE "no"]
         /\ granted' = granted \cup Stores(a)
Arrives(a) ==
    /\ a \in answers /\ answers' = answers \ {a} /\ Resolve(a.answer)
    /\ UNCHANGED <<list, room, covered, picker, read, polls, revived, answered, moves>>
\* The request never reaches the server; the card may be answered again once a poll has brought it back.
Lost(a) ==
    /\ a \in answers /\ answers' = answers \ {a}
    /\ UNCHANGED <<gate, list, room, covered, picker, read, polls, revived, answered, moves>>

-----------------------------------------------------------------------------
(* The client *)

\* pending: of the conversation shown.
Pending(cards, r) == {i \in cards : card[i].of = r}
\* The dangerous ones first, otherwise in their order.
Before(i, j) == IF card[i].dangerous = card[j].dangerous THEN i < j ELSE card[i].dangerous
Top(cards) == IF cards = {} THEN NoCard ELSE CHOOSE i \in cards : \A j \in cards \ {i} : Before(i, j)
\* The one card of the modal; it is one component whichever card it shows, and gone without one.
InModal == IF covered THEN Top(Pending(list, room)) ELSE NoCard
\* What the next view keeps: the picker, while some card is in the modal.
Shows(cards, r, cover, open) ==
    /\ list' = cards /\ room' = r /\ covered' = cover
    /\ picker' = (open /\ cover /\ Pending(cards, r) # {})

Ask ==
    /\ Cardinality(polls) < MaxPolls /\ polls' = polls \cup {[told |-> FALSE, body |-> {}]}
    /\ UNCHANGED <<gate, list, room, covered, picker, read, answers, revived, answered, moves>>
Tell(p) ==
    /\ p \in polls /\ ~p.told /\ polls' = (polls \ {p}) \cup {[told |-> TRUE, body |-> Waiting]}
    /\ UNCHANGED <<gate, list, room, covered, picker, read, answers, revived, answered, moves>>
UnderWay == {a.answer.id : a \in answers}
Hear(p) ==
    /\ p \in polls /\ p.told /\ polls' = polls \ {p}
    /\ Shows(p.body, room, covered, picker)
    /\ revived' = revived \cup ((p.body \ list) \cap UnderWay)
    /\ UNCHANGED <<gate, read, answers, answered, moves>>
\* Another conversation: the polls of the one before are cancelled, the list stays until the next one.
Select(r) ==
    /\ r # room /\ moves < MaxMoves /\ moves' = moves + 1
    /\ Shows(list, r, covered, picker) /\ polls' = {} /\ read' = NoCard
    /\ UNCHANGED <<gate, answers, revived, answered>>
Cover(on) ==
    /\ on # covered /\ moves < MaxMoves /\ moves' = moves + 1
    /\ Shows(list, room, on, picker) /\ read' = NoCard
    /\ UNCHANGED <<gate, polls, answers, revived, answered>>

\* respond: the card goes at once, whatever becomes of the request; `busy` of a card in the chat goes with it.
\* (Stays: a plausible bug, the card waits for the next poll.)
Stays(cards, i) == cards
Removed(cards, i) == cards \ {i}
Respond(i, approved, scope) ==
    /\ answered < MaxAnswers /\ answered' = answered + 1
    /\ answers' = answers \cup {[n |-> answered + 1, answer |-> [id |-> i, approved |-> approved, scope |-> scope]]}
    /\ Shows(Removed(list, i), room, covered, picker)
    /\ read' = NoCard /\ UNCHANGED <<gate, polls, revived, moves>>
\* A button of a card in the chat.
Inline(i, approved, scope) ==
    /\ ~covered /\ i \in Pending(list, room)
    /\ scope # "once" => approved /\ ~card[i].dangerous
    /\ Respond(i, approved, scope)
\* The person reads the card of the modal; what he presses next goes to the card that is there by then.
Read ==
    /\ InModal # NoCard /\ read # InModal /\ read' = InModal
    /\ UNCHANGED <<gate, list, room, covered, picker, polls, answers, revived, answered, moves>>
\* "Approve...": a harmless call gets the picker, a dangerous one is approved.
Approve ==
    /\ InModal # NoCard /\ read # NoCard /\ ~picker
    /\ IF card[InModal].dangerous THEN Respond(InModal, TRUE, "once")
       ELSE picker' = TRUE /\ UNCHANGED <<gate, list, room, covered, read, polls, answers, revived, answered, moves>>
\* The buttons of the picker.
Pick(scope) == InModal # NoCard /\ read # NoCard /\ picker /\ Respond(InModal, TRUE, scope)
Deny == InModal # NoCard /\ read # NoCard /\ Respond(InModal, FALSE, "once")

Next ==
    \/ \E r \in Rooms, dangerous \in BOOLEAN : Confirm(r, dangerous)
    \/ \E i \in Ids : Abort(i)
    \/ \E a \in answers : Arrives(a) \/ Lost(a)
    \/ Ask \/ \E p \in polls : Tell(p) \/ Hear(p)
    \/ \E r \in Rooms : Select(r)
    \/ \E on \in BOOLEAN : Cover(on)
    \/ \E i \in Ids, approved \in BOOLEAN, scope \in Scopes : Inline(i, approved, scope)
    \/ Read \/ Approve \/ Deny \/ \E scope \in Scopes : Pick(scope)

Spec == Init /\ [][Next]_cardVars

-----------------------------------------------------------------------------
(* Properties *)

\* No grant ever comes from a dangerous call, though the modal may offer one: its picker stays open when a dangerous
\* card takes the place of the harmless one it was opened for (ApprovalBanner.tsx:19-27 renders one modal for
\* whichever card is first), and only resolve refuses to remember (web-approval.ts:223-234).
DangerousIsOnce == \A i \in granted : ~card[i].dangerous

\* Two answers to one card are under way only if a poll, sent before the first of them, put the card back on the
\* screen meanwhile: neither a card in the chat nor the modal can be answered twice otherwise (useApprovals.ts:47-54).
OneAnswerUnlessRevived ==
    \A a, b \in answers : a # b /\ a.answer.id = b.answer.id => a.answer.id \in revived

\* A card on the screen that was answered already was brought back by a poll; a grant is of a card that was made.
BroughtBack == list \cap UnderWay \subseteq revived
GrantedWasAsked == \A i \in granted : card[i].at # "none"
CardsInv == TypeOK /\ IsFiniteSet(polls) /\ DangerousIsOnce /\ GrantedWasAsked /\ BroughtBack /\ OneAnswerUnlessRevived

\* "Scope picker -- only shown for non-dangerous calls" (ApprovalModal.tsx:137): not so when the card changes under it.
PickerIsForHarmless == picker => ~card[InModal].dangerous

\* What is approved in the modal is the card the person has read there: not so when a poll changes the first card.
ReadIsAnswered == [][covered /\ answered' # answered => list \ list' = {read}]_cardVars

=============================================================================
