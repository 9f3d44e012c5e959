-------------------------------- MODULE Inbox --------------------------------
(***************************************************************************)
(* The Gazeta inbox: the items and their routes on the server              *)
(* (cli/src/server.ts, cli/src/db.ts) and what one tab makes of them: the  *)
(* store fed by the poll and by gazeta:* events (hooks/useGazeta.ts), and  *)
(* the view that pages through them (components/gazeta/GazetaView.tsx).    *)
(*                                                                         *)
(* Items are numbered as they are made.  The clock that stamps them has    *)
(* one value per second, so two items may share a stamp.  What a question  *)
(* means to the agent that waits for it is Turn's and AgentTree's.         *)
(***************************************************************************)
EXTENDS Naturals, FiniteSets, Sequences

CONSTANTS MaxItems,   \* bound: items ever posted
          PageSize,   \* items of one page
          MaxMoves    \* bound: refreshes sent, clicks in this tab, changes made elsewhere and losses of the stream

VARIABLES status,     \* item -> what became of it
          urgent,     \* items posted as urgent
          stamp,      \* item -> the second it was made
          version,    \* changes so far
          pipe,       \* events on their way to this tab
          online,     \* the tab's stream is connected
          known,      \* the store: item -> status, as this tab last heard
          pendingIds, \* the store: the open items
          arrivals,   \* the store: items that came as events
          polls, acts,\* refreshes and clicks under way
          view,       \* the inbox: closed, or its filter
          atOpen,     \* arrivals when the view was opened
          pageIds, cursor, hasMore,
          page,       \* the newest page request, the only one that counts
          seen,       \* ghost: version of the newest thing applied
          crossed,    \* ghost: something older was applied after it
          missed,     \* ghost: version of the newest event lost with the stream
          lost,       \* ghost: an event was lost since the view's first page was asked for
          swamped,    \* ghost: a page held nothing but pinned items
          moves

server == <<status, urgent, stamp, version>>
store == <<known, pendingIds, arrivals>>
inbox == <<view, atOpen, pageIds, cursor, hasMore, page>>
truth == <<seen, crossed, missed, lost>>
Move == moves < MaxMoves /\ moves' = moves + 1
vars == <<server, pipe, online, store, polls, acts, inbox, truth, swamped, moves>>

Items == 1 .. MaxItems
Final == {"responded", "dismissed"}
States == {"pending"} \cup Final
Posted == {i \in Items : status[i] # "none"}
Open == {i \in Items : status[i] = "pending"}
NoCursor == MaxItems + 1
NoPage == [at |-> "none", reset |-> FALSE, before |-> NoCursor, filter |-> "open", items |-> {}, said |-> <<>>, version |-> 0]
Filters == {"open", "all"}

TypeOK ==
    /\ status \in [Items -> States \cup {"none"}] /\ urgent \subseteq Items
    /\ stamp \in [Items -> 0 .. MaxItems] /\ version \in Nat
    /\ online \in BOOLEAN
    /\ known \in [Items -> States \cup {"unknown"}]
    /\ pendingIds \subseteq Items /\ arrivals \subseteq Items
    /\ view \in Filters \cup {"closed"} /\ atOpen \subseteq Items /\ pageIds \subseteq Items
    /\ cursor \in 0 .. NoCursor /\ hasMore \in BOOLEAN
    /\ page.at \in {"none", "sent", "served"}
    /\ seen \in 0 .. version /\ missed \in 0 .. version /\ crossed \in BOOLEAN /\ lost \in BOOLEAN /\ swamped \in BOOLEAN
    /\ moves \in 0 .. MaxMoves

Init ==
    /\ status = [i \in Items |-> "none"] /\ urgent = {} /\ stamp = [i \in Items |-> 0] /\ version = 0
    /\ pipe = <<>> /\ online = TRUE
    /\ known = [i \in Items |-> "unknown"] /\ pendingIds = {} /\ arrivals = {}
    /\ polls = <<>> /\ acts = <<>>
    /\ view = "closed" /\ atOpen = {} /\ pageIds = {} /\ cursor = NoCursor /\ hasMore = TRUE /\ page = NoPage
    /\ seen = 0 /\ crossed = FALSE /\ missed = 0 /\ lost = FALSE /\ swamped = FALSE
    /\ moves = 0

-----------------------------------------------------------------------------
(* The server. *)

\* sse.emitAll, as far as this tab hears it.
Broadcast(event) ==
    IF online THEN pipe' = Append(pipe, event) /\ UNCHANGED <<missed, lost>>
    ELSE missed' = version' /\ lost' = TRUE /\ UNCHANGED pipe

\* createGazetaItem: the row, stamped with the second of the clock.
Created(i) ==
    /\ status' = [status EXCEPT ![i] = "pending"]
    /\ urgent' \in {urgent, urgent \cup {i}}
    /\ stamp' \in {[stamp EXCEPT ![i] = t] :
                    t \in IF i = 1 THEN {1} ELSE {stamp[i - 1], stamp[i - 1] + 1}}
    /\ version' = version + 1

\* request_human_input or post_report makes an item and tells every tab.
Post ==
    /\ Move
    /\ \E i \in Items : /\ i = Cardinality(Posted) + 1 /\ Created(i)
        /\ Broadcast([kind |-> "new", item |-> i, status |-> "pending", version |-> version'])
    /\ UNCHANGED <<online, store, polls, acts, inbox, seen, crossed, swamped>>

\* POST respond refuses an item that is not open; dismiss asks nothing; expire
\* is the question's own time limit.
Allowed(i, s) == IF s = "dismissed" THEN status[i] # "none" ELSE status[i] = "pending"
SetStatus(i, s) ==
    status' = [status EXCEPT ![i] = s] /\ version' = version + 1 /\ UNCHANGED <<urgent, stamp>>
Settle(i, s) ==
    /\ SetStatus(i, s)
    /\ Broadcast([kind |-> "settled", item |-> i, status |-> s, version |-> version'])

\* Another tab answers or dismisses, or the question expires.
SettledElsewhere(i, s) ==
    /\ Move /\ Allowed(i, s) /\ Settle(i, s)
    /\ UNCHANGED <<online, store, polls, acts, inbox, seen, crossed, swamped>>

\* listGazetaItems: urgent open items first, then the newest.
Pinned(i) == i \in urgent /\ status[i] = "pending"
Ahead(i, j) ==
    \/ Pinned(i) /\ ~Pinned(j)
    \/ Pinned(i) = Pinned(j) /\ (stamp[i] > stamp[j] \/ (stamp[i] = stamp[j] /\ i > j))
Listed(filter, before) ==
    {i \in Posted : (filter = "open" => status[i] = "pending") /\ stamp[i] < before}
FirstOf(ids, n) == {i \in ids : Cardinality({j \in ids : Ahead(j, i)}) < n}

ServePoll(k) ==
    /\ polls[k].at = "sent"
    /\ polls' = [polls EXCEPT ![k] = [at |-> "served", items |-> Open, version |-> version]]
    /\ UNCHANGED <<server, pipe, online, store, acts, inbox, truth, swamped, moves>>

ServePage ==
    /\ page.at = "sent"
    /\ page' = [page EXCEPT !.at = "served", !.version = version, !.said = status,
                            !.items = FirstOf(Listed(page.filter, page.before), PageSize)]
    /\ UNCHANGED <<server, pipe, online, store, polls, acts, view, atOpen, pageIds, cursor, hasMore, truth, swamped, moves>>

ServeAct(k) ==
    LET a == acts[k]
        ok == Allowed(a.item, a.status)
    IN /\ a.at = "sent"
       /\ IF ok THEN Settle(a.item, a.status) ELSE UNCHANGED <<server, pipe, missed, lost>>
       /\ acts' = [acts EXCEPT ![k] = [a EXCEPT !.at = "served", !.status = status'[a.item], !.version = version']]
       /\ UNCHANGED <<online, store, polls, inbox, seen, crossed, swamped, moves>>

-----------------------------------------------------------------------------
(* The tab's store. *)

Applied(v) ==
    /\ seen' = IF v > seen THEN v ELSE seen
    /\ crossed' = (crossed \/ v < seen)

\* patch(): an item no longer open leaves the list of open ones.
Patched(i, s) ==
    /\ known' = IF known[i] = "unknown" THEN known ELSE [known EXCEPT ![i] = s]
    /\ pendingIds' = IF s # "pending" THEN pendingIds \ {i} ELSE pendingIds

\* handleEvent
HandleEvent ==
    LET e == Head(pipe)
    IN /\ pipe # <<>> /\ pipe' = Tail(pipe)
       /\ IF e.kind = "new"
            THEN /\ known' = [known EXCEPT ![e.item] = e.status]
                 /\ pendingIds' = pendingIds \cup {e.item}
                 /\ arrivals' = arrivals \cup {e.item}
            ELSE Patched(e.item, e.status) /\ UNCHANGED arrivals
       /\ Applied(e.version)
       /\ UNCHANGED <<server, online, polls, acts, inbox, missed, lost, swamped, moves>>

\* refresh(): on mount and every 30 s.
Poll ==
    /\ Move
    /\ polls' = Append(polls, [at |-> "sent", items |-> {}, version |-> 0])
    /\ UNCHANGED <<server, pipe, online, store, acts, inbox, truth, swamped>>

\* (Joined: a plausible bug, what the poll no longer lists stays in the list.)
Joined(items) == pendingIds \cup items
Replaced(items) == items
Polled(k) ==
    LET p == polls[k]
    IN /\ p.at = "served"
       /\ known' = [i \in Items |-> IF i \in p.items THEN "pending" ELSE known[i]]
       /\ pendingIds' = Replaced(p.items)
       /\ polls' = SubSeq(polls, 1, k - 1) \o SubSeq(polls, k + 1, Len(polls))
       /\ Applied(p.version) /\ missed' = IF p.version >= missed THEN 0 ELSE missed
       /\ UNCHANGED <<server, pipe, online, arrivals, acts, inbox, lost, swamped, moves>>

\* A connection that is lost takes the events on it along; the stream comes back by itself.
StreamDrops ==
    /\ online /\ Move
    /\ online' = FALSE /\ pipe' = <<>>
    /\ missed' = IF pipe = <<>> THEN missed ELSE pipe[Len(pipe)].version
    /\ lost' = (lost \/ pipe # <<>>)
    /\ UNCHANGED <<server, store, polls, acts, inbox, seen, crossed, swamped>>

StreamReturns ==
    /\ ~online /\ online' = TRUE
    /\ UNCHANGED <<server, pipe, store, polls, acts, inbox, truth, swamped, moves>>

pending == {i \in pendingIds : known[i] = "pending"}

-----------------------------------------------------------------------------
(* The tab's view. *)

visible == {i \in pageIds \cup (arrivals \ atOpen) : known[i] # "unknown"}
openVisible == {i \in visible : known[i] = "pending"}

LoadPage(reset, before, filter) ==
    page' = [NoPage EXCEPT !.at = "sent", !.reset = reset, !.before = before, !.filter = filter]

\* Opening the view, and each change of its filter: a fresh first page.
ShowView(filter) ==
    /\ Move /\ view # filter
    /\ view' = filter /\ pageIds' = {} /\ cursor' = NoCursor /\ hasMore' = TRUE
    /\ atOpen' = IF view = "closed" THEN arrivals ELSE atOpen
    /\ LoadPage(TRUE, NoCursor, filter) /\ lost' = FALSE
    /\ UNCHANGED <<server, pipe, online, store, polls, acts, seen, crossed, missed, swamped>>

\* The view's refresh button: the store and the first page again.
RefreshView ==
    /\ Move /\ view # "closed" /\ page.at = "none"
    /\ polls' = Append(polls, [at |-> "sent", items |-> {}, version |-> 0])
    /\ LoadPage(TRUE, NoCursor, view) /\ lost' = FALSE
    /\ UNCHANGED <<server, pipe, online, store, acts, view, atOpen, pageIds, cursor, hasMore, seen, crossed, missed, swamped>>

CloseView ==
    /\ Move /\ view # "closed"
    /\ view' = "closed" /\ page' = NoPage /\ atOpen' = {} /\ pageIds' = {} /\ cursor' = NoCursor /\ hasMore' = TRUE
    /\ UNCHANGED <<server, pipe, online, store, polls, acts, truth, swamped>>

\* The end of the list scrolls into sight.
ScrolledDown ==
    /\ view # "closed" /\ hasMore /\ page.at = "none" /\ pageIds # {}
    /\ LoadPage(FALSE, cursor, view)
    /\ UNCHANGED <<server, pipe, online, store, polls, acts, view, atOpen, pageIds, cursor, hasMore, truth, swamped, moves>>

\* nextCursor: the oldest of the page that is not pinned.
\* (OldestOfAll: a plausible bug, pinned items count.)
Oldest(ids) == CHOOSE t \in {stamp[i] : i \in ids} : \A i \in ids : t <= stamp[i]
Regular(p) == {i \in p.items : ~(i \in urgent /\ p.said[i] = "pending")}
OldestOfAll(p) == Oldest(p.items)
NextCursor(p) == Oldest(IF Regular(p) # {} THEN Regular(p) ELSE p.items)

PageArrives ==
    /\ page.at = "served" /\ page' = NoPage
    /\ known' = [i \in Items |-> IF i \in page.items THEN page.said[i] ELSE known[i]]
    /\ pageIds' = (IF page.reset THEN {} ELSE pageIds) \cup page.items
    /\ cursor' = IF page.items # {} THEN NextCursor(page) ELSE IF page.reset THEN NoCursor ELSE cursor
    /\ hasMore' = (Cardinality(page.items) = PageSize)
    /\ swamped' = (swamped \/ (page.items # {} /\ Regular(page) = {}))
    /\ Applied(page.version)
    /\ UNCHANGED <<server, pipe, online, pendingIds, arrivals, polls, acts, view, atOpen, missed, lost, moves>>

PageFails ==
    /\ page.at # "none" /\ page' = NoPage
    /\ lost' = (lost \/ page.reset)
    /\ UNCHANGED <<server, pipe, online, store, polls, acts, view, atOpen, pageIds, cursor, hasMore, seen, crossed, missed, swamped, moves>>

\* The form of a card, in the view or in the chat, and the view's Dismiss.
Click(i, s) ==
    /\ Move /\ i \in pending \cup (IF view = "closed" THEN {} ELSE openVisible)
    /\ acts' = Append(acts, [at |-> "sent", item |-> i, status |-> s, version |-> 0])
    /\ UNCHANGED <<server, pipe, online, store, polls, inbox, truth, swamped>>

\* The answer: what became of the item, or the status the refusal names (adoptConflict).
Clicked(k) ==
    LET a == acts[k]
    IN /\ a.at = "served"
       /\ Patched(a.item, a.status)
       /\ acts' = SubSeq(acts, 1, k - 1) \o SubSeq(acts, k + 1, Len(acts))
       /\ Applied(a.version)
       /\ UNCHANGED <<server, pipe, online, arrivals, polls, inbox, missed, lost, swamped, moves>>

Next ==
    \/ Post \/ HandleEvent \/ Poll \/ StreamDrops \/ StreamReturns
    \/ \E i \in Items, s \in Final : SettledElsewhere(i, s)
    \/ \E i \in Items, s \in Final : Click(i, s)
    \/ \E k \in DOMAIN polls : ServePoll(k) \/ Polled(k)
    \/ \E k \in DOMAIN acts : ServeAct(k) \/ Clicked(k)
    \/ \E f \in Filters : ShowView(f)
    \/ CloseView \/ RefreshView \/ ScrolledDown \/ ServePage \/ PageArrives \/ PageFails

Spec == Init /\ [][Next]_vars

-----------------------------------------------------------------------------
Quiet == pipe = <<>> /\ polls = <<>> /\ acts = <<>> /\ page.at = "none"

(***************************************************************************)
(* When nothing is under way and every event lost with the stream was made *)
(* up for by a later poll, the counter and the cards in the chat show the  *)
(* open items and no others (useGazeta.ts:97-113), unless an older answer  *)
(* was applied after newer news.                                           *)
(***************************************************************************)
InboxIsTrue == Quiet /\ ~crossed /\ missed = 0 => pending = Open

(***************************************************************************)
(* useGazeta.ts:108 says the poll covers a dropped stream.  For the view   *)
(* it does not: an item settled meanwhile keeps its form.                  *)
(***************************************************************************)
ViewIsTrue == Quiet /\ ~crossed /\ missed = 0 /\ view # "closed" => openVisible \subseteq Open

(***************************************************************************)
(* Once the view says "That's everything" every item of its filter is      *)
(* there, as long as no two items were made in one second and no page held *)
(* only urgent ones (GazetaView.tsx:33-43).                                *)
(***************************************************************************)
Complete == Quiet /\ ~crossed /\ ~lost /\ view # "closed" /\ ~hasMore
Reached == (IF view = "open" THEN Open ELSE Posted) \subseteq visible
EverythingIfApart ==
    Complete /\ ~swamped /\ (\A i, j \in Posted : i # j => stamp[i] # stamp[j]) => Reached

(***************************************************************************)
(* The same for items made in the same second, as the view's last line     *)
(* "That's everything." has it (GazetaView.tsx:293).                       *)
(***************************************************************************)
ThatsEverything == Complete /\ ~swamped => Reached
=============================================================================
