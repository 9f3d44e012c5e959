------------------------------- MODULE Sidebar -------------------------------
(***************************************************************************)
(* The list of chats and the open chat of one browser tab                  *)
(* (web/src/hooks/useConversations.ts, web/src/App.tsx) beside the rows    *)
(* they show (the conversation and project routes of cli/src/server.ts,    *)
(* cli/src/db.ts).  Every click is a request on a connection of its own:   *)
(* requests are served and answered in any order, and what an answer sets  *)
(* off (a refresh, a selection, one more chat) runs when it arrives.       *)
(*                                                                         *)
(* Titles, times and the order of the list are left out: where the code    *)
(* takes the first chat of the list, any may be it.                        *)
(***************************************************************************)
EXTENDS Naturals, FiniteSets, Sequences

CONSTANTS Projects,  \* ids a project may have
          Tunes,     \* models a chat may be set to
          Default,   \* the one a new chat has
          MaxChats,  \* bound: rows of conversations ever written
          MaxCalls,  \* bound: requests under way when the person clicks
          MaxTaps,   \* bound: clicks and sent messages
          MaxDrops   \* bound: connections that fail

VARIABLES rows,      \* conversations: id -> project and model
          groups,    \* projects that exist
          born,      \* ids given out
          working,   \* chats with a running turn
          halted,    \* those whose turn was told to stop
          list,      \* the tab: id -> project, as last answered
          selected,  \* the tab: the open chat, 0 when none
          loading, spawning,
          full,      \* the tab: the row the header shows
          calls,     \* requests under way, with the answer once served
          epoch,     \* ghost: changes to the list of rows so far
          read,      \* ghost: the epoch the shown list was read at
          crossed,   \* ghost: an older list was answered after a newer one
          raced,     \* ghost: a model was picked while that chat's row was being fetched or set
          spawned,   \* ghost: chats made by the effect
          taps, drops

server == <<rows, groups, born, working, halted>>
tab == <<list, selected, loading, spawning, full>>
ghosts == <<epoch, read, crossed, raced, spawned>>
bounds == <<taps, drops>>
vars == <<server, tab, calls, ghosts, bounds>>

Quick == "none"
Nobody == [c \in {} |-> Quick]
Ids == 1 .. MaxChats
Chat == [project : Projects \cup {Quick}, model : Tunes]
NoRow == [id |-> 0, model |-> Default]
Listing == [c \in DOMAIN rows |-> rows[c].project]
In(p) == {c \in DOMAIN rows : rows[c].project = p}
Stored(c) == IF c \in DOMAIN rows THEN [id |-> c, model |-> rows[c].model] ELSE NoRow
With(id, p) == [c \in DOMAIN rows \cup {id} |-> IF c = id THEN [project |-> p, model |-> Default] ELSE rows[c]]
Without(ids) == [c \in DOMAIN rows \ ids |-> rows[c]]
\* deleteProject: the chats go with it, or become quick chats.
AfterProject(p, op) ==
    IF op = "drop" THEN Without(In(p))
    ELSE [c \in DOMAIN rows |-> IF c \in In(p) THEN [rows[c] EXCEPT !.project = Quick] ELSE rows[c]]
Patched(c, op, t) == IF op = "model" THEN [rows EXCEPT ![c].model = t] ELSE rows

Reads == {"get", "fetch"}
Ask(op, arg) == [op |-> op, arg |-> arg, value |-> Default, then |-> 0, effect |-> FALSE,
                 at |-> "sent", list |-> Nobody, epoch |-> 0, row |-> NoRow]
Refresh == Ask("list", 0)
Others(k) == [j \in 1 .. Len(calls) - 1 |-> IF j < k THEN calls[j] ELSE calls[j + 1]]
Pending(ops, c) == \E k \in DOMAIN calls : calls[k].op \in ops /\ calls[k].arg = c
Quiet == calls = <<>> /\ ~loading

TypeOK ==
    /\ DOMAIN rows \subseteq Ids /\ \A c \in DOMAIN rows : rows[c] \in Chat
    /\ groups \subseteq Projects /\ born \in 0 .. MaxChats
    /\ working \subseteq Ids /\ halted \subseteq working
    /\ DOMAIN list \subseteq Ids /\ selected \in Ids \cup {0}
    /\ loading \in BOOLEAN /\ spawning \in BOOLEAN
    /\ full \in [id : Ids \cup {0}, model : Tunes]
    /\ \A k \in DOMAIN calls : calls[k].at \in {"sent", "ok", "refused"} /\ calls[k].effect \in BOOLEAN
    /\ read \in 0 .. epoch /\ crossed \in BOOLEAN /\ raced \in BOOLEAN /\ spawned \subseteq Ids
    /\ taps \in 0 .. MaxTaps /\ drops \in 0 .. MaxDrops

\* The tab is opened on an empty database, or on one chat in a project.
Init ==
    /\ groups = Projects
    /\ \/ rows = [c \in {} |-> [project |-> Quick, model |-> Default]] /\ born = 0
       \/ \E p \in Projects : rows = [c \in {1} |-> [project |-> p, model |-> Default]] /\ born = 1
    /\ working = {} /\ halted = {}
    /\ list = Nobody /\ selected = 0 /\ loading = TRUE /\ spawning = FALSE /\ full = NoRow
    /\ calls = <<Ask("first", 0)>>
    /\ epoch = 0 /\ read = 0 /\ crossed = FALSE /\ raced = FALSE /\ spawned = {}
    /\ taps = 0 /\ drops = 0

(***************************************************************************)
(* The tab after `list' := l and `selected' := s: the effect that keeps a  *)
(* chat open runs, and a changed selection fetches its row (the fetch of   *)
(* the one before is cancelled).  cs are the requests still under way.     *)
(***************************************************************************)
\* (Everything: a plausible bug, the fetch of the chat before is not cancelled.)
Everything(cs) == cs
Uncancelled(cs) == SelectSeq(cs, LAMBDA q : q.op # "get")
KeepOneOpen(l, s, sp, cs) ==
    LET makes == DOMAIN l = {} /\ ~loading' /\ ~sp
    IN \E n \in IF DOMAIN l = {} \/ loading' \/ s \in DOMAIN l THEN {s} ELSE DOMAIN l :
        LET turned == n # selected
        IN /\ list' = l /\ selected' = n
           /\ spawning' = (sp \/ makes)
           /\ calls' = (IF turned THEN Uncancelled(cs) ELSE cs)
                       \o (IF turned /\ n # 0 THEN <<Ask("get", n)>> ELSE <<>>)
                       \o (IF makes THEN <<Ask("spawn", Quick)>> ELSE <<>>)
           /\ raced' = (raced \/ (turned /\ Pending({"model"}, n)))

-----------------------------------------------------------------------------
(* What the person does. *)

Tap == taps < MaxTaps /\ Len(calls) < MaxCalls /\ taps' = taps + 1

\* handleCreate, Ctrl+N and /new
ClickNew(p) ==
    /\ Tap /\ p \in groups \cup {Quick} /\ (p # Quick => selected # 0)
    /\ calls' = Append(calls, Ask("create", p))
    /\ UNCHANGED <<server, tab, ghosts, drops>>

\* handleDelete: the bin beside a row of the list.
ClickDelete(c) ==
    /\ Tap /\ c \in DOMAIN list
    /\ calls' = Append(calls, Ask("delete", c))
    /\ UNCHANGED <<server, tab, ghosts, drops>>

\* renameConversation: the pencil beside a row.
ClickRename(c) ==
    /\ Tap /\ c \in DOMAIN list
    /\ calls' = Append(calls, Ask("rename", c))
    /\ UNCHANGED <<server, tab, ghosts, drops>>

\* "Delete project and its chats" / "keep chats" in the project's settings.
ClickDrop(p, op) ==
    /\ Tap /\ selected # 0 /\ p \in groups /\ ~Pending({"drop", "detach"}, p)
    /\ calls' = Append(calls, Ask(op, p))
    /\ UNCHANGED <<server, tab, ghosts, drops>>

\* A row of the list, or a hit of the search, which the list may not know.
ClickOpen(c) ==
    /\ Tap /\ ~loading /\ c \in DOMAIN list \cup DOMAIN rows
    /\ loading' = loading
    /\ KeepOneOpen(list, c, spawning, calls)
    /\ UNCHANGED <<server, full, epoch, read, crossed, spawned, drops>>

\* handleModelChange: shown at once, on whatever row the header has.
PickModel(t) ==
    /\ Tap /\ selected # 0 /\ full # NoRow /\ t # full.model
    /\ full' = [full EXCEPT !.model = t]
    /\ calls' = Append(calls, [Ask("model", selected) EXCEPT !.value = t])
    /\ raced' = (raced \/ Pending({"model"} \cup Reads, selected))
    /\ UNCHANGED <<server, list, selected, loading, spawning, epoch, read, crossed, spawned, drops>>

\* A message is sent in the open chat: its turn runs.
Send ==
    /\ Tap /\ selected \in DOMAIN rows \ working
    /\ working' = working \cup {selected}
    /\ UNCHANGED <<rows, groups, born, halted, tab, calls, ghosts, drops>>

\* The turn is over; `turn:done' reaches the tab when that chat is the open one.
TurnEnds(c) ==
    /\ c \in working
    /\ working' = working \ {c} /\ halted' = halted \ {c}
    /\ calls' = IF c = selected THEN Append(calls, Refresh) ELSE calls
    /\ UNCHANGED <<rows, groups, born, tab, ghosts, bounds>>

-----------------------------------------------------------------------------
(* What the server does with the k-th request. *)

Reply(k, ok, l, row) ==
    calls' = [calls EXCEPT ![k] = [@ EXCEPT !.at = IF ok THEN "ok" ELSE "refused",
                                             !.list = l, !.epoch = epoch, !.row = row]]
Waiting(k, ops) == calls[k].op \in ops /\ calls[k].at = "sent"

ListConversations(k) ==
    /\ Waiting(k, {"list", "first"})
    /\ Reply(k, TRUE, Listing, NoRow)
    /\ UNCHANGED <<server, epoch, spawned>>

CreateConversation(k) ==
    LET q == calls[k]
        id == born + 1
        ok == q.arg \in groups \cup {Quick}
    IN /\ Waiting(k, {"create", "spawn"}) /\ born < MaxChats
       /\ Reply(k, ok, Nobody, [NoRow EXCEPT !.id = id])
       /\ IF ok
            THEN /\ rows' = With(id, q.arg)
                 /\ born' = id /\ epoch' = epoch + 1
                 /\ spawned' = IF q.op = "spawn" THEN spawned \cup {id} ELSE spawned
            ELSE UNCHANGED <<rows, born, epoch, spawned>>
       /\ UNCHANGED <<groups, working, halted>>

DeleteConversation(k) ==
    LET c == calls[k].arg
        ok == c \in DOMAIN rows
    IN /\ Waiting(k, {"delete"})
       /\ Reply(k, ok, Nobody, NoRow)
       /\ halted' = halted \cup (working \cap {c})
       /\ rows' = Without({c})
       /\ epoch' = IF ok THEN epoch + 1 ELSE epoch
       /\ UNCHANGED <<groups, born, working, spawned>>

\* The turns a deletion of project p stops: all of its chats'.
\* (TurnsLeft: a plausible bug, the ids are read after the rows are gone.)
TurnsLeft(k, p) == IF calls[k].op = "detach" THEN working \cap In(p) ELSE {}
TurnsIn(k, p) == working \cap In(p)
DeleteProject(k) ==
    LET p == calls[k].arg
        ok == p \in groups
    IN /\ Waiting(k, {"drop", "detach"})
       /\ Reply(k, ok, Nobody, NoRow)
       /\ halted' = IF ok THEN halted \cup TurnsIn(k, p) ELSE halted
       /\ rows' = IF ok THEN AfterProject(p, calls[k].op) ELSE rows
       /\ groups' = groups \ {p}
       /\ epoch' = IF ok THEN epoch + 1 ELSE epoch
       /\ UNCHANGED <<born, working, spawned>>

GetConversation(k) ==
    LET c == calls[k].arg
        ok == c \in DOMAIN rows
    IN /\ Waiting(k, Reads)
       /\ Reply(k, ok, Nobody, Stored(c))
       /\ UNCHANGED <<server, epoch, spawned>>

UpdateConversation(k) ==
    LET c == calls[k].arg
        ok == c \in DOMAIN rows
    IN /\ Waiting(k, {"model", "rename"})
       /\ Reply(k, ok, Nobody, NoRow)
       /\ rows' = IF ok THEN Patched(c, calls[k].op, calls[k].value) ELSE rows
       /\ UNCHANGED <<groups, born, working, halted, epoch, spawned>>

Serve(k) ==
    /\ \/ ListConversations(k) \/ CreateConversation(k) \/ DeleteConversation(k)
       \/ DeleteProject(k) \/ GetConversation(k) \/ UpdateConversation(k)
    /\ UNCHANGED <<tab, read, crossed, raced, bounds>>

-----------------------------------------------------------------------------
(* What the tab does when the answer to the k-th request arrives, or its   *)
(* connection fails.                                                       *)

\* refresh() and, after it, the selection the click asked for.
ListAnswered(q, rest, ok) ==
    /\ q.op \in {"list", "first"}
    /\ loading' = (loading /\ q.op = "list")
    /\ LET sp == spawning /\ ~q.effect
       IN IF ok
            THEN /\ \E s \in IF q.then # 0 THEN {q.then}
                             ELSE IF q.op = "first" /\ DOMAIN q.list # {} THEN DOMAIN q.list ELSE {selected} :
                        KeepOneOpen(q.list, s, sp, rest)
                 /\ crossed' = (crossed \/ q.epoch < read) /\ read' = q.epoch
            ELSE IF q.op = "first"
            THEN KeepOneOpen(list, selected, sp, rest) /\ UNCHANGED <<read, crossed>>
            ELSE /\ spawning' = sp /\ calls' = rest
                 /\ UNCHANGED <<list, selected, raced, read, crossed>>
    /\ UNCHANGED full

\* A chat was made, by a click or by the effect: refresh, then open it.
\* (SpawnedEarly: a plausible bug, the effect's flag falls before the refresh.)
After(q) == [Refresh EXCEPT !.then = q.row.id, !.effect = (q.op = "spawn")]
SpawnedEarly(q, ok) == spawning /\ q.op = "create"
SpawningAfter(q, ok) == spawning /\ (q.op = "create" \/ ok)
MadeAnswered(q, rest, ok) ==
    /\ q.op \in {"create", "spawn"}
    /\ spawning' = SpawningAfter(q, ok)
    /\ calls' = IF ok THEN Append(rest, After(q)) ELSE rest
    /\ UNCHANGED <<list, selected, loading, full, read, crossed, raced>>

\* deleteConversation, renameConversation and handleProjectDeleted: refresh once it is done.
\* (NoRefresh: a plausible bug, the list is left as it was.)
NoRefresh(rest, ok) == rest
ThenRefresh(rest, ok) == IF ok THEN Append(rest, Refresh) ELSE rest
GoneAnswered(q, rest, ok) ==
    /\ q.op \in {"delete", "rename", "drop", "detach"}
    /\ calls' = ThenRefresh(rest, ok)
    /\ UNCHANGED <<tab, read, crossed, raced>>

\* The header's row; a refused model is replaced by what the server has.
RowAnswered(q, rest, ok) ==
    /\ q.op \in Reads \cup {"model"}
    /\ full' = IF ok /\ (q.op = "get" \/ (q.op = "fetch" /\ full.id = q.arg)) THEN q.row ELSE full
    /\ calls' = IF q.op = "model" /\ ~ok THEN Append(rest, Ask("fetch", q.arg)) ELSE rest
    /\ UNCHANGED <<list, selected, loading, spawning, read, crossed, raced>>

Arrive(k, ok) ==
    LET q == calls[k]
        rest == Others(k)
    IN \/ ListAnswered(q, rest, ok) \/ MadeAnswered(q, rest, ok)
       \/ GoneAnswered(q, rest, ok) \/ RowAnswered(q, rest, ok)

Receive(k) ==
    /\ calls[k].at # "sent"
    /\ Arrive(k, calls[k].at = "ok")
    /\ UNCHANGED <<server, epoch, spawned, bounds>>

\* Before it was served or after: the tab cannot tell.
Disconnect(k) ==
    /\ drops < MaxDrops /\ drops' = drops + 1
    /\ Arrive(k, FALSE)
    /\ UNCHANGED <<server, epoch, spawned, taps>>

Next ==
    \/ \E p \in Projects \cup {Quick} : ClickNew(p)
    \/ \E c \in Ids : ClickDelete(c) \/ ClickRename(c) \/ ClickOpen(c) \/ TurnEnds(c)
    \/ \E p \in Projects, op \in {"drop", "detach"} : ClickDrop(p, op)
    \/ \E t \in Tunes : PickModel(t)
    \/ Send
    \/ \E k \in DOMAIN calls : Serve(k) \/ Receive(k) \/ Disconnect(k)

Spec == Init /\ [][Next]_vars

-----------------------------------------------------------------------------
(***************************************************************************)
(* When nothing is under way, the list is the server's, unless two         *)
(* refreshes were answered out of order or a connection failed             *)
(* (useConversations.ts:16-20: every answer replaces the list).            *)
(***************************************************************************)
ListIsTrue == Quiet /\ ~crossed /\ drops = 0 => list = Listing

(***************************************************************************)
(* The effect that keeps a chat open makes one chat, never a second beside *)
(* it (useConversations.ts:38-40), however its request and the refreshes   *)
(* interleave, again unless refreshes cross or a connection fails.         *)
(***************************************************************************)
SpawnsOneIfInOrder == ~crossed /\ drops = 0 => Cardinality(spawned \cap DOMAIN rows) <= 1

(***************************************************************************)
(* useConversations.ts:38-40 without the exception.  An empty list         *)
(* answered late breaks it.                                                *)
(***************************************************************************)
SpawnsOne == drops = 0 => Cardinality(spawned \cap DOMAIN rows) <= 1

(***************************************************************************)
(* When nothing is under way, the header shows the model the open chat is  *)
(* stored with, unless a model was picked while that row was under way     *)
(* (App.tsx:165-189).                                                      *)
(***************************************************************************)
PickerIsStored ==
    Quiet /\ ~crossed /\ ~raced /\ drops = 0 =>
        selected \in DOMAIN rows /\ full = [id |-> selected, model |-> rows[selected].model]

(***************************************************************************)
(* A turn whose chat is gone has been told to stop, whichever way the chat *)
(* went (server.ts:846-853, 938-944).                                      *)
(***************************************************************************)
StoppedBeforeGone == working \ halted \subseteq DOMAIN rows
=============================================================================
