-------------------------------- MODULE Turn --------------------------------
(***************************************************************************)
(* One conversation of the orchestrator: its chat turns, the tool loop of  *)
(* each turn, the questions the agent puts to the user (Gazeta), the inbox *)
(* of the running turn, the kill switch, manual compaction, and the crash  *)
(* and restart of the server.                                              *)
(*                                                                         *)
(* Sources: cli/src/server.ts (routes, kickoffLiveTurn, humanInputTool),   *)
(* cli/src/llm-loop.ts (runTurn, runLoop), cli/src/gazeta.ts and           *)
(* cli/src/runs.ts.                                                        *)
(*                                                                         *)
(* The server is one JavaScript thread: code between two awaits runs       *)
(* without interference, and that is the grain of the actions.  pc[t] is   *)
(* the await at which turn t is parked, or "top" / "use", the two places   *)
(* where the loop looks at the abort signal before it goes on.             *)
(***************************************************************************)
EXTENDS Naturals, Sequences, FiniteSets

CONSTANTS
  Items,      \* Gazeta questions the agent may ask
  PastTurns,  \* turns the conversation already holds when the server starts
  MaxTurns,   \* bound: turns started in this conversation
  MaxSteps,   \* bound: model requests answered with tool calls, per attempt
  MaxUses,    \* bound: tool calls in one reply
  MaxCrashes  \* bound: crashes of the server process

ASSUME TurnAssumption ==
  /\ PastTurns \in Nat
  /\ MaxTurns \in Nat \ {0}
  /\ MaxSteps \in Nat
  /\ MaxUses \in Nat
  /\ MaxCrashes \in Nat

Turns == 1 .. MaxTurns
NoTurn == 0

VARIABLES
  up,         \* the server process is running
  crashes,    \* crashes so far (bounds the model)
  turnCount,  \* turns started so far: turn t is also its root run
  turnState,  \* turnStates.get(conv): the turn shown to the user and its status
  controller, \* abortControllers.get(conv): the turn the kill switch stops
  activeRoot, \* activeRootRun.get(conv)
  compacting, \* 0, or the last row covered by the manual /compact that holds the conversation
  runStatus,  \* runs.status of each root run
  inbox,      \* undelivered run_messages of each root run
  item,       \* gazeta_items.status
  asker,      \* gazeta_items.run_id
  waiter,     \* keys of pendingHumanInputs
  store,      \* the messages table, in insertion order
  pc,         \* where each turn is parked
  aborted,    \* the turn's AbortSignal
  fresh,      \* trace.messages not handed to onMessages yet
  loc,        \* the remaining locals of runLoop and kickoffLiveTurn
  ran,        \* history: tool calls each turn has started
  told        \* history: answers each turn has been given

srv    == <<turnState, controller, activeRoot>>
runs   == <<runStatus, inbox>>
gazeta == <<item, asker, waiter>>
life   == <<up, crashes, turnCount>>
local  == <<pc, aborted, fresh, loc, ran, told>>
vars   == <<up, crashes, turnCount, turnState, controller, activeRoot, compacting,
            runStatus, inbox, item, asker, waiter, store, pc, aborted, fresh, loc, ran, told>>

(***************************************************************************)
(* A stored message: what kind it is, the turn it belongs to, how many     *)
(* tool_use or tool_result blocks it carries (for a summary: the last row  *)
(* it covers, its upTo), and the answers to Gazeta questions in its text.  *)
(***************************************************************************)
Row(kind, t, n, notes) == [kind |-> kind, turn |-> t, n |-> n, notes |-> notes]

Kinds == {"user", "reply", "results", "summary"}
Rows == [kind : Kinds, turn : 0 .. MaxTurns, n : Nat, notes : SUBSET Items]

Parked == {"prep", "compact", "recompact", "llm", "confirm", "tool", "human", "wait"}
PCs == Parked \cup {"none", "top", "use", "ended"}
ActiveStatuses == {"running", "waiting_children"}
FinalStatuses == {"done", "error", "aborted", "interrupted"}

Locals == [uses : 0 .. MaxUses, pend : 0 .. MaxUses, got : SUBSET Items,
           steps : 0 .. MaxSteps + 1, second : BOOLEAN, toolRan : BOOLEAN, storedAny : BOOLEAN,
           asking : SUBSET Items, upTo : Nat, msg : Nat]

FreshLocals == [uses |-> 0, pend |-> 0, got |-> {}, steps |-> 0, second |-> FALSE, toolRan |-> FALSE,
                storedAny |-> FALSE, asking |-> {}, upTo |-> 0, msg |-> 0]

Live(t) == pc[t] \notin {"none", "ended"}

\* The earlier turns, as they are in the database: a user message and a reply each.
Past == [k \in 1 .. 2 * PastTurns |-> Row(IF k % 2 = 1 THEN "user" ELSE "reply", NoTurn, 0, {})]

Busy == turnState.status = "running" \/ compacting # 0

Init ==
  /\ up = TRUE
  /\ crashes = 0
  /\ turnCount = 0
  /\ turnState = [id |-> NoTurn, status |-> "idle"]
  /\ controller = NoTurn
  /\ activeRoot = NoTurn
  /\ compacting = 0
  /\ runStatus = [t \in Turns |-> "none"]
  /\ inbox = [t \in Turns |-> {}]
  /\ item = [i \in Items |-> "absent"]
  /\ asker = [i \in Items |-> NoTurn]
  /\ waiter = {}
  /\ store = Past
  /\ pc = [t \in Turns |-> "none"]
  /\ aborted = [t \in Turns |-> FALSE]
  /\ fresh = [t \in Turns |-> <<>>]
  /\ loc = [t \in Turns |-> FreshLocals]
  /\ ran = [t \in Turns |-> 0]
  /\ told = [t \in Turns |-> {}]

-----------------------------------------------------------------------------
(* Building blocks shared by several actions.                              *)

\* kickoffLiveTurn up to its first await: the user message is already stored, the maps are set, the root run exists.
Kickoff(notes) ==
  LET t == turnCount + 1 IN
  /\ turnCount < MaxTurns
  /\ turnCount' = t
  /\ store' = Append(store, Row("user", t, 0, notes))
  /\ turnState' = [id |-> t, status |-> "running"]
  /\ controller' = t
  /\ activeRoot' = t
  /\ runStatus' = [runStatus EXCEPT ![t] = "running"]
  /\ pc' = [pc EXCEPT ![t] = "prep"]
  /\ loc' = [loc EXCEPT ![t] = [FreshLocals EXCEPT !.msg = Len(store) + 1]]
  /\ UNCHANGED <<aborted, fresh, ran, told>>

\* flushNew of the last batch, the final status, and the finally block of kickoffLiveTurn.
EndTurn(t, batch, status) ==
  /\ store' = store \o batch
  /\ fresh' = [fresh EXCEPT ![t] = <<>>]
  /\ runStatus' = [runStatus EXCEPT ![t] = status]
  /\ turnState' = [id |-> t, status |-> status]
  /\ controller' = NoTurn
  /\ activeRoot' = IF activeRoot = t THEN NoTurn ELSE activeRoot
  /\ pc' = [pc EXCEPT ![t] = "ended"]
  /\ loc' = [loc EXCEPT ![t] = FreshLocals]

\* Mutant of CloseOpenToolCalls: the open calls stay open.
KeepOpenToolCalls(t) == fresh[t]

\* closeOpenToolCalls: a reply whose tool calls have no results yet is closed with the results collected so far and
\* "Interrupted" for the others.
OpenReply(s) == s # <<>> /\ s[Len(s)].kind = "reply" /\ s[Len(s)].n > 0

CloseOpenToolCalls(t) ==
  IF OpenReply(fresh[t])
    THEN Append(fresh[t], Row("results", t, fresh[t][Len(fresh[t])].n, loc[t].got))
    ELSE fresh[t]

\* Mutant of FailTurn: the messages of the broken step are dropped instead of flushed.
FailTurnUnflushed(t, status) == EndTurn(t, <<>>, status)

\* The catch of runTurn followed by the catch and finally of kickoffLiveTurn.
FailTurn(t, status) == EndTurn(t, CloseOpenToolCalls(t), status)

\* One more tool result; after the last one of the reply the results become a message and the loop goes round.
PushResult(t, answers, l) ==
  LET got == l.got \cup answers
      full == l.pend + 1 = l.uses
      p == [l EXCEPT !.pend = @ + 1, !.got = IF full THEN {} ELSE got, !.asking = {}]
  IN /\ loc' = [loc EXCEPT ![t] = p]
     /\ told' = [told EXCEPT ![t] = @ \cup answers]
     /\ fresh' = IF full THEN [fresh EXCEPT ![t] = Append(@, Row("results", t, l.uses, got))] ELSE fresh
     /\ pc' = [pc EXCEPT ![t] = IF full THEN "top" ELSE "use"]

\* loadLlmHistory: the latest summary that covers only rows before row b, if there is one, and the messages between.
LatestSummary(b) ==
  {s \in DOMAIN store :
     /\ store[s].kind = "summary" /\ store[s].n < b
     /\ \A k \in DOMAIN store : store[k].kind = "summary" /\ store[k].n < b => k <= s}

HistoryBefore(b) ==
  {k \in DOMAIN store : k < b /\ store[k].kind # "summary" /\ \A s \in LatestSummary(b) : store[s].n < k}

\* Mutant of Cuts: the cut may fall in the middle of a turn.
CutsAnywhere(b, keep) ==
  LET H == HistoryBefore(b) IN
  {c \in H : Cardinality({k \in H : k < c}) >= 2 /\ Cardinality({k \in H : k >= c /\ store[k].kind = "user"}) <= keep}

\* planCompaction: the history is cut in front of a user message, at most `keep` user turns stay, and at least two rows
\* are summarised; which of the allowed cuts depends on the size of the tail.  The result: the last row summarised.
Cuts(b, keep) ==
  LET H == HistoryBefore(b) IN
  {c \in H : /\ store[c].kind = "user"
             /\ Cardinality({k \in H : k < c}) >= 2
             /\ Cardinality({k \in H : k >= c /\ store[k].kind = "user"}) <= keep}

UpTos(b, keep) ==
  {u \in HistoryBefore(b) : \E c \in Cuts(b, keep) : u < c /\ \A k \in HistoryBefore(b) : k < c => k <= u}

\* compactConversation stores its summary.
Summarise(upTo) == store' = Append(store, Row("summary", NoTurn, upTo, {}))

-----------------------------------------------------------------------------
(* The user.                                                               *)

\* POST /message on an idle conversation.
SendMessage ==
  /\ up
  /\ ~Busy
  /\ Kickoff({})
  /\ UNCHANGED <<up, crashes, compacting, inbox, gazeta>>

\* Mutants of Kill: the question's waiter is not settled; the approval gate does not listen to the abort.
KillKeepsWaiter ==
  /\ up
  /\ controller # NoTurn
  /\ aborted' = [aborted EXCEPT ![controller] = TRUE]
  /\ IF pc[controller] \in {"confirm", "human", "wait"}
       THEN FailTurn(controller, "aborted")
       ELSE UNCHANGED <<store, fresh, runStatus, srv, pc, loc>>
  /\ UNCHANGED <<life, compacting, inbox, gazeta, ran, told>>

KillDeafGate ==
  /\ up
  /\ controller # NoTurn
  /\ LET t == controller IN
     /\ aborted' = [aborted EXCEPT ![t] = TRUE]
     /\ IF pc[t] \in {"human", "wait"}
          THEN /\ FailTurn(t, "aborted")
               /\ waiter' = waiter \ loc[t].asking
          ELSE UNCHANGED <<store, fresh, runStatus, srv, pc, waiter, loc>>
  /\ UNCHANGED <<life, compacting, inbox, item, asker, ran, told>>

\* POST /kill.  A turn parked on an approval, on a question or in wait_agents is woken by the abort event and ends
\* before the next request is served; elsewhere it ends when the loop next looks at the signal.
Kill ==
  /\ up
  /\ controller # NoTurn
  /\ LET t == controller IN
     /\ aborted' = [aborted EXCEPT ![t] = TRUE]
     /\ IF pc[t] \in {"confirm", "human", "wait"}
          THEN /\ FailTurn(t, "aborted")
               /\ waiter' = waiter \ loc[t].asking
          ELSE UNCHANGED <<store, fresh, runStatus, srv, pc, waiter, loc>>
  /\ UNCHANGED <<life, compacting, inbox, item, asker, ran, told>>

\* POST /gazeta/:id/respond while the agent is blocked on the question: the answer is its tool_result.
RespondBlocking(i) ==
  /\ up
  /\ item[i] = "pending"
  /\ i \in waiter
  /\ item' = [item EXCEPT ![i] = "responded"]
  /\ waiter' = waiter \ {i}
  /\ \E t \in Turns : /\ pc[t] = "human"
                      /\ i \in loc[t].asking
                      /\ PushResult(t, {i}, loc[t])
  /\ UNCHANGED <<life, srv, compacting, runs, asker, store, aborted, ran>>

\* deliverAsyncAnswer, the run that asked (or another turn of the chat) is active: its inbox.
RespondToInbox(i) ==
  /\ up
  /\ item[i] = "pending"
  /\ i \notin waiter
  /\ item' = [item EXCEPT ![i] = "responded"]
  /\ LET target == IF runStatus[asker[i]] \in ActiveStatuses THEN asker[i] ELSE activeRoot IN
     /\ target # NoTurn
     /\ inbox' = [inbox EXCEPT ![target] = @ \cup {i}]
  /\ UNCHANGED <<life, srv, compacting, runStatus, asker, waiter, store, local>>

\* Mutant of RespondStartsTurn: nobody looks whether a turn is running.
RespondAlwaysStartsTurn(i) ==
  /\ up
  /\ item[i] = "pending"
  /\ i \notin waiter
  /\ item' = [item EXCEPT ![i] = "responded"]
  /\ Kickoff({i})
  /\ UNCHANGED <<up, crashes, compacting, inbox, asker, waiter>>

\* deliverAsyncAnswer in an idle chat: the answer is stored as a user message and starts a turn.
RespondStartsTurn(i) ==
  /\ up
  /\ item[i] = "pending"
  /\ i \notin waiter
  /\ runStatus[asker[i]] \notin ActiveStatuses
  /\ activeRoot = NoTurn
  /\ item' = [item EXCEPT ![i] = "responded"]
  /\ Kickoff({i})
  /\ UNCHANGED <<up, crashes, compacting, inbox, asker, waiter>>

\* POST /gazeta/:id/dismiss: whatever the item's status; a blocked agent goes on with "dismissed".
Dismiss(i) ==
  /\ up
  /\ item[i] # "absent"
  /\ item' = [item EXCEPT ![i] = "dismissed"]
  /\ waiter' = waiter \ {i}
  /\ IF i \in waiter
       THEN \E t \in Turns : /\ pc[t] = "human"
                             /\ i \in loc[t].asking
                             /\ PushResult(t, {}, loc[t])
       ELSE UNCHANGED <<loc, fresh, pc, told>>
  /\ UNCHANGED <<life, srv, compacting, runs, asker, store, aborted, ran>>

\* The timer of awaitHumanInput, then expireGazetaItem.
AnswerTimeout(i) ==
  /\ up
  /\ i \in waiter
  /\ waiter' = waiter \ {i}
  /\ item' = [item EXCEPT ![i] = IF @ = "pending" THEN "expired" ELSE @]
  /\ \E t \in Turns : /\ pc[t] = "human"
                      /\ i \in loc[t].asking
                      /\ PushResult(t, {}, loc[t])
  /\ UNCHANGED <<life, srv, compacting, runs, asker, store, aborted, ran>>

\* POST /compact: reads the history and holds the conversation until the helper model has answered, or failed.  The tail
\* may have any size here, so as many turns stay as possible.
CompactStart ==
  /\ up
  /\ ~Busy
  /\ compacting' \in UpTos(Len(store) + 1, 3)
  /\ \A u \in UpTos(Len(store) + 1, 3) : compacting' <= u
  /\ UNCHANGED <<life, srv, runs, gazeta, store, local>>

CompactEnd ==
  /\ up
  /\ compacting # 0
  /\ compacting' = 0
  /\ Summarise(compacting) \/ UNCHANGED store
  /\ UNCHANGED <<life, srv, runs, gazeta, local>>

-----------------------------------------------------------------------------
(* The turn.                                                               *)

\* Checkpoint, AGENTS.md, skills, model: the turn goes to the loop, first to an automatic compaction, or fails.
Prepared(t) ==
  /\ pc[t] = "prep"
  /\ \/ /\ \/ /\ pc' = [pc EXCEPT ![t] = "top"]
              /\ UNCHANGED loc
           \/ /\ pc' = [pc EXCEPT ![t] = "compact"]
              /\ \E u \in UpTos(loc[t].msg, 3) : loc' = [loc EXCEPT ![t].upTo = u]
        /\ UNCHANGED <<store, fresh, runStatus, srv>>
     \/ FailTurn(t, IF aborted[t] THEN "aborted" ELSE "error")
  /\ UNCHANGED <<life, compacting, inbox, gazeta, aborted, ran, told>>

\* compactNow before the first request: an abort ends the turn, any other failure is ignored.
Compacted(t) ==
  /\ pc[t] = "compact"
  /\ \/ /\ pc' = [pc EXCEPT ![t] = "top"]
        /\ Summarise(loc[t].upTo) \/ UNCHANGED store
        /\ loc' = [loc EXCEPT ![t].upTo = 0]
        /\ UNCHANGED <<fresh, runStatus, srv>>
     \/ /\ aborted[t]
        /\ FailTurn(t, "aborted")
  /\ UNCHANGED <<life, compacting, inbox, gazeta, aborted, ran, told>>

\* The messages waiting to be stored, the text of the inbox added to the last one.
WithInbox(t) ==
  LET k == Len(fresh[t]) IN IF k > 0 THEN [fresh[t] EXCEPT ![k].notes = @ \cup inbox[t]] ELSE <<>>

\* Mutant of LoopTop: the inbox is read and not marked delivered.
LoopTopRereads(t) ==
  /\ pc[t] = "top"
  /\ ~aborted[t]
  /\ store' = store \o WithInbox(t)
  /\ loc' = [loc EXCEPT ![t].steps = @ + 1, ![t].storedAny = @ \/ fresh[t] # <<>>]
  /\ fresh' = [fresh EXCEPT ![t] = <<>>]
  /\ told' = [told EXCEPT ![t] = @ \cup inbox[t]]
  /\ pc' = [pc EXCEPT ![t] = "llm"]
  /\ UNCHANGED <<life, srv, compacting, runs, gazeta, aborted, ran>>

\* The top of the loop: abort check, inbox drained into the last message, complete messages handed to the store, request
\* sent.  At the first step the last message is the user's own, which is not part of what is handed over.
LoopTop(t) ==
  /\ pc[t] = "top"
  /\ IF aborted[t]
       THEN /\ FailTurn(t, "aborted")
            /\ UNCHANGED <<inbox, told>>
       ELSE /\ store' = store \o WithInbox(t)
            /\ fresh' = [fresh EXCEPT ![t] = <<>>]
            /\ inbox' = [inbox EXCEPT ![t] = {}]
            /\ told' = [told EXCEPT ![t] = @ \cup inbox[t]]
            /\ loc' = [loc EXCEPT ![t].steps = @ + 1, ![t].storedAny = @ \/ fresh[t] # <<>>]
            /\ pc' = [pc EXCEPT ![t] = "llm"]
            /\ UNCHANGED <<runStatus, srv>>
  /\ UNCHANGED <<life, compacting, gazeta, aborted, ran>>

\* The model answers without tool calls: the turn is complete.
FinalReply(t) ==
  /\ pc[t] = "llm"
  /\ EndTurn(t, Append(fresh[t], Row("reply", t, 0, {})), "done")
  /\ UNCHANGED <<life, compacting, inbox, gazeta, aborted, ran, told>>

\* Mutant of ToolReply: the tool calls of a reply are not served from the first one on.
ToolReplyKeepsIndex(t) ==
  /\ pc[t] = "llm"
  /\ loc[t].steps <= MaxSteps
  /\ \E n \in 1 .. MaxUses :
       /\ fresh' = [fresh EXCEPT ![t] = Append(@, Row("reply", t, n, {}))]
       /\ loc' = [loc EXCEPT ![t].uses = n]
  /\ pc' = [pc EXCEPT ![t] = "use"]
  /\ UNCHANGED <<life, srv, compacting, runs, gazeta, store, aborted, ran, told>>

\* The model asks for tools.
ToolReply(t) ==
  /\ pc[t] = "llm"
  /\ loc[t].steps <= MaxSteps
  /\ \E n \in 1 .. MaxUses :
       /\ fresh' = [fresh EXCEPT ![t] = Append(@, Row("reply", t, n, {}))]
       /\ loc' = [loc EXCEPT ![t].uses = n, ![t].pend = 0]
  /\ pc' = [pc EXCEPT ![t] = "use"]
  /\ UNCHANGED <<life, srv, compacting, runs, gazeta, store, aborted, ran, told>>

\* Mutant of TooLong: any step may be tried again, whatever ran before it.
TooLongAnyStep(t) ==
  /\ pc[t] = "llm"
  /\ ~loc[t].second
  /\ ~aborted[t]
  /\ pc' = [pc EXCEPT ![t] = "recompact"]
  /\ \E u \in UpTos(loc[t].msg, 2) : loc' = [loc EXCEPT ![t].upTo = u]
  /\ UNCHANGED <<life, srv, compacting, runs, gazeta, store, aborted, fresh, ran, told>>

\* "Context too long" on a turn that has run no tool and stored nothing: compact and try once more.  (With nothing to
\* compact the error stands: RequestFails.)
TooLong(t) ==
  /\ pc[t] = "llm"
  /\ ~loc[t].second
  /\ ~loc[t].toolRan
  /\ ~loc[t].storedAny
  /\ ~aborted[t]
  /\ pc' = [pc EXCEPT ![t] = "recompact"]
  /\ \E u \in UpTos(loc[t].msg, 2) : loc' = [loc EXCEPT ![t].upTo = u]
  /\ UNCHANGED <<life, srv, compacting, runs, gazeta, store, aborted, fresh, ran, told>>

\* Any other failure of the request, a cancelled one included.
RequestFails(t) ==
  /\ pc[t] = "llm"
  /\ FailTurn(t, IF aborted[t] THEN "aborted" ELSE "error")
  /\ UNCHANGED <<life, compacting, inbox, gazeta, aborted, ran, told>>

\* compactNow(true) worked and the loop starts over on the compacted history, or it did not and the error stands.
Recompacted(t) ==
  /\ pc[t] = "recompact"
  /\ \/ /\ Summarise(loc[t].upTo)
        /\ pc' = [pc EXCEPT ![t] = "top"]
        /\ loc' = [loc EXCEPT ![t].second = TRUE, ![t].steps = 0, ![t].upTo = 0]
        /\ UNCHANGED <<fresh, runStatus, srv>>
     \/ FailTurn(t, IF aborted[t] THEN "aborted" ELSE "error")
  /\ UNCHANGED <<life, compacting, inbox, gazeta, aborted, ran, told>>

\* onToolStart and the handler up to its first await, once nothing stands in the call's way any more.
StartTool(t) ==
  LET l == [loc[t] EXCEPT !.toolRan = TRUE] IN
  /\ ran' = [ran EXCEPT ![t] = @ + 1]
  /\ \/ \* an ordinary tool, virtual or of an MCP server
        /\ loc' = [loc EXCEPT ![t] = l]
        /\ pc' = [pc EXCEPT ![t] = "tool"]
        /\ UNCHANGED <<fresh, told, item, asker, waiter, runStatus>>
     \/ \* wait_agents
        /\ loc' = [loc EXCEPT ![t] = l]
        /\ pc' = [pc EXCEPT ![t] = "wait"]
        /\ runStatus' = [runStatus EXCEPT ![t] = "waiting_children"]
        /\ UNCHANGED <<fresh, told, item, asker, waiter>>
     \/ \* request_human_input, blocking or not
        \E i \in Items :
          /\ item[i] = "absent"
          /\ item' = [item EXCEPT ![i] = "pending"]
          /\ asker' = [asker EXCEPT ![i] = t]
          /\ \/ /\ waiter' = waiter \cup {i}
                /\ loc' = [loc EXCEPT ![t] = [l EXCEPT !.asking = {i}]]
                /\ pc' = [pc EXCEPT ![t] = "human"]
                /\ UNCHANGED <<fresh, told>>
             \/ /\ PushResult(t, {}, l)
                /\ UNCHANGED waiter
          /\ UNCHANGED runStatus

\* Mutant of NextUse: the signal is looked at once per reply, not before each tool call.
NextUseUnchecked(t) ==
  /\ pc[t] = "use"
  /\ \/ PushResult(t, {}, loc[t]) /\ UNCHANGED <<gazeta, runStatus, ran>>
     \/ /\ pc' = [pc EXCEPT ![t] = "confirm"]
        /\ UNCHANGED <<loc, fresh, gazeta, runStatus, ran, told>>
     \/ StartTool(t)
  /\ UNCHANGED <<life, srv, compacting, inbox, store, aborted>>

\* The next tool call of the reply: refused with an error result, put to the approval gate, or started.
NextUse(t) ==
  /\ pc[t] = "use"
  /\ IF aborted[t]
       THEN /\ FailTurn(t, "aborted")
            /\ UNCHANGED <<gazeta, ran, told>>
       ELSE /\ \/ PushResult(t, {}, loc[t]) /\ UNCHANGED <<gazeta, runStatus, ran>>
               \/ /\ pc' = [pc EXCEPT ![t] = "confirm"]
                  /\ UNCHANGED <<loc, fresh, gazeta, runStatus, ran, told>>
               \/ StartTool(t)
            /\ UNCHANGED <<store, srv>>
  /\ UNCHANGED <<life, compacting, inbox, aborted>>

\* The gate answers.  (A kill settles the gate too: see Kill.)
Approve(t) ==
  /\ pc[t] = "confirm"
  /\ StartTool(t)
  /\ UNCHANGED <<life, srv, compacting, inbox, store, aborted>>

Deny(t) ==
  /\ pc[t] = "confirm"
  /\ PushResult(t, {}, loc[t])
  /\ UNCHANGED <<life, srv, compacting, runs, gazeta, store, aborted, ran>>

\* The tool returns, with an error result or not.  A virtual handler that throws after a kill ends the turn; so does an
\* MCP call that fails altogether (time limit, connection lost): callTool throws and the loop does not catch it.
ToolReturns(t) ==
  /\ pc[t] = "tool"
  /\ \/ PushResult(t, {}, loc[t]) /\ UNCHANGED <<store, runStatus, srv>>
     \/ FailTurn(t, IF aborted[t] THEN "aborted" ELSE "error") /\ UNCHANGED told
  /\ UNCHANGED <<life, compacting, inbox, gazeta, aborted, ran>>

\* wait_agents ends by itself: it empties the caller's inbox and reports the workers.
WaitReturns(t) ==
  /\ pc[t] = "wait"
  /\ inbox' = [inbox EXCEPT ![t] = {}]
  /\ runStatus' = [runStatus EXCEPT ![t] = "running"]
  /\ PushResult(t, {}, loc[t])
  /\ UNCHANGED <<life, srv, compacting, gazeta, store, aborted, ran>>

-----------------------------------------------------------------------------
(* The process.                                                            *)

\* The process dies: everything in memory is gone, the database stays.
Crash ==
  /\ up
  /\ crashes < MaxCrashes
  /\ up' = FALSE
  /\ crashes' = crashes + 1
  /\ turnState' = [id |-> NoTurn, status |-> "idle"]
  /\ controller' = NoTurn
  /\ activeRoot' = NoTurn
  /\ compacting' = 0
  /\ waiter' = {}
  /\ pc' = [t \in Turns |-> IF Live(t) THEN "ended" ELSE pc[t]]
  /\ fresh' = [t \in Turns |-> <<>>]
  /\ loc' = [t \in Turns |-> FreshLocals]
  /\ UNCHANGED <<turnCount, runs, item, asker, store, aborted, ran, told>>

\* buildApp: interruptOrphanedRuns.
Restart ==
  /\ ~up
  /\ up' = TRUE
  /\ runStatus' = [t \in Turns |-> IF runStatus[t] \in ActiveStatuses THEN "interrupted" ELSE runStatus[t]]
  /\ UNCHANGED <<crashes, turnCount, srv, compacting, inbox, gazeta, store, local>>

-----------------------------------------------------------------------------
TurnStep(t) ==
  \/ Prepared(t) \/ Compacted(t) \/ LoopTop(t)
  \/ FinalReply(t) \/ ToolReply(t) \/ TooLong(t) \/ RequestFails(t) \/ Recompacted(t)
  \/ NextUse(t) \/ Approve(t) \/ Deny(t) \/ ToolReturns(t) \/ WaitReturns(t)

UserStep ==
  \/ SendMessage \/ Kill \/ CompactStart \/ CompactEnd
  \/ \E i \in Items : \/ RespondBlocking(i) \/ RespondToInbox(i) \/ RespondStartsTurn(i)
                      \/ Dismiss(i) \/ AnswerTimeout(i)

Next ==
  \/ UserStep
  \/ \E t \in Turns : TurnStep(t)
  \/ Crash
  \/ Restart

Spec == Init /\ [][Next]_vars

-----------------------------------------------------------------------------
(* Properties.                                                             *)

TypeOK ==
  /\ up \in BOOLEAN
  /\ crashes \in 0 .. MaxCrashes
  /\ turnCount \in 0 .. MaxTurns
  /\ turnState \in [id : 0 .. MaxTurns, status : {"idle", "running", "done", "error", "aborted"}]
  /\ controller \in 0 .. MaxTurns
  /\ activeRoot \in 0 .. MaxTurns
  /\ compacting \in Nat
  /\ runStatus \in [Turns -> ActiveStatuses \cup FinalStatuses \cup {"none"}]
  /\ inbox \in [Turns -> SUBSET Items]
  /\ item \in [Items -> {"absent", "pending", "responded", "dismissed", "expired"}]
  /\ asker \in [Items -> 0 .. MaxTurns]
  /\ waiter \in SUBSET Items
  /\ store \in Seq(Rows)
  /\ pc \in [Turns -> PCs]
  /\ aborted \in [Turns -> BOOLEAN]
  /\ fresh \in [Turns -> Seq(Rows)]
  /\ loc \in [Turns -> Locals]
  /\ ran \in [Turns -> Nat]
  /\ told \in [Turns -> SUBSET Items]

\* A conversation runs one turn at a time, and the five places that say which one (turn state, abort controller, active
\* root run, run row, the running code itself) agree.  deliverAsyncAnswer starts turns without asking isBusy and the
\* finally block clears the controller without looking whose it is: both are right only because of this.
OneTurn ==
  /\ \A t \in Turns : Live(t) <=> t = activeRoot
  /\ controller = activeRoot
  /\ turnState.status = "running" <=> activeRoot # NoTurn
  /\ activeRoot # NoTurn => turnState.id = activeRoot
  /\ up => \A t \in Turns : runStatus[t] \in ActiveStatuses <=> Live(t)

\* Every stored tool call has its results in the next row, and results never stand without their call: a history with
\* an unanswered call is refused by the providers.  Holds at every moment, so also for what a crash leaves behind.
ClosedCalls ==
  \A k \in DOMAIN store :
    /\ store[k].kind = "reply" /\ store[k].n > 0 =>
         k < Len(store) /\ store[k + 1] = Row("results", store[k].turn, store[k].n, store[k + 1].notes)
    /\ store[k].kind = "results" =>
         k > 1 /\ store[k - 1] = Row("reply", store[k].turn, store[k].n, {})

\* An agent blocked on a question waits for an item that is still pending, and nothing else waits for it: a question
\* can always be answered or dismissed, and an answer never goes to a turn that is gone.
WaiterAnswerable ==
  /\ \A i \in waiter : item[i] = "pending" /\ \E t \in Turns : pc[t] = "human" /\ loc[t].asking = {i}
  /\ \A t \in Turns : pc[t] = "human" => loc[t].asking \subseteq waiter /\ Cardinality(loc[t].asking) = 1

\* Whatever tools a turn ran, the conversation has their calls and results when the turn is over, also when it was
\* killed or failed.
ResultsOf(t) == {k \in DOMAIN store : store[k].kind = "results" /\ store[k].turn = t}
ResultBlocks(t) == UNION {{k} \X (1 .. store[k].n) : k \in ResultsOf(t)}
ToolsOnRecord ==
  \A t \in Turns : runStatus[t] \in {"done", "error", "aborted"} => ran[t] <= Cardinality(ResultBlocks(t))

\* An answer reaches the conversation through one channel, once: the tool result of the blocked call, the inbox of a
\* run, or a user message of its own.
AnswerOnce ==
  \A i \in Items :
    Cardinality({t \in Turns : i \in inbox[t]}) + Cardinality({k \in DOMAIN store : i \in store[k].notes}) <= 1

\* After the kill switch no tool starts any more, whatever was waiting: an approval, a slow tool, a queued reply.
NoToolAfterKill == [][\A t \in Turns : aborted[t] => ran'[t] = ran[t]]_vars

\* The second attempt after "context too long" repeats nothing: no tool of the first one ran, none of its messages is
\* stored.
RetryIsClean ==
  [][\A t \in Turns : ~loc[t].second /\ loc'[t].second =>
       ran[t] = 0 /\ \A k \in DOMAIN store : store[k].turn = t => store[k].kind = "user"]_vars

\* The conversation keeps the promise of ChatLog: through every interleaving of answers, kills, retries, compactions and
\* crashes, rows are only added, by one turn at a time, and a step is stored whole or not at all.
Log == INSTANCE ChatLog WITH log <- store, live <- activeRoot, count <- turnCount
LogSpec == Log!Spec

\* A killed turn is over after some time: the abort reaches it at whichever await it is parked (request, tool, approval
\* gate, question, wait_agents, compaction), or the await ends by itself and the loop then sees the signal.
KilledTurnEnds == \A t \in Turns : (aborted[t] /\ Live(t)) ~> ~Live(t)

\* What a turn does without the user: awaits that are bounded by timers (checkpoint, AGENTS.md), by the provider
\* client's own time limits, or by the tools' own.  The answer of the approval gate is not among them.
Unattended(t) ==
  \/ Prepared(t) \/ Compacted(t) \/ LoopTop(t)
  \/ FinalReply(t) \/ ToolReply(t) \/ TooLong(t) \/ RequestFails(t) \/ Recompacted(t)
  \/ NextUse(t) \/ ToolReturns(t) \/ WaitReturns(t)

FairSpec == Spec /\ \A t \in Turns : WF_vars(Unattended(t))

-----------------------------------------------------------------------------
(* What comments and tool descriptions say and the code does not do.       *)

\* cli/src/gazeta.ts:17 "With wait=false you continue immediately and the answer arrives later as a message": a run
\* that completed has no answer left in its inbox, because nobody reads it there any more.
NoStrandedAnswer == \A t \in Turns : runStatus[t] = "done" => inbox[t] = {}

\* cli/src/server.ts:1023 "Held while the model writes the summary, so a message sent meanwhile cannot start a turn on
\* the history being rewritten".
NoTurnDuringCompaction == ~(compacting # 0 /\ turnState.status = "running")

\* cli/src/agents.ts:486 "drop the duplicate "finished" notices for these runs from our inbox": an answer of the user
\* that was put in an inbox is still there, or the run has read it, or it is stored.
AnswerNotDropped ==
  \A i \in Items : item[i] = "responded" =>
    \/ \E t \in Turns : i \in inbox[t] \cup told[t]
    \/ \E k \in DOMAIN store : i \in store[k].notes

\* cli/src/llm-loop.ts:334 "the previous step (reply + tool results, inbox text included) is complete": what a
\* completed turn was told is in the stored conversation.
ToldIsStored ==
  \A t \in Turns : runStatus[t] = "done" =>
    \A i \in told[t] : \E k \in DOMAIN store : i \in store[k].notes
=============================================================================
