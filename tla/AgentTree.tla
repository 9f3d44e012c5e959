------------------------------ MODULE AgentTree ------------------------------
(***************************************************************************)
(* One task: the chat turn (run 0) and the worker agents below it, as the  *)
(* AgentManager of cli/src/agents.ts runs them.  Workers are started by    *)
(* other runs, woken again after they finished, and stopped by agents, by  *)
(* the user, by the kill switch, by the token budget and with their turn.  *)
(*                                                                         *)
(* A run is a loop of model requests and tool calls; `pc` says at which    *)
(* await it is parked.  "use" is the code between two of them, where the   *)
(* abort signal is looked at.  The queue for the request is module Slots,  *)
(* the inboxes are modelled in Turn.                                       *)
(***************************************************************************)
EXTENDS Naturals, FiniteSets, FiniteSetsExt

CONSTANTS
  MaxRuns,    \* maxSpawnsPerTree
  MaxDepth,   \* maxDepth
  Hard,       \* hardBudgetTokens, in units
  MaxCrashes  \* bound: how often the process dies

ASSUME TreeAssumption ==
  /\ MaxRuns \in Nat
  /\ MaxDepth \in Nat
  /\ Hard \in Nat \ {0}
  /\ MaxCrashes \in Nat

Root == 0
Workers == 1..MaxRuns   \* in the order of their creation
Runs == 0..MaxRuns

ActiveStatuses == {"running", "waiting_input", "waiting_children"}
TerminalStatuses == {"done", "error", "aborted", "interrupted"}

VARIABLES
  crashes,
  count,      \* workers created so far
  line,       \* a run and the runs above it
  status,     \* runs.status
  spent,      \* tokens of the whole tree, counted up to the budget
  pc,         \* where the code of a run is
  registered, \* AgentManager.live has an entry for the run
  aborted,    \* the abort signal of the code that runs it
  linked,     \* that signal follows the root's
  late,       \* started when the turn was over
  unsaved,    \* it did work that is not in its transcript
  over,       \* replies a worker got after the budget was gone, counted up to two
  leaving     \* runs that have their last status while their entry in AgentManager.live is not deleted yet

store == <<count, line, status, spent>>
code == <<pc, registered, aborted, linked>>
history == <<late, unsaved, over>>
vars == <<crashes, store, code, history, leaving>>

\* Mutant of Parked: the approval gate does not listen to the signal.
ParkedOnWaitOnly == {"wait"}

Parked == {"ask", "wait"}  \* awaits that the abort signal ends by itself

Executing(r) == pc[r] # "idle"
Created == {0} \cup 1..count
Below(r) == {x \in Created : r \in line[x]}  \* a run and its descendants
Stoppable(S) == {r \in S : registered[r]}

Init ==
  /\ crashes = 0
  /\ count = 0
  /\ line = [r \in Runs |-> IF r = Root THEN {Root} ELSE {}]
  /\ status = [r \in Runs |-> IF r = Root THEN "running" ELSE "none"]
  /\ spent = 0
  /\ pc = [r \in Runs |-> IF r = Root THEN "llm" ELSE "idle"]
  /\ registered = [r \in Runs |-> r = Root]
  /\ aborted = [r \in Runs |-> FALSE]
  /\ linked = [r \in Runs |-> FALSE]
  /\ late = [r \in Runs |-> FALSE]
  /\ unsaved = [r \in Runs |-> FALSE]
  /\ over = [r \in Runs |-> 0]
  /\ leaving = {}

-----------------------------------------------------------------------------
(* What happens in one go when runs end and controllers are aborted.       *)

\* Mutant of Hit: the end of a turn is left to the controllers that follow the root's.
HitOnlyAborted(R, S) == S \ R

\* The turn ends with the root, and its end stops the workers that AgentManager.live knows.
Hit(R, S) ==
  LET rootEnds == Root \in R \/ (Root \in S /\ pc[Root] \in Parked)
  IN (S \cup IF rootEnds THEN Stoppable(Workers) ELSE {}) \ R

\* The runs that are over at once: R, and those of the aborted that were parked.
Cut(R, S) == {r \in Hit(R, S) : pc[r] \in Parked}
Gone(R, S) == R \cup Cut(R, S)
PlacesAfter(R, S) == [r \in Runs |-> IF r \in Gone(R, S) THEN "idle" ELSE pc[r]]

\* R end with status st and the controllers of S are aborted.
\* Ended runs are deleted from AgentManager.live, unless they `stay` for the moment (StopAgent).
Settled(R, st, S, stay) ==
  /\ status' = [r \in Runs |-> IF r \in R THEN st ELSE IF r \in Cut(R, S) THEN "aborted" ELSE status[r]]
  /\ aborted' = [r \in Runs |-> r \notin Gone(R, S) /\ (aborted[r] \/ (r \in Hit(R, S) /\ Executing(r)))]
  /\ linked' = [r \in Runs |-> r \notin Gone(R, S) /\ linked[r]]
  /\ registered' = [r \in Runs |-> registered[r] /\ (r \in Gone(R, S) => stay)]
  /\ leaving' = IF stay THEN leaving \cup Gone(R, S) ELSE leaving

Stop(R, st, S, stay) == Settled(R, st, S, stay) /\ pc' = PlacesAfter(R, S)

Abort(S) == Stop({}, "aborted", S, FALSE)

Ends(r, st) == Stop({r}, st, {}, FALSE)

\* The catch of execute, and of the turn.
FailedStatus(r) == IF aborted[r] THEN "aborted" ELSE "error"

\* While the ends of stopped runs wait in the microtask queue, only the agent that stopped them goes on.
Calm == leaving = {}

MayCall(p) == pc[p] = "use" /\ ~aborted[p]

Park(r, place, st) ==
  /\ pc' = [pc EXCEPT ![r] = place]
  /\ status' = [status EXCEPT ![r] = st]
  /\ UNCHANGED <<crashes, count, line, spent, registered, aborted, linked, history, leaving>>

-----------------------------------------------------------------------------
(* The model request of a run.                                             *)

\* The usage of a reply is added to that of the tree.
Spend(r, total) ==
  /\ total \in {spent, IF spent < Hard THEN spent + 1 ELSE Hard}
  /\ spent' = total
  /\ over' = [over EXCEPT ![r] = IF r # Root /\ spent = Hard /\ @ < 2 THEN @ + 1 ELSE @]

\* Mutant of BudgetStops: acts on the reply that reaches the budget, not on later ones.
BudgetStopsOnce(r, total) == IF r # Root /\ total = Hard /\ spent < Hard THEN Stoppable(Workers) ELSE {}

\* enforceBudget: a worker's reply that finds the budget gone stops all workers.
BudgetStops(r, total) == IF r # Root /\ total = Hard THEN Stoppable(Workers) ELSE {}

\* The last reply: the run is done and its transcript stored, whatever the signal says.
FinalReply(r) ==
  /\ Calm
  /\ pc[r] = "llm"
  /\ \E total \in 0..Hard : Spend(r, total) /\ Stop({r}, "done", BudgetStops(r, total), FALSE)
  /\ unsaved' = [unsaved EXCEPT ![r] = FALSE]
  /\ UNCHANGED <<crashes, count, line, late>>

\* A reply that calls tools.
ToolReply(r) ==
  /\ Calm
  /\ pc[r] = "llm"
  /\ \E total \in 0..Hard :
       /\ Spend(r, total)
       /\ Settled({}, "aborted", BudgetStops(r, total), FALSE)
       /\ pc' = [PlacesAfter({}, BudgetStops(r, total)) EXCEPT ![r] = "use"]
  /\ unsaved' = [unsaved EXCEPT ![r] = r # Root]
  /\ UNCHANGED <<crashes, count, line, late>>

\* The request fails, or the abort signal cancels it, in line or at the provider.
RequestFails(r) ==
  /\ Calm
  /\ pc[r] = "llm"
  /\ Ends(r, FailedStatus(r))
  /\ UNCHANGED <<crashes, count, line, spent, history>>

-----------------------------------------------------------------------------
(* Between two requests: the tool calls of a reply, and the next request.  *)

\* The abort check before every tool call and every request; for workers also the step limit.
Breaks(r) ==
  /\ Calm
  /\ pc[r] = "use"
  /\ aborted[r] \/ r # Root
  /\ Ends(r, FailedStatus(r))
  /\ UNCHANGED <<crashes, count, line, spent, history>>

NextRequest(r) == Calm /\ MayCall(r) /\ Park(r, "llm", status[r])

StartTool(r) == Calm /\ MayCall(r) /\ Park(r, "tool", status[r])

\* A tool does not look at the signal; one that throws ends the run.
ToolReturns(r) ==
  /\ Calm
  /\ pc[r] = "tool"
  /\ \/ Park(r, "use", status[r])
     \/ Ends(r, FailedStatus(r)) /\ UNCHANGED <<crashes, count, line, spent, history>>

\* An approval or a question to the user.  Only workers show it in their status.
Ask(r) == Calm /\ MayCall(r) /\ Park(r, "ask", IF r = Root THEN status[r] ELSE "waiting_input")
Answered(r) == Calm /\ pc[r] = "ask" /\ Park(r, "use", "running")

\* wait_agents: until the runs are done, or a time limit of the caller's choice.
WaitAgents(r) == Calm /\ MayCall(r) /\ Park(r, "wait", "waiting_children")
WaitReturns(r) == Calm /\ pc[r] = "wait" /\ Park(r, "use", "running")

-----------------------------------------------------------------------------
(* Starting and stopping.                                                  *)

Start(x, isLinked) ==
  /\ status' = [status EXCEPT ![x] = "running"]
  /\ pc' = [pc EXCEPT ![x] = "llm"]
  /\ registered' = [registered EXCEPT ![x] = TRUE]
  /\ aborted' = [aborted EXCEPT ![x] = FALSE]
  /\ linked' = [linked EXCEPT ![x] = isLinked]
  /\ late' = [late EXCEPT ![x] = ~Executing(Root)]
  /\ UNCHANGED <<crashes, spent, unsaved, over, leaving>>

\* spawn_agent: the new controller follows its parent's, if AgentManager.live knows that one.
Spawn(p) ==
  /\ MayCall(p)
  /\ Cardinality(line[p]) <= MaxDepth
  /\ count < MaxRuns
  /\ spent < Hard
  /\ count' = count + 1
  /\ line' = [line EXCEPT ![count + 1] = line[p] \cup {count + 1}]
  /\ Start(count + 1, registered[p] /\ (p = Root \/ linked[p]))

\* resume: a finished worker starts again on its stored transcript; its new controller follows nobody.
Resume(x) ==
  /\ x \in Workers
  /\ status[x] \in TerminalStatuses
  /\ spent < Hard
  /\ Start(x, FALSE)
  /\ UNCHANGED <<count, line>>

\* send_message to a finished worker; the route of the user's message to one.
Wake(p, x) == MayCall(p) /\ Resume(x)
UserMessage(x) == Calm /\ Resume(x)

\* stop_agent: the caller goes on while the runs it ended are still on their way out.
StopAgent(p, x) ==
  /\ MayCall(p)
  /\ x \in Created \ {Root}
  /\ Stop({}, "aborted", Stoppable(Below(x)), TRUE)
  /\ UNCHANGED <<crashes, count, line, spent, history>>

\* `.finally(() => this.live.delete(run.id))`, whatever the entry is by now.
Leave ==
  /\ ~Calm
  /\ leaving' = {}
  /\ registered' = [r \in Runs |-> registered[r] /\ r \notin leaving]
  /\ UNCHANGED <<crashes, store, pc, aborted, linked, history>>

\* The stop button of a run.
UserStop(x) ==
  /\ Calm
  /\ x \in Created
  /\ Abort(Stoppable(Below(x)))
  /\ UNCHANGED <<crashes, count, line, spent, history>>

\* The kill switch of the chat: the root's controller, and those that follow it.
Kill ==
  /\ Calm
  /\ Executing(Root)
  /\ Abort({Root} \cup {r \in Workers : linked[r]})
  /\ UNCHANGED <<crashes, count, line, spent, history>>

\* Mutant of Restart: only runs that were running count as orphaned, not those that waited.
RestartRunningOnly ==
  /\ crashes < MaxCrashes
  /\ crashes' = crashes + 1
  /\ status' = [r \in Runs |-> IF status[r] = "running" THEN "interrupted" ELSE status[r]]
  /\ pc' = [r \in Runs |-> "idle"]
  /\ registered' = [r \in Runs |-> FALSE]
  /\ aborted' = [r \in Runs |-> FALSE]
  /\ linked' = [r \in Runs |-> FALSE]
  /\ leaving' = {}
  /\ UNCHANGED <<count, line, spent, history>>

\* The process dies and starts again: interruptOrphanedRuns.
Restart ==
  /\ crashes < MaxCrashes
  /\ crashes' = crashes + 1
  /\ status' = [r \in Runs |-> IF status[r] \in ActiveStatuses THEN "interrupted" ELSE status[r]]
  /\ pc' = [r \in Runs |-> "idle"]
  /\ registered' = [r \in Runs |-> FALSE]
  /\ aborted' = [r \in Runs |-> FALSE]
  /\ linked' = [r \in Runs |-> FALSE]
  /\ leaving' = {}
  /\ UNCHANGED <<count, line, spent, history>>

Progress(r) ==
  \/ FinalReply(r) \/ ToolReply(r) \/ RequestFails(r)
  \/ Breaks(r) \/ NextRequest(r)
  \/ ToolReturns(r) \/ WaitReturns(r)

Next ==
  \/ \E r \in Runs :
       Progress(r) \/ StartTool(r) \/ Ask(r) \/ Answered(r) \/ WaitAgents(r) \/ Spawn(r)
  \/ \E p \in Runs, x \in Runs : Wake(p, x) \/ StopAgent(p, x)
  \/ \E x \in Runs : UserMessage(x) \/ UserStop(x)
  \/ Leave
  \/ Kill
  \/ Restart

Spec == Init /\ [][Next]_vars

\* Requests, tools and waits have time limits, and microtasks run; strong fairness because Progress is off while runs leave,
\* and a reply has finitely many calls to keep it off with.  The user need not answer.
FairSpec == Spec /\ WF_vars(Leave) /\ \A r \in Runs : SF_vars(Progress(r))

-----------------------------------------------------------------------------
TypeOK ==
  /\ crashes \in 0..MaxCrashes
  /\ count \in 0..MaxRuns
  /\ line \in [Runs -> SUBSET Runs]
  /\ status \in [Runs -> ActiveStatuses \cup TerminalStatuses \cup {"none"}]
  /\ spent \in 0..Hard
  /\ pc \in [Runs -> {"idle", "llm", "use", "tool", "ask", "wait"}]
  /\ registered \in [Runs -> BOOLEAN]
  /\ aborted \in [Runs -> BOOLEAN]
  /\ linked \in [Runs -> BOOLEAN]
  /\ late \in [Runs -> BOOLEAN]
  /\ unsaved \in [Runs -> BOOLEAN]
  /\ over \in [Runs -> 0..2]
  /\ leaving \subseteq Runs

\* A run has an active status exactly while code runs it: no dead agent that looks alive, no live one that looks finished
\* (and could be resumed a second time).
StatusMatches == \A r \in Runs : status[r] \in ActiveStatuses <=> Executing(r)

\* Workers end with their turn: when the root is over, a worker that still executes was told to stop, or was started later
\* (by the user), or AgentManager.live lost it: resumed among the leaving, it has no entry after Leave.
StoppedWithTurn == ~Executing(Root) => \A r \in Workers : Executing(r) => aborted[r] \/ late[r] \/ ~registered[r]

\* The budget: once it is gone, a worker the manager knows gets at most one more reply, over all its resumptions.
OverBudgetOnce == \A r \in Workers : over[r] = 2 => ~registered[r]

\* A stopped run ends, wherever it is.
StoppedEnds == \A r \in Runs : aborted[r] ~> ~aborted[r]

\* After the kill switch no worker of the task starts a tool: cli/src/agents.ts:38 "stop/kill switch stops the whole subtree".
\* The code: a resumed worker has a controller that the kill switch does not reach.
KillReachesAll ==
  [][\A r \in Workers : aborted[Root] => ~(pc[r] # "tool" /\ pc'[r] = "tool")]_vars

\* A finished worker that is started again goes on from all it did: cli/src/agents.ts:252 "It keeps its goal, model, tools
\* and full transcript."  The code stores the transcript of a successful run only.
TranscriptKept == [][\A r \in Workers : status[r] \in TerminalStatuses /\ pc'[r] = "llm" => ~unsaved[r]]_vars
=============================================================================
