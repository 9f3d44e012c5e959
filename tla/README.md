# A TLA+ model of EverythingApp

EverythingApp is a self-hosted assistant: a server (`cli/`) that holds
conversations with a language model, lets the model call tools (its own, those
of MCP servers, a sandbox container per project, a browser), asks the user for
approvals and answers, and starts worker agents.  Around it run a sandbox
supervisor, a git proxy, a browser service and a web client.

This directory models the parts of it where several things happen at once.  Every
server process is a single JavaScript thread, so the unit of interleaving is
the code between two `await`s; that is the grain of every action here.

Run a check with `tlc -config X.cfg MCModule.tla`, a proof with `tlapm M.tla`.
`PROJECT.json` lists the runs, which source lines each definition stands for,
and the hazards the properties are aimed at.  A helper that only names part of an
operation's lines is not listed in its `map`; the operation is.

1. [The system](#1-the-system)
2. [Modules](#2-modules)
3. [Runs](#3-runs)
4. [Disagreements between code and words](#4-disagreements-between-code-and-words)
5. [Proofs](#5-proofs)
6. [Only model-checked, not modelled, next](#6-only-model-checked-not-modelled-next)

## 1. The system

| Component | State it keeps | Operations | What makes it correct |
|---|---|---|---|
| Chat turns and tool loop (`cli/src/server.ts`, `llm-loop.ts`) | turn state, abort controller and active root run per conversation; the messages produced but not stored yet | message, kill, compact; one step per model reply and tool call | one turn at a time; the stored history always has every tool call answered; no tool after a kill; a killed turn ends |
| Gazeta (`gazeta.ts`) | items with a status, the waiters of blocked turns | ask, respond, dismiss, expire, digest | each answer reaches the agent once, by one channel; a blocked agent can be answered |
| Run registry (`runs.ts`) | runs with status and usage, messages between runs | create, set status, post, drain, interrupt at start-up | no active run without code that runs it |
| Context management (`context.ts`, `compaction.ts`) | summary rows | trim, plan a cut, summarise | a summary never separates a tool call from its result, and stands only for what the summariser was shown |
| Conversation log (`db.ts`) | messages with branch flags | append, edit, regenerate, retry, delete, clear | the history a turn starts from is one consistent branch |
| Agent tree (`agents.ts`) | abort controllers, promises, two semaphores | spawn, resume, message, wait, stop, budget | no worker outlives its turn; limits hold; slots are not lost |
| Approval gate (`web-approval.ts`, `command-policy.ts`, `policy-file.ts`) | pending approvals, chat permissions, stored grants, the policy file | confirm, resolve, revoke, time limit, abort | every approval is settled once; a grant allows only what was granted; nothing dangerous by a standing permission |
| Provider adapter (`providers/openai-compat.ts`) | hub state, budgets of repeats | request, stream, retry | nothing shown is shown again or lost |
| Provider registry and keys (`providers/catalog.ts`, `key-vault.ts`, `router.ts`) | providers, models, keys with a cache | create, edit, refresh, choose a model | a ghost chat is heard by local models only |
| Notifier, digest (`notifier.ts`, `gazeta.ts`) | timers, last sent | notify, flush | nothing is sent for what was answered meanwhile; ghosts stay silent |
| Storage (`db.ts`, `tools/db-backup.ts`) | the database file, its `-wal`, copies | start, migrate, back up, restore | a restore is exact, what it replaces is kept |
| Web tools (`web/`) | page cache, addresses seen by a chat | fetch, follow redirects, hand out parts | an address is opened only if it was shown; parts come from one copy |
| Connectors (`connector-routes.ts`, `mcp-client.ts`, `tool-registry.ts`) | connections, tools | add, edit, switch, delete, call | settings apply once they are at rest; no connection is left open |
| GitHub (`github.ts`, `github-routes.ts`), git proxy (`git-proxy/src`) | one credential; proxy tokens, clicks on Push, pushes waiting for approval | connect, refresh, disconnect; mint, push | no push without a click, a grant or an approval; a refresh token is used once |
| Sandbox manager (`sandbox-supervisor/src/sandboxes.ts`) | the map of sandboxes, start-ups in flight | claim, run, stop, destroy, browse, sweep, watchdogs | one container per owner; the volume goes only on destroy; the limit on running sandboxes |
| Terminals (`terminals.ts`) | shells with a command queue | run, close, sweep, time limit | each command gets its own result; the limit holds |
| Browser (`playwright-mcp/src`) | one Chromium per conversation, the elements listed last | claim, open, act, close, live view | a click hits the element that was listed; a navigation starts only at an approved host |
| Session (`session.ts`) | sessions, failed attempts | log in, use, log out | who uses the app stays in; guesses are bounded |
| Web client (`web/src`) | lists, the open chat, panels, cards | polls, events, clicks | once all answers are in, the screen shows what the server holds |

How they interact: a turn calls the approval gate, Gazeta and the agent tree and
awaits them; the user's answers come in by HTTP and settle those awaits; the kill
switch is one AbortSignal that all of them listen to; workers write to their
parent's inbox in the database and the parent's loop reads it; the supervisor, the
git proxy and the browser are separate processes reached by HTTP; the git proxy calls
back into the server for approvals; the client hears of changes by event streams and polls.
The database is one synchronous SQLite connection, so a statement, and a transaction, is atomic.

What is hard: a step that was decided before an `await` and is taken after it; answers that cross
(an approval, a kill, a time limit, the end of a turn; two requests of a browser tab);
a crash between two writes; limits reached by several at once.  `PROJECT.json` lists each
of these hazards at its line, with the properties aimed at it.

## 2. Modules

| Module | Models | Run | Proofs |
|---|---|---|---|
| `Turn` | one conversation: turns, loop, Gazeta, inbox, kill, compaction, crash | `turn_*` | `TurnProofs` |
| `ChatLog` | what a conversation promises about its stored messages; `Turn` implements it | `turn_live` | `TurnProofs` |
| `AgentTree` | one task: a turn and the workers below it | `tree`, `tree_kill` | `AgentTreeProofs` |
| `Slots` | the queue of worker requests in front of a provider | `slots` | `SlotsProofs` |
| `Terminals` | the shells of a sandbox and the commands queued for them | `terminals` | `TerminalsProofs` |
| `Sandboxes` | the manager's map of containers beside Docker | `sandboxes` | `SandboxesProofs` |
| `History` | the rows of a conversation under the routes that change them | `server` | `ServerProofs` |
| `Context`, `Provider`, `Models`, `Notices`, `Digest`, `Storage` | what is sent to a model and read from it; the registry and ghost chats; the notifier; the daily digest; the database as files | `server` | `ServerProofs` |
| `Approvals` | the gate of tool calls | `gate` | `GateProofs` |
| `Cards`, `GitPush`, `GitHubLogin`, `Web`, `Session` | the cards in the browser; pushes; the GitHub credential; the addresses a turn may open; logging in | `gate` | `GateProofs` |
| `Server`, `Gate`, `Workbench`, `Views` | the components of a run side by side | `server`, `gate`, `views` | `ServerProofs`, `GateProofs`, `WorkbenchProofs` |
| `Screen`, `Sidebar`, `Inbox`, `LiveView`, `WebSettings` | what a tab shows of a chat, the list of chats, the questions, the live view, the search settings | `views` | |
| `Workspace`, `SourceControl` | the files of a workspace and the Git panel | `views` | `WorkbenchProofs` |
| `WebPages`, `Browser`, `Connectors` | what the agent opens outside | `views` | `WorkbenchProofs` |
| `MC*` | constants of these for TLC; where a cfg can name them all there is no such module | | |

Definitions called "Mutant of ..." are wrong versions of the definition they follow or precede;
`PROJECT.json` says which property each one breaks.  A variable commented "history" or "ghost" is none of the
program: it records what a property speaks about.  A constant or variable commented "bound" ends the
state space and is none of the program either.

How the modules meet.  `Turn` sees a worker only through the message it leaves in the inbox and through
`wait_agents`; `AgentTree` sees the chat turn as run 0 and leaves out what is stored;
`Slots` is the inside of a request of a worker in `AgentTree`; `Provider` is the inside of a request of
a turn, `Approvals` and `Cards` the inside of its waiting for an approval; `History` is what
`Turn` calls `store`, seen over many turns and with the routes that rewrite it; `Context` chooses the cut that
`Turn` and `History` let be any legal one; `Terminals` is the inside of a running command
of `Sandboxes`; `GitHubLogin` is the credential that `GitPush` hands out.

### Turn

`pc[t]` says at which `await` turn `t` is parked; `"top"` and `"use"` are the two
places in `runLoop` where the abort signal is looked at (before a request, before
a tool call).  The variables follow the program: `turnState`, `controller`
(`abortControllers`), `activeRoot` (`activeRootRun`), `runStatus` and `inbox` (the
tables `runs` and `run_messages`), `item` and `asker` (`gazeta_items`), `waiter`
(`pendingHumanInputs`), `store` (the messages of the conversation).  `fresh[t]` is
the tail of `trace.messages` that `onMessages` has not been given yet: this is what
a crash loses.  `ran` and `told` are history variables.

| Action | Code |
|---|---|
| `SendMessage`, `Kickoff` | `POST /message`, `kickoffLiveTurn` to its first await |
| `Prepared`, `Compacted` | checkpoint and instructions read, the skill grants; `compactNow(false)` |
| `LoopTop` | abort check, inbox drained, messages stored, request sent |
| `FinalReply`, `ToolReply`, `TooLong`, `RequestFails`, `Recompacted` | the outcomes of the request |
| `NextUse`, `Approve`, `Deny`, `StartTool`, `ToolReturns`, `WaitReturns` | one tool call: refused, put to the gate, started, back |
| `RespondBlocking`, `RespondToInbox`, `RespondStartsTurn`, `Dismiss`, `AnswerTimeout` | the routes of Gazeta and `awaitHumanInput` |
| `Kill` | `POST /kill`; a turn parked on an approval, a question or `wait_agents` is woken by the abort event and runs to its end in microtasks, before any other request |
| `CompactStart`, `CompactEnd` | `POST /compact` |
| `Crash`, `Restart` | the process dies; `interruptOrphanedRuns` |

`EndTurn` is the whole of what happens at the end of a turn: the last messages are
stored, the run and the turn get their status, and the `finally` block clears
controller and active root.  `FailTurn` is the same behind
`closeOpenToolCalls`.

Abstractions: the text of messages is left out except for the answers of the user
(`notes`), the number of tool calls, and for summaries the last row covered.  Which
cut a compaction chooses depends on token estimates; the model allows every cut
`planCompaction` may return.  Which tools need approval is data: `NextUse` may go
either way.

### ChatLog

The promise of a conversation to its reader: rows are only added; one turn at a
time writes; a reply that calls tools is written together with its results; a
summary covers the log exactly up to a user message.  `Turn` implements it with
`log <- store`, `live <- activeRoot`, `count <- turnCount`.

### AgentTree

Run 0 is the turn of the chat, 1, 2, ... the workers in the order they were created.
`status` is the column of `runs`, `line` the run and its ancestors, `spent` the token
usage of the tree.  `registered` says whether `AgentManager.live` has an entry for the
run, `aborted` whether the abort signal of its code has fired, `linked` whether that
signal follows the root's.  `pc` is the await a run is parked on: a model request
(`"llm"`), a tool, a question or approval (`"ask"`), `wait_agents`; `"use"` is the code
between two of them, where the signal is looked at.  `late`, `unsaved` and `over` are
history variables.

| Action | Code |
|---|---|
| `FinalReply`, `ToolReply`, `RequestFails` | a model request of `runLoop`; the usage callback and `enforceBudget` run with the reply |
| `Breaks`, `NextRequest`, `StartTool`, `ToolReturns`, `Ask`, `Answered` | tool calls, and the abort check before each |
| `WaitAgents`, `WaitReturns` | `wait` |
| `Spawn` | `spawn_agent`: limits, run row, controller, `execute` |
| `Wake`, `UserMessage` | `send_message` of an agent or of the user to a finished worker: `resume` |
| `StopAgent`, `UserStop` | `stop`, called by an agent or by the button |
| `Kill` | `POST /kill` |
| `Leave` | `.finally(() => this.live.delete(run.id))` |
| `Restart` | `interruptOrphanedRuns` |

`Settled` is what happens in one go when runs end and controllers are aborted: runs parked on
a question or on `wait_agents` are over at once, others find their signal fired
when they come back; if the root ends, `stopTree` aborts all workers the manager knows.

One gap between continuations is modelled because it matters.  When an agent
calls `stop_agent`, the stopped runs that were parked write their last status before their entry
in `live` is deleted; the caller goes on in the same microtask round and may resume one of
them, whose new entry is then deleted.  Those runs are `leaving`, and until `Leave` only
the caller's own steps can happen (`Calm` guards all others).

Left out: choice of model, narrowing of tools, labels and goals (data), the
text of messages (inboxes are in `Turn`), ghost chats.  The step limit of a worker is a free
choice in `Breaks`, the time limit of `wait_agents` a free choice in `WaitReturns`.

### Slots

`Semaphore` and `queuedClient` of `agents.ts`, one action per continuation: `Release`
settles the promise of the first waiter, and `Resume` is the later moment when that
waiter counts itself in `active`.  In between a newcomer may `Enter`; the number of
requests can then be one above the limit for each such newcomer.  This is how the code
behaves and no property forbids it; `NoSlotLost` is the side that must not go wrong.

### Terminals

A call of `run()` is a number, in the order of arrival, and a shell is named after the call
that made the manager start it.  `terminals` and `creating` are the two maps of
`TerminalManager`, `line[s]` is the promise chain of a shell with the command being executed in front,
`closed`, `alive` and `killed` say how far the end of a shell has come: `closed` is set, and the
name freed, at once; the stream ends later.

| Action | Code |
|---|---|
| `RunInExisting`, `RunWaits`, `RunCreates` | `run` and `getOrCreate`: the terminal exists, is being started, has to be started (or is refused) |
| `Created`, `CreateFails` | the shell factory comes back |
| `Reports` | the end marker in the output |
| `TimeUp`, `Killed` | the timer of `execute`, and the `finish` behind its `close()` |
| `ShellExits` | the exit event |
| `CloseTerminal`, `CloseAll`, `SweepIdle` | `close`, `closeAll`, `sweepIdle` |

`Finish` is `finish` together with the start of the next command in the chain, a few
microtasks later.  Output and its truncation are left out.  A shell is its stream: what a
killed process does afterwards is outside.

### Sandboxes

A record of the manager and its container share an identity.  `box` and `vol` are what Docker holds,
`entry` is the manager's map, `rec` the running flag of each record, `start` is `inflight`,
`browse` `materializing`; `halt`, `destroy`, `gc` and `call` are the operations parked on an
await of Docker.

| Action | Code |
|---|---|
| `Claim`, `LookRunning`, `LookRoom`, `LookEvict`, `LookFull`, `Evicted`, `Boot`, `EnsureVolume`, `Create` and their failures | `claim`, `startOrCreate`, `ensureCapacity`, `createContainer` |
| `Begin`, `End` | a command or a rollback in the container |
| `Stop`, `HouseLooks`, `HouseStops`, `HousePasses`, `Mark`, `Kill` | `stopSandbox`, for an eviction, a timer or `POST /release`: look, close the terminals, mark, stop |
| `Destroy`, `DestroyCloses`, ..., `DestroyVolume` | `destroy`: wait for the start-up, close, list, remove, drop the volume |
| `Browse`, `BrowseVolume`, `BrowseCreate` | `browseTarget` |
| `Ages`, `SweepLooks`, `SweepChecks`, `SweepRemoves` | `sweep` |
| `Vanishes`, `Restart` | a container removed by someone else; the supervisor starts and adopts what Docker has |

What the code does not promise is left visible by three ghosts: `excess` (two start-ups were past
`ensureCapacity` together, or a restart adopted more than the limit), `blurred` (a container stopped by two at
once, or removed behind the manager's back) and `destroy[o].alone` (no claim or explorer request overlapped
the destroy).  Each property says what holds outside them.  Seen while modelling: a claim while a stop is
pending starts a container Docker still has running, is told so, and takes that for a failure, which
leaves a second container; a container whose start fails after its creation is left;
a restart may adopt such a container; the disk watchdog stops a sandbox without looking for
running commands; a rollback and a checkpoint do not count as busy; a stop that Docker refuses is only
warned about, so a sandbox marked stopped may run on (`KillFails`).

### History

`rows` are the messages by id; an edit retires rows, a delete marks them deleted (the code removes them).
A summary row carries `upTo` and, as history, the rows it `covers`; `words` is the row in which the
person first typed what a row says.  `given` is what the running turn started from, `jobs` the compactions
that have read the history and wait for the model.  `Edit` is the route of `POST /message` with a
`parentId`, which must name an active message; the parent comes from the bubbles the
chat view has folded (`web/src/lib/messages.ts`).

### Approvals

A call consists of parts: one for a tool, one for each sub-command of a shell line.  A part has a label, which grants and
policies name, and may cross an edge (a push, an unknown domain, a write outside the workspace).
`Confirm` is `confirmDetailed`: the skills of the turn, the stored grants, the policy, and else a card.
A card is settled by `Resolve` (the person, who may leave a grant of the scope chosen), `Expire`, `PusherGone` or the
end of its turn (`Kill`, `TurnEnd`); `Revoke` and `EditFile` change what passes, `Restart` forgets what was pending.
How a shell line is split is text processing and left out.

### The smaller modules

The comment at the head of each module says which code it is, what a step is and what is abstracted.
In one line each:

* `Context`: trimming old tool outputs, choosing the cut, the summary job with its chunks and second attempts; a message is its
  role, its length and its calls.  A turn that failed or was killed leaves its question, or the results of its last calls, as the
  newest message, and the next question is stored behind it (`Ask`): nothing merges the two, so such a request has two messages of
  the user in a row, and `RequestIsValid` allows two of one role nowhere else.  The summariser sees each text and tool output up to a limit, with the
  number of characters left out (`Rendered`); what lies beyond is read by nobody, and `HeadWasRead` claims no more.
* `Provider`: one model step: request, stream, what is shown when, repeats with a smaller budget or after a pause, tool calls
  recovered from text.
* `Models`: registry, refreshes of model lists, keys and their cache, the model of a chat, of the helper and of workers, and
  folders and chats that are ghosts.
* `Notices`, `Digest`: what leaves the house about an item, and when; one digest a day.
* `Storage`: main file, `-wal`, copies; starting, backing up, restoring, with a crash between any two steps.
* `Cards`: polls and answers of the approval cards; the modal, which shows the first card of the list.
* `GitPush`: proxy tokens, the click on Push that lets one push pass, the wait for an approval, the client that goes away.  A push
  has what it does and what the proxy says of it: `force` is `"unknown"` when GitHub cannot compare commits that are only in the
  pack, and the orchestrator takes that for an ordinary push.
* `GitHubLogin`: device flow, personal token, refresh, disconnect, the proxy's cache of the credential.
* `Web`: which addresses count as shown, the flag set by text that looks like a prompt injection, what asks again after it.
* `Session`: sessions with a sliding end, the limit on failed log-ins, the login screen of the tabs.
* `Screen`: stored messages fetched, running turn told by a stream, changes shown before they are confirmed.  The model may think
  between two pieces of text; the page then opens a second text part, and of such a reply (`Torn`) it shows words twice until the
  turn ends.
* `Sidebar`, `Inbox`: lists under requests that cross and connections that fail.
* `LiveView`: one panel, a socket for each chat shown, "in control" on both sides.
* `WebSettings`: the form for `web_search`, its badge and its test, with another tab beside it.
* `Workspace`: a staged write in parts, edits, checkpoints, rollback, the editor's draft.  A rollback may fail between its reset and
  its clean.  A `git stash -u` or a shell command between two parts of a write is not modelled.
* `SourceControl`: stage, discard, commit, branch, stash and conflict commands from what the panel read last.  Applying a hunk,
  reading the status again and reading the diff again are three steps.  A pop of the stash is git's three-way merge by hunks: it
  refuses to write over unstaged changes, leaves markers on a conflict, and then keeps the stash and the old list.
* `WebPages`: download, redirects, the shared cache, parts of one copy.
* `Browser`: the pool, the tools, the numbers of elements, the hosts allowed.  Only the address a navigation starts with is checked; its
  server may redirect anywhere (`Leads`).  The panel opens with the policy of the session it saw before its await.
* `Connectors`: connection objects, lost sessions and the one repeat, tools and who keeps them.  Which errors read as a lost session
  is a choice, so a call that did run may be repeated.

Three modules put these together: `Server` (what the orchestrator does between turns), `Gate` (where a
person decides) and `Views` (what the person looks at, beside `Workbench`: what is worked on and opened).  Their components share no state, so
a behaviour moves a single component, chosen by `part` in the initial state, and the others stand still: the state space is
the sum of the components', not the product, and a property of the run is a conjunction with
one line for each component.  Every component has variables of its own and starts in one of its initial
states, so that a behaviour of the sum is one of each component (`EachIsItsOwn`), and what is proved of a
component holds in the sum.  `ViewsInit` and `ViewsNext` are those of `Workbench` with conditions on the screens added, so a behaviour of
`Views` is one of `Workbench`, about which the theorems are.  Mutants of every component were substituted and found by its line.

## 3. Runs

| Run | Question | Properties | Bounds |
|---|---|---|---|
| `turn_loop` | storage, kill and second attempt inside one turn | `TypeOK`, `ClosedCalls`, `ToolsOnRecord`, `NoToolAfterKill`, `RetryIsClean` | 1 turn after 2 old ones, 2 steps of 2 tool calls, 2 questions, 1 crash |
| `turn_overlap` | answers against turns | `OneTurn`, `WaiterAnswerable`, `AnswerOnce` | 2 turns, 1 step of 1 call, 2 questions, 1 crash |
| `turn_live` | refinement of `ChatLog`; a killed turn ends | `LogSpec`, `KilledTurnEnds` | 2 turns, 1 old one, 1 step of 1 call, 1 question, 1 crash |
| `slots` | the queue keeps its books, loses no slot, and moves | `Books`, `NoSlotLost`, `TurnComes` | 4 workers, 2 slots |
| `tree` | status, end of the turn, budget, stops | `StatusMatches`, `StoppedWithTurn`, `OverBudgetOnce`, `StoppedEnds` | 2 workers, depth 2, a budget of 1 unit, 1 restart |
| `terminals` | the limit, the order of commands, an answer to each | `Sound`, `LimitKept`, `RunsInOrder`, `TimeoutWins`, `Answered` | 3 names, 2 terminals, 3 commands |
| `sandboxes` | the manager's map beside Docker | `Sound`, `LimitKept`, `MapIsTrue`, `DestroyIsTotal` | two scenes, see below |
| `server` | the orchestrator between turns | `Types`, `HistoryIsTrue`, `RequestsAreSound`, `NothingIsLost`, `GhostsAreKept` | 6 rows; a sum of 7 components |
| `gate` | where a person decides | `Types`, `CallsAreDecided`, `UsedAsGiven`, `SessionsHold`, `PassesAreMeant` | 2 calls, 1 grant, 2 chats; a sum of 6 |
| `views` | what the person looks at, what the agent opens | `Types`, `ScreensAreTrue`, `FilesAreMeant`, `OutsideIsOwned` | 2 files, 3 clicks, 2 pieces of text; a sum of 10 |
| `turn_stranded`, `tree_kill` | expected violations | `NoStrandedAnswer`; `KillReachesAll` | as small as the counterexample allows |

`MCServer.cfg`, `MCGate.cfg` and `MCViews.cfg` name the bounds of each component.

Why the bounds are enough.  `Turn`: two tool calls per reply are needed to have one result
and one open call when a turn is cut off; two steps so that a step is stored before
the next fails; two old turns so that the tighter second compaction has something
to cut; two turns and two questions so that an answer can find its own turn gone
and another one running.  More of each repeats these situations.  Questions are
interchangeable (symmetry in the runs without liveness), turns are not.  `Slots`: two in line
behind two slots, so that a waiter can leave from the head or from behind it while
another is woken.  `AgentTree`: two workers are one below the other or side by side,
and with the root there is a stopper, a stopped and a bystander; a budget of one unit is
gone at the first counted reply.  `Terminals`: three commands give one running, one in
line and one that arrives when the shell is closed, or three names against two terminals.
`Sandboxes`: in the scene "single" one owner meets everything that can go on about its sandbox, with one
timer, stop, sweep, explorer request or destroy at a time and a fault, or a destroy with one of the others
and no fault; two containers are an old one and its successor.  In "limit" two owners compete for one
place while timers stop sandboxes.  `History`: six rows are a turn with a tool call, a summary of it, and a
message after it that is edited or retried.  `Approvals`: two calls, one to leave the grant and one to use it, in the same chat or
another; one call of two parts of which a grant covers one.  `Screen`: two pieces of text and one thought are the
fewest that tear a reply.  `WebPages`: the third read is the first that evicts a copy from a cache of two.  In the lists and panels two requests under way are
the fewest that can cross; in `Storage` three commands are a backup, a restore of it and one beside it.

`CHECK_DEADLOCK FALSE` everywhere but in `slots`: when the bounded number of turns, commands, clicks or
restarts is used up and nothing runs, nothing is left to do, which is a legal rest state.

Fairness.  `Turn`: weak fairness for what a turn does by itself.  The awaits
behind it are bounded in the code: preparation by 15 s and 4 s timers, requests by
the provider client's idle limits, tools by the MCP call limit, `wait_agents` by its own limit.
Not among them: the user (approve, respond, kill, compact).  `Slots`: weak fairness of
`Resume` and `Release`, since a request has a time limit and the release is in a `finally`.
`AgentTree`: weak fairness of `Leave` (microtasks run) and strong fairness of a run's own
progress, for the same time limits; strong, because progress is switched off for the moment
of a `leaving`, and one reply has only finitely many calls to do so with.  `Terminals`:
the time limit of a command fires, `kill()` ends the stream after at most five seconds, and
the Docker call behind the factory returns, with a shell or an error; a command need not end.
`Sandboxes`: Docker's calls return; no run checks liveness of it.  The other modules state no fairness and have no
liveness properties; theirs speak of the moment when all that was under way has come in.

## 4. Disagreements between code and words

Two have a run of their own, in which TLC finds the counterexample:

* `turn_stranded`: an answer to a question asked with `wait=false` can be left in the
  inbox of a run that has already sent its last request.
* `tree_kill`: a resumed worker has a controller that follows nobody, so the kill switch
  does not reach it; it is stopped only when the turn itself has ended, which can take as long
  as the tool the turn is waiting for.

The following are stated as definitions in their modules, each with the words it comes from.  TLC found each of them violated on the
instance of its module; they have no run of their own, and a reader who wants
the trace names the definition in a cfg.

| Module | Definition | What happens |
|---|---|---|
| `Turn` | `NoTurnDuringCompaction` | an answer given while `/compact` runs starts a turn on the history being summarised (`server.ts:1562`) |
| `Turn` | `AnswerNotDropped` | `wait_agents` drops an answer that came in while it waited (`agents.ts:487`) |
| `Turn` | `ToldIsStored` | an answer read at the first step of a turn is sent but not stored (`llm-loop.ts:334`) |
| `AgentTree` | `TranscriptKept` | a worker that failed or was stopped is resumed without what it did (`agents.ts:352`) |
| `Sandboxes` | `SameContainer` | a sweep drops the entry of a container rebuilt while the old one was removed (`sandboxes.ts:571`) |
| `History` | `EditReplaces` | editing the message after a turn with tools leaves the call and retires its results (`server.ts:1391`) |
| `Models` | `ReportIsOfAddress` | what one address reported is believed of the next |
| `Provider` | `NetworkIsRetried` | the first attempt of a stream is not retried |
| `Notices` | `GhostIsSilent`, `DetailsOptedIn` | a worker that outlives its ghost chat speaks; the opt-in is read when the notice is made, not when it is sent |
| `Storage` | `CopiedBeforeMigration` | a copy that exists is taken for a copy of this data (`db.ts:335`) |
| `Cards` | `PickerIsForHarmless`, `ReadIsAnswered` | the card under the modal changes by a poll |
| `GitPush` | `ClickIsForItsPush` | another push of the workspace uses the click |
| `GitHubLogin` | `DisconnectHolds` | a refresh under way connects again |
| `Web` | `ModelTextIsNoSource`, `RedirectIsAsked` | summaries and echoed queries count as sources; a redirect's address counts as shown |
| `Session` | `BrowserKeepsIt`, `LoggedOutIsOut`, `ScreenHasReason` | the cookie's age counts from the log-in; a lost log-out leaves the session; a late 401 shows the login screen |
| `Screen` | `Resyncs`, `EditKeepsEarlier` | nothing is read again after a broken stream; the id of a message never fetched is sent as the start |
| `Sidebar` | `SpawnsOne` | an empty list answered late makes one chat more (`useConversations.ts:37`) |
| `Inbox` | `ViewIsTrue`, `ThatsEverything` | an item settled while the stream was lost keeps its form; items of one second fall between pages |
| `LiveView` | `PanelIsTrue`, `KeysOnlyInControl` | the end of the old chat's socket marks the new panel; keys are taken before control is given |
| `WebSettings` | `RefusedChangesNothing` | a refused save has saved a part |
| `Workspace` | `FilesAreWhole`, `SavedWhereTyped`, `DraftIsOfShown` | a rollback touches the temporary file; a save goes to the file shown meanwhile |
| `Browser` | `OneBrowser`, `StaleNeverHits` | the agent and the person launch one each; numbers of an earlier observation may hit |
| `Connectors` | `OffMeansOff` | overlapping requests on one connector leave it on |

The properties make room for the following, each of which differs from what a comment says; the models contain the behaviour:

* A push of new commits that rewrites a branch usually comes out as `force: null` (`git-proxy/src/push.ts:50-53`); the proxy says that is
  "treated cautiously" (`push.ts:13`), but the orchestrator asks only for `kind === 'delete'` or `force === true`
  (`github-routes.ts:91`).  A click on Push or a standing grant lets it pass; `RiskyIsAsked` speaks of the pushes the code
  recognises.
* Redirects are said to be blocked (`playwright-mcp/src/policy.ts`, `browserOpen.ts:31`), but the handler of `context.route` sees only
  the first address of a navigation (`browserContext.ts:201-215`).  `NavigationsWereAllowed` speaks of where a navigation starts.
* A repeat of a call is said to be safe because the request was rejected before it ran (`mcp-client.ts:103-105`), but a lost session is
  recognised by the text of the error (`mcp-client.ts:157-160`), which the error of a tool that ran may match.
* Blocks are said to finish in order (`useSSE.ts:92`), but a thought between two pieces of text makes a text part that the final text does not
  replace; `LiveIsTheTurn` speaks of the words of all other replies, and of every tool call.
* Two messages of the user in a row reach the provider after a turn that failed or was killed (`server.ts:1283-1291`, `1334-1357`;
  `sanitizeHistory`, `llm-loop.ts:212`).
* A text longer than 5000 characters, or a tool output longer than 700, is summarised without its rest (`context.ts:128-148`).

Seen while modelling, and in no property: tool-call ids that a stream leaves out fall
back to `call_<i>` and collide between steps; `lastInputTokens` is stale after an edit; the person's own "open" in the
live view ignores approved hosts; grants are stored twice when two cards of the same call are approved; a
policy file that cannot be read after a restart leaves the built-in deny list only; an unused click on Push
stays good for two minutes; `closeAll` does not see a shell that is being started; `edit_file` of two agents loses an
update; "Stage all" after a stale list marks a conflicted file as resolved; a web page of exactly the
size limit is said to be cut.

## 5. Proofs

All theorems hold for every value of the constants that satisfies the assumptions.  Each module of proofs states its
inductive invariant first, then the operators' lemmas, then a lemma for each action or group of actions, and last the theorems.

| Module | Theorems | Resting on |
|---|---|---|
| `TurnProofs` | `TypeCorrect`, `AtMostOneTurn`, `KillStopsTools`, `WaitersCanBeAnswered`, `AnswersArriveOnce`, `SecondTryIsClean`, `ToolsAreOnRecord`, `ImplementsChatLog`, `CallsAreClosed` | `IInv`, `GateOpen`, `Waiters`, `OnceInv`, `CleanInv`, `RecordInv`, `CutsKept` |
| `SlotsProofs` | `BooksAreRight`, `SlotsAreUsed` | `IInv` |
| `AgentTreeProofs` | `TypesAreKept`, `StatusTellsTheTruth`, `WorkersStopWithTheTurn`, `OverrunIsBounded` | `IInv`, with `OneOver` |
| `TerminalsProofs` | `TerminalsAreSound`, `TerminalsAreLimited`, `CommandsRunInOrder`, `TimeLimitIsTold` | `IInv` (`MapInv`, `Handed`), `Chains` |
| `SandboxesProofs` | `SandboxesAreSound`, `LimitIsKept`, `MapStaysTrue`, `DestroysAreTotal` | `IInv` |
| `ServerProofs` | `EachIsItsOwn`, `ServerKeepsToTypes`, `ServerHistoryIsTrue`, `ServerRequestsAreSound`, `NothingLeavesUnread`, `PrivateStaysPrivate`, and for each component `HistoryStaysTrue`, `SummariesStay`, `HistoryKeepsToTypes`, `RequestsAreValid`, `AnswersAreWhole`, `GhostsStayHome`, `NoticesAreTold`, `DigestsAreOpen`, `FilesAreKept` | `IInv` and `Bounds` of the rows, `ContextInv`, `ProviderInv`, `ShownInv`, `ThreadInv`, `ModelsInv`, `NoticesInv`, `DigestInv`, `StorageInv` |
| `GateProofs` | `EachIsItsOwn`, `GateKeepsToTypes`, `GateDecides`, `PermissionsAreUsedAsGiven`, `OnlyTheMeantPasses`, `GateSessionsHold`, and for each component `GrantsComeFromCards`, `PassesWereSeen`, `CardsAreAnsweredOnce`, `PushesAreApproved`, `PushSilenceIsNo`, `TokensAreRefreshedOnce`, `PagesWereShown`, `SuspicionAsks`, `SessionsLast` | `IInv`, `CardsInv`, `PushInv`, `LoginInv`, `WebInv`, `SessionInv` |
| `WorkbenchProofs` | `EachIsItsOwn`, `WorkbenchFilesAreMeant`, `WorkbenchOutsideIsOwned`, and for each component `ClicksAreMeant`, `WritesAreWhole`, `PagesAreWhole`, `BrowsersAreOwned`, `ConnectorsApply` | `ScmInv`, `WorkspaceInv`, `PagesInv`, `BrowserInv`, `ConnectorsInv` |

**Turn.**  `IInv` strengthens `OneTurn` with what each action needs: the type of every variable, the locals of
a turn that match its `pc` (a turn with open calls has a reply as its last fresh
message, `pend < uses`), and that turns not begun have no status.  One lemma per building block (`EndTurn`,
`PushResult`, `Kickoff`) and one per action.  On top of it stand four smaller invariants:

* `GateOpen`, a turn parked on an approval is not aborted, since the abort event settles the approval in the same step: hence no tool starts
  after a kill (`KillStopsTools`).
* `Waiters`: either no question has a waiter and no turn is blocked on one, or one turn waits for one question, which is
  open (`WaitersCanBeAnswered`).
* `OnceInv`: an answer is in at most one of an inbox, what the turn has picked up, and the rows
  (`Once`), what is picked up is handed over before the turn parks again (`GotEmpty`), and no two rows carry it (`NotedOnce`).
  `AnswerOnce` alone is not inductive: it does not see an answer between inbox and row.
* `CleanInv`: the two flags of the loop, a tool ran and something was stored, tell the truth of what the turn did, and a turn that
  compacts for its second attempt has neither set; so the second attempt repeats nothing (`SecondTryIsClean`).
* `RecordInv`: every tool a turn has started has its result stored, or owed by what the turn still holds (`Owed`: the calls of the
  reply that are open, or the results in the tail that is stored next); when the turn is over nothing is owed.  So what ran is on
  record whatever ended the turn (`ToolsAreOnRecord`).  The results are counted as a set of (row, place), which a batch only adds to.

**Refinement.**  `ImplementsChatLog` maps `log <- store`, `live <- activeRoot`, `count <- turnCount`.  It needs one fact more,
`CutsKept`: the row a compaction in progress will summarise up to, chosen several
awaits ago, still ends in front of a user message.  It holds because rows are only
appended and nothing but the compaction itself changes `upTo`.  `ClosedCalls` follows
from the refinement: every step of `ChatLog` keeps calls and results together.

**Slots.**  `Books` and `NoSlotLost` are proved together, for any number of workers and any positive
limit: `NoSlotLost` alone is not inductive, because serving the head of the line makes one
more woken worker only if the line holds each waiting worker exactly once.  Lemmas
say what `Append`, `Tail` and `RemoveAt` do to a sequence without repetitions.

**AgentTree.**  For any number of workers, depth, budget and number of restarts.  The first three invariants are inductive together.
`OverBudgetOnce` needs `OneOver`: after a first reply over the budget nothing is started any
more, and the worker, if the manager knows it, carries an abort signal that keeps it from
another request.  One lemma treats `Settled`, through which all endings go.

**Terminals.**  For any number of names and commands and any limit.  `MapInv` says what holds of a shell that is being started (its
name is not in the map, its id is not used); `Handed`, that only started shells have commands.
The order of commands needs `Chains`: the calls in one promise chain, and those waiting for a shell to start, are
increasing and, unless their shell is closed and will refuse them, later than the last one run for their name (`InLine`,
`InCreating`); a call being killed is at the head of the chain of a closed shell.  `CommandsRunInOrder` and `TimeLimitIsTold`
are action properties proved from it: what they say of one step depends on the whole chain it takes the next command from.

**Sandboxes.**  For any number of owners, containers, timers and commands.  `IInv` has seven parts: the types; `Owned`, every record
an operation holds belongs to its owner; `MapIsTrue`; `Halted`, a stop under way finds its container running, and two stops of one are on record as crossed; `Room`, unless `excess` one start-up at a time is past `ensureCapacity`,
and for it there is room, or the sandbox it evicts is about to be marked; `OneCreator`; `Alone`, what a destroy that nobody
overlapped has left.  `LimitKept` needs `Room` because a start-up is admitted several awaits before it counts.  The cardinality lemmas
(`Fewer` and its like) come from `FiniteSetTheorems`, which is why `Containers` is assumed finite.

**History.**  `Branch` says that every active summary covers exactly the messages up to `upTo`, one of them, and is younger than it (`Covers`),
and that no two active rows carry the same words (`Words`); `Given` and `Jobs` say the same of what the running
turn was given and of what a compaction under way has read.  `HistoryIsTrue` alone is not inductive:
it says nothing of the summary that is not chosen today and is chosen after a deletion.  `LoadIsWhole` shows that the head by summary and the tail
verbatim are the branch, `CutKeeps` and `AppendKeeps` that retiring and appending keep `Branch`; that a nonempty set of ids
has a newest one comes from the well-foundedness of `<`.  `HistoryKeepsToTypes` adds `Bounds` on the numbers.

**Server.**  `EachIsItsOwn` says that a behaviour of the sum is one of each component, so the theorems of the seven components
give those of the sum.

* Context, `ContextInv`: the person and the model speak in turn and results stand behind their calls; a compaction under way cuts in
  front of a turn of the person and its answers so far are whole.  `RequestIsValid` follows because a cut begins a turn, and a place where two messages of the person meet is one of the stored messages'.  What
  a summary covers was shown to the summariser because the chunks divide what is cut (`ChunksCover`).
* `TrimIsLeast`, for any messages, lengths and targets, speaks of sums over what a request holds.  Induction over data is out of reach,
  so the sums are recursive functions whose existence is a lemma of its own (`FoldExists`), and bounded induction is done by the least
  counterexample (`Climb`).  `EstimateFalls` accounts for the rounding of the estimate with each stub (hence `target + r.trimmed`);
  `Trimmed` says what the pass over the results has done up to the `i`-th message: everything big before it is a stub while the estimate
  is above the target, and nothing else has changed.
* Provider, `ProviderInv` with `AttemptsInv`: attempts count against the retries, or take from the wait budget.  `ShownInv`: while a
  stream comes in, text that is shown is all that came and cannot become a call any more, and text held back is not shown; hence
  `ShownIsKept`, for answers of any pieces.  `ThreadInv` says of the stored messages what `ResultsFollowCalls` says of the request; the
  request is a recursive function again.
* Models, `ModelsInv`: what a provider's address was said to be stands only with that address (`StatementsStand`), a chat that is a
  ghost lies in no open folder (`ChatIsPlaced`), the cache of keys is the vault; of everything heard somebody vouched for the model then.
* Notices, `NoticesInv`: a timer is for an item that was announced, and what is remembered as sent was the message of an item.
  Digest, `DigestInv`: an item from a ghost chat is one for good, and the day of a digest is noted when it begins.
* Storage, `StorageInv`: where the files are at each step of the server and of the tool (`ServerInv`, `ToolInv`), and what was replaced has a copy
  (`KeptInv`); that pruning leaves the newest backups is `NewestSuffice`, by cardinalities.

**Gate.**  Again a sum with `EachIsItsOwn`.

* Approvals, `IInv`: of each call how its outcome came about (`CallsInv`), of each grant which card it comes from
  (`GrantsInv`, `GrantsWereSeen`), of each turn that a killed one has nothing pending (`TurnsInv`).
  `PassesWereSeen` is an action property: it needs that a call answered once keeps its answer (`AnsweredStay`), since the grant that lets
  a call pass points to a card of long ago.
* Cards, `CardsInv`: a card on the screen whose answer is under way was brought back by a poll, and a grant is of a card that was made.
* GitPush, `PushInv`: at each stage of a push what it was let pass by (`Stages`); a click is spent by one push, and neither a click nor a grant
  is the ground of one the orchestrator calls risky.
* GitHubLogin, `LoginInv`: a refresh token is on its way once (`OnTheirWay`), and the vault holds a used one only while the answer with its
  successor is awaited or was lost (`Spare`).
* Web, `WebInv`: the grounds of the call under way (`CallHasGrounds`), and that what was said in the messages is noted as shown.
* Session, `SessionInv`: how far the end of a session can lag behind its last use (`Kept`), and that the limiter has forgotten no wrong
  password that still counts (`Remembered`).

**Workbench.**  The five components of `Views` that are not screens, again a sum with `EachIsItsOwn`; a step of `Views` is a step of `Workbench` by a
conjunct of its definition, so `FilesAreMeant` and `OutsideIsOwned` hold of it too.

* SourceControl, `ScmInv`: markers outside the work tree got there by the agent or by a stale list (`MarksInv`); no text git keeps has a version
  that is yet to be written (`VersionsInv`), so the hunk a person clicks on is found only where it is; and a marker the diff shows is still
  in the work tree or the index has moved on from the diff (`DiffInv`), which is why staging that hunk fails.  Pops are merges by hunks, and
  a lemma says of each case of the merge where a marker may come from.
* Workspace, `WorkspaceInv`: the temporary file of a write holds the parts that were sent unless a rollback touched it (`StagedAsSent`).
* WebPages, `PagesInv`: a page a chat has read from is still in the cache, with only pages read later behind it, or it is outdated, or
  as many pages were read since as the cache holds (`KeptOrPast`): what pushes a copy out is counted.
* Browser, `BrowserInv`: calls and the panel hold processes of their own conversation (`CallsInv`, `PanelsInv`), each process being launched is
  somebody's alone (`LaunchersInv`), until two claims cross a conversation launches one at a time (`PoolInv`), and until an answer is lost
  the numbers on the page are those of the last list (`ListInv`).
* Connectors, `ConnectorsInv`: every connection that is open, or being opened, is in the list, belongs to a request, or was opened again by a call
  (`OpenInv`); a connector whose requests never crossed is as set at rest, and in the middle of a request is as that request needs it (`UncrossedInv`).

Assumptions on the constants: `TurnAssumption`, `SlotsAssumption`, `TreeAssumption`, `TerminalsAssumption`, `RowsAssumption`, `GateAssumption`,
`LimitAssumption`, `BoundsAssumption`, `NoneAssumption`, `StopperAssumption`, and one for each component of `Server` and `Gate`
(`ContextAssumption`, `ProviderAssumption`, `ModelsAssumption`, `NoticesAssumption`, `DigestAssumption`, `StorageAssumption`; `CardsAssumption`,
`PushAssumption`, `LoginAssumption`, `WebAssumption`, `SessionAssumption`; `CommittedAreFiles`, `MainIsABranch`, `EditsAssumption`,
`FilesAssumption`, `PagesAssumption`, `BrowserAssumption`, `ConnectorsAssumption`): finite sets, natural
numbers, sets that do not overlap, the shape of calls, policies, answers and of the registry's rows as the app wrote them, limits of at least 1 where the code would otherwise refuse
everything, and that a use of a session is written down more often than a session runs out (`session.ts:16`).  One
is not enforced by the code: `AGENT_CONCURRENCY_LOCAL=0` is accepted (`agents.ts:61`) and blocks every worker for good;
`SlotsAssumption` excludes it.

## 6. Only model-checked, not modelled, next

Only model-checked:

* liveness (`KilledTurnEnds`, `TurnComes`, `StoppedEnds`, `Answered`), which is out of the prover's reach;
* `Types` and `ScreensAreTrue` of `views`: of `Screen`, `Sidebar`, `Inbox`, `LiveView` and `WebSettings` nothing is proved.

Every other property of the runs is a theorem.

The proof of `HistoryStaysTrue` takes of an edit only what the server checks, that the parent is an active message; which message the chat
view names is computed by a fold and does not matter to it.

Two steps of the code are left out of a model that has their neighbours, and change nothing in the properties: a `/compact` that stores
its summary between the row of a turn's message and the turn's own compaction (`History.TurnCompacts`), and a tool call recovered from the
text of the bare retry without tools (`Provider.CannotParse`).

No property covers the deadlock of agents that wait for each other or for themselves (`agents.ts:413`): only the time limit of
`wait_agents` ends it, and the models take that limit for granted.

Not modelled: the usage ledger (sums for display); search, config parsing and the secret check (queries and data); the sandbox MCP server
(thin wrappers over the supervisor's API); the git proxy's wire format and audit; preview networks and
resource settings of sandboxes; retention by age; skills and prompts; text extraction, injection
heuristics, archive parsing and shell scripts (data processing); layout and the other settings tabs of the web client.
`PROJECT.json` says for each component what is left out.

Next: proofs of the screens (`ScreensAreTrue`), whose invariants say what is on its way in each pipe; a composition of `AgentTree` with
`Slots`; the wait graph of `wait_agents`.
