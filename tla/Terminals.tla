----------------------------- MODULE Terminals -----------------------------
(***************************************************************************)
(* The terminals of one sandbox: classes Terminal and TerminalManager of   *)
(* sandbox-supervisor/src/terminals.ts.  A terminal is a shell that runs   *)
(* one command at a time; commands wait for it in a chain of promises.     *)
(* Starting a shell, killing one, and every command take time, and the     *)
(* shell may end, be closed by the user, by the idle sweep or by the stop  *)
(* of the sandbox while commands run, wait for their turn or wait for the  *)
(* shell to start.                                                         *)
(*                                                                         *)
(* A call of run() is a number, in the order of arrival; a shell is named  *)
(* by the call that made the manager start it.                             *)
(***************************************************************************)
EXTENDS Naturals, Sequences, FiniteSets, SequencesExt

CONSTANTS
  Names,        \* names of terminals
  MaxTerminals, \* opts.maxTerminals
  MaxCalls      \* bound: calls of run()

ASSUME TerminalsAssumption ==
  /\ IsFiniteSet(Names) /\ Names # {}
  /\ MaxTerminals \in Nat \ {0}
  /\ MaxCalls \in Nat

VARIABLES
  calls,     \* number of calls so far
  name,      \* the terminal each call asked for
  at,        \* the shell each call was handed to, 0 before
  status,    \* where each call is, or how it was answered
  terminals, \* TerminalManager.terminals: the shell behind each name, 0 for none
  creating,  \* TerminalManager.creating: the calls waiting for the shell the first of them made the manager start
  line,      \* the promise chain of each shell; the first one is being executed
  closed,    \* shells with closed = true
  alive,     \* shells whose stream has not ended
  killed,    \* shells with a kill() under way
  lastRun    \* history: the last command of each name that was written to a shell

vars == <<calls, name, at, status, terminals, creating, line, closed, alive, killed, lastRun>>

Calls == 1..MaxCalls

\* The verdicts of execute() and the errors of getOrCreate().
Answers == {"exit", "died", "timedOut", "closed", "refused", "failed"}

Statuses == {"new", "waiting", "queued", "running", "killing"} \union Answers

\* Terminals that exist: the map has them.
Open == {n \in Names : terminals[n] # 0}

\* Names whose shell is being started.
Pending == {n \in Names : creating[n] # <<>>}

Init ==
  /\ calls = 0
  /\ name = [c \in Calls |-> CHOOSE n \in Names : TRUE]
  /\ at = [c \in Calls |-> 0]
  /\ status = [c \in Calls |-> "new"]
  /\ terminals = [n \in Names |-> 0]
  /\ creating = [n \in Names |-> <<>>]
  /\ line = [c \in Calls |-> <<>>]
  /\ closed = {}
  /\ alive = {}
  /\ killed = {}
  /\ lastRun = [n \in Names |-> 0]

-----------------------------------------------------------------------------
(* The chain of one shell. *)

\* Mutant of MarkClosed: onClosed is not called.
MarkClosedKeepsName(S) ==
  /\ closed' = closed \union S
  /\ UNCHANGED terminals

\* markClosed for the shells in S: the name is free at once, whatever the shell still does.
MarkClosed(S) ==
  /\ closed' = closed \union S
  /\ terminals' = [n \in Names |-> IF terminals[n] \in S THEN 0 ELSE terminals[n]]

\* Mutant of Finish: execute does not look whether the shell is closed.
FinishRunsInClosed(s, answer) ==
  LET rest == Tail(line[s])
      ended == [status EXCEPT ![Head(line[s])] = answer]
  IN /\ line' = [line EXCEPT ![s] = rest]
     /\ IF rest = <<>>
        THEN status' = ended /\ UNCHANGED lastRun
        ELSE /\ status' = [ended EXCEPT ![Head(rest)] = "running"]
             /\ lastRun' = [lastRun EXCEPT ![name[Head(rest)]] = Head(rest)]

\* Mutant of Finish: a command that failed wedges the chain behind it.
FinishWedges(s, answer) ==
  /\ status' = [status EXCEPT ![Head(line[s])] = answer]
  /\ line' = [line EXCEPT ![s] = Tail(@)]
  /\ UNCHANGED lastRun

\* The verdict on the command being executed by shell s.  The next one starts; in a closed shell all others are answered
\* one after the other without being run.  Reads closed'.
Finish(s, answer) ==
  LET rest == Tail(line[s])
      ended == [status EXCEPT ![Head(line[s])] = answer]
  IN IF s \in closed' \/ rest = <<>>
     THEN /\ status' = [c \in Calls |-> IF c \in ToSet(rest) THEN "closed" ELSE ended[c]]
          /\ line' = [line EXCEPT ![s] = <<>>]
          /\ UNCHANGED lastRun
     ELSE /\ status' = [ended EXCEPT ![Head(rest)] = "running"]
          /\ line' = [line EXCEPT ![s] = rest]
          /\ lastRun' = [lastRun EXCEPT ![name[Head(rest)]] = Head(rest)]

-----------------------------------------------------------------------------
(* TerminalManager.run *)

Arrives(n) ==
  /\ calls < MaxCalls
  /\ calls' = calls + 1
  /\ name' = [name EXCEPT ![calls + 1] = n]

\* The terminal exists: the command joins its chain.
RunInExisting(n) ==
  LET c == calls + 1
      s == terminals[n]
      idle == line[s] = <<>>
  IN /\ Arrives(n)
     /\ s # 0
     /\ at' = [at EXCEPT ![c] = s]
     /\ line' = [line EXCEPT ![s] = Append(@, c)]
     /\ status' = [status EXCEPT ![c] = IF idle THEN "running" ELSE "queued"]
     /\ lastRun' = [lastRun EXCEPT ![n] = IF idle THEN c ELSE @]
     /\ UNCHANGED <<terminals, creating, closed, alive, killed>>

\* Its shell is being started: share it.
RunWaits(n) ==
  /\ Arrives(n)
  /\ terminals[n] = 0
  /\ creating[n] # <<>>
  /\ creating' = [creating EXCEPT ![n] = Append(@, calls + 1)]
  /\ status' = [status EXCEPT ![calls + 1] = "waiting"]
  /\ UNCHANGED <<at, terminals, line, closed, alive, killed, lastRun>>

\* Mutant of RunCreates: shells that are being started do not count.
RunCreatesOverLimit(n) ==
  /\ Arrives(n)
  /\ terminals[n] = 0
  /\ creating[n] = <<>>
  /\ IF Cardinality(Open) >= MaxTerminals
     THEN /\ status' = [status EXCEPT ![calls + 1] = "refused"]
          /\ UNCHANGED creating
     ELSE /\ status' = [status EXCEPT ![calls + 1] = "waiting"]
          /\ creating' = [creating EXCEPT ![n] = <<calls + 1>>]
  /\ UNCHANGED <<at, terminals, line, closed, alive, killed, lastRun>>

\* Start it, or refuse at the limit.
RunCreates(n) ==
  /\ Arrives(n)
  /\ terminals[n] = 0
  /\ creating[n] = <<>>
  /\ IF Cardinality(Open) + Cardinality(Pending) >= MaxTerminals
     THEN /\ status' = [status EXCEPT ![calls + 1] = "refused"]
          /\ UNCHANGED creating
     ELSE /\ status' = [status EXCEPT ![calls + 1] = "waiting"]
          /\ creating' = [creating EXCEPT ![n] = <<calls + 1>>]
  /\ UNCHANGED <<at, terminals, line, closed, alive, killed, lastRun>>

\* The factory has a shell: every call that waited for it joins the chain.
Created(n) ==
  LET all == creating[n]
      s == Head(all)
  IN /\ all # <<>>
     /\ terminals' = [terminals EXCEPT ![n] = s]
     /\ creating' = [creating EXCEPT ![n] = <<>>]
     /\ alive' = alive \union {s}
     /\ line' = [line EXCEPT ![s] = all]
     /\ at' = [c \in Calls |-> IF c \in ToSet(all) THEN s ELSE at[c]]
     /\ status' = [c \in Calls |-> IF c = s THEN "running" ELSE IF c \in ToSet(all) THEN "queued" ELSE status[c]]
     /\ lastRun' = [lastRun EXCEPT ![n] = s]
     /\ UNCHANGED <<calls, name, closed, killed>>

\* It has none (the container is gone, Docker refuses): all of them get the error.
CreateFails(n) ==
  /\ creating[n] # <<>>
  /\ creating' = [creating EXCEPT ![n] = <<>>]
  /\ status' = [c \in Calls |-> IF c \in ToSet(creating[n]) THEN "failed" ELSE status[c]]
  /\ UNCHANGED <<calls, name, at, terminals, line, closed, alive, killed, lastRun>>

-----------------------------------------------------------------------------
(* Terminal.execute *)

\* The end marker arrives.
Reports(s) ==
  /\ s \in alive
  /\ line[s] # <<>>
  /\ status[Head(line[s])] = "running"
  /\ UNCHANGED <<calls, name, at, terminals, creating, closed, alive, killed>>
  /\ Finish(s, "exit")

\* The time limit: both listeners are taken off and the shell is killed; the verdict waits for the kill.
TimeUp(s) ==
  /\ line[s] # <<>>
  /\ status[Head(line[s])] = "running"
  /\ status' = [status EXCEPT ![Head(line[s])] = "killing"]
  /\ MarkClosed({s})
  /\ killed' = killed \union {s}
  /\ UNCHANGED <<calls, name, at, creating, line, alive, lastRun>>

\* The kill after the time limit returns; kill() ends the stream before it does.
Killed(s) ==
  /\ s \notin alive
  /\ line[s] # <<>>
  /\ status[Head(line[s])] = "killing"
  /\ UNCHANGED <<calls, name, at, terminals, creating, closed, alive, killed>>
  /\ Finish(s, "timedOut")

\* Mutant of ShellExits: the exit listener is still there after the time limit.
ShellExitsAfterLimit(s) ==
  /\ s \in alive
  /\ alive' = alive \ {s}
  /\ MarkClosed({s})
  /\ IF line[s] # <<>>
     THEN Finish(s, "died")
     ELSE UNCHANGED <<status, line, lastRun>>
  /\ killed' = killed \ {s}
  /\ UNCHANGED <<calls, name, at, creating>>

\* The stream of a shell ends: `exit`, a crash, the container stopped, or kill().
ShellExits(s) ==
  /\ s \in alive
  /\ alive' = alive \ {s}
  /\ MarkClosed({s})
  /\ IF line[s] # <<>> /\ status[Head(line[s])] = "running"
     THEN Finish(s, "died")
     ELSE UNCHANGED <<status, line, lastRun>>
  /\ killed' = killed \ {s}
  /\ UNCHANGED <<calls, name, at, creating>>

-----------------------------------------------------------------------------
(* Terminal.close *)

Close(S) ==
  /\ S # {}
  /\ MarkClosed(S)
  /\ killed' = killed \union S
  /\ UNCHANGED <<calls, name, at, status, creating, line, alive, lastRun>>

\* POST /terminal/close
CloseTerminal(n) == n \in Open /\ Close({terminals[n]})

\* closeAll, when the sandbox is stopped or destroyed.
CloseAll == Close({terminals[n] : n \in Open})

\* sweepIdle closes those that have been idle for long, out of those that run nothing.
SweepIdle == \E N \in SUBSET {n \in Open : line[terminals[n]] = <<>>} : Close({terminals[n] : n \in N})

-----------------------------------------------------------------------------

Next ==
  \/ \E n \in Names :
        \/ RunInExisting(n)
        \/ RunWaits(n)
        \/ RunCreates(n)
        \/ Created(n)
        \/ CreateFails(n)
        \/ CloseTerminal(n)
  \/ \E s \in Calls : Reports(s) \/ TimeUp(s) \/ Killed(s) \/ ShellExits(s)
  \/ CloseAll
  \/ SweepIdle

Spec == Init /\ [][Next]_vars

\* The factory answers, the time limit of a command is finite, kill() gives up waiting after five seconds and ends the
\* stream, and a command that was timed out is then answered.  No command has to end by itself.
Fairness ==
  /\ \A n \in Names : WF_vars(Created(n) \/ CreateFails(n))
  /\ \A s \in Calls :
       /\ WF_vars(TimeUp(s))
       /\ WF_vars(s \in killed /\ ShellExits(s))
       /\ WF_vars(Killed(s))

FairSpec == Spec /\ Fairness

-----------------------------------------------------------------------------
(* Properties *)

\* Type correctness.  Those in `creating` wait for their shell.
TypeOK ==
  /\ calls \in 0..MaxCalls
  /\ name \in [Calls -> Names]
  /\ at \in [Calls -> 0..MaxCalls]
  /\ status \in [Calls -> Statuses]
  /\ terminals \in [Names -> 0..MaxCalls]
  /\ creating \in [Names -> Seq({c \in Calls : status[c] = "waiting"})]
  /\ line \in [Calls -> Seq(Calls)]
  /\ closed \subseteq Calls
  /\ alive \subseteq Calls
  /\ killed \subseteq Calls
  /\ lastRun \in [Names -> 0..MaxCalls]

\* No shell is lost: one that is not closed is in the map, under the name it was started for, where the limit counts it
\* and close, sweep and stop find it; the map names no closed one.  Broken if two calls could start a shell for one name.
Tracked == \A s \in Calls : s \in alive \ closed <=> terminals[name[s]] = s

\* The types together with the map.
Sound == TypeOK /\ Tracked

\* The terminals, with those being started, stay within the limit, although the check is made before the shell starts.
LimitKept == Cardinality(Open) + Cardinality(Pending) <= MaxTerminals

\* Commands for one name are run in the order the calls came in, across the death of a shell and the start of its
\* successor: a command still in line behind a dead shell is never run after one that came later.
RunsInOrder == [][\A n \in Names : lastRun'[n] >= lastRun[n]]_vars

\* A command that ran into its time limit is reported as such, never as a shell that died, although killing the shell
\* fires its exit event first (comment in execute).
TimeoutWins == [][\A c \in Calls : status[c] = "killing" => status'[c] \in {"killing", "timedOut"}]_vars

\* Every call is answered: the death of a shell, a failed start or a time limit never leaves one waiting.
Answered == \A c \in Calls : status[c] # "new" ~> status[c] \in Answers
=============================================================================
