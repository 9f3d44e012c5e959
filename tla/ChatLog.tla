------------------------------- MODULE ChatLog -------------------------------
(***************************************************************************)
(* What a conversation promises about the messages it keeps: the log only  *)
(* grows, one turn at a time writes to it, a turn's message comes first,   *)
(* every reply that calls tools is written together with all its results,  *)
(* and a plain reply is the turn's last word.  Summaries of older turns    *)
(* may be put in at any time.  Turn.tla, with its queues, waiters, kill    *)
(* switch and crashes, implements it.                                      *)
(***************************************************************************)
EXTENDS Naturals, Sequences

CONSTANTS
  Items,    \* answers of the user that can be noted in a message
  MaxTurns, \* bound: turns
  MaxUses   \* bound: tool calls in a reply

VARIABLES
  log,   \* the stored messages
  live,  \* the turn that may write, 0 when the conversation is idle
  count  \* turns begun so far

Entry(kind, t, n, notes) == [kind |-> kind, turn |-> t, n |-> n, notes |-> notes]

\* A step of turn t, whole: the reply with its n tool calls and the message with their n results.
Step(t, n, notes) == <<Entry("reply", t, n, {}), Entry("results", t, n, notes)>>

Init ==
  /\ log \in Seq([kind : {"user", "reply"}, turn : {0}, n : {0}, notes : {{}}])
  /\ live = 0
  /\ count = 0

\* A user message begins a turn; it may be the answer to a question.
Begin(notes) ==
  /\ live = 0
  /\ count < MaxTurns
  /\ count' = count + 1
  /\ live' = count + 1
  /\ log' = Append(log, Entry("user", count + 1, 0, notes))

\* A whole step of the live turn.
Record(n, notes) ==
  /\ live # 0
  /\ log' = log \o Step(live, n, notes)
  /\ UNCHANGED <<live, count>>

\* The turn ends with its final reply, with a whole step (closed by force), or without a word.
Finish(words) ==
  /\ live # 0
  /\ live' = 0
  /\ log' = log \o words
  /\ UNCHANGED count

FinishReply == Finish(<<Entry("reply", live, 0, {})>>)
FinishStep(n, notes) == Finish(Step(live, n, notes))
FinishSilent == Finish(<<>>)

\* What a summary leaves verbatim begins with a user message: no step is cut in two, no answer loses its question.
Summary(upTo) ==
  /\ \E k \in DOMAIN log : /\ upTo < k
                          /\ log[k].kind = "user"
                          /\ \A j \in upTo + 1 .. k - 1 : log[j].kind = "summary"
  /\ log' = Append(log, Entry("summary", 0, upTo, {}))
  /\ UNCHANGED <<live, count>>

Next ==
  \/ \E notes \in SUBSET Items : Begin(notes)
  \/ \E n \in 1 .. MaxUses, notes \in SUBSET Items : Record(n, notes) \/ FinishStep(n, notes)
  \/ FinishReply
  \/ FinishSilent
  \/ \E upTo \in DOMAIN log : Summary(upTo)

Spec == Init /\ [][Next]_<<log, live, count>>
=============================================================================
