------------------------------- MODULE Context -------------------------------
(***************************************************************************)
(* What is sent to the model when a conversation outgrows its window       *)
(* (cli/src/context.ts, cli/src/compaction.ts): the trimmed view of old    *)
(* tool outputs, the place where a conversation is cut, and the summary    *)
(* that replaces what is in front of the cut.                              *)
(*                                                                         *)
(* A message is its role, the length of its text, the tool calls it makes  *)
(* and the tool results it carries; lengths are characters.  Who may run a *)
(* compaction, and when, is Turn's and History's.                          *)
(***************************************************************************)
EXTENDS Naturals, FiniteSets, Sequences, SequencesExt, FiniteSetsExt

CONSTANTS Lengths,     \* lengths of a tool output
          StubChars,   \* length of the line a dropped output leaves
          KeepTurns,   \* planCompaction's keepTurns
          ChunkParts,  \* messages rendered into one request to the summariser
          TextChars,   \* characters of a text the summariser is shown
          ToolChars,   \* characters of a tool output the summariser is shown
          Targets,     \* token targets tried, for a view and for a kept tail
          MaxMessages, \* bound: messages of the conversation
          MaxJobs      \* bound: compactions started

VARIABLES messages, \* the stored conversation, from its newest summary on
          summary,  \* the messages the summary stands for, 0 when there is none
          nextId,   \* ids of tool calls
          job,      \* the compaction under way
          jobs
vars == <<messages, summary, nextId, job, jobs>>

NoJob == [at |-> "none", cut |-> 0, chunks |-> <<>>, done |-> <<>>, attempt |-> 0]
Message(role, text, uses, results) == [role |-> role, text |-> text, uses |-> uses, results |-> results]

TypeOK ==
    /\ \A i \in DOMAIN messages : messages[i].role \in {"user", "assistant"}
    /\ Len(messages) <= MaxMessages /\ summary \in Nat /\ nextId \in Nat
    /\ job.at \in {"none", "asking"} /\ job.attempt \in 0 .. 1 /\ jobs \in 0 .. MaxJobs

Init == messages = <<>> /\ summary = 0 /\ nextId = 1 /\ job = NoJob /\ jobs = 0

-----------------------------------------------------------------------------
(* Sizes.  One token is 3.5 characters, rounded up once per estimate. *)

Tokens(chars) == (2 * chars + 6) \div 7
Sum(s) == LET upTo[n \in 0 .. Len(s)] == IF n = 0 THEN 0 ELSE upTo[n - 1] + s[n] IN upTo[Len(s)]
Chars(m) == m.text + Sum([k \in DOMAIN m.results |-> m.results[k].chars]) + 2 * Cardinality(m.uses)
EstimateTokens(ms) == Tokens(Sum([i \in DOMAIN ms |-> Chars(ms[i]) + 1]))

-----------------------------------------------------------------------------
(* The view: old tool outputs become a stub until the estimate fits. *)

CarriesResults(m) == m.results # <<>>
ResultMsgs(ms) == {i \in DOMAIN ms : CarriesResults(ms[i])}
\* (AnyResult: a plausible bug, the output the model is about to read is dropped too.)
AnyResult(ms) == ResultMsgs(ms)
Candidates(ms) == ResultMsgs(ms) \ (IF ResultMsgs(ms) = {} THEN {} ELSE {Max(ResultMsgs(ms))})
Tiny(chars) == chars <= StubChars + 1
Dropped(r) == IF Tiny(r.chars) THEN r ELSE [r EXCEPT !.chars = StubChars]

\* The estimate is kept up to date block by block, rounding each time.
Gain(m) == Sum([k \in DOMAIN m.results |-> IF Tiny(m.results[k].chars) THEN 0 ELSE Tokens(m.results[k].chars - StubChars)])
TrimOne(acc, i, target) ==
    IF acc.total <= target THEN acc
    ELSE [out     |-> [acc.out EXCEPT ![i].results = [k \in DOMAIN @ |-> Dropped(@[k])]],
          total   |-> IF Gain(acc.out[i]) > acc.total THEN 0 ELSE acc.total - Gain(acc.out[i]),
          trimmed |-> acc.trimmed + Cardinality({k \in DOMAIN acc.out[i].results : ~Tiny(acc.out[i].results[k].chars)})]
TrimForContext(ms, target) ==
    LET upTo[i \in 0 .. Len(ms)] ==
          IF i = 0 THEN [out |-> ms, total |-> EstimateTokens(ms), trimmed |-> 0]
          ELSE IF i \in Candidates(ms) THEN TrimOne(upTo[i - 1], i, target) ELSE upTo[i - 1]
    IN upTo[Len(ms)]

-----------------------------------------------------------------------------
(* The cut. *)

IsUserTurn(m) == m.role = "user" /\ ~CarriesResults(m)
Turns(ms) == {i \in DOMAIN ms : IsUserTurn(ms[i])}
\* Where the last n turns begin.
From(ms, n) == CHOOSE i \in Turns(ms) : Cardinality({j \in Turns(ms) : j >= i}) = n
Kept(ms, cut) == SubSeq(ms, cut, Len(ms))
Sensible(ms, n, target) ==
    /\ From(ms, n) > 2 /\ ~CarriesResults(ms[From(ms, n)])
    /\ EstimateTokens(Kept(ms, From(ms, n))) <= target \/ n = 1
\* Index of the first message that stays; 0 when there is nothing sensible to cut.
PlanCompaction(ms, target) ==
    LET kept == {n \in 1 .. KeepTurns : n < Cardinality(Turns(ms)) /\ Sensible(ms, n, target)}
    IN IF kept = {} THEN 0 ELSE From(ms, Max(kept))

-----------------------------------------------------------------------------
(* The conversation. *)

Idle == job.at = "none" /\ Len(messages) < MaxMessages
Add(m) == messages' = Append(messages, m) /\ UNCHANGED <<summary, job, jobs>>
Newest == messages[Len(messages)]

\* A turn that failed or was killed leaves its question, or the results of its
\* last calls, as the newest message; the next question is stored behind it.
Ask == /\ Idle /\ (messages # <<>> => Newest.uses = {})
       /\ Add(Message("user", 2, {}, <<>>)) /\ UNCHANGED nextId
Reply == /\ Idle /\ messages # <<>> /\ Newest.role = "user"
         /\ Add(Message("assistant", 2, {}, <<>>)) /\ UNCHANGED nextId
Call == /\ Idle /\ messages # <<>> /\ Newest.role = "user"
        /\ \E n \in 1 .. 2 : Add(Message("assistant", 0, nextId .. nextId + n - 1, <<>>)) /\ nextId' = nextId + n
\* The results of all calls, and the messages of other agents that came in meanwhile.
Results ==
    /\ Idle /\ messages # <<>> /\ Newest.uses # {}
    /\ \E size \in [Newest.uses -> Lengths], note \in {0, 2} :
        Add(Message("user", note, {}, [k \in 1 .. Cardinality(Newest.uses) |->
              LET id == Min(Newest.uses) + k - 1 IN [id |-> id, chars |-> size[id]]]))
    /\ UNCHANGED nextId

-----------------------------------------------------------------------------
(* The summary. *)

\* A text is shown up to a limit, with the number of characters left out behind it.
Clip(chars, limit) == IF chars <= limit THEN [shown |-> chars, more |-> 0] ELSE [shown |-> limit, more |-> chars - limit]
Rendered(i) == [at    |-> i,
                text  |-> Clip(messages[i].text, TextChars),
                tools |-> [k \in DOMAIN messages[i].results |-> Clip(messages[i].results[k].chars, ToolChars)]]
\* The transcript of the head, in chunks of bounded length.
Chunks(cut) ==
    LET n == (cut - 1 + ChunkParts - 1) \div ChunkParts
    IN [c \in 1 .. n |-> {Rendered(i) : i \in {j \in 1 .. cut - 1 : (j - 1) \div ChunkParts = c - 1}}]

Compact(target) ==
    /\ job.at = "none" /\ jobs < MaxJobs /\ PlanCompaction(messages, target) # 0
    /\ LET cut == PlanCompaction(messages, target)
       IN job' = [at |-> "asking", cut |-> cut, chunks |-> Chunks(cut), done |-> <<>>, attempt |-> 0]
    /\ jobs' = jobs + 1
    /\ UNCHANGED <<messages, summary, nextId>>

\* A good answer: the new summary is made of the old one and this chunk.
\* (Trusting: a plausible bug, the second answer is taken even when it was cut off.)
Trusting(answer) == answer = "whole" \/ (answer = "cut off" /\ job.attempt = 1)
Usable(answer) == answer = "whole"
Answered(answer) ==
    /\ job.at = "asking" /\ Len(job.done) < Len(job.chunks)
    /\ job' = IF Usable(answer) THEN [job EXCEPT !.done = Append(@, answer), !.attempt = 0]
              ELSE IF answer = "cut off" /\ job.attempt = 0 THEN [job EXCEPT !.attempt = 1]
              ELSE NoJob
    /\ UNCHANGED <<messages, summary, nextId, jobs>>

\* appendSummary, and what loadLlmHistory makes of it: the tail, the summary in front of its first user message.
StoreSummary ==
    /\ job.at = "asking" /\ Len(job.done) = Len(job.chunks)
    /\ messages' = Kept(messages, job.cut)
    /\ summary' = summary + job.cut - 1
    /\ job' = NoJob /\ UNCHANGED <<nextId, jobs>>

Note == Message("user", 2, {}, <<>>)
\* (NoteInFront: a plausible bug, the summary is a message of its own.)
NoteInFront == IF summary = 0 THEN messages ELSE <<Note>> \o messages
WithSummary ==
    IF summary = 0 THEN messages
    ELSE IF messages # <<>> /\ messages[1].role = "user" THEN [messages EXCEPT ![1].text = @ + Note.text]
    ELSE <<Note>> \o messages

Next ==
    \/ Ask \/ Reply \/ Call \/ Results \/ StoreSummary
    \/ \E t \in Targets : Compact(t)
    \/ \E a \in {"whole", "cut off", "empty", "failed"} : Answered(a)

Spec == Init /\ [][Next]_vars

-----------------------------------------------------------------------------
Ids(r) == {r[k].id : k \in DOMAIN r}

\* The places where two messages of one role meet.
Doubled(ms) == {i \in 1 .. Len(ms) - 1 : ms[i].role = ms[i + 1].role}

(***************************************************************************)
(* A request never holds a tool result whose call was summarised away, nor *)
(* a call without its result, except the newest.  It begins with a user's  *)
(* message and never holds two of the assistant in a row; two of the user  *)
(* meet only where a question follows a turn that ended without a reply,   *)
(* and putting the summary in front adds no such place (context.ts:94-98,  *)
(* 209-219; nothing merges two questions, server.ts:1334-1357).            *)
(***************************************************************************)
RequestIsValid ==
    LET ms == WithSummary
    IN /\ ms # <<>> => ms[1].role = "user"
       /\ \A i \in Doubled(ms) : IsUserTurn(ms[i + 1])
       /\ Doubled(ms) = Doubled(messages)
       /\ \A i \in DOMAIN ms : CarriesResults(ms[i]) => i > 1 /\ Ids(ms[i].results) = ms[i - 1].uses
       /\ \A i \in 1 .. Len(ms) - 1 : ms[i].uses # {} => CarriesResults(ms[i + 1])

(***************************************************************************)
(* The view keeps every call, result and text and the newest outputs as    *)
(* they are; it drops the oldest outputs first and stops as soon as the    *)
(* request fits, but for the one token that rounding each output may cost  *)
(* (context.ts:51-90).                                                     *)
(***************************************************************************)
TrimIsLeast ==
    \A target \in Targets :
        LET r    == TrimForContext(messages, target)
            cut  == {i \in DOMAIN messages : r.out[i] # messages[i]}
            back == [r.out EXCEPT ![Max(cut)] = messages[Max(cut)]]
            big  == {i \in Candidates(messages) : \E k \in DOMAIN messages[i].results : ~Tiny(messages[i].results[k].chars)}
            last == IF ResultMsgs(messages) = {} THEN 0 ELSE Max(ResultMsgs(messages))
        IN /\ \A i \in DOMAIN messages : r.out[i].uses = messages[i].uses /\ Ids(r.out[i].results) = Ids(messages[i].results)
           /\ last \notin cut
           /\ \A i \in big, j \in cut : i < j => i \in cut
           /\ EstimateTokens(r.out) <= target + r.trimmed \/ cut = big
           /\ cut # {} => EstimateTokens(back) > target

\* The beginning is shown, and of the rest is told how long it is.
Told(part, chars, limit) == part.shown + part.more = chars /\ (part.more > 0 => part.shown = limit)

(***************************************************************************)
(* Every message a summary replaces was given to the summariser, and none  *)
(* that stays: each text and each tool output of it up to the limit, with  *)
(* the length of what was left out, and every chunk was answered in full.  *)
(* What lies beyond the limits is read by nobody (context.ts:128-148,      *)
(* 169-205).                                                               *)
(***************************************************************************)
HeadWasRead ==
    summary' # summary =>
     LET shown == UNION Range(job.chunks)
     IN /\ {p.at : p \in shown} = 1 .. Len(messages) - Len(messages')
        /\ \A p \in shown :
             /\ Told(p.text, messages[p.at].text, TextChars)
             /\ DOMAIN p.tools = DOMAIN messages[p.at].results
             /\ \A k \in DOMAIN p.tools : Told(p.tools[k], messages[p.at].results[k].chars, ToolChars)
        /\ \A k \in DOMAIN job.chunks : job.done[k] = "whole"
=============================================================================
