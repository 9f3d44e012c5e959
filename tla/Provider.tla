------------------------------- MODULE Provider -------------------------------
(***************************************************************************)
(* The adapter between the app's messages and a chat-completions server    *)
(* (cli/src/providers/openai-compat.ts): one model step is one request,    *)
(* streamed if the server streams, repeated while the server is busy, and  *)
(* turned back into a message of the app.  Between steps the module plays  *)
(* the tool loop (Turn), which appends the answer and the tool results.    *)
(*                                                                         *)
(* A piece of text is white space, prose, or something that opens like     *)
(* JSON or a code fence: a whole tool call ("call") or not ("code").       *)
(* Time is counted in pauses.                                              *)
(***************************************************************************)
EXTENDS Naturals, Sequences, FiniteSets

CONSTANTS Texts,        \* answers of the server: sequences of pieces
          MaxRetries,   \* attempts after the first, without a budget
          Budgets,      \* values of retryBudgetMs, in pauses; 0 when it is not set
          MaxSteps      \* bound: answers of the model

VARIABLES chat,         \* the canonical messages of the conversation
          meta,         \* MetaStore: for a tool call id, the step whose answer it was kept from
          request,      \* the request on its way
          reply,        \* what the server means to say in this request
          pieces,       \* the text that arrived over the stream
          display,      \* the text handed to the UI as it arrived
          stopped       \* the abort signal of the turn

providerVars == <<chat, meta, request, reply, pieces, display, stopped>>

Steps == 1..MaxSteps
\* The server's ids and randomUUID differ from step to step; `call_0` does not.
Ids == {[by |-> "server", n |-> s] : s \in Steps} \cup {[by |-> "uuid", n |-> s] : s \in Steps} \cup {[by |-> "index", n |-> 0]}
NoStep == 0
Idle == [at |-> "idle", stream |-> FALSE, tools |-> FALSE, attempt |-> 0, budget |-> 0, left |-> 0, posts |-> 0, mode |-> "stream",
         why |-> "none"]
NoReply == [text |-> <<>>, call |-> FALSE, id |-> FALSE, thinks |-> FALSE]
Replies == [text : Texts, call : BOOLEAN, id : BOOLEAN, thinks : BOOLEAN]

TypeOK ==
  /\ \A i \in DOMAIN chat : chat[i].role \in {"user", "assistant"} /\ chat[i].call \in Ids \cup {[by |-> "none", n |-> 0]}
  /\ meta \in [Ids -> Steps \cup {NoStep}]
  /\ request.at \in {"idle", "out", "body", "pause", "failed"} /\ request.left \in 0..request.budget
  /\ request.mode \in {"undecided", "stream", "hold"} /\ request.attempt \in 0..(MaxRetries + request.budget)
  /\ reply \in Replies \cup {NoReply} /\ stopped \in BOOLEAN

NoCall == [by |-> "none", n |-> 0]
User(text) == [role |-> "user", text |-> text, call |-> NoCall, results |-> FALSE, step |-> 0, thought |-> FALSE]
Init ==
  /\ chat = <<User(<<"prose">>)>> /\ meta = [i \in Ids |-> NoStep] /\ request = Idle /\ reply = NoReply
  /\ pieces = <<>> /\ display = <<>> /\ stopped = FALSE

Answers == Cardinality({i \in DOMAIN chat : chat[i].role = "assistant"})

-----------------------------------------------------------------------------
(* The messages as they are sent *)

\* The last message of the user that is more than tool results.
currentTurnStart == LET own == {i \in DOMAIN chat : chat[i].role = "user" /\ chat[i].text # <<>>}
                    IN IF own = {} THEN 1 ELSE CHOOSE i \in own : \A j \in own : j <= i

\* Mutant: the words the user added go out before the results of the tools.
WordsFirst(msg) == (IF msg.text = <<>> THEN <<>> ELSE <<[role |-> "user", call |-> NoCall, echo |-> NoStep]>>)
                   \o (IF msg.results THEN <<[role |-> "tool", call |-> msg.call, echo |-> NoStep]>> ELSE <<>>)
UserOut(msg) == (IF msg.results THEN <<[role |-> "tool", call |-> msg.call, echo |-> NoStep]>> ELSE <<>>)
                \o (IF msg.text = <<>> THEN <<>> ELSE <<[role |-> "user", call |-> NoCall, echo |-> NoStep]>>)
\* An answer of nothing but thoughts is not sent; what was kept of a call goes back with it in the turn it belongs to.
AssistantOut(i) ==
  IF chat[i].text = <<>> /\ chat[i].call = NoCall THEN <<>>
  ELSE <<[role |-> "assistant", call |-> chat[i].call,
          echo |-> IF chat[i].call # NoCall /\ i > currentTurnStart THEN meta[chat[i].call] ELSE NoStep]>>
MessageOut(i) == IF chat[i].role = "user" THEN UserOut(chat[i]) ELSE AssistantOut(i)
toChatMessages ==
  LET upTo[i \in 0..Len(chat)] == IF i = 0 THEN <<>> ELSE upTo[i - 1] \o MessageOut(i)
  IN upTo[Len(chat)]

-----------------------------------------------------------------------------
(* The answer as it is kept *)

\* Where a text is more than white space.
Spoken(text) == {i \in DOMAIN text : text[i] # "ws"}
IsCall(text) == \E i \in Spoken(text) : Spoken(text) = {i} /\ text[i] = "call"
\* recoverJsonToolCalls: the whole answer is one call of a tool that was offered.
recoverJsonToolCalls(text, tools) == tools /\ IsCall(text)
Recovered == ~reply.call /\ recoverJsonToolCalls(reply.text, request.tools)
\* The id of the call: the server's; a random one; by its place in the answer when it came over the stream.
CallId == LET n == Answers + 1
          IN IF Recovered THEN [by |-> "uuid", n |-> n]
             ELSE IF ~reply.call THEN NoCall
             ELSE IF reply.id THEN [by |-> "server", n |-> n]
             ELSE IF request.at = "body" /\ request.stream THEN [by |-> "index", n |-> 0] ELSE [by |-> "uuid", n |-> n]
fromChatResponse(text) ==
  [role |-> "assistant", text |-> IF Recovered THEN <<>> ELSE text, call |-> CallId, results |-> FALSE,
   step |-> Answers + 1, thought |-> reply.thinks]

\* The answer ends the request; the thoughts and extras of a call are kept under its id.
Finish(text) ==
  LET msg == fromChatResponse(text)
  IN /\ chat' = Append(chat, msg)
     /\ meta' = IF msg.call # NoCall /\ reply.thinks THEN [meta EXCEPT ![msg.call] = msg.step] ELSE meta
     /\ request' = [request EXCEPT !.at = "idle"]

-----------------------------------------------------------------------------
(* A request *)

\* The tool loop sends the next step; the stop signal is looked at first.
Send(stream, tools, budget) ==
  /\ request.at = "idle" /\ chat[Len(chat)].role = "user" /\ ~stopped /\ Answers < MaxSteps
  /\ request' = [at |-> "out", stream |-> stream, tools |-> tools, attempt |-> 0, budget |-> budget, left |-> budget, posts |-> 1,
                 mode |-> IF stream /\ tools THEN "undecided" ELSE "stream", why |-> "none"]
  /\ reply' = NoReply /\ pieces' = <<>> /\ display' = <<>> /\ UNCHANGED <<chat, meta, stopped>>

Fail(why) == /\ request' = [request EXCEPT !.at = "failed", !.why = why] /\ UNCHANGED <<chat, meta, reply, pieces, display, stopped>>

\* What the server means to say: no call of a tool it was not offered.
Says(r) == r \in Replies /\ (r.call => request.tools) /\ (~r.call => ~r.id) /\ (r.text # <<>> \/ r.call) /\ reply' = r

\* The server answers with a stream.
Opens(r) ==
  /\ request.at = "out" /\ request.stream /\ Says(r)
  /\ request' = [request EXCEPT !.at = "body"] /\ UNCHANGED <<chat, meta, pieces, display, stopped>>
\* The server answers in one piece, asked to stream or not.
AnswersWhole(r) ==
  /\ request.at = "out" /\ Says(r)
  /\ request' = [request EXCEPT !.at = "body", !.stream = FALSE]
  /\ UNCHANGED <<chat, meta, pieces, display, stopped>>
Whole == /\ request.at = "body" /\ ~request.stream /\ Finish(reply.text) /\ UNCHANGED <<reply, pieces, display, stopped>>

\* Mutant: text that may become a call is shown as it comes.
ShowAll(text) == "stream"
\* Held back from the first sign of JSON or a fence; white space decides nothing.
OpensLikeCall(text) == \E i \in Spoken(text) : text[i] \in {"call", "code"} /\ \A j \in Spoken(text) : i <= j
ModeOf(text) == IF Spoken(text) = {} THEN "undecided" ELSE IF OpensLikeCall(text) THEN "hold" ELSE "stream"
\* onText: a piece arrives.
Piece ==
  /\ request.at = "body" /\ request.stream /\ Len(pieces) < Len(reply.text)
  /\ LET text == SubSeq(reply.text, 1, Len(pieces) + 1)
         mode == IF request.mode = "undecided" THEN ModeOf(text) ELSE request.mode
     IN /\ pieces' = text /\ request' = [request EXCEPT !.mode = mode]
        /\ display' = IF mode = "stream" THEN text ELSE display
  /\ UNCHANGED <<chat, meta, reply, stopped>>
\* Mutant: the end of the connection is the end of the answer.
AnyEnd == TRUE
\* A finish reason or [DONE] arrived: the server sends it after its last piece.
Complete == pieces = reply.text
\* The stream ends; text that was held back and is no call is shown now.
StreamEnds ==
  /\ request.at = "body" /\ request.stream /\ Complete
  /\ Finish(pieces)
  /\ display' = IF request.mode = "hold" /\ ~Recovered THEN pieces ELSE display
  /\ UNCHANGED <<reply, pieces, stopped>>
\* Cut off, silent for too long, or an error in the stream: no answer, and no other attempt.
StreamBreaks == /\ request.at = "body" /\ request.stream /\ Fail("busy")

\* post: nextPause.  The first attempt of a stream is not counted: create() begins anew.
Pauses == IF request.budget = 0 THEN {0} ELSE 1..2
\* Mutant: the budget is looked at after the pause.
PauseAnyway(p) == p \in Pauses /\ (request.budget = 0 => request.attempt < MaxRetries)
MayPause(p) == p \in Pauses /\ IF request.budget = 0 THEN request.attempt < MaxRetries ELSE request.left > p
Repeat(p) ==
  /\ ~stopped /\ MayPause(p)
  /\ request' = [request EXCEPT !.at = "pause", !.attempt = @ + 1, !.left = IF @ > p THEN @ - p ELSE 0]
  /\ UNCHANGED <<chat, meta, reply, pieces, display, stopped>>
GiveUp(why) == (stopped \/ \A p \in Pauses : ~MayPause(p)) /\ Fail(why)

\* An HTTP error before the stream: create() tries again without it, with a budget of its own.
StreamRefused ==
  /\ request.at = "out" /\ request.stream
  /\ request' = [request EXCEPT !.stream = FALSE, !.attempt = 0, !.left = request.budget, !.posts = @ + 1]
  /\ UNCHANGED <<chat, meta, reply, pieces, display, stopped>>
\* 408, 429, 5xx
Busy(p) == request.at = "out" /\ ~request.stream /\ (Repeat(p) \/ GiveUp("busy"))
\* The network, or the time limit of one request: worth another attempt within a budget only, and not for a stream.
NetworkFails(p) == request.at = "out" /\ IF request.budget > 0 /\ ~request.stream THEN Repeat(p) \/ GiveUp("network") ELSE Fail("network")
BodyLost == request.at = "body" /\ ~request.stream /\ Fail("network")
\* Any other status: the key, the budget at the provider, a request that is too long.
Refused == request.at = "out" /\ ~request.stream /\ Fail("refused")
\* The server could not parse the call the model wrote: once more, without tools.
CannotParse ==
  /\ request.at = "out" /\ ~request.stream /\ request.tools
  /\ request' = [request EXCEPT !.tools = FALSE, !.attempt = 0, !.left = request.budget, !.posts = @ + 1]
  /\ UNCHANGED <<chat, meta, reply, pieces, display, stopped>>

\* abortableSleep, and the next attempt.
Wake ==
  /\ request.at = "pause" /\ ~stopped
  /\ request' = [request EXCEPT !.at = "out", !.posts = @ + 1] /\ UNCHANGED <<chat, meta, reply, pieces, display, stopped>>
\* Stop: whatever is on its way is cut off.
Stop == /\ ~stopped /\ request.at \in {"out", "body", "pause"} /\ stopped' = TRUE
        /\ UNCHANGED <<chat, meta, request, reply, pieces, display>>
Aborted == stopped /\ request.at \in {"out", "body", "pause"} /\ Fail("aborted")

-----------------------------------------------------------------------------
(* The tool loop and the user between requests *)

\* The results of the tools, with what the user said meanwhile.
ToolsRan(words) ==
  /\ request.at = "idle" /\ chat[Len(chat)].role = "assistant" /\ chat[Len(chat)].call # NoCall
  /\ chat' = Append(chat, [User(words) EXCEPT !.call = chat[Len(chat)].call, !.results = TRUE])
  /\ UNCHANGED <<meta, request, reply, pieces, display, stopped>>
NextTurn ==
  /\ request.at = "idle" /\ chat[Len(chat)].role = "assistant" /\ chat[Len(chat)].call = NoCall /\ Answers < MaxSteps
  /\ chat' = Append(chat, User(<<"prose">>))
  /\ UNCHANGED <<meta, request, reply, pieces, display, stopped>>

Next ==
  \/ \E s, t \in BOOLEAN, b \in Budgets : Send(s, t, b)
  \/ \E r \in Replies : Opens(r) \/ AnswersWhole(r)
  \/ \E p \in 0..2 : Busy(p) \/ NetworkFails(p)
  \/ Whole \/ Piece \/ StreamEnds \/ StreamBreaks \/ StreamRefused \/ BodyLost \/ Refused \/ CannotParse
  \/ Wake \/ Stop \/ Aborted \/ NextTurn
  \/ \E w \in {<<>>, <<"prose">>} : ToolsRan(w)

Spec == Init /\ [][Next]_providerVars

-----------------------------------------------------------------------------
Ended == request.at = "idle" /\ chat[Len(chat)].role = "assistant"

\* What a chat shows while an answer comes in is what it keeps: nothing that was shown turns out to be a tool
\* call, and nothing of a streamed answer is missing, but for white space.
ShownIsKept ==
  (Ended /\ request.stream) => LET text == chat[Len(chat)].text
                               IN display = text \/ (Spoken(display) = {} /\ Spoken(text) = {})

\* An answer that is kept is the whole answer of the server: a connection that broke never passes for its end.
AnswerIsWhole ==
  Ended => \/ chat[Len(chat)].text = reply.text
           \/ chat[Len(chat)].call.by = "uuid" /\ IsCall(reply.text)

\* On the wire the result of a tool follows the message with its call, whatever the user added meanwhile:
\* providers refuse anything else.
ResultsFollowCalls ==
  request.at = "out" =>
    LET out == toChatMessages
    IN \A i \in DOMAIN out :
         /\ out[i].role = "tool" => i > 1 /\ out[i - 1].role = "assistant" /\ out[i - 1].call = out[i].call
         /\ out[i].role = "assistant" /\ out[i].call # NoCall => i < Len(out) /\ out[i + 1].role = "tool"

\* An attempt begins within the budget, and after a stop none begins.
RepeatsAreBounded ==
  request'.posts > request.posts /\ request.at = "pause" => ~stopped /\ (request.budget > 0 => request.left > 0)

\* What a response carries with its call is sent back with that call.  A server that streams and names no ids
\* gets the same `call_0` in every step, and the last one's state with all of them.
MetaIsOwn ==
  request.at = "out" =>
    \A i \in DOMAIN chat : chat[i].role = "assistant" /\ chat[i].call # NoCall => meta[chat[i].call] \in {NoStep, chat[i].step}

\* Within the budget a failure of the network is retried.  The first attempt of a stream is not.
NetworkIsRetried == (request.at = "failed" /\ request.why = "network" /\ request.budget > 0) => request.posts > 1
=============================================================================
