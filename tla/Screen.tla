-------------------------------- MODULE Screen --------------------------------
(***************************************************************************)
(* What one open page shows of a conversation: the stored messages it      *)
(* fetched (lib/runtime.ts), the running turn as its event stream tells it *)
(* (hooks/useSSE.ts), and the changes it shows before the server agreed.   *)
(* Streams break and come back, a fetch or a request may be answered after *)
(* the person went to another conversation.                                *)
(*                                                                         *)
(* Abstracted: contents of messages; a turn's requests and tools (Turn),   *)
(* summaries, the panels beside the chat.                                  *)
(***************************************************************************)
EXTENDS Naturals, Sequences, SequencesExt

CONSTANTS Convs, Talks,                  \* conversations; those in which something happens
          MaxMoves,                      \* bound: requests, changes of conversation, broken streams and lost answers together
          MaxPieces,                     \* bound: pieces of text of a turn
          MaxThoughts,                   \* bound: thoughts of a turn
          MaxCalls,                      \* bound: calls of a reply
          MaxFetches, MaxPipe            \* bounds: at once

VARIABLES log, made,             \* the stored active rows; rows ever made
          turn,                  \* the turn running in each conversation
          selected, stream, pipe, \* the open conversation, its stream, the events on their way
          running, parts,        \* useSSE: what the stream told
          persisted,             \* useEverythingAppRuntime: the list of messages
          fetches, request,      \* getMessages and the request under way
          moves,                 \* bound
          missed, astray  \* history: an event was not heard; the list was set by an answer that was late, lost or of another conversation

screenVars == <<log, made, turn, selected, stream, pipe, running, parts, persisted, fetches, request, moves, missed, astray>>
server == <<log, made, turn>>
page == <<selected, stream, running, parts>>
Move == moves < MaxMoves /\ moves' = moves + 1

Row(c, n, who) == [conv |-> c, n |-> n, who |-> who]
Entry(c, n, who, rows) == [conv |-> c, n |-> n, who |-> who, rows |-> rows]
\* What the page shows of a turn, and what a reply has said so far.
Text(pieces, streaming) == [kind |-> "text", n |-> pieces, streaming |-> streaming, result |-> 0]
Reasoning == [kind |-> "reasoning", n |-> 0, streaming |-> FALSE, result |-> 0]
Tool(n) == [kind |-> "tool", n |-> n, streaming |-> FALSE, result |-> 0]
NewReply == [said |-> <<>>, whole |-> FALSE, started |-> 0, answered |-> 0]
Pieces(r) == FoldLeft(LAMBDA n, p : n + p.n, 0, r.said)
Thoughts(r) == Cardinality({k \in DOMAIN r.said : r.said[k].kind = "reasoning"})
EndsWith(r, kind) == r.said # <<>> /\ Last(r.said).kind = kind
Idle == [at |-> "idle", replies |-> <<>>]
NoRequest == [do |-> "none", at |-> "none", conv |-> "none", n |-> 0, before |-> <<>>, after |-> <<>>, set |-> FALSE]

TypeOK ==
  /\ \A c \in Convs : /\ turn[c].at \in {"idle", "asking", "calling", "inside"} /\ \A r \in ToSet(log[c]) : r.conv = c /\ r.n \in 1..made[c]
                      /\ \A i \in 2..Len(log[c]) : log[c][i - 1].n < log[c][i].n
  /\ selected \in Convs /\ stream \in {"opening", "open", "waiting"} /\ (stream # "open" => pipe = <<>>)
  /\ running \in BOOLEAN /\ \A p \in ToSet(parts) : p.kind \in {"text", "reasoning", "tool"}
  /\ request.do \in {"none", "new", "edit", "reload", "delete", "retry"} /\ Len(fetches) <= MaxFetches

-----------------------------------------------------------------------------
(* foldRawMessages: the rows of one answer become one message, which has the id of the first. *)
Fold(rows) ==
  FoldLeft(LAMBDA shown, r : IF r.who = "answer" /\ shown # <<>> /\ Last(shown).who = "answer"
                             THEN [shown EXCEPT ![Len(shown)].rows = @ + 1]
                             ELSE Append(shown, Entry(r.conv, r.n, r.who, 1)), <<>>, rows)

Init ==
  /\ log = [c \in Convs |-> <<Row(c, 1, "user"), Row(c, 2, "answer"), Row(c, 3, "answer")>>] /\ made = [c \in Convs |-> 3]
  /\ turn = [c \in Convs |-> Idle] /\ selected \in Talks /\ stream = "open" /\ pipe = <<>>
  /\ running = FALSE /\ parts = <<>> /\ persisted = Fold(log[selected]) /\ fetches = <<>> /\ request = NoRequest
  /\ moves = 0 /\ missed = FALSE /\ astray = FALSE

-----------------------------------------------------------------------------
(* The server: its turns tell the clients of the conversation's stream *)

Live(c) == c = selected /\ stream = "open"
emit(c, events) ==
  IF Live(c) THEN Len(pipe) + Len(events) <= MaxPipe /\ pipe' = pipe \o events /\ UNCHANGED missed
  ELSE UNCHANGED pipe /\ missed' = (missed \/ c = selected)

Event(type, data) == [type |-> type, data |-> data]
Step(c, t, events) == turn' = [turn EXCEPT ![c] = t] /\ emit(c, events)
Reply(c) == Len(turn[c].replies)
Now(c) == turn[c].replies[Reply(c)]
With(c, at, r) == [at |-> at, replies |-> [turn[c].replies EXCEPT ![Reply(c)] = r]]
Store(c) == /\ made' = [made EXCEPT ![c] = @ + 1] /\ log' = [log EXCEPT ![c] = Append(@, Row(c, made[c] + 1, "answer"))]
quiet == UNCHANGED <<page, persisted, fetches, request, moves, astray>>

Delta(c) ==
  /\ turn[c].at = "asking" /\ FoldLeft(LAMBDA n, r : n + Pieces(r), 0, turn[c].replies) < MaxPieces
  /\ Step(c, With(c, "asking", [Now(c) EXCEPT !.said = IF EndsWith(Now(c), "text") THEN [@ EXCEPT ![Len(@)].n = @ + 1] ELSE Append(@, Text(1, TRUE))]),
          <<Event("text_delta", 0)>>)
  /\ UNCHANGED <<log, made>> /\ quiet

\* Also between two pieces of text.
Think(c) ==
  /\ turn[c].at = "asking"
  /\ EndsWith(Now(c), "reasoning") \/ FoldLeft(LAMBDA n, r : n + Thoughts(r), 0, turn[c].replies) < MaxThoughts
  /\ Step(c, With(c, "asking", [Now(c) EXCEPT !.said = IF EndsWith(Now(c), "reasoning") THEN @ ELSE Append(@, Reasoning)]),
          <<Event("thinking_delta", 0)>>)
  /\ UNCHANGED <<log, made>> /\ quiet

\* The reply is complete: its text, then its calls.
Replied(c) ==
  /\ turn[c].at = "asking" /\ Reply(c) = 1
  /\ Step(c, With(c, "calling", [Now(c) EXCEPT !.whole = TRUE]), IF Pieces(Now(c)) > 0 THEN <<Event("text", Pieces(Now(c)))>> ELSE <<>>)
  /\ UNCHANGED <<log, made>> /\ quiet

\* A call of an unknown tool, or with arguments that do not parse, is answered without having started.
Refused(c) ==
  /\ turn[c].at = "calling" /\ Step(c, turn[c], <<Event("tool_result", 0)>>)
  /\ UNCHANGED <<log, made>> /\ quiet

ToolStart(c) ==
  /\ turn[c].at = "calling" /\ Now(c).started < MaxCalls
  /\ Step(c, With(c, "inside", [Now(c) EXCEPT !.started = @ + 1]), <<Event("tool_use", Now(c).started + 1)>>)
  /\ UNCHANGED <<log, made>> /\ quiet

ToolResult(c) ==
  /\ turn[c].at = "inside" /\ Step(c, With(c, "calling", [Now(c) EXCEPT !.answered = @ + 1]), <<Event("tool_result", Now(c).started)>>)
  /\ UNCHANGED <<log, made>> /\ quiet

\* onMessages with the step that is complete, then the next request.
NextStep(c) ==
  /\ turn[c].at = "calling" /\ Now(c).started > 0 /\ turn' = [turn EXCEPT ![c] = [at |-> "asking", replies |-> Append(@.replies, NewReply)]]
  /\ Store(c) /\ UNCHANGED <<pipe, missed>> /\ quiet

\* The last reply is stored and the turn is over.
Done(c) ==
  /\ turn[c].at = "asking" /\ Store(c)
  /\ Step(c, Idle, (IF Pieces(Now(c)) > 0 THEN <<Event("text", Pieces(Now(c)))>> ELSE <<>>) \o <<Event("finish", 0)>>)
  /\ quiet

\* turn:error or turn:aborted, with or without a part of the answer stored.
Fails(c) ==
  /\ turn[c].at # "idle" /\ (Store(c) \/ UNCHANGED <<log, made>>)
  /\ Step(c, Idle, <<Event("finish", 0)>>) /\ quiet

-----------------------------------------------------------------------------
(* useSSE *)

FirstPart(Test(_)) == SelectInSeq(parts, Test)

TextDelta ==
  IF parts # <<>> /\ Last(parts).streaming THEN [parts EXCEPT ![Len(parts)].n = @ + 1] ELSE Append(parts, Text(1, TRUE))
ThinkingDelta == IF parts # <<>> /\ Last(parts).kind = "reasoning" THEN parts ELSE Append(parts, Reasoning)
WholeText(pieces) ==
  LET i == FirstPart(LAMBDA p : p.kind = "text" /\ p.streaming)
  IN IF i = 0 THEN Append(parts, Text(pieces, FALSE)) ELSE [parts EXCEPT ![i] = Text(pieces, FALSE)]
AttachToFirst(n) ==
  LET i == FirstPart(LAMBDA p : p.kind = "tool") IN IF i = 0 THEN parts ELSE [parts EXCEPT ![i].result = n]
AttachResult(n) ==
  LET i == FirstPart(LAMBDA p : p.kind = "tool" /\ p.result = 0) IN IF i = 0 THEN parts ELSE [parts EXCEPT ![i].result = n]

refetch(c) == Len(fetches) < MaxFetches /\ fetches' = Append(fetches, [conv |-> c, read |-> FALSE, rows |-> <<>>, late |-> FALSE])
FinishUncounted == running' = FALSE /\ parts' = <<>> /\ UNCHANGED fetches
\* finish clears the live parts and counts, which fetches the list again.
Finish == running' = FALSE /\ parts' = <<>> /\ refetch(selected)

Hear ==
  /\ pipe # <<>> /\ pipe' = Tail(pipe)
  /\ LET e == Head(pipe) IN
       CASE e.type = "start" -> running' = TRUE /\ parts' = <<>> /\ missed' = FALSE /\ UNCHANGED fetches
         [] e.type = "finish" -> Finish /\ UNCHANGED missed
         [] OTHER -> /\ parts' = CASE e.type = "text_delta" -> TextDelta
                                   [] e.type = "thinking_delta" -> ThinkingDelta
                                   [] e.type = "text" -> WholeText(e.data)
                                   [] e.type = "tool_use" -> Append(parts, Tool(e.data))
                                   [] e.type = "tool_result" -> AttachResult(e.data)
                     /\ UNCHANGED <<running, fetches, missed>>
  /\ UNCHANGED <<server, selected, stream, persisted, request, moves, astray>>

\* The connection breaks, or the server cuts off a client that does not read: what was on its way is lost.
Break ==
  /\ stream # "waiting" /\ Move /\ stream' = "waiting" /\ pipe' = <<>>
  /\ missed' = (missed \/ pipe # <<>>)
  /\ UNCHANGED <<server, selected, running, parts, persisted, fetches, request, astray>>

Reconnect ==
  /\ stream = "waiting" /\ stream' = "opening"
  /\ UNCHANGED <<server, selected, pipe, running, parts, persisted, fetches, request, moves, missed, astray>>

\* addClient
Connected ==
  /\ stream = "opening" /\ stream' = "open"
  /\ UNCHANGED <<server, selected, pipe, running, parts, persisted, fetches, request, moves, missed, astray>>

ClearNot == UNCHANGED <<running, parts>>
Clear == running' = FALSE /\ parts' = <<>>
\* The person opens another conversation: the stream is closed, the live state cleared, the list fetched.
Select(c) ==
  /\ Move /\ c # selected /\ selected' = c
  /\ stream' = "opening" /\ pipe' = <<>> /\ Clear /\ refetch(c) /\ missed' = (turn[c].at # "idle") /\ astray' = TRUE
  /\ UNCHANGED <<server, persisted, request>>

-----------------------------------------------------------------------------
(* useEverythingAppRuntime: the list of messages *)

ReadLog(i) ==
  /\ ~fetches[i].read /\ fetches' = [fetches EXCEPT ![i].read = TRUE, ![i].rows = Fold(log[fetches[i].conv])]
  /\ UNCHANGED <<server, page, pipe, persisted, request, moves, missed, astray>>

Aged(older) == [j \in DOMAIN fetches |-> [fetches[j] EXCEPT !.late = @ \/ j < older]]
\* An answer sets the list of whatever conversation is open by then.
Lands(i) ==
  /\ fetches[i].read /\ persisted' = fetches[i].rows
  /\ fetches' = RemoveAt(Aged(i), i)
  /\ astray' = (fetches[i].late \/ fetches[i].conv # selected)
  /\ request' = [request EXCEPT !.set = request.do # "none"] /\ UNCHANGED <<server, page, pipe, moves, missed>>

FetchFails(i) ==
  /\ Move /\ fetches' = RemoveAt(Aged(i), i) /\ astray' = TRUE
  /\ UNCHANGED <<server, page, pipe, persisted, request, missed>>

\* truncateToAnchor
Anchored(i) == LET U == {j \in 1..i : persisted[j].who = "user"} IN IF U = {} THEN <<>> ELSE SubSeq(persisted, 1, CHOOSE j \in U : \A k \in U : k <= j)
Optimistic == <<Entry(selected, 0, "user", 1)>>
ask(do, n, after) ==
  /\ request.do = "none" /\ Move /\ selected \in Talks /\ persisted' = after
  /\ request' = [do |-> do, at |-> "sent", conv |-> selected, n |-> n, before |-> persisted, after |-> after, set |-> FALSE]
  /\ UNCHANGED <<server, page, pipe, fetches, missed, astray>>

\* 0 stands for null: the start of the conversation, and an id the server never gave.
IdBefore(i) == IF i = 1 THEN 0 ELSE persisted[i - 1].n

onNew == ask("new", 0, persisted \o Optimistic)
onEdit == \E i \in DOMAIN persisted : persisted[i].who = "user" /\ ask("edit", IdBefore(i), Anchored(i - 1) \o Optimistic)
onReload == \E i \in DOMAIN persisted : persisted[i].who = "answer" /\ ask("reload", IdBefore(i), Anchored(i - 1))
onDelete == \E i \in DOMAIN persisted : persisted[i].n > 0 /\ ask("delete", persisted[i].n, SubSeq(persisted, 1, i - 1))
retry == ask("retry", 0, persisted)

Users(c, n) == {r.n : r \in {q \in ToSet(log[c]) : q.who = "user" /\ (n > 0 => q.n <= n)}}
Before(c, n) == SelectSeq(log[c], LAMBDA r : r.n < n)
Largest(S) == CHOOSE n \in S : \A m \in S : m <= n
\* What the request leaves of the log.
Kept(c) ==
  CASE request.do = "new" -> log[c]
    [] request.do = "edit" -> Before(c, request.n + 1)
    [] request.do = "delete" -> Before(c, request.n)
    [] OTHER -> Before(c, Largest(Users(c, request.n)))
\* A running turn, a row that is gone.
Impossible(c) ==
  \/ turn[c].at # "idle"
  \/ request.do \in {"edit", "delete"} /\ request.n > 0 /\ request.n \notin {r.n : r \in ToSet(log[c])}
  \/ request.do \in {"reload", "retry"} /\ Users(c, request.n) = {}

Handle ==
  /\ request.at = "sent"
  /\ LET c == request.conv IN
       \/ Impossible(c) /\ request' = [request EXCEPT !.at = "refused"] /\ UNCHANGED <<server, pipe, missed>>
       \/ /\ ~Impossible(c) /\ request' = [request EXCEPT !.at = "done"]
          /\ \/ request.do = "delete" /\ log' = [log EXCEPT ![c] = Kept(c)] /\ UNCHANGED <<made, turn, pipe, missed>>
             \/ /\ request.do # "delete" /\ log' = [log EXCEPT ![c] = Append(Kept(c), Row(c, made[c] + 1, "user"))]
                /\ made' = [made EXCEPT ![c] = @ + 1] /\ Step(c, [at |-> "asking", replies |-> <<NewReply>>], <<Event("start", 0)>>)
  /\ UNCHANGED <<page, persisted, fetches, moves, astray>>

\* No answer arrives, whatever the server did.
AnswerLost ==
  /\ request.at \in {"sent", "done"} /\ Move /\ request' = [request EXCEPT !.at = "refused"]
  /\ IF request.do = "delete" /\ request.at = "done" THEN astray' = TRUE /\ fetches' = Aged(MaxFetches + 1) ELSE UNCHANGED <<astray, fetches>>
  /\ UNCHANGED <<server, page, pipe, persisted, missed>>

Answered ==
  /\ request.at = "done" /\ request' = NoRequest
  /\ IF request.do = "delete" THEN refetch(request.conv) ELSE UNCHANGED fetches
  /\ UNCHANGED <<server, page, pipe, persisted, moves, missed, astray>>

RevertNothing == persisted
\* onNew takes the last message off the list there is; the others put their own list back.
Revert == CASE request.do = "new" -> SubSeq(persisted, 1, Len(persisted) - 1)
            [] request.do = "retry" -> persisted
            [] OTHER -> request.before
RollBack ==
  /\ request.at = "refused" /\ persisted' = Revert /\ request' = NoRequest
  /\ astray' = (astray \/ selected # request.conv \/ (request.set /\ request.do # "retry"))
  /\ UNCHANGED <<server, page, pipe, fetches, moves, missed>>

-----------------------------------------------------------------------------
Turns == \E c \in Talks : Delta(c) \/ Think(c) \/ Replied(c) \/ Refused(c) \/ ToolStart(c) \/ ToolResult(c) \/ NextStep(c) \/ Done(c) \/ Fails(c)
Stream == Hear \/ Break \/ Reconnect \/ Connected \/ \E c \in Convs : Select(c)
List == \E i \in DOMAIN fetches : ReadLog(i) \/ Lands(i) \/ FetchFails(i)
Person == onNew \/ onEdit \/ onReload \/ onDelete \/ retry
Answers == Handle \/ AnswerLost \/ Answered \/ RollBack
Next == Turns \/ Stream \/ List \/ Person \/ Answers
Spec == Init /\ [][Next]_screenVars

-----------------------------------------------------------------------------
(* Properties *)

\* What a reader of the turn itself would write down: of each reply its thinking and its text, and every call
\* that started with the result of that call.
Told(t) ==
  FlattenSeq([i \in DOMAIN t.replies |->
    LET r == t.replies[i] IN
      [k \in DOMAIN r.said |-> [r.said[k] EXCEPT !.streaming = @ /\ ~r.whole]]
        \o [k \in 1..r.started |-> [Tool(k) EXCEPT !.result = IF k <= r.answered THEN k ELSE 0]]])

\* A complete reply whose text was interrupted by a thought: its whole text replaced the first part of it only,
\* so the page shows the words after the thought twice until the turn ends.
Torn(r) == r.whole /\ \E j, k \in DOMAIN r.said : j < k /\ r.said[j].kind = "text" /\ r.said[k].kind = "text"
Calls(shown) == SelectSeq(shown, LAMBDA p : p.kind = "tool")

\* useSSE rebuilds the turn from its events: heard in full, with none on the way, the page shows the calls of
\* the turn that runs in the open conversation, each with its own result, and it shows exactly that turn as
\* long as none of its complete replies is torn (useSSE.ts:73-98, openai-compat.ts:750-752).
LiveIsTheTurn ==
  stream = "open" /\ pipe = <<>> /\ ~missed =>
    LET t == turn[selected] IN
    /\ running = (t.at # "idle") /\ Calls(parts) = Calls(Told(t))
    /\ (\A r \in ToSet(t.replies) : ~Torn(r)) => parts = Told(t)

AtRest == stream = "open" /\ pipe = <<>> /\ fetches = <<>> /\ request.do = "none" /\ turn[selected].at = "idle"
SettledScreen == parts = <<>> /\ ~running /\ persisted = Fold(log[selected])

\* When nothing is under way, no event was missed and no answer strayed, the list is what the server stored,
\* whatever the page showed before the server agreed (lib/runtime.ts refetches after every turn).
RestIsTruth == AtRest /\ ~missed /\ ~astray => SettledScreen

\* sse.ts:75 says that a client cut off resyncs when it is back.  It does not: nothing reads the state of
\* the turn or the list again.
Resyncs == AtRest /\ ~astray => SettledScreen

\* lib/runtime.ts: an edit drops everything from the edited message onward, and nothing before.
\* It does not hold: the id of a message that was never refetched is sent as null, the start.
EditKeepsEarlier ==
  [][request.do = "edit" /\ request.at = "sent" /\ request'.at = "done" /\ Len(request.after) > 1 => Len(log'[request.conv]) > 1]_screenVars
=============================================================================
