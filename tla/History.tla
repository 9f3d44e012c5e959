------------------------------ MODULE History ------------------------------
(***************************************************************************)
(* The stored messages of one conversation (cli/src/db.ts) under the       *)
(* routes that change them (cli/src/server.ts): sending, editing,          *)
(* regenerating, retrying, deleting, clearing, compacting, answering a     *)
(* question of the agent, and deleting the conversation.  Rows keep their  *)
(* id for ever (AUTOINCREMENT); an edit retires rows, a delete removes     *)
(* them.  A turn appends rows in batches; a compaction reads the history,  *)
(* waits for a model and then appends a summary row.  An edit comes from   *)
(* the chat view (web/src/lib), which names the message in front of the    *)
(* edited one by the bubble it has drawn for it.  Which words a row        *)
(* carries is the id of the row the person first typed them in; parent_id  *)
(* is stored and never read back here.                                     *)
(***************************************************************************)
EXTENDS Naturals, Sequences, FiniteSets, FiniteSetsExt, SequencesExt

CONSTANT MaxRows    \* bound: rows ever stored

ASSUME RowsAssumption == MaxRows \in Nat \ {0}

VARIABLES rows,     \* messages, by id
          turn,     \* the user row of the running turn; 0: none
          given,    \* ids of the rows the running turn started from: verbatim, and by summary
          edited,   \* the user row the running turn was started to replace; 0: none
          jobs,     \* compactions under way, by who asked: "user" (POST /compact) or "turn"
          exists    \* the conversation

vars == <<rows, turn, given, edited, jobs, exists>>

Roles == {"user", "calls", "results", "reply", "summary"}
States == {"active", "retired", "deleted"}
Row(role, words, upTo, covers) ==
  [role |-> role, state |-> "active", words |-> words, upTo |-> upTo, covers |-> covers]
NoJob == [busy |-> FALSE, upTo |-> 0, covers |-> {}]
Nothing == [verbatim |-> {}, told |-> {}]

Ids == 1..MaxRows
TypeOK ==
  /\ rows \in Seq([role : Roles, state : States, words : 0..MaxRows, upTo : 0..MaxRows, covers : SUBSET Ids])
  /\ turn \in 0..MaxRows /\ edited \in 0..MaxRows
  /\ given \in [verbatim : SUBSET Ids, told : SUBSET Ids]
  /\ jobs \in [{"user", "turn"} -> [busy : BOOLEAN, upTo : 0..MaxRows, covers : SUBSET Ids]]
  /\ exists \in BOOLEAN

Init == /\ rows = <<>> /\ turn = 0 /\ given = Nothing /\ edited = 0
        /\ jobs = [by \in {"user", "turn"} |-> NoJob] /\ exists = TRUE

-----------------------------------------------------------------------------
(* db.ts *)

Live(rs) == {i \in DOMAIN rs : rs[i].state = "active"}
Messages(rs) == {i \in Live(rs) : rs[i].role # "summary"}
Summaries(rs) == Live(rs) \ Messages(rs)
\* isUserTurn: words of the person, not results of tools
Typed(rs) == {i \in Messages(rs) : rs[i].role = "user"}

Newest(S) == IF S = {} THEN 0 ELSE Max(S)
Everything == MaxRows + 1

\* Mutant: the last summarised message is also sent verbatim.
LoadLlmHistoryOffByOne(rs, before) ==
  LET s == Newest({i \in Summaries(rs) : rs[i].upTo < before}) IN
  [verbatim |-> {i \in Messages(rs) : i < before /\ (s = 0 \/ i >= rs[s].upTo)},
   told     |-> IF s = 0 THEN {} ELSE rs[s].covers]

\* What a turn starts from: the newest summary that ends before `before`, and what it leaves out.
LoadLlmHistory(rs, before) ==
  LET s == Newest({i \in Summaries(rs) : rs[i].upTo < before}) IN
  [verbatim |-> {i \in Messages(rs) : i < before /\ (s = 0 \/ i > rs[s].upTo)},
   told     |-> IF s = 0 THEN {} ELSE rs[s].covers]

\* Mutants: no summary survives a cut; every summary does.
SparedNever(rs, i, from) == FALSE
SparedAlways(rs, i, from) == rs[i].role = "summary"

\* Retire or delete from an id on; a summary of what lies before the cut stays.
Spared(rs, i, from) == rs[i].role = "summary" /\ rs[i].upTo < from
CutFrom(rs, from, states, to) ==
  [i \in DOMAIN rs |-> IF i >= from /\ rs[i].state \in states /\ ~Spared(rs, i, from)
                       THEN [rs[i] EXCEPT !.state = to] ELSE rs[i]]
\* Mutant: the anchor itself is not retired.
DeactivateMessagesAfter(rs, from) == CutFrom(rs, from + 1, {"active"}, "retired")
DeactivateMessagesFrom(rs, from) == CutFrom(rs, from, {"active"}, "retired")
DeleteMessagesFrom(rs, from) == CutFrom(rs, from, {"active", "retired"}, "deleted")

\* The newest message of the person at or before an id
FindRegenerationAnchor(rs, from) == Newest({i \in Typed(rs) : i <= from})

-----------------------------------------------------------------------------
(* server.ts: how a turn starts *)

IsBusy == turn # 0 \/ \E by \in DOMAIN jobs : jobs[by].busy
Room(n) == Len(rows) + n <= MaxRows

\* Append the user's row to rs and start its turn on the history in front of it.
Kickoff(rs, words, replaced) ==
  /\ rows' = Append(rs, Row("user", words, 0, {}))
  /\ turn' = Len(rs) + 1
  /\ given' = LoadLlmHistory(rs, Everything)
  /\ edited' = replaced
  /\ UNCHANGED <<jobs, exists>>

Send == exists /\ ~IsBusy /\ Room(1) /\ Kickoff(rows, Len(rows) + 1, 0)

\* deliverAsyncAnswer starts a turn as soon as no turn runs: it does not look for a compaction.
AnswerStarts == exists /\ turn = 0 /\ Room(1) /\ Kickoff(rows, Len(rows) + 1, 0)

\* regenerateFrom: retire the anchor and all that follows, send its words again.
RegenerateFrom(from) ==
  LET anchor == FindRegenerationAnchor(rows, from) IN
  /\ exists /\ ~IsBusy /\ Room(1)
  /\ anchor # 0
  /\ Kickoff(DeactivateMessagesFrom(rows, anchor), rows[anchor].words, 0)

Regenerate(from) == RegenerateFrom(from)
Retry == Live(rows) # {} /\ RegenerateFrom(Max(Live(rows)))

\* web/src/lib/messages.ts: the bubbles of the chat.  The replies of a turn are one bubble with the id of
\* the first; a summary is a notice in front of the message that is last when it is met.
AddBubble(bs, i) ==
  LET b == [id |-> i, role |-> IF rows[i].role \in {"calls", "reply"} THEN "assistant" ELSE rows[i].role]
      n == Len(bs)
  IN CASE b.role = "results" -> bs
       [] b.role = "summary" /\ n > 0 /\ bs[n].role = "user" -> SubSeq(bs, 1, n - 1) \o <<b, bs[n]>>
       [] b.role = "assistant" /\ n > 0 /\ bs[n].role = "assistant" -> bs
       [] OTHER -> Append(bs, b)
FoldRawMessages == FoldLeft(AddBubble, <<>>, SelectSeq([i \in DOMAIN rows |-> i], LAMBDA i : i \in Live(rows)))

\* POST /edit, from the view: the k-th bubble, one of the person, is replaced; parentId is the bubble before it.
Edit(k) ==
  LET bs == FoldRawMessages
      parent == IF k = 1 THEN 0 ELSE bs[k - 1].id
  IN /\ exists /\ ~IsBusy /\ Room(1)
     /\ k \in DOMAIN bs /\ parent \in {0} \cup Live(rows)
     /\ \E i \in Typed(rows) : /\ bs[k] = [id |-> i, role |-> "user"]
                              /\ Kickoff(DeactivateMessagesFrom(rows, parent + 1), Len(rows) + 1, i)

\* DELETE of a message, and of all messages
Delete(i) == /\ exists /\ ~IsBusy
             /\ rows' = DeleteMessagesFrom(rows, i)
             /\ rows' # rows
             /\ UNCHANGED <<turn, given, edited, jobs, exists>>
Clear == /\ exists /\ ~IsBusy /\ Live(rows) # {}
         /\ rows' = [i \in DOMAIN rows |-> [rows[i] EXCEPT !.state = "deleted"]]
         /\ UNCHANGED <<turn, given, edited, jobs, exists>>

\* DELETE of the conversation: the turn is aborted but not waited for; the rows go with it (ON DELETE CASCADE).
DeleteConversation ==
  /\ exists /\ exists' = FALSE
  /\ rows' = [i \in DOMAIN rows |-> [rows[i] EXCEPT !.state = "deleted"]]
  /\ UNCHANGED <<turn, given, edited, jobs>>

-----------------------------------------------------------------------------
(* What a turn writes *)

\* Mutant: no foreign key.
AppendUnchecked(batch) == Room(Len(batch)) /\ rows' = rows \o batch

\* appendMessage; the foreign key refuses a row of a conversation that is gone.
AppendMessage(batch) == exists /\ Room(Len(batch)) /\ rows' = rows \o batch
EndTurn == turn' = 0 /\ given' = Nothing /\ edited' = 0

TurnStep == /\ turn # 0 /\ ~jobs["turn"].busy
            /\ AppendMessage(<<Row("calls", 0, 0, {}), Row("results", 0, 0, {})>>)
            /\ UNCHANGED <<turn, given, edited, jobs, exists>>
TurnReplies == /\ turn # 0 /\ ~jobs["turn"].busy
               /\ AppendMessage(<<Row("reply", 0, 0, {})>>)
               /\ EndTurn /\ UNCHANGED <<jobs, exists>>
\* An error, the kill switch, a write that was refused or a restart
TurnFails == /\ turn # 0
             /\ EndTurn /\ jobs' = [jobs EXCEPT !["turn"] = NoJob]
             /\ UNCHANGED <<rows, exists>>

\* planCompaction: keep one to three of the newest turns, summarise at least two rows.
Cuts(rs, verbatim) ==
  {u \in Typed(rs) \cap verbatim : /\ Cardinality({i \in verbatim : i < u}) >= 2
                                  /\ {i \in Typed(rs) \cap verbatim : i < u} # {}
                                  /\ Cardinality({i \in Typed(rs) \cap verbatim : i >= u}) <= 3}
Compact(by, before, cut) ==
  LET h == LoadLlmHistory(rows, before)
      head == {i \in h.verbatim : i < cut}
  IN /\ exists /\ Room(1)
     /\ cut \in Cuts(rows, h.verbatim)
     /\ jobs' = [jobs EXCEPT ![by] = [busy |-> TRUE, upTo |-> Max(head), covers |-> h.told \cup head]]
     /\ UNCHANGED <<rows, turn, given, edited, exists>>

UserCompacts(cut) == ~IsBusy /\ Compact("user", Everything, cut)
\* Before its first request, or after one that was too long, a turn compacts what lies before its message.
TurnCompacts(cut) == turn # 0 /\ Len(rows) = turn /\ ~jobs["turn"].busy /\ Compact("turn", turn, cut)

CompactDone(by) ==
  LET j == jobs[by] IN
  /\ j.busy
  /\ AppendMessage(<<Row("summary", 0, j.upTo, j.covers)>>)
  /\ jobs' = [jobs EXCEPT ![by] = NoJob]
  /\ given' = IF by = "turn" THEN LoadLlmHistory(rows', turn) ELSE given
  /\ UNCHANGED <<turn, edited, exists>>
CompactFails(by) == /\ jobs[by].busy /\ jobs' = [jobs EXCEPT ![by] = NoJob]
                    /\ UNCHANGED <<rows, turn, given, edited, exists>>

Next ==
  \/ Send \/ AnswerStarts \/ Retry \/ Clear \/ DeleteConversation
  \/ \E i \in DOMAIN rows : Regenerate(i) \/ Delete(i) \/ UserCompacts(i) \/ TurnCompacts(i)
  \/ \E k \in 1..MaxRows : Edit(k)
  \/ TurnStep \/ TurnReplies \/ TurnFails
  \/ \E by \in DOMAIN jobs : CompactDone(by) \/ CompactFails(by)

Spec == Init /\ [][Next]_vars

-----------------------------------------------------------------------------
\* A turn starts from the whole active branch in front of its message: each message either verbatim or by
\* the summary it is told, none twice, whatever was cut, retired or compacted before or meanwhile.
HistoryIsWhole ==
  turn # 0 /\ exists =>
    /\ given.verbatim \cup given.told = {i \in Messages(rows) : i < turn}
    /\ given.verbatim \cap given.told = {}

\* An active summary speaks of active messages only: no deleted or replaced words reach the model by it.
SummaryIsTrue == \A s \in Summaries(rows) : rows[s].covers \subseteq Messages(rows)

\* The words of the person are sent once: a regenerated or retried message replaces its old copy, and it
\* is never a row of tool results that is sent again.
WordsOnce ==
  /\ \A i, j \in Typed(rows) : i # j => rows[i].words # rows[j].words
  /\ turn # 0 => rows[turn].words # 0

\* A cut leaves a summary alone that covers nothing of what it removes: it was paid for, and without it
\* the next turn carries the whole text again.
SummaryIsKept ==
  \A s \in Summaries(rows) :
    s \notin Summaries(rows') /\ exists' => rows[s].covers \cap Messages(rows') # rows[s].covers

\* Nothing is written to a conversation that is gone.
NoOrphans == ~exists => Live(rows) = {}

\* What the chat log owes to the next turn, whatever edits, retries, deletions and compactions came between.
HistoryIsTrue == HistoryIsWhole /\ SummaryIsTrue /\ WordsOnce /\ NoOrphans

\* web/src/api.ts: "parentId is the id of the message immediately before the one being replaced": the edited
\* message is retired, and each call of a tool in front of it keeps its results.
EditReplaces ==
  edited # 0 /\ exists => /\ edited \notin Live(rows)
                          /\ \A i \in Live(rows) : rows[i].role = "calls" => i + 1 \in Live(rows)
=============================================================================
