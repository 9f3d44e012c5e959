--------------------------------- MODULE Web ---------------------------------
(***************************************************************************)
(* Which web addresses a chat opens without asking, and what asks again    *)
(* once a page looked like a prompt injection (cli/src/llm-loop.ts,        *)
(* cli/src/web/provenance.ts, cli/src/web/tools.ts).                       *)
(*                                                                         *)
(* A message of the history is who wrote it and the addresses in it: the   *)
(* person, a model whose text stands in a user's message (a summary, the   *)
(* words of another agent), a web tool's result, a redirect it names, the  *)
(* model's own words that it repeats, or another tool's result.  Downloading a    *)
(* page is WebPages', deciding on a request Approvals'.                    *)
(***************************************************************************)
EXTENDS Naturals, Sequences, SequencesExt

CONSTANTS Hosts,       \* hosts of the web
          Pages,       \* pages of a host
          MaxMessages, \* bound: messages in the history
          MaxTurns,    \* bound: messages sent
          MaxCalls     \* bound: tool calls made

VARIABLES messages,  \* the history
          turn,      \* a turn is running
          trusted,   \* userUrlsTrusted: the person's chat, not a worker's
          flagged,   \* injectionWarning
          call,      \* the tool call being handled
          granted,   \* what the person allowed for good: hosts, a tool
          said, listed, \* ghost: hosts and addresses that ever stood in a source
          typed, found, \* ghost: the same, without what a model wrote
          linked,    \* ghost: the addresses, without those only named by a redirect
          opened,    \* ghost: the pages opened, with how
          ran,       \* ghost: the other calls that ran, with how
          turns, calls
ghosts == <<said, listed, typed, found, linked>>
vars == <<messages, turn, trusted, flagged, call, granted, ghosts, opened, ran, turns, calls>>

Urls == Hosts \X Pages
Host(url) == url[1]
NoCall == [at |-> "none", tool |-> "none", url |-> <<>>, asked |-> FALSE, covered |-> FALSE]
WebTools == {"web_search", "web_fetch"}
ToolKinds == WebTools \cup {"browser_open", "own preview", "observe", "plain", "effect"}
Takes(tool) == IF tool \in {"web_fetch", "browser_open"} THEN Urls ELSE {<<>>}

TypeOK ==
    /\ Len(messages) <= MaxMessages
    /\ turn \in BOOLEAN /\ trusted \in BOOLEAN /\ flagged \in BOOLEAN
    /\ call.at \in {"none", "asking", "running"} /\ call.tool \in ToolKinds \cup {"none"}
    /\ granted \subseteq Hosts \cup {"effect"}
    /\ typed \subseteq said /\ found \subseteq listed /\ linked \subseteq listed
    /\ turns \in 0 .. MaxTurns /\ calls \in 0 .. MaxCalls

Init ==
    /\ messages = <<>> /\ turn = FALSE /\ trusted \in BOOLEAN /\ flagged = FALSE /\ call = NoCall
    /\ granted = {} /\ said = {} /\ listed = {} /\ typed = {} /\ found = {} /\ linked = {}
    /\ opened = {} /\ ran = {} /\ turns = 0 /\ calls = 0

-----------------------------------------------------------------------------
(* collectContextUrls *)

\* (EveryResult: a plausible bug, the results of every tool count.)
WebResults == {"web", "redirect", "echo"}
EveryResult(m) == m.by \in WebResults \cup {"other"}
IsSource(m) == m.by \in WebResults
UserHosts == IF trusted THEN UNION {{Host(u) : u \in m.urls} : m \in {n \in Range(messages) : n.by \in {"person", "model"}}} ELSE {}
ExactUrls == UNION {m.urls : m \in {n \in Range(messages) : IsSource(n)}}
UrlIsInContext(url) == Host(url) \in UserHosts \/ url \in ExactUrls

Written(by, urls) ==
    /\ messages' = Append(messages, [by |-> by, urls |-> urls])
    /\ said' = IF by \in {"person", "model"} THEN said \cup {Host(u) : u \in urls} ELSE said
    /\ listed' = IF by \in WebResults THEN listed \cup urls ELSE listed
    /\ linked' = IF by \in {"web", "echo"} THEN linked \cup urls ELSE linked
    /\ typed' = IF by = "person" THEN typed \cup {Host(u) : u \in urls} ELSE typed
    /\ found' = IF by \in {"web", "redirect"} THEN found \cup urls ELSE found
Few == {{}} \cup {{u} : u \in Urls}
Room == Len(messages) < MaxMessages

-----------------------------------------------------------------------------
(* The turn around the calls. *)

SendMessage ==
    /\ ~turn /\ turns < MaxTurns /\ Room
    /\ \E urls \in Few : Written("person", urls)
    /\ turn' = TRUE /\ flagged' = FALSE /\ turns' = turns + 1
    /\ UNCHANGED <<trusted, call, granted, opened, ran, calls>>

\* drainInbox: the words of other agents join the newest user message.
NoteArrives ==
    /\ turn /\ call = NoCall /\ Room
    /\ \E u \in Urls : Written("model", {u})
    /\ UNCHANGED <<turn, trusted, flagged, call, granted, opened, ran, turns, calls>>

EndTurn ==
    /\ turn /\ call = NoCall /\ turn' = FALSE
    /\ UNCHANGED <<messages, trusted, flagged, call, granted, ghosts, opened, ran, turns, calls>>

\* compactConversation and withSummary: a prefix becomes a text of the first message kept.
Compact ==
    /\ ~turn /\ \E cut \in 2 .. Len(messages) :
        /\ messages[cut].by = "person"
        /\ \E u \in UNION {messages[i].urls : i \in 1 .. cut - 1} :
            /\ messages' = <<[by |-> "model", urls |-> {u}]>> \o SubSeq(messages, cut, Len(messages))
            /\ said' = said \cup {Host(u)}
    /\ UNCHANGED <<turn, trusted, flagged, call, granted, listed, typed, found, linked, opened, ran, turns, calls>>

\* A grant is taken back in Settings.
Revoke ==
    /\ \E g \in granted : granted' = granted \ {g}
    /\ UNCHANGED <<messages, turn, trusted, flagged, call, ghosts, opened, ran, turns, calls>>

-----------------------------------------------------------------------------
(* One tool call. *)

\* Who has to be asked before the call runs.
Gated(tool) == tool \in {"web_fetch", "browser_open"}
Asks(tool, url) ==
    CASE tool = "web_fetch"    -> flagged \/ ~UrlIsInContext(url)
      [] tool = "browser_open" -> TRUE
      [] tool = "effect"       -> TRUE
      [] tool \in {"plain", "web_search"} -> flagged
      [] OTHER -> FALSE
Label(tool, url) == IF Gated(tool) THEN Host(url) ELSE tool
Covered(tool, url) == ~flagged /\ Asks(tool, url) /\ Label(tool, url) \in granted

Invoke(tool, url) ==
    /\ turn /\ call = NoCall /\ calls < MaxCalls /\ calls' = calls + 1 /\ Room
    /\ call' = [at |-> IF Asks(tool, url) /\ ~Covered(tool, url) THEN "asking" ELSE "running",
                tool |-> tool, url |-> url, asked |-> FALSE, covered |-> Covered(tool, url)]
    /\ UNCHANGED <<messages, turn, trusted, flagged, granted, ghosts, opened, ran, turns>>

\* Arguments that are no JSON: nothing runs, and the error repeats what was written.
InvokeGarbled(url) ==
    /\ turn /\ call = NoCall /\ calls < MaxCalls /\ calls' = calls + 1 /\ Room
    /\ Written("echo", {url})
    /\ UNCHANGED <<turn, trusted, flagged, call, granted, opened, ran, turns>>

\* The person answers; for good only where no warning forced the question.
Approve(forGood) ==
    /\ call.at = "asking" /\ call' = [call EXCEPT !.at = "running", !.asked = TRUE]
    /\ granted' = IF forGood /\ ~flagged THEN granted \cup {Label(call.tool, call.url)} ELSE granted
    /\ UNCHANGED <<messages, turn, trusted, flagged, ghosts, opened, ran, turns, calls>>

Deny ==
    /\ call.at = "asking" /\ call' = NoCall
    /\ Written("other", {})
    /\ UNCHANGED <<turn, trusted, flagged, granted, opened, ran, turns, calls>>

\* browserInjectionSignal: the first suspicion of a turn stays.
\* (Latest: a plausible bug, a harmless page takes the warning back.)
Latest(suspected) == suspected
Warned(suspected) == flagged \/ suspected
Observed(tool) == tool \in WebTools \cup {"browser_open", "own preview", "observe"}

HowItRan == [tool |-> call.tool, url |-> call.url, asked |-> call.asked, covered |-> call.covered]

\* The call returns: a result with the addresses in it, or a redirect to
\* another host, named in the result.
Return(redirect) ==
    /\ call.at = "running" /\ call' = NoCall
    /\ \E urls \in Few, suspected \in BOOLEAN :
        /\ redirect => /\ call.tool = "web_fetch" /\ ~suspected
                       /\ \E u \in urls : Host(u) # Host(call.url)
        /\ Written(IF redirect THEN "redirect" ELSE IF call.tool \in WebTools THEN "web" ELSE "other", urls)
        /\ flagged' = IF Observed(call.tool) THEN Warned(suspected) ELSE flagged
    /\ IF call.tool \in {"web_fetch", "browser_open"}
         THEN opened' = opened \cup {HowItRan} /\ UNCHANGED ran
         ELSE ran' = ran \cup {HowItRan} /\ UNCHANGED opened
    /\ UNCHANGED <<turn, trusted, granted, turns, calls>>

\* A search repeats the query it was asked.
SearchRepeatsQuery ==
    /\ call.at = "running" /\ call.tool = "web_search" /\ call' = NoCall
    /\ \E u \in Urls : Written("echo", {u})
    /\ ran' = ran \cup {HowItRan}
    /\ UNCHANGED <<turn, trusted, flagged, granted, opened, turns, calls>>

Next ==
    \/ SendMessage \/ NoteArrives \/ EndTurn \/ Compact \/ Revoke
    \/ \E t \in ToolKinds : \E u \in Takes(t) : Invoke(t, u)
    \/ \E u \in Urls : InvokeGarbled(u)
    \/ \E b \in BOOLEAN : Approve(b)
    \/ Deny \/ SearchRepeatsQuery
    \/ \E b \in BOOLEAN : Return(b)

Spec == Init /\ [][Next]_vars

-----------------------------------------------------------------------------
(***************************************************************************)
(* web_fetch opens without a question only what stood in a user's message  *)
(* (its host) or in the result of a web tool (this very address), in a     *)
(* worker only the latter; browser_open opens nothing unasked              *)
(* (llm-loop.ts:436-442, provenance.ts:3-12).                              *)
(***************************************************************************)
OpenedWasShown ==
    \A o \in opened : ~o.asked /\ ~o.covered =>
        o.tool = "web_fetch" /\ (o.url \in listed \/ (trusted /\ Host(o.url) \in said))

(***************************************************************************)
(* After a result that looked like an injection no page is opened and no   *)
(* call runs in this turn without a fresh answer of the person, but those  *)
(* that only read and the chat's own preview (llm-loop.ts:316-318, 457).   *)
(***************************************************************************)
FlaggedTurnAsks ==
    turn /\ turn' =>
     /\ flagged => flagged'
     /\ \A o \in (opened' \cup ran') \ (opened \cup ran) :
           flagged => o.asked \/ o.tool \in {"observe", "own preview"}

(***************************************************************************)
(* provenance.ts:11 "Text written by the model is never a source."  A      *)
(* summary, the words of other agents, the query a search repeats and the  *)
(* arguments an error repeats are, however, sources.                       *)
(***************************************************************************)
ModelTextIsNoSource ==
    \A o \in opened : ~o.asked /\ ~o.covered => o.url \in found \/ Host(o.url) \in typed

(***************************************************************************)
(* tools.ts:197 tells the model that the user will be asked before a       *)
(* redirect to another site is followed.  The address stands in the result *)
(* of web_fetch and thereby counts as given.                               *)
(***************************************************************************)
RedirectIsAsked ==
    \A o \in opened : ~o.asked /\ ~o.covered => o.url \in linked \/ Host(o.url) \in said

\* What stands in the history is noted; a call that runs has its grounds, and keeps them until it returns.
Writers == {"person", "model", "web", "redirect", "echo", "other"}
Noted(m, urls, hosts) ==
    /\ m.by \in WebResults => m.urls \subseteq urls
    /\ m.by \in {"person", "model"} => \A u \in m.urls : Host(u) \in hosts
Shown(url) == url \in listed \/ (trusted /\ Host(url) \in said)
CallHasGrounds ==
    /\ call.at = "none" => call = NoCall
    /\ call.at # "none" => turn /\ Room /\ call.tool \in ToolKinds /\ call.url \in Takes(call.tool)
    /\ call.at = "asking" /\ ~flagged => Gated(call.tool) \/ call.tool = "effect"
    /\ call.at = "running" /\ flagged => call.asked \/ call.tool \in {"observe", "own preview"}
    /\ call.at = "running" /\ Gated(call.tool) /\ ~call.asked /\ ~call.covered => call.tool = "web_fetch" /\ Shown(call.url)
WebInv ==
    /\ TypeOK /\ OpenedWasShown /\ CallHasGrounds
    /\ messages \in Seq([by : Writers, urls : SUBSET Urls]) /\ \A i \in 1 .. Len(messages) : Noted(messages[i], listed, said)
    /\ call \in [at : {"none", "asking", "running"}, tool : ToolKinds \cup {"none"}, url : Urls \cup {<<>>}, asked : BOOLEAN, covered : BOOLEAN]
=============================================================================
