------------------------------ MODULE GitPush ------------------------------
(***************************************************************************)
(* A push from a sandbox: git inside the sandbox speaks to git-proxy with  *)
(* a proxy token (git-proxy/src/tokens.ts, server.ts), the proxy asks the  *)
(* orchestrator (orchestrator.ts; cli/src/github-routes.ts), and the       *)
(* orchestrator lets it pass for a click in Source Control, for a standing *)
(* grant, or shows a card.  The GitHub credential is in GitHubLogin, the   *)
(* card itself in Approvals.                                               *)
(*                                                                         *)
(* Abstracted: the pack and its parsing, the names of refs (a push adds    *)
(* to, rewrites or deletes one), fetches, LFS.  The orchestrator mints     *)
(* every token with push mode "ask", so the proxy always asks.             *)
(***************************************************************************)
EXTENDS Naturals, FiniteSets

CONSTANTS Owners,                       \* workspaces: a project, or a chat without one; one repository each
          Pushes, Tokens,               \* requests of git, proxy tokens: bounds
          MaxClicks, MaxFaults          \* bounds

VARIABLES live,      \* TokenStore: the owner a live token is bound to
          minted,    \* tokens that were ever minted
          wired,     \* sandboxTokens: the token the orchestrator believes a sandbox has
          wiring,    \* ensureSandboxGit between its awaits
          box,       \* the token in the git configuration of a sandbox
          expected,  \* expectedPushes: clicks that wait for their push, by owner
          clicked,   \* history: clicks, by owner
          standing,  \* owners with a grant for their pushes
          push,      \* requests
          faults     \* bound

pushVars == <<live, minted, wired, wiring, box, expected, clicked, standing, push, faults>>
tokenVars == <<live, minted, wired, wiring, box>>

NoPush == [owner |-> "none", who |-> "none", does |-> "adds", force |-> "no", at |-> "none", client |-> "open", by |-> "none"]
Nothing == "none"

Requests == [owner : Owners \cup {Nothing}, who : {"none", "human", "agent"},
             does : {"adds", "rewrites", "deletes"}, force : {"no", "yes", "unknown"},
             at : {"none", "asking", "card", "answered", "forwarded", "rejected"},
             client : {"open", "gone", "late"}, by : {"none", "click", "grant", "person", "no"}]

TypeOK ==
  /\ live \in [Tokens -> Owners \cup {Nothing}] /\ minted \subseteq Tokens
  /\ wired \in [Owners -> Tokens \cup {Nothing}] /\ box \in [Owners -> Tokens \cup {Nothing}]
  /\ wiring \subseteq Owners \X Tokens
  /\ expected \in [Owners -> 0..MaxClicks] /\ clicked \in [Owners -> 0..MaxClicks]
  /\ standing \subseteq Owners
  /\ push \in [Pushes -> Requests]
  /\ faults \in 0..MaxFaults

Init ==
  /\ live = [t \in Tokens |-> Nothing] /\ minted = {}
  /\ wired = [o \in Owners |-> Nothing] /\ box = wired /\ wiring = {}
  /\ expected = [o \in Owners |-> 0] /\ clicked = expected /\ standing = {}
  /\ push = [n \in Pushes |-> NoPush] /\ faults = 0

-----------------------------------------------------------------------------
(* ensureSandboxGit: nothing to do while the sandbox counts as wired; else mint, then configure git *)

Mint(o, t) ==
  /\ wired[o] = Nothing /\ t \notin minted
  /\ minted' = minted \cup {t} /\ live' = [live EXCEPT ![t] = o] /\ wiring' = wiring \cup {<<o, t>>}
  /\ UNCHANGED <<wired, box, expected, clicked, standing, push, faults>>
\* The old rewrites are dropped first; the last configuration counts.
Configure(w) ==
  /\ w \in wiring /\ wiring' = wiring \ {w}
  /\ box' = [box EXCEPT ![w[1]] = w[2]] /\ wired' = [wired EXCEPT ![w[1]] = w[2]]
  /\ UNCHANGED <<live, minted, expected, clicked, standing, push, faults>>
ConfigureFails(w) == w \in wiring /\ wiring' = wiring \ {w} /\ UNCHANGED <<live, minted, wired, box, expected, clicked, standing, push, faults>>
\* Ten minutes before it runs out, or when GitHub is disconnected, the token counts for nothing.
Unwire(o) == wired[o] # Nothing /\ wired' = [wired EXCEPT ![o] = Nothing]
             /\ UNCHANGED <<live, minted, wiring, box, expected, clicked, standing, push, faults>>
\* verify, sweep
Expire(t) == /\ live[t] # Nothing /\ wired[live[t]] # t /\ <<live[t], t>> \notin wiring
             /\ live' = [live EXCEPT ![t] = Nothing]
             /\ UNCHANGED <<minted, wired, wiring, box, expected, clicked, standing, push, faults>>
\* DELETE /admin/tokens?projectId=
RevokeProject(o) == /\ \E t \in Tokens : live[t] = o
                    /\ live' = [t \in Tokens |-> IF live[t] = o THEN Nothing ELSE live[t]]
                    /\ UNCHANGED <<minted, wired, wiring, box, expected, clicked, standing, push, faults>>
\* The container of a sandbox is made anew: its git configuration is gone.
Rebuilt(o) == box[o] # Nothing /\ faults < MaxFaults /\ faults' = faults + 1 /\ box' = [box EXCEPT ![o] = Nothing]
              /\ UNCHANGED <<live, minted, wired, wiring, expected, clicked, standing, push>>

-----------------------------------------------------------------------------
(* A push, from the click or the command of an agent to GitHub *)

\* POST scm/sync with action push: the click is noted, then git runs.
Click(o) ==
  /\ clicked[o] < MaxClicks
  /\ clicked' = [clicked EXCEPT ![o] = @ + 1] /\ expected' = [expected EXCEPT ![o] = @ + 1]
  /\ UNCHANGED <<tokenVars, standing, push, faults>>
\* 120 seconds later
ClickOver(o) == expected[o] > 0 /\ expected' = [expected EXCEPT ![o] = @ - 1] /\ UNCHANGED <<tokenVars, clicked, standing, push, faults>>

\* classifyRefs: a new ref or a deleted one is never forced; for an update GitHub is asked to compare, and
\* does not know commits that are only in the pack.
Classified(does) ==
  CASE does = "adds" -> {"no", "unknown"} [] does = "rewrites" -> {"yes", "unknown"} [] does = "deletes" -> {"no"}
\* What the orchestrator calls risky: a force that is not known is none.
Risky(p) == p.does = "deletes" \/ p.force = "yes"

\* handleGit: a live token decides whose push it is.
ReceivePack(n, o, who, does, force) ==
  /\ push[n].at = "none" /\ box[o] # Nothing /\ live[box[o]] # Nothing /\ (who = "human" => clicked[o] > 0)
  /\ force \in Classified(does)
  /\ push' = [push EXCEPT ![n] = [NoPush EXCEPT !.owner = live[box[o]], !.who = who, !.does = does, !.force = force, !.at = "asking"]]
  /\ UNCHANGED <<tokenVars, expected, clicked, standing, faults>>

\* Mutant: a click lets a risky push pass.
ClickCoversRisky(n) == expected[push[n].owner] > 0
ClickCovers(n) == expected[push[n].owner] > 0 /\ ~Risky(push[n])
\* Mutant: the click is not used up.
SpendNot(o) == expected
Spend(o) == [expected EXCEPT ![o] = @ - 1]

\* POST /internal/push-approval
PushApproval(n) ==
  /\ push[n].at = "asking" /\ push[n].client # "gone"
  /\ \/ /\ ClickCovers(n)
        /\ expected' = Spend(push[n].owner) /\ push' = [push EXCEPT ![n].at = "answered", ![n].by = "click"]
     \/ /\ ~ClickCovers(n) /\ push[n].owner \in standing /\ ~Risky(push[n])
        /\ push' = [push EXCEPT ![n].at = "answered", ![n].by = "grant"] /\ UNCHANGED expected
     \/ /\ ~ClickCovers(n) /\ (push[n].owner \notin standing \/ Risky(push[n]))
        /\ push' = [push EXCEPT ![n].at = "card"] /\ UNCHANGED expected
     \/ \* no chat to show the card in, or no orchestrator
        /\ ~ClickCovers(n) /\ push' = [push EXCEPT ![n].at = "answered", ![n].by = "no"] /\ UNCHANGED expected
  /\ UNCHANGED <<tokenVars, clicked, standing, faults>>

\* A person decides, and may allow the like of it from now on.
Answer(n, yes, always) ==
  /\ push[n].at = "card"
  /\ push' = [push EXCEPT ![n].at = "answered", ![n].by = IF yes THEN "person" ELSE "no"]
  /\ standing' = IF yes /\ always /\ ~Risky(push[n]) THEN standing \cup {push[n].owner} ELSE standing
  /\ UNCHANGED <<tokenVars, expected, clicked, faults>>
Forget(o) == o \in standing /\ standing' = standing \ {o} /\ UNCHANGED <<tokenVars, expected, clicked, push, faults>>

\* git in the sandbox goes away; while the approval is awaited this ends the wait.
ClientGone(n) ==
  /\ push[n].at \in {"asking", "card", "answered"} /\ push[n].client = "open"
  /\ push' = [push EXCEPT ![n].client = IF @ = "open" /\ push[n].at = "answered" THEN "late" ELSE "gone"]
  /\ UNCHANGED <<tokenVars, expected, clicked, standing, faults>>

\* Mutant: a client that is gone does not end the wait.
WaitEndsNever(n) == FALSE
WaitEnds(n) == push[n].client = "gone"
\* requestPushApproval ends without an answer: cancelled, out of time, or the orchestrator is unreachable.
\* The orchestrator sees the request closed and takes the card back.
Withdrawn(n) ==
  /\ push[n].at \in {"asking", "card"} /\ WaitEnds(n)
  /\ push' = [push EXCEPT ![n].at = "answered", ![n].by = "no"]
  /\ UNCHANGED <<tokenVars, expected, clicked, standing, faults>>
OutOfTime(n) ==
  /\ push[n].at \in {"asking", "card"}
  /\ push' = [push EXCEPT ![n].at = "answered", ![n].by = "no"]
  /\ UNCHANGED <<tokenVars, expected, clicked, standing, faults>>

\* The end of handleReceivePack; an answer to a wait that was ended already is not looked at.
Finish(n) ==
  /\ push[n].at = "answered"
  /\ push' = [push EXCEPT ![n].at = IF push[n].by # "no" /\ ~WaitEnds(n) THEN "forwarded" ELSE "rejected"]
  /\ UNCHANGED <<tokenVars, expected, clicked, standing, faults>>

\* Tokens and clicks live in memory, as do the open requests.
Broken == [n \in Pushes |-> IF push[n].at \in {"asking", "card", "answered"} THEN [push[n] EXCEPT !.at = "rejected", !.by = "no"] ELSE push[n]]
ProxyRestart ==
  /\ faults < MaxFaults /\ faults' = faults + 1
  /\ live' = [t \in Tokens |-> Nothing] /\ push' = Broken
  /\ UNCHANGED <<minted, wired, wiring, box, expected, clicked, standing>>
OrchestratorRestart ==
  /\ faults < MaxFaults /\ faults' = faults + 1
  /\ wired' = [o \in Owners |-> Nothing] /\ wiring' = {} /\ expected' = [o \in Owners |-> 0]
  /\ push' = [n \in Pushes |-> IF push[n].at = "card" THEN [push[n] EXCEPT !.at = "answered", !.by = "no"] ELSE push[n]]
  /\ UNCHANGED <<live, minted, box, clicked, standing>>

Next ==
  \/ \E o \in Owners : Click(o) \/ ClickOver(o) \/ Unwire(o) \/ RevokeProject(o) \/ Rebuilt(o) \/ Forget(o) \/ \E t \in Tokens : Mint(o, t)
  \/ \E w \in wiring : Configure(w) \/ ConfigureFails(w)
  \/ \E t \in Tokens : Expire(t)
  \/ \E n \in Pushes : PushApproval(n) \/ ClientGone(n) \/ Withdrawn(n) \/ OutOfTime(n) \/ Finish(n)
  \/ \E n \in Pushes, o \in Owners, who \in {"human", "agent"}, does \in {"adds", "rewrites", "deletes"}, force \in {"no", "yes", "unknown"} :
      ReceivePack(n, o, who, does, force)
  \/ \E n \in Pushes, yes, always \in BOOLEAN : Answer(n, yes, always)
  \/ ProxyRestart \/ OrchestratorRestart

Spec == Init /\ [][Next]_pushVars

-----------------------------------------------------------------------------
\* A click lets one push of its workspace pass and no second one, however pushes, time limits and
\* restarts fall together.
Clicked(o) == {n \in Pushes : push[n].owner = o /\ push[n].by = "click"}
OnePushPerClick == \A o \in Owners : Cardinality(Clicked(o)) + expected[o] <= clicked[o]

\* A push that deletes, or that GitHub's comparison shows to rewrite, reached GitHub only because a person
\* allowed this push, whatever was clicked or granted (github-routes.ts:91-121).  A push whose commits GitHub
\* cannot compare yet counts as any other, also when it rewrites: a click or a grant lets it pass.
RiskyIsAsked == \A n \in Pushes : push[n].at = "forwarded" /\ Risky(push[n]) => push[n].by = "person"

\* No answer - out of time, cancelled, unreachable, restarted - is a no: what reached GitHub was allowed by a
\* click, a grant or a person while its client waited; an approval given to nobody pushes nothing.
SilenceIsNo ==
  \A n \in Pushes : push'[n].at = "forwarded" /\ push[n].at # "forwarded" =>
    push[n].client # "gone" /\ push[n].by \in {"click", "grant", "person"}

\* The push a click lets pass is the one that was clicked.
ClickIsForItsPush == \A n \in Pushes : push[n].by = "click" => push[n].who = "human"

\* What a request says of its approval at each stage, and what a click or a grant never approves.
Stage(p) ==
  /\ IF p.at = "none" THEN p = NoPush ELSE p.owner \in Owners
  /\ p.at \in {"asking", "card"} => p.by = "none"
  /\ p.at = "answered" => p.by # "none"
  /\ p.at = "forwarded" => p.by \in {"click", "grant", "person"}
  /\ p.by \in {"click", "grant"} => ~Risky(p)
Stages == \A n \in Pushes : Stage(push[n])
PushInv == TypeOK /\ Stages /\ OnePushPerClick
=============================================================================
