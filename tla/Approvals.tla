----------------------------- MODULE Approvals -----------------------------
(***************************************************************************)
(* The approval gate (cli/src/web-approval.ts): a tool call is allowed by  *)
(* a skill of the running turn, by a stored grant or by the command policy *)
(* (command-policy.ts, policy-file.ts), refused by that policy, or waits   *)
(* as a card for a person.  A card is settled by the person, by an abort   *)
(* (kill switch, or the git client behind a push) or by a time limit.      *)
(*                                                                         *)
(* A call consists of parts: one for a tool, one per sub-command for a     *)
(* shell command.  The label of a part is what grants and policies name;   *)
(* an "edge" part crosses a boundary (push, unknown domain, write outside  *)
(* the workspace).  How a command line is split is left out.               *)
(***************************************************************************)
EXTENDS Naturals, FiniteSets

CONSTANTS Chats, ProjectOf,          \* the project of each chat
          Tools, Prefixes, Safe,     \* labels of tools, of sub-commands, the read-only ones
          Policies, PolicyOf,        \* policies the file may hold, the policy of each project
          Calls,                     \* bound: the calls that are made, as sets of parts
          MaxCalls, MaxGrants        \* bounds

ASSUME GateAssumption == /\ Safe \subseteq Prefixes /\ Tools \cap Prefixes = {}
                         /\ MaxCalls \in Nat \ {0} /\ MaxGrants \in Nat
                         \* One tool, or sub-commands; a line without one asks (command-policy.ts:255).  Edges are of sub-commands.
                         /\ Calls \subseteq {{[label |-> t, edge |-> FALSE]} : t \in Tools}
                                             \cup ((SUBSET [label : Prefixes, edge : BOOLEAN]) \ {{}})
                         /\ Policies \cup {PolicyOf[ProjectOf[c]] : c \in Chats} \subseteq [mode : {"strict", "auto", "allowlist", "none"},
                                                allow : SUBSET Prefixes, deny : SUBSET Prefixes]

VARIABLES calls,    \* calls put to the gate, by number
          cards,    \* pending: the cards that wait
          armed,    \* calls whose abort listener and timer are set
          grants,   \* approval_grants
          skills,   \* chatAllowed: what the skills of the running turn allow, by chat
          turns,    \* "idle", "running", "killed", by chat
          file,     \* the policy file
          audit     \* how often each call was put on record as granted or denied by hand

gateVars == <<calls, cards, armed, grants, skills, turns, file, audit>>

Labels == Tools \cup Prefixes
Numbers == 1..MaxCalls
Projects == {ProjectOf[c] : c \in Chats}
NoCall == [chat |-> "none", for |-> "none", parts |-> {}, risky |-> FALSE, asked |-> {}, state |-> "none", by |-> "none", scope |-> "once"]
\* A refused call leaves its outcome only.
Refused(by) == [NoCall EXCEPT !.state = "no", !.by = by]
Parts == [label : Labels, edge : BOOLEAN]

TypeOK ==
  /\ calls \in [Numbers -> [chat : Chats \cup {"none"}, for : {"none", "turn", "push"}, parts : SUBSET Parts, risky : BOOLEAN,
                            asked : SUBSET Labels, state : {"none", "waiting", "yes", "no"},
                            by : {"none", "person", "grant", "policy", "abort", "limit"},
                            scope : {"once", "chat", "project", "always"}]]
  /\ cards \subseteq Numbers /\ armed \subseteq Numbers
  /\ grants \subseteq [label : Labels, scope : {"chat", "project", "always"}, of : Chats \cup Projects \cup {"none"}, card : Numbers]
  /\ skills \in [Chats -> SUBSET Tools]
  /\ turns \in [Chats -> {"idle", "running", "killed"}]
  /\ file \in Policies
  /\ audit \in [Numbers -> 0..2]

Init ==
  /\ calls = [n \in Numbers |-> NoCall] /\ cards = {} /\ armed = {} /\ grants = {}
  /\ skills = [c \in Chats |-> {}] /\ turns = [c \in Chats |-> "idle"]
  /\ file \in Policies
  /\ audit = [n \in Numbers |-> 0]

-----------------------------------------------------------------------------
(* command-policy.ts, policy-file.ts, db.ts *)

\* Deny and allow add up; the mode of the file is only a default.
MergeCommandPolicy(default, project) ==
  [mode  |-> IF project.mode # "none" THEN project.mode ELSE IF default.mode # "none" THEN default.mode ELSE "strict",
   allow |-> default.allow \cup project.allow,
   deny  |-> default.deny \cup project.deny]

FindMatchingGrant(label, chat) ==
  {g \in grants : /\ g.label = label
                  /\ g.scope = "chat" => g.of = chat
                  /\ g.scope = "project" => g.of = ProjectOf[chat]}
Granted(label, chat) == label \in skills[chat] \/ FindMatchingGrant(label, chat) # {}

\* evaluateCommand, one sub-command: deny first, then a boundary asks whatever was granted.
Decision(p, chat, policy) ==
  IF p.label \in policy.deny THEN "deny"
  ELSE IF /\ ~p.edge
          /\ \/ Granted(p.label, chat) \/ p.label \in policy.allow \/ policy.mode = "auto"
             \/ policy.mode = "allowlist" /\ p.label \in Safe
       THEN "allow" ELSE "ask"

\* The verdict on each part; a tool is not subject to the policy, only to grants.
Verdicts(parts, chat) ==
  LET policy == MergeCommandPolicy(file, PolicyOf[ProjectOf[chat]]) IN
  [p \in parts |-> IF p.label \in Tools THEN (IF Granted(p.label, chat) THEN "allow" ELSE "ask") ELSE Decision(p, chat, policy)]

-----------------------------------------------------------------------------
(* web-approval.ts *)

Put(n, call) == calls' = [calls EXCEPT ![n] = call]
\* The first free number; calls are numbered as they come.
Fresh(n) == calls[n].state = "none" /\ \A m \in Numbers : m < n => calls[m].state # "none"

\* Mutant: risk is looked at for tools only.
MayPassAnyRisk(parts, risky, v) == (\A p \in parts : v[p] = "allow") /\ (risky => \E p \in parts : p.label \in Prefixes)
MayPass(parts, risky, v) == (\A p \in parts : v[p] = "allow") /\ ~risky

\* Mutant: a call of an aborted turn still gets a card.
LiveAlways(chat, for) == turns[chat] # "idle" \/ for = "push"
Live(chat, for) == turns[chat] = "running" \/ for = "push"

\* confirmDetailed.  A killed turn is refused at once, without a record.
Confirm(n, chat, for, parts, risky) ==
  LET v == Verdicts(parts, chat)
      asked == {p.label : p \in {q \in parts : v[q] = "ask"}}
      call(state, by) == [chat |-> chat, for |-> for, parts |-> parts, risky |-> risky,
                          asked |-> asked, state |-> state, by |-> by, scope |-> "once"]
  IN /\ Fresh(n)
     /\ for = "turn" => turns[chat] # "idle"
     /\ \/ /\ ~Live(chat, for)
           /\ Put(n, Refused("abort")) /\ UNCHANGED <<cards, armed>>
        \/ /\ Live(chat, for) /\ \E p \in parts : v[p] = "deny"
           /\ Put(n, Refused("policy")) /\ UNCHANGED <<cards, armed>>
        \/ /\ Live(chat, for) /\ MayPass(parts, risky, v)
           /\ Put(n, call("yes", "grant")) /\ UNCHANGED <<cards, armed>>
        \/ /\ Live(chat, for) /\ (\A p \in parts : v[p] # "deny") /\ ~MayPass(parts, risky, v)
           /\ Put(n, call("waiting", "none"))
           /\ cards' = cards \cup {n} /\ armed' = armed \cup {n}
     /\ UNCHANGED <<grants, skills, turns, file, audit>>

\* Mutant: the abort listener stays.
SettleArmed(n, outcome) ==
  /\ cards' = cards \ {n} /\ UNCHANGED armed
  /\ calls' = [calls EXCEPT ![n] = outcome]
  /\ audit' = [audit EXCEPT ![n] = @ + 1]
Settle(n, outcome) ==
  /\ cards' = cards \ {n} /\ armed' = armed \ {n}
  /\ calls' = [calls EXCEPT ![n] = outcome]
  /\ audit' = [audit EXCEPT ![n] = @ + 1]

Shell(n) == calls[n].parts # {} /\ \A p \in calls[n].parts : p.label \in Prefixes

\* A shell card grants what the person was asked about, any other card the tool.
GrantedLabels(n) == IF Shell(n) THEN calls[n].asked ELSE {p.label : p \in calls[n].parts}

\* Mutant: a project grant without a project is stored for everything.
GrantWide(n, label, scope, project) ==
  [label |-> label, card |-> n, scope |-> IF scope = "project" /\ ~project THEN "always" ELSE scope,
   of |-> CASE scope = "chat" -> calls[n].chat [] scope = "project" /\ project -> ProjectOf[calls[n].chat] [] OTHER -> "none"]
\* A project grant without a project is narrowed to the chat.
Grant(n, label, scope, project) ==
  LET effective == IF scope = "project" /\ ~project THEN "chat" ELSE scope IN
  [label |-> label, card |-> n, scope |-> effective,
   of |-> CASE effective = "chat" -> calls[n].chat [] effective = "project" -> ProjectOf[calls[n].chat] [] OTHER -> "none"]

\* resolve, by way of POST /api/approve
Resolve(n, approved, scope, project) ==
  /\ n \in cards
  /\ Settle(n, IF approved THEN [calls[n] EXCEPT !.state = "yes", !.by = "person", !.scope = scope] ELSE Refused("person"))
  /\ grants' = IF approved /\ ~calls[n].risky /\ scope # "once"
               THEN grants \cup {Grant(n, l, scope, project) : l \in GrantedLabels(n)} ELSE grants
  /\ Cardinality(grants') <= MaxGrants
  /\ UNCHANGED <<skills, turns, file>>

\* The time limit of a card, when the caller set one
Expire(n) == n \in armed /\ audit[n] < 2 /\ Settle(n, Refused("limit")) /\ UNCHANGED <<grants, skills, turns, file>>

\* The git client behind a push goes away.
PusherGone(n) == /\ n \in armed /\ calls[n].for = "push" /\ audit[n] < 2
                 /\ Settle(n, Refused("abort")) /\ UNCHANGED <<grants, skills, turns, file>>

\* The kill switch aborts the turn: every listener of its calls fires.
Kill(chat) ==
  LET mine == {n \in armed : calls[n].for = "turn" /\ calls[n].chat = chat} IN
  /\ turns[chat] = "running"
  /\ turns' = [turns EXCEPT ![chat] = "killed"]
  /\ calls' = [n \in Numbers |-> IF n \in mine THEN Refused("abort") ELSE calls[n]]
  /\ audit' = [n \in Numbers |-> IF n \in mine /\ audit[n] < 2 THEN audit[n] + 1 ELSE audit[n]]
  /\ cards' = cards \ mine /\ armed' = armed \ mine
  /\ UNCHANGED <<grants, skills, file>>

Revoke(g) == g \in grants /\ grants' = grants \ {g} /\ UNCHANGED <<calls, cards, armed, skills, turns, file, audit>>

-----------------------------------------------------------------------------
(* server.ts: the turn, and the settings of the user *)

\* A turn allows what its skills declare, and nothing of an earlier turn.
TurnStart(chat, tools) ==
  /\ turns[chat] = "idle"
  /\ turns' = [turns EXCEPT ![chat] = "running"]
  /\ skills' = [skills EXCEPT ![chat] = tools]
  /\ UNCHANGED <<calls, cards, armed, grants, file, audit>>

\* Mutant: the skills of a killed turn stay.
TurnEndKeepsSkills(chat) ==
  /\ turns[chat] # "idle" /\ \A n \in Numbers : ~(calls[n].chat = chat /\ calls[n].for = "turn" /\ calls[n].state = "waiting")
  /\ turns' = [turns EXCEPT ![chat] = "idle"]
  /\ skills' = IF turns[chat] = "killed" THEN skills ELSE [skills EXCEPT ![chat] = {}]
  /\ UNCHANGED <<calls, cards, armed, grants, file, audit>>
TurnEnd(chat) ==
  /\ turns[chat] # "idle" /\ \A n \in Numbers : ~(calls[n].chat = chat /\ calls[n].for = "turn" /\ calls[n].state = "waiting")
  /\ turns' = [turns EXCEPT ![chat] = "idle"]
  /\ skills' = [skills EXCEPT ![chat] = {}]
  /\ UNCHANGED <<calls, cards, armed, grants, file, audit>>

EditFile(p) == file' = p /\ p # file /\ UNCHANGED <<calls, cards, armed, grants, skills, turns, audit>>

\* Cards and skills live in memory; grants and policies are stored.
Restart ==
  /\ cards # {} \/ \E c \in Chats : turns[c] # "idle"
  /\ turns' = [c \in Chats |-> "idle"] /\ skills' = [c \in Chats |-> {}] /\ cards' = {} /\ armed' = {}
  /\ calls' = [n \in Numbers |-> IF calls[n].state = "waiting" THEN Refused("abort") ELSE calls[n]]
  /\ UNCHANGED <<grants, file, audit>>

Next ==
  \/ \E c \in Chats : Kill(c) \/ TurnEnd(c) \/ \E tools \in SUBSET Tools : TurnStart(c, tools)
  \/ \E n \in Numbers, c \in Chats, parts \in Calls, risky \in BOOLEAN : Confirm(n, c, "turn", parts, risky)
  \/ \E n \in Numbers, c \in Chats, t \in Tools, risky \in BOOLEAN : Confirm(n, c, "push", {[label |-> t, edge |-> FALSE]}, risky)
  \/ \E n \in Numbers : Expire(n) \/ PusherGone(n)
  \/ \E n \in Numbers, approved, project \in BOOLEAN, scope \in {"once", "chat", "project", "always"} : Resolve(n, approved, scope, project)
  \/ \E g \in grants : Revoke(g)
  \/ \E p \in Policies : EditFile(p)
  \/ Restart

Spec == Init /\ [][Next]_gateVars

-----------------------------------------------------------------------------
\* A call that passes without a card rests, part by part, on the policy, on a skill of the turn, or on a
\* grant that still stands and comes from a card on which a person allowed that very part, in this chat,
\* in this project or for everything.
Shown(g, label, chat) ==
  LET k == calls[g.card] IN
  /\ k.by = "person" /\ k.state = "yes" /\ ~k.risky
  /\ label \in {p.label : p \in k.parts} /\ (label \in Prefixes => label \in k.asked)
  /\ k.scope = "always" \/ (k.scope # "once" /\ k.chat = chat) \/ (k.scope = "project" /\ ProjectOf[k.chat] = ProjectOf[chat])
PassesOnWhatWasSeen ==
  \A n \in Numbers : calls[n].state = "none" /\ calls'[n].by = "grant" =>
    \A p \in calls'[n].parts :
      LET c == calls'[n].chat
          policy == MergeCommandPolicy(file, PolicyOf[ProjectOf[c]])
      IN \/ p.label \in skills[c]
         \/ p.label \in Prefixes /\ (p.label \in policy.allow \/ policy.mode = "auto" \/ policy.mode = "allowlist")
         \/ \E g \in grants : g.label = p.label /\ Shown(g, p.label, c)

\* Nobody's standing permission covers a dangerous call, a call after a suspected injection or a part that
\* crosses a boundary: each of them was allowed by a person, for itself.
RiskyNeedsPerson ==
  \A n \in Numbers : calls[n].state = "yes" /\ (calls[n].risky \/ \E p \in calls[n].parts : p.edge) => calls[n].by = "person"

\* Human, kill switch, git client and time limit race for a card: one wins, the others find nothing, and
\* a call waits exactly while there is a card to answer it by.
SettledOnce ==
  /\ \A n \in Numbers : audit[n] <= 1
  /\ cards = {n \in Numbers : calls[n].state = "waiting"} /\ armed = cards

\* No card of a killed turn is left for a person to answer.
KilledAsksNothing == \A n \in cards : calls[n].for = "turn" => turns[calls[n].chat] = "running"

\* What a skill allows ends with the turn it was attached to.
SkillsEndWithTurn == \A c \in Chats : turns[c] = "idle" => skills[c] = {}

\* What the gate owes, whoever asks, answers, kills or waits: nothing dangerous by a standing permission, one
\* outcome per call, no card and no permission beyond the turn.
CallsAreDecided == RiskyNeedsPerson /\ SettledOnce /\ KilledAsksNothing /\ SkillsEndWithTurn
=============================================================================
