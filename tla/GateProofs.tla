------------------------------ MODULE GateProofs ------------------------------
(***************************************************************************)
(* What passes where a person is asked: the components of Gate keep their  *)
(* promises for any number of chats, calls, cards, pushes, tokens, pages,  *)
(* sessions and guesses, and for every policy file.                        *)
(***************************************************************************)
EXTENDS Gate, FiniteSetTheorems, SequenceTheorems, WellFoundedInduction, TLAPS

-----------------------------------------------------------------------------
(* The approval gate *)

\* What a call may consist of: the calls of Calls, and the push of the git proxy, which is a tool.
OneTool == {{[label |-> t, edge |-> FALSE]} : t \in Tools}
Commands == SUBSET [label : Prefixes, edge : BOOLEAN]

\* A call that waits came from a chat, shows parts of one kind, asks about labels of these, and is not on record.
Pending ==
  \A n \in Numbers : calls[n].state = "waiting" =>
    /\ calls[n].chat \in Chats
    /\ calls[n].parts \in OneTool \cup Commands
    /\ calls[n].asked \subseteq {p.label : p \in calls[n].parts}
    /\ audit[n] = 0

\* A number that is not given away has nothing on record.
Unused == \A n \in Numbers : calls[n].state = "none" => calls[n] = NoCall /\ audit[n] = 0

CallType == [chat : Chats \cup {"none"}, for : {"none", "turn", "push"}, parts : SUBSET Parts, risky : BOOLEAN,
             asked : SUBSET Labels, state : {"none", "waiting", "yes", "no"},
             by : {"none", "person", "grant", "policy", "abort", "limit"},
             scope : {"once", "chat", "project", "always"}]
CallsInv ==
  /\ calls \in [Numbers -> CallType] /\ audit \in [Numbers -> 0..2]
  /\ Pending /\ Unused /\ RiskyNeedsPerson /\ SettledOnce

\* A grant that is stored comes from a card on which a person allowed its very label, as widely as the grant says.
Scoped(g, k) ==
  /\ g.scope = "chat" => g.of = k.chat /\ k.scope # "once"
  /\ g.scope = "project" => g.of = ProjectOf[k.chat] /\ k.scope = "project"
  /\ g.scope = "always" => k.scope = "always"
FromCard(g, k) ==
  /\ k.by = "person" /\ k.state = "yes" /\ ~k.risky
  /\ g.label \in {p.label : p \in k.parts} /\ (g.label \in Prefixes => g.label \in k.asked)
  /\ Scoped(g, k)
GrantsWereSeen == \A g \in grants : FromCard(g, calls[g.card])

GrantType == [label : Labels, scope : {"chat", "project", "always"}, of : Chats \cup Projects \cup {"none"}, card : Numbers]
GrantsInv == grants \subseteq GrantType /\ GrantsWereSeen

TurnsInv ==
  /\ skills \in [Chats -> SUBSET Tools] /\ turns \in [Chats -> {"idle", "running", "killed"}]
  /\ KilledAsksNothing /\ SkillsEndWithTurn

IInv == CallsInv /\ GrantsInv /\ TurnsInv /\ file \in Policies

-----------------------------------------------------------------------------
(* The calls.                                                               *)

LEMMA RefusedCall ==
  ASSUME NEW by \in {"person", "policy", "abort", "limit"}
  PROVE  /\ Refused(by) \in CallType
         /\ Refused(by).state = "no" /\ Refused(by).parts = {} /\ Refused(by).by # "grant"
BY DEF Refused, NoCall, CallType

\* What may be put to the gate.
Askable == Calls \cup OneTool
LEMMA AskedParts ==
  ASSUME NEW parts \in Askable
  PROVE  /\ parts \in OneTool \cup Commands
         /\ parts \subseteq Parts
         /\ \A p \in parts : p.edge => p.label \notin Tools
<1>1. parts \in OneTool \cup Commands  BY GateAssumption DEF Askable, OneTool, Commands
<1>2. CASE parts \in OneTool
  <2>1. PICK t \in Tools : parts = {[label |-> t, edge |-> FALSE]}  BY <1>2 DEF OneTool
  <2>2. [label |-> t, edge |-> FALSE] \in Parts  BY DEF Parts, Labels
  <2> QED  BY <1>1, <2>1, <2>2
<1>3. CASE parts \in Commands
  <2>1. \A p \in parts : p \in [label : Prefixes, edge : BOOLEAN]  BY <1>3 DEF Commands
  <2> QED  BY <1>1, <2>1, GateAssumption DEF Parts, Labels
<1> QED  BY <1>1, <1>2, <1>3

\* What passes without a card has no part at a boundary and is not dangerous.
LEMMA PassedHasNoEdge ==
  ASSUME NEW parts \in Askable, NEW chat, NEW risky, MayPass(parts, risky, Verdicts(parts, chat))
  PROVE  ~risky /\ \A p \in parts : ~p.edge
<1>1. ~risky /\ \A p \in parts : Verdicts(parts, chat)[p] = "allow"  BY DEF MayPass
<1>2. ASSUME NEW p \in parts, p.edge  PROVE FALSE
  <2>1. p.label \notin Tools  BY <1>2, AskedParts
  <2> DEFINE policy == MergeCommandPolicy(file, PolicyOf[ProjectOf[chat]])
  <2> HIDE DEF policy
  <2>2. Decision(p, chat, policy) \in {"deny", "ask"}  BY <1>2 DEF Decision
  <2>3. Verdicts(parts, chat)[p] = Decision(p, chat, policy)  BY <2>1, <1>2 DEF Verdicts, policy
  <2> QED  BY <1>1, <2>2, <2>3
<1> QED  BY <1>1, <1>2

\* What is put on record for a call.
Noted(n, chat, for, parts, risky, entry) ==
  /\ calls' = [calls EXCEPT ![n] = entry]
  /\ entry \in CallType /\ (entry.by = "grant" => entry.state = "yes")
  /\ \/ entry.state = "no" /\ entry.parts = {} /\ UNCHANGED <<cards, armed>>
     \/ entry.state = "yes" /\ entry.by = "grant" /\ entry.parts = parts /\ ~entry.risky /\ (\A p \in parts : ~p.edge)
          /\ entry.chat = chat /\ MayPass(parts, risky, Verdicts(parts, chat)) /\ UNCHANGED <<cards, armed>>
     \/ /\ entry.state = "waiting" /\ entry.chat = chat /\ entry.for = for /\ entry.parts = parts /\ Live(chat, for)
        /\ entry.asked \subseteq {p.label : p \in parts}
        /\ cards' = cards \cup {n} /\ armed' = armed \cup {n}

LEMMA ConfirmNotes ==
  ASSUME NEW n \in Numbers, NEW chat \in Chats, NEW for \in {"turn", "push"}, NEW parts \in Askable, NEW risky \in BOOLEAN,
         Confirm(n, chat, for, parts, risky)
  PROVE  /\ Fresh(n) /\ UNCHANGED <<grants, skills, turns, file, audit>>
         /\ \E entry : Noted(n, chat, for, parts, risky, entry)
<1> DEFINE v == Verdicts(parts, chat)
           labels == {p.label : p \in {q \in parts : v[q] = "ask"}}
           entry(s, b) == [chat |-> chat, for |-> for, parts |-> parts, risky |-> risky,
                          asked |-> labels, state |-> s, by |-> b, scope |-> "once"]
<1>1. Fresh(n) /\ UNCHANGED <<grants, skills, turns, file, audit>>  BY DEF Confirm
<1>2. parts \subseteq Parts /\ labels \subseteq {p.label : p \in parts}  BY AskedParts
<1>3. labels \subseteq Labels  BY <1>2 DEF Parts
<1>4. /\ entry("yes", "grant") \in CallType
      /\ entry("waiting", "none") \in CallType  BY <1>2, <1>3 DEF CallType
<1>5. CASE ~Live(chat, for) /\ Put(n, Refused("abort")) /\ UNCHANGED <<cards, armed>>
    BY <1>1, <1>5, RefusedCall DEF Put, Noted
<1>6. CASE Put(n, Refused("policy")) /\ UNCHANGED <<cards, armed>>
    BY <1>1, <1>6, RefusedCall DEF Put, Noted
<1>7. CASE MayPass(parts, risky, v) /\ Put(n, entry("yes", "grant")) /\ UNCHANGED <<cards, armed>>
  <2>1. ~risky /\ \A p \in parts : ~p.edge  BY <1>7, PassedHasNoEdge
  <2>2. calls' = [calls EXCEPT ![n] = entry("yes", "grant")]  BY <1>7 DEF Put
  <2>3. Noted(n, chat, for, parts, risky, entry("yes", "grant"))
      BY <1>4, <1>7, <2>1, <2>2 DEF Noted
  <2> QED  BY <1>1, <2>3
<1>8. CASE /\ Live(chat, for) /\ Put(n, entry("waiting", "none"))
           /\ cards' = cards \cup {n} /\ armed' = armed \cup {n}
  <2>1. calls' = [calls EXCEPT ![n] = entry("waiting", "none")]  BY <1>8 DEF Put
  <2>2. Noted(n, chat, for, parts, risky, entry("waiting", "none"))
      BY <1>2, <1>4, <1>8, <2>1 DEF Noted
  <2> QED  BY <1>1, <2>2
<1>9. \/ ~Live(chat, for) /\ Put(n, Refused("abort")) /\ UNCHANGED <<cards, armed>>
      \/ Put(n, Refused("policy")) /\ UNCHANGED <<cards, armed>>
      \/ MayPass(parts, risky, v) /\ Put(n, entry("yes", "grant")) /\ UNCHANGED <<cards, armed>>
      \/ /\ Live(chat, for) /\ Put(n, entry("waiting", "none"))
         /\ cards' = cards \cup {n} /\ armed' = armed \cup {n}
    BY ZenonT(30) DEF Confirm
<1> QED  BY <1>5, <1>6, <1>7, <1>8, <1>9

-----------------------------------------------------------------------------
(* How a step changes the calls: it adds one, or settles some that wait.    *)

\* What is settled is settled for good.
AnsweredStay == \A n \in Numbers : calls[n].state = "yes" => calls'[n] = calls[n]
\* No number is given away but to n.
NewIs(settled) == \A m \in Numbers : m \notin settled /\ calls[m].state = "none" => calls'[m] = calls[m]

LEMMA NotedKeeps ==
  ASSUME CallsInv, NEW n \in Numbers, calls[n].state = "none", NEW chat \in Chats, NEW for, NEW parts \in Askable, NEW risky,
         NEW entry, Noted(n, chat, for, parts, risky, entry), UNCHANGED audit
  PROVE  CallsInv' /\ AnsweredStay /\ NewIs({n})
<1>1. /\ calls' \in [Numbers -> CallType] /\ calls'[n] = entry
      /\ \A m \in Numbers \ {n} : calls'[m] = calls[m]
      /\ audit' \in [Numbers -> 0..2] /\ audit' = audit /\ audit[n] = 0
    BY DEF CallsInv, Noted, Unused
<1>2. AnsweredStay /\ NewIs({n})  BY <1>1 DEF AnsweredStay, NewIs
<1>3. entry.state \in {"yes", "no", "waiting"}  BY DEF Noted
<1>4. Pending'
  <2>1. ASSUME entry.state = "waiting"
        PROVE  /\ entry.chat \in Chats /\ entry.parts \in OneTool \cup Commands
               /\ entry.asked \subseteq {p.label : p \in entry.parts}
      BY <2>1, AskedParts DEF Noted
  <2>2. ASSUME NEW m \in Numbers, calls'[m].state = "waiting"
        PROVE  /\ calls'[m].chat \in Chats /\ calls'[m].parts \in OneTool \cup Commands
               /\ calls'[m].asked \subseteq {p.label : p \in calls'[m].parts}
               /\ audit'[m] = 0
    <3>1. CASE m = n  BY <1>1, <2>1, <2>2, <3>1
    <3>2. CASE m # n  BY <1>1, <2>2, <3>2 DEF CallsInv, Pending
    <3> QED  BY <3>1, <3>2
  <2> QED  BY <2>2 DEF Pending, OneTool, Commands
<1>5. Unused'  BY <1>1, <1>3 DEF CallsInv, Unused
<1>6. RiskyNeedsPerson'
  <2>1. entry.state = "yes" => ~entry.risky /\ \A p \in entry.parts : ~p.edge  BY DEF Noted
  <2> QED  BY <1>1, <2>1 DEF CallsInv, RiskyNeedsPerson
<1>7. SettledOnce'
  <2>1. CASE entry.state = "waiting"
    <3>1. cards' = cards \cup {n} /\ armed' = armed \cup {n}  BY <2>1 DEF Noted
    <3> QED  BY <1>1, <2>1, <3>1 DEF CallsInv, SettledOnce
  <2>2. CASE entry.state # "waiting"
    <3>1. UNCHANGED <<cards, armed>>  BY <2>2 DEF Noted
    <3> QED  BY <1>1, <2>2, <3>1 DEF CallsInv, SettledOnce
  <2> QED  BY <2>1, <2>2
<1> QED  BY <1>1, <1>2, <1>4, <1>5, <1>6, <1>7 DEF CallsInv

\* Settled without an answer, or by the person.
Settled(entry) ==
  \/ entry.state = "no" /\ entry.parts = {}
  \/ entry.state = "yes" /\ entry.by = "person"

Settles(settled) ==
  /\ settled \subseteq cards /\ cards' = cards \ settled /\ armed' = armed \ settled
  /\ calls' \in [Numbers -> CallType] /\ audit' \in [Numbers -> Nat]
  /\ \A n \in Numbers \ settled : calls'[n] = calls[n] /\ audit'[n] = audit[n]
  /\ \A n \in settled : Settled(calls'[n]) /\ audit'[n] \in {audit[n], audit[n] + 1}

LEMMA SettlesKeeps ==
  ASSUME CallsInv, NEW settled, Settles(settled)
  PROVE  CallsInv' /\ AnsweredStay /\ NewIs({})
<1>1. \A n \in settled : n \in Numbers /\ calls[n].state = "waiting" /\ audit[n] = 0  BY DEF CallsInv, SettledOnce, Settles, Pending
<1>2. AnsweredStay /\ NewIs({})  BY <1>1 DEF AnsweredStay, NewIs, Settles
<1>3. \A n \in Numbers : calls'[n].state \in {"waiting", "none"} => n \notin settled  BY DEF Settles, Settled
<1>4. \A n \in settled : audit'[n] \in 0..1  BY <1>1 DEF Settles
<1>5. audit' \in [Numbers -> 0..2]
  <2>1. \A n \in Numbers : audit'[n] \in 0..2  BY <1>4 DEF CallsInv, Settles
  <2> QED  BY <2>1 DEF Settles
<1>6. Pending'  BY <1>3 DEF CallsInv, Pending, Settles, OneTool, Commands
<1>7. Unused'  BY <1>3 DEF CallsInv, Unused, Settles
<1>8. RiskyNeedsPerson'  BY DEF CallsInv, RiskyNeedsPerson, Settles, Settled
<1>9. SettledOnce'
  <2>1. \A n \in Numbers : audit'[n] <= 1  BY <1>4 DEF CallsInv, SettledOnce, Settles
  <2>2. cards' = {n \in Numbers : calls'[n].state = "waiting"}  BY <1>1 DEF CallsInv, SettledOnce, Settles, Settled
  <2>3. armed' = cards'  BY DEF CallsInv, SettledOnce, Settles
  <2> QED  BY <2>1, <2>2, <2>3 DEF SettledOnce
<1> QED  BY <1>2, <1>5, <1>6, <1>7, <1>8, <1>9 DEF CallsInv, Settles

\* settle is called for a card that waits, with an answer of the person, or without one.
LEMMA SettleSettles ==
  ASSUME CallsInv, NEW n \in cards, NEW outcome \in CallType, Settle(n, outcome), Settled(outcome)
  PROVE  Settles({n})
<1>1. n \in Numbers  BY DEF CallsInv, SettledOnce
<1>2. calls' = [calls EXCEPT ![n] = outcome] /\ audit' = [audit EXCEPT ![n] = @ + 1]  BY DEF Settle
<1>3. calls' \in [Numbers -> CallType] /\ audit' \in [Numbers -> Nat]  BY <1>1, <1>2 DEF CallsInv
<1>4. calls'[n] = outcome /\ audit'[n] = audit[n] + 1  BY <1>1, <1>2 DEF CallsInv
<1>5. \A m \in Numbers \ {n} : calls'[m] = calls[m] /\ audit'[m] = audit[m]  BY <1>1, <1>2 DEF CallsInv
<1> QED  BY <1>3, <1>4, <1>5 DEF Settles, Settle

LEMMA ResolveSettles ==
  ASSUME CallsInv, NEW n \in Numbers, NEW approved \in BOOLEAN, NEW project \in BOOLEAN,
         NEW scope \in {"once", "chat", "project", "always"}, Resolve(n, approved, scope, project)
  PROVE  /\ Settles({n})
         /\ approved => calls'[n] = [calls[n] EXCEPT !.state = "yes", !.by = "person", !.scope = scope]
<1> DEFINE yes == [calls[n] EXCEPT !.state = "yes", !.by = "person", !.scope = scope]
<1>1. n \in cards /\ calls[n] \in CallType  BY DEF Resolve, CallsInv
<1>2. yes \in CallType /\ Settled(yes)  BY <1>1 DEF CallType, Settled
<1>3. CASE approved
  <2>1. Settle(n, yes)  BY <1>3 DEF Resolve
  <2>2. calls'[n] = yes
    <3> HIDE DEF yes
    <3> QED  BY <1>1, <2>1 DEF Settle, CallsInv
  <2>3. Settles({n})
    <3> HIDE DEF yes
    <3> QED  BY <1>1, <1>2, <2>1, SettleSettles
  <2> QED  BY <2>2, <2>3
<1>4. CASE ~approved
  <2> DEFINE no == Refused("person")
  <2>1. Settle(n, no)  BY <1>4 DEF Resolve
  <2>2. no \in CallType /\ Settled(no)  BY RefusedCall DEF Settled
  <2> HIDE DEF no
  <2> QED  BY <1>1, <1>4, <2>1, <2>2, SettleSettles
<1> QED  BY <1>3, <1>4

LEMMA ExpireSettles ==
  ASSUME CallsInv, NEW n \in Numbers, Expire(n) \/ PusherGone(n)
  PROVE  Settles({n})
<1>1. n \in cards  BY DEF Expire, PusherGone, CallsInv, SettledOnce
<1>2. PICK by \in {"limit", "abort"} : Settle(n, Refused(by))  BY DEF Expire, PusherGone
<1> DEFINE no == Refused(by)
<1>3. no \in CallType /\ Settled(no)  BY RefusedCall DEF Settled
<1>4. Settle(n, no)  BY <1>2
<1> HIDE DEF no
<1> QED  BY <1>1, <1>3, <1>4, SettleSettles

LEMMA KillSettles ==
  ASSUME CallsInv, NEW chat \in Chats, Kill(chat)
  PROVE  \E settled : Settles(settled) /\ {n \in cards : calls[n].for = "turn" /\ calls[n].chat = chat} \subseteq settled
<1> DEFINE mine == {n \in armed : calls[n].for = "turn" /\ calls[n].chat = chat}
<1>1. /\ calls' = [n \in Numbers |-> IF n \in mine THEN Refused("abort") ELSE calls[n]]
      /\ audit' = [n \in Numbers |-> IF n \in mine /\ audit[n] < 2 THEN audit[n] + 1 ELSE audit[n]]
      /\ cards' = cards \ mine /\ armed' = armed \ mine
    BY DEF Kill
<1>2. armed = cards /\ mine \subseteq cards /\ mine \subseteq Numbers  BY DEF CallsInv, SettledOnce
<1> HIDE DEF mine
<1>3. calls' \in [Numbers -> CallType]  BY <1>1, RefusedCall DEF CallsInv
<1>4. audit' \in [Numbers -> Nat]
  <2>1. \A n \in Numbers : audit[n] \in Nat /\ audit[n] + 1 \in Nat  BY DEF CallsInv
  <2> QED  BY <1>1, <2>1
<1>5. \A n \in mine : calls'[n] = Refused("abort") /\ audit'[n] \in {audit[n], audit[n] + 1}  BY <1>1, <1>2
<1>6. \A n \in Numbers \ mine : calls'[n] = calls[n] /\ audit'[n] = audit[n]  BY <1>1
<1>7. \A n \in mine : Settled(calls'[n])  BY <1>5, RefusedCall DEF Settled
<1>8. Settles(mine)  BY <1>1, <1>2, <1>3, <1>4, <1>5, <1>6, <1>7 DEF Settles
<1> QED  BY <1>2, <1>8 DEF mine

LEMMA RestartSettles ==
  ASSUME CallsInv, Restart
  PROVE  Settles(cards)
<1>1. /\ calls' = [n \in Numbers |-> IF calls[n].state = "waiting" THEN Refused("abort") ELSE calls[n]]
      /\ cards' = {} /\ armed' = {} /\ audit' = audit
    BY DEF Restart
<1>2. armed = cards /\ cards = {n \in Numbers : calls[n].state = "waiting"}  BY DEF CallsInv, SettledOnce
<1>3. calls' \in [Numbers -> CallType]  BY <1>1, RefusedCall DEF CallsInv
<1>4. \A n \in cards : calls'[n] = Refused("abort")  BY <1>1, <1>2
<1>5. \A n \in Numbers \ cards : calls'[n] = calls[n]  BY <1>1, <1>2
<1>6. audit' \in [Numbers -> Nat]  BY <1>1 DEF CallsInv
<1>7. \A n \in cards : Settled(calls'[n])  BY <1>4, RefusedCall DEF Settled
<1>8. \A n \in cards : audit'[n] = audit[n]  BY <1>1
<1>9. \A n \in Numbers \ cards : audit'[n] = audit[n]  BY <1>1
<1>10. cards' = cards \ cards /\ armed' = armed \ cards  BY <1>1, <1>2
<1> QED  BY <1>3, <1>5, <1>6, <1>7, <1>8, <1>9, <1>10 DEF Settles

-----------------------------------------------------------------------------
(* The cases of a step.                                                     *)

\* Either a call is put to the gate, or cards are settled, or the calls stay.
LEMMA StepCases ==
  ASSUME CallsInv, [Next]_gateVars
  PROVE  \/ \E n \in Numbers, c \in Chats, for \in {"turn", "push"}, parts \in Askable, risky \in BOOLEAN :
               Confirm(n, c, for, parts, risky)
         \/ \E n \in Numbers, approved, project \in BOOLEAN, scope \in {"once", "chat", "project", "always"} :
               Resolve(n, approved, scope, project)
         \/ \E n \in Numbers : Expire(n) \/ PusherGone(n)
         \/ \E c \in Chats : Kill(c)
         \/ Restart
         \/ UNCHANGED <<calls, cards, armed, audit>> /\ (\/ \E c \in Chats, tools \in SUBSET Tools : TurnStart(c, tools)
                                                         \/ \E c \in Chats : TurnEnd(c)
                                                         \/ \E g \in grants : Revoke(g)
                                                         \/ \E p \in Policies : EditFile(p)
                                                         \/ UNCHANGED gateVars)
<1>1. ASSUME NEW n \in Numbers, NEW c \in Chats, NEW t \in Tools, NEW risky \in BOOLEAN,
             Confirm(n, c, "push", {[label |-> t, edge |-> FALSE]}, risky)
      PROVE  \E parts \in Askable : Confirm(n, c, "push", parts, risky)
  <2>1. {[label |-> t, edge |-> FALSE]} \in Askable  BY DEF Askable, OneTool
  <2> QED  BY <1>1, <2>1
<1>2. ASSUME NEW parts \in Calls  PROVE parts \in Askable  BY DEF Askable
<1>3. ASSUME NEW c \in Chats, NEW tools \in SUBSET Tools, TurnStart(c, tools)
      PROVE  UNCHANGED <<calls, cards, armed, audit>>  BY <1>3 DEF TurnStart
<1>4. ASSUME NEW c \in Chats, TurnEnd(c)  PROVE UNCHANGED <<calls, cards, armed, audit>>  BY <1>4 DEF TurnEnd
<1>5. ASSUME NEW g \in grants, Revoke(g)  PROVE UNCHANGED <<calls, cards, armed, audit>>  BY <1>5 DEF Revoke
<1>6. ASSUME NEW p \in Policies, EditFile(p)  PROVE UNCHANGED <<calls, cards, armed, audit>>  BY <1>6 DEF EditFile
<1>7. UNCHANGED gateVars => UNCHANGED <<calls, cards, armed, audit>>  BY DEF gateVars
<1>8. CASE \E c \in Chats : Kill(c) \/ TurnEnd(c) \/ \E tools \in SUBSET Tools : TurnStart(c, tools)
    BY <1>3, <1>4, <1>8
<1>9. CASE \E n \in Numbers, c \in Chats, parts \in Calls, risky \in BOOLEAN : Confirm(n, c, "turn", parts, risky)
    BY <1>2, <1>9
<1>10. CASE \E n \in Numbers, c \in Chats, t \in Tools, risky \in BOOLEAN :
              Confirm(n, c, "push", {[label |-> t, edge |-> FALSE]}, risky)
    BY <1>1, <1>10
<1>11. CASE \E g \in grants : Revoke(g)  BY <1>5, <1>11
<1>12. CASE \E p \in Policies : EditFile(p)  BY <1>6, <1>12
<1>13. CASE \/ \E n \in Numbers : Expire(n) \/ PusherGone(n)
            \/ \E n \in Numbers, approved, project \in BOOLEAN, scope \in {"once", "chat", "project", "always"} :
                  Resolve(n, approved, scope, project)
            \/ Restart
    BY <1>13
<1>14. CASE UNCHANGED gateVars  BY <1>7, <1>14
<1>15. CASE Next
    BY <1>8, <1>9, <1>10, <1>11, <1>12, <1>13, <1>15 DEF Next
<1> QED  BY <1>14, <1>15

\* A step that puts a call or settles some; what the other steps do to the calls is nothing.
LEMMA NextCalls ==
  ASSUME CallsInv, [Next]_gateVars
  PROVE  CallsInv' /\ AnsweredStay
<1>1. ASSUME NEW n \in Numbers, NEW c \in Chats, NEW for \in {"turn", "push"}, NEW parts \in Askable, NEW risky \in BOOLEAN,
             Confirm(n, c, for, parts, risky)
      PROVE  CallsInv' /\ AnsweredStay
  <2>1. PICK entry : Noted(n, c, for, parts, risky, entry)  BY <1>1, ConfirmNotes
  <2>2. UNCHANGED audit /\ calls[n].state = "none"  BY <1>1, ConfirmNotes DEF Fresh
  <2> QED  BY <2>1, <2>2, NotedKeeps
<1>2. ASSUME NEW n \in Numbers, NEW approved \in BOOLEAN, NEW project \in BOOLEAN,
             NEW scope \in {"once", "chat", "project", "always"}, Resolve(n, approved, scope, project)
      PROVE  CallsInv' /\ AnsweredStay
    BY <1>2, ResolveSettles, SettlesKeeps
<1>3. ASSUME NEW n \in Numbers, Expire(n) \/ PusherGone(n)  PROVE CallsInv' /\ AnsweredStay
    BY <1>3, ExpireSettles, SettlesKeeps
<1>4. ASSUME NEW c \in Chats, Kill(c)  PROVE CallsInv' /\ AnsweredStay  BY <1>4, KillSettles, SettlesKeeps
<1>5. ASSUME Restart  PROVE CallsInv' /\ AnsweredStay  BY <1>5, RestartSettles, SettlesKeeps
<1>6. ASSUME UNCHANGED <<calls, cards, armed, audit>>  PROVE CallsInv' /\ AnsweredStay
    BY <1>6 DEF CallsInv, Pending, Unused, RiskyNeedsPerson, SettledOnce, AnsweredStay, OneTool, Commands
<1> QED  BY <1>1, <1>2, <1>3, <1>4, <1>5, <1>6, StepCases

-----------------------------------------------------------------------------
(* The grants.                                                              *)

LEMMA GrantsStaySeen ==
  ASSUME CallsInv, GrantsInv, AnsweredStay, grants' \subseteq grants
  PROVE  GrantsInv'
<1>1. \A g \in grants : g.card \in Numbers /\ calls[g.card].state = "yes"  BY DEF GrantsInv, GrantsWereSeen, GrantType, FromCard
<1>2. \A g \in grants' : calls'[g.card] = calls[g.card]  BY <1>1 DEF AnsweredStay
<1> QED  BY <1>2 DEF GrantsInv, GrantsWereSeen, GrantType, FromCard, Scoped, Projects, Numbers

\* What the gate stores when a person allows a card for more than once.
LEMMA StoredIsSeen ==
  ASSUME CallsInv, NEW n \in Numbers, NEW scope \in {"chat", "project", "always"}, NEW project \in BOOLEAN,
         Resolve(n, TRUE, scope, project), ~calls[n].risky, NEW label \in GrantedLabels(n)
  PROVE  Grant(n, label, scope, project) \in GrantType /\ FromCard(Grant(n, label, scope, project), calls'[n])
<1> DEFINE k == calls[n]
           g == Grant(n, label, scope, project)
           effective == IF scope = "project" /\ ~project THEN "chat" ELSE scope
<1>1. /\ k \in CallType /\ k.chat \in Chats /\ k.parts \in OneTool \cup Commands
      /\ k.asked \subseteq {p.label : p \in k.parts}
  <2>1. n \in cards  BY DEF Resolve
  <2> QED  BY <2>1 DEF CallsInv, SettledOnce, Pending
<1>2. calls'[n] = [k EXCEPT !.state = "yes", !.by = "person", !.scope = scope]  BY ResolveSettles
<1>3. /\ calls'[n].by = "person" /\ calls'[n].state = "yes" /\ calls'[n].scope = scope
      /\ calls'[n].risky = k.risky /\ calls'[n].parts = k.parts /\ calls'[n].asked = k.asked /\ calls'[n].chat = k.chat
    BY <1>1, <1>2 DEF CallType
<1>4. label \in {p.label : p \in k.parts} /\ (label \in Prefixes => label \in k.asked)
  <2>1. CASE Shell(n)  BY <1>1, <2>1 DEF GrantedLabels
  <2>2. CASE ~Shell(n)
    <3>1. label \in {p.label : p \in k.parts}  BY <2>2 DEF GrantedLabels
    <3>2. k.parts # {}  BY <3>1
    <3>3. k.parts \notin Commands
      <4>1. ASSUME k.parts \in Commands  PROVE FALSE
        <5>1. \A p \in k.parts : p.label \in Prefixes  BY <4>1 DEF Commands
        <5> QED  BY <3>2, <5>1, <2>2 DEF Shell
      <4> QED  BY <4>1
    <3>4. PICK t \in Tools : k.parts = {[label |-> t, edge |-> FALSE]}  BY <1>1, <3>3 DEF OneTool
    <3>5. label = t  BY <3>1, <3>4
    <3> QED  BY <3>1, <3>5, GateAssumption
  <2> QED  BY <2>1, <2>2
<1>5. label \in Labels
  <2>1. k.parts \subseteq Parts  BY <1>1 DEF CallType
  <2> QED  BY <1>4, <2>1 DEF Parts
<1>6. g = [label |-> label, card |-> n, scope |-> effective,
           of |-> CASE effective = "chat" -> k.chat [] effective = "project" -> ProjectOf[k.chat] [] OTHER -> "none"]
    BY DEF Grant
<1>7. effective \in {"chat", "project", "always"} /\ (effective = "project" => scope = "project") /\ (effective = "always" => scope = "always")
    OBVIOUS
<1> HIDE DEF effective
<1>8. /\ g.label = label /\ g.card = n /\ g.scope = effective
      /\ effective = "chat" => g.of = k.chat
      /\ effective = "project" => g.of = ProjectOf[k.chat]
      /\ effective = "always" => g.of = "none"
    BY <1>6, <1>7
<1>9. g \in GrantType
  <2>1. g.of \in Chats \cup Projects \cup {"none"}  BY <1>1, <1>7, <1>8 DEF Projects
  <2>2. \E of \in Chats \cup Projects \cup {"none"} : g = [label |-> label, card |-> n, scope |-> effective, of |-> of]
      BY <1>6, <1>8, <2>1
  <2> QED  BY <1>5, <1>7, <2>2 DEF GrantType
<1> HIDE DEF g, k
<1>10. Scoped(g, calls'[n])  BY <1>3, <1>7, <1>8 DEF Scoped
<1>11. ~calls'[n].risky  BY <1>3 DEF k
<1> QED  BY <1>3, <1>4, <1>8, <1>9, <1>10, <1>11 DEF FromCard, g, k

LEMMA ResolveGrants ==
  ASSUME CallsInv, GrantsInv, NEW n \in Numbers, NEW approved \in BOOLEAN, NEW project \in BOOLEAN,
         NEW scope \in {"once", "chat", "project", "always"}, Resolve(n, approved, scope, project)
  PROVE  GrantsInv'
<1>0. AnsweredStay  BY ResolveSettles, SettlesKeeps
<1>1. CASE approved /\ ~calls[n].risky /\ scope # "once"
  <2>1. grants' = grants \cup {Grant(n, l, scope, project) : l \in GrantedLabels(n)}  BY <1>1 DEF Resolve
  <2>2. approved = TRUE  BY <1>1
  <2>3. \A l \in GrantedLabels(n) : /\ Grant(n, l, scope, project) \in GrantType
                                    /\ FromCard(Grant(n, l, scope, project), calls'[n])
    <3>1. scope \in {"chat", "project", "always"} /\ Resolve(n, TRUE, scope, project)  BY <1>1, <2>2
    <3> QED  BY <1>1, <3>1, StoredIsSeen
  <2>4. \A g \in grants : g \in GrantType /\ calls'[g.card] = calls[g.card] /\ FromCard(g, calls'[g.card])
    <3>1. \A g \in grants : g \in GrantType /\ FromCard(g, calls[g.card])  BY DEF GrantsInv, GrantsWereSeen
    <3>2. \A g \in grants : g.card \in Numbers /\ calls[g.card].state = "yes"  BY <3>1 DEF GrantType, FromCard
    <3> QED  BY <1>0, <3>1, <3>2 DEF AnsweredStay
  <2>5. \A l \in GrantedLabels(n) : Grant(n, l, scope, project).card = n  BY DEF Grant
  <2>6. \A g \in grants' : g \in GrantType /\ FromCard(g, calls'[g.card])  BY <2>1, <2>3, <2>4, <2>5
  <2> QED  BY <2>6 DEF GrantsInv, GrantsWereSeen, GrantType, FromCard, Scoped, Projects, Numbers
<1>2. CASE ~(approved /\ ~calls[n].risky /\ scope # "once")
  <2>1. grants' = grants  BY <1>2 DEF Resolve
  <2> QED  BY <1>0, <2>1, GrantsStaySeen
<1> QED  BY <1>1, <1>2

LEMMA NextGrants ==
  ASSUME CallsInv, GrantsInv, [Next]_gateVars
  PROVE  GrantsInv'
<1>0. AnsweredStay  BY NextCalls
<1>1. ASSUME NEW n \in Numbers, NEW approved \in BOOLEAN, NEW project \in BOOLEAN,
             NEW scope \in {"once", "chat", "project", "always"}, Resolve(n, approved, scope, project)
      PROVE  GrantsInv'
    BY <1>1, ResolveGrants
<1>2. ASSUME grants' \subseteq grants  PROVE GrantsInv'  BY <1>0, <1>2, GrantsStaySeen
<1>3. ASSUME NEW n \in Numbers, NEW c \in Chats, NEW for \in {"turn", "push"}, NEW parts \in Askable, NEW risky \in BOOLEAN,
             Confirm(n, c, for, parts, risky)
      PROVE  grants' \subseteq grants  BY <1>3, ConfirmNotes
<1>4. ASSUME NEW n \in Numbers, Expire(n) \/ PusherGone(n)  PROVE grants' \subseteq grants  BY <1>4 DEF Expire, PusherGone
<1>5. ASSUME NEW c \in Chats, Kill(c)  PROVE grants' \subseteq grants  BY <1>5 DEF Kill
<1>6. ASSUME Restart  PROVE grants' \subseteq grants  BY <1>6 DEF Restart
<1>7. ASSUME \/ \E c \in Chats, tools \in SUBSET Tools : TurnStart(c, tools)
             \/ \E c \in Chats : TurnEnd(c)
             \/ \E g \in grants : Revoke(g)
             \/ \E p \in Policies : EditFile(p)
             \/ UNCHANGED gateVars
      PROVE  grants' \subseteq grants
    BY <1>7 DEF TurnStart, TurnEnd, Revoke, EditFile, gateVars
<1> QED  BY <1>1, <1>2, <1>3, <1>4, <1>5, <1>6, <1>7, StepCases

-----------------------------------------------------------------------------
(* The turns.                                                               *)

\* Cards that go take no question with them, and a card that stays is unchanged.
LEMMA SettlesAsksLess ==
  ASSUME CallsInv, NEW settled, Settles(settled)
  PROVE  \A n \in cards' : n \in cards \ settled /\ calls'[n] = calls[n]
<1>1. cards \subseteq Numbers  BY DEF CallsInv, SettledOnce
<1> QED  BY <1>1 DEF Settles

LEMMA NextTurns ==
  ASSUME CallsInv, TurnsInv, [Next]_gateVars
  PROVE  TurnsInv'
<1>0. cards = {n \in Numbers : calls[n].state = "waiting"}  BY DEF CallsInv, SettledOnce
<1>1. ASSUME UNCHANGED <<skills, turns>>, \A n \in cards' : n \in cards /\ calls'[n] = calls[n]
      PROVE  TurnsInv'
    BY <1>1 DEF TurnsInv, KilledAsksNothing, SkillsEndWithTurn
<1>2. ASSUME NEW n \in Numbers, NEW c \in Chats, NEW for \in {"turn", "push"}, NEW parts \in Askable, NEW risky \in BOOLEAN,
             Confirm(n, c, for, parts, risky)
      PROVE  TurnsInv'
  <2>1. PICK entry : Noted(n, c, for, parts, risky, entry)  BY <1>2, ConfirmNotes
  <2>2. UNCHANGED <<skills, turns>> /\ calls[n].state = "none"  BY <1>2, ConfirmNotes DEF Fresh
  <2>3. \A m \in cards : m # n /\ calls'[m] = calls[m]  BY <1>0, <2>1, <2>2 DEF Noted, CallsInv
  <2>4. calls'[n] = entry  BY <2>1 DEF Noted, CallsInv
  <2>5. CASE entry.state = "waiting"
    <3>1. cards' = cards \cup {n} /\ entry.chat = c /\ entry.for = for /\ Live(c, for)  BY <2>1, <2>5 DEF Noted
    <3>2. entry.for = "turn" => turns[entry.chat] = "running"  BY <3>1 DEF Live
    <3> QED  BY <2>2, <2>3, <2>4, <3>1, <3>2 DEF TurnsInv, KilledAsksNothing, SkillsEndWithTurn
  <2>6. CASE entry.state # "waiting"
    <3>1. cards' = cards  BY <2>1, <2>6 DEF Noted
    <3> QED  BY <1>1, <2>2, <2>3, <3>1
  <2> QED  BY <2>5, <2>6
<1>3. ASSUME NEW n \in Numbers, NEW approved \in BOOLEAN, NEW project \in BOOLEAN,
             NEW scope \in {"once", "chat", "project", "always"}, Resolve(n, approved, scope, project)
      PROVE  TurnsInv'
  <2>1. Settles({n})  BY <1>3, ResolveSettles
  <2>2. UNCHANGED <<skills, turns>>  BY <1>3 DEF Resolve
  <2> QED  BY <1>1, <2>1, <2>2, SettlesAsksLess
<1>4. ASSUME NEW n \in Numbers, Expire(n) \/ PusherGone(n)  PROVE TurnsInv'
  <2>1. Settles({n}) /\ UNCHANGED <<skills, turns>>  BY <1>4, ExpireSettles DEF Expire, PusherGone
  <2> QED  BY <1>1, <2>1, SettlesAsksLess
<1>5. ASSUME NEW c \in Chats, Kill(c)  PROVE TurnsInv'
  <2>1. PICK settled : Settles(settled) /\ {n \in cards : calls[n].for = "turn" /\ calls[n].chat = c} \subseteq settled
      BY <1>5, KillSettles
  <2>2. /\ turns' = [turns EXCEPT ![c] = "killed"] /\ turns[c] = "running" /\ skills' = skills  BY <1>5 DEF Kill
  <2>3. \A n \in cards' : n \in cards \ settled /\ calls'[n] = calls[n]  BY <2>1, SettlesAsksLess
  <2>4. KilledAsksNothing'
    <3>1. ASSUME NEW n \in cards', calls'[n].for = "turn"  PROVE turns'[calls'[n].chat] = "running"
      <4>1. calls[n].chat \in Chats /\ turns[calls[n].chat] = "running" /\ calls[n].chat # c
          BY <1>0, <2>1, <2>3, <3>1 DEF CallsInv, Pending, TurnsInv, KilledAsksNothing
      <4> QED  BY <2>2, <2>3, <4>1 DEF TurnsInv
    <3> QED  BY <3>1 DEF KilledAsksNothing
  <2> QED  BY <2>2, <2>4 DEF TurnsInv, SkillsEndWithTurn
<1>6. ASSUME Restart  PROVE TurnsInv'
    BY <1>6 DEF Restart, TurnsInv, KilledAsksNothing, SkillsEndWithTurn
<1>7. ASSUME NEW c \in Chats, NEW tools \in SUBSET Tools, TurnStart(c, tools)  PROVE TurnsInv'
  <2>1. \A n \in cards : calls[n].chat \in Chats  BY <1>0 DEF CallsInv, Pending
  <2> QED  BY <1>7, <2>1 DEF TurnStart, TurnsInv, KilledAsksNothing, SkillsEndWithTurn
<1>8. ASSUME NEW c \in Chats, TurnEnd(c)  PROVE TurnsInv'
  <2>1. \A n \in cards : /\ n \in Numbers /\ calls[n].state = "waiting" /\ calls[n].chat \in Chats
      BY <1>0 DEF CallsInv, Pending
  <2>2. \A n \in cards : calls[n].for = "turn" => calls[n].chat # c  BY <1>8, <2>1 DEF TurnEnd
  <2> QED  BY <1>8, <2>1, <2>2 DEF TurnEnd, TurnsInv, KilledAsksNothing, SkillsEndWithTurn
<1>9. ASSUME \/ \E g \in grants : Revoke(g)
             \/ \E p \in Policies : EditFile(p)
             \/ UNCHANGED gateVars
      PROVE  TurnsInv'
    BY <1>1, <1>9 DEF Revoke, EditFile, gateVars
<1> QED  BY <1>2, <1>3, <1>4, <1>5, <1>6, <1>7, <1>8, <1>9, StepCases

-----------------------------------------------------------------------------
LEMMA InitIInv == Init => IInv
<1> SUFFICES ASSUME Init  PROVE IInv
    OBVIOUS
<1>1. NoCall \in CallType /\ NoCall.state = "none"  BY DEF NoCall, CallType
<1>2. CallsInv  BY <1>1 DEF Init, CallsInv, Pending, Unused, RiskyNeedsPerson, SettledOnce
<1>3. GrantsInv  BY DEF Init, GrantsInv, GrantsWereSeen
<1>4. TurnsInv  BY DEF Init, TurnsInv, KilledAsksNothing, SkillsEndWithTurn
<1> QED  BY <1>2, <1>3, <1>4 DEF Init, IInv

LEMMA NextIInv == IInv /\ [Next]_gateVars => IInv'
<1> SUFFICES ASSUME IInv, [Next]_gateVars  PROVE IInv'
    OBVIOUS
<1>1. CallsInv /\ GrantsInv /\ TurnsInv /\ file \in Policies  BY DEF IInv
<1>2. CallsInv' /\ GrantsInv' /\ TurnsInv'  BY <1>1, NextCalls, NextGrants, NextTurns
<1>3. file' \in Policies
  <2>1. \/ file' = file \/ \E p \in Policies : EditFile(p)
    <3>1. ASSUME NEW n \in Numbers, NEW c \in Chats, NEW for \in {"turn", "push"}, NEW parts \in Askable, NEW risky \in BOOLEAN,
                 Confirm(n, c, for, parts, risky)
          PROVE  file' = file  BY <3>1, ConfirmNotes
    <3>2. ASSUME NEW n, NEW approved, NEW project, NEW scope, Resolve(n, approved, scope, project)
          PROVE  file' = file  BY <3>2 DEF Resolve
    <3>3. ASSUME NEW n, Expire(n) \/ PusherGone(n)  PROVE file' = file  BY <3>3 DEF Expire, PusherGone
    <3>4. ASSUME NEW c, Kill(c) \/ TurnEnd(c)  PROVE file' = file  BY <3>4 DEF Kill, TurnEnd
    <3>5. ASSUME Restart \/ (\E g \in grants : Revoke(g)) \/ UNCHANGED gateVars  PROVE file' = file
        BY <3>5 DEF Restart, Revoke, gateVars
    <3>6. ASSUME NEW c, NEW tools, TurnStart(c, tools)  PROVE file' = file  BY <3>6 DEF TurnStart
    <3> QED  BY <1>1, <3>1, <3>2, <3>3, <3>4, <3>5, <3>6, StepCases
  <2> QED  BY <1>1, <2>1 DEF EditFile
<1> QED  BY <1>2, <1>3 DEF IInv

\* The gate keeps to its types: WebApprovalGate, the grants table and the policy file.
THEOREM ApprovalsKeepToTypes == Spec => []TypeOK
<1>1. IInv => TypeOK  BY DEF IInv, CallsInv, SettledOnce, GrantsInv, GrantType, TurnsInv, TypeOK, CallType
<1> QED  BY InitIInv, NextIInv, <1>1, PTL DEF Spec

\* Nothing dangerous passes by a standing permission, each call has one outcome, a killed turn asks nothing,
\* and the permissions of skills end with the turn: confirmDetailed, settle and resolve of web-approval.ts.
THEOREM GateDecides == Spec => []CallsAreDecided
<1>1. IInv => CallsAreDecided  BY DEF IInv, CallsInv, TurnsInv, CallsAreDecided
<1> QED  BY InitIInv, NextIInv, <1>1, PTL DEF Spec

\* Every grant that is stored comes from a card on which a person allowed its very label, as widely.
THEOREM GrantsComeFromCards == Spec => []GrantsWereSeen
<1>1. IInv => GrantsWereSeen  BY DEF IInv, GrantsInv
<1> QED  BY InitIInv, NextIInv, <1>1, PTL DEF Spec

-----------------------------------------------------------------------------
(* What passes without a card.                                              *)

\* A grant that matches is one whose card showed the label to a person, for this chat or more.
LEMMA MatchWasShown ==
  ASSUME GrantsInv, NEW chat \in Chats, NEW label, NEW g \in FindMatchingGrant(label, chat)
  PROVE  g \in grants /\ g.label = label /\ Shown(g, label, chat)
<1>1. /\ g \in grants /\ g.label = label
      /\ g.scope = "chat" => g.of = chat
      /\ g.scope = "project" => g.of = ProjectOf[chat]
    BY DEF FindMatchingGrant
<1>2. g \in GrantType /\ FromCard(g, calls[g.card])  BY <1>1 DEF GrantsInv, GrantsWereSeen
<1>3. g.scope \in {"chat", "project", "always"}  BY <1>2 DEF GrantType
<1> QED  BY <1>1, <1>2, <1>3 DEF FromCard, Scoped, Shown

LEMMA PassedOnGrounds ==
  ASSUME GrantsInv, NEW chat \in Chats, NEW parts \in Askable, NEW risky, MayPass(parts, risky, Verdicts(parts, chat)), NEW p \in parts
  PROVE  \/ p.label \in skills[chat]
         \/ LET policy == MergeCommandPolicy(file, PolicyOf[ProjectOf[chat]]) IN
            p.label \in Prefixes /\ (p.label \in policy.allow \/ policy.mode = "auto" \/ policy.mode = "allowlist")
         \/ \E g \in grants : g.label = p.label /\ Shown(g, p.label, chat)
<1> DEFINE policy == MergeCommandPolicy(file, PolicyOf[ProjectOf[chat]])
<1>1. Verdicts(parts, chat)[p] = "allow"  BY DEF MayPass
<1>2. Granted(p.label, chat) => p.label \in skills[chat] \/ \E g \in grants : g.label = p.label /\ Shown(g, p.label, chat)
    BY MatchWasShown DEF Granted
<1>3. CASE p.label \in Tools
  <2>1. Granted(p.label, chat)  BY <1>1, <1>3 DEF Verdicts
  <2> QED  BY <1>2, <2>1
<1>4. CASE p.label \notin Tools
  <2>1. Verdicts(parts, chat)[p] = Decision(p, chat, policy)  BY <1>4 DEF Verdicts
  <2> HIDE DEF policy
  <2>2. Granted(p.label, chat) \/ p.label \in policy.allow \/ policy.mode = "auto" \/ policy.mode = "allowlist"
      BY <1>1, <2>1 DEF Decision
  <2>3. p.label \in Prefixes
    <3>1. p \in Parts  BY AskedParts
    <3> QED  BY <1>4, <3>1 DEF Parts, Labels
  <2> QED  BY <1>2, <2>2, <2>3 DEF policy
<1> QED  BY <1>3, <1>4

\* A call passes without a card only by the policy, a skill of the turn, or a grant that a person gave on a card
\* which showed that very part, for this chat, its project or everything: findMatchingGrant and evaluateCommand.
THEOREM PassesWereSeen == Spec => [][PassesOnWhatWasSeen]_gateVars
<1>1. ASSUME IInv, Next  PROVE PassesOnWhatWasSeen
  <2>0. CallsInv /\ GrantsInv /\ [Next]_gateVars  BY <1>1 DEF IInv
  <2>1. \A n \in Numbers : calls[n].state = "none" => calls[n].by # "grant"
      BY <2>0 DEF CallsInv, Unused, NoCall
  <2>2. ASSUME \A n \in Numbers : calls[n].state = "none" => calls'[n] = calls[n]  PROVE PassesOnWhatWasSeen
      BY <2>1, <2>2 DEF PassesOnWhatWasSeen
  <2>3. ASSUME NEW settled, Settles(settled)  PROVE PassesOnWhatWasSeen
      BY <2>0, <2>2, <2>3, SettlesKeeps DEF NewIs
  <2>4. ASSUME NEW n \in Numbers, NEW c \in Chats, NEW for \in {"turn", "push"}, NEW parts \in Askable, NEW risky \in BOOLEAN,
               Confirm(n, c, for, parts, risky)
        PROVE  PassesOnWhatWasSeen
    <3>1. PICK entry : Noted(n, c, for, parts, risky, entry)  BY <2>4, ConfirmNotes
    <3>2. calls'[n] = entry /\ \A m \in Numbers \ {n} : calls'[m] = calls[m]  BY <2>0, <3>1 DEF Noted, CallsInv
    <3>3. CASE entry.by = "grant" /\ entry.state = "yes"
      <4>1. entry.parts = parts /\ entry.chat = c /\ MayPass(parts, risky, Verdicts(parts, c))  BY <3>1, <3>3 DEF Noted
      <4>2. \A p \in parts :
              LET policy == MergeCommandPolicy(file, PolicyOf[ProjectOf[c]]) IN
              \/ p.label \in skills[c]
              \/ p.label \in Prefixes /\ (p.label \in policy.allow \/ policy.mode = "auto" \/ policy.mode = "allowlist")
              \/ \E g \in grants : g.label = p.label /\ Shown(g, p.label, c)
          BY <2>0, <4>1, PassedOnGrounds
      <4> QED  BY <2>1, <3>2, <4>1, <4>2 DEF PassesOnWhatWasSeen
    <3>4. CASE entry.by # "grant"  BY <2>1, <3>2, <3>4 DEF PassesOnWhatWasSeen
    <3> QED  BY <3>1, <3>3, <3>4 DEF Noted
  <2> QED  BY <2>0, <2>2, <2>3, <2>4, StepCases, ResolveSettles, ExpireSettles, KillSettles, RestartSettles
<1> QED  BY InitIInv, NextIInv, <1>1, PTL DEF Spec

\* A count inside a component is a count.
LEMMA CardsCounts ==
  /\ \A X : C!IsFiniteSet(X) <=> IsFiniteSet(X)
  /\ \A X : C!Cardinality(X) = Cardinality(X)
<1>1. \A X : C!IsFiniteSet(X) <=> IsFiniteSet(X)  BY DEF C!IsFiniteSet, IsFiniteSet
<1>2. \A X : C!Cardinality(X) = Cardinality(X)  BY DEF C!Cardinality, Cardinality
<1> QED  BY <1>1, <1>2

LEMMA PushCounts ==
  /\ \A X : P!IsFiniteSet(X) <=> IsFiniteSet(X)
  /\ \A X : P!Cardinality(X) = Cardinality(X)
<1>1. \A X : P!IsFiniteSet(X) <=> IsFiniteSet(X)  BY DEF P!IsFiniteSet, IsFiniteSet
<1>2. \A X : P!Cardinality(X) = Cardinality(X)  BY DEF P!Cardinality, Cardinality
<1> QED  BY <1>1, <1>2

LEMMA SessionCounts ==
  /\ \A X : S!IsFiniteSet(X) <=> IsFiniteSet(X)
  /\ \A X : S!Cardinality(X) = Cardinality(X)
<1>1. \A X : S!IsFiniteSet(X) <=> IsFiniteSet(X)  BY DEF S!IsFiniteSet, IsFiniteSet
<1>2. \A X : S!Cardinality(X) = Cardinality(X)  BY DEF S!Cardinality, Cardinality
<1> QED  BY <1>1, <1>2

-----------------------------------------------------------------------------
(* The cards in the browser *)

LEMMA LeastExists == ASSUME NEW X, X \subseteq Nat, X # {} PROVE \E x \in X : \A y \in X : x <= y
<1> DEFINE R == {ss \in Nat \X Nat : ss[1] < ss[2]}
<1>1. IsWellFoundedOn(R, Nat)  BY NatLessThanWellFounded DEF OpToRel
<1> HIDE DEF R
<1>2. PICK x \in X : \A y \in X : ~(<<y, x>> \in R)  BY <1>1, WFMin, Zenon
<1>3. \A y \in X : ~(y < x)  BY <1>2 DEF R
<1> QED  BY <1>2, <1>3

\* The first card is one of those shown.
LEMMA TopIsThere == ASSUME C!TypeOK, NEW shown, shown \subseteq C!Ids, shown # {} PROVE C!Top(shown) \in shown
<1> USE CardsAssumption DEF C!Ids
<1> DEFINE D == {i \in shown : card[i].dangerous}
<1>1. \A i \in shown : card[i].dangerous \in BOOLEAN /\ i \in Nat  BY DEF C!TypeOK, C!CardType
<1>2. \E i \in shown : \A j \in shown \ {i} : C!Before(i, j)
  <2>1. CASE D = {}
    <3>1. PICK i \in shown : \A j \in shown : i <= j  BY <1>1, LeastExists
    <3> QED  BY <1>1, <2>1, <3>1 DEF C!Before
  <2>2. CASE D # {}
    <3>1. PICK i \in D : \A j \in D : i <= j  BY <1>1, <2>2, LeastExists
    <3> QED  BY <1>1, <3>1 DEF C!Before
  <2> QED  BY <2>1, <2>2
<1> QED  BY <1>2 DEF C!Top

LEMMA ModalIsListed == ASSUME C!TypeOK PROVE C!InModal = C!NoCard \/ (C!InModal \in list /\ C!InModal \in C!Ids)
<1>1. C!Pending(list, room) \subseteq list /\ list \subseteq C!Ids  BY DEF C!Pending, C!TypeOK
<1>2. C!Pending(list, room) # {} => C!Top(C!Pending(list, room)) \in C!Pending(list, room)  BY <1>1, TopIsThere
<1> QED  BY <1>1, <1>2 DEF C!InModal, C!Top

LEMMA CardsInit == C!Init => C!CardsInv
<1> SUFFICES ASSUME C!Init PROVE C!CardsInv  OBVIOUS
<1> USE CardsAssumption
<1>3. card \in [C!Ids -> C!CardType]  BY DEF C!Init, C!CardType, C!Unasked
<1>4. Cardinality(polls) <= MaxPolls  BY FS_EmptySet DEF C!Init
<1>5. answered \in 0 .. MaxAnswers /\ moves \in 0 .. MaxMoves  BY DEF C!Init
<1>6. polls \subseteq [told : BOOLEAN, body : SUBSET C!Ids] /\ cardGranted \subseteq C!Ids /\ list \subseteq C!Ids /\ revived \subseteq C!Ids  BY DEF C!Init
<1>7. \A a \in answers : a.answer \in C!Answers /\ a.n \in 1 .. MaxAnswers  BY DEF C!Init
<1>8. room \in Rooms /\ covered \in BOOLEAN /\ picker \in BOOLEAN /\ read \in C!Ids \cup {C!NoCard}  BY DEF C!Init
<1>1. C!TypeOK  BY CardsCounts, <1>3, <1>4, <1>5, <1>6, <1>7, <1>8 DEF C!TypeOK
<1>2. IsFiniteSet(polls)  BY FS_EmptySet DEF C!Init
<1> QED  BY CardsCounts, <1>1, <1>2 DEF C!Init, C!CardsInv, C!DangerousIsOnce, C!GrantedWasAsked, C!BroughtBack, C!UnderWay, C!OneAnswerUnlessRevived

LEMMA RespondKeeps ==
  ASSUME C!CardsInv, NEW i \in list, NEW approved \in BOOLEAN, NEW scope \in C!Scopes, C!Respond(i, approved, scope)
  PROVE  C!CardsInv'
<1> USE CardsAssumption
<1> DEFINE a == [n |-> answered + 1, answer |-> [id |-> i, approved |-> approved, scope |-> scope]]
<1>1. /\ answers' = answers \cup {a} /\ list' = list \ {i} /\ answered < MaxAnswers /\ answered' = answered + 1 /\ read' = C!NoCard
      /\ room' = room /\ covered' = covered /\ picker' = (picker /\ covered /\ C!Pending(list \ {i}, room) # {})
      /\ UNCHANGED <<card, cardGranted, polls, revived, moves>>
  BY DEF C!Respond, C!Shows, C!Removed, C!gate
<1>2. i \in C!Ids  BY DEF C!CardsInv, C!TypeOK
<1>3. a.n \in 1 .. MaxAnswers /\ answered' \in 0 .. MaxAnswers  BY <1>1 DEF C!CardsInv, C!TypeOK
<1>4. a.answer \in C!Answers /\ a.answer.id = i  BY <1>2 DEF C!Answers
<1> HIDE DEF a
<1>5. C!TypeOK'  BY <1>1, <1>3, <1>4 DEF C!CardsInv, C!TypeOK
<1>6. C!UnderWay' = C!UnderWay \cup {i}  BY <1>1, <1>4 DEF C!UnderWay
<1>7. C!BroughtBack'  BY <1>1, <1>6 DEF C!CardsInv, C!BroughtBack
<1>8. \A b \in answers : b.answer.id = i => i \in revived  BY DEF C!CardsInv, C!BroughtBack, C!UnderWay
<1>9. C!OneAnswerUnlessRevived'  BY <1>1, <1>4, <1>8 DEF C!CardsInv, C!OneAnswerUnlessRevived
<1>10. C!DangerousIsOnce' /\ C!GrantedWasAsked' /\ IsFiniteSet(polls)'  BY CardsCounts, <1>1 DEF C!CardsInv, C!DangerousIsOnce, C!GrantedWasAsked
<1> QED  BY CardsCounts, <1>5, <1>7, <1>9, <1>10 DEF C!CardsInv

LEMMA CardsNext == C!CardsInv /\ [C!Next]_(C!cardVars) => C!CardsInv'
<1> SUFFICES ASSUME C!CardsInv, [C!Next]_(C!cardVars) PROVE C!CardsInv'  OBVIOUS
<1> USE CardsAssumption
\* The C!gate
<1>1. ASSUME NEW r \in Rooms, NEW dangerous \in BOOLEAN, C!Confirm(r, dangerous) PROVE C!CardsInv'
  <2>1. PICK i \in C!Ids : /\ card[i].at = "none" /\ card' = [card EXCEPT ![i] = [of |-> r, dangerous |-> dangerous, at |-> "waiting"]]
                         /\ UNCHANGED <<cardGranted, list, room, covered, picker, read, polls, answers, revived, answered, moves>>
    BY <1>1 DEF C!Confirm
  <2>2. [of |-> r, dangerous |-> dangerous, at |-> "waiting"] \in C!CardType  BY DEF C!CardType
  <2>3. C!TypeOK'  BY <2>1, <2>2 DEF C!CardsInv, C!TypeOK
  <2>4. i \notin cardGranted  BY <2>1 DEF C!CardsInv, C!GrantedWasAsked
  <2>5. C!DangerousIsOnce' /\ C!GrantedWasAsked'  BY <2>1, <2>4 DEF C!CardsInv, C!TypeOK, C!DangerousIsOnce, C!GrantedWasAsked
  <2> QED  BY <2>1, <2>3, <2>5 DEF C!CardsInv, C!BroughtBack, C!UnderWay, C!OneAnswerUnlessRevived
<1>2. ASSUME NEW i \in C!Ids, NEW at \in {"yes", "no", "over"}, card[i].at = "waiting", card' = [card EXCEPT ![i].at = at],
             cardGranted \subseteq cardGranted', cardGranted' \subseteq cardGranted \cup {i}, i \in cardGranted' => i \in cardGranted \/ ~card[i].dangerous,
             answers' \subseteq answers, UNCHANGED <<list, room, covered, picker, read, polls, revived, answered, moves>>
      PROVE  C!CardsInv'
  <2>1. card[i] \in C!CardType /\ card' \in [C!Ids -> C!CardType] /\ card'[i].at = at /\ card'[i].dangerous = card[i].dangerous
        /\ \A j \in C!Ids \ {i} : card'[j] = card[j]
    BY <1>2 DEF C!CardsInv, C!TypeOK, C!CardType
  <2>2. C!TypeOK'  BY <1>2, <2>1 DEF C!CardsInv, C!TypeOK
  <2>3. C!DangerousIsOnce' /\ C!GrantedWasAsked'  BY <1>2, <2>1, <2>2 DEF C!CardsInv, C!TypeOK, C!DangerousIsOnce, C!GrantedWasAsked
  <2> QED  BY <1>2, <2>2, <2>3 DEF C!CardsInv, C!BroughtBack, C!UnderWay, C!OneAnswerUnlessRevived
<1>3. ASSUME NEW i \in C!Ids, C!Abort(i) PROVE C!CardsInv'  BY <1>2, <1>3 DEF C!Abort
<1>4. ASSUME answers' \subseteq answers, UNCHANGED <<card, cardGranted, list, room, covered, picker, read, polls, revived, answered, moves>>
      PROVE  C!CardsInv'
  BY <1>4 DEF C!CardsInv, C!TypeOK, C!DangerousIsOnce, C!GrantedWasAsked, C!BroughtBack, C!UnderWay, C!OneAnswerUnlessRevived
<1>5. ASSUME NEW a \in answers, C!Arrives(a) \/ C!Lost(a) PROVE C!CardsInv'
  <2>1. a.answer.id \in C!Ids /\ answers' \subseteq answers  BY <1>5 DEF C!Arrives, C!Lost, C!CardsInv, C!TypeOK, C!Answers
  <2>2. CASE C!Lost(a) \/ card[a.answer.id].at # "waiting"
    BY <1>4, <1>5, <2>1, <2>2 DEF C!Arrives, C!Lost, C!Resolve, C!gate
  <2>3. CASE C!Arrives(a) /\ card[a.answer.id].at = "waiting"
    <3>1. /\ card' = [card EXCEPT ![a.answer.id].at = IF a.answer.approved THEN "yes" ELSE "no"]
          /\ cardGranted' = cardGranted \cup C!Stores(a.answer)
          /\ UNCHANGED <<list, room, covered, picker, read, polls, revived, answered, moves>>
      BY <2>3 DEF C!Arrives, C!Resolve
    <3>2. C!Stores(a.answer) \subseteq {a.answer.id} /\ (C!Stores(a.answer) # {} => ~card[a.answer.id].dangerous)  BY DEF C!Stores
    <3> DEFINE at == IF a.answer.approved THEN "yes" ELSE "no"
    <3>3. at \in {"yes", "no", "over"}  OBVIOUS
    <3> HIDE DEF at
    <3> QED  BY <1>2, <2>1, <2>3, <3>1, <3>2, <3>3 DEF at
  <2> QED  BY <1>5, <2>2, <2>3
\* The polls
<1>6. ASSUME polls' \subseteq [told : BOOLEAN, body : SUBSET C!Ids], IsFiniteSet(polls'), Cardinality(polls') <= MaxPolls,
             UNCHANGED <<card, cardGranted, list, room, covered, picker, read, answers, revived, answered, moves>>
      PROVE  C!CardsInv'
  BY CardsCounts, <1>6 DEF C!CardsInv, C!TypeOK, C!DangerousIsOnce, C!GrantedWasAsked, C!BroughtBack, C!UnderWay, C!OneAnswerUnlessRevived
<1>7. CASE C!Ask
  <2> DEFINE p == [told |-> FALSE, body |-> {}]
  <2>1. p \in [told : BOOLEAN, body : SUBSET C!Ids]  OBVIOUS
  <2> HIDE DEF p
  <2>2. polls' = polls \cup {p} /\ Cardinality(polls) < MaxPolls  BY CardsCounts, <1>7 DEF C!Ask, p
  <2>3. IsFiniteSet(polls) /\ Cardinality(polls) \in Nat  BY CardsCounts, FS_CardinalityType DEF C!CardsInv
  <2>4. IsFiniteSet(polls') /\ Cardinality(polls') <= Cardinality(polls) + 1 /\ Cardinality(polls') \in Nat
    <3>1. CASE p \in polls  BY <2>2, <2>3, <3>1, polls' = polls
    <3>2. CASE p \notin polls
      <4>1. IsFiniteSet(polls') /\ Cardinality(polls') = Cardinality(polls) + 1  BY <2>2, <2>3, <3>2, FS_AddElement
      <4> QED  BY <2>3, <4>1
    <3> QED  BY <3>1, <3>2
  <2>5. polls' \subseteq [told : BOOLEAN, body : SUBSET C!Ids]  BY <2>1, <2>2 DEF C!CardsInv, C!TypeOK
  <2>6. Cardinality(polls') <= MaxPolls  BY <2>2, <2>3, <2>4
  <2> QED  BY <1>6, <1>7, <2>4, <2>5, <2>6 DEF C!Ask, C!gate
<1>8. ASSUME NEW p \in polls, C!Tell(p) PROVE C!CardsInv'
  <2> DEFINE q == [told |-> TRUE, body |-> C!Waiting]
  <2>1. q \in [told : BOOLEAN, body : SUBSET C!Ids]  BY DEF C!Waiting
  <2> HIDE DEF q
  <2>2. polls' = (polls \ {p}) \cup {q}  BY <1>8 DEF C!Tell, q
  <2>3. IsFiniteSet(polls) /\ Cardinality(polls) \in Nat /\ Cardinality(polls) <= MaxPolls  BY CardsCounts, FS_CardinalityType DEF C!CardsInv, C!TypeOK
  <2>4. IsFiniteSet(polls \ {p}) /\ Cardinality(polls \ {p}) = Cardinality(polls) - 1  BY <2>3, FS_RemoveElement
  <2>5. IsFiniteSet(polls') /\ Cardinality(polls') <= Cardinality(polls)
    <3>1. CASE q \in polls \ {p}  BY <2>2, <2>3, <2>4, <3>1, polls' = polls \ {p}
    <3>2. CASE q \notin polls \ {p}
      <4>1. IsFiniteSet(polls') /\ Cardinality(polls') = Cardinality(polls \ {p}) + 1  BY <2>2, <2>4, <3>2, FS_AddElement
      <4> QED  BY <2>3, <2>4, <4>1
    <3> QED  BY <3>1, <3>2
  <2>6. polls' \subseteq [told : BOOLEAN, body : SUBSET C!Ids]  BY <2>1, <2>2 DEF C!CardsInv, C!TypeOK
  <2>7. Cardinality(polls') <= MaxPolls  BY <2>3, <2>5, FS_CardinalityType
  <2> QED  BY <1>6, <1>8, <2>5, <2>6, <2>7 DEF C!Tell, C!gate
<1>9. ASSUME NEW p \in polls, polls' = polls \ {p} \/ polls' = {} PROVE IsFiniteSet(polls') /\ Cardinality(polls') <= MaxPolls
  <2>1. IsFiniteSet(polls) /\ Cardinality(polls) <= MaxPolls /\ polls' \subseteq polls  BY CardsCounts, <1>9 DEF C!CardsInv, C!TypeOK
  <2> QED  BY <2>1, FS_Subset, FS_CardinalityType
<1>10. ASSUME NEW p \in polls, C!Hear(p) PROVE C!CardsInv'
  <2>1. p.body \subseteq C!Ids  BY DEF C!CardsInv, C!TypeOK
  <2>2. /\ polls' = polls \ {p} /\ list' = p.body /\ room' = room /\ covered' = covered /\ picker' \in BOOLEAN
        /\ revived' = revived \cup ((p.body \ list) \cap C!UnderWay) /\ UNCHANGED <<card, cardGranted, read, answers, answered, moves>>
    BY <1>10 DEF C!Hear, C!Shows, C!gate
  <2>3. C!UnderWay \subseteq C!Ids /\ C!UnderWay' = C!UnderWay  BY <2>2 DEF C!UnderWay, C!CardsInv, C!TypeOK, C!Answers
  <2>4. C!TypeOK'  BY CardsCounts, <1>9, <2>1, <2>2, <2>3 DEF C!CardsInv, C!TypeOK
  <2>5. C!BroughtBack'  BY <2>2, <2>3 DEF C!CardsInv, C!BroughtBack
  <2>6. C!OneAnswerUnlessRevived'  BY <2>2 DEF C!CardsInv, C!OneAnswerUnlessRevived
  <2>7. IsFiniteSet(polls')  BY <1>9, <2>2
  <2> QED  BY CardsCounts, <2>2, <2>4, <2>5, <2>6, <2>7 DEF C!CardsInv, C!DangerousIsOnce, C!GrantedWasAsked
\* What is shown
<1>11. ASSUME UNCHANGED <<card, cardGranted, list, answers, revived, answered>>, polls' \in {polls, {}}, room' \in Rooms, covered' \in BOOLEAN,
              picker' \in BOOLEAN, read' \in C!Ids \cup {C!NoCard}, moves' \in 0 .. MaxMoves
       PROVE  C!CardsInv'
  <2>1. IsFiniteSet(polls') /\ Cardinality(polls') <= MaxPolls
    <3>1. CASE polls' = polls  BY CardsCounts, <3>1 DEF C!CardsInv, C!TypeOK
    <3>2. CASE polls' = {}  BY <3>2, FS_EmptySet
    <3> QED  BY <1>11, <3>1, <3>2
  <2>2. C!TypeOK'  BY CardsCounts, <1>11, <2>1 DEF C!CardsInv, C!TypeOK
  <2> QED  BY CardsCounts, <1>11, <2>1, <2>2 DEF C!CardsInv, C!DangerousIsOnce, C!GrantedWasAsked, C!BroughtBack, C!UnderWay, C!OneAnswerUnlessRevived
<1>12. ASSUME NEW r \in Rooms, C!Select(r) PROVE C!CardsInv'
  <2>1. moves' \in 0 .. MaxMoves  BY <1>12 DEF C!Select, C!CardsInv, C!TypeOK
  <2>2. covered \in BOOLEAN  BY DEF C!CardsInv, C!TypeOK
  <2> QED  BY <1>11, <1>12, <2>1, <2>2 DEF C!Select, C!Shows, C!gate
<1>13. ASSUME NEW on \in BOOLEAN, C!Cover(on) PROVE C!CardsInv'
  <2>1. moves' \in 0 .. MaxMoves  BY <1>13 DEF C!Cover, C!CardsInv, C!TypeOK
  <2>2. room \in Rooms  BY DEF C!CardsInv, C!TypeOK
  <2> QED  BY <1>11, <1>13, <2>1, <2>2 DEF C!Cover, C!Shows, C!gate
<1>14. ASSUME C!InModal # C!NoCard PROVE C!InModal \in list /\ C!InModal \in C!Ids  BY <1>14, ModalIsListed DEF C!CardsInv
<1>15. CASE C!Read
  <2>1. room \in Rooms /\ covered \in BOOLEAN /\ picker \in BOOLEAN /\ moves \in 0 .. MaxMoves  BY DEF C!CardsInv, C!TypeOK
  <2> QED  BY <1>11, <1>14, <1>15, <2>1 DEF C!Read, C!gate
<1>16. CASE C!Approve
  <2>1. CASE card[C!InModal].dangerous  BY <1>14, <1>16, <2>1, RespondKeeps DEF C!Approve, C!Scopes
  <2>2. CASE ~card[C!InModal].dangerous
    <3>1. room \in Rooms /\ covered \in BOOLEAN /\ read \in C!Ids \cup {C!NoCard} /\ moves \in 0 .. MaxMoves  BY DEF C!CardsInv, C!TypeOK
    <3> QED  BY <1>11, <1>16, <2>2, <3>1 DEF C!Approve, C!gate
  <2> QED  BY <2>1, <2>2
<1>17. ASSUME NEW scope \in C!Scopes, C!Pick(scope) PROVE C!CardsInv'  BY <1>14, <1>17, RespondKeeps DEF C!Pick
<1>18. CASE C!Deny  BY <1>14, <1>18, RespondKeeps DEF C!Deny, C!Scopes
<1>19. ASSUME NEW i \in C!Ids, NEW approved \in BOOLEAN, NEW scope \in C!Scopes, C!Inline(i, approved, scope) PROVE C!CardsInv'
  <2>1. i \in list  BY <1>19 DEF C!Inline, C!Pending
  <2> QED  BY <1>19, <2>1, RespondKeeps DEF C!Inline
<1>20. CASE UNCHANGED C!cardVars
  BY <1>20 DEF C!cardVars, C!CardsInv, C!TypeOK, C!DangerousIsOnce, C!GrantedWasAsked, C!BroughtBack, C!UnderWay, C!OneAnswerUnlessRevived
<1> QED  BY <1>1, <1>3, <1>5, <1>7, <1>8, <1>10, <1>12, <1>13, <1>15, <1>16, <1>17, <1>18, <1>19, <1>20 DEF C!Next

\* Whatever polls and answers overtake each other: no grant is of a dangerous call, and a card is answered twice
\* only after a poll put it back on the screen (useApprovals.ts, ApprovalModal.tsx, web-approval.ts).
THEOREM CardsAreAnsweredOnce == C!Spec => [](C!TypeOK /\ C!DangerousIsOnce /\ C!OneAnswerUnlessRevived)
<1>1. C!CardsInv => C!TypeOK /\ C!DangerousIsOnce /\ C!OneAnswerUnlessRevived  BY DEF C!CardsInv
<1> QED  BY CardsInit, CardsNext, <1>1, PTL DEF C!Spec

-----------------------------------------------------------------------------
(* The pushes *)

LEMMA PushInit == P!Init => P!PushInv
<1> SUFFICES ASSUME P!Init PROVE P!PushInv  OBVIOUS
<1> USE PushAssumption
<1>1. P!TypeOK  BY DEF P!Init, P!TypeOK, P!NoPush, P!Nothing, P!Requests
<1>2. P!Stages  BY DEF P!Init, P!Stages, P!Stage, P!NoPush
<1>3. \A o \in Owners : P!Clicked(o) = {}  BY DEF P!Init, P!Clicked, P!NoPush
<1>5. \A o \in Owners : P!Cardinality(P!Clicked(o)) = 0 /\ expected[o] = 0 /\ clicked[o] = 0
  BY PushCounts, <1>3, FS_EmptySet DEF P!Init
<1>4. P!OnePushPerClick  BY <1>5 DEF P!OnePushPerClick
<1> QED  BY <1>1, <1>2, <1>4 DEF P!PushInv

\* A step after which no further push passes for a click, and that takes back no click.
LEMMA NoMoreClicked ==
  ASSUME P!PushInv, P!TypeOK',
         \A n \in Pushes : push'[n].by = "click" => push[n].by = "click" /\ push'[n].owner = push[n].owner,
         \A o \in Owners : clicked'[o] - expected'[o] >= clicked[o] - expected[o]
  PROVE  P!OnePushPerClick'
<1> USE PushAssumption
<1> SUFFICES ASSUME NEW o \in Owners PROVE Cardinality(P!Clicked(o))' + expected'[o] <= clicked'[o]  BY PushCounts DEF P!OnePushPerClick
<1>1. P!Clicked(o)' \subseteq P!Clicked(o)  BY DEF P!Clicked
<1>2. IsFiniteSet(P!Clicked(o))  BY FS_Subset DEF P!Clicked
<1>3. Cardinality(P!Clicked(o)') <= Cardinality(P!Clicked(o)) /\ Cardinality(P!Clicked(o)) \in Nat /\ Cardinality(P!Clicked(o)') \in Nat
  BY <1>1, <1>2, FS_Subset, FS_CardinalityType
<1>4. Cardinality(P!Clicked(o)) + expected[o] <= clicked[o]  BY PushCounts DEF P!PushInv, P!OnePushPerClick
<1>5. expected[o] \in Nat /\ clicked[o] \in Nat /\ expected'[o] \in Nat /\ clicked'[o] \in Nat  BY DEF P!PushInv, P!TypeOK
<1> QED  BY <1>3, <1>4, <1>5

LEMMA PushNext == P!PushInv /\ [P!Next]_(P!pushVars) => P!PushInv'
<1> SUFFICES ASSUME P!PushInv, [P!Next]_(P!pushVars) PROVE P!PushInv'  OBVIOUS
<1> USE PushAssumption DEF P!Nothing
\* The tokens
<1>1. ASSUME UNCHANGED <<expected, clicked, push>>, P!TypeOK' PROVE P!PushInv'
  <2>1. P!Stages'  BY <1>1 DEF P!PushInv, P!Stages
  <2>2. P!OnePushPerClick'  BY <1>1 DEF P!PushInv, P!OnePushPerClick, P!Clicked
  <2> QED  BY <1>1, <2>1, <2>2 DEF P!PushInv
<1>2. ASSUME NEW o \in Owners, NEW t \in Tokens, P!Mint(o, t) PROVE P!PushInv'
  BY <1>1, <1>2 DEF P!Mint, P!PushInv, P!TypeOK
<1>3. ASSUME NEW w \in wiring, P!Configure(w) \/ P!ConfigureFails(w) PROVE P!PushInv'
  BY <1>1, <1>3 DEF P!Configure, P!ConfigureFails, P!PushInv, P!TypeOK
<1>4. ASSUME NEW o \in Owners, P!Unwire(o) \/ P!RevokeProject(o) \/ P!Rebuilt(o) \/ P!Forget(o) PROVE P!PushInv'
  <2>1. P!TypeOK'
    <3>1. CASE P!Unwire(o)  BY <3>1 DEF P!Unwire, P!PushInv, P!TypeOK
    <3>4. CASE P!Forget(o)  BY <3>4 DEF P!Forget, P!tokenVars, P!PushInv, P!TypeOK
    <3>2. CASE P!RevokeProject(o)  BY <3>2 DEF P!RevokeProject, P!PushInv, P!TypeOK
    <3>3. CASE P!Rebuilt(o)
      <4>1. faults' \in 0..MaxFaults  BY <3>3 DEF P!Rebuilt, P!PushInv, P!TypeOK
      <4> QED  BY <3>3, <4>1 DEF P!Rebuilt, P!PushInv, P!TypeOK
    <3> QED  BY <1>4, <3>1, <3>2, <3>3, <3>4
  <2> QED  BY <1>1, <1>4, <2>1 DEF P!Unwire, P!RevokeProject, P!Rebuilt, P!Forget
<1>5. ASSUME NEW t \in Tokens, P!Expire(t) PROVE P!PushInv'
  BY <1>1, <1>5 DEF P!Expire, P!PushInv, P!TypeOK
\* The clicks
<1>6. ASSUME NEW o \in Owners, P!Click(o) \/ P!ClickOver(o) PROVE P!PushInv'
  <2>1. P!TypeOK'  
    <3>1. ASSUME P!Click(o) PROVE P!TypeOK'  
      <4>1. clicked[o] + 1 \in 0..MaxClicks /\ expected[o] + 1 \in 0..MaxClicks
        <5>1. Cardinality(P!Clicked(o)) \in Nat /\ Cardinality(P!Clicked(o)) + expected[o] <= clicked[o]
          BY PushCounts, FS_Subset, FS_CardinalityType DEF P!Clicked, P!PushInv, P!OnePushPerClick
        <5> QED BY <3>1, <5>1 DEF P!Click, P!PushInv, P!TypeOK
      <4> QED BY <3>1, <4>1 DEF P!Click, P!PushInv, P!TypeOK, P!tokenVars
    <3>2. ASSUME P!ClickOver(o) PROVE P!TypeOK'  BY <3>2 DEF P!ClickOver, P!PushInv, P!TypeOK, P!tokenVars
    <3> QED BY <1>6, <3>1, <3>2
  <2>2. UNCHANGED push  BY <1>6 DEF P!Click, P!ClickOver
  <2>3. \A x \in Owners : clicked'[x] - expected'[x] >= clicked[x] - expected[x]
    BY <1>6 DEF P!Click, P!ClickOver, P!PushInv, P!TypeOK
  <2>4. P!OnePushPerClick'  BY <2>1, <2>2, <2>3, NoMoreClicked
  <2> QED  BY <2>1, <2>2, <2>4 DEF P!PushInv, P!Stages
\* A request moves on
<1>7. ASSUME NEW n \in Pushes, UNCHANGED <<P!tokenVars, clicked, faults>>, standing' \subseteq Owners,
             NEW p \in P!Requests, push' = [push EXCEPT ![n] = p], P!Stage(p),
             \/ expected' = expected /\ (p.by = "click" => push[n].by = "click" /\ p.owner = push[n].owner)
             \/ /\ push[n].by # "click" /\ p.owner = push[n].owner /\ expected[p.owner] > 0 /\ p.owner \in Owners
                /\ expected' = [expected EXCEPT ![p.owner] = @ - 1]
      PROVE  P!PushInv'
  <2>1. P!Stages'  BY <1>7 DEF P!PushInv, P!TypeOK, P!Stages
  <2>2. CASE expected' = expected /\ (p.by = "click" => push[n].by = "click" /\ p.owner = push[n].owner)
    <3>1. push' \in [Pushes -> P!Requests]  BY <1>7 DEF P!PushInv, P!TypeOK
    <3>2. P!TypeOK'  BY <1>7, <2>2, <3>1 DEF P!PushInv, P!TypeOK, P!tokenVars
    <3>3. P!OnePushPerClick'  BY <1>7, <2>2, <3>2, NoMoreClicked DEF P!PushInv, P!TypeOK
    <3> QED  BY <2>1, <3>2, <3>3 DEF P!PushInv
  <2>3. CASE /\ push[n].by # "click" /\ p.owner = push[n].owner /\ expected[p.owner] > 0 /\ p.owner \in Owners
             /\ expected' = [expected EXCEPT ![p.owner] = @ - 1]
    <3>1. push' \in [Pushes -> P!Requests]  BY <1>7 DEF P!PushInv, P!TypeOK
    <3>2. expected \in [Owners -> 0..MaxClicks] /\ clicked \in [Owners -> 0..MaxClicks]  BY DEF P!PushInv, P!TypeOK
    <3>3. expected' \in [Owners -> 0..MaxClicks]  BY <2>3, <3>2
    <3>4. P!TypeOK'  BY <1>7, <3>1, <3>3 DEF P!PushInv, P!TypeOK, P!tokenVars
    <3>5. P!OnePushPerClick'
      <4> SUFFICES ASSUME NEW x \in Owners PROVE Cardinality(P!Clicked(x))' + expected'[x] <= clicked'[x]  BY PushCounts DEF P!OnePushPerClick
      <4>1. IsFiniteSet(P!Clicked(x)) /\ Cardinality(P!Clicked(x)) \in Nat  BY FS_Subset, FS_CardinalityType DEF P!Clicked
      <4>2. Cardinality(P!Clicked(x)) + expected[x] <= clicked[x]  BY PushCounts DEF P!PushInv, P!OnePushPerClick
      <4>3. expected[x] \in Nat /\ clicked[x] \in Nat /\ clicked' = clicked  BY <1>7, <3>2
      <4>4. CASE x = p.owner
        <5>1. n \notin P!Clicked(x)  BY <2>3 DEF P!Clicked
        <5>2. P!Clicked(x)' \subseteq P!Clicked(x) \cup {n}  BY <1>7 DEF P!Clicked, P!PushInv, P!TypeOK
        <5>3. IsFiniteSet(P!Clicked(x) \cup {n}) /\ Cardinality(P!Clicked(x) \cup {n}) = Cardinality(P!Clicked(x)) + 1
          BY <4>1, <5>1, FS_AddElement
        <5>4. Cardinality(P!Clicked(x)') <= Cardinality(P!Clicked(x)) + 1 /\ Cardinality(P!Clicked(x)') \in Nat
          BY <5>2, <5>3, FS_Subset, FS_CardinalityType
        <5>5. expected'[x] = expected[x] - 1  BY <2>3, <3>2, <4>4
        <5> QED  BY <4>1, <4>2, <4>3, <5>4, <5>5
      <4>5. CASE x # p.owner
        <5>1. P!Clicked(x)' = P!Clicked(x)  BY <1>7, <2>3, <4>5 DEF P!Clicked, P!PushInv, P!TypeOK
        <5>2. expected'[x] = expected[x]  BY <2>3, <3>2, <4>5
        <5> QED  BY <4>2, <4>3, <5>1, <5>2
      <4> QED  BY <4>4, <4>5
    <3> QED  BY <2>1, <3>4, <3>5 DEF P!PushInv
  <2> QED  BY <1>7, <2>2, <2>3
<1>8. ASSUME NEW n \in Pushes, NEW o \in Owners, NEW who \in {"human", "agent"},
             NEW does \in {"adds", "rewrites", "deletes"}, NEW force \in {"no", "yes", "unknown"}, P!ReceivePack(n, o, who, does, force) PROVE P!PushInv'
  <2> DEFINE p == [P!NoPush EXCEPT !.owner = live[box[o]], !.who = who, !.does = does, !.force = force, !.at = "asking"]
  <2>1. live[box[o]] \in Owners  BY <1>8 DEF P!ReceivePack, P!PushInv, P!TypeOK
  <2>2. p \in P!Requests /\ p.by # "click" /\ P!Stage(p)  BY <2>1 DEF P!Requests, P!Stage, P!Risky, P!NoPush
  <2>3. push' = [push EXCEPT ![n] = p] /\ expected' = expected  BY <1>8 DEF P!ReceivePack
  <2>4. UNCHANGED <<P!tokenVars, clicked, faults>> /\ standing' \subseteq Owners  BY <1>8 DEF P!ReceivePack, P!PushInv, P!TypeOK
  <2> HIDE DEF p
  <2> QED  BY <1>7, <2>2, <2>3, <2>4
\* The wait is over, with an answer from somebody or from nobody.
<1>9. ASSUME NEW n \in Pushes, UNCHANGED <<P!tokenVars, clicked, faults>>, standing' \subseteq Owners,
             NEW by \in {"click", "grant", "person", "no"}, push' = [push EXCEPT ![n].at = "answered", ![n].by = by],
             push[n].at \in {"asking", "card"}, by \in {"click", "grant"} => ~P!Risky(push[n]),
             IF by = "click" THEN expected[push[n].owner] > 0 /\ expected' = [expected EXCEPT ![push[n].owner] = @ - 1] ELSE expected' = expected
      PROVE  P!PushInv'
  <2> DEFINE p == [push[n] EXCEPT !.at = "answered", !.by = by]
  <2>1. push[n] \in P!Requests /\ push[n].owner \in Owners /\ push[n].by = "none"  BY <1>9 DEF P!PushInv, P!Stages, P!Stage, P!TypeOK
  <2>2. p \in P!Requests  BY <2>1 DEF P!Requests
  <2>3. p.at = "answered" /\ p.by = by /\ p.owner = push[n].owner /\ p.does = push[n].does /\ p.force = push[n].force  BY <2>1 DEF P!Requests
  <2>4. push' = [push EXCEPT ![n] = p]  BY <1>9 DEF P!PushInv, P!TypeOK
  <2> HIDE DEF p
  <2>5. P!Stage(p)  BY <1>9, <2>1, <2>3 DEF P!Stage, P!Risky
  <2> QED  BY <1>7, <1>9, <2>1, <2>2, <2>3, <2>4, <2>5
<1>10. ASSUME NEW n \in Pushes, P!PushApproval(n) PROVE P!PushInv'
  <2>1. UNCHANGED <<P!tokenVars, clicked, faults>> /\ push[n].at = "asking" /\ standing' \subseteq Owners
    BY <1>10 DEF P!PushApproval, P!PushInv, P!TypeOK
  <2>2. CASE P!ClickCovers(n)
    <3>1. expected' = [expected EXCEPT ![push[n].owner] = @ - 1] /\ push' = [push EXCEPT ![n].at = "answered", ![n].by = "click"]
      BY <1>10, <2>2 DEF P!PushApproval, P!Spend
    <3>2. expected[push[n].owner] > 0 /\ ~P!Risky(push[n])  BY <2>2 DEF P!ClickCovers
    <3> QED  BY <1>9, <2>1, <3>1, <3>2
  <2>3. CASE push' = [push EXCEPT ![n].at = "card"] /\ expected' = expected
    <3> DEFINE p == [push[n] EXCEPT !.at = "card"]
    <3>1. push[n] \in P!Requests /\ push[n].owner \in Owners /\ push[n].by = "none"  BY <2>1 DEF P!PushInv, P!Stages, P!Stage, P!TypeOK
    <3>2. p \in P!Requests /\ p.at = "card" /\ p.by = "none" /\ p.owner = push[n].owner  BY <3>1 DEF P!Requests
    <3>3. push' = [push EXCEPT ![n] = p]  BY <2>3 DEF P!PushInv, P!TypeOK
    <3> HIDE DEF p
    <3>4. P!Stage(p)  BY <3>1, <3>2 DEF P!Stage, P!Risky
    <3> QED  BY <1>7, <2>1, <2>3, <3>2, <3>3, <3>4
  <2>4. ASSUME NEW by \in {"grant", "no"}, push' = [push EXCEPT ![n].at = "answered", ![n].by = by], expected' = expected, by = "grant" => ~P!Risky(push[n])
        PROVE  P!PushInv'
    BY <1>9, <2>1, <2>4
  <2> QED  BY <1>10, <2>2, <2>3, <2>4 DEF P!PushApproval
<1>11. ASSUME NEW n \in Pushes, NEW yes \in BOOLEAN, NEW always \in BOOLEAN, P!Answer(n, yes, always) PROVE P!PushInv'
  <2>1. push[n].owner \in Owners  BY <1>11 DEF P!Answer, P!PushInv, P!Stages, P!Stage
  <2>2. standing' \subseteq Owners  BY <1>11, <2>1 DEF P!Answer, P!PushInv, P!TypeOK
  <2>3. UNCHANGED <<P!tokenVars, expected, clicked, faults>> /\ push[n].at = "card"  BY <1>11 DEF P!Answer
  <2>4. \E by \in {"person", "no"} : push' = [push EXCEPT ![n].at = "answered", ![n].by = by]  BY <1>11 DEF P!Answer
  <2> QED  BY <1>9, <2>2, <2>3, <2>4
<1>12. ASSUME NEW n \in Pushes, P!Withdrawn(n) \/ P!OutOfTime(n) PROVE P!PushInv'
  <2>1. standing' \subseteq Owners  BY <1>12 DEF P!Withdrawn, P!OutOfTime, P!PushInv, P!TypeOK
  <2> QED  BY <1>9, <1>12, <2>1 DEF P!Withdrawn, P!OutOfTime
<1>13. ASSUME NEW n \in Pushes, P!ClientGone(n) \/ P!Finish(n) PROVE P!PushInv'
  <2>1. UNCHANGED <<P!tokenVars, expected, clicked, faults>> /\ standing' \subseteq Owners
    BY <1>13 DEF P!ClientGone, P!Finish, P!PushInv, P!TypeOK
  <2>2. push[n] \in P!Requests /\ push[n].owner \in Owners /\ push[n].at # "none" /\ P!Stage(push[n])
    BY <1>13 DEF P!ClientGone, P!Finish, P!PushInv, P!Stages, P!Stage, P!TypeOK
  <2>3. ASSUME NEW client \in {"late", "gone"}, push' = [push EXCEPT ![n].client = client]
        PROVE  P!PushInv'
    <3> DEFINE p == [push[n] EXCEPT !.client = client]
    <3>1. p \in P!Requests /\ p.at = push[n].at /\ p.by = push[n].by /\ p.owner = push[n].owner /\ p.does = push[n].does /\ p.force = push[n].force
      BY <2>2 DEF P!Requests
    <3>2. push' = [push EXCEPT ![n] = p]  BY <2>3 DEF P!PushInv, P!TypeOK
    <3> HIDE DEF p
    <3>3. P!Stage(p)  BY <2>2, <3>1 DEF P!Stage, P!Risky
    <3> QED  BY <1>7, <2>1, <3>1, <3>2, <3>3
  <2>4. ASSUME NEW at \in {"forwarded", "rejected"}, push' = [push EXCEPT ![n].at = at], at = "forwarded" => push[n].by # "no", push[n].at = "answered"
        PROVE  P!PushInv'
    <3> DEFINE p == [push[n] EXCEPT !.at = at]
    <3>1. p \in P!Requests /\ p.at = at /\ p.by = push[n].by /\ p.owner = push[n].owner /\ p.does = push[n].does /\ p.force = push[n].force
      BY <2>2 DEF P!Requests
    <3>2. push' = [push EXCEPT ![n] = p]  BY <2>4 DEF P!PushInv, P!TypeOK
    <3>3. p.by \in {"none", "click", "grant", "person", "no"}  BY <3>1 DEF P!Requests
    <3> HIDE DEF p
    <3>4. P!Stage(p)  BY <2>2, <2>4, <3>1, <3>3 DEF P!Stage, P!Risky
    <3> QED  BY <1>7, <2>1, <3>1, <3>2, <3>4
  <2>5. CASE P!ClientGone(n)
    <3>1. \E client \in {"late", "gone"} : push' = [push EXCEPT ![n].client = client]
      BY <2>5 DEF P!ClientGone, P!PushInv, P!TypeOK
    <3> QED  BY <2>3, <3>1
  <2>6. CASE P!Finish(n)
    <3>1. \E at \in {"forwarded", "rejected"} : push' = [push EXCEPT ![n].at = at] /\ (at = "forwarded" => push[n].by # "no")
      BY <2>6 DEF P!Finish
    <3> QED  BY <2>4, <2>6, <3>1 DEF P!Finish
  <2> QED  BY <1>13, <2>5, <2>6
<1>14. CASE P!ProxyRestart \/ P!OrchestratorRestart
  <2>1. faults' \in 0..MaxFaults
    <3>1. faults' = faults + 1 /\ faults < MaxFaults  BY <1>14 DEF P!ProxyRestart, P!OrchestratorRestart
    <3>2. faults \in 0..MaxFaults  BY DEF P!PushInv, P!TypeOK
    <3> QED  BY <3>1, <3>2
  <2>2. \A n \in Pushes : push'[n] = push[n] \/ \E at \in {"rejected", "answered"} :
          push'[n] = [push[n] EXCEPT !.at = at, !.by = "no"] /\ push[n].at \in {"asking", "card", "answered"}
    BY <1>14 DEF P!ProxyRestart, P!OrchestratorRestart, P!Broken
  <2>3. \A n \in Pushes : push'[n] = push[n] \/
          (push'[n] \in P!Requests /\ push'[n].at \in {"rejected", "answered"} /\ push'[n].by = "no" /\ push'[n].owner = push[n].owner /\ push[n].at # "none")
    <3> SUFFICES ASSUME NEW n \in Pushes, NEW at \in {"rejected", "answered"}, push'[n] = [push[n] EXCEPT !.at = at, !.by = "no"], push[n].at # "none"
                 PROVE  push'[n] \in P!Requests /\ push'[n].at = at /\ push'[n].by = "no" /\ push'[n].owner = push[n].owner
      BY <2>2
    <3>1. push[n] \in P!Requests  BY DEF P!PushInv, P!TypeOK
    <3> QED  BY <3>1 DEF P!Requests
  <2>4. push' = [n \in Pushes |-> push'[n]]  BY <1>14 DEF P!ProxyRestart, P!OrchestratorRestart, P!Broken
  <2>5. push' \in [Pushes -> P!Requests]  BY <2>3, <2>4 DEF P!PushInv, P!TypeOK
  <2>6. P!TypeOK'
    <3>1. CASE P!ProxyRestart  BY <2>1, <2>5, <3>1 DEF P!ProxyRestart, P!PushInv, P!TypeOK
    <3>2. CASE P!OrchestratorRestart
      <4>1. MaxClicks \in Nat => [o \in Owners |-> 0] \in [Owners -> 0..MaxClicks]  OBVIOUS
      <4>2. [o \in Owners |-> P!Nothing] \in [Owners -> Tokens \cup {P!Nothing}]  OBVIOUS
      <4> QED  BY <2>1, <2>5, <3>2, <4>1, <4>2 DEF P!OrchestratorRestart, P!PushInv, P!TypeOK
    <3> QED  BY <1>14, <3>1, <3>2
  <2>7. P!Stages'  BY <2>3 DEF P!PushInv, P!Stages, P!Stage, P!Risky, P!Requests
  <2>8. \A x \in Owners : clicked'[x] - expected'[x] >= clicked[x] - expected[x]
    <3> SUFFICES ASSUME NEW x \in Owners PROVE clicked'[x] - expected'[x] >= clicked[x] - expected[x]  OBVIOUS
    <3>1. clicked' = clicked /\ expected'[x] \in {expected[x], 0}  BY <1>14 DEF P!ProxyRestart, P!OrchestratorRestart
    <3>2. clicked[x] \in Nat /\ expected[x] \in Nat  BY DEF P!PushInv, P!TypeOK
    <3> QED  BY <3>1, <3>2
  <2>9. \A n \in Pushes : push'[n].by = "click" => push[n].by = "click" /\ push'[n].owner = push[n].owner
    BY <2>3
  <2> QED  BY <2>6, <2>7, <2>8, <2>9, NoMoreClicked DEF P!PushInv
<1>15. CASE UNCHANGED P!pushVars
  BY <1>15 DEF P!pushVars, P!PushInv, P!TypeOK, P!Stages, P!Stage, P!Risky, P!OnePushPerClick, P!Clicked
<1> QED  BY <1>2, <1>3, <1>4, <1>5, <1>6, <1>8, <1>10, <1>11, <1>12, <1>13, <1>14, <1>15 DEF P!Next

LEMMA PushSilence == P!PushInv /\ [P!Next]_(P!pushVars) => P!SilenceIsNo
<1> SUFFICES ASSUME P!PushInv, [P!Next]_(P!pushVars), NEW n \in Pushes, push'[n].at = "forwarded", push[n].at # "forwarded"
             PROVE push[n].client # "gone" /\ push[n].by \in {"click", "grant", "person"}
  BY DEF P!SilenceIsNo
<1>1. push \in [Pushes -> P!Requests] /\ push[n] \in P!Requests /\ P!Stage(push[n])  BY DEF P!PushInv, P!Stages, P!TypeOK
<1>2. ASSUME NEW m \in Pushes, P!Finish(m) PROVE push[n].client # "gone" /\ push[n].by \in {"click", "grant", "person"}
  <2>1. push[n].by \in {"none", "click", "grant", "person", "no"}  BY <1>1 DEF P!Requests
  <2>2. m = n  BY <1>1, <1>2 DEF P!Finish
  <2>3. push'[n].at = IF push[n].by # "no" /\ ~P!WaitEnds(n) THEN "forwarded" ELSE "rejected"
    <3> DEFINE at == IF push[n].by # "no" /\ ~P!WaitEnds(n) THEN "forwarded" ELSE "rejected"
    <3>1. push' = [push EXCEPT ![n].at = at]  BY <1>2, <2>2 DEF P!Finish
    <3> HIDE DEF at
    <3>2. push'[n] = [push[n] EXCEPT !.at = at]  BY <1>1, <3>1
    <3>3. push'[n].at = at  BY <1>1, <3>2 DEF P!Requests
    <3> QED  BY <3>3 DEF at
  <2>4. push[n].by # "no" /\ ~P!WaitEnds(n)  BY <2>3
  <2> QED  BY <1>1, <1>2, <2>1, <2>2, <2>4 DEF P!Finish, P!WaitEnds, P!Stage
<1>3. \E m \in Pushes : P!Finish(m)
  <2>1. push' # push  OBVIOUS
  <2>2. \A m \in Pushes : P!PushApproval(m) => push'[n] = push[n] \/ \E at \in {"answered", "card"} : push'[n].at = at
    <3> SUFFICES ASSUME NEW m \in Pushes, P!PushApproval(m), push'[n] # push[n] PROVE push'[n].at \in {"answered", "card"}  OBVIOUS
    <3>1. ASSUME NEW at \in {"answered", "card"}, push' = [push EXCEPT ![m].at = at]
          PROVE  push'[n].at = at
      BY <1>1, <3>1 DEF P!Requests
    <3>2. ASSUME NEW by, push' = [push EXCEPT ![m].at = "answered", ![m].by = by]
          PROVE  push'[n].at = "answered"
      BY <1>1, <3>2 DEF P!Requests
    <3> QED  BY <3>1, <3>2 DEF P!PushApproval
  <2>3. \A m \in Pushes : ~P!PushApproval(m)  BY <2>2
  <2>4. \A m \in Pushes : ~P!ClientGone(m)
    <3> SUFFICES ASSUME NEW m \in Pushes, NEW client, push' = [push EXCEPT ![m].client = client] PROVE FALSE  BY DEF P!ClientGone
    <3>1. push'[n].at = push[n].at  BY <1>1 DEF P!Requests
    <3> QED  BY <3>1
  <2>5. \A m \in Pushes : \A by : push' # [push EXCEPT ![m].at = "answered", ![m].by = by]
    <3> SUFFICES ASSUME NEW m \in Pushes, NEW by, push' = [push EXCEPT ![m].at = "answered", ![m].by = by] PROVE FALSE  OBVIOUS
    <3>1. push'[n].at \in {push[n].at, "answered"}  BY <1>1 DEF P!Requests
    <3> QED  BY <3>1
  <2>6. \A m \in Pushes, yes, always \in BOOLEAN : ~P!Withdrawn(m) /\ ~P!OutOfTime(m) /\ ~P!Answer(m, yes, always)
    BY <2>5 DEF P!Withdrawn, P!OutOfTime, P!Answer
  <2>7. \A m \in Pushes, o \in Owners, who \in {"human", "agent"}, does \in {"adds", "rewrites", "deletes"}, force \in {"no", "yes", "unknown"} :
          ~P!ReceivePack(m, o, who, does, force)
    <3> SUFFICES ASSUME NEW m \in Pushes, NEW o \in Owners, NEW who, NEW does, NEW force, P!ReceivePack(m, o, who, does, force) PROVE FALSE  OBVIOUS
    <3>1. push'[n].at \in {push[n].at, "asking"}  BY <1>1 DEF P!ReceivePack, P!NoPush
    <3> QED  BY <3>1
  <2>8. ~(P!ProxyRestart \/ P!OrchestratorRestart)
    <3>2. P!ProxyRestart \/ P!OrchestratorRestart => \E at \in {"rejected", "answered"} : push'[n] = [push[n] EXCEPT !.at = at, !.by = "no"] \/ push'[n] = push[n]
      BY DEF P!ProxyRestart, P!OrchestratorRestart, P!Broken
    <3>3. \A at \in {"rejected", "answered"} : [push[n] EXCEPT !.at = at, !.by = "no"].at = at  BY <1>1 DEF P!Requests
    <3> QED  BY <3>2, <3>3
  <2>9. \A o \in Owners : ~(P!Click(o) \/ P!ClickOver(o) \/ P!Unwire(o) \/ P!RevokeProject(o) \/ P!Rebuilt(o) \/ P!Forget(o))
    BY <2>1 DEF P!Click, P!ClickOver, P!Unwire, P!RevokeProject, P!Rebuilt, P!Forget
  <2>11. \A o \in Owners, t \in Tokens : ~P!Mint(o, t)  BY <2>1 DEF P!Mint
  <2>12. \A w \in wiring : ~P!Configure(w) /\ ~P!ConfigureFails(w)  BY <2>1 DEF P!Configure, P!ConfigureFails
  <2>13. \A t \in Tokens : ~P!Expire(t)  BY <2>1 DEF P!Expire
  <2>14. P!Next  BY <2>1 DEF P!pushVars
  <2>15. ~\E m \in Pushes, o \in Owners, who \in {"human", "agent"}, does \in {"adds", "rewrites", "deletes"}, force \in {"no", "yes", "unknown"} :
            P!ReceivePack(m, o, who, does, force)
    BY <2>7
  <2>16. ~\E m \in Pushes, yes, always \in BOOLEAN : P!Answer(m, yes, always)  BY <2>6
  <2>17. \A m \in Pushes : ~P!Withdrawn(m) /\ ~P!OutOfTime(m)  BY <2>6
  <2> QED  BY <2>3, <2>4, <2>8, <2>9, <2>11, <2>12, <2>13, <2>14, <2>15, <2>16, <2>17 DEF P!Next
<1> QED  BY <1>2, <1>3

\* A click lets one push pass, and what deletes a ref, or is known to rewrite one, passes by no click and no grant
\* (github-routes.ts:91-121, git-proxy push.ts:48-67).
THEOREM PushesAreApproved == P!Spec => [](P!TypeOK /\ P!OnePushPerClick /\ P!RiskyIsAsked)
<1>1. P!PushInv => P!TypeOK /\ P!OnePushPerClick /\ P!RiskyIsAsked
  <2> SUFFICES ASSUME P!PushInv, NEW n \in Pushes, push[n].at = "forwarded" /\ P!Risky(push[n]) PROVE push[n].by = "person"
    BY DEF P!PushInv, P!RiskyIsAsked
  <2> QED  BY DEF P!PushInv, P!Stages, P!Stage
<1> QED  BY PushInit, PushNext, <1>1, PTL DEF P!Spec

\* No answer is a no: what reached GitHub was approved while its client waited (git-proxy server.ts).
THEOREM PushSilenceIsNo == P!Spec => [][P!SilenceIsNo]_(P!pushVars)
BY PushInit, PushNext, PushSilence, PTL DEF P!Spec

-----------------------------------------------------------------------------
(* The connection to GitHub *)

LEMMA LoginInit == L!Init => L!LoginInv
<1> SUFFICES ASSUME L!Init PROVE L!LoginInv  OBVIOUS
<1>1. L!TypeOK  BY DEF L!Init, L!TypeOK, L!NotConnected, L!Credential, L!NoGrant
<1>2. L!RefreshedOnce /\ L!OnTheirWay  BY DEF L!Init, L!RefreshedOnce, L!OnTheirWay
<1>3. L!Spare /\ (stored.kind # "none" => stored.grant \in given)  BY DEF L!Init, L!Spare, L!NotConnected
<1> QED  BY <1>1, <1>2, <1>3 DEF L!LoginInv

LEMMA LoginNext == L!LoginInv /\ [L!Next]_(L!loginVars) => L!LoginInv'
<1> SUFFICES ASSUME L!LoginInv, [L!Next]_(L!loginVars) PROVE L!LoginInv'  OBVIOUS
<1> USE LoginAssumption DEF L!LoginInv, L!TypeOK, L!RefreshedOnce, L!OnTheirWay, L!Spare, L!NotConnected, L!Credential, L!NoGrant, L!Ops
<1>1. CASE L!StartDevice  BY <1>1 DEF L!StartDevice
<1>2. CASE L!Poll  BY <1>2 DEF L!Poll, L!Call
<1>3. CASE L!RunsOut  BY <1>3 DEF L!RunsOut
<1>4. CASE L!Refresh
  <2>1. PICK g \in Grants \ given :
          /\ IF stored.grant \in spent
               THEN refused' = TRUE /\ UNCHANGED <<given, asked>>
               ELSE refused' = refused /\ given' = given \cup {g} /\ L!Call("refresh", g)
          /\ spent' = spent \cup {stored.grant}
    BY <1>4 DEF L!Refresh
  <2>2. CASE stored.grant \in spent
    BY <1>4, <2>1, <2>2 DEF L!Refresh, L!MayRefresh
  <2>3. CASE stored.grant \notin spent
    <3> DEFINE r == [op |-> "refresh", grant |-> g]
    <3>1. asked' = asked \cup {r} /\ given' = given \cup {g} /\ refused' = refused /\ spent' = spent \cup {stored.grant}
          /\ UNCHANGED <<stored, expiring, device, proxyCache, cutOff, lost>>
      BY <1>4, <2>1, <2>3 DEF L!Refresh, L!Call
    <3>2. r.op = "refresh" /\ r.grant = g /\ r \in [op : L!Ops, grant : Grants \cup {L!NoGrant}]  OBVIOUS
    <3>3. stored.kind = "app" /\ stored.grant \in given  BY <1>4 DEF L!Refresh
    <3> HIDE DEF r
    <3>4. L!TypeOK'  BY <3>1, <3>2, <3>3
    <3>5. L!OnTheirWay'  BY <3>1, <3>2, <3>3
    <3> QED  BY <3>1, <3>2, <3>3, <3>4, <3>5
  <2> QED  BY <2>2, <2>3
<1>5. CASE L!Disconnect  BY <1>5 DEF L!Disconnect
<1>6. CASE L!Restart
  <2>1. L!TypeOK'  
    <3>1. {c.grant : c \in asked} \ {L!NoGrant} \subseteq given  
      <4> SUFFICES ASSUME NEW c \in asked, c.grant # L!NoGrant PROVE c.grant \in given  OBVIOUS
      <4>1. c.op # "poll" => c.grant \in given  OBVIOUS
      <4>2. c.op = "poll" => c.grant = L!NoGrant  OBVIOUS
      <4> QED  BY <4>1, <4>2
    <3> QED BY <1>6, <3>1 DEF L!Restart
  <2>2. \A c \in asked : c.op = "refresh" => c.grant \in lost'  BY <1>6 DEF L!Restart
  <2>3. lost \subseteq lost'   BY <1>6 DEF L!Restart
  <2> QED BY <1>6, <2>1, <2>2, <2>3 DEF L!Restart
<1>7. ASSUME NEW c \in asked, L!NotAuthorized(c) \/ L!PatBad(c) PROVE L!LoginInv'  BY <1>7 DEF L!NotAuthorized, L!PatBad, L!Done
<1>8. ASSUME NEW c \in asked, L!LoggedIn(c) \/ L!PatGood(c) PROVE L!LoginInv'  BY <1>8 DEF L!LoggedIn, L!PatGood, L!Done
<1>9. ASSUME NEW c \in asked, L!Refreshed(c) PROVE L!LoginInv'  BY <1>9 DEF L!Refreshed, L!Done
<1>10. ASSUME NEW c \in asked, L!RefreshLost(c) PROVE L!LoginInv'  BY <1>10 DEF L!RefreshLost, L!Done
<1>11. ASSUME NEW c \in asked, NEW g \in Grants, L!Authorized(c, g) PROVE L!LoginInv'  BY <1>11 DEF L!Authorized, L!Fresh
<1>12. ASSUME NEW g \in Grants, L!EnterPat(g) PROVE L!LoginInv'
    <3> DEFINE r == [op |-> "pat", grant |-> g]
    <3>1. asked' = asked \cup {r} /\ g \notin given /\ given' = given \cup {g} 
          /\ UNCHANGED <<stored, spent, expiring, device, proxyCache, refused, lost>> /\ cutOff' = FALSE
      BY <1>12 DEF L!EnterPat, L!Call, L!Fresh
    <3>2. r.op = "pat" /\ r.grant = g /\ r \in [op : L!Ops, grant : Grants \cup {L!NoGrant}]  OBVIOUS
    <3> HIDE DEF r
    <3>4. L!TypeOK'  BY <3>1, <3>2
    <3>5. L!OnTheirWay'  BY <3>1, <3>2
    <3> QED  BY <3>1, <3>2, <3>4, <3>5
<1>13. ASSUME NEW o \in Owners, L!ProxyAsks(o) \/ L!ProxyForgets(o) PROVE L!LoginInv'  BY <1>13 DEF L!ProxyAsks, L!ProxyForgets
<1>14. CASE UNCHANGED L!loginVars  BY <1>14 DEF L!loginVars
<1> QED  BY <1>1, <1>2, <1>3, <1>4, <1>5, <1>6, <1>7, <1>8, <1>9, <1>10, <1>11, <1>12, <1>13, <1>14 DEF L!Next

\* GitHub refuses a refresh token only after an answer with its successor was lost (github.ts).
THEOREM TokensAreRefreshedOnce == L!Spec => [](L!TypeOK /\ L!RefreshedOnce)
<1>1. L!LoginInv => L!TypeOK /\ L!RefreshedOnce  BY DEF L!LoginInv
<1> QED  BY LoginInit, LoginNext, <1>1, PTL DEF L!Spec

-----------------------------------------------------------------------------
(* The web *)

LEMMA WebInit == W!Init => W!WebInv
<1> SUFFICES ASSUME W!Init PROVE W!WebInv  OBVIOUS
<1> USE WebAssumption
<1>1. messages \in Seq([by : W!Writers, urls : SUBSET W!Urls]) /\ Len(messages) = 0  BY DEF W!Init
<1>6. webTurns \in 0 .. MaxTurns /\ webCalls \in 0 .. WebCalls /\ Len(messages) <= MaxMessages  BY <1>1 DEF W!Init
<1>2. W!TypeOK  BY <1>6 DEF W!Init, W!TypeOK, W!NoCall
<1>3. W!NoCall \in [at : {"none", "asking", "running"}, tool : W!ToolKinds \cup {"none"}, url : W!Urls \cup {<<>>}, asked : BOOLEAN, covered : BOOLEAN]
  BY DEF W!NoCall
<1>4. W!OpenedWasShown /\ W!CallHasGrounds  BY DEF W!Init, W!OpenedWasShown, W!CallHasGrounds, W!NoCall
<1>5. \A i \in 1 .. Len(messages) : W!Noted(messages[i], listed, said)  BY <1>1
<1> QED  BY <1>1, <1>2, <1>3, <1>4, <1>5 DEF W!Init, W!WebInv

\* A message is written, and noted with its addresses.
LEMMA WrittenKeeps ==
  ASSUME W!WebInv, NEW by \in W!Writers, NEW urls \in SUBSET W!Urls, W!Written(by, urls), W!Room
  PROVE  /\ messages' \in Seq([by : W!Writers, urls : SUBSET W!Urls]) /\ Len(messages') <= MaxMessages
         /\ \A i \in 1 .. Len(messages') : W!Noted(messages'[i], listed', said')
         /\ said \subseteq said' /\ listed \subseteq listed'
         /\ typed' \subseteq said' /\ found' \subseteq listed' /\ linked' \subseteq listed'
<1> USE WebAssumption
<1>1. PICK m \in [by : W!Writers, urls : SUBSET W!Urls] : m.by = by /\ m.urls = urls /\ messages' = Append(messages, m)
  BY DEF W!Written
<1>2. messages' = Append(messages, m)  BY <1>1
<1>3. messages \in Seq([by : W!Writers, urls : SUBSET W!Urls])  BY DEF W!WebInv
<1>4. /\ messages' \in Seq([by : W!Writers, urls : SUBSET W!Urls]) /\ Len(messages') = Len(messages) + 1
      /\ \A i \in 1 .. Len(messages) : messages'[i] = messages[i]
      /\ messages'[Len(messages) + 1] = m
  BY <1>1, <1>2, <1>3, AppendProperties
<1>5. said \subseteq said' /\ listed \subseteq listed'  BY DEF W!Written
<1>6. typed' \subseteq said'  BY DEF W!Written, W!WebInv, W!TypeOK
<1>7. found' \subseteq listed' /\ linked' \subseteq listed'  BY DEF W!Written, W!WebInv, W!TypeOK, W!WebResults
<1>8. W!Noted(m, listed', said')  BY <1>1 DEF W!Written, W!Noted
<1>9. \A i \in 1 .. Len(messages) : W!Noted(messages[i], listed, said)  BY DEF W!WebInv
<1>10. \A i \in 1 .. Len(messages) : W!Noted(messages'[i], listed', said')  BY <1>4, <1>5, <1>9 DEF W!Noted
<1>11. \A i \in 1 .. Len(messages') : i \in 1 .. Len(messages) \/ i = Len(messages) + 1  BY <1>3, <1>4, LenProperties
<1>12. \A i \in 1 .. Len(messages') : W!Noted(messages'[i], listed', said')  BY <1>4, <1>8, <1>10, <1>11
<1>13. Len(messages') <= MaxMessages  BY <1>3, <1>4, LenProperties DEF W!Room
<1> QED  BY <1>4, <1>5, <1>6, <1>7, <1>12, <1>13

\* Without a call under way, a step that only writes.
LEMMA WebNext == W!WebInv /\ [W!Next]_(W!vars) => W!WebInv'
<1> SUFFICES ASSUME W!WebInv, [W!Next]_(W!vars) PROVE W!WebInv'  OBVIOUS
<1> USE WebAssumption
<1> DEFINE Kept == /\ messages' \in Seq([by : W!Writers, urls : SUBSET W!Urls]) /\ Len(messages') <= MaxMessages
                   /\ \A i \in 1 .. Len(messages') : W!Noted(messages'[i], listed', said')
                   /\ said \subseteq said' /\ listed \subseteq listed'
                   /\ typed' \subseteq said' /\ found' \subseteq listed' /\ linked' \subseteq listed'
\* Nothing that was shown is forgotten.
<1>1. Kept /\ trusted' = trusted => (\A url : W!Shown(url) => W!Shown(url)')  BY DEF W!Shown
<1>2. UNCHANGED <<messages, W!ghosts>> => Kept  BY DEF W!WebInv, W!TypeOK, W!ghosts, W!Noted
<1>3. turn \in BOOLEAN /\ webTurns \in 0 .. MaxTurns /\ webCalls \in 0 .. WebCalls /\ flagged \in BOOLEAN  BY DEF W!WebInv, W!TypeOK
<1>4. (call = W!NoCall \/ ~turn) => call = W!NoCall  BY DEF W!WebInv, W!CallHasGrounds
\* A step after which no call is under way.
<1>5. ASSUME Kept, UNCHANGED trusted, turn' \in BOOLEAN, flagged' \in BOOLEAN, webGranted' \subseteq webGranted, webTurns' \in 0 .. MaxTurns, webCalls' \in 0 .. WebCalls,
             call' = W!NoCall, opened' \subseteq opened \cup {W!HowItRan}, opened' = opened \/ (call.at = "running" /\ W!Gated(call.tool))
      PROVE  W!WebInv'
  <2>1. W!TypeOK'  BY <1>5 DEF W!WebInv, W!TypeOK, W!NoCall
  <2>2. W!OpenedWasShown'
    <3> SUFFICES ASSUME NEW o \in opened', ~o.asked /\ ~o.covered PROVE o.tool = "web_fetch" /\ W!Shown(o.url)'  BY DEF W!OpenedWasShown, W!Shown
    <3>1. CASE o \in opened  BY <1>1, <1>5, <3>1 DEF W!WebInv, W!OpenedWasShown, W!Shown
    <3>2. CASE o \notin opened
      <4>1. call.at = "running" /\ W!Gated(call.tool) /\ o = W!HowItRan  BY <1>5, <3>2
      <4>2. o.asked = call.asked /\ o.covered = call.covered /\ o.url = call.url /\ o.tool = call.tool  BY <4>1 DEF W!HowItRan
      <4> QED  BY <1>1, <1>5, <4>1, <4>2 DEF W!WebInv, W!CallHasGrounds
    <3> QED  BY <3>1, <3>2
  <2>3. W!CallHasGrounds'  BY <1>5 DEF W!CallHasGrounds, W!NoCall
  <2>4. W!NoCall \in [at : {"none", "asking", "running"}, tool : W!ToolKinds \cup {"none"}, url : W!Urls \cup {<<>>}, asked : BOOLEAN, covered : BOOLEAN]
    BY DEF W!NoCall
  <2> QED  BY <1>5, <2>1, <2>2, <2>3, <2>4 DEF W!WebInv
<1>6. \A u \in W!Urls : {u} \in SUBSET W!Urls  OBVIOUS
<1>7. \A urls \in W!Few : urls \in SUBSET W!Urls  BY DEF W!Few
<1> HIDE DEF Kept
<1>11. CASE W!SendMessage
  <2>1. PICK urls \in W!Few : W!Written("person", urls)  BY <1>11 DEF W!SendMessage
  <2>2. Kept  BY <1>7, <1>11, <2>1, WrittenKeeps DEF Kept, W!SendMessage, W!Writers
  <2>3. webTurns' \in 0 .. MaxTurns  BY <1>3, <1>11 DEF W!SendMessage
  <2> QED  BY <1>3, <1>4, <1>5, <1>11, <2>2, <2>3 DEF W!SendMessage
<1>12. CASE W!NoteArrives
  <2>1. Kept
    <3>1. PICK u \in W!Urls : W!Written("model", {u})  BY <1>12 DEF W!NoteArrives
    <3> QED  BY <1>6, <1>12, <3>1, WrittenKeeps DEF Kept, W!NoteArrives, W!Writers
  <2> QED  BY <1>3, <1>5, <1>12, <2>1 DEF W!NoteArrives
<1>13. CASE W!EndTurn
  BY <1>2, <1>3, <1>5, <1>13 DEF W!EndTurn
<1>20. CASE W!Revoke
  <2>1. webGranted' \subseteq webGranted /\ UNCHANGED <<messages, turn, trusted, flagged, call, W!ghosts, opened, webTurns, webCalls>>
    BY <1>20 DEF W!Revoke
  <2>2. W!TypeOK'  BY <2>1 DEF W!WebInv, W!TypeOK, W!ghosts
  <2> QED  BY <2>1, <2>2 DEF W!WebInv, W!OpenedWasShown, W!CallHasGrounds, W!Shown, W!Noted, W!ghosts, W!Room
<1>14. CASE W!Compact
  <2>0. PICK cut \in 2 .. Len(messages) : \E u \in UNION {messages[i].urls : i \in 1 .. cut - 1} :
          /\ messages' = <<[by |-> "model", urls |-> {u}]>> \o SubSeq(messages, cut, Len(messages))
          /\ said' = said \cup {W!Host(u)}
    BY <1>14 DEF W!Compact
  <2>1. PICK u \in UNION {messages[i].urls : i \in 1 .. cut - 1} :
          /\ messages' = <<[by |-> "model", urls |-> {u}]>> \o SubSeq(messages, cut, Len(messages))
          /\ said' = said \cup {W!Host(u)}
    BY <2>0
  <2> DEFINE tail == SubSeq(messages, cut, Len(messages))
  <2>2. messages \in Seq([by : W!Writers, urls : SUBSET W!Urls]) /\ Len(messages) \in Nat /\ Len(messages) <= MaxMessages
    BY LenProperties DEF W!WebInv, W!TypeOK
  <2>3. u \in W!Urls
    <3>1. PICK i \in 1 .. cut - 1 : u \in messages[i].urls  BY <2>1
    <3>2. i \in 1 .. Len(messages)  BY <2>2
    <3>3. messages[i] \in [by : W!Writers, urls : SUBSET W!Urls]  BY <2>2, <3>2, ElementOfSeq
    <3> QED  BY <3>1, <3>3
  <2>4. PICK m \in [by : W!Writers, urls : SUBSET W!Urls] : m.by = "model" /\ m.urls = {u} /\ m = [by |-> "model", urls |-> {u}]
    BY <2>3 DEF W!Writers
  <2>5. /\ tail \in Seq([by : W!Writers, urls : SUBSET W!Urls]) /\ Len(tail) = Len(messages) - cut + 1
        /\ \A i \in 1 .. Len(messages) - cut + 1 : tail[i] = messages[cut + i - 1]
    <3>1. \A i \in cut .. Len(messages) : messages[i] \in [by : W!Writers, urls : SUBSET W!Urls]
      <4> SUFFICES ASSUME NEW i \in cut .. Len(messages) PROVE messages[i] \in [by : W!Writers, urls : SUBSET W!Urls]  OBVIOUS
      <4>1. i \in 1 .. Len(messages)  BY <2>2
      <4> QED  BY <2>2, <4>1, ElementOfSeq
    <3>2. cut \in Int /\ Len(messages) \in Int /\ cut <= Len(messages)  BY <2>2
    <3> QED  BY <3>1, <3>2, SubSeqProperties
  <2>6. messages' = <<m>> \o tail  BY <2>1, <2>4
  <2> HIDE DEF tail
  <2>7. /\ messages' \in Seq([by : W!Writers, urls : SUBSET W!Urls]) /\ Len(messages') = 1 + Len(tail)
        /\ \A i \in 1 .. 1 + Len(tail) : messages'[i] = IF i <= 1 THEN m ELSE tail[i - 1]
    <3>1. <<m>> \in Seq([by : W!Writers, urls : SUBSET W!Urls]) /\ Len(<<m>>) = 1 /\ <<m>>[1] = m  BY <2>4
    <3>2. <<m>> \o tail \in Seq([by : W!Writers, urls : SUBSET W!Urls]) /\ Len(<<m>> \o tail) = Len(<<m>>) + Len(tail)
          /\ \A i \in 1 .. Len(<<m>>) + Len(tail) : (<<m>> \o tail)[i] = IF i <= Len(<<m>>) THEN <<m>>[i] ELSE tail[i - Len(<<m>>)]
      BY <2>5, <3>1, ConcatProperties
    <3> QED  BY <2>6, <3>1, <3>2
  <2>8. Len(messages') <= MaxMessages  BY <2>2, <2>5, <2>7
  <2>9. said \subseteq said' /\ W!Host(u) \in said' /\ UNCHANGED <<turn, trusted, flagged, call, webGranted, listed, typed, found, linked, opened, webTurns, webCalls>>
    BY <1>14, <2>1 DEF W!Compact
  <2>10. W!Noted(m, listed', said')  BY <2>4, <2>9 DEF W!Noted, W!WebResults
  <2>11. \A i \in 1 .. Len(messages) : W!Noted(messages[i], listed', said')  BY <2>9 DEF W!WebInv, W!Noted
  <2>12. ASSUME NEW i \in 1 .. Len(messages') PROVE W!Noted(messages'[i], listed', said')
    <3>1. CASE i = 1  BY <2>5, <2>7, <2>10, <3>1
    <3>2. CASE i # 1
      <4>1. i - 1 \in 1 .. Len(messages) - cut + 1 /\ cut + (i - 1) - 1 \in 1 .. Len(messages)  BY <2>2, <2>5, <2>7, <3>2
      <4>2. messages'[i] = messages[cut + (i - 1) - 1]  BY <2>5, <2>7, <3>2, <4>1
      <4>3. W!Noted(messages[cut + (i - 1) - 1], listed', said')
        <5> DEFINE k == cut + (i - 1) - 1
        <5>1. k \in 1 .. Len(messages)  BY <4>1
        <5> HIDE DEF k
        <5> QED  BY <2>11, <5>1 DEF k
      <4> QED  BY <4>2, <4>3 DEF W!Noted
    <3> QED  BY <3>1, <3>2
  <2>13. Kept  BY <2>7, <2>8, <2>9, <2>12 DEF Kept, W!WebInv, W!TypeOK
  <2> QED  BY <1>3, <1>4, <1>5, <1>14, <2>9, <2>13 DEF W!Compact
<1>15. ASSUME NEW u \in W!Urls, W!InvokeGarbled(u) PROVE W!WebInv'
  <2>1. Kept  BY <1>6, <1>15, WrittenKeeps DEF Kept, W!InvokeGarbled, W!Writers
  <2>2. webCalls' \in 0 .. WebCalls  BY <1>3, <1>15 DEF W!InvokeGarbled
  <2> QED  BY <1>3, <1>5, <1>15, <2>1, <2>2 DEF W!InvokeGarbled
<1>16. ASSUME NEW t \in W!ToolKinds, NEW u \in W!Takes(t), W!Invoke(t, u) PROVE W!WebInv'
  <2>1. /\ call' = [at |-> IF W!Asks(t, u) /\ ~W!Covered(t, u) THEN "asking" ELSE "running",
                    tool |-> t, url |-> u, asked |-> FALSE, covered |-> W!Covered(t, u)]
        /\ UNCHANGED <<messages, turn, trusted, flagged, webGranted, W!ghosts, opened, webTurns>> /\ webCalls' = webCalls + 1 /\ webCalls < WebCalls
    BY <1>16 DEF W!Invoke
  <2>2. W!Covered(t, u) \in BOOLEAN /\ u \in W!Urls \cup {<<>>}  BY DEF W!Covered, W!Takes
  <2>3. call' \in [at : {"none", "asking", "running"}, tool : W!ToolKinds \cup {"none"}, url : W!Urls \cup {<<>>}, asked : BOOLEAN, covered : BOOLEAN]
        /\ call'.at # "none" /\ call'.tool = t /\ call'.url = u /\ call'.asked = FALSE /\ call'.covered = W!Covered(t, u)
        /\ call'.at = (IF W!Asks(t, u) /\ ~W!Covered(t, u) THEN "asking" ELSE "running")
    BY <2>1, <2>2
  <2>4. Kept  BY <1>2, <2>1
  <2>5. W!TypeOK'  BY <1>3, <2>1, <2>3, <2>4 DEF W!WebInv, W!TypeOK, Kept
  <2>6. W!OpenedWasShown'  BY <2>1 DEF W!WebInv, W!OpenedWasShown, W!ghosts
  <2>7. W!CallHasGrounds'
    <3>1. W!Asks(t, u) /\ ~W!Covered(t, u) /\ ~flagged => W!Gated(t) \/ t = "effect"  BY DEF W!Asks, W!Gated, W!ToolKinds, W!WebTools
    <3>2. ~(W!Asks(t, u) /\ ~W!Covered(t, u)) /\ flagged => t \in {"observe", "own preview"}
      BY DEF W!Asks, W!Covered, W!ToolKinds, W!WebTools
    <3>3. ~(W!Asks(t, u) /\ ~W!Covered(t, u)) /\ W!Gated(t) /\ ~W!Covered(t, u) => t = "web_fetch" /\ W!UrlIsInContext(u)
      BY DEF W!Asks, W!Gated
    <3>4. W!UrlIsInContext(u) => W!Shown(u)'
      <4>1. \A m \in W!Range(messages) : W!Noted(m, listed, said)  BY DEF W!WebInv, W!Range
      <4>2. W!Host(u) \in W!UserHosts => trusted /\ W!Host(u) \in said  BY <4>1 DEF W!UserHosts, W!Noted
      <4>3. u \in W!ExactUrls => u \in listed  BY <4>1 DEF W!ExactUrls, W!IsSource, W!Noted
      <4> QED  BY <2>1, <4>2, <4>3 DEF W!UrlIsInContext, W!Shown, W!ghosts
    <3>5. turn' /\ W!Room'  BY <1>16 DEF W!Invoke, W!Room
    <3> QED  BY <2>1, <2>3, <3>1, <3>2, <3>3, <3>4, <3>5 DEF W!CallHasGrounds
  <2> QED  BY <2>3, <2>4, <2>5, <2>6, <2>7 DEF W!WebInv, Kept
<1>17. ASSUME NEW b \in BOOLEAN, W!Approve(b) PROVE W!WebInv'
  <2>1. /\ call.at = "asking" /\ call' = [call EXCEPT !.at = "running", !.asked = TRUE]
        /\ webGranted' = IF b /\ ~flagged THEN webGranted \cup {W!Label(call.tool, call.url)} ELSE webGranted
        /\ UNCHANGED <<messages, turn, trusted, flagged, W!ghosts, opened, webTurns, webCalls>>
    BY <1>17 DEF W!Approve
  <2>2. call' \in [at : {"none", "asking", "running"}, tool : W!ToolKinds \cup {"none"}, url : W!Urls \cup {<<>>}, asked : BOOLEAN, covered : BOOLEAN]
        /\ call'.at = "running" /\ call'.asked = TRUE /\ call'.tool = call.tool /\ call'.url = call.url
    BY <2>1 DEF W!WebInv
  <2>3. ~flagged => W!Label(call.tool, call.url) \in Hosts \cup {"effect"}
    BY <2>1 DEF W!WebInv, W!CallHasGrounds, W!Label, W!Gated, W!Takes, W!Host, W!Urls
  <2>4. Kept  BY <1>2, <2>1
  <2>5. W!TypeOK'  BY <2>1, <2>2, <2>3, <2>4 DEF W!WebInv, W!TypeOK, Kept
  <2>6. W!OpenedWasShown'  BY <2>1 DEF W!WebInv, W!OpenedWasShown, W!ghosts
  <2>7. W!CallHasGrounds'  BY <2>1, <2>2 DEF W!WebInv, W!CallHasGrounds, W!Room
  <2> QED  BY <2>2, <2>4, <2>5, <2>6, <2>7 DEF W!WebInv, Kept
<1>18. CASE W!Deny
  <2>1. W!Room  BY <1>18 DEF W!Deny, W!WebInv, W!CallHasGrounds
  <2>2. Kept  BY <1>18, <2>1, WrittenKeeps DEF Kept, W!Deny, W!Writers
  <2> QED  BY <1>3, <1>5, <1>18, <2>2 DEF W!Deny
<1>19. ASSUME NEW b \in BOOLEAN, W!Return(b) PROVE W!WebInv'
  <2>1. W!Room  BY <1>19 DEF W!Return, W!WebInv, W!CallHasGrounds
  <2>2. PICK urls \in W!Few, suspected \in BOOLEAN :
          /\ W!Written(IF b THEN "redirect" ELSE IF call.tool \in W!WebTools THEN "web" ELSE "other", urls)
          /\ flagged' = IF W!Observed(call.tool) THEN W!Warned(suspected) ELSE flagged
    BY <1>19 DEF W!Return
  <2>3. PICK by \in W!Writers : W!Written(by, urls)
    <3>1. (IF b THEN "redirect" ELSE IF call.tool \in W!WebTools THEN "web" ELSE "other") \in W!Writers  BY DEF W!Writers
    <3> QED  BY <2>2, <3>1
  <2>4. Kept  BY <1>7, <2>1, <2>3, WrittenKeeps DEF Kept
  <2>5. flagged' \in BOOLEAN  BY <1>3, <2>2 DEF W!Warned
  <2>6. /\ call.at = "running" /\ call' = W!NoCall /\ UNCHANGED <<turn, trusted, webGranted, webTurns, webCalls>>
        /\ opened' = opened \/ (opened' = opened \cup {W!HowItRan} /\ W!Gated(call.tool))
    BY <1>19 DEF W!Return, W!Gated
  <2> QED  BY <1>3, <1>5, <2>4, <2>5, <2>6
<1>21. CASE W!SearchRepeatsQuery
  <2>1. W!Room  BY <1>21 DEF W!SearchRepeatsQuery, W!WebInv, W!CallHasGrounds
  <2>2. PICK u \in W!Urls : W!Written("echo", {u})  BY <1>21 DEF W!SearchRepeatsQuery
  <2>3. Kept  BY <1>6, <2>1, <2>2, WrittenKeeps DEF Kept, W!Writers
  <2> QED  BY <1>3, <1>5, <1>21, <2>3 DEF W!SearchRepeatsQuery
<1>22. CASE UNCHANGED W!vars
  <2>1. W!TypeOK'  BY <1>22 DEF W!vars, W!ghosts, W!WebInv, W!TypeOK
  <2> QED  BY <1>22, <2>1 DEF W!vars, W!ghosts, W!WebInv, W!OpenedWasShown, W!CallHasGrounds, W!Shown, W!Noted, W!Room
<1> QED  BY <1>11, <1>12, <1>13, <1>14, <1>15, <1>16, <1>17, <1>18, <1>19, <1>20, <1>21, <1>22 DEF W!Next

LEMMA WebFlagged == W!WebInv /\ [W!Next]_(W!vars) => W!FlaggedTurnAsks
<1> SUFFICES ASSUME W!WebInv, [W!Next]_(W!vars), turn, turn', flagged
             PROVE  flagged' /\ \A o \in (opened' \cup ran') \ (opened \cup ran) : o.asked \/ o.tool \in {"observe", "own preview"}
  BY DEF W!FlaggedTurnAsks
<1>1. CASE W!Next
  <2>1. flagged'
    <3>1. ~W!SendMessage  BY DEF W!SendMessage
    <3>2. ASSUME NEW b \in BOOLEAN, W!Return(b) PROVE flagged'
      <4>1. \E suspected \in BOOLEAN : flagged' = IF W!Observed(call.tool) THEN W!Warned(suspected) ELSE flagged
        BY <3>2 DEF W!Return
      <4> QED  BY <4>1 DEF W!Warned
    <3> QED
      BY <1>1, <3>1, <3>2
      DEF W!Next, W!NoteArrives, W!EndTurn, W!Compact, W!Revoke, W!Invoke, W!InvokeGarbled, W!Approve, W!Deny, W!SearchRepeatsQuery
  <2>2. (opened' \cup ran') \subseteq (opened \cup ran) \cup {W!HowItRan}
        /\ (UNCHANGED <<opened, ran>> \/ call.at = "running")
    <3>1. ASSUME NEW b \in BOOLEAN, W!Return(b)
          PROVE  (opened' \cup ran') \subseteq (opened \cup ran) \cup {W!HowItRan} /\ call.at = "running"
      BY <3>1 DEF W!Return
    <3> QED
      BY <1>1, <3>1
      DEF W!Next, W!SendMessage, W!NoteArrives, W!EndTurn, W!Compact, W!Revoke, W!Invoke, W!InvokeGarbled, W!Approve, W!Deny, W!SearchRepeatsQuery
  <2>3. call.at = "running" => W!HowItRan.asked \/ W!HowItRan.tool \in {"observe", "own preview"}
    BY DEF W!WebInv, W!CallHasGrounds, W!HowItRan
  <2> QED  BY <2>1, <2>2, <2>3
<1>2. CASE UNCHANGED W!vars  BY <1>2 DEF W!vars
<1> QED  BY <1>1, <1>2

\* A page opens unasked only if its address was shown (provenance.ts, llm-loop.ts).
THEOREM PagesWereShown == W!Spec => [](W!TypeOK /\ W!OpenedWasShown)
<1>1. W!WebInv => W!TypeOK /\ W!OpenedWasShown  BY DEF W!WebInv
<1> QED  BY WebInit, WebNext, <1>1, PTL DEF W!Spec

\* After a suspicion the turn asks before it does anything but look (llm-loop.ts).
THEOREM SuspicionAsks == W!Spec => [][W!FlaggedTurnAsks]_(W!vars)
BY WebInit, WebNext, WebFlagged, PTL DEF W!Spec

-----------------------------------------------------------------------------
(* The session *)

LEMMA SessionInit == S!Init => S!SessionInv
<1> SUFFICES ASSUME S!Init PROVE S!SessionInv  OBVIOUS
<1> USE SessionAssumption
<1>1. store \in [S!Ids -> [expires : 0 .. MaxClock + TTL, seen : 0 .. MaxClock]]  BY DEF S!Init, S!Gone
<1>2. jar \in [id : S!Ids \cup {S!NoId}, until : 0 .. MaxClock + TTL]  BY DEF S!Init, S!Empty
<1>3. made \in 0 .. MaxSessions /\ used \in [S!Ids -> 0 .. MaxClock] /\ now \in 1 .. MaxClock /\ guessed \in 0 .. MaxGuesses  BY DEF S!Init
<1>4. S!TypeOK  BY <1>1, <1>2, <1>3 DEF S!Init, S!TypeOK
<1>5. \A i \in S!Ids : S!Kept(i)  BY DEF S!Init, S!Kept, S!Gone
<1>6. \A t : S!InWindow(guesses, t) = {}  BY DEF S!Init, S!InWindow
<1>7. S!Remembered /\ S!GuessesAreBounded /\ IsFiniteSet(guesses)  BY SessionCounts, <1>6, FS_EmptySet DEF S!Init, S!Remembered, S!GuessesAreBounded
<1> QED  BY SessionCounts, <1>4, <1>5, <1>7 DEF S!SessionInv

LEMMA SessionGood == S!SessionInv => S!UseKeepsIt
<1> SUFFICES ASSUME S!SessionInv, NEW i \in S!Ids, used[i] # 0, now - used[i] < TTL - TouchAfter PROVE S!Valid(i)  BY DEF S!UseKeepsIt
<1> USE SessionAssumption
<1>1. S!Kept(i) /\ used[i] \in Nat /\ now \in Nat /\ store[i].expires \in Nat  BY DEF S!SessionInv, S!TypeOK
<1>2. i # S!NoId  BY DEF S!Ids, S!NoId
<1> QED  BY <1>1, <1>2 DEF S!Kept, S!Valid

LEMMA SessionNext == S!SessionInv /\ [S!Next]_(S!vars) => S!SessionInv'
<1> SUFFICES ASSUME S!SessionInv, [S!Next]_(S!vars) PROVE S!SessionInv'  OBVIOUS
<1> USE SessionAssumption
<1> DEFINE Rows == [expires : 0 .. MaxClock + TTL, seen : 0 .. MaxClock]
<1>1. /\ store \in [S!Ids -> Rows] /\ made \in 0 .. MaxSessions /\ used \in [S!Ids -> 0 .. MaxClock] /\ now \in 1 .. MaxClock
      /\ jar \in [id : S!Ids \cup {S!NoId}, until : 0 .. MaxClock + TTL] /\ tabs \in [Tabs -> {"asking", "login", "app"}]
      /\ net \subseteq S!Requests
  BY DEF S!SessionInv, S!TypeOK
<1>2. \A i \in S!Ids : store[i].expires \in Nat /\ store[i].seen \in Nat /\ used[i] \in Nat /\ now \in Nat /\ now <= MaxClock
  BY <1>1
<1>3. \A r \in net : r.tab \in Tabs /\ r.id \in S!Ids \cup {S!NoId} /\ r.kind \in {"session", "call", "login", "logout"} /\ r.right \in BOOLEAN /\ r.at \in {"sent", "ok", "refused"}
  BY <1>1 DEF S!Requests
<1>4. \A r \in net, at \in {"ok", "refused"} : S!Answer(r, at) => net' \subseteq S!Requests
  BY <1>1 DEF S!Requests, S!Answer
<1>5. S!Gone \in Rows /\ \A i \in S!Ids : S!Slid(store[i]) \in Rows  BY <1>1 DEF S!Gone, S!Slid
\* The limiter is left alone.
<1>6. ASSUME UNCHANGED <<failures, guesses, guessed, now>>, store' \in [S!Ids -> Rows], made' \in 0 .. MaxSessions, used' \in [S!Ids -> 0 .. MaxClock],
             jar' \in [id : S!Ids \cup {S!NoId}, until : 0 .. MaxClock + TTL], tabs' \in [Tabs -> {"asking", "login", "app"}], net' \subseteq S!Requests,
             \A i \in S!Ids : S!Kept(i)'
      PROVE  S!SessionInv'
  <2>1. S!TypeOK'  BY <1>6 DEF S!SessionInv, S!TypeOK
  <2>2. S!Remembered' /\ S!GuessesAreBounded' /\ IsFiniteSet(guesses')  BY SessionCounts, <1>6 DEF S!SessionInv, S!Remembered, S!GuessesAreBounded, S!InWindow
  <2> QED  BY <1>6, <2>1, <2>2 DEF S!SessionInv
\* The rows are left alone.
<1>7. UNCHANGED <<store, used, now>> => \A i \in S!Ids : S!Kept(i)'  BY DEF S!SessionInv, S!Kept
\* Rows that are no longer valid may go at any time.
<1>8. ASSUME NEW i \in S!Ids, ~S!Valid(i), store'[i] \in {store[i], S!Gone}, used'[i] = used[i], now' = now PROVE S!Kept(i)'
  <2>1. S!Kept(i) /\ store[i].expires <= now  BY <1>2, <1>8 DEF S!SessionInv, S!Valid, S!Ids, S!NoId
  <2> QED  BY <1>2, <1>8, <2>1 DEF S!Kept, S!Gone
<1>9. S!Purged \in [S!Ids -> Rows]  BY <1>1, <1>5 DEF S!Purged
<1>10. ASSUME store' = S!Purged, UNCHANGED <<used, now>> PROVE \A i \in S!Ids : S!Kept(i)'
  <2> SUFFICES ASSUME NEW i \in S!Ids PROVE S!Kept(i)'  OBVIOUS
  <2>1. CASE S!Valid(i)  BY <1>10, <2>1 DEF S!Purged, S!SessionInv, S!Kept
  <2>2. CASE ~S!Valid(i)  BY <1>8, <1>10, <2>2 DEF S!Purged
  <2> QED  BY <2>1, <2>2
<1>11. CASE S!Tick
  <2>1. now' = now + 1 /\ now < MaxClock /\ UNCHANGED <<store, made, used, jar, tabs, net, failures, guesses, guessed>>  BY <1>11 DEF S!Tick
  <2>2. now' \in 1 .. MaxClock  BY <1>1, <2>1
  <2>3. guesses \subseteq [n : 1 .. guessed, at : 1 .. now']
    <3>1. guesses \subseteq [n : 1 .. guessed, at : 1 .. now]  BY DEF S!SessionInv, S!TypeOK
    <3>2. 1 .. now \subseteq 1 .. now'  BY <1>1, <2>1
    <3> QED  BY <3>1, <3>2
  <2>4. S!TypeOK'  BY <2>1, <2>2, <2>3 DEF S!SessionInv, S!TypeOK
  <2>5. \A i \in S!Ids : S!Kept(i)'
    <3> SUFFICES ASSUME NEW i \in S!Ids PROVE S!Kept(i)'  OBVIOUS
    <3>1. S!Kept(i)  BY DEF S!SessionInv
    <3> QED  BY <1>2, <2>1, <3>1 DEF S!Kept
  <2>6. S!Remembered'
    <3> SUFFICES ASSUME NEW g \in guesses, g.at + Window > now + 1 PROVE g \in failures
      BY <2>1 DEF S!Remembered, S!InWindow
    <3>1. g.at \in Nat /\ g.at <= now  BY DEF S!SessionInv, S!TypeOK
    <3>2. g \in S!InWindow(guesses, now)  BY <1>1, <3>1 DEF S!InWindow
    <3> QED  BY <3>2 DEF S!SessionInv, S!Remembered
  <2> QED  BY <2>1, <2>4, <2>5, <2>6 DEF S!SessionInv, S!GuessesAreBounded, S!InWindow
<1>12. CASE S!Purge
  BY <1>1, <1>6, <1>9, <1>10, <1>12 DEF S!Purge
\* After a restart, or a right password, the limiter starts anew.
<1>13. ASSUME failures' = {}, guesses' = {}, UNCHANGED <<guessed, now>>, store' \in [S!Ids -> Rows], made' \in 0 .. MaxSessions, used' \in [S!Ids -> 0 .. MaxClock],
              jar' = jar, tabs' = tabs, net' \subseteq S!Requests, \A i \in S!Ids : S!Kept(i)'
       PROVE  S!SessionInv'
  <2>1. S!TypeOK'  BY <1>13 DEF S!SessionInv, S!TypeOK
  <2>2. \A t : S!InWindow(guesses, t)' = {}  BY <1>13 DEF S!InWindow
  <2>3. \A t : S!InWindow(guesses', t) = {}  BY <1>13 DEF S!InWindow
  <2>4. S!Remembered' /\ IsFiniteSet(guesses')  BY <1>13, FS_EmptySet DEF S!Remembered, S!InWindow
  <2>5. S!GuessesAreBounded'  BY SessionCounts, <2>3, FS_EmptySet DEF S!GuessesAreBounded
  <2> QED  BY SessionCounts, <1>13, <2>1, <2>4, <2>5 DEF S!SessionInv
<1>14. CASE S!Restart
  BY <1>1, <1>9, <1>10, <1>13, <1>14 DEF S!Restart
<1>15. ASSUME NEW r \in net, S!ServeCall(r) PROVE S!SessionInv'
  <2>1. store' = S!Verified(r.id) /\ UNCHANGED <<made, jar, tabs, failures, guesses, guessed, now>> /\ net' \subseteq S!Requests
    BY <1>4, <1>15 DEF S!ServeCall
  <2>2. CASE r.id = S!NoId
    <3>1. store' = store /\ used' = used  BY <1>15, <2>1, <2>2 DEF S!ServeCall, S!Verified, S!Valid
    <3> QED  BY <1>1, <1>6, <1>7, <2>1, <3>1
  <2>3. CASE r.id # S!NoId
    <3> DEFINE k == r.id
    <3>1. k \in S!Ids /\ k # S!NoId  BY <1>3, <2>3
    <3>2. CASE S!Valid(k)
      <4>1. used' = [used EXCEPT ![k] = now]  BY <1>15, <3>2 DEF S!ServeCall
      <4>2. store' = IF now - store[k].seen > TouchAfter THEN [store EXCEPT ![k] = S!Slid(store[k])] ELSE store
        BY <2>1, <3>1, <3>2 DEF S!Verified
      <4>3. store' \in [S!Ids -> Rows] /\ used' \in [S!Ids -> 0 .. MaxClock]
        BY <1>1, <1>5, <3>1, <4>1, <4>2
      <4>4. S!Kept(k)'
        <5>1. S!Kept(k) /\ store[k].expires > now  BY <3>1, <3>2 DEF S!SessionInv, S!Valid
        <5>2. used'[k] = now  BY <1>1, <3>1, <4>1
        <5>3. CASE now - store[k].seen > TouchAfter
          <6>1. store'[k] = [expires |-> now + TTL, seen |-> now]  BY <1>1, <3>1, <4>2, <5>3 DEF S!Slid
          <6> QED  BY <1>2, <2>1, <3>1, <5>2, <6>1 DEF S!Kept
        <5>4. CASE ~(now - store[k].seen > TouchAfter)
          <6>1. store'[k] = store[k]  BY <4>2, <5>4
          <6> QED  BY <1>2, <2>1, <3>1, <5>1, <5>2, <5>4, <6>1 DEF S!Kept
        <5> QED  BY <5>3, <5>4
      <4>5. \A i \in S!Ids : S!Kept(i)'
        <5> SUFFICES ASSUME NEW i \in S!Ids, i # k PROVE S!Kept(i)'  BY <4>4
        <5>1. store'[i] = store[i] /\ used'[i] = used[i]  BY <1>1, <4>1, <4>2
        <5> QED  BY <2>1, <5>1 DEF S!SessionInv, S!Kept
      <4> QED  BY <1>1, <1>6, <2>1, <4>3, <4>5
    <3>3. CASE ~S!Valid(k)
      <4>1. store' = [store EXCEPT ![k] = S!Gone] /\ used' = used  BY <1>15, <2>1, <3>1, <3>3 DEF S!ServeCall, S!Verified
      <4>2. store' \in [S!Ids -> Rows]  BY <1>1, <1>5, <4>1
      <4>3. \A i \in S!Ids : S!Kept(i)'
        <5> SUFFICES ASSUME NEW i \in S!Ids PROVE S!Kept(i)'  OBVIOUS
        <5>1. CASE i = k  BY <1>1, <1>8, <2>1, <3>3, <4>1, <5>1
        <5>2. CASE i # k
          <6>1. store'[i] = store[i] /\ used'[i] = used[i]  BY <1>1, <4>1, <5>2
          <6> QED  BY <2>1, <6>1 DEF S!SessionInv, S!Kept
        <5> QED  BY <5>1, <5>2
      <4> QED  BY <1>1, <1>6, <2>1, <4>1, <4>2, <4>3
    <3> QED  BY <3>2, <3>3
  <2> QED  BY <2>2, <2>3
<1>16. ASSUME NEW r \in net, S!ServeLogin(r) PROVE S!SessionInv'
  <2>1. UNCHANGED <<jar, tabs, now>>  BY <1>16 DEF S!ServeLogin
  <2>2. failures \subseteq guesses /\ guesses \subseteq [n : 1 .. guessed, at : 1 .. now] /\ guessed \in 0 .. MaxGuesses /\ IsFiniteSet(guesses)
    BY SessionCounts DEF S!SessionInv, S!TypeOK
  <2>3. S!Recent \subseteq failures  BY DEF S!Recent, S!InWindow
  <2>4. S!InWindow(guesses, now) \subseteq S!Recent  BY DEF S!SessionInv, S!Remembered, S!Recent, S!InWindow
  <2>5. CASE S!Blocked(S!Recent)
    <3>1. failures' = S!Recent /\ UNCHANGED <<store, made, used, guesses, guessed>> /\ net' \subseteq S!Requests
      BY <1>4, <1>16, <2>5 DEF S!ServeLogin
    <3>2. S!TypeOK'  BY <2>1, <2>3, <3>1 DEF S!SessionInv, S!TypeOK
    <3>3. S!Remembered'  BY <2>1, <2>4, <3>1 DEF S!Remembered, S!InWindow
    <3> QED  BY <1>7, <2>1, <3>1, <3>2, <3>3 DEF S!SessionInv, S!GuessesAreBounded, S!InWindow
  <2>6. CASE ~S!Blocked(S!Recent) /\ ~r.right
    <3>1. /\ guessed < MaxGuesses /\ guessed' = guessed + 1 /\ failures' = S!Recent \cup {S!Guess} /\ guesses' = guesses \cup {S!Guess}
          /\ UNCHANGED <<store, made, used>> /\ net' \subseteq S!Requests
      BY <1>4, <1>16, <2>6 DEF S!ServeLogin
    <3>2. S!Guess.n = guessed + 1 /\ S!Guess.at = now /\ S!Guess \in [n : 1 .. guessed', at : 1 .. now]
      BY <1>1, <2>2, <3>1 DEF S!Guess
    <3>3. guessed' \in 0 .. MaxGuesses /\ guesses' \subseteq [n : 1 .. guessed', at : 1 .. now']
      <4>1. guessed' \in 0 .. MaxGuesses /\ 1 .. guessed \subseteq 1 .. guessed'  BY <2>2, <3>1
      <4> QED  BY <2>1, <2>2, <3>1, <3>2, <4>1
    <3>4. S!TypeOK'  BY <2>1, <2>2, <2>3, <3>1, <3>3 DEF S!SessionInv, S!TypeOK
    <3>5. S!Remembered'  BY <2>1, <2>4, <3>1 DEF S!Remembered, S!InWindow
    <3>6. S!GuessesAreBounded'
      <4> SUFFICES ASSUME NEW t \in 1 .. MaxClock PROVE Cardinality(S!InWindow(guesses', t)) <= MaxFailures  BY SessionCounts DEF S!GuessesAreBounded
      <4>1. Cardinality(S!InWindow(guesses, t)) <= MaxFailures  BY SessionCounts DEF S!SessionInv, S!GuessesAreBounded
      <4>2. IsFiniteSet(guesses)  BY <2>2
      <4>3. CASE t < now
        <5>1. S!InWindow(guesses', t) = S!InWindow(guesses, t)  BY <1>1, <3>1, <3>2, <4>3 DEF S!InWindow
        <5> QED  BY <4>1, <5>1
      <4>4. CASE t >= now
        <5>1. S!InWindow(guesses', t) \subseteq S!Recent \cup {S!Guess}
          <6> SUFFICES ASSUME NEW g \in guesses, g.at <= t, g.at + Window > t PROVE g \in S!Recent  BY <3>1 DEF S!InWindow
          <6>1. g.at \in Nat /\ g.at <= now  BY <1>1, <2>2
          <6>2. g \in S!InWindow(guesses, now)  BY <1>1, <4>4, <6>1 DEF S!InWindow
          <6> QED  BY <2>4, <6>2
        <5>2. IsFiniteSet(S!Recent) /\ Cardinality(S!Recent) \in Nat  BY <2>2, <2>3, FS_Subset, FS_CardinalityType
        <5>3. Cardinality(S!Recent) < MaxFailures  BY SessionCounts, <2>6, <5>2 DEF S!Blocked
        <5>4. S!Guess \notin S!Recent
          <6>1. \A g \in guesses : g.n \in 1 .. guessed  BY <2>2
          <6> QED  BY <2>2, <2>3, <3>2, <6>1
        <5>5. IsFiniteSet(S!Recent \cup {S!Guess}) /\ Cardinality(S!Recent \cup {S!Guess}) = Cardinality(S!Recent) + 1
          BY <5>2, <5>4, FS_AddElement
        <5>6. Cardinality(S!InWindow(guesses', t)) <= Cardinality(S!Recent) + 1 /\ Cardinality(S!InWindow(guesses', t)) \in Nat
          BY <5>1, <5>5, FS_Subset, FS_CardinalityType
        <5> QED  BY <5>2, <5>3, <5>6
      <4> QED  BY <1>1, <4>3, <4>4
    <3>7. IsFiniteSet(guesses')  BY <2>2, <3>1, FS_AddElement
    <3> QED  BY SessionCounts, <1>7, <2>1, <3>1, <3>4, <3>5, <3>6, <3>7 DEF S!SessionInv
  <2>7. CASE ~S!Blocked(S!Recent) /\ r.right
    <3> DEFINE k == made + 1
    <3>1. /\ made < MaxSessions /\ made' = k /\ store' = [store EXCEPT ![k] = [expires |-> now + TTL, seen |-> now]]
          /\ used' = [used EXCEPT ![k] = now] /\ net' = (net \ {r}) \cup {[r EXCEPT !.at = "ok", !.id = k]}
          /\ failures' = {} /\ guesses' = {} /\ UNCHANGED guessed
      BY <1>16, <2>7 DEF S!ServeLogin
    <3>2. k \in S!Ids /\ k \in 0 .. MaxSessions  BY <1>1, <3>1 DEF S!Ids
    <3>3. [expires |-> now + TTL, seen |-> now] \in Rows  BY <1>1
    <3>4. store' \in [S!Ids -> Rows] /\ used' \in [S!Ids -> 0 .. MaxClock]  BY <1>1, <3>1, <3>2, <3>3
    <3>5. [r EXCEPT !.at = "ok", !.id = k] \in S!Requests  BY <1>1, <3>2 DEF S!Requests
    <3>6. net' \subseteq S!Requests  BY <1>1, <3>1, <3>5
    <3>7. \A i \in S!Ids : S!Kept(i)'
      <4> SUFFICES ASSUME NEW i \in S!Ids PROVE S!Kept(i)'  OBVIOUS
      <4>1. CASE i = k
        <5>1. store'[i] = [expires |-> now + TTL, seen |-> now] /\ used'[i] = now  BY <1>1, <3>1, <4>1
        <5> QED  BY <1>2, <2>1, <5>1 DEF S!Kept
      <4>2. CASE i # k
        <5>1. store'[i] = store[i] /\ used'[i] = used[i]  BY <1>1, <3>1, <4>2
        <5> QED  BY <2>1, <5>1 DEF S!SessionInv, S!Kept
      <4> QED  BY <4>1, <4>2
    <3> QED  BY <1>13, <2>1, <3>1, <3>2, <3>4, <3>6, <3>7
  <2> QED  BY <1>3, <2>5, <2>6, <2>7
<1>17. ASSUME NEW r \in net, S!ServeLogout(r) PROVE S!SessionInv'
  <2>1. UNCHANGED <<made, jar, tabs, failures, guesses, guessed, now>> /\ net' \subseteq S!Requests  BY <1>4, <1>17 DEF S!ServeLogout
  <2>2. CASE r.id = S!NoId  BY <1>1, <1>6, <1>7, <1>17, <2>1, <2>2 DEF S!ServeLogout
  <2>3. CASE r.id # S!NoId
    <3>1. r.id \in S!Ids /\ store' = [store EXCEPT ![r.id] = S!Gone] /\ used' = [used EXCEPT ![r.id] = 0]
      BY <1>3, <1>17, <2>3 DEF S!ServeLogout
    <3>2. store' \in [S!Ids -> Rows] /\ used' \in [S!Ids -> 0 .. MaxClock]  BY <1>1, <1>5, <3>1
    <3>3. ASSUME NEW i \in S!Ids PROVE S!Kept(i)'
      <4>1. CASE i = r.id  BY <1>1, <3>1, <4>1 DEF S!Kept, S!Gone
      <4>2. CASE i # r.id
        <5>1. store'[i] = store[i] /\ used'[i] = used[i]  BY <1>1, <3>1, <4>2
        <5> QED  BY <2>1, <5>1 DEF S!SessionInv, S!Kept
      <4> QED  BY <4>1, <4>2
    <3> QED  BY <1>1, <1>6, <2>1, <3>2, <3>3
  <2> QED  BY <2>2, <2>3
\* The browser
<1>18. ASSUME NEW r \in net, S!Lands(r) PROVE S!SessionInv'
  <2>1. UNCHANGED <<store, made, used, failures, guesses, guessed, now>> /\ net' \subseteq S!Requests  BY <1>1, <1>18 DEF S!Lands
  <2>2. jar' \in [id : S!Ids \cup {S!NoId}, until : 0 .. MaxClock + TTL]
    BY <1>1, <1>3, <1>18 DEF S!Lands, S!Jar, S!Empty
  <2>3. S!Screen(r) \in {"asking", "login", "app"}  BY <1>1, <1>3 DEF S!Screen
  <2>4. tabs' \in [Tabs -> {"asking", "login", "app"}]  BY <1>1, <1>18, <2>3 DEF S!Lands
  <2> QED  BY <1>1, <1>6, <1>7, <2>1, <2>2, <2>4
<1>19. ASSUME NEW r \in net, S!Lost(r) PROVE S!SessionInv'
  <2>1. UNCHANGED <<store, made, used, jar, failures, guesses, guessed, now>> /\ net' \subseteq S!Requests  BY <1>1, <1>19 DEF S!Lost
  <2>2. tabs' \in [Tabs -> {"asking", "login", "app"}]  BY <1>1, <1>3, <1>19 DEF S!Lost
  <2> QED  BY <1>1, <1>6, <1>7, <2>1, <2>2
<1>20. S!Cookie \in S!Ids \cup {S!NoId}  BY <1>1 DEF S!Cookie
<1>21. ASSUME NEW tab \in Tabs, NEW kind \in {"session", "call", "login", "logout"}, NEW right \in BOOLEAN, S!Send(tab, kind, right) PROVE net' \subseteq S!Requests
  <2>1. [tab |-> tab, kind |-> kind, id |-> S!Cookie, right |-> right, at |-> "sent"] \in S!Requests  BY <1>20 DEF S!Requests
  <2> QED  BY <1>1, <1>21, <2>1 DEF S!Send
<1>22. ASSUME NEW t \in Tabs, S!Load(t) \/ S!Call(t) \/ S!Logout(t) \/ \E right \in BOOLEAN : S!Login(t, right) PROVE S!SessionInv'
  <2>1. UNCHANGED <<store, made, used, jar, failures, guesses, guessed, now>>  BY <1>22 DEF S!Load, S!Call, S!Logout, S!Login
  <2>2. net' \subseteq S!Requests  BY <1>21, <1>22 DEF S!Load, S!Call, S!Logout, S!Login
  <2>3. tabs' \in [Tabs -> {"asking", "login", "app"}]  BY <1>1, <1>22 DEF S!Load, S!Call, S!Logout, S!Login
  <2> QED  BY <1>1, <1>6, <1>7, <2>1, <2>2, <2>3
<1>23. CASE UNCHANGED S!vars
  <2>1. S!TypeOK'  BY <1>23 DEF S!vars, S!SessionInv, S!TypeOK
  <2> QED  BY <1>7, <1>23, <2>1 DEF S!vars, S!SessionInv, S!Remembered, S!GuessesAreBounded, S!InWindow
<1> QED  BY <1>11, <1>12, <1>14, <1>15, <1>16, <1>17, <1>18, <1>19, <1>22, <1>23 DEF S!Next

\* A session in use does not run out, and wrong passwords are bounded in every window (session.ts).
THEOREM SessionsLast == S!Spec => [](S!TypeOK /\ S!UseKeepsIt /\ S!GuessesAreBounded)
<1>1. S!SessionInv => S!TypeOK /\ S!UseKeepsIt /\ S!GuessesAreBounded  BY SessionGood DEF S!SessionInv
<1> QED  BY SessionInit, SessionNext, <1>1, PTL DEF S!Spec

-----------------------------------------------------------------------------
(* The sum *)

\* In the sum every component behaves as its own specification says.
THEOREM EachIsItsOwn == GateSpec => Spec /\ C!Spec /\ P!Spec /\ L!Spec /\ W!Spec /\ S!Spec
<1>1. GateInit => Init /\ C!Init /\ P!Init /\ L!Init /\ W!Init /\ S!Init  BY DEF GateInit
<1>2. [GateNext]_gateAll => /\ [Next]_gateVars /\ [C!Next]_(C!cardVars) /\ [P!Next]_(P!pushVars)
                            /\ [L!Next]_(L!loginVars) /\ [W!Next]_(W!vars) /\ [S!Next]_(S!vars)
  <2> SUFFICES ASSUME [GateNext]_gateAll
               PROVE  /\ [Next]_gateVars /\ [C!Next]_(C!cardVars) /\ [P!Next]_(P!pushVars)
                      /\ [L!Next]_(L!loginVars) /\ [W!Next]_(W!vars) /\ [S!Next]_(S!vars)
    OBVIOUS
  <2>1. [Next]_gateVars  BY DEF GateNext, gateAll
  <2>2. [C!Next]_(C!cardVars)  BY DEF GateNext, gateAll, cardVars, C!cardVars
  <2>3. [P!Next]_(P!pushVars)  BY DEF GateNext, gateAll, pushVars, P!pushVars
  <2>4. [L!Next]_(L!loginVars)  BY DEF GateNext, gateAll, loginVars, L!loginVars
  <2>5. [W!Next]_(W!vars)  BY DEF GateNext, gateAll, webVars, W!vars, W!ghosts
  <2>6. [S!Next]_(S!vars)  BY DEF GateNext, gateAll, sessionVars, S!vars
  <2> QED  BY <2>1, <2>2, <2>3, <2>4, <2>5, <2>6
<1> QED  BY <1>1, <1>2, PTL DEF GateSpec, Spec, C!Spec, P!Spec, L!Spec, W!Spec, S!Spec

\* Every component keeps to its types.
THEOREM GateKeepsToTypes == GateSpec => []Types
<1>1. TypeOK /\ C!TypeOK /\ P!TypeOK /\ L!TypeOK /\ W!TypeOK /\ S!TypeOK => Types  BY DEF Types
<1> QED
  BY EachIsItsOwn, ApprovalsKeepToTypes, CardsAreAnsweredOnce, PushesAreApproved, TokensAreRefreshedOnce, PagesWereShown, SessionsLast, <1>1, PTL

\* A permission is used for what it was given for, and once.
THEOREM PermissionsAreUsedAsGiven == GateSpec => []UsedAsGiven
<1>1. /\ C!DangerousIsOnce /\ C!OneAnswerUnlessRevived /\ P!OnePushPerClick /\ P!RiskyIsAsked /\ L!RefreshedOnce
      => UsedAsGiven
  BY DEF UsedAsGiven
<1> QED  BY EachIsItsOwn, CardsAreAnsweredOnce, PushesAreApproved, TokensAreRefreshedOnce, <1>1, PTL

\* Nothing passes unasked but what the person could know would.
THEOREM OnlyTheMeantPasses == GateSpec => PassesAreMeant
<1>1. ASSUME [GateNext]_gateAll, [PassesOnWhatWasSeen]_gateVars, [P!SilenceIsNo]_(P!pushVars), [W!FlaggedTurnAsks]_(W!vars), W!OpenedWasShown'
      PROVE  [/\ part = "approvals" => PassesOnWhatWasSeen
              /\ part = "push" => P!SilenceIsNo
              /\ part = "web" => W!FlaggedTurnAsks /\ W!OpenedWasShown']_gateAll
  <2>1. CASE part = "approvals"
    <3>1. UNCHANGED gateVars => UNCHANGED gateAll  BY <1>1, <2>1 DEF GateNext, gateAll
    <3> QED  BY <1>1, <2>1, <3>1
  <2>2. CASE part = "push"
    <3>1. UNCHANGED P!pushVars => UNCHANGED gateAll  BY <1>1, <2>2 DEF GateNext, gateAll, pushVars, P!pushVars
    <3> QED  BY <1>1, <2>2, <3>1
  <2>3. CASE part = "web"
    <3>1. UNCHANGED W!vars => UNCHANGED gateAll  BY <1>1, <2>3 DEF GateNext, gateAll, webVars, W!vars, W!ghosts
    <3> QED  BY <1>1, <2>3, <3>1
  <2> QED  BY <2>1, <2>2, <2>3
<1>2. GateSpec => [][GateNext]_gateAll  BY DEF GateSpec
<1> QED  BY EachIsItsOwn, PassesWereSeen, PushSilenceIsNo, SuspicionAsks, PagesWereShown, <1>1, <1>2, PTL DEF PassesAreMeant

\* A person in use of the app stays logged in, and guesses at the password are bounded.
THEOREM GateSessionsHold == GateSpec => []SessionsHold
<1>1. S!UseKeepsIt /\ S!GuessesAreBounded => SessionsHold  BY DEF SessionsHold
<1> QED  BY EachIsItsOwn, SessionsLast, <1>1, PTL
==============================================================================
