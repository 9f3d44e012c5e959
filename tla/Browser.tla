-------------------------------- MODULE Browser --------------------------------
(***************************************************************************)
(* The agent's browser (playwright-mcp): one Chromium per conversation     *)
(* (sessionPool.ts), the tools browser_open, browser_act, browser_observe  *)
(* and browser_close, and the person at the live view (liveview.ts).  Tool *)
(* calls of a conversation follow each other, but a call whose answer was  *)
(* lost goes on, the person acts at any time, and every call is broken by  *)
(* awaits: the address check, the launch, the navigation.                  *)
(*                                                                         *)
(* Abstracted: what a page says; patterns of hosts; the check of addresses *)
(* behind a name; frames of the live view.  A page of a host has two       *)
(* elements, which come and go.                                            *)
(***************************************************************************)
EXTENDS Naturals, FiniteSets, Sequences

CONSTANTS Convs, Watched,     \* conversations; those with a live view open
          Hosts, Forms,       \* sites; those whose pages have elements to act on
          Elsewhere,          \* sites others redirect to
          MaxSessions,        \* BROWSER_MAX_SESSIONS
          Launches, MaxInputs   \* bounds: Chromium processes; calls, changes of settings and answers lost

VARIABLES tab,        \* BrowserSessionPool.sessions: the process of a conversation's session
          chromium,   \* the processes
          call,       \* the tool call of a conversation, and the one whose answer was lost
          panel,      \* "Open browser" in the live view, between its awaits
          jsPolicy,   \* Settings: whether scripts may run
          approvals,  \* hosts the user granted the agent
          everGranted, \* history: of `approvals`
          inputs,       \* bound
          elements,   \* the last list of elements the agent got: by number
          lostAnswers, crossedClaims, \* history: whether an answer was lost; conversations claimed twice at once
          mistaken    \* history: an action hit an element the agent did not mean

browserVars == <<tab, chromium, call, panel, jsPolicy, approvals, everGranted, inputs, elements, lostAnswers, crossedClaims, mistaken>>

Actors == {"agent", "late"}
Blank == "blank"
None == 0
Refs == 1..2
Nobody == <<"none", 0>>
ElementsOf(h) == IF h \in Forms THEN {<<h, n>> : n \in Refs} ELSE {}
AllElements == UNION {ElementsOf(h) : h \in Hosts}
\* newSessionState, contextOptionsFor
Gone == [st |-> "none", conv |-> "none", js |-> TRUE, policyJs |-> TRUE, limited |-> FALSE, grant |-> {}, override |-> FALSE, approved |-> {},
         asked |-> Blank, page |-> Blank, shown |-> {}, tags |-> [e \in AllElements |-> 0]]
NoToolCall == [at |-> "none", host |-> Blank, js |-> TRUE, grant |-> {}, b |-> None]
NoPanel == [at |-> "none", host |-> Blank, js |-> TRUE, limited |-> FALSE, grant |-> {}, b |-> None]

TypeOK ==
  /\ tab \in [Convs -> Launches \cup {None}]
  /\ \A b \in Launches : chromium[b].st \in {"none", "launching", "open", "closed"} /\ chromium[b].tags \in [AllElements -> 0..2]
  /\ \A k \in Convs \X Actors : call[k].at \in {"none", "check", "restart", "launch", "go", "observe"}
  /\ \A c \in Convs : panel[c].at \in {"none", "check", "launch", "go"}
  /\ jsPolicy \in BOOLEAN /\ approvals \subseteq Hosts /\ approvals \subseteq everGranted /\ inputs \in 0..MaxInputs
  /\ elements \in [Convs -> [Refs -> AllElements \cup {Nobody}]] /\ lostAnswers \in BOOLEAN /\ crossedClaims \subseteq Convs
  /\ mistaken \in BOOLEAN

Init ==
  /\ tab = [c \in Convs |-> None] /\ chromium = [b \in Launches |-> Gone]
  /\ call = [k \in Convs \X Actors |-> NoToolCall] /\ panel = [c \in Convs |-> NoPanel]
  /\ jsPolicy = TRUE /\ approvals = {} /\ everGranted = {} /\ inputs = 0
  /\ elements = [c \in Convs |-> [r \in Refs |-> Nobody]] /\ lostAnswers = FALSE /\ crossedClaims = {} /\ mistaken = FALSE

Open(c) == tab[c] # None
Session(c) == chromium[tab[c]]
Set(k, r) == call' = [call EXCEPT ![k] = r]
End(k) == Set(k, NoToolCall)
settings == <<jsPolicy, approvals, everGranted>>
Input == inputs < MaxInputs /\ inputs' = inputs + 1
record == <<elements, lostAnswers, mistaken>>

-----------------------------------------------------------------------------
(* The pool *)

\* claim and the launch: neither counted nor found by other claims until Chromium is there.
Launching(c) == {b \in Launches : chromium[b].st = "launching" /\ chromium[b].conv = c}
Sessions == Cardinality({c \in Convs : Open(c)})
Launch(c, b, js, limited, grant, override) ==
  /\ ~Open(c) /\ Sessions < MaxSessions
  /\ chromium[b].st = "none"
  /\ chromium' = [chromium EXCEPT ![b] = [Gone EXCEPT !.st = "launching", !.conv = c, !.js = js, !.policyJs = js, !.limited = limited,
                                                 !.grant = grant, !.override = override]]
  /\ crossedClaims' = IF Launching(c) = {} THEN crossedClaims ELSE crossedClaims \cup {c}
\* The session as the pool keeps it from now on, whatever it kept before.
Enter(c, b, chrome) == tab' = [tab EXCEPT ![c] = b] /\ chromium' = [chrome EXCEPT ![b].st = "open"]
\* Mutant: the session leaves the pool when Chromium has gone.
CloseLate(c) == tab' = tab /\ chromium' = [chromium EXCEPT ![tab[c]] = [Gone EXCEPT !.st = "closed", !.policyJs = chromium[tab[c]].policyJs]]
\* Mutant: the session leaves the pool, Chromium stays.
CloseForgets(c) == tab' = [tab EXCEPT ![c] = None] /\ UNCHANGED chromium
Close(c) == tab' = [tab EXCEPT ![c] = None] /\ chromium' = [chromium EXCEPT ![tab[c]] = [Gone EXCEPT !.st = "closed", !.policyJs = chromium[tab[c]].policyJs]]

\* sweepIdle: a session nobody touched for a while, with a call in it or not.
sweepIdle(c) == Open(c) /\ Close(c) /\ UNCHANGED <<call, panel, settings, record, crossedClaims, inputs>>

-----------------------------------------------------------------------------
(* Pages *)

\* checkNavigation: the hosts granted and approved, once the orchestrator has sent the grants.  Mutant: an empty list of hosts limits nothing.
CheckSomeList(s, h) == s.limited /\ s.grant # {} => h \in s.grant \cup s.approved
checkNavigation(s, h) == s.limited => h \in s.grant \cup s.approved
\* The document an address leads to: the handler of context.route sees the address asked for, never where its server
\* redirects.  Nothing of a new document carries a number yet.
Leads(h) == {h} \cup Elsewhere
Load(s, h, to) == [s EXCEPT !.asked = h, !.page = to, !.shown = ElementsOf(to), !.tags = [e \in AllElements |-> 0]]
\* A link the page or the person follows: checked in the browser.
Follow(b, h, to) ==
  /\ chromium[b].st = "open" /\ chromium[b].page # Blank /\ checkNavigation(chromium[b], h)
  /\ chromium' = [chromium EXCEPT ![b] = Load(@, h, to)]
  /\ UNCHANGED <<tab, call, panel, settings, record, crossedClaims, inputs>>
\* Elements appear and vanish.
Change(b, e) ==
  /\ chromium[b].st = "open" /\ e \in ElementsOf(chromium[b].page)
  /\ chromium' = [chromium EXCEPT ![b].shown = (@ \cup {e}) \ (@ \cap {e})]
  /\ UNCHANGED <<tab, call, panel, settings, record, crossedClaims, inputs>>

\* collectPageCapture: the old numbers go, the visible elements are numbered in their order.
Place(s, e) == Cardinality({f \in s.shown : f[2] <= e[2]})
\* Mutant: elements that are not shown keep their number.
NumberShown(s) == [e \in AllElements |-> IF e \in s.shown THEN Place(s, e) ELSE s.tags[e]]
Number(s) == [e \in AllElements |-> IF e \in s.shown THEN Place(s, e) ELSE 0]
Listed(s) == [r \in Refs |-> IF \E e \in s.shown : Place(s, e) = r THEN CHOOSE e \in s.shown : Place(s, e) = r ELSE Nobody]
\* locator.first()
Hit(s, r) == LET found == {e \in AllElements : s.tags[e] = r}
             IN IF found = {} THEN Nobody ELSE CHOOSE e \in found : \A f \in found : e[2] <= f[2]

-----------------------------------------------------------------------------
(* The tools *)

\* applyCallPolicy: the policy of this call replaces the one before; scripts run as the context was made.
applyCallPolicy(s, js, grant) == [s EXCEPT !.limited = TRUE, !.grant = grant, !.override = TRUE, !.policyJs = js]
TakePolicy(c) == [chromium EXCEPT ![tab[c]] = applyCallPolicy(@, jsPolicy, approvals)]

\* browser_open of a host that is granted, or whose card was just approved: both count as the approval of this session.
AskOpen(c, h) ==
  /\ Input /\ call[<<c, "agent">>].at = "none"
  /\ Set(<<c, "agent">>, [NoToolCall EXCEPT !.at = "check", !.host = h, !.js = jsPolicy, !.grant = approvals, !.b = tab[c]])
  /\ UNCHANGED <<tab, chromium, panel, settings, record, crossedClaims>>
\* claim: the session that is there, or a new one.
Joined(s, k) == [applyCallPolicy(s, call[k].js, call[k].grant) EXCEPT !.approved = @ \cup {call[k].host}]
Claim(k) ==
  \/ /\ Open(k[1]) /\ chromium' = [chromium EXCEPT ![tab[k[1]]] = Joined(@, k)]
     /\ Set(k, [call[k] EXCEPT !.at = "go", !.b = tab[k[1]]]) /\ UNCHANGED <<tab, crossedClaims>>
  \/ \E b \in Launches : /\ Launch(k[1], b, call[k].js, TRUE, call[k].grant, TRUE)
                         /\ Set(k, [call[k] EXCEPT !.at = "launch", !.b = b]) /\ UNCHANGED tab
  \/ ~Open(k[1]) /\ Sessions >= MaxSessions /\ End(k) /\ UNCHANGED <<tab, chromium, crossedClaims>>
\* The address is good.  If the session it found before was under another policy for scripts, whichever is there is closed.
Checked(k) ==
  /\ call[k].at = "check"
  /\ IF call[k].b # None /\ chromium[call[k].b].policyJs # call[k].js /\ Open(k[1])
     THEN Close(k[1]) /\ Set(k, [call[k] EXCEPT !.at = "restart"]) /\ UNCHANGED crossedClaims
     ELSE Claim(k)
  /\ UNCHANGED <<panel, settings, record, inputs>>
Restarted(k) == call[k].at = "restart" /\ Claim(k) /\ UNCHANGED <<panel, settings, record, inputs>>
Launched(k) ==
  /\ call[k].at = "launch" /\ Set(k, [call[k] EXCEPT !.at = "go"])
  /\ Enter(k[1], call[k].b, [chromium EXCEPT ![call[k].b] = Joined(@, k)])
  /\ UNCHANGED <<panel, settings, record, crossedClaims, inputs>>
\* page.goto on the page the call holds, in the pool or not any more.
Went(k, to) ==
  /\ call[k].at = "go"
  /\ IF chromium[call[k].b].st = "open" /\ checkNavigation(chromium[call[k].b], call[k].host)
     THEN /\ chromium' = [chromium EXCEPT ![call[k].b] = Load(@, call[k].host, to)] /\ Set(k, [call[k] EXCEPT !.at = "observe"])
     ELSE End(k) /\ UNCHANGED chromium
  /\ UNCHANGED <<tab, panel, settings, record, crossedClaims, inputs>>

\* browser_act and browser_observe work in the session that is open.  An action names the number of an element.
AskAct(c, r) ==
  /\ Input /\ call[<<c, "agent">>].at = "none" /\ Open(c) /\ elements[c][r] # Nobody
  /\ LET s == Session(c)
         hit == Hit(s, r)
     IN /\ chromium' = TakePolicy(c)
        /\ mistaken' = (mistaken \/ hit \notin {Nobody, elements[c][r]})
        /\ IF hit # Nobody
           THEN Set(<<c, "agent">>, [NoToolCall EXCEPT !.at = "observe", !.b = tab[c], !.grant = approvals])
           ELSE UNCHANGED call
  /\ UNCHANGED <<tab, panel, settings, elements, lostAnswers, crossedClaims>>
AskObserve(c) ==
  /\ Input /\ call[<<c, "agent">>].at = "none" /\ Open(c)
  /\ Set(<<c, "agent">>, [NoToolCall EXCEPT !.at = "observe", !.b = tab[c], !.grant = approvals])
  /\ chromium' = TakePolicy(c)
  /\ UNCHANGED <<tab, panel, settings, record, crossedClaims>>
\* The action named "navigate".
AskNavigate(c, h) ==
  /\ Input /\ call[<<c, "agent">>].at = "none" /\ Open(c)
  /\ chromium' = TakePolicy(c)
  /\ IF h \in approvals \cup Session(c).approved
     THEN Set(<<c, "agent">>, [NoToolCall EXCEPT !.at = "go", !.host = h, !.b = tab[c], !.grant = approvals])
     ELSE UNCHANGED call
  /\ UNCHANGED <<tab, panel, settings, record, crossedClaims>>
\* observePage, and the answer: the agent knows the page by it.
Observed(k) ==
  /\ call[k].at = "observe" /\ End(k)
  /\ LET s == chromium[call[k].b]
     IN IF s.st # "open" THEN UNCHANGED <<chromium, elements>>
        ELSE /\ chromium' = [chromium EXCEPT ![call[k].b].tags = Number(s)]
             /\ elements' = IF k[2] = "agent" THEN [elements EXCEPT ![k[1]] = Listed(s)] ELSE elements
  /\ UNCHANGED <<tab, panel, settings, lostAnswers, crossedClaims, mistaken, inputs>>
AskClose(c) == /\ Input /\ call[<<c, "agent">>].at = "none" /\ Open(c) /\ Close(c)
               /\ UNCHANGED <<call, panel, settings, record, crossedClaims>>

\* The tool client gives up, or the connection breaks: the agent goes on, and so does the call.
LoseAnswer(c) ==
  /\ Input /\ call[<<c, "agent">>].at # "none" /\ call[<<c, "late">>].at = "none"
  /\ call' = [call EXCEPT ![<<c, "late">>] = call[<<c, "agent">>], ![<<c, "agent">>] = NoToolCall] /\ lostAnswers' = TRUE
  /\ UNCHANGED <<tab, chromium, panel, settings, elements, mistaken, crossedClaims>>

-----------------------------------------------------------------------------
(* The person *)

\* openSession: one at a time per conversation.  The policy is read before the await: the one the tools set for the
\* session that is there, or that of the environment, which limits nothing; what the user approved does not count.
PanelPolicy(c) == IF Open(c) /\ Session(c).override
                  THEN [NoPanel EXCEPT !.js = Session(c).policyJs, !.limited = TRUE, !.grant = Session(c).grant] ELSE NoPanel
PanelOpen(c, h) ==
  /\ Input /\ panel[c].at = "none" /\ (h # Blank /\ PanelPolicy(c).limited => h \in PanelPolicy(c).grant)
  /\ panel' = [panel EXCEPT ![c] = [PanelPolicy(c) EXCEPT !.at = "check", !.host = h]]
  /\ UNCHANGED <<tab, chromium, call, settings, record, crossedClaims>>
\* claim with that policy, which only a new session takes, and takes without an override for the next time.
PanelClaim(c) ==
  /\ panel[c].at = "check"
  /\ \/ /\ Open(c) /\ panel' = [panel EXCEPT ![c].at = "go", ![c].b = tab[c]] /\ UNCHANGED <<chromium, crossedClaims>>
     \/ \E b \in Launches : /\ Launch(c, b, panel[c].js, panel[c].limited, panel[c].grant, FALSE)
                            /\ panel' = [panel EXCEPT ![c].at = "launch", ![c].b = b]
     \/ ~Open(c) /\ Sessions >= MaxSessions /\ panel' = [panel EXCEPT ![c] = NoPanel] /\ UNCHANGED <<chromium, crossedClaims>>
  /\ UNCHANGED <<tab, call, settings, record, inputs>>
PanelLaunched(c) ==
  /\ panel[c].at = "launch" /\ panel' = [panel EXCEPT ![c].at = "go"] /\ Enter(c, panel[c].b, chromium)
  /\ UNCHANGED <<call, settings, record, crossedClaims, inputs>>
PanelWent(c, to) ==
  /\ panel[c].at = "go" /\ panel' = [panel EXCEPT ![c] = NoPanel]
  /\ LET s == chromium[panel[c].b] IN
     IF panel[c].host # Blank /\ s.st = "open" /\ checkNavigation(s, panel[c].host)
     THEN chromium' = [chromium EXCEPT ![panel[c].b] = Load(@, panel[c].host, to)] ELSE UNCHANGED chromium
  /\ UNCHANGED <<tab, call, settings, record, crossedClaims, inputs>>
PanelClose(c) == Open(c) /\ Close(c) /\ UNCHANGED <<call, panel, settings, record, crossedClaims, inputs>>

\* Settings and grants, while calls are under way.
SetJs == Input /\ jsPolicy' = ~jsPolicy /\ UNCHANGED <<tab, chromium, call, panel, approvals, everGranted, record, crossedClaims>>
Grant(h) == /\ Input /\ h \notin approvals /\ approvals' = approvals \cup {h} /\ everGranted' = everGranted \cup {h}
            /\ UNCHANGED <<tab, chromium, call, panel, jsPolicy, record, crossedClaims>>
Revoke(h) == /\ Input /\ h \in approvals /\ approvals' = approvals \ {h} /\ UNCHANGED <<tab, chromium, call, panel, jsPolicy, everGranted, record, crossedClaims>>

Next ==
  \/ \E c \in Convs :
       \/ sweepIdle(c) \/ AskObserve(c) \/ AskClose(c) \/ LoseAnswer(c)
       \/ \E h \in Hosts : AskOpen(c, h) \/ AskNavigate(c, h)
       \/ \E r \in Refs : AskAct(c, r)
  \/ \E k \in Convs \X Actors : Checked(k) \/ Restarted(k) \/ Launched(k) \/ Observed(k) \/ \E to \in Leads(call[k].host) : Went(k, to)
  \/ \E c \in Watched : PanelClaim(c) \/ PanelLaunched(c) \/ PanelClose(c)
                       \/ (\E h \in Hosts \cup {Blank} : PanelOpen(c, h)) \/ \E to \in Leads(panel[c].host) : PanelWent(c, to)
  \/ \E b \in Launches : (\E h \in Hosts : \E to \in Leads(h) : Follow(b, h, to)) \/ (\E e \in AllElements : Change(b, e))
  \/ SetJs \/ \E h \in Hosts : Grant(h) \/ Revoke(h)

Spec == Init /\ [][Next]_browserVars

-----------------------------------------------------------------------------
\* A Chromium that runs is the session of its conversation or is about to be: one that nobody can reach or close
\* is left behind only where two claims of one conversation crossed (the tool's and the person's, or a late call's).
StraysAreCrossed ==
  \A b \in Launches : chromium[b].st = "open" => tab[chromium[b].conv] = b \/ chromium[b].conv \in crossedClaims

\* What the pool hands out runs, and belongs to the conversation.
PoolIsLive == \A c \in Convs : Open(c) => Session(c).st = "open" /\ Session(c).conv = c

\* A number the agent took from the last list it got never hits another element, however the page changed: pages do
\* not write such numbers themselves.  Only an answer that was lost, whose call numbered the page anew, can make it.
ActsOnWhatWasListed == mistaken => lostAnswers

\* Under the orchestrator's grants, a navigation starts only at a host the user once granted, or approved for this
\* very session: approvals do not outlive their session.  Where its server redirects is not looked at: the page may
\* be of any host.
NavigationsWereAllowed ==
  \A b \in Launches : chromium[b].limited /\ chromium'[b].asked \notin {chromium[b].asked, Blank}
    => chromium'[b].asked \in everGranted \cup chromium[b].approved

\* A conversation has one browser.  The claims of the agent and of the person do not see each other's launch.
OneBrowser == \A b1, b2 \in Launches :
                chromium[b1].st = "open" /\ chromium[b2].st = "open" /\ chromium[b1].conv = chromium[b2].conv => b1 = b2

\* Numbers of an earlier observation never hit.
StaleNeverHits == ~mistaken
=============================================================================
