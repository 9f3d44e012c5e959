----------------------------- MODULE GitHubLogin -----------------------------
(***************************************************************************)
(* The GitHub account of the app (cli/src/github.ts): one stored           *)
(* credential, connected by the device flow or a personal access token,    *)
(* refreshed before it runs out, and handed to git-proxy, which remembers  *)
(* it for up to five minutes (git-proxy/src/orchestrator.ts).  Every call  *)
(* to GitHub is a window in which the others may run.                      *)
(***************************************************************************)
EXTENDS Naturals, FiniteSets

CONSTANTS Grants,      \* access and refresh tokens, as GitHub hands them out: bound
          Owners       \* workspaces git-proxy asks for

VARIABLES stored,      \* the vault row: none, or a credential
          spent,       \* grants whose refresh token was used: GitHub takes it once
          given,       \* grants GitHub handed out
          expiring,    \* grants whose access token is about to run out
          device,      \* the device flow that is open: "none", "open"
          asked,       \* calls to GitHub on their way
          proxyCache,  \* what git-proxy remembers, by owner
          refused,     \* history: a refresh token was refused by GitHub
          cutOff,      \* history: the user disconnected, and has not begun to connect since
          lost         \* history: grants that left GitHub and never reached the vault

loginVars == <<stored, spent, given, expiring, device, asked, proxyCache, refused, cutOff, lost>>

NoGrant == "none"
Credential == [grant : Grants, kind : {"app", "pat"}]
NotConnected == [grant |-> NoGrant, kind |-> "none"]
Ops == {"poll", "login", "pat", "refresh"}

TypeOK ==
  /\ stored \in Credential \cup {NotConnected}
  /\ spent \subseteq given /\ given \subseteq Grants /\ expiring \subseteq given
  /\ device \in {"none", "open"}
  /\ asked \subseteq [op : Ops, grant : Grants \cup {NoGrant}]
  /\ proxyCache \in [Owners -> Grants \cup {NoGrant}]
  /\ refused \in BOOLEAN /\ cutOff \in BOOLEAN /\ lost \subseteq given

Init ==
  /\ stored = NotConnected /\ spent = {} /\ given = {} /\ expiring = {} /\ device = "none" /\ asked = {}
  /\ proxyCache = [o \in Owners |-> NoGrant] /\ refused = FALSE /\ cutOff = FALSE /\ lost = {}

Call(op, g) == asked' = asked \cup {[op |-> op, grant |-> g]}
Done(c) == asked' = asked \ {c}
Fresh(g) == g \in Grants \ given /\ given' = given \cup {g}

\* startDeviceFlow, pollDeviceFlow: a poll reads the code, GitHub answers, the name is fetched, the credential stored.
StartDevice == device = "none" /\ device' = "open" /\ cutOff' = FALSE /\ UNCHANGED <<stored, spent, given, expiring, asked, proxyCache, refused, lost>>
Poll == device = "open" /\ Call("poll", NoGrant) /\ UNCHANGED <<stored, spent, given, expiring, device, proxyCache, refused, cutOff, lost>>
Authorized(c, g) ==
  /\ c \in asked /\ c.op = "poll" /\ Fresh(g) /\ device' = "none"
  /\ asked' = (asked \ {c}) \cup {[op |-> "login", grant |-> g]}
  /\ UNCHANGED <<stored, spent, expiring, proxyCache, refused, cutOff, lost>>
\* Pending leaves the flow open; denied and expired close it.
NotAuthorized(c) == /\ c \in asked /\ c.op = "poll" /\ Done(c) /\ device' \in {device, "none"}
                    /\ UNCHANGED <<stored, spent, given, expiring, proxyCache, refused, cutOff, lost>>
LoggedIn(c) == /\ c \in asked /\ c.op = "login" /\ Done(c) /\ stored' = [grant |-> c.grant, kind |-> "app"]
               /\ UNCHANGED <<spent, given, expiring, device, proxyCache, refused, cutOff, lost>>

\* setPat: the token is tried out, then stored.
EnterPat(g) == Fresh(g) /\ Call("pat", g) /\ cutOff' = FALSE /\ UNCHANGED <<stored, spent, expiring, device, proxyCache, refused, lost>>
PatGood(c) == /\ c \in asked /\ c.op = "pat" /\ Done(c) /\ stored' = [grant |-> c.grant, kind |-> "pat"]
              /\ UNCHANGED <<spent, given, expiring, device, proxyCache, refused, cutOff, lost>>
PatBad(c) == c \in asked /\ c.op = "pat" /\ Done(c) /\ UNCHANGED <<stored, spent, given, expiring, device, proxyCache, refused, cutOff, lost>>

\* Time passes: the access token of an app runs out.
RunsOut == /\ stored.kind = "app" /\ stored.grant \notin expiring /\ expiring' = expiring \cup {stored.grant}
           /\ UNCHANGED <<stored, spent, given, device, asked, proxyCache, refused, cutOff, lost>>

\* Mutant: each caller refreshes for itself.
MayRefreshEach == Cardinality({c \in asked : c.op = "refresh"}) < 2
MayRefresh == \A c \in asked : c.op # "refresh"
\* The refresh token goes out; GitHub takes it at the first use and refuses it at the second.
Refresh ==
  /\ stored.kind = "app" /\ stored.grant \in expiring /\ MayRefresh
  /\ \E g \in Grants \ given :
       /\ IF stored.grant \in spent
          THEN refused' = TRUE /\ UNCHANGED <<given, asked>>
          ELSE refused' = refused /\ given' = given \cup {g} /\ Call("refresh", g)
       /\ spent' = spent \cup {stored.grant}
  /\ UNCHANGED <<stored, expiring, device, proxyCache, cutOff, lost>>
Refreshed(c) == /\ c \in asked /\ c.op = "refresh" /\ Done(c) /\ stored' = [grant |-> c.grant, kind |-> "app"]
                /\ UNCHANGED <<spent, given, expiring, device, proxyCache, refused, cutOff, lost>>
\* The answer is lost: the vault keeps a refresh token that is spent.
RefreshLost(c) == /\ c \in asked /\ c.op = "refresh" /\ Done(c) /\ lost' = lost \cup {c.grant}
                  /\ UNCHANGED <<stored, spent, given, expiring, device, proxyCache, refused, cutOff>>

\* GET /internal/github-token, remembered by the proxy; a token that has to be refreshed is awaited.
ProxyAsks(o) ==
  /\ proxyCache[o] = NoGrant /\ stored # NotConnected /\ stored.grant \notin expiring
  /\ proxyCache' = [proxyCache EXCEPT ![o] = stored.grant]
  /\ UNCHANGED <<stored, spent, given, expiring, device, asked, refused, cutOff, lost>>
ProxyForgets(o) == /\ proxyCache[o] # NoGrant /\ proxyCache' = [proxyCache EXCEPT ![o] = NoGrant]
                   /\ UNCHANGED <<stored, spent, given, expiring, device, asked, refused, cutOff, lost>>

\* DELETE /api/github
Disconnect == /\ (stored # NotConnected \/ device # "none")
              /\ stored' = NotConnected /\ device' = "none" /\ cutOff' = TRUE
              /\ UNCHANGED <<spent, given, expiring, asked, proxyCache, refused, lost>>

\* The calls on their way go, the stored credential stays; so may an access token that never reached the vault.
Restart == /\ (asked # {} \/ device # "none") /\ asked' = {} /\ device' = "none"
           /\ lost' = lost \cup ({c.grant : c \in asked} \ {NoGrant})
           /\ UNCHANGED <<stored, spent, given, expiring, proxyCache, refused, cutOff>>

Next ==
  \/ StartDevice \/ Poll \/ RunsOut \/ Refresh \/ Disconnect \/ Restart
  \/ \E c \in asked : NotAuthorized(c) \/ LoggedIn(c) \/ PatGood(c) \/ PatBad(c) \/ Refreshed(c) \/ RefreshLost(c) \/ \E g \in Grants : Authorized(c, g)
  \/ \E g \in Grants : EnterPat(g)
  \/ \E o \in Owners : ProxyAsks(o) \/ ProxyForgets(o)

Spec == Init /\ [][Next]_loginVars

-----------------------------------------------------------------------------
\* However many turns and pushes need the token at once, a refresh token goes out once: GitHub refuses one
\* only when an answer was lost on its way to the vault.
RefreshedOnce == refused => lost # {}

\* Who disconnects stays disconnected until somebody connects again.  A poll, a token on trial or a refresh
\* that was on its way stores its credential all the same.
DisconnectHolds == cutOff => stored = NotConnected
\* A grant on its way to the vault is in no other call, in no vault yet, and its refresh token is not used.
OnTheirWay ==
  /\ \A c \in asked : IF c.op = "poll" THEN c.grant = NoGrant ELSE c.grant \in given \ spent /\ c.grant # stored.grant
  /\ \A c, d \in asked : c.op # "poll" /\ d.op # "poll" /\ c.grant = d.grant => c = d
\* The vault holds a used refresh token only while the answer with its successor is awaited, or was lost.
Spare == stored.kind = "app" /\ stored.grant \in spent => lost # {} \/ \E c \in asked : c.op = "refresh"
LoginInv == TypeOK /\ RefreshedOnce /\ OnTheirWay /\ Spare /\ (stored.kind # "none" => stored.grant \in given)

=============================================================================
