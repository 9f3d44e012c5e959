-------------------------------- MODULE Session --------------------------------
(***************************************************************************)
(* Logging in (cli/src/session.ts) and the client's part of it (App.tsx,   *)
(* Login.tsx, api.ts): a random id in a cookie, its row in the database,   *)
(* a limit on failed attempts, and a login screen on any 401.              *)
(*                                                                         *)
(* One browser with one cookie jar and several tabs.  Requests carry the   *)
(* cookie of the moment they are sent; answers may overtake each other.    *)
(***************************************************************************)
EXTENDS Naturals, FiniteSets

CONSTANTS Tabs,
          TTL, TouchAfter,       \* DEFAULT_TTL_MS, TOUCH_AFTER_MS, in ticks
          MaxFailures, Window,   \* LoginLimiter
          MaxClock, MaxSessions, MaxInFlight, MaxGuesses  \* bounds

\* TouchAfter < TTL and MaxFailures > 0 (session.ts:16-17, 105).

Ids == 1 .. MaxSessions
NoId == 0

VARIABLES store,    \* id -> its row: expires and last seen
          made,     \* sessions created
          used,     \* history: when a session was last accepted, 0 once it is logged out
          jar,      \* the browser's cookie
          tabs,     \* "asking", "login" or "app"
          net,      \* requests under way, and answers
          failures, \* wrong passwords of the client lately, by number and time
          guesses,  \* history: wrong passwords looked at, since a right one or a restart
          guessed,
          now
vars == <<store, made, used, jar, tabs, net, failures, guesses, guessed, now>>

Gone == [expires |-> 0, seen |-> 0]
Empty == [id |-> NoId, until |-> 0]
Cookie == IF jar.until > now THEN jar.id ELSE NoId

Requests == [tab : Tabs, kind : {"session", "call", "login", "logout"}, id : Ids \cup {NoId}, right : BOOLEAN, at : {"sent", "ok", "refused"}]

TypeOK ==
    /\ store \in [Ids -> [expires : 0 .. MaxClock + TTL, seen : 0 .. MaxClock]]
    /\ made \in 0 .. MaxSessions /\ used \in [Ids -> 0 .. MaxClock] /\ now \in 1 .. MaxClock
    /\ jar \in [id : Ids \cup {NoId}, until : 0 .. MaxClock + TTL]
    /\ tabs \in [Tabs -> {"asking", "login", "app"}]
    /\ net \subseteq Requests
    /\ failures \subseteq guesses /\ guesses \subseteq [n : 1 .. guessed, at : 1 .. now] /\ guessed \in 0 .. MaxGuesses

Init ==
    /\ store = [i \in Ids |-> Gone] /\ made = 0 /\ used = [i \in Ids |-> 0] /\ jar = Empty
    /\ tabs = [t \in Tabs |-> "login"] /\ net = {} /\ failures = {} /\ guesses = {} /\ guessed = 0 /\ now = 1

-----------------------------------------------------------------------------
(* The server *)

Valid(id) == id # NoId /\ store[id].expires > now
\* verify(): slides the expiry, not on every request.  (SeenOnly, SlidOn: plausible bugs.)
SeenOnly(row) == [row EXCEPT !.seen = now]
SlidOn(row) == [expires |-> row.expires + TTL, seen |-> now]
Slid(row) == [expires |-> now + TTL, seen |-> now]
Verified(id) ==
    IF id = NoId THEN store
    ELSE IF ~Valid(id) THEN [store EXCEPT ![id] = Gone]
    ELSE IF now - store[id].seen > TouchAfter THEN [store EXCEPT ![id] = Slid(@)]
    ELSE store

\* LoginLimiter.  (OneMore: a plausible bug.)
InWindow(list, t) == {g \in list : g.at <= t /\ g.at + Window > t}
Recent == InWindow(failures, now)
OneMore(list) == Cardinality(list) > MaxFailures
Blocked(list) == Cardinality(list) >= MaxFailures
Guess == [n |-> guessed + 1, at |-> now]

Answer(r, at) == net' = (net \ {r}) \cup {[r EXCEPT !.at = at]}

\* The middleware, and GET /session.
ServeCall(r) ==
    /\ r.at = "sent" /\ r.kind \in {"call", "session"}
    /\ store' = Verified(r.id)
    /\ IF Valid(r.id) THEN used' = [used EXCEPT ![r.id] = now] /\ Answer(r, "ok")
       ELSE Answer(r, "refused") /\ UNCHANGED used
    /\ UNCHANGED <<made, jar, tabs, failures, guesses, guessed, now>>

\* POST /login
ServeLogin(r) ==
    /\ r.at = "sent" /\ r.kind = "login"
    /\ IF Blocked(Recent) THEN Answer(r, "refused") /\ failures' = Recent /\ UNCHANGED <<store, made, used, guesses, guessed>>
       ELSE IF ~r.right
         THEN /\ guessed < MaxGuesses /\ guessed' = guessed + 1
              /\ Answer(r, "refused") /\ failures' = Recent \cup {Guess} /\ guesses' = guesses \cup {Guess}
              /\ UNCHANGED <<store, made, used>>
       ELSE /\ made < MaxSessions /\ made' = made + 1 /\ store' = [store EXCEPT ![made'] = [expires |-> now + TTL, seen |-> now]]
            /\ used' = [used EXCEPT ![made'] = now]
            /\ net' = (net \ {r}) \cup {[r EXCEPT !.at = "ok", !.id = made']}
            /\ failures' = {} /\ guesses' = {} /\ UNCHANGED guessed
    /\ UNCHANGED <<jar, tabs, now>>

\* POST /logout
ServeLogout(r) ==
    /\ r.at = "sent" /\ r.kind = "logout" /\ Answer(r, "ok")
    /\ store' = IF r.id = NoId THEN store ELSE [store EXCEPT ![r.id] = Gone]
    /\ used' = IF r.id = NoId THEN used ELSE [used EXCEPT ![r.id] = 0]
    /\ UNCHANGED <<made, jar, tabs, failures, guesses, guessed, now>>

\* purgeExpired, every six hours and at start; the limiter knows nothing after a restart.
Purged == [i \in Ids |-> IF Valid(i) THEN store[i] ELSE Gone]
Purge == store # Purged /\ store' = Purged /\ UNCHANGED <<made, used, jar, tabs, net, failures, guesses, guessed, now>>
Restart ==
    /\ failures # {} /\ store' = Purged /\ failures' = {} /\ guesses' = {}
    /\ net' = {r \in net : r.at # "sent"}
    /\ UNCHANGED <<made, used, jar, tabs, guessed, now>>

-----------------------------------------------------------------------------
(* The browser *)

Send(tab, kind, right) ==
    /\ Cardinality(net) < MaxInFlight
    /\ net' = net \cup {[tab |-> tab, kind |-> kind, id |-> Cookie, right |-> right, at |-> "sent"]}

\* A load or reload of the page asks who is logged in.
Load(tab) ==
    /\ Send(tab, "session", TRUE) /\ tabs' = [tabs EXCEPT ![tab] = "asking"]
    /\ UNCHANGED <<store, made, used, jar, failures, guesses, guessed, now>>
\* submit(): one attempt at a time.
Login(tab, right) ==
    /\ tabs[tab] = "login" /\ \A r \in net : r.tab = tab => r.kind # "login"
    /\ Send(tab, "login", right) /\ UNCHANGED <<store, made, used, jar, tabs, failures, guesses, guessed, now>>
Call(tab) ==
    /\ tabs[tab] = "app" /\ Send(tab, "call", TRUE)
    /\ UNCHANGED <<store, made, used, jar, tabs, failures, guesses, guessed, now>>
Logout(tab) ==
    /\ tabs[tab] = "app" /\ Send(tab, "logout", TRUE)
    /\ UNCHANGED <<store, made, used, jar, tabs, failures, guesses, guessed, now>>

\* The cookie is kept as long as the login's answer said.
Jar(r) == CASE r.kind = "login" /\ r.at = "ok" -> [id |-> r.id, until |-> now + TTL]
            [] r.kind = "logout" -> Empty
            [] OTHER -> jar
\* What the tab shows after an answer: any 401 is the login screen.
Screen(r) == CASE r.kind \in {"session", "login"} -> IF r.at = "ok" THEN "app" ELSE "login"
               [] r.kind = "logout" -> "login"
               [] OTHER -> IF r.at = "refused" THEN "login" ELSE tabs[r.tab]
Lands(r) ==
    /\ r.at # "sent" /\ net' = net \ {r}
    /\ jar' = Jar(r) /\ tabs' = [tabs EXCEPT ![r.tab] = Screen(r)]
    /\ UNCHANGED <<store, made, used, failures, guesses, guessed, now>>
\* No answer: a log-out is taken for done all the same.
Lost(r) ==
    /\ net' = net \ {r}
    /\ tabs' = IF r.kind \in {"logout", "session"} THEN [tabs EXCEPT ![r.tab] = "login"] ELSE tabs
    /\ UNCHANGED <<store, made, used, jar, failures, guesses, guessed, now>>

Tick == now < MaxClock /\ now' = now + 1 /\ UNCHANGED <<store, made, used, jar, tabs, net, failures, guesses, guessed>>

Next ==
    \/ Tick \/ Purge \/ Restart
    \/ \E r \in net : ServeCall(r) \/ ServeLogin(r) \/ ServeLogout(r) \/ Lands(r) \/ Lost(r)
    \/ \E t \in Tabs : Load(t) \/ Call(t) \/ Logout(t) \/ \E right \in BOOLEAN : Login(t, right)

Spec == Init /\ [][Next]_vars

-----------------------------------------------------------------------------
(***************************************************************************)
(* A session that was used is good for the whole time it is meant for,     *)
(* less the time its use is not written down, unless it was logged out     *)
(* (session.ts:17, 67-83).                                                 *)
(***************************************************************************)
UseKeepsIt == \A i \in Ids : used[i] # 0 /\ now - used[i] < TTL - TouchAfter => Valid(i)

(***************************************************************************)
(* In any window no more wrong passwords are looked at than the limit,     *)
(* unless a right one came between or the app restarted (session.ts:103-107). *)
(***************************************************************************)
GuessesAreBounded ==
    \A t \in 1 .. MaxClock : Cardinality(InWindow(guesses, t)) <= MaxFailures

\* What a row is worth: as much as the last use gave it, less the time its use is not written down.
Kept(i) ==
    /\ store[i].expires # 0 => store[i].expires = store[i].seen + TTL
    /\ used[i] # 0 => used[i] <= now /\ (used[i] + TTL <= store[i].expires + TouchAfter \/ used[i] + TTL <= now + TouchAfter)
\* The limiter has not forgotten a wrong password that still counts.
Remembered == InWindow(guesses, now) \subseteq failures
SessionInv ==
    TypeOK /\ (\A i \in Ids : Kept(i)) /\ Remembered /\ GuessesAreBounded /\ IsFiniteSet(guesses)

(***************************************************************************)
(* A session that is used does not end for the browser either: it does,    *)
(* for the cookie's age is counted from the log-in (session.ts:17 "sliding *)
(* expiry").                                                               *)
(***************************************************************************)
BrowserKeepsIt ==
    \A i \in Ids : jar.id = i /\ used[i] # 0 /\ now - used[i] < TTL - TouchAfter => jar.until > now
\* Who logged out is out: not if the request was lost.
LoggedOutIsOut == [][\A r \in net : r.kind = "logout" /\ r \notin net' /\ r.id # NoId => ~Valid(r.id)]_vars
\* The login screen is for those who are not logged in: a late 401 of the session before shows it too.
ScreenHasReason == [][\A t \in Tabs : tabs[t] = "app" /\ tabs'[t] = "login" => ~Valid(jar.id) \/ \E r \in net \ net' : r.kind = "logout"]_vars
=============================================================================
