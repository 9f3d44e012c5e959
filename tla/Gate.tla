-------------------------------- MODULE Gate --------------------------------
(* Where a person is asked: the approval gate, its cards in the browser, the   *)
(* pushes, the connection to GitHub, the addresses a turn may open, the login. *)
(* They share no state: a behaviour moves one component, `part`, and the       *)
(* others stay as they start.                                                  *)
EXTENDS Approvals

CONSTANTS
  Rooms, Asked, MaxPolls, MaxAnswers, MaxMoves,                      \* Cards
  Owners, Pushes, Tokens, MaxClicks, MaxFaults,                      \* GitPush
  Grants,                                                            \* GitHubLogin
  Hosts, Pages, MaxMessages, MaxTurns, WebCalls,                     \* Web
  Tabs, TTL, TouchAfter, MaxFailures, Window, MaxClock, MaxSessions, MaxInFlight, MaxGuesses  \* Session

ASSUME CardsAssumption == Asked \in Nat /\ MaxPolls \in Nat /\ MaxAnswers \in Nat /\ MaxMoves \in Nat
ASSUME PushAssumption == IsFiniteSet(Pushes) /\ MaxClicks \in Nat /\ MaxFaults \in Nat
\* "none" stands for no grant.
ASSUME LoginAssumption == "none" \notin Grants
ASSUME WebAssumption == MaxMessages \in Nat /\ MaxTurns \in Nat /\ WebCalls \in Nat
\* A use is written down more often than a session runs out (session.ts:16-17).
ASSUME SessionAssumption ==
  /\ TTL \in Nat /\ TouchAfter \in Nat /\ TouchAfter < TTL /\ MaxFailures \in Nat /\ Window \in Nat
  /\ MaxClock \in Nat \ {0} /\ MaxSessions \in Nat /\ MaxGuesses \in Nat

VARIABLES
  part,  \* the component that moves
  card, cardGranted, list, room, covered, picker, read, polls, answers, revived, answered, moves,
  live, minted, wired, wiring, box, expected, clicked, standing, push, faults,
  stored, spent, given, expiring, device, asked, proxyCache, refused, cutOff, lost,
  messages, turn, trusted, flagged, call, webGranted, said, listed, typed, found, linked, opened, ran, webTurns, webCalls,
  store, made, used, jar, tabs, net, failures, guesses, guessed, now

C == INSTANCE Cards WITH granted <- cardGranted
P == INSTANCE GitPush
L == INSTANCE GitHubLogin
W == INSTANCE Web WITH granted <- webGranted, turns <- webTurns, calls <- webCalls, MaxCalls <- WebCalls
S == INSTANCE Session

cardVars == <<card, cardGranted, list, room, covered, picker, read, polls, answers, revived, answered, moves>>
pushVars == <<live, minted, wired, wiring, box, expected, clicked, standing, push, faults>>
loginVars == <<stored, spent, given, expiring, device, asked, proxyCache, refused, cutOff, lost>>
webVars == <<messages, turn, trusted, flagged, call, webGranted, said, listed, typed, found, linked, opened, ran, webTurns, webCalls>>
sessionVars == <<store, made, used, jar, tabs, net, failures, guesses, guessed, now>>
gateAll == <<part, gateVars, cardVars, pushVars, loginVars, webVars, sessionVars>>

\* Where a component may start in several states, it does so only in the behaviours that move it.
GateInit ==
  /\ part \in {"approvals", "cards", "push", "login", "web", "session"}
  /\ Init /\ C!Init /\ P!Init /\ L!Init /\ W!Init /\ S!Init
  /\ part # "approvals" => file = CHOOSE p \in Policies : TRUE
  /\ part # "cards" => room = CHOOSE r \in Rooms : TRUE
  /\ part # "web" => trusted

GateNext ==
  /\ UNCHANGED part
  /\ IF part = "approvals" THEN Next ELSE UNCHANGED gateVars
  /\ IF part = "cards" THEN C!Next ELSE UNCHANGED cardVars
  /\ IF part = "push" THEN P!Next ELSE UNCHANGED pushVars
  /\ IF part = "login" THEN L!Next ELSE UNCHANGED loginVars
  /\ IF part = "web" THEN W!Next ELSE UNCHANGED webVars
  /\ IF part = "session" THEN S!Next ELSE UNCHANGED sessionVars

GateSpec == GateInit /\ [][GateNext]_gateAll

\* Every component keeps to its types.
Types ==
  /\ part = "approvals" => TypeOK
  /\ part = "cards" => C!TypeOK
  /\ part = "push" => P!TypeOK
  /\ part = "login" => L!TypeOK
  /\ part = "web" => W!TypeOK
  /\ part = "session" => S!TypeOK

\* A permission is used for what it was given for and once: a card is answered once and a dangerous one only
\* for once, a click lets one push through, a push known to delete or rewrite is asked about, a token is refreshed once
\* (ApprovalModal.tsx, useApprovals.ts, github-routes.ts, git-proxy server.ts, github.ts).
UsedAsGiven ==
  /\ part = "cards" => C!DangerousIsOnce /\ C!OneAnswerUnlessRevived
  /\ part = "push" => P!OnePushPerClick /\ P!RiskyIsAsked
  /\ part = "login" => L!RefreshedOnce

\* Nothing passes unasked but what the code takes for allowed: a call each part of which was granted with the words
\* the person saw, a push under a click or a grant of theirs or a person's answer, an address that stood in a source of
\* the chat -- which a summary, another agent's words and a redirect named by a page are too (see
\* Web!ModelTextIsNoSource, Web!RedirectIsAsked) -- and, in a turn in which a page looked like an injection, only
\* looking at the page and the chat's own preview (web-approval.ts, command-policy.ts, git-proxy server.ts, llm-loop.ts, provenance.ts).
PassesAreMeant ==
  [][/\ part = "approvals" => PassesOnWhatWasSeen
     /\ part = "push" => P!SilenceIsNo
     /\ part = "web" => W!FlaggedTurnAsks /\ W!OpenedWasShown']_gateAll

\* A person in use of the app stays logged in, and guesses at the password are bounded (session.ts).
SessionsHold == part = "session" => S!UseKeepsIt /\ S!GuessesAreBounded
=============================================================================
