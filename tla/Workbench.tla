------------------------------ MODULE Workbench ------------------------------
(* What the agents and the person work on: the repository in source control,   *)
(* the files of the workspace, web pages, the browser, connectors.  They share *)
(* no state: a behaviour moves at most one component, `part`, and the others   *)
(* stay as they start.  Views puts the screens beside them.                    *)
EXTENDS SourceControl

CONSTANTS
  Ignored, Tools, Puts, Texts, MaxPoints, MaxFaults, MaxRollbacks, FileClicks,          \* Workspace of Files
  Convs, Hosts, Addresses, CacheSize, TTL, MaxRedirects, MaxBytes, MaxClock, MaxReads,  \* WebPages for Convs
  Talks, Watched, Forms, Elsewhere, MaxSessions, Launches, MaxInputs,                   \* Browser for Talks, of Hosts
  Custom, Urls, Conns, Requests, Callers, MaxRestarts                                   \* Connectors, with MaxEdits

\* The bounds of source control.
ASSUME EditsAssumption == MaxEdits \in Nat /\ MaxAgent \in Nat /\ MaxClicks \in Nat
\* The bounds of the workspace's files.
ASSUME FilesAssumption ==
  Texts \in Nat /\ MaxPoints \in Nat /\ MaxFaults \in Nat /\ MaxRollbacks \in Nat /\ FileClicks \in Nat

\* The sizes and the bounds of the cache of web pages.
ASSUME PagesAssumption == CacheSize \in Nat /\ TTL \in Nat /\ MaxClock \in Nat /\ MaxReads \in Nat
\* The live view is of conversations, forms and redirects are of hosts; no host is the empty page, no process the absent one.
ASSUME BrowserAssumption ==
  Watched \subseteq Talks /\ Forms \cup Elsewhere \subseteq Hosts /\ "blank" \notin Hosts /\ 0 \notin Launches /\ MaxInputs \in Nat
\* The connector of the operator is none of Settings', nor is its connection one of theirs or the absent one.
ASSUME ConnectorsAssumption == "env" \notin Custom /\ 0 \notin Conns /\ 99 \notin Conns

VARIABLES
  part,  \* the component that moves
  disk, temps, writes, points, preview, draft, opening, pins, used, swept, fileFaults, rollbacks, fileClicks,
  cache, clock, reads, last, copies, count,
  tab, chromium, call, panel, jsPolicy, approvals, everGranted, inputs, elements, lostAnswers, crossedClaims, mistaken,
  row, token, given, conns, connections, tools, failed, request, caller, kept, rowEdits, faults, busyNames, reopened

W == INSTANCE Workspace WITH staged <- temps, calls <- writes, faults <- fileFaults, clicks <- fileClicks,
       MaxEdits <- Texts, MaxClicks <- FileClicks
P == INSTANCE WebPages WITH Chats <- Convs
R == INSTANCE Browser WITH Convs <- Talks
C == INSTANCE Connectors WITH edits <- rowEdits, crossed <- busyNames

workspaceVars == <<disk, temps, writes, points, preview, draft, opening, pins, used, swept, fileFaults, rollbacks, fileClicks>>
pageVars == <<cache, clock, reads, last, copies, count>>
browserVars == <<tab, chromium, call, panel, jsPolicy, approvals, everGranted, inputs, elements, lostAnswers,
                 crossedClaims, mistaken>>
connectorVars == <<row, token, given, conns, connections, tools, failed, request, caller, kept, rowEdits, faults,
                   busyNames, reopened>>
workbenchAll == <<part, vars, workspaceVars, pageVars, browserVars, connectorVars>>

WorkbenchInit == Init /\ W!Init /\ P!Init /\ R!Init /\ C!Init

WorkbenchNext ==
  /\ UNCHANGED part
  /\ IF part = "scm" THEN Next ELSE UNCHANGED vars
  /\ IF part = "workspace" THEN W!Next ELSE UNCHANGED workspaceVars
  /\ IF part = "pages" THEN P!Next ELSE UNCHANGED pageVars
  /\ IF part = "browser" THEN R!Next ELSE UNCHANGED browserVars
  /\ IF part = "connectors" THEN C!Next ELSE UNCHANGED connectorVars

WorkbenchSpec == WorkbenchInit /\ [][WorkbenchNext]_workbenchAll

\* A click in the explorer or in source control changes what it shows, although agents write meanwhile: a hunk
\* is the one on the screen, discarding keeps what is staged, conflict markers reach the index only by the agent
\* or a stale list, a rollback gives the files of its checkpoint back even if it fails halfway, and half a file
\* is seen only where a rollback swept a stage of it away (workspace-write.ts, checkpoints.ts,
\* github-routes.ts, SourceControlPanel.tsx).
FilesAreMeant ==
  [][/\ part = "scm" => HunkIsTheShownOne /\ DiscardKeepsStaged /\ MarkersAreStale'
     /\ part = "workspace" => W!HalfFileWasSwept /\ W!RollbackIsExact]_workbenchAll

\* What is open outside is owned and acts only as it was told: no Chromium and no connection without an entry
\* for it, a navigation starts only at an approved host, a click hits the element that was listed unless an answer
\* was lost, a page's parts are of one copy of the host asked (sessionPool.ts, browserAct.ts, policy.ts,
\* connector-routes.ts, mcp-client.ts, http.ts, tools.ts).
OutsideIsOwned ==
  [][/\ part = "browser" => /\ R!NavigationsWereAllowed
                            /\ R!PoolIsLive' /\ R!StraysAreCrossed' /\ R!ActsOnWhatWasListed'
     /\ part = "connectors" => C!SettingsApply' /\ C!NothingLeftOpen'
     /\ part = "pages" => P!PartsAgree /\ P!BodyIsOfHost']_workbenchAll
=============================================================================
