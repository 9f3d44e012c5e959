-------------------------------- MODULE Views --------------------------------
(* What the person looks at in the browser -- a chat, the lists, the live      *)
(* view, the settings -- beside what is worked on (Workbench).  They share no  *)
(* state: a behaviour moves one component, `part`, and the others stay as they *)
(* start.                                                                      *)
EXTENDS Workbench

CONSTANTS
  MaxMoves, MaxPieces, MaxThoughts, MaxCalls, MaxFetches, MaxPipe,            \* Screen of Convs, Talks
  Projects, Tunes, Default, MaxChats, ChatCalls, MaxTaps, MaxDrops,           \* Sidebar
  MaxItems, PageSize, InboxMoves,                                             \* Inbox
  MaxSockets, MaxTicks, MaxTurnsOfSession,                                    \* LiveView of Convs, with MaxClicks
  SearchUrls, Keys, NoUrl, NoKey, EnvUrl, EnvKey, MaxTouches, MaxRequests, MaxElsewhere  \* WebSettings

VARIABLES
  log, made, turn, chat, stream, events, running, parts, persisted, fetches, asked, steps, unheard, astray,
  rows, groups, born, working, halted, list, selected, loading, spawning, full, calls, epoch, read, overtaken,
  raced, spawned, taps, drops,
  status, urgent, stamp, version, pipe, online, known, pendingIds, arrivals, polls, acts, view, atOpen, pageIds,
  cursor, hasMore, page, newest, crossed, missed, lost, swamped, inboxMoves,
  socket, current, viewed, screen, browsing, starting, lateEvent, heard, panelClicks, ticks, turnsOfSession,
  setting, vault, form, shown, saving, tested, touches, requests, refused, savedElsewhere

S == INSTANCE Screen WITH selected <- chat, pipe <- events, request <- asked, moves <- steps, missed <- unheard
B == INSTANCE Sidebar WITH crossed <- overtaken, MaxCalls <- ChatCalls
I == INSTANCE Inbox WITH seen <- newest, moves <- inboxMoves, MaxMoves <- InboxMoves
L == INSTANCE LiveView WITH Views <- Convs, clicks <- panelClicks
T == INSTANCE WebSettings WITH request <- saving, elsewhere <- savedElsewhere, Urls <- SearchUrls

screenVars == <<log, made, turn, chat, stream, events, running, parts, persisted, fetches, asked, steps, unheard, astray>>
sidebarVars == <<rows, groups, born, working, halted, list, selected, loading, spawning, full, calls, epoch, read,
                 overtaken, raced, spawned, taps, drops>>
inboxVars == <<status, urgent, stamp, version, pipe, online, known, pendingIds, arrivals, polls, acts, view, atOpen,
               pageIds, cursor, hasMore, page, newest, crossed, missed, lost, swamped, inboxMoves>>
liveViewVars == <<socket, current, viewed, screen, browsing, starting, lateEvent, heard, panelClicks, ticks, turnsOfSession>>
settingsVars == <<setting, vault, form, shown, saving, tested, touches, requests, refused, savedElsewhere>>
viewsAll == <<workbenchAll, screenVars, sidebarVars, inboxVars, liveViewVars, settingsVars>>

\* The list of chats may start in two ways, which do not matter where another component moves.
ViewsInit ==
  /\ part \in {"scm", "screen", "sidebar", "inbox", "liveView", "settings", "workspace", "pages", "browser", "connectors"}
  /\ WorkbenchInit /\ S!Init /\ B!Init /\ I!Init /\ L!Init /\ T!Init
  /\ born = 0 \/ part = "sidebar"

ViewsNext ==
  /\ WorkbenchNext
  /\ IF part = "screen" THEN S!Next ELSE UNCHANGED screenVars
  /\ IF part = "sidebar" THEN B!Next ELSE UNCHANGED sidebarVars
  /\ IF part = "inbox" THEN I!Next ELSE UNCHANGED inboxVars
  /\ IF part = "liveView" THEN L!Next ELSE UNCHANGED liveViewVars
  /\ IF part = "settings" THEN T!Next ELSE UNCHANGED settingsVars

\* A behaviour of Views is one of Workbench: its start and its steps are those of Workbench and conditions on the
\* screens beside them.
ViewsSpec == ViewsInit /\ [][ViewsNext]_viewsAll

\* Every component keeps to its types.
Types ==
  /\ part = "scm" => TypeOK
  /\ part = "screen" => S!TypeOK
  /\ part = "sidebar" => B!TypeOK
  /\ part = "inbox" => I!TypeOK
  /\ part = "liveView" => L!TypeOK
  /\ part = "settings" => T!TypeOK
  /\ part = "workspace" => W!TypeOK
  /\ part = "pages" => P!TypeOK
  /\ part = "browser" => R!TypeOK
  /\ part = "connectors" => C!TypeOK

\* What is shown is what the server holds, once everything under way has come in -- in order, where the code
\* relies on that: the open chat (but for the words of a reply that thought in between, until its turn ends), the
\* list of chats, the questions, the live view, the badge of the settings (useSSE.ts, runtime.ts,
\* useConversations.ts, useGazeta.ts, GazetaView.tsx, BrowserPanel.tsx, WebTab.tsx).
ScreensAreTrue ==
  /\ part = "screen" => S!LiveIsTheTurn /\ S!RestIsTruth
  /\ part = "sidebar" => B!ListIsTrue /\ B!SpawnsOneIfInOrder /\ B!PickerIsStored /\ B!StoppedBeforeGone
  /\ part = "inbox" => I!InboxIsTrue /\ I!EverythingIfApart
  /\ part = "liveView" => L!LastWordIsShown /\ L!PanelIsTrueIfInOrder
  /\ part = "settings" => T!BadgeIsTrue /\ T!WorksIsOfFields
=============================================================================
