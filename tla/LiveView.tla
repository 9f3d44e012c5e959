------------------------------- MODULE LiveView -------------------------------
(***************************************************************************)
(* The live view of the agent's browser: the panel (BrowserPanel.tsx), its *)
(* WebSockets to playwright-mcp through the orchestrator                   *)
(* (liveview-proxy.ts) and the server's side of them (liveview.ts).  One   *)
(* panel serves whichever chat is shown: a change of the chat closes its   *)
(* socket and makes the next one, while the events of the old one are      *)
(* still to come.  "In control" is kept twice, by the panel and by the     *)
(* server, and each tells the other.                                       *)
(*                                                                         *)
(* Abstracted: the pictures, the coordinates and keys of an input, the     *)
(* resizing of the panel, the pool behind the sessions (Browser).          *)
(***************************************************************************)
EXTENDS Naturals, SequencesExt

CONSTANTS Views,       \* conversations the panel may show
          MaxSockets, MaxClicks, MaxTicks, MaxTurnsOfSession   \* bounds: sockets made, what the person does, status messages, opened or closed otherwise

VARIABLES socket,      \* the panel's WebSockets, both ends of them
          current,     \* wsRef.current
          viewed,      \* the chat of the panel, NoView while it is hidden
          screen,      \* the panel's connected, unavailable, status.session, takeover, opening, openError
          browsing,    \* the chats with a session in the pool
          starting,    \* `opening` of liveview.ts: the socket whose "open" runs
          lateEvent,   \* history: an old socket reported its end after the next one was made
          heard,       \* history: the panel had a status with a session from its present socket
          clicks, ticks, turnsOfSession

liveViewVars == <<socket, current, viewed, screen, browsing, starting, lateEvent, heard, clicks, ticks, turnsOfSession>>

Sockets == 1 .. MaxSockets
NoSocket == 0
NoView == "none"
NewPanel == [connected |-> FALSE, unavailable |-> FALSE, session |-> FALSE, takeover |-> FALSE, opening |-> FALSE, failed |-> FALSE]
Unused == [of |-> NoView, at |-> "none", opened |-> FALSE, mine |-> FALSE, served |-> FALSE, control |-> FALSE, up |-> <<>>, down |-> <<>>]

\* What the panel sends, and what it hears.
Takeover(on) == [type |-> "takeover", active |-> on]
Plain(type) == [type |-> type, active |-> FALSE]
Status(session, control) == [type |-> "status", session |-> session, takeover |-> control]
Error == [type |-> "error", session |-> FALSE, takeover |-> FALSE]

TypeOK ==
    /\ \A i \in Sockets : /\ socket[i].of \in Views \cup {NoView}
                          /\ socket[i].at \in {"none", "connecting", "open", "closing", "closed"}
                          /\ socket[i].control => socket[i].served
    /\ current \in Sockets \cup {NoSocket} /\ viewed \in Views \cup {NoView}
    /\ \A f \in DOMAIN NewPanel : screen[f] \in BOOLEAN
    /\ browsing \subseteq Views /\ starting \in [Views -> Sockets \cup {NoSocket}]
    /\ lateEvent \in BOOLEAN /\ heard \in BOOLEAN
    /\ clicks \in 0 .. MaxClicks /\ ticks \in 0 .. MaxTicks /\ turnsOfSession \in 0 .. MaxTurnsOfSession

Init ==
    /\ socket = [i \in Sockets |-> Unused] /\ current = NoSocket /\ viewed = NoView /\ screen = NewPanel
    /\ browsing = {} /\ starting = [v \in Views |-> NoSocket] /\ lateEvent = FALSE /\ heard = FALSE
    /\ clicks = 0 /\ ticks = 0 /\ turnsOfSession = 0

bounds == <<clicks, ticks, turnsOfSession>>
pool == <<browsing, starting>>
Click == clicks < MaxClicks /\ clicks' = clicks + 1 /\ UNCHANGED <<ticks, turnsOfSession>>

-----------------------------------------------------------------------------
(* The panel *)

\* sendEvent: dropped unless the socket is open.
CanSend == current # NoSocket /\ socket[current].at = "open"
Sent(ms) == IF CanSend THEN [socket EXCEPT ![current].up = @ \o ms] ELSE socket
\* The effect on `takeover`: the server hears of every change, whoever made it.
\* (Unsynced: a plausible bug, the effect does not run when the server's word changed it.)
Unsynced(on) == <<>>
Synced(on) == IF on = screen.takeover THEN <<>> ELSE <<Takeover(on)>>

Fresh == CHOOSE i \in Sockets : socket[i].at = "none" /\ \A j \in Sockets : socket[j].at = "none" => i <= j
CanMake == \E i \in Sockets : socket[i].at = "none"
\* close() of the socket the panel had: nothing is heard from it any more but its end.
Closing(sockets, mine) ==
    [i \in Sockets |-> IF i = current /\ sockets[i].at \in {"connecting", "open"}
                       THEN [sockets[i] EXCEPT !.at = "closing", !.mine = mine, !.down = <<>>]
                       ELSE [sockets[i] EXCEPT !.mine = mine /\ @]]
Made(sockets, v) == [sockets EXCEPT ![Fresh] = [Unused EXCEPT !.of = v, !.at = "connecting", !.mine = TRUE]]

\* The panel is opened, with a state of its own.
Open(v) ==
    /\ viewed = NoView /\ CanMake /\ Click
    /\ viewed' = v /\ socket' = Made(socket, v) /\ current' = Fresh /\ screen' = NewPanel
    /\ heard' = FALSE /\ lateEvent' = FALSE /\ UNCHANGED pool
\* Another chat is shown: the panel stays, and with it most of its state.
\* (KeptUnavailable: a plausible bug, the verdict on the socket before is kept.)
KeptUnavailable == [screen EXCEPT !.session = FALSE]
Cleared == [screen EXCEPT !.unavailable = FALSE, !.session = FALSE]
Switch(v) ==
    /\ viewed \notin {NoView, v} /\ CanMake /\ Click
    /\ viewed' = v /\ socket' = Made(Closing(socket, TRUE), v) /\ current' = Fresh
    /\ screen' = Cleared
    /\ heard' = FALSE /\ UNCHANGED <<lateEvent, pool>>
\* The panel is hidden: nothing that comes reaches it any more.
Hide ==
    /\ viewed # NoView /\ Click
    /\ viewed' = NoView /\ socket' = Closing(socket, FALSE) /\ current' = NoSocket /\ screen' = NewPanel
    /\ heard' = FALSE /\ UNCHANGED <<lateEvent, pool>>

\* onopen
Opened(i) ==
    /\ socket[i].at = "connecting" /\ socket[i].served
    /\ socket' = [socket EXCEPT ![i].at = "open", ![i].opened = TRUE]
    /\ screen' = [screen EXCEPT !.connected = TRUE]
    /\ UNCHANGED <<current, viewed, pool, lateEvent, heard, bounds>>
\* onclose: of whichever socket of this panel, in whatever order.
Closed(i) ==
    /\ socket[i].at = "closing"
    /\ socket' = [socket EXCEPT ![i].at = "closed", ![i].up = <<>>, ![i].down = <<>>, ![i].served = FALSE, ![i].control = FALSE]
    /\ screen' = IF socket[i].mine THEN [screen EXCEPT !.connected = FALSE, !.unavailable = @ \/ ~socket[i].opened] ELSE screen
    /\ current' = IF current = i THEN NoSocket ELSE current
    /\ lateEvent' = (lateEvent \/ (socket[i].mine /\ current # i))
    /\ UNCHANGED <<viewed, pool, heard, bounds>>
\* onmessage: a status, or why the browser could not be opened.
Told(m) ==
    IF m.type = "error" THEN [screen EXCEPT !.opening = FALSE, !.failed = TRUE]
    ELSE IF m.session THEN [screen EXCEPT !.session = TRUE, !.opening = FALSE, !.failed = FALSE, !.takeover = m.takeover]
    ELSE [screen EXCEPT !.session = FALSE]
Hear(i) ==
    /\ socket[i].at = "open" /\ socket[i].mine /\ socket[i].down # <<>>
    /\ LET m == Head(socket[i].down)
           told == Told(m)
       IN /\ screen' = told
          /\ socket' = [Sent(Synced(told.takeover)) EXCEPT ![i].down = Tail(@)]
          /\ heard' = (heard \/ m.session)
    /\ UNCHANGED <<current, viewed, pool, lateEvent, bounds>>

\* The buttons, as the panel shows them.
ShowsPicture == viewed # NoView /\ screen.connected /\ screen.session
ToggleControl ==
    /\ ShowsPicture /\ Click
    /\ screen' = [screen EXCEPT !.takeover = ~@] /\ socket' = Sent(<<Takeover(~screen.takeover)>>)
    /\ UNCHANGED <<current, viewed, pool, lateEvent, heard>>
CloseBrowser ==
    /\ ShowsPicture /\ Click
    /\ screen' = [screen EXCEPT !.takeover = FALSE] /\ socket' = Sent(<<Plain("close")>> \o Synced(FALSE))
    /\ UNCHANGED <<current, viewed, pool, lateEvent, heard>>
OpenBrowser ==
    /\ viewed # NoView /\ screen.connected /\ ~screen.session /\ ~screen.opening /\ Click
    /\ screen' = [screen EXCEPT !.opening = TRUE, !.failed = FALSE] /\ socket' = Sent(<<Plain("open")>>)
    /\ UNCHANGED <<current, viewed, pool, lateEvent, heard>>

-----------------------------------------------------------------------------
(* The proxy and the server *)

\* The handshake is relayed and the server makes its client; or the proxy or the server refuses it.
Accept(i) ==
    /\ socket[i].at = "connecting" /\ ~socket[i].served
    /\ \/ socket' = [socket EXCEPT ![i].served = TRUE]
       \/ socket' = [socket EXCEPT ![i].at = "closing"]
    /\ UNCHANGED <<current, viewed, screen, pool, lateEvent, heard, bounds>>
\* One side goes, the proxy ends both: the connection is lost, with what was under way to the panel.
Lose(i) ==
    /\ socket[i].at = "open" /\ socket[i].mine /\ Click
    /\ socket' = [socket EXCEPT ![i].at = "closing", ![i].down = <<>>]
    /\ UNCHANGED <<current, viewed, screen, pool, lateEvent, heard>>
\* The frame timer: the status follows the frame.
Tick(i) ==
    /\ socket[i].served /\ socket[i].at \in {"connecting", "open"} /\ ticks < MaxTicks /\ ticks' = ticks + 1
    /\ LET live == socket[i].of \in browsing
       IN socket' = [socket EXCEPT ![i].down = Append(@, Status(live, live /\ socket[i].control))]
    /\ UNCHANGED <<current, viewed, screen, pool, lateEvent, heard, clicks, turnsOfSession>>
\* handleClientMessage: control, the end of the session, a session asked for (one at a time per chat, the others wait for it).
Serve(i) ==
    /\ socket[i].served /\ socket[i].up # <<>>
    /\ LET m == Head(socket[i].up)
           v == socket[i].of
           rest == [socket EXCEPT ![i].up = Tail(@)]
       IN \/ m.type = "takeover" /\ socket' = [rest EXCEPT ![i].control = m.active] /\ UNCHANGED pool
          \/ m.type = "close" /\ socket' = [rest EXCEPT ![i].control = FALSE] /\ browsing' = browsing \ {v} /\ UNCHANGED starting
          \/ /\ m.type = "open" /\ socket' = rest
             /\ starting' = [starting EXCEPT ![v] = IF @ = NoSocket THEN i ELSE @] /\ UNCHANGED browsing
    /\ UNCHANGED <<current, viewed, screen, lateEvent, heard, bounds>>
\* openSession: the session is there, or the one who asked first hears why not.
Started(v) ==
    /\ starting[v] # NoSocket /\ starting' = [starting EXCEPT ![v] = NoSocket]
    /\ \/ browsing' = browsing \cup {v} /\ UNCHANGED socket
       \/ /\ browsing' = browsing
          /\ socket' = [socket EXCEPT ![starting[v]].down = IF socket[starting[v]].at = "open" THEN Append(@, Error) ELSE @]
    /\ UNCHANGED <<current, viewed, screen, lateEvent, heard, bounds>>
\* The agent opens or closes a browser, or the pool closes an idle one.
SessionToggles(v) ==
    /\ turnsOfSession < MaxTurnsOfSession /\ turnsOfSession' = turnsOfSession + 1
    /\ browsing' = (browsing \cup {v}) \ (browsing \cap {v})
    /\ UNCHANGED <<socket, current, viewed, screen, starting, lateEvent, heard, clicks, ticks>>

Next ==
    \/ \E v \in Views : Open(v) \/ Switch(v) \/ Started(v) \/ SessionToggles(v)
    \/ \E i \in Sockets : Opened(i) \/ Closed(i) \/ Hear(i) \/ Accept(i) \/ Lose(i) \/ Tick(i) \/ Serve(i)
    \/ Hide \/ ToggleControl \/ CloseBrowser \/ OpenBrowser

Spec == Init /\ [][Next]_liveViewVars

-----------------------------------------------------------------------------
(* Properties *)

\* What the server will believe when it has served all that is on its way.
After(control, ms) ==
    FoldLeft(LAMBDA c, m : CASE m.type = "takeover" -> m.active [] m.type = "close" -> FALSE [] OTHER -> c, control, ms)

\* Whatever the server says and the person clicks meanwhile, the last word on its way to the server is what the panel
\* shows: once it has heard of a session, "In control" is what the server will believe (the effect on `takeover`,
\* BrowserPanel.tsx:149-151, against the status of every frame, :125-127).
LastWordIsShown ==
    CanSend /\ heard => After(socket[current].control, socket[current].up) = screen.takeover

\* The panel says "connected" exactly while its socket is open, and "unavailable" only of a socket that never opened:
\* as long as no socket of an earlier chat reports its end after the next one was made (BrowserPanel.tsx:108-114).
PanelIsTrueIfInOrder ==
    viewed # NoView /\ ~lateEvent =>
        /\ CanSend => screen.connected /\ ~screen.unavailable
        /\ screen.connected => \E i \in Sockets : socket[i].at \in {"open", "closing"} /\ socket[i].mine

\* The same without the proviso, which the code does not keep: the end of the socket of the chat that was left
\* (BrowserPanel.tsx:110-112) marks the panel of the present chat as not connected, or as unavailable.
PanelIsTrue == viewed # NoView /\ CanSend => screen.connected /\ ~screen.unavailable

\* The keyboard is taken from the page only while the panel shows that the person is in control, as the comment at
\* BrowserPanel.tsx:179 wants ("Keyboard relay -- only when panel is focused").  The code does not keep it.
KeysOnlyInControl == screen.takeover => ShowsPicture

=============================================================================
