------------------------------ MODULE Connectors ------------------------------
(***************************************************************************)
(* Connectors: the MCP servers of the operator and those added in Settings *)
(* (connector-routes.ts), one connection object each (mcp-client.ts) and   *)
(* the registry of their tools (tool-registry.ts).  Every request of the   *)
(* Settings page awaits a close, a connect and a list of tools, and other  *)
(* requests and tool calls go on meanwhile.                                *)
(*                                                                         *)
(* Abstracted: one tool per connector; the two transports; names and       *)
(* addresses that are refused; approval (Approvals); whether a server      *)
(* still knows the session: any call may end as if it did not.             *)
(***************************************************************************)
EXTENDS Naturals, FiniteSets, Sequences, SequencesExt

CONSTANTS Custom,      \* names of connectors added in Settings
          Urls, Conns, \* addresses; connection objects made for them
          Requests, Callers,      \* requests at once; workers and chats with a tool call
          MaxEdits, MaxRestarts   \* bounds: requests; restarts and lost sessions

VARIABLES row,          \* custom_connectors
          token, given, \* the key vault; history: the token given last
          conns,        \* the connection objects
          connections,  \* the list of connections
          tools,        \* ToolRegistry: the connection a name's tools call
          failed,       \* errors: names with a message
          request,      \* Settings requests, and the start of a saved connector, between their awaits
          caller,       \* tool calls
          kept,         \* the connection in a worker's own registry
          edits, faults, \* bounds
          crossed,      \* history: names with two requests at once, or whose deletion a restart cut short
          reopened      \* history: connections a call opened again

connectorVars == <<row, token, given, conns, connections, tools, failed, request, caller, kept, edits, faults, crossed, reopened>>

None == 99
Env == "env"     \* a connector of the operator
EnvConn == 0
Names == Custom \cup {Env}
AllConns == Conns \cup {EnvConn}
Slots == Requests \cup Custom
NoRow == [saved |-> FALSE, on |-> FALSE, url |-> "none"]
NewConn(n, u, t) == [made |-> TRUE, name |-> n, url |-> u, token |-> t, client |-> FALSE, connecting |-> FALSE]
NoConn == [NewConn("none", "none", 0) EXCEPT !.made = FALSE]
NoRequest == [do |-> "none", name |-> "none", url |-> "none", at |-> "none", conn |-> None]
Quiet == [at |-> "none", conn |-> None, again |-> FALSE]

TypeOK ==
  /\ row \in [Custom -> [saved : BOOLEAN, on : BOOLEAN, url : Urls \cup {"none"}]] /\ token \in [Custom -> 0..MaxEdits]
  /\ connections \in Seq(AllConns) /\ tools \in [Names -> AllConns \cup {None}] /\ failed \subseteq Names
  /\ \A s \in Slots : request[s].at \in {"none", "stop", "connect", "list"}
  /\ \A p \in Callers : caller[p].at \in {"none", "connect", "sent"}
  /\ kept \in [Callers -> AllConns \cup {None}] /\ \A c \in AllConns : conns[c].connecting => ~conns[c].client

Init ==
  /\ row = [n \in Custom |-> NoRow] /\ token = [n \in Custom |-> 0] /\ given = token
  /\ conns = [c \in AllConns |-> IF c = EnvConn THEN [NewConn(Env, "env", 0) EXCEPT !.client = TRUE] ELSE NoConn]
  /\ connections = <<EnvConn>> /\ tools = [n \in Names |-> IF n = Env THEN EnvConn ELSE None]
  /\ failed = {} /\ request = [s \in Slots |-> NoRequest] /\ caller = [p \in Callers |-> Quiet] /\ kept = [p \in Callers |-> None]
  /\ edits = 0 /\ faults = 0 /\ crossed = {} /\ reopened = {}

Booting == \E n \in Custom : request[n].at # "none"
Busy(n) == \E s \in Slots : request[s].at # "none" /\ request[s].name = n
calls == <<caller, kept, reopened>>
bounds == <<edits, faults, crossed>>

-----------------------------------------------------------------------------
(* The registry and the connections *)

Named(n) == {i \in DOMAIN connections : conns[connections[i]].name = n}
\* removeConnection
Without(n) == [tools EXCEPT ![n] = None]
\* doConnect closes the client it has: what is in flight on it fails.  One attempt at a time.
Cut(c) == [p \in Callers |-> IF caller[p].conn = c /\ caller[p].at = "sent" THEN Quiet ELSE caller[p]]
Connecting(cs, c) == [cs EXCEPT ![c].connecting = TRUE, ![c].client = FALSE]

\* start: reads the token, makes a connection and connects.
start(s, n, u, do) ==
  \E c \in Conns :
     /\ ~conns[c].made
     /\ conns' = [conns EXCEPT ![c] = [NewConn(n, u, token'[n]) EXCEPT !.connecting = TRUE]]
     /\ request' = [request EXCEPT ![s] = [do |-> do, name |-> n, url |-> u, at |-> "connect", conn |-> c]]

\* stop: the tools go, the first connection of that name leaves the list and is closed.
stop(s, n, u, do) ==
  /\ tools' = Without(n)
  /\ \/ Named(n) = {} /\ UNCHANGED <<connections, conns, caller>>
     \/ \E i \in Named(n) :
          /\ \A j \in Named(n) : i <= j
          /\ connections' = RemoveAt(connections, i) /\ caller' = Cut(connections[i])
          /\ conns' = [conns EXCEPT ![connections[i]].client = FALSE]
  /\ request' = [request EXCEPT ![s] = [do |-> do, name |-> n, url |-> u, at |-> "stop", conn |-> None]]

-----------------------------------------------------------------------------
(* Settings *)

\* A request arrives, perhaps while another one of that connector is under way.
Arrives(s, n) ==
  /\ ~Booting /\ request[s].at = "none" /\ edits < MaxEdits /\ edits' = edits + 1
  /\ crossed' = IF Busy(n) THEN crossed \cup {n} ELSE crossed

\* The token field: left alone, emptied or filled in.
SetToken(n, t) ==
  LET v == CASE t = "same" -> token[n] [] t = "none" -> 0 [] t = "new" -> edits + 1
  IN token' = [token EXCEPT ![n] = v] /\ given' = [given EXCEPT ![n] = v]

Add(s, n, u, t) ==
  /\ Arrives(s, n) /\ ~row[n].saved /\ Named(n) = {} /\ t \in {"same", "new"}
  /\ SetToken(n, t) /\ row' = [row EXCEPT ![n] = [saved |-> TRUE, on |-> TRUE, url |-> u]] /\ start(s, n, u, "add")
  /\ UNCHANGED <<connections, tools, failed, faults>> /\ UNCHANGED calls
Edit(s, n, u, t) ==
  /\ Arrives(s, n) /\ row[n].saved /\ (u = row[n].url \/ t = "same")   \* one change at a time is enough
  /\ SetToken(n, t) /\ row' = [row EXCEPT ![n] = [saved |-> TRUE, on |-> TRUE, url |-> u]] /\ stop(s, n, u, "edit")
  /\ UNCHANGED <<failed, faults, kept, reopened>>
Reconnect(s, n) ==
  /\ Arrives(s, n) /\ row[n].saved /\ stop(s, n, row[n].url, "reconnect")
  /\ UNCHANGED <<row, token, given, failed, faults, kept, reopened>>
Disable(s, n) ==
  /\ Arrives(s, n) /\ row[n].saved /\ row' = [row EXCEPT ![n].on = FALSE] /\ stop(s, n, "none", "disable")
  /\ UNCHANGED <<token, given, failed, faults, kept, reopened>>
Delete(s, n) ==
  /\ Arrives(s, n) /\ row[n].saved /\ row' = [row EXCEPT ![n] = NoRow] /\ stop(s, n, "none", "delete")
  /\ given' = [given EXCEPT ![n] = 0]
  /\ UNCHANGED <<token, failed, faults, kept, reopened>>

\* What follows the close.
Stopped(s) ==
  LET q == request[s] n == q.name IN
  /\ q.at = "stop"
  /\ IF q.do \in {"edit", "reconnect"}
     THEN /\ row' = IF q.do = "reconnect" /\ row[n].saved THEN [row EXCEPT ![n].on = TRUE] ELSE row
          /\ token' = token /\ start(s, n, q.url, q.do) /\ UNCHANGED failed
     ELSE /\ request' = [request EXCEPT ![s] = NoRequest] /\ failed' = failed \ {n}
          /\ token' = IF q.do = "delete" THEN [token EXCEPT ![n] = 0] ELSE token
          /\ UNCHANGED <<row, conns>>
  /\ UNCHANGED <<given, connections, tools>> /\ UNCHANGED <<calls, bounds>>

\* A connector of the operator: only connected again.
EnvReconnect(s) ==
  /\ Arrives(s, Env)
  /\ request' = [request EXCEPT ![s] = [do |-> "env", name |-> Env, url |-> "env", at |-> "connect", conn |-> EnvConn]]
  /\ IF conns[EnvConn].connecting THEN UNCHANGED <<conns, caller>> ELSE conns' = Connecting(conns, EnvConn) /\ caller' = Cut(EnvConn)
  /\ UNCHANGED <<row, token, given, connections, tools, failed, faults, kept, reopened>>

\* The attempt ends, for everyone who waits for it.
ConnectEnds(c, ok) ==
  LET waits(s) == request[s].at = "connect" /\ request[s].conn = c
      calling(p) == caller[p].at = "connect" /\ caller[p].conn = c
  IN /\ conns[c].connecting
     /\ conns' = [conns EXCEPT ![c].connecting = FALSE, ![c].client = ok]
     /\ request' = [s \in Slots |-> IF ~waits(s) THEN request[s] ELSE IF ok THEN [request[s] EXCEPT !.at = "list"] ELSE NoRequest]
     /\ failed' = IF ok THEN failed ELSE failed \cup {request[s].name : s \in {r \in Slots : waits(r)}}
     /\ caller' = [p \in Callers |-> IF ~calling(p) THEN caller[p] ELSE IF ok THEN [caller[p] EXCEPT !.at = "sent"] ELSE Quiet]
     /\ UNCHANGED <<row, token, given, connections, tools, kept, reopened>> /\ UNCHANGED bounds

\* loadFrom of the new connection, and what start does with it.  Mutant: a connection without tools is left as it is.
ListedOrLeft(s, ok) ==
  LET q == request[s] IN
  /\ q.at = "list" /\ request' = [request EXCEPT ![s] = NoRequest]
  /\ IF ok /\ conns[q.conn].client
     THEN /\ tools' = [tools EXCEPT ![q.name] = q.conn] /\ failed' = failed \ {q.name}
          /\ connections' = IF q.do = "env" THEN connections ELSE Append(connections, q.conn)
     ELSE /\ failed' = failed \cup {q.name} /\ UNCHANGED <<tools, connections>>
  /\ UNCHANGED <<row, token, given, kept, reopened, conns, caller>> /\ UNCHANGED bounds
Listed(s, ok) ==
  LET q == request[s] IN
  /\ q.at = "list" /\ request' = [request EXCEPT ![s] = NoRequest]
  /\ IF ok /\ conns[q.conn].client
     THEN /\ tools' = [tools EXCEPT ![q.name] = q.conn] /\ failed' = failed \ {q.name}
          /\ connections' = IF q.do = "env" THEN connections ELSE Append(connections, q.conn)
          /\ UNCHANGED <<conns, caller>>
     ELSE /\ failed' = failed \cup {q.name} /\ UNCHANGED <<tools, connections>>
          /\ IF q.do = "env" THEN UNCHANGED <<conns, caller>>
             ELSE conns' = [conns EXCEPT ![q.conn].client = FALSE] /\ caller' = Cut(q.conn)
  /\ UNCHANGED <<row, token, given, kept, reopened>> /\ UNCHANGED bounds

-----------------------------------------------------------------------------
(* Tool calls *)

\* A worker takes its own registry when it starts; the connections of the operator never change.
restrictTo(p, n) ==
  /\ kept[p] = None /\ ~Booting /\ tools[n] # None /\ kept' = [kept EXCEPT ![p] = tools[n]]
  /\ UNCHANGED <<row, token, given, conns, connections, tools, failed, request, caller, reopened>> /\ UNCHANGED bounds
WorkerEnds(p) ==
  /\ kept[p] # None /\ caller[p].at = "none" /\ kept' = [kept EXCEPT ![p] = None]
  /\ UNCHANGED <<row, token, given, conns, connections, tools, failed, request, caller, reopened>> /\ UNCHANGED bounds

\* callOnce: over the client there is, or after connecting.
Send(p, c) ==
  /\ caller' = [IF conns[c].client \/ conns[c].connecting THEN caller ELSE Cut(c)
                EXCEPT ![p] = [at |-> IF conns[c].client THEN "sent" ELSE "connect", conn |-> c, again |-> FALSE]]
  /\ conns' = IF conns[c].client \/ conns[c].connecting THEN conns ELSE Connecting(conns, c)
  /\ reopened' = IF conns[c].client \/ conns[c].connecting THEN reopened ELSE reopened \cup ({c} \cap Conns)
call(p) ==
  /\ caller[p].at = "none" /\ ~Booting
  /\ \E c \in AllConns : c \in ({kept[p]} \cup {tools[n] : n \in Names}) /\ Send(p, c)
  /\ UNCHANGED <<row, token, given, connections, tools, failed, request, kept>> /\ UNCHANGED bounds

\* The answer arrives, or an error the caller is told as it is: a timeout, a break of the connection, the tool's own,
\* and of a call that was repeated any error.
Answered(p) ==
  /\ caller[p].at = "sent" /\ caller' = [caller EXCEPT ![p] = Quiet]
  /\ UNCHANGED <<row, token, given, conns, connections, tools, failed, request, kept, reopened>> /\ UNCHANGED bounds
\* An error whose text reads as if the server did not know the session, which the text of a tool that ran may do as
\* well (isSessionLost): connect again and repeat, once.
SessionLost(p) ==
  LET c == caller[p].conn IN
  /\ caller[p].at = "sent" /\ ~caller[p].again /\ faults < MaxRestarts /\ faults' = faults + 1
  /\ caller' = [IF conns[c].connecting THEN caller ELSE Cut(c) EXCEPT ![p] = [caller[p] EXCEPT !.at = "connect", !.again = TRUE]]
  /\ conns' = IF conns[c].connecting THEN conns ELSE Connecting(conns, c)
  /\ reopened' = reopened \cup ({c} \cap Conns)
  /\ UNCHANGED <<row, token, given, connections, tools, failed, request, kept, edits, crossed>>
-----------------------------------------------------------------------------
(* Faults *)

\* The connector's server restarts, and the client notices.
ServerRestarts(c) ==
  /\ faults < MaxRestarts /\ faults' = faults + 1 /\ conns[c].client
  /\ conns' = [conns EXCEPT ![c].client = FALSE] /\ caller' = Cut(c)
  /\ UNCHANGED <<row, token, given, connections, tools, failed, request, kept, edits, crossed, reopened>>

\* The cli restarts; a server of the operator that is down is skipped.  startSaved connects what is saved and on, before the server listens.
Restart(up) ==
  /\ faults < MaxRestarts /\ faults' = faults + 1
  /\ connections' = <<EnvConn>> /\ failed' = {} /\ caller' = [p \in Callers |-> Quiet] /\ kept' = [p \in Callers |-> None] /\ reopened' = {}
  /\ tools' = [n \in Names |-> IF n = Env /\ up THEN EnvConn ELSE None]
  /\ \E of \in [{n \in Custom : row[n].on} -> Conns] :
       /\ \A m, n \in DOMAIN of : of[m] = of[n] => m = n
       /\ request' = [s \in Slots |-> IF s \in DOMAIN of
                                     THEN [do |-> "boot", name |-> s, url |-> row[s].url, at |-> "connect", conn |-> of[s]] ELSE NoRequest]
       /\ conns' = [c \in AllConns |->
            IF c = EnvConn THEN [NewConn(Env, "env", 0) EXCEPT !.client = up]
            ELSE IF \E n \in DOMAIN of : of[n] = c
                 THEN LET n == CHOOSE m \in DOMAIN of : of[m] = c IN [NewConn(n, row[n].url, token[n]) EXCEPT !.connecting = TRUE]
                 ELSE NoConn]
  /\ crossed' = crossed \cup {request[s].name : s \in {r \in Slots : request[r].do = "delete"}}
  /\ UNCHANGED <<row, token, given, edits>>

Next ==
  \/ \E s \in Requests, n \in Custom :
       \/ Reconnect(s, n) \/ Disable(s, n) \/ Delete(s, n)
       \/ \E u \in Urls, t \in {"same", "none", "new"} : Add(s, n, u, t) \/ Edit(s, n, u, t)
  \/ \E s \in Requests : EnvReconnect(s)
  \/ \E s \in Slots : Stopped(s) \/ \E ok \in BOOLEAN : Listed(s, ok)
  \/ \E c \in AllConns : ServerRestarts(c) \/ \E ok \in BOOLEAN : ConnectEnds(c, ok)
  \/ \E p \in Callers : call(p) \/ Answered(p) \/ SessionLost(p) \/ WorkerEnds(p) \/ \E n \in Custom : restrictTo(p, n)
  \/ \E up \in BOOLEAN : Restart(up)

Spec == Init /\ [][Next]_connectorVars

-----------------------------------------------------------------------------
\* A connector's tools go over its only connection, made with what Settings has for it.
Works(n) ==
  /\ tools[n] # None /\ conns[tools[n]].url = row[n].url /\ conns[tools[n]].token = token[n]
  /\ \E i \in DOMAIN connections : Named(n) = {i} /\ connections[i] = tools[n]

\* At rest, what Settings shows is what there is: a connector that is on has tools over a connection to its present
\* address with its present token, or a message; one that is off or gone has neither tools nor a connection.  The
\* token saved is the one given last.  Requests that cross can break every part of it, and a restart
\* in the middle of a deletion leaves the token for the next connector of that name.
SettingsApply ==
  \A n \in Custom : ~Busy(n) /\ n \notin crossed =>
    /\ token[n] = given[n]
    /\ IF row[n].on THEN n \in failed \/ Works(n) ELSE tools[n] = None /\ Named(n) = {}

\* A connection that is open is in the list, is being started, or was opened again by a call of a worker that
\* kept the tools it began with: nothing else is left open.
NothingLeftOpen ==
  \A c \in Conns : conns[c].client => c \in ToSet(connections) \cup reopened \/ \E s \in Slots : request[s].conn = c

\* Off is off, whatever crosses.
OffMeansOff == \A n \in Custom : ~Busy(n) /\ ~row[n].on => tools[n] = None
=============================================================================
