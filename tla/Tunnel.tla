------------------------------- MODULE Tunnel -------------------------------
(***************************************************************************)
(* The reverse tunnel: TunnelRegistry of the control plane and the client  *)
(* of the agents, with the HTTP requests and the terminals they carry.     *)
(* Messages of one connection arrive in order until the connection ends.   *)
(* A link may be lost without either end being told (an expired NAT        *)
(* mapping): what is sent on it then vanishes.                             *)
(***************************************************************************)
EXTENDS Naturals, Sequences

CONSTANTS TunnelNodes, NoConn,
          MaxConns,     \* bound: connections
          MaxRequests,  \* bound: requests forwarded
          MaxTerminals, \* bound: terminals opened
          MaxCuts       \* bound: links lost and connections dropped

ASSUME TunnelBounds == {MaxConns, MaxRequests, MaxTerminals, MaxCuts} \subseteq Nat
ASSUME NoConnAssumption == NoConn \notin Nat

Conns     == 1..MaxConns
Requests  == 1..MaxRequests
Terminals == 1..MaxTerminals

VARIABLES sockets,    \* TunnelRegistry.sockets: the connection of each node
          conn,       \* of each connection: its node, the state of its two ends
          toNode, toPlane,       \* messages on their way, per connection
          request,    \* of each request: its node and what became of it
          waiting,    \* TunnelRegistry.pending: requests whose timer runs
          handling,   \* requests the agents' goroutines are at
          browser,    \* of each terminal: its node, and the browser's end
          terminals,  \* TunnelRegistry.terminalSessions
          shell,      \* of each terminal: its shell, the connection that asked
          overtaken,  \* history: shells started after what was to close them
          deregistered, \* nodes removed from their fleet
          closing,    \* of those, the ones whose tunnel is still to be closed
          cuts

tunnelVars == <<sockets, conn, toNode, toPlane, request, waiting, handling, browser,
                terminals, shell, overtaken, deregistered, closing, cuts>>

NoEnds   == [node |-> NoConn, plane |-> "none", agent |-> "none", lost |-> FALSE]
Ends     == [node : TunnelNodes \cup {NoConn}, lost : BOOLEAN,
             plane : {"none", "auth", "open", "closing", "closed"},
             agent : {"none", "open", "closed"}]
NoShell  == [at |-> "none", on |-> NoConn]
Message(kind, id) == [kind |-> kind, id |-> id]

NodeMessage  == [kind : {"http"}, id : Requests] \cup [kind : {"start", "close"}, id : Terminals]
PlaneMessage == [kind : {"response"}, id : Requests] \cup [kind : {"ended"}, id : Terminals]

TunnelTypeOK ==
  /\ sockets \in [TunnelNodes -> Conns \cup {NoConn}]
  /\ conn \in [Conns -> Ends]
  /\ toNode \in [Conns -> Seq(NodeMessage)]
  /\ toPlane \in [Conns -> Seq(PlaneMessage)]
  /\ request \in [Requests -> [node : TunnelNodes \cup {NoConn},
                               state : {"none", "open", "answered", "failed"}]]
  /\ waiting \subseteq Requests /\ handling \subseteq Requests
  /\ browser \in [Terminals -> [node : TunnelNodes \cup {NoConn},
                                end : {"none", "open", "closed"}]]
  /\ terminals \subseteq Terminals
  /\ shell \in [Terminals -> [at : {"none", "starting", "running", "ended"},
                              on : Conns \cup {NoConn}]]
  /\ overtaken \subseteq Terminals
  /\ deregistered \subseteq TunnelNodes /\ closing \subseteq deregistered
  /\ cuts \in 0..MaxCuts

TunnelInit ==
  /\ sockets = [n \in TunnelNodes |-> NoConn]
  /\ conn = [c \in Conns |-> NoEnds]
  /\ toNode = [c \in Conns |-> <<>>] /\ toPlane = [c \in Conns |-> <<>>]
  /\ request = [r \in Requests |-> [node |-> NoConn, state |-> "none"]]
  /\ waiting = {} /\ handling = {}
  /\ browser = [t \in Terminals |-> [node |-> NoConn, end |-> "none"]]
  /\ terminals = {} /\ shell = [t \in Terminals |-> NoShell] /\ overtaken = {}
  /\ deregistered = {} /\ closing = {} /\ cuts = 0

wires    == <<toNode, toPlane>>
http     == <<request, waiting, handling>>
consoles == <<browser, terminals, shell, overtaken>>
fleet    == <<deregistered, closing>>

\* has() and every send: the node's socket, if its readyState is OPEN.
Reachable(n) == sockets[n] # NoConn /\ conn[sockets[n]].plane = "open"
SendToNode(n, m) ==
  toNode' = IF conn[sockets[n]].lost THEN toNode
            ELSE [toNode EXCEPT ![sockets[n]] = Append(@, m)]

\* The agent's end of the connection it serves, one at a time (Client.conn).
Serving(c) == conn[c].agent = "open"
ServedBy(n) == {c \in Conns : conn[c].node = n /\ Serving(c)}
Answer(n, m) ==
  toPlane' = [c \in Conns |-> IF c \in ServedBy(n) /\ ~conn[c].lost
                              THEN Append(toPlane[c], m) ELSE toPlane[c]]

\* Connections, requests and terminals are numbered as they are made.
Numbered(unused) == {i \in unused : \A j \in unused : i <= j}
NextConn     == Numbered({c \in Conns : conn[c].plane = "none"})
NextRequest  == Numbered({r \in Requests : request[r].state = "none"})
NextTerminal == Numbered({t \in Terminals : browser[t].end = "none"})

-----------------------------------------------------------------------------
(* Connections. *)

\* The upgrade selects the node by its token; an agent dials when it has left
\* its last connection.
AuthenticateUpgrade(n) ==
  /\ n \notin deregistered
  /\ \A c \in Conns : conn[c].node = n => conn[c].agent = "closed"
  /\ \E c \in NextConn :
       conn' = [conn EXCEPT ![c].node = n, ![c].plane = "auth"]
  /\ UNCHANGED <<sockets, wires, http, consoles, fleet, cuts>>

\* register: a socket that is still there is closed, and replaced.
Register(c) ==
  LET n == conn[c].node
      old == sockets[n]
  IN /\ conn[c].plane = "auth"
     /\ conn' = [i \in Conns |->
                   CASE i = c -> [conn[c] EXCEPT !.plane = "open", !.agent = "open"]
                     [] i = old /\ conn[i].plane = "open" -> [conn[i] EXCEPT !.plane = "closing"]
                     [] OTHER -> conn[i]]
     /\ sockets' = [sockets EXCEPT ![n] = c]
     /\ UNCHANGED <<wires, http, consoles, fleet, cuts>>

\* Mutation of SocketsWithout: whichever socket closes, the node's entry goes.
SocketsWithoutNode(c) == [sockets EXCEPT ![conn[c].node] = NoConn]

\* Only the current socket of the node is dropped.
SocketsWithout(c) ==
  IF sockets[conn[c].node] = c THEN [sockets EXCEPT ![conn[c].node] = NoConn] ELSE sockets

\* The 'close' event: after the peer's close and what it sent before, or when
\* startKeepalive has missed a pong and terminates.
SocketClosed(c) ==
  /\ conn[c].plane \in {"open", "closing"}
  /\ conn[c].lost \/ (conn[c].agent = "closed" /\ toPlane[c] = <<>>)
  /\ conn' = [conn EXCEPT ![c].plane = "closed"]
  /\ sockets' = SocketsWithout(c)
  /\ toPlane' = [toPlane EXCEPT ![c] = <<>>] /\ toNode' = [toNode EXCEPT ![c] = <<>>]
  /\ UNCHANGED <<http, consoles, fleet, cuts>>

\* Mutation of ClosedAll: the shells are left alone.
ClosedAllNone(n) == shell

\* Manager.CloseAll ends the shells that run.
ClosedAll(n) ==
  [t \in Terminals |-> IF shell[t].at = "running" /\ browser[t].node = n
                       THEN [shell[t] EXCEPT !.at = "ended"] ELSE shell[t]]

\* connectAndServe returns: the peer closed, the read deadline passed, or the
\* connection broke.
AgentDisconnects(c) ==
  /\ Serving(c)
  /\ \/ (conn[c].plane \in {"closing", "closed"} \/ conn[c].lost) /\ UNCHANGED cuts
     \/ cuts < MaxCuts /\ cuts' = cuts + 1
  /\ conn' = [conn EXCEPT ![c].agent = "closed"]
  /\ toNode' = [toNode EXCEPT ![c] = <<>>]
  /\ shell' = ClosedAll(conn[c].node)
  /\ UNCHANGED <<sockets, toPlane, http, browser, terminals, overtaken, fleet>>

LinkLost(c) ==
  /\ Serving(c) /\ conn[c].plane = "open" /\ ~conn[c].lost
  /\ cuts < MaxCuts /\ cuts' = cuts + 1
  /\ conn' = [conn EXCEPT ![c].lost = TRUE]
  /\ toNode' = [toNode EXCEPT ![c] = <<>>] /\ toPlane' = [toPlane EXCEPT ![c] = <<>>]
  /\ UNCHANGED <<sockets, http, consoles, fleet>>

-----------------------------------------------------------------------------
(* Requests: forwardHttpRequest registers one with a timer of 30 seconds and *)
(* sends it; it is settled by whoever takes it out of the map.              *)

\* Mutation of Settle: taken out of the map, and nobody is told.
SettleSilently(rs, how) == waiting' = waiting \ rs /\ UNCHANGED request

Settle(rs, how) ==
  /\ waiting' = waiting \ rs
  /\ request' = [r \in Requests |-> IF r \in rs THEN [request[r] EXCEPT !.state = how]
                                    ELSE request[r]]

ForwardHttpRequest(n) ==
  /\ Reachable(n)
  /\ \E r \in NextRequest :
       /\ request' = [request EXCEPT ![r] = [node |-> n, state |-> "open"]]
       /\ waiting' = waiting \cup {r}
       /\ SendToNode(n, Message("http", r))
  /\ UNCHANGED <<sockets, conn, toPlane, handling, consoles, fleet, cuts>>

RequestTimesOut(r) ==
  /\ r \in waiting /\ Settle({r}, "failed")
  /\ UNCHANGED <<sockets, conn, wires, handling, consoles, fleet, cuts>>

HandleHttpRequest(r) ==
  /\ r \in handling /\ handling' = handling \ {r}
  /\ Answer(request[r].node, Message("response", r))
  /\ UNCHANGED <<sockets, conn, toNode, request, waiting, consoles, fleet, cuts>>

\* A response is for whoever waits under its id, whichever socket brings it.
PlaneReceives(c) ==
  /\ toPlane[c] # <<>> /\ conn[c].plane \in {"open", "closing"}
  /\ LET m == Head(toPlane[c])
     IN /\ toPlane' = [toPlane EXCEPT ![c] = Tail(@)]
        /\ IF m.kind = "response"
           THEN Settle({m.id} \cap waiting, "answered") /\ UNCHANGED terminals
           ELSE terminals' = terminals \ {m.id} /\ UNCHANGED <<request, waiting>>
  /\ UNCHANGED <<sockets, conn, toNode, handling, browser, shell, overtaken, fleet, cuts>>

\* The route deletes the node's row; once that is committed, close() drops its
\* socket and fails its requests, and no other node's.
RemoveNode(n) ==
  /\ n \notin deregistered
  /\ deregistered' = deregistered \cup {n} /\ closing' = closing \cup {n}
  /\ UNCHANGED <<sockets, conn, wires, http, consoles, cuts>>

CloseNode(n) ==
  /\ n \in closing /\ closing' = closing \ {n}
  /\ IF sockets[n] = NoConn THEN UNCHANGED <<sockets, conn, request, waiting>>
     ELSE /\ sockets' = [sockets EXCEPT ![n] = NoConn]
          /\ conn' = [conn EXCEPT ![sockets[n]].plane = IF @ = "open" THEN "closing" ELSE @]
          /\ Settle({r \in waiting : request[r].node = n}, "failed")
  /\ UNCHANGED <<wires, handling, consoles, deregistered, cuts>>

-----------------------------------------------------------------------------
(* Terminals. *)

StartTerminal(n) ==
  /\ Reachable(n)
  /\ \E t \in NextTerminal :
       /\ browser' = [browser EXCEPT ![t] = [node |-> n, end |-> "open"]]
       /\ terminals' = terminals \cup {t}
       /\ SendToNode(n, Message("start", t))
  /\ UNCHANGED <<sockets, conn, toPlane, http, shell, overtaken, fleet, cuts>>

\* The browser goes, or its authorisation does: closeTerminal tells the node,
\* over the socket it has by now, if it has one.
BrowserCloses(t) ==
  /\ browser[t].end = "open"
  /\ browser' = [browser EXCEPT ![t].end = "closed"]
  /\ terminals' = terminals \ {t}
  /\ \/ Reachable(browser[t].node) /\ SendToNode(browser[t].node, Message("close", t))
     \/ ~Reachable(browser[t].node) /\ UNCHANGED toNode
  /\ UNCHANGED <<sockets, conn, toPlane, http, shell, overtaken, fleet, cuts>>

\* The agent's read loop: a close is done at once, a request and a start are
\* left to goroutines.
NodeReceives(c) ==
  /\ Serving(c) /\ ~conn[c].lost /\ toNode[c] # <<>>
  /\ LET m == Head(toNode[c])
     IN /\ toNode' = [toNode EXCEPT ![c] = Tail(@)]
        /\ handling' = IF m.kind = "http" THEN handling \cup {m.id} ELSE handling
        /\ shell' = CASE m.kind = "start" ->
                           [shell EXCEPT ![m.id] = [at |-> "starting", on |-> c]]
                      [] m.kind = "close" /\ shell[m.id].at = "running" ->
                           [shell EXCEPT ![m.id].at = "ended"]
                      [] OTHER -> shell
        /\ overtaken' = IF m.kind = "close" /\ shell[m.id].at = "starting"
                        THEN overtaken \cup {m.id} ELSE overtaken
  /\ UNCHANGED <<sockets, conn, toPlane, request, waiting, browser, terminals, fleet, cuts>>

\* Manager.Start gets the lock; by then the connection may be gone, its CloseAll
\* done, or the close of this very terminal.
StartShell(t) ==
  /\ shell[t].at = "starting"
  /\ shell' = [shell EXCEPT ![t].at = "running"]
  /\ overtaken' = IF Serving(shell[t].on) THEN overtaken ELSE overtaken \cup {t}
  /\ UNCHANGED <<sockets, conn, wires, http, browser, terminals, fleet, cuts>>

\* The shell ends, or it could not be started: the browser is told either way.
ShellExits(t) ==
  /\ shell[t].at \in {"starting", "running"}
  /\ shell' = [shell EXCEPT ![t].at = "ended"]
  /\ Answer(browser[t].node, Message("ended", t))
  /\ UNCHANGED <<sockets, conn, toNode, http, browser, terminals, overtaken, fleet, cuts>>

-----------------------------------------------------------------------------
TunnelNext ==
  \/ \E n \in TunnelNodes : \/ AuthenticateUpgrade(n) \/ ForwardHttpRequest(n) \/ RemoveNode(n)
                            \/ CloseNode(n) \/ StartTerminal(n)
  \/ \E c \in Conns : \/ Register(c) \/ SocketClosed(c) \/ AgentDisconnects(c) \/ LinkLost(c)
                      \/ PlaneReceives(c) \/ NodeReceives(c)
  \/ \E r \in Requests : RequestTimesOut(r) \/ HandleHttpRequest(r)
  \/ \E t \in Terminals : BrowserCloses(t) \/ StartShell(t) \/ ShellExits(t)

TunnelSpec == TunnelInit /\ [][TunnelNext]_tunnelVars

-----------------------------------------------------------------------------
\* A request is answered, failed, or still in the map with its timer running:
\* no loss, no removal and no late answer leaves a client waiting for ever.
NoneForgotten == \A r \in Requests : request[r].state = "open" <=> r \in waiting

\* However connections overlap, close late or are replaced, the one of a node
\* that is open is the one its requests take and its removal closes: none stays
\* open that the registry has lost sight of.
OpenIsRegistered ==
  \A c \in Conns : conn[c].plane = "open" => sockets[conn[c].node] = c

\* A shell runs on a node only while the connection that asked for it lives, and
\* once its browser is gone only until the message that says so has arrived;
\* except where the start of the shell was overtaken.
ShellsEnd ==
  \A t \in Terminals : shell[t].at = "running" /\ t \notin overtaken =>
    LET c == shell[t].on
    IN /\ Serving(c)
       /\ \/ browser[t].end = "open"
          \/ conn[c].lost \/ conn[c].plane # "open"
          \/ \E i \in DOMAIN toNode[c] : toNode[c][i] = Message("close", t)
=============================================================================
