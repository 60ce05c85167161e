--------------------------- MODULE TrafficProofs ----------------------------
(* What is proved of Tunnel and of Ingress, for every set of nodes and of   *)
(* services and every bound.                                                *)
EXTENDS Tunnel, Ingress, SequenceTheorems, TLAPS

-----------------------------------------------------------------------------
(* Tunnel: the types, that no request is forgotten, and what the registry   *)
(* knows.                                                                   *)

USE TunnelBounds, NoConnAssumption

PlaneStates == {"none", "auth", "open", "closing", "closed"}
AgentStates == {"none", "open", "closed"}

LEMMA EndsChange ==
  ASSUME NEW e \in Ends
  PROVE  /\ \A p \in PlaneStates : [e EXCEPT !.plane = p] \in Ends
         /\ \A a \in AgentStates : [e EXCEPT !.agent = a] \in Ends
         /\ \A l \in BOOLEAN : [e EXCEPT !.lost = l] \in Ends
         /\ \A p \in PlaneStates, a \in AgentStates :
              [e EXCEPT !.plane = p, !.agent = a] \in Ends
  BY DEF Ends, PlaneStates, AgentStates

LEMMA TunnelInitially == TunnelInit => TunnelTypeOK
  BY EmptySeq DEF TunnelInit, TunnelTypeOK, NoEnds, Ends, NoShell

LEMMA Sending ==
  ASSUME TunnelTypeOK, NEW n, NEW m \in NodeMessage, SendToNode(n, m)
  PROVE  toNode' \in [Conns -> Seq(NodeMessage)]
<1>1. ASSUME NEW c \in Conns PROVE Append(toNode[c], m) \in Seq(NodeMessage)
  BY AppendProperties DEF TunnelTypeOK
<1> QED BY <1>1 DEF TunnelTypeOK, SendToNode

LEMMA Answering ==
  ASSUME TunnelTypeOK, NEW n, NEW m \in PlaneMessage, Answer(n, m)
  PROVE  toPlane' \in [Conns -> Seq(PlaneMessage)]
<1>1. ASSUME NEW c \in Conns PROVE Append(toPlane[c], m) \in Seq(PlaneMessage)
  BY AppendProperties DEF TunnelTypeOK
<1> QED BY <1>1 DEF Answer, TunnelTypeOK

LEMMA Settling ==
  ASSUME TunnelTypeOK, NEW rs, NEW how \in {"answered", "failed"}, Settle(rs, how)
  PROVE  /\ waiting' \subseteq Requests
         /\ request' \in [Requests -> [node : TunnelNodes \cup {NoConn},
                                       state : {"none", "open", "answered", "failed"}]]
  BY DEF TunnelTypeOK, Settle

LEMMA TunnelTypeStep == TunnelTypeOK /\ [TunnelNext]_tunnelVars => TunnelTypeOK'
<1> SUFFICES ASSUME TunnelTypeOK, [TunnelNext]_tunnelVars PROVE TunnelTypeOK'
    OBVIOUS
<1> USE DEF TunnelTypeOK, wires, http, consoles, fleet
<1>1. ASSUME NEW n \in TunnelNodes, AuthenticateUpgrade(n) PROVE TunnelTypeOK'
  BY <1>1 DEF AuthenticateUpgrade, NextConn, Numbered, Ends
<1>2. ASSUME NEW n \in TunnelNodes, ForwardHttpRequest(n) PROVE TunnelTypeOK'
  <2> PICK r \in NextRequest : /\ request' = [request EXCEPT ![r] = [node |-> n, state |-> "open"]]
                               /\ waiting' = waiting \cup {r}
                               /\ SendToNode(n, Message("http", r))
    BY <1>2 DEF ForwardHttpRequest
  <2>1. r \in Requests /\ Message("http", r) \in NodeMessage
    BY DEF NextRequest, Numbered, Message, NodeMessage
  <2>2. toNode' \in [Conns -> Seq(NodeMessage)]
    BY <1>2, <2>1, Sending DEF ForwardHttpRequest
  <2> QED BY <1>2, <2>1, <2>2 DEF ForwardHttpRequest
<1>3. ASSUME NEW n \in TunnelNodes, RemoveNode(n) PROVE TunnelTypeOK'
  BY <1>3 DEF RemoveNode
<1>4. ASSUME NEW n \in TunnelNodes, CloseNode(n) PROVE TunnelTypeOK'
  <2>1. CASE sockets[n] = NoConn
    BY <1>4, <2>1 DEF CloseNode
  <2>2. CASE sockets[n] # NoConn
    <3>1. sockets[n] \in Conns
      BY <2>2
    <3>2. conn' \in [Conns -> Ends]
      <4>1. \A p \in PlaneStates : [conn[sockets[n]] EXCEPT !.plane = p] \in Ends
        BY <3>1, EndsChange DEF AgentStates
      <4>2. conn[sockets[n]].plane \in PlaneStates /\ "closing" \in PlaneStates
        BY <3>1 DEF Ends, PlaneStates
      <4> QED BY <1>4, <2>2, <3>1, <4>1, <4>2 DEF CloseNode
    <3>3. Settle({r \in waiting : request[r].node = n}, "failed")
      BY <1>4, <2>2 DEF CloseNode
    <3> QED BY <1>4, <2>2, <3>2, <3>3, Settling DEF CloseNode
  <2> QED BY <2>1, <2>2
<1>5. ASSUME NEW n \in TunnelNodes, StartTerminal(n) PROVE TunnelTypeOK'
  <2> PICK t \in NextTerminal : /\ browser' = [browser EXCEPT ![t] = [node |-> n, end |-> "open"]]
                                /\ terminals' = terminals \cup {t}
                                /\ SendToNode(n, Message("start", t))
    BY <1>5 DEF StartTerminal
  <2>1. t \in Terminals /\ Message("start", t) \in NodeMessage
    BY DEF NextTerminal, Numbered, Message, NodeMessage
  <2>2. toNode' \in [Conns -> Seq(NodeMessage)]
    BY <1>5, <2>1, Sending DEF StartTerminal
  <2> QED BY <1>5, <2>1, <2>2 DEF StartTerminal
<1>6. ASSUME NEW c \in Conns, Register(c) PROVE TunnelTypeOK'
  <2>1. conn' \in [Conns -> Ends]
    <3>1. conn[c] \in Ends /\ [conn[c] EXCEPT !.plane = "open", !.agent = "open"] \in Ends
      BY EndsChange DEF PlaneStates, AgentStates
    <3>2. \A i \in Conns : conn[i] \in Ends /\ [conn[i] EXCEPT !.plane = "closing"] \in Ends
      BY EndsChange DEF PlaneStates, AgentStates
    <3> QED BY <1>6, <3>1, <3>2 DEF Register
  <2>2. sockets' \in [TunnelNodes -> Conns \cup {NoConn}]
    BY <1>6 DEF Register
  <2> QED BY <1>6, <2>1, <2>2 DEF Register
<1>7. ASSUME NEW c \in Conns, SocketClosed(c) PROVE TunnelTypeOK'
  <2>1. conn' \in [Conns -> Ends]
    <3>1. conn[c] \in Ends /\ [conn[c] EXCEPT !.plane = "closed"] \in Ends
      BY EndsChange DEF PlaneStates
    <3> QED BY <1>7, <3>1 DEF SocketClosed
  <2>3. sockets' \in [TunnelNodes -> Conns \cup {NoConn}]
    BY <1>7 DEF SocketClosed, SocketsWithout
  <2>2. toPlane' \in [Conns -> Seq(PlaneMessage)] /\ toNode' \in [Conns -> Seq(NodeMessage)]
    BY <1>7, EmptySeq DEF SocketClosed
  <2> QED BY <1>7, <2>1, <2>2, <2>3 DEF SocketClosed
<1>8. ASSUME NEW c \in Conns, AgentDisconnects(c) PROVE TunnelTypeOK'
  <2>1. conn' \in [Conns -> Ends]
    <3>1. conn[c] \in Ends /\ [conn[c] EXCEPT !.agent = "closed"] \in Ends
      BY EndsChange DEF AgentStates
    <3> QED BY <1>8, <3>1 DEF AgentDisconnects
  <2>4. cuts' \in 0..MaxCuts
    BY <1>8 DEF AgentDisconnects
  <2>2. toNode' \in [Conns -> Seq(NodeMessage)]
    BY <1>8, EmptySeq DEF AgentDisconnects
  <2>3. shell' \in [Terminals -> [at : {"none", "starting", "running", "ended"},
                                  on : Conns \cup {NoConn}]]
    BY <1>8 DEF AgentDisconnects, ClosedAll
  <2> QED BY <1>8, <2>1, <2>2, <2>3, <2>4 DEF AgentDisconnects
<1>9. ASSUME NEW c \in Conns, LinkLost(c) PROVE TunnelTypeOK'
  <2>1. conn' \in [Conns -> Ends]
    <3>1. conn[c] \in Ends /\ [conn[c] EXCEPT !.lost = TRUE] \in Ends
      BY EndsChange
    <3> QED BY <1>9, <3>1 DEF LinkLost
  <2>3. cuts' \in 0..MaxCuts
    BY <1>9 DEF LinkLost
  <2>2. toPlane' \in [Conns -> Seq(PlaneMessage)] /\ toNode' \in [Conns -> Seq(NodeMessage)]
    BY <1>9, EmptySeq DEF LinkLost
  <2> QED BY <1>9, <2>1, <2>2, <2>3 DEF LinkLost
<1>10. ASSUME NEW c \in Conns, PlaneReceives(c) PROVE TunnelTypeOK'
  <2>1. toPlane[c] \in Seq(PlaneMessage) /\ toPlane[c] # <<>>
    BY <1>10 DEF PlaneReceives
  <2>2. Tail(toPlane[c]) \in Seq(PlaneMessage)
    BY <2>1, HeadTailProperties
  <2>3. toPlane' \in [Conns -> Seq(PlaneMessage)]
    BY <1>10, <2>2 DEF PlaneReceives
  <2>4. CASE Head(toPlane[c]).kind = "response"
    <3>1. Settle({Head(toPlane[c]).id} \cap waiting, "answered")
      BY <1>10, <2>4 DEF PlaneReceives
    <3> QED BY <1>10, <2>3, <2>4, <3>1, Settling DEF PlaneReceives
  <2>5. CASE Head(toPlane[c]).kind # "response"
    BY <1>10, <2>3, <2>5 DEF PlaneReceives
  <2> QED BY <2>4, <2>5
<1>11. ASSUME NEW c \in Conns, NodeReceives(c) PROVE TunnelTypeOK'
  <2> DEFINE m == Head(toNode[c])
  <2>1. toNode[c] \in Seq(NodeMessage) /\ toNode[c] # <<>>
    BY <1>11 DEF NodeReceives
  <2>2. m \in NodeMessage /\ Tail(toNode[c]) \in Seq(NodeMessage)
    BY <2>1, HeadTailProperties
  <2>3. toNode' \in [Conns -> Seq(NodeMessage)]
    BY <1>11, <2>2 DEF NodeReceives
  <2>4. handling' \subseteq Requests /\ overtaken' \subseteq Terminals
    BY <1>11, <2>2 DEF NodeReceives, NodeMessage
  <2>5. shell' \in [Terminals -> [at : {"none", "starting", "running", "ended"},
                                  on : Conns \cup {NoConn}]]
    <3> DEFINE Shells == [at : {"none", "starting", "running", "ended"},
                          on : Conns \cup {NoConn}]
    <3>1. [at |-> "starting", on |-> c] \in Shells
      OBVIOUS
    <3>2. \A t \in Terminals : [shell[t] EXCEPT !.at = "ended"] \in Shells
      OBVIOUS
    <3>3. CASE m.kind = "start"
      BY <1>11, <2>2, <3>1, <3>3 DEF NodeReceives, NodeMessage
    <3>4. CASE m.kind = "close" /\ shell[m.id].at = "running"
      BY <1>11, <2>2, <3>2, <3>4 DEF NodeReceives, NodeMessage
    <3>5. CASE m.kind # "start" /\ ~(m.kind = "close" /\ shell[m.id].at = "running")
      BY <1>11, <3>5 DEF NodeReceives
    <3> QED BY <3>3, <3>4, <3>5
  <2> QED BY <1>11, <2>3, <2>4, <2>5 DEF NodeReceives
<1>12. ASSUME NEW r \in Requests, RequestTimesOut(r) PROVE TunnelTypeOK'
  BY <1>12, Settling DEF RequestTimesOut
<1>13. ASSUME NEW r \in Requests, HandleHttpRequest(r) PROVE TunnelTypeOK'
  <2>1. Message("response", r) \in PlaneMessage
    BY DEF Message, PlaneMessage
  <2>2. toPlane' \in [Conns -> Seq(PlaneMessage)]
    BY <1>13, <2>1, Answering DEF HandleHttpRequest
  <2> QED BY <1>13, <2>2 DEF HandleHttpRequest
<1>14. ASSUME NEW t \in Terminals, BrowserCloses(t) PROVE TunnelTypeOK'
  <2>1. Message("close", t) \in NodeMessage /\ browser[t].node \in TunnelNodes \cup {NoConn}
    BY DEF Message, NodeMessage
  <2>2. toNode' \in [Conns -> Seq(NodeMessage)]
    <3>1. CASE Reachable(browser[t].node) /\ SendToNode(browser[t].node, Message("close", t))
      BY <2>1, <3>1, Sending
    <3>2. CASE UNCHANGED toNode
      BY <3>2
    <3> QED BY <1>14, <3>1, <3>2 DEF BrowserCloses
  <2> QED BY <1>14, <2>2 DEF BrowserCloses
<1>15. ASSUME NEW t \in Terminals, StartShell(t) PROVE TunnelTypeOK'
  BY <1>15 DEF StartShell
<1>16. ASSUME NEW t \in Terminals, ShellExits(t) PROVE TunnelTypeOK'
  <2>1. Message("ended", t) \in PlaneMessage
    BY DEF Message, PlaneMessage
  <2>2. toPlane' \in [Conns -> Seq(PlaneMessage)]
    BY <1>16, <2>1, Answering DEF ShellExits
  <2> QED BY <1>16, <2>2 DEF ShellExits
<1>17. CASE UNCHANGED tunnelVars
  BY <1>17 DEF tunnelVars
<1> QED
  BY <1>1, <1>2, <1>3, <1>4, <1>5, <1>6, <1>7, <1>8, <1>9, <1>10, <1>11, <1>12, <1>13,
     <1>14, <1>15, <1>16, <1>17 DEF TunnelNext

\* The state of the tunnel stays within its types: no message goes where no
\* connection is, and no request, terminal or shell but those that were opened.
THEOREM TunnelTyped == TunnelSpec => []TunnelTypeOK
  BY TunnelInitially, TunnelTypeStep, PTL DEF TunnelSpec

-----------------------------------------------------------------------------
(* Requests: whoever takes one out of the map settles it. *)

LEMMA SettlingForgetsNone ==
  ASSUME TunnelTypeOK, NoneForgotten, NEW rs \in SUBSET waiting,
         NEW how \in {"answered", "failed"}, Settle(rs, how)
  PROVE  NoneForgotten'
<1> SUFFICES ASSUME NEW r \in Requests
             PROVE  request'[r].state = "open" <=> r \in waiting'
  BY DEF NoneForgotten
<1>1. request[r].state = "open" <=> r \in waiting
  BY DEF NoneForgotten
<1>2. CASE r \in rs
  BY <1>2 DEF Settle, TunnelTypeOK
<1>3. CASE r \notin rs
  BY <1>1, <1>3 DEF Settle
<1> QED BY <1>2, <1>3

LEMMA NoneForgottenStep ==
  TunnelTypeOK /\ NoneForgotten /\ [TunnelNext]_tunnelVars => NoneForgotten'
<1> SUFFICES ASSUME TunnelTypeOK, NoneForgotten, [TunnelNext]_tunnelVars PROVE NoneForgotten'
    OBVIOUS
<1>1. ASSUME NEW n \in TunnelNodes, ForwardHttpRequest(n) PROVE NoneForgotten'
  <2> PICK s \in NextRequest : /\ request' = [request EXCEPT ![s] = [node |-> n, state |-> "open"]]
                               /\ waiting' = waiting \cup {s}
    BY <1>1 DEF ForwardHttpRequest
  <2> SUFFICES ASSUME NEW r \in Requests
               PROVE  request'[r].state = "open" <=> r \in waiting'
    BY DEF NoneForgotten
  <2>1. CASE r = s
    BY <2>1 DEF TunnelTypeOK
  <2>2. CASE r # s
    BY <2>2 DEF TunnelTypeOK, NoneForgotten
  <2> QED BY <2>1, <2>2
<1>2. ASSUME NEW r \in Requests, RequestTimesOut(r) PROVE NoneForgotten'
  BY <1>2, SettlingForgetsNone DEF RequestTimesOut
<1>3. ASSUME NEW n \in TunnelNodes, CloseNode(n) PROVE NoneForgotten'
  <2>1. CASE sockets[n] = NoConn
    BY <1>3, <2>1 DEF CloseNode, NoneForgotten
  <2>2. CASE sockets[n] # NoConn
    <3>1. Settle({r \in waiting : request[r].node = n}, "failed")
      BY <1>3, <2>2 DEF CloseNode
    <3> QED BY <3>1, SettlingForgetsNone
  <2> QED BY <2>1, <2>2
<1>4. ASSUME NEW c \in Conns, PlaneReceives(c) PROVE NoneForgotten'
  <2>1. CASE Head(toPlane[c]).kind = "response"
    <3>1. Settle({Head(toPlane[c]).id} \cap waiting, "answered")
      BY <1>4, <2>1 DEF PlaneReceives
    <3> QED BY <3>1, SettlingForgetsNone
  <2>2. CASE Head(toPlane[c]).kind # "response"
    BY <1>4, <2>2 DEF PlaneReceives, NoneForgotten
  <2> QED BY <2>1, <2>2
<1>5. CASE UNCHANGED <<request, waiting>>
  BY <1>5 DEF NoneForgotten
<1> QED
  BY <1>1, <1>2, <1>3, <1>4, <1>5 DEF TunnelNext, tunnelVars, http, AuthenticateUpgrade,
     RemoveNode, StartTerminal, Register, SocketClosed, AgentDisconnects, LinkLost,
     NodeReceives, HandleHttpRequest, BrowserCloses, StartShell, ShellExits

\* No request is forgotten: however its connection ends, whatever answer comes
\* late and whichever node is removed, it is settled or its timer still runs.
THEOREM RequestsNeverForgotten == TunnelSpec => []NoneForgotten
<1>1. TunnelInit => NoneForgotten
  BY DEF TunnelInit, NoneForgotten
<1> QED BY <1>1, TunnelTyped, NoneForgottenStep, PTL DEF TunnelSpec

-----------------------------------------------------------------------------
(* Connections: no socket is open that the registry has lost sight of. *)

\* Whoever was let in belongs to a node.
Admitted == \A c \in Conns : conn[c].plane # "none" => conn[c].node \in TunnelNodes

RegistryInv == TunnelTypeOK /\ Admitted /\ OpenIsRegistered

LEMMA RegistryStep == RegistryInv /\ [TunnelNext]_tunnelVars => RegistryInv'
<1> SUFFICES ASSUME RegistryInv, [TunnelNext]_tunnelVars PROVE RegistryInv'
    OBVIOUS
<1> USE DEF RegistryInv
<1>1. TunnelTypeOK'
  BY TunnelTypeStep
<1> SUFFICES ASSUME NEW d \in Conns
             PROVE  /\ conn'[d].plane # "none" => conn'[d].node \in TunnelNodes
                    /\ conn'[d].plane = "open" => sockets'[conn'[d].node] = d
  BY <1>1 DEF Admitted, OpenIsRegistered
<1> DEFINE Goal == /\ conn'[d].plane # "none" => conn'[d].node \in TunnelNodes
                   /\ conn'[d].plane = "open" => sockets'[conn'[d].node] = d
<1>2. /\ conn[d].plane # "none" => conn[d].node \in TunnelNodes
      /\ conn[d].plane = "open" => sockets[conn[d].node] = d
  BY DEF Admitted, OpenIsRegistered
<1>3. conn \in [Conns -> Ends] /\ sockets \in [TunnelNodes -> Conns \cup {NoConn}]
  BY DEF TunnelTypeOK
<1>4. ASSUME NEW n \in TunnelNodes, AuthenticateUpgrade(n) PROVE Goal
  <2> PICK c \in NextConn : conn' = [conn EXCEPT ![c].node = n, ![c].plane = "auth"]
    BY <1>4 DEF AuthenticateUpgrade
  <2>1. CASE c = d
    BY <1>3, <2>1 DEF Ends
  <2>2. CASE c # d
    BY <1>2, <1>3, <1>4, <2>2 DEF AuthenticateUpgrade
  <2> QED BY <2>1, <2>2
<1>5. ASSUME NEW c \in Conns, Register(c) PROVE Goal
  <2>1. conn[c].node \in TunnelNodes
    BY <1>5 DEF Register, Admitted
  <2>2. CASE d = c
    BY <1>3, <1>5, <2>1, <2>2 DEF Register, Ends
  <2>3. CASE d # c /\ d = sockets[conn[c].node]
    BY <1>2, <1>3, <1>5, <2>1, <2>3 DEF Register, Ends
  <2>4. CASE d # c /\ d # sockets[conn[c].node]
    <3>1. conn'[d] = conn[d]
      BY <1>5, <2>4 DEF Register
    <3>2. conn[d].plane = "open" => conn[d].node # conn[c].node
      BY <1>2, <2>4
    <3> QED BY <1>2, <1>3, <1>5, <2>1, <3>1, <3>2 DEF Register
  <2> QED BY <2>2, <2>3, <2>4
<1>6. ASSUME NEW c \in Conns, SocketClosed(c) PROVE Goal
  <2>1. CASE d = c
    BY <1>2, <1>3, <1>6, <2>1 DEF SocketClosed, Ends
  <2>2. CASE d # c
    BY <1>2, <1>3, <1>6, <2>2 DEF SocketClosed, SocketsWithout
  <2> QED BY <2>1, <2>2
<1>7. ASSUME NEW c \in Conns, AgentDisconnects(c) PROVE Goal
  BY <1>2, <1>3, <1>7 DEF AgentDisconnects, Ends
<1>8. ASSUME NEW c \in Conns, LinkLost(c) PROVE Goal
  BY <1>2, <1>3, <1>8 DEF LinkLost, Ends
<1>9. ASSUME NEW n \in TunnelNodes, CloseNode(n) PROVE Goal
  <2>1. CASE sockets[n] = NoConn
    BY <1>2, <1>9, <2>1 DEF CloseNode
  <2>2. CASE sockets[n] # NoConn /\ d = sockets[n]
    BY <1>2, <1>3, <1>9, <2>2 DEF CloseNode, Ends
  <2>3. CASE sockets[n] # NoConn /\ d # sockets[n]
    BY <1>2, <1>3, <1>9, <2>3 DEF CloseNode
  <2> QED BY <2>1, <2>2, <2>3
<1>10. CASE UNCHANGED <<conn, sockets>>
  BY <1>2, <1>10
<1> QED
  BY <1>4, <1>5, <1>6, <1>7, <1>8, <1>9, <1>10 DEF TunnelNext, tunnelVars, ForwardHttpRequest,
     RemoveNode, StartTerminal, PlaneReceives, NodeReceives, RequestTimesOut,
     HandleHttpRequest, BrowserCloses, StartShell, ShellExits

\* Whenever a socket of a node is open on the control plane, it is the one the
\* registry has for that node, whatever was registered, closed or lost before.
THEOREM RegistryKnowsTheOpen == TunnelSpec => []OpenIsRegistered
<1>1. TunnelInit => RegistryInv
  BY TunnelInitially DEF TunnelInit, RegistryInv, Admitted, OpenIsRegistered, NoEnds
<1>2. RegistryInv => OpenIsRegistered
  BY DEF RegistryInv
<1> QED BY <1>1, <1>2, RegistryStep, PTL DEF TunnelSpec

-----------------------------------------------------------------------------
(* Terminals: no shell is left behind. What is on its way to the nodes is    *)
(* part of the invariant: a start comes once and before its close.           *)

Entered(c) == conn[c].plane \notin {"none", "auth"}
Ending(c)  == conn[c].lost \/ conn[c].plane # "open"
Coming(c, i, kind, t) == i \in DOMAIN toNode[c] /\ toNode[c][i] = Message(kind, t)

\* The close of t follows what is at i, or need not: the browser is there, or
\* the connection is ending.
CloseFollows(c, i, t) ==
  browser[t].end = "open" \/ Ending(c) \/ \E j \in Nat : j > i /\ Coming(c, j, "close", t)

\* A connection is its node's, and nothing is sent or served before it is open.
Belonging ==
  /\ \A n \in TunnelNodes : sockets[n] # NoConn => conn[sockets[n]].node = n /\ Entered(sockets[n])
  /\ \A c \in Conns : ~Entered(c) => ~Serving(c) /\ toNode[c] = <<>>

StartsOnce ==
  \A c, d \in Conns : \A i, j \in Nat, t \in Terminals :
    Coming(c, i, "start", t) /\ Coming(d, j, "start", t) => c = d /\ i = j

\* A start on its way is to the terminal's node, which has no shell for it yet.
StartsComing ==
  \A c \in Conns : \A i \in Nat, t \in Terminals : Coming(c, i, "start", t) =>
    /\ shell[t].at = "none" /\ browser[t].end # "none" /\ browser[t].node = conn[c].node
    /\ CloseFollows(c, i, t)

\* A shell was asked for over a connection of its terminal's node; while that is
\* served, its close will follow.
ShellsAsked ==
  \A t \in Terminals :
    /\ browser[t].end = "none" => shell[t].at = "none"
    /\ shell[t].at \in {"starting", "running"} =>
         /\ shell[t].on \in Conns /\ Entered(shell[t].on)
         /\ conn[shell[t].on].node = browser[t].node
         /\ t \notin overtaken /\ Serving(shell[t].on) => CloseFollows(shell[t].on, 0, t)
    /\ shell[t].at = "running" /\ t \notin overtaken => Serving(shell[t].on)

\* Whose browser opened a terminal, it is of a node.
Placed == \A t \in Terminals : browser[t].end # "none" => browser[t].node \in TunnelNodes

Attended == Belonging /\ StartsOnce /\ StartsComing /\ ShellsAsked /\ Placed

LEMMA Registered ==
  ASSUME RegistryInv
  PROVE  /\ conn \in [Conns -> Ends] /\ sockets \in [TunnelNodes -> Conns \cup {NoConn}]
         /\ NoConn \notin Conns
         /\ shell \in [Terminals -> [at : {"none", "starting", "running", "ended"}, on : Conns \cup {NoConn}]]
         /\ toNode \in [Conns -> Seq(NodeMessage)]
         /\ \A c \in Conns : conn[c].plane # "none" => conn[c].node \in TunnelNodes
  BY NoConnAssumption, TunnelBounds DEF RegistryInv, TunnelTypeOK, Admitted, Conns

\* Connections are entered once, and end for good.
Onwards == \A d \in Conns : Entered(d) =>
  /\ Entered(d)' /\ conn'[d].node = conn[d].node
  /\ Ending(d) => Ending(d)'
  /\ Serving(d)' => Serving(d)

\* What the steps of the connections, of requests and of running shells do.
WindsDown ==
  /\ browser' = browser /\ overtaken \subseteq overtaken' /\ Onwards
  /\ \A d \in Conns : \/ toNode'[d] = toNode[d]
                      \/ toNode'[d] = <<>> /\ (Ending(d)' \/ ~Serving(d)')
  /\ \A t \in Terminals :
       \/ shell'[t] = shell[t] /\ (shell[t].at = "running" /\ Serving(shell[t].on) => Serving(shell[t].on)')
       \/ shell[t].at # "none" /\ shell'[t].at = "ended"
       \/ /\ shell[t].at = "starting" /\ shell'[t].at = "running" /\ shell'[t].on = shell[t].on
          /\ conn' = conn /\ (t \notin overtaken' => Serving(shell[t].on))

LEMMA DownAttended ==
  ASSUME RegistryInv, Attended, WindsDown
  PROVE  (StartsOnce /\ StartsComing /\ ShellsAsked)'
<1> USE DEF Attended
<1>1. \A d \in Conns : \A i, kind, t : Coming(d, i, kind, t)' => Coming(d, i, kind, t)
  BY DEF WindsDown, Coming
<1>2. StartsOnce'
  BY <1>1 DEF StartsOnce
<1>3. ASSUME NEW d \in Conns, NEW t \in Terminals, NEW i \in Nat, Entered(d), CloseFollows(d, i, t),
             toNode'[d] = toNode[d] \/ Ending(d)'
      PROVE  CloseFollows(d, i, t)'
  BY <1>3 DEF WindsDown, Onwards, CloseFollows, Coming
<1>4. ASSUME NEW d \in Conns, NEW i \in Nat, NEW t \in Terminals, Coming(d, i, "start", t)'
      PROVE  /\ shell'[t].at = "none" /\ browser'[t].end # "none" /\ browser'[t].node = conn'[d].node
             /\ CloseFollows(d, i, t)'
  <2>1. Coming(d, i, "start", t)
    BY <1>1, <1>4
  <2>2. toNode'[d] # <<>> /\ toNode[d] # <<>>
    BY <1>4, <2>1 DEF Coming
  <2>3. Entered(d) /\ toNode'[d] = toNode[d]
    BY <2>2 DEF Belonging, WindsDown
  <2>4. /\ shell[t].at = "none" /\ browser[t].end # "none" /\ browser[t].node = conn[d].node
        /\ CloseFollows(d, i, t)
    BY <2>1 DEF StartsComing
  <2>5. CloseFollows(d, i, t)'
    BY <1>3, <2>3, <2>4
  <2> QED BY <2>3, <2>4, <2>5 DEF WindsDown, Onwards
<1>5. ASSUME NEW t \in Terminals
      PROVE  /\ browser'[t].end = "none" => shell'[t].at = "none"
             /\ shell'[t].at \in {"starting", "running"} =>
                  /\ shell'[t].on \in Conns /\ Entered(shell[t].on)'
                  /\ conn'[shell'[t].on].node = browser'[t].node
                  /\ t \notin overtaken' /\ Serving(shell[t].on)' => CloseFollows(shell[t].on, 0, t)'
             /\ shell'[t].at = "running" /\ t \notin overtaken' => Serving(shell[t].on)'
  <2> PICK d : d = shell[t].on
    OBVIOUS
  <2>1. /\ browser[t].end = "none" => shell[t].at = "none"
        /\ shell[t].at \in {"starting", "running"} =>
             /\ d \in Conns /\ Entered(d) /\ conn[d].node = browser[t].node
             /\ t \notin overtaken /\ Serving(d) => CloseFollows(d, 0, t)
        /\ shell[t].at = "running" /\ t \notin overtaken => Serving(d)
    BY DEF ShellsAsked
  <2>2. ASSUME shell'[t].at \in {"starting", "running"}
        PROVE  /\ shell[t].at \in {"starting", "running"} /\ shell'[t].on = d
               /\ shell'[t].at = "running" /\ t \notin overtaken' => Serving(d)'
    BY <2>1, <2>2 DEF WindsDown, Serving
  <2>3. ASSUME shell'[t].at \in {"starting", "running"}, t \notin overtaken', Serving(d)'
        PROVE  CloseFollows(d, 0, t)'
    <3>1. d \in Conns /\ Entered(d)
      BY <2>1, <2>2, <2>3
    <3>2. Serving(d) /\ t \notin overtaken
      BY <2>3, <3>1 DEF WindsDown, Onwards
    <3>3. CloseFollows(d, 0, t)
      BY <2>1, <2>2, <2>3, <3>2
    <3>4. toNode'[d] = toNode[d] \/ Ending(d)'
      BY <2>3, <3>1 DEF WindsDown
    <3> QED BY <1>3, <3>1, <3>3, <3>4
  <2>4. shell'[t].at \in {"starting", "running"} =>
          d \in Conns /\ Entered(d)' /\ conn'[d].node = browser'[t].node
    BY <2>1, <2>2 DEF WindsDown, Onwards
  <2>5. browser'[t].end = "none" => shell'[t].at = "none"
    BY <2>1 DEF WindsDown
  <2>6. shell'[t].at \in {"starting", "running"} => shell'[t].on = d
    BY <2>2
  <2> QED BY <2>2, <2>3, <2>4, <2>5, <2>6
<1>6. StartsComing'
  BY <1>4 DEF StartsComing
<1>7. ShellsAsked'
  BY <1>5 DEF ShellsAsked, Entered, Serving, CloseFollows, Coming, Ending
<1> QED BY <1>2, <1>6, <1>7

\* Connections are opened by two steps; the others leave them or end them.
LEMMA BelongingKept ==
  ASSUME RegistryInv, Belonging, Onwards,
         \A n \in TunnelNodes : sockets'[n] = sockets[n] \/ sockets'[n] = NoConn,
         \A d \in Conns : ~Entered(d) => ~Serving(d)' /\ toNode'[d] = toNode[d]
  PROVE  Belonging'
<1>1. ASSUME NEW n \in TunnelNodes, sockets'[n] # NoConn
      PROVE  conn'[sockets'[n]].node = n /\ Entered(sockets[n])'
  <2>1. sockets'[n] = sockets[n] /\ sockets[n] \in Conns
    BY <1>1, Registered
  <2> PICK c \in Conns : c = sockets[n]
    BY <2>1
  <2>2. conn[c].node = n /\ Entered(c)
    BY <1>1, <2>1 DEF Belonging
  <2>3. conn'[c].node = n /\ Entered(c)'
    BY <2>2 DEF Onwards
  <2> QED BY <2>1, <2>3 DEF Entered
<1>2. ASSUME NEW d \in Conns, ~Entered(d)' PROVE ~Serving(d)' /\ toNode'[d] = <<>>
  BY <1>2 DEF Belonging, Onwards
<1> QED BY <1>1, <1>2 DEF Belonging, Entered

LEMMA Winding ==
  ASSUME RegistryInv, Belonging, ShellsAsked,
         \/ \E n \in TunnelNodes : AuthenticateUpgrade(n) \/ RemoveNode(n) \/ CloseNode(n)
         \/ \E c \in Conns : \/ Register(c) \/ SocketClosed(c) \/ AgentDisconnects(c) \/ LinkLost(c)
                             \/ PlaneReceives(c)
         \/ \E r \in Requests : RequestTimesOut(r) \/ HandleHttpRequest(r)
         \/ \E t \in Terminals : StartShell(t) \/ ShellExits(t)
         \/ UNCHANGED tunnelVars
  PROVE  WindsDown /\ Belonging'
<1> USE DEF wires, consoles
<1>1. /\ conn \in [Conns -> Ends] /\ sockets \in [TunnelNodes -> Conns \cup {NoConn}]
      /\ NoConn \notin Conns
      /\ shell \in [Terminals -> [at : {"none", "starting", "running", "ended"}, on : Conns \cup {NoConn}]]
      /\ toNode \in [Conns -> Seq(NodeMessage)]
      /\ \A c \in Conns : conn[c].plane # "none" => conn[c].node \in TunnelNodes
  BY Registered
<1>2. \A d \in Conns : ~Entered(d) => ~Serving(d) /\ toNode[d] = <<>>
  BY DEF Belonging
<1>3. \A t \in Terminals : shell[t].at = "running" =>
        /\ shell[t].on \in Conns /\ Entered(shell[t].on)
        /\ conn[shell[t].on].node = browser[t].node
  BY DEF ShellsAsked
<1>4. ASSUME NEW n \in TunnelNodes, AuthenticateUpgrade(n) PROVE WindsDown /\ Belonging'
  <2> PICK c \in NextConn : conn' = [conn EXCEPT ![c].node = n, ![c].plane = "auth"]
    BY <1>4 DEF AuthenticateUpgrade
  <2>1. c \in Conns /\ conn[c].plane = "none" /\ ~Entered(c)
    BY DEF NextConn, Numbered, Entered
  <2>2. conn'[c].plane = "auth" /\ conn'[c].agent = conn[c].agent /\ \A d \in Conns \ {c} : conn'[d] = conn[d]
    BY <1>1, <2>1 DEF Ends
  <2>3. UNCHANGED <<sockets, toNode, browser, shell, overtaken>>
    BY <1>4 DEF AuthenticateUpgrade
  <2>4. \A d \in Conns : Entered(d) => conn'[d] = conn[d]
    BY <2>1, <2>2
  <2>5. Onwards
    BY <2>4 DEF Onwards, Entered, Ending, Serving
  <2>6. WindsDown
    BY <1>3, <2>3, <2>4, <2>5 DEF WindsDown, Serving
  <2>7. \A d \in Conns : ~Entered(d) => ~Serving(d)' /\ toNode'[d] = toNode[d]
    BY <1>2, <2>2, <2>3 DEF Serving
  <2> QED BY <2>3, <2>5, <2>6, <2>7, BelongingKept
<1>5. ASSUME NEW c \in Conns, Register(c) PROVE WindsDown /\ Belonging'
  <2> PICK n : n = conn[c].node
    OBVIOUS
  <2>1. n \in TunnelNodes /\ ~Entered(c)
    BY <1>1, <1>5 DEF Register, Entered
  <2>2. /\ conn'[c].plane = "open" /\ conn'[c].node = n
        /\ \A d \in Conns \ {c} : /\ conn'[d].node = conn[d].node /\ conn'[d].agent = conn[d].agent
                                  /\ conn'[d].lost = conn[d].lost
                                  /\ conn'[d].plane = conn[d].plane \/ (conn[d].plane = "open" /\ conn'[d].plane = "closing")
    BY <1>1, <1>5 DEF Register, Ends
  <2>3. UNCHANGED <<toNode, browser, shell, overtaken>> /\ sockets' = [sockets EXCEPT ![n] = c]
    BY <1>5 DEF Register
  <2>4. Onwards
    BY <2>1, <2>2 DEF Onwards, Entered, Ending, Serving
  <2>5. \A d \in Conns : Entered(d) => Serving(d)' = Serving(d)
    BY <2>1, <2>2 DEF Serving
  <2>6. \A t \in Terminals : shell[t].at = "running" /\ Serving(shell[t].on) => Serving(shell[t].on)'
    BY <1>3, <2>3, <2>5 DEF Serving
  <2>7. WindsDown
    BY <2>3, <2>4, <2>6 DEF WindsDown
  <2>8. ASSUME NEW m \in TunnelNodes, sockets'[m] # NoConn
        PROVE  conn'[sockets'[m]].node = m /\ Entered(sockets[m])'
    <3>1. CASE m = n
      BY <1>1, <2>2, <2>3, <3>1 DEF Entered
    <3>2. CASE m # n
      <4>1. sockets'[m] = sockets[m] /\ sockets[m] \in Conns
        BY <1>1, <2>3, <2>8, <3>2
      <4> PICK d \in Conns : d = sockets[m]
        BY <4>1
      <4>2. conn[d].node = m /\ Entered(d)
        BY <2>8, <4>1 DEF Belonging
      <4>3. conn'[d].node = m /\ Entered(d)'
        BY <2>4, <4>2 DEF Onwards
      <4> QED BY <4>1, <4>3 DEF Entered
    <3> QED BY <3>1, <3>2
  <2>9. ASSUME NEW d \in Conns, ~Entered(d)' PROVE ~Serving(d)' /\ toNode'[d] = <<>>
    BY <1>2, <2>2, <2>3, <2>9 DEF Entered, Serving
  <2>10. Belonging'
    BY <2>8, <2>9 DEF Belonging, Entered
  <2> QED BY <2>7, <2>10
<1>6. ASSUME NEW c \in Conns, SocketClosed(c) PROVE WindsDown /\ Belonging'
  <2>1. /\ conn'[c].plane = "closed" /\ conn'[c].node = conn[c].node /\ conn'[c].agent = conn[c].agent
        /\ Entered(c) /\ \A d \in Conns \ {c} : conn'[d] = conn[d]
    BY <1>1, <1>6 DEF SocketClosed, Ends, Entered
  <2>2. \A n \in TunnelNodes : sockets'[n] = sockets[n] \/ sockets'[n] = NoConn
    BY <1>1, <1>6 DEF SocketClosed, SocketsWithout
  <2>3. /\ toNode'[c] = <<>> /\ \A d \in Conns \ {c} : toNode'[d] = toNode[d]
        /\ UNCHANGED <<browser, shell, overtaken>>
    BY <1>1, <1>6 DEF SocketClosed
  <2>4. Onwards
    BY <2>1 DEF Onwards, Entered, Ending, Serving
  <2>5. \A d \in Conns : Serving(d)' = Serving(d)
    BY <2>1 DEF Serving
  <2>6. \A t \in Terminals : shell[t].at = "running" /\ Serving(shell[t].on) => Serving(shell[t].on)'
    BY <1>3, <2>3, <2>5 DEF Serving
  <2>7. WindsDown
    BY <2>1, <2>3, <2>4, <2>6 DEF WindsDown, Ending
  <2>8. \A d \in Conns : ~Entered(d) => ~Serving(d)' /\ toNode'[d] = toNode[d]
    BY <1>2, <2>1, <2>3, <2>5
  <2> QED BY <2>2, <2>4, <2>7, <2>8, BelongingKept
<1>7. ASSUME NEW c \in Conns, AgentDisconnects(c) PROVE WindsDown /\ Belonging'
  <2>1. /\ conn'[c].plane = conn[c].plane /\ conn'[c].node = conn[c].node
        /\ conn'[c].lost = conn[c].lost /\ conn'[c].agent = "closed"
        /\ \A d \in Conns \ {c} : conn'[d] = conn[d]
    BY <1>1, <1>7 DEF AgentDisconnects, Ends
  <2>2. /\ toNode'[c] = <<>> /\ \A d \in Conns \ {c} : toNode'[d] = toNode[d]
        /\ UNCHANGED <<browser, overtaken, sockets>> /\ Entered(c)
    BY <1>1, <1>2, <1>7 DEF AgentDisconnects
  <2>3. Onwards
    BY <2>1 DEF Onwards, Entered, Ending, Serving
  <2>4. ~Serving(c)' /\ \A d \in Conns \ {c} : Serving(d)' = Serving(d)
    BY <2>1 DEF Serving
  <2>5. ASSUME NEW t \in Terminals
        PROVE  \/ shell'[t] = shell[t] /\ (shell[t].at = "running" /\ Serving(shell[t].on) => Serving(shell[t].on)')
               \/ shell[t].at # "none" /\ shell'[t].at = "ended"
    <3>1. shell' = ClosedAll(conn[c].node)
      BY <1>7 DEF AgentDisconnects
    <3>2. CASE shell[t].at = "running" /\ browser[t].node = conn[c].node
      BY <1>1, <3>1, <3>2 DEF ClosedAll
    <3>3. CASE ~(shell[t].at = "running" /\ browser[t].node = conn[c].node)
      <4>1. shell'[t] = shell[t]
        BY <3>1, <3>3 DEF ClosedAll
      <4>2. shell[t].at = "running" => shell[t].on \in Conns \ {c}
        BY <1>3, <3>3
      <4> QED BY <2>1, <4>1, <4>2 DEF Serving
    <3> QED BY <3>2, <3>3
  <2>6. WindsDown
    BY <2>2, <2>3, <2>4, <2>5 DEF WindsDown
  <2>7. \A d \in Conns : ~Entered(d) => ~Serving(d)' /\ toNode'[d] = toNode[d]
    BY <1>2, <2>2, <2>4
  <2> QED BY <2>2, <2>3, <2>6, <2>7, BelongingKept
<1>8. ASSUME NEW c \in Conns, LinkLost(c) PROVE WindsDown /\ Belonging'
  <2>1. /\ conn'[c].plane = conn[c].plane /\ conn'[c].node = conn[c].node
        /\ conn'[c].lost /\ conn'[c].agent = conn[c].agent /\ Entered(c)
        /\ \A d \in Conns \ {c} : conn'[d] = conn[d]
    BY <1>1, <1>8 DEF LinkLost, Ends, Entered
  <2>2. /\ toNode'[c] = <<>> /\ \A d \in Conns \ {c} : toNode'[d] = toNode[d]
        /\ UNCHANGED <<browser, shell, overtaken, sockets>>
    BY <1>1, <1>8 DEF LinkLost
  <2>3. Onwards
    BY <2>1 DEF Onwards, Entered, Ending, Serving
  <2>4. \A d \in Conns : Serving(d)' = Serving(d)
    BY <2>1 DEF Serving
  <2>5. \A t \in Terminals : shell[t].at = "running" /\ Serving(shell[t].on) => Serving(shell[t].on)'
    BY <1>3, <2>2, <2>4 DEF Serving
  <2>6. WindsDown
    BY <2>1, <2>2, <2>3, <2>5 DEF WindsDown, Ending
  <2>7. \A d \in Conns : ~Entered(d) => ~Serving(d)' /\ toNode'[d] = toNode[d]
    BY <1>2, <2>1, <2>2, <2>4
  <2> QED BY <2>2, <2>3, <2>6, <2>7, BelongingKept
<1>9. ASSUME NEW n \in TunnelNodes, CloseNode(n) PROVE WindsDown /\ Belonging'
  <2>1. UNCHANGED <<browser, shell, overtaken, toNode>>
    BY <1>9 DEF CloseNode
  <2>2. /\ \A m \in TunnelNodes : sockets'[m] = sockets[m] \/ sockets'[m] = NoConn
        /\ \A d \in Conns : /\ conn'[d].agent = conn[d].agent /\ conn'[d].node = conn[d].node
                            /\ conn'[d].lost = conn[d].lost
                            /\ conn'[d].plane = conn[d].plane \/ (conn[d].plane = "open" /\ conn'[d].plane = "closing")
    <3>1. CASE sockets[n] = NoConn
      BY <1>9, <3>1 DEF CloseNode
    <3>2. CASE sockets[n] # NoConn
      <4> PICK c \in Conns : c = sockets[n]
        BY <1>1, <3>2
      <4>1. /\ conn' = [conn EXCEPT ![c].plane = IF @ = "open" THEN "closing" ELSE @]
            /\ sockets' = [sockets EXCEPT ![n] = NoConn]
        BY <1>9, <3>2 DEF CloseNode
      <4> QED BY <1>1, <4>1 DEF Ends
    <3> QED BY <3>1, <3>2
  <2>3. Onwards
    BY <2>2 DEF Onwards, Entered, Ending, Serving
  <2>4. \A d \in Conns : Serving(d)' = Serving(d)
    BY <2>2 DEF Serving
  <2>5. \A t \in Terminals : shell[t].at = "running" /\ Serving(shell[t].on) => Serving(shell[t].on)'
    BY <1>3, <2>1, <2>4 DEF Serving
  <2>6. WindsDown
    BY <2>1, <2>3, <2>5 DEF WindsDown
  <2>7. \A d \in Conns : ~Entered(d) => ~Serving(d)' /\ toNode'[d] = toNode[d]
    BY <1>2, <2>1, <2>4
  <2> QED BY <2>2, <2>3, <2>6, <2>7, BelongingKept
<1>10. ASSUME UNCHANGED <<conn, sockets, toNode, browser>>, overtaken \subseteq overtaken',
              \A t \in Terminals :
                \/ shell'[t] = shell[t]
                \/ shell[t].at # "none" /\ shell'[t].at = "ended"
                \/ /\ shell[t].at = "starting" /\ shell'[t].at = "running" /\ shell'[t].on = shell[t].on
                   /\ t \notin overtaken' => Serving(shell[t].on)
       PROVE  WindsDown /\ Belonging'
  <2>1. Onwards
    BY <1>10 DEF Onwards, Entered, Ending, Serving
  <2>2. WindsDown
    BY <1>10, <2>1 DEF WindsDown, Serving
  <2>3. \A d \in Conns : ~Entered(d) => ~Serving(d)' /\ toNode'[d] = toNode[d]
    BY <1>2, <1>10 DEF Serving
  <2> QED BY <1>10, <2>1, <2>2, <2>3, BelongingKept
<1>11. ASSUME NEW t \in Terminals, StartShell(t) PROVE WindsDown /\ Belonging'
  <2>1. /\ shell'[t].at = "running" /\ shell'[t].on = shell[t].on /\ shell[t].at = "starting"
        /\ \A u \in Terminals \ {t} : shell'[u] = shell[u]
    BY <1>1, <1>11 DEF StartShell
  <2> QED BY <1>10, <1>11, <2>1 DEF StartShell
<1>12. ASSUME NEW t \in Terminals, ShellExits(t) PROVE WindsDown /\ Belonging'
  <2>1. /\ shell'[t].at = "ended" /\ shell[t].at # "none"
        /\ \A u \in Terminals \ {t} : shell'[u] = shell[u]
    BY <1>1, <1>12 DEF ShellExits
  <2> QED BY <1>10, <1>12, <2>1 DEF ShellExits
<1>13. CASE UNCHANGED <<conn, sockets, toNode, browser, shell, overtaken>>
  BY <1>10, <1>13
<1> QED
  BY <1>4, <1>5, <1>6, <1>7, <1>8, <1>9, <1>11, <1>12, <1>13
  DEF RemoveNode, PlaneReceives, RequestTimesOut, HandleHttpRequest, tunnelVars

\* What is sent to a node is the last on its connection, or lost with it.
LEMMA SendAdds ==
  ASSUME RegistryInv, Belonging, NEW n \in TunnelNodes, Reachable(n),
         NEW kind, NEW id, Message(kind, id) \in NodeMessage, SendToNode(n, Message(kind, id))
  PROVE  /\ sockets[n] \in Conns /\ conn[sockets[n]].node = n /\ Entered(sockets[n])
         /\ \A d \in Conns : \A i \in Nat : \A k, t :
              /\ Coming(d, i, k, t) => Coming(d, i, k, t)'
              /\ Coming(d, i, k, t)' /\ ~Coming(d, i, k, t) =>
                   d = sockets[n] /\ i = Len(toNode[d]) + 1 /\ k = kind /\ t = id
         /\ \A d \in Conns : d = sockets[n] /\ ~conn[d].lost =>
              \E j \in Nat : j > Len(toNode[d]) /\ Coming(d, j, kind, id)'
         /\ \A d \in Conns : ~Entered(d) => toNode'[d] = toNode[d]
<1>1. /\ toNode \in [Conns -> Seq(NodeMessage)] /\ NoConn \notin Conns
      /\ sockets \in [TunnelNodes -> Conns \cup {NoConn}]
  BY Registered
<1> PICK c \in Conns : c = sockets[n]
  BY <1>1 DEF Reachable
<1>2. conn[c].node = n /\ Entered(c)
  BY <1>1 DEF Belonging, Reachable
<1>3. CASE conn[c].lost
  <2>1. toNode' = toNode
    BY <1>3 DEF SendToNode
  <2>2. \A d \in Conns : \A i, k, t : Coming(d, i, k, t)' <=> Coming(d, i, k, t)
    BY <2>1 DEF Coming
  <2> QED BY <1>2, <1>3, <2>1, <2>2
<1>4. CASE ~conn[c].lost
  <2>1. toNode' = [toNode EXCEPT ![c] = Append(@, Message(kind, id))]
    BY <1>4 DEF SendToNode
  <2>2. toNode[c] \in Seq(NodeMessage)
    BY <1>1
  <2>3. toNode'[c] = Append(toNode[c], Message(kind, id)) /\ \A d \in Conns \ {c} : toNode'[d] = toNode[d]
    BY <1>1, <2>1
  <2>4. /\ DOMAIN toNode[c] = 1..Len(toNode[c]) /\ Len(toNode[c]) \in Nat
        /\ DOMAIN toNode'[c] = 1..(Len(toNode[c]) + 1)
        /\ \A i \in 1..Len(toNode[c]) : toNode'[c][i] = toNode[c][i]
        /\ toNode'[c][Len(toNode[c]) + 1] = Message(kind, id)
    BY <2>2, <2>3, AppendProperties, LenProperties
  <2>5. \A k, t : Message(k, t) = Message(kind, id) <=> k = kind /\ t = id
    BY DEF Message
  <2>6. \A i \in Nat : \A k, t :
          /\ Coming(c, i, k, t) => Coming(c, i, k, t)'
          /\ Coming(c, i, k, t)' /\ ~Coming(c, i, k, t) => i = Len(toNode[c]) + 1 /\ k = kind /\ t = id
    BY <2>4, <2>5 DEF Coming
  <2>7. \E j \in Nat : j > Len(toNode[c]) /\ Coming(c, j, kind, id)'
    <3> PICK j \in Nat : j = Len(toNode[c]) + 1
      BY <2>4
    <3>1. j > Len(toNode[c]) /\ Coming(c, j, kind, id)'
      BY <2>4 DEF Coming
    <3> QED BY <3>1
  <2>8. \A d \in Conns \ {c} : \A i, k, t : Coming(d, i, k, t)' <=> Coming(d, i, k, t)
    BY <2>3 DEF Coming
  <2>9. ASSUME NEW d \in Conns
        PROVE  /\ \A i \in Nat : \A k, t :
                    /\ Coming(d, i, k, t) => Coming(d, i, k, t)'
                    /\ Coming(d, i, k, t)' /\ ~Coming(d, i, k, t) =>
                         d = sockets[n] /\ i = Len(toNode[d]) + 1 /\ k = kind /\ t = id
               /\ d = sockets[n] => \E j \in Nat : j > Len(toNode[d]) /\ Coming(d, j, kind, id)'
               /\ ~Entered(d) => toNode'[d] = toNode[d]
    <3>1. CASE d = c
      BY <1>2, <2>6, <2>7, <3>1
    <3>2. CASE d # c
      BY <2>3, <2>8, <3>2
    <3> QED BY <3>1, <3>2
  <2> QED BY <1>2, <2>9
<1> QED BY <1>3, <1>4

LEMMA SendsAttended ==
  ASSUME RegistryInv, Attended,
         \/ \E n \in TunnelNodes : ForwardHttpRequest(n) \/ StartTerminal(n)
         \/ \E t \in Terminals : BrowserCloses(t)
  PROVE  Attended'
<1> USE DEF Attended, http, fleet
<1>1. UNCHANGED <<conn, sockets, shell, overtaken>>
  BY DEF ForwardHttpRequest, StartTerminal, BrowserCloses, consoles
<1>2. Onwards
  BY <1>1 DEF Onwards, Entered, Ending, Serving
<1>3. ASSUME \A d \in Conns : ~Entered(d) => toNode'[d] = toNode[d] PROVE Belonging'
  <2>1. \A d \in Conns : ~Entered(d) => ~Serving(d)' /\ toNode'[d] = toNode[d]
    BY <1>1, <1>3 DEF Belonging, Serving
  <2> QED BY <1>1, <1>2, <2>1, BelongingKept
<1>4. browser \in [Terminals -> [node : TunnelNodes \cup {NoConn}, end : {"none", "open", "closed"}]]
  BY DEF RegistryInv, TunnelTypeOK
\* What follows a position goes on to, for terminals left alone.
<1>5. ASSUME NEW d \in Conns, NEW i \in Nat, NEW t \in Terminals, CloseFollows(d, i, t),
             browser'[t] = browser[t], \A j \in Nat : Coming(d, j, "close", t) => Coming(d, j, "close", t)'
      PROVE  CloseFollows(d, i, t)'
  BY <1>1, <1>5 DEF CloseFollows, Ending
<1>6. ASSUME NEW n \in TunnelNodes, ForwardHttpRequest(n) PROVE Attended'
  <2> PICK r \in NextRequest : SendToNode(n, Message("http", r))
    BY <1>6 DEF ForwardHttpRequest
  <2>1. Message("http", r) \in NodeMessage /\ browser' = browser /\ Reachable(n)
    BY <1>6 DEF ForwardHttpRequest, NextRequest, Numbered, Message, NodeMessage, consoles
  <2>2. /\ \A d \in Conns : \A i \in Nat : \A t :
             /\ Coming(d, i, "start", t)' => Coming(d, i, "start", t)
             /\ Coming(d, i, "close", t) => Coming(d, i, "close", t)'
        /\ \A d \in Conns : ~Entered(d) => toNode'[d] = toNode[d]
    <3>1. /\ \A d \in Conns : \A i \in Nat : \A k, t :
               /\ Coming(d, i, k, t) => Coming(d, i, k, t)'
               /\ Coming(d, i, k, t)' /\ ~Coming(d, i, k, t) => k = "http"
          /\ \A d \in Conns : ~Entered(d) => toNode'[d] = toNode[d]
      BY <2>1, SendAdds
    <3> QED BY <3>1
  <2>3. \A d \in Conns : \A i \in Nat, t \in Terminals : CloseFollows(d, i, t) => CloseFollows(d, i, t)'
    BY <1>5, <2>1, <2>2
  <2>4. StartsOnce'
    BY <2>2 DEF StartsOnce
  <2>5. StartsComing'
    BY <1>1, <2>1, <2>2, <2>3 DEF StartsComing
  <2>6. ShellsAsked'
    BY <1>1, <2>1, <2>3 DEF ShellsAsked, Entered, Serving
  <2> QED BY <1>3, <2>1, <2>2, <2>4, <2>5, <2>6 DEF Placed
<1>7. ASSUME NEW n \in TunnelNodes, StartTerminal(n) PROVE Attended'
  <2> PICK s \in NextTerminal : /\ browser' = [browser EXCEPT ![s] = [node |-> n, end |-> "open"]]
                                /\ SendToNode(n, Message("start", s))
    BY <1>7 DEF StartTerminal
  <2>1. /\ s \in Terminals /\ browser[s].end = "none"
        /\ Message("start", s) \in NodeMessage /\ Reachable(n)
    BY <1>7 DEF StartTerminal, NextTerminal, Numbered, Message, NodeMessage
  <2> PICK c : c = sockets[n]
    OBVIOUS
  <2>2. /\ c \in Conns /\ conn[c].node = n
        /\ \A d \in Conns : \A i \in Nat : \A t :
             /\ t # s => (Coming(d, i, "start", t)' => Coming(d, i, "start", t))
             /\ Coming(d, i, "start", s)' /\ ~Coming(d, i, "start", s) => d = c /\ i = Len(toNode[d]) + 1
             /\ Coming(d, i, "close", t) => Coming(d, i, "close", t)'
        /\ \A d \in Conns : ~Entered(d) => toNode'[d] = toNode[d]
    BY <2>1, SendAdds
  <2>3. /\ browser'[s].node = n /\ browser'[s].end = "open"
        /\ \A t \in Terminals \ {s} : browser'[t] = browser[t]
    BY <1>4, <2>1
  <2>4. \A d \in Conns : \A i \in Nat, t \in Terminals : CloseFollows(d, i, t) => CloseFollows(d, i, t)'
    BY <1>5, <2>2, <2>3 DEF CloseFollows
  <2>5. \A d \in Conns, i \in Nat : ~Coming(d, i, "start", s)
    BY <2>1 DEF StartsComing
  <2>6. StartsOnce'
    <3> SUFFICES ASSUME NEW d \in Conns, NEW e \in Conns, NEW i \in Nat, NEW j \in Nat, NEW t \in Terminals,
                        Coming(d, i, "start", t)', Coming(e, j, "start", t)'
                 PROVE  d = e /\ i = j
      BY DEF StartsOnce
    <3>1. CASE t = s
      <4>1. d = c /\ i = Len(toNode[d]) + 1 /\ e = c /\ j = Len(toNode[e]) + 1
        BY <2>2, <2>5, <3>1
      <4> QED BY <4>1
    <3>2. CASE t # s
      <4>1. Coming(d, i, "start", t) /\ Coming(e, j, "start", t)
        BY <2>2, <3>2
      <4> QED BY <4>1 DEF StartsOnce
    <3> QED BY <3>1, <3>2
  <2>7. shell[s].at = "none"
    BY <2>1 DEF ShellsAsked
  <2>8. ASSUME NEW d \in Conns, NEW i \in Nat, NEW t \in Terminals, Coming(d, i, "start", t)'
        PROVE  /\ shell'[t].at = "none" /\ browser'[t].end # "none" /\ browser'[t].node = conn'[d].node
               /\ CloseFollows(d, i, t)'
    <3>1. CASE t = s
      <4>1. d = c
        BY <2>2, <2>5, <2>8, <3>1
      <4> QED BY <1>1, <2>2, <2>3, <2>7, <3>1, <4>1 DEF CloseFollows
    <3>2. CASE t # s
      <4>1. Coming(d, i, "start", t)
        BY <2>2, <2>8, <3>2
      <4>2. /\ shell[t].at = "none" /\ browser[t].end # "none" /\ browser[t].node = conn[d].node
            /\ CloseFollows(d, i, t)
        BY <4>1 DEF StartsComing
      <4> QED BY <1>1, <2>3, <2>4, <3>2, <4>2
    <3> QED BY <3>1, <3>2
  <2>9. StartsComing'
    BY <2>8 DEF StartsComing
  <2>10. ShellsAsked'
    <3>1. \A t \in Terminals : t = s \/ browser'[t] = browser[t]
      BY <2>3
    <3> QED BY <1>1, <2>3, <2>4, <2>7, <3>1 DEF ShellsAsked, Entered, Serving
  <2>11. Placed'
    BY <2>3 DEF Placed
  <2> QED BY <1>3, <2>2, <2>6, <2>9, <2>10, <2>11
<1>8. ASSUME NEW s \in Terminals, BrowserCloses(s) PROVE Attended'
  <2> PICK n : n = browser[s].node
    OBVIOUS
  <2>1. /\ browser[s].end = "open" /\ browser'[s].end = "closed" /\ browser'[s].node = n
        /\ \A t \in Terminals \ {s} : browser'[t] = browser[t]
    BY <1>4, <1>8 DEF BrowserCloses
  <2>2. /\ \A d \in Conns : \A i \in Nat : \A t :
             /\ Coming(d, i, "start", t)' => Coming(d, i, "start", t)
             /\ Coming(d, i, "close", t) => Coming(d, i, "close", t)'
        /\ \A d \in Conns : ~Entered(d) => toNode'[d] = toNode[d]
        /\ \A d \in Conns : conn[d].node = n =>
             Ending(d) \/ \E j \in Nat : j > Len(toNode[d]) /\ Coming(d, j, "close", s)'
    <3>0. n \in TunnelNodes
      BY <2>1 DEF Placed
    <3>1. CASE ~Reachable(n) /\ UNCHANGED toNode
      <4>1. \A d \in Conns : conn[d].node = n => Ending(d)
        BY <3>0, <3>1, Registered DEF RegistryInv, OpenIsRegistered, Reachable, Ending
      <4> QED BY <3>1, <4>1 DEF Coming
    <3>2. CASE Reachable(n) /\ SendToNode(n, Message("close", s))
      <4>1. Message("close", s) \in NodeMessage
        BY DEF Message, NodeMessage
      <4>2. /\ \A d \in Conns : \A i \in Nat : \A k, t :
                 /\ Coming(d, i, k, t) => Coming(d, i, k, t)'
                 /\ Coming(d, i, k, t)' /\ ~Coming(d, i, k, t) => k = "close"
            /\ \A d \in Conns : d = sockets[n] /\ ~conn[d].lost =>
                 \E j \in Nat : j > Len(toNode[d]) /\ Coming(d, j, "close", s)'
            /\ \A d \in Conns : ~Entered(d) => toNode'[d] = toNode[d]
        <5>1. /\ \A d \in Conns : \A i \in Nat : \A k, t :
                   /\ Coming(d, i, k, t) => Coming(d, i, k, t)'
                   /\ Coming(d, i, k, t)' /\ ~Coming(d, i, k, t) => k = "close"
              /\ \A d \in Conns : ~Entered(d) => toNode'[d] = toNode[d]
          BY <3>0, <3>2, <4>1, SendAdds
        <5>2. \A d \in Conns : d = sockets[n] /\ ~conn[d].lost =>
                \E j \in Nat : j > Len(toNode[d]) /\ Coming(d, j, "close", s)'
          BY <3>0, <3>2, <4>1, SendAdds
        <5> QED BY <5>1, <5>2
      <4>3. \A d \in Conns : conn[d].node = n /\ ~Ending(d) => d = sockets[n] /\ ~conn[d].lost
        BY DEF RegistryInv, OpenIsRegistered, Ending
      <4> QED BY <4>2, <4>3
    <3> QED BY <1>8, <3>1, <3>2 DEF BrowserCloses
  <2>3. ASSUME NEW d \in Conns, NEW i \in Nat, conn[d].node = n, Entered(d),
               i = 0 \/ \E k, t : Coming(d, i, k, t)
        PROVE  CloseFollows(d, i, s)'
    <3>1. Len(toNode[d]) \in Nat /\ DOMAIN toNode[d] = 1..Len(toNode[d])
      BY Registered, LenProperties
    <3>2. i <= Len(toNode[d])
      BY <2>3, <3>1 DEF Coming
    <3>3. CASE Ending(d)
      BY <1>1, <3>3 DEF CloseFollows, Ending
    <3>4. ASSUME NEW j \in Nat, j > Len(toNode[d]), Coming(d, j, "close", s)' PROVE CloseFollows(d, i, s)'
      <4>1. j > i
        BY <3>1, <3>2, <3>4
      <4> QED BY <3>4, <4>1 DEF CloseFollows
    <3> QED BY <2>2, <2>3, <3>3, <3>4
  <2>4. \A d \in Conns : \A i \in Nat, t \in Terminals \ {s} : CloseFollows(d, i, t) => CloseFollows(d, i, t)'
    BY <1>5, <2>1, <2>2
  <2>5. StartsOnce'
    <3> SUFFICES ASSUME NEW d \in Conns, NEW e \in Conns, NEW i \in Nat, NEW j \in Nat, NEW t \in Terminals,
                        Coming(d, i, "start", t)', Coming(e, j, "start", t)'
                 PROVE  d = e /\ i = j
      BY DEF StartsOnce
    <3>1. Coming(d, i, "start", t) /\ Coming(e, j, "start", t)
      BY <2>2
    <3> QED BY <3>1 DEF StartsOnce
  <2>6. ASSUME NEW d \in Conns, NEW i \in Nat, NEW t \in Terminals, Coming(d, i, "start", t)'
        PROVE  /\ shell'[t].at = "none" /\ browser'[t].end # "none" /\ browser'[t].node = conn'[d].node
               /\ CloseFollows(d, i, t)'
    <3>1. Coming(d, i, "start", t)
      BY <2>2, <2>6
    <3>2. /\ shell[t].at = "none" /\ browser[t].end # "none" /\ browser[t].node = conn[d].node
          /\ CloseFollows(d, i, t)
      BY <3>1 DEF StartsComing
    <3>3. Entered(d)
      BY <3>1 DEF Belonging, Coming
    <3>4. CASE t = s
      BY <1>1, <2>1, <2>3, <3>1, <3>2, <3>3, <3>4
    <3>5. CASE t # s
      BY <1>1, <2>1, <2>4, <3>2, <3>5
    <3> QED BY <3>4, <3>5
  <2>7. StartsComing'
    BY <2>6 DEF StartsComing
  <2>8. ASSUME NEW t \in Terminals
        PROVE  /\ browser'[t].end = "none" => shell'[t].at = "none"
               /\ shell'[t].at \in {"starting", "running"} =>
                    /\ shell'[t].on \in Conns /\ Entered(shell[t].on)'
                    /\ conn'[shell'[t].on].node = browser'[t].node
                    /\ t \notin overtaken' /\ Serving(shell[t].on)' => CloseFollows(shell[t].on, 0, t)'
               /\ shell'[t].at = "running" /\ t \notin overtaken' => Serving(shell[t].on)'
    <3> PICK d : d = shell[t].on
      OBVIOUS
    <3>1. /\ browser[t].end = "none" => shell[t].at = "none"
          /\ shell[t].at \in {"starting", "running"} =>
               /\ d \in Conns /\ Entered(d) /\ conn[d].node = browser[t].node
               /\ t \notin overtaken /\ Serving(d) => CloseFollows(d, 0, t)
          /\ shell[t].at = "running" /\ t \notin overtaken => Serving(d)
      BY DEF ShellsAsked
    <3>2. shell[t].at \in {"starting", "running"} /\ t \notin overtaken /\ Serving(d) => CloseFollows(d, 0, t)'
      <4>1. CASE t = s
        BY <2>3, <3>1, <4>1
      <4>2. CASE t # s
        BY <2>4, <3>1, <4>2
      <4> QED BY <4>1, <4>2
    <3>3. browser'[t].node = browser[t].node /\ (browser'[t].end = "none" <=> browser[t].end = "none")
      BY <2>1
    <3>4. shell'[t].on = d /\ (Entered(d)' <=> Entered(d)) /\ (Serving(d)' <=> Serving(d))
      BY <1>1 DEF Entered, Serving
    <3> QED BY <1>1, <3>1, <3>2, <3>3, <3>4
  <2>9. ShellsAsked'
    BY <2>8 DEF ShellsAsked
  <2>10. Placed'
    BY <2>1 DEF Placed
  <2> QED BY <1>3, <2>2, <2>5, <2>7, <2>9, <2>10
<1> QED BY <1>6, <1>7, <1>8

LEMMA ReceivesAttended ==
  ASSUME RegistryInv, Attended, NEW c \in Conns, NodeReceives(c)
  PROVE  Attended'
<1> USE DEF Attended, fleet
<1>1. /\ UNCHANGED <<conn, sockets, browser>>
      /\ Serving(c) /\ toNode[c] # <<>> /\ toNode' = [toNode EXCEPT ![c] = Tail(@)]
  BY DEF NodeReceives
<1>2. /\ toNode \in [Conns -> Seq(NodeMessage)] /\ toNode[c] \in Seq(NodeMessage)
      /\ shell \in [Terminals -> [at : {"none", "starting", "running", "ended"}, on : Conns \cup {NoConn}]]
  BY Registered
<1> PICK m \in NodeMessage : m = Head(toNode[c])
  BY <1>1, <1>2, HeadTailProperties
<1>3. Entered(c)
  BY <1>1 DEF Belonging
<1>4. \A d \in Conns \ {c} : toNode'[d] = toNode[d]
  BY <1>1, <1>2
<1>5. ASSUME NEW i \in Nat, NEW k, NEW t
      PROVE  /\ Coming(c, i, k, t)' <=> i >= 1 /\ Coming(c, i + 1, k, t)
             /\ Coming(c, 1, k, t) <=> m = Message(k, t)
             /\ Coming(c, i, k, t) => i >= 1
  <2>1. /\ DOMAIN toNode[c] = 1..Len(toNode[c]) /\ Len(toNode[c]) \in Nat \ {0}
        /\ toNode'[c] = Tail(toNode[c]) /\ toNode[c][1] = m
    BY <1>1, <1>2, LenProperties, EmptySeq, HeadTailProperties
  <2>2. /\ DOMAIN Tail(toNode[c]) = 1..(Len(toNode[c]) - 1)
        /\ \A j \in 1..(Len(toNode[c]) - 1) : Tail(toNode[c])[j] = toNode[c][j + 1]
    BY <1>1, <1>2, <2>1, HeadTailProperties, LenProperties
  <2> QED BY <2>1, <2>2 DEF Coming
<1>6. \A d \in Conns \ {c} : \A i \in Nat : \A k, t : Coming(d, i, k, t)' <=> Coming(d, i, k, t)
  BY <1>4 DEF Coming
<1>7. Belonging'
  <2>1. Onwards
    BY <1>1 DEF Onwards, Entered, Ending, Serving
  <2>2. \A d \in Conns : ~Entered(d) => ~Serving(d)' /\ toNode'[d] = toNode[d]
    BY <1>1, <1>3, <1>4 DEF Belonging, Serving
  <2> QED BY <1>1, <2>1, <2>2, BelongingKept
<1>8. StartsOnce'
  <2> SUFFICES ASSUME NEW d \in Conns, NEW e \in Conns, NEW i \in Nat, NEW j \in Nat, NEW t \in Terminals,
                      Coming(d, i, "start", t)', Coming(e, j, "start", t)'
               PROVE  d = e /\ i = j
    BY DEF StartsOnce
  <2> DEFINE at(x, y) == IF x = c THEN y + 1 ELSE y
  <2>1. at(d, i) \in Nat /\ at(e, j) \in Nat
    OBVIOUS
  <2>2. Coming(d, at(d, i), "start", t) /\ Coming(e, at(e, j), "start", t)
    BY <1>5, <1>6
  <2>3. d = e /\ at(d, i) = at(e, j)
    <3> HIDE DEF at
    <3> QED BY <2>1, <2>2 DEF StartsOnce
  <2> QED BY <2>3
\* Only a start or a close that is received changes a shell.
<1>9. /\ \A t \in Terminals : m # Message("start", t) /\ m # Message("close", t) =>
                              shell'[t] = shell[t] /\ (t \in overtaken' <=> t \in overtaken)
      /\ \A t \in Terminals : m = Message("start", t) =>
                              shell'[t] = [at |-> "starting", on |-> c] /\ overtaken' = overtaken
      /\ \A t \in Terminals : m = Message("close", t) =>
            \/ shell[t].at = "running" /\ shell'[t].at = "ended"
            \/ shell[t].at = "starting" /\ shell'[t] = shell[t] /\ t \in overtaken'
            \/ shell[t].at \in {"none", "ended"} /\ shell'[t] = shell[t]
  <2>1. \A k, t : Message(k, t).kind = k /\ Message(k, t).id = t
    BY DEF Message
  <2>2. /\ shell' = CASE m.kind = "start" -> [shell EXCEPT ![m.id] = [at |-> "starting", on |-> c]]
                      [] m.kind = "close" /\ shell[m.id].at = "running" -> [shell EXCEPT ![m.id].at = "ended"]
                      [] OTHER -> shell
        /\ overtaken' = IF m.kind = "close" /\ shell[m.id].at = "starting"
                        THEN overtaken \cup {m.id} ELSE overtaken
    BY DEF NodeReceives
  <2>3. \/ m.kind = "http"
        \/ m.kind = "start" /\ m.id \in Terminals /\ m = Message("start", m.id)
        \/ m.kind = "close" /\ m.id \in Terminals /\ m = Message("close", m.id)
    BY DEF NodeMessage, Message
  <2>4. CASE m.kind = "http"
    BY <2>1, <2>2, <2>4
  <2>5. CASE m.kind = "start" /\ m.id \in Terminals /\ m = Message("start", m.id)
    BY <1>2, <2>1, <2>2, <2>5
  <2>6. CASE m.kind = "close" /\ m.id \in Terminals /\ m = Message("close", m.id)
    <3>1. CASE shell[m.id].at = "running"
      <4>1. /\ shell' = [shell EXCEPT ![m.id].at = "ended"] /\ overtaken' = overtaken
        BY <2>2, <2>6, <3>1
      <4>2. shell'[m.id].at = "ended" /\ \A t \in Terminals \ {m.id} : shell'[t] = shell[t]
        BY <1>2, <2>6, <4>1
      <4> QED BY <2>1, <2>6, <3>1, <4>1, <4>2
    <3>2. CASE shell[m.id].at # "running"
      <4>1. shell' = shell
        BY <2>2, <2>6, <3>2
      <4>2. shell[m.id].at \in {"none", "starting", "ended"}
        BY <1>2, <2>6, <3>2
      <4> QED BY <2>1, <2>2, <2>6, <4>1, <4>2
    <3> QED BY <3>1, <3>2
  <2> QED BY <2>3, <2>4, <2>5, <2>6
<1>10. ASSUME NEW i \in Nat, NEW t \in Terminals, CloseFollows(c, i, t), i >= 1
       PROVE  CloseFollows(c, i - 1, t)'
  <2>1. CASE browser[t].end = "open" \/ Ending(c)
    BY <1>1, <2>1 DEF CloseFollows, Ending
  <2>2. ASSUME NEW j \in Nat, j > i, Coming(c, j, "close", t) PROVE CloseFollows(c, i - 1, t)'
    <3>1. j - 1 \in Nat /\ j - 1 >= 1 /\ j - 1 > i - 1 /\ (j - 1) + 1 = j
      BY <1>10, <2>2
    <3>2. Coming(c, j - 1, "close", t)'
      BY <1>5, <2>2, <3>1
    <3> QED BY <3>1, <3>2 DEF CloseFollows
  <2> QED BY <1>10, <2>1, <2>2 DEF CloseFollows
<1>11. ASSUME NEW d \in Conns, NEW i \in Nat, NEW t \in Terminals, d # c, CloseFollows(d, i, t)
       PROVE  CloseFollows(d, i, t)'
  BY <1>1, <1>6, <1>11 DEF CloseFollows, Ending
<1>12. ASSUME NEW t \in Terminals, CloseFollows(c, 0, t), m # Message("close", t)
       PROVE  CloseFollows(c, 0, t)'
  <2>1. ~Coming(c, 1, "close", t)
    BY <1>5, <1>12
  <2>2. CASE browser[t].end = "open" \/ Ending(c)
    BY <1>1, <2>2 DEF CloseFollows, Ending
  <2>3. ASSUME NEW j \in Nat, Coming(c, j, "close", t) PROVE CloseFollows(c, 0, t)'
    <3>1. j >= 1 /\ j # 1
      BY <1>5, <2>1, <2>3
    <3>2. j - 1 \in Nat /\ j - 1 >= 1 /\ (j - 1) + 1 = j
      BY <3>1
    <3>3. Coming(c, j - 1, "close", t)'
      BY <1>5, <2>3, <3>2
    <3> QED BY <3>2, <3>3 DEF CloseFollows
  <2> QED BY <1>12, <2>2, <2>3 DEF CloseFollows
<1>13. ASSUME NEW d \in Conns, NEW i \in Nat, NEW t \in Terminals, Coming(d, i, "start", t)'
       PROVE  /\ shell'[t].at = "none" /\ browser'[t].end # "none" /\ browser'[t].node = conn'[d].node
              /\ CloseFollows(d, i, t)'
  <2> PICK l \in Nat : l = IF d = c THEN i + 1 ELSE i
    OBVIOUS
  <2>1. Coming(d, l, "start", t) /\ (d = c => l > 1)
    BY <1>5, <1>6, <1>13
  <2>2. /\ shell[t].at = "none" /\ browser[t].end # "none" /\ browser[t].node = conn[d].node
        /\ CloseFollows(d, l, t)
    BY <2>1 DEF StartsComing
  <2>3. m # Message("start", t)
    <3>1. SUFFICES ASSUME m = Message("start", t) PROVE FALSE
      OBVIOUS
    <3>2. Coming(c, 1, "start", t)
      BY <1>5, <3>1
    <3> QED BY <2>1, <3>2 DEF StartsOnce
  <2>4. shell'[t] = shell[t]
    BY <1>9, <2>2, <2>3
  <2>5. CloseFollows(d, i, t)'
    <3>1. CASE d = c
      <4>1. l >= 1 /\ l - 1 = i
        BY <3>1
      <4>2. CloseFollows(c, l - 1, t)'
        BY <1>10, <2>2, <3>1, <4>1
      <4> QED BY <3>1, <4>1, <4>2
    <3>2. CASE d # c
      BY <1>11, <2>2, <3>2
    <3> QED BY <3>1, <3>2
  <2> QED BY <1>1, <2>2, <2>4, <2>5
<1>14. StartsComing'
  BY <1>13 DEF StartsComing
<1>15. ASSUME NEW t \in Terminals
       PROVE  /\ browser'[t].end = "none" => shell'[t].at = "none"
              /\ shell'[t].at \in {"starting", "running"} =>
                   /\ shell'[t].on \in Conns /\ Entered(shell[t].on)'
                   /\ conn'[shell'[t].on].node = browser'[t].node
                   /\ t \notin overtaken' /\ Serving(shell[t].on)' => CloseFollows(shell[t].on, 0, t)'
              /\ shell'[t].at = "running" /\ t \notin overtaken' => Serving(shell[t].on)'
  <2> PICK d : d = shell'[t].on
    OBVIOUS
  <2>1. /\ browser[t].end = "none" => shell[t].at = "none"
        /\ shell[t].at \in {"starting", "running"} =>
             /\ shell[t].on \in Conns /\ Entered(shell[t].on)
             /\ conn[shell[t].on].node = browser[t].node
             /\ t \notin overtaken /\ Serving(shell[t].on) => CloseFollows(shell[t].on, 0, t)
        /\ shell[t].at = "running" /\ t \notin overtaken => Serving(shell[t].on)
    BY DEF ShellsAsked
  <2>2. CASE m = Message("start", t)
    <3>1. d = c /\ shell'[t].at = "starting"
      BY <1>9, <2>2
    <3>2. Coming(c, 1, "start", t)
      BY <1>5, <2>2
    <3>3. browser[t].end # "none" /\ browser[t].node = conn[c].node /\ CloseFollows(c, 1, t)
      BY <3>2 DEF StartsComing
    <3>4. CloseFollows(c, 0, t)'
      <4>1. CloseFollows(c, 1 - 1, t)'
        BY <1>10, <3>3
      <4>2. 1 - 1 = 0
        OBVIOUS
      <4> QED BY <4>1, <4>2
    <3> QED BY <1>1, <1>3, <3>1, <3>3, <3>4 DEF Entered
  <2>3. CASE m = Message("close", t)
    <3>1. \/ shell'[t].at = "ended" /\ shell[t].at = "running"
          \/ shell'[t].at = "starting" /\ shell'[t] = shell[t] /\ t \in overtaken'
          \/ shell'[t].at \in {"none", "ended"} /\ shell'[t] = shell[t]
      BY <1>9, <2>3
    <3> QED BY <1>1, <2>1, <3>1 DEF Entered
  <2>4. CASE m # Message("start", t) /\ m # Message("close", t)
    <3>1. shell'[t] = shell[t] /\ d = shell[t].on /\ (t \in overtaken' <=> t \in overtaken)
      BY <1>9, <2>4
    <3>2. shell[t].at \in {"starting", "running"} /\ t \notin overtaken /\ Serving(d) => CloseFollows(d, 0, t)'
      <4>1. CASE d = c
        BY <1>12, <2>1, <2>4, <3>1, <4>1
      <4>2. CASE d # c
        BY <1>11, <2>1, <3>1, <4>2
      <4> QED BY <4>1, <4>2
    <3>3. (Entered(d)' <=> Entered(d)) /\ (Serving(d)' <=> Serving(d))
      BY <1>1 DEF Entered, Serving
    <3> QED BY <1>1, <2>1, <3>1, <3>2, <3>3
  <2> QED BY <2>2, <2>3, <2>4
<1>16. ShellsAsked'
  BY <1>15 DEF ShellsAsked
<1>17. Placed'
  BY <1>1 DEF Placed
<1> QED BY <1>7, <1>8, <1>14, <1>16, <1>17

\* A shell runs on a node only while the connection that asked for it lives and,
\* once its browser has gone, until the close that is on its way arrives; but for
\* the starts that come too late, however connections are lost and replaced.
THEOREM ShellsNeverLeft == TunnelSpec => []ShellsEnd
<1>1. TunnelInit => RegistryInv /\ Attended
  <2> SUFFICES ASSUME TunnelInit PROVE Attended
    BY TunnelInitially DEF TunnelInit, RegistryInv, Admitted, OpenIsRegistered, NoEnds
  <2>1. \A c \in Conns : \A i, kind, t : ~Coming(c, i, kind, t)
    BY DEF TunnelInit, Coming
  <2> QED
    BY <2>1 DEF TunnelInit, Attended, Belonging, StartsOnce, StartsComing, ShellsAsked, Placed,
       Entered, Serving, NoEnds, NoShell
<1>2. RegistryInv /\ Attended /\ [TunnelNext]_tunnelVars => (RegistryInv /\ Attended)'
  <2> SUFFICES ASSUME RegistryInv, Attended, [TunnelNext]_tunnelVars PROVE Attended'
    BY RegistryStep
  <2>1. CASE \/ \E n \in TunnelNodes : ForwardHttpRequest(n) \/ StartTerminal(n)
             \/ \E t \in Terminals : BrowserCloses(t)
    BY <2>1, SendsAttended
  <2>2. CASE \E c \in Conns : NodeReceives(c)
    BY <2>2, ReceivesAttended
  <2>3. CASE \/ \E n \in TunnelNodes : AuthenticateUpgrade(n) \/ RemoveNode(n) \/ CloseNode(n)
             \/ \E c \in Conns : \/ Register(c) \/ SocketClosed(c) \/ AgentDisconnects(c) \/ LinkLost(c)
                                 \/ PlaneReceives(c)
             \/ \E r \in Requests : RequestTimesOut(r) \/ HandleHttpRequest(r)
             \/ \E t \in Terminals : StartShell(t) \/ ShellExits(t)
             \/ UNCHANGED tunnelVars
    <3>1. WindsDown /\ Belonging'
      BY <2>3, Winding DEF Attended
    <3>2. Placed'
      BY <3>1 DEF Attended, Placed, WindsDown
    <3> QED BY <3>1, <3>2, DownAttended DEF Attended
  <2> QED BY <2>1, <2>2, <2>3 DEF TunnelNext
<1>3. Attended => ShellsEnd
  <2> SUFFICES ASSUME Attended, NEW t \in Terminals, shell[t].at = "running", t \notin overtaken
               PROVE  LET c == shell[t].on
                      IN /\ Serving(c)
                         /\ \/ browser[t].end = "open"
                            \/ conn[c].lost \/ conn[c].plane # "open"
                            \/ \E i \in DOMAIN toNode[c] : toNode[c][i] = Message("close", t)
    BY DEF ShellsEnd
  <2>1. Serving(shell[t].on) /\ CloseFollows(shell[t].on, 0, t)
    BY DEF Attended, ShellsAsked
  <2> QED BY <2>1 DEF CloseFollows, Ending, Coming
<1> QED BY <1>1, <1>2, <1>3, PTL DEF TunnelSpec

-----------------------------------------------------------------------------
(* Ingress: the types, and where a cached route may be out of date.         *)

USE IngressAssumption

-----------------------------------------------------------------------------
(* What the selects of resolveRoute return is something the cache may hold. *)

LEMMA BestIsSome ==
  ASSUME NEW rows \in SUBSET Row, rows # {}
  PROVE  Best(rows) \subseteq Row /\ Best(rows) # {}
  BY DEF Best

LEMMA OwnerTyped ==
  ASSUME IngressTypeOK, NEW n \in Names
  PROVE  Owner(n) \in Services \cup {Unattached}
  BY DEF Owner, Names, IngressTypeOK

LEMMA ResolveTyped ==
  ASSUME IngressTypeOK, NEW n \in Names
  PROVE  Resolve(n) \in Cached
<1>1. CASE Owner(n) = Unattached \/ live[Owner(n)] = {}
  BY <1>1 DEF Resolve, Cached
<1>2. CASE Owner(n) # Unattached /\ live[Owner(n)] # {}
  <2> DEFINE best == Best(live[Owner(n)])
             ups  == {[site |-> r.site, moved |-> moved[r.site]] : r \in best}
  <2>1. best \subseteq Row /\ best # {}
    <3>1. Owner(n) \in Services
      BY <1>2, OwnerTyped
    <3>2. live[Owner(n)] \in SUBSET Row
      BY <3>1 DEF IngressTypeOK
    <3> QED BY <1>2, <3>2, BestIsSome
  <2>2. ups \in (SUBSET Upstreams) \ {{}}
    <3>1. \A r \in Row : [site |-> r.site, moved |-> moved[r.site]] \in Upstreams
      BY DEF Row, Upstreams, IngressTypeOK
    <3>2. ups \subseteq Upstreams
      BY <2>1, <3>1
    <3> PICK r \in best : TRUE
      BY <2>1
    <3>3. [site |-> r.site, moved |-> moved[r.site]] \in ups
      OBVIOUS
    <3> HIDE DEF ups
    <3> QED BY <3>2, <3>3
  <2>3. Resolve(n) = Routes(ups)
    BY <1>2 DEF Resolve
  <2> HIDE DEF ups
  <2>4. Routes(ups) \in {Routes(u) : u \in (SUBSET Upstreams) \ {{}}}
    BY <2>2
  <2> QED BY <2>3, <2>4 DEF Cached
<1> QED BY <1>1, <1>2

\* The steps of the writers of a service's rows, those that announce and those that
\* do not.
RowsWritten(s) ==
  \/ PromoteRow(s) \/ TakeDown(s) \/ RescueRow(s) \/ LoseRow(s)
  \/ \E n \in Sites : Relocate(s, n) \/ ScaleUp(s, n)
  \/ \E n \in Sites : GoLive(s, n) \/ ReturnRow(s, n) \/ ReclaimRow(s, n)

LEMMA RowsTyped ==
  ASSUME IngressTypeOK, NEW s \in Services, RowsWritten(s)
  PROVE  \E rows \in SUBSET Row : Rewrite(s, rows) /\ (Announced(s) \/ Unannounced(s))
<1>1. live[s] \subseteq Row
  BY DEF IngressTypeOK
<1>2. \A n \in Sites : Checked(n) \subseteq Row
  BY DEF Checked, Row, Statuses
<1>3. \A r \in Row : Proven(r) \subseteq Row
  BY DEF Proven, Row, Statuses
<1>4. CASE PromoteRow(s) \/ RescueRow(s)
  <2>1. PICK r \in live[s] : Announced(s) /\ (Rewrite(s, Proven(r)) \/ Rewrite(s, (live[s] \ {r}) \cup Proven(r)))
    BY <1>4 DEF PromoteRow, RescueRow
  <2>2. Proven(r) \in SUBSET Row /\ (live[s] \ {r}) \cup Proven(r) \in SUBSET Row
    BY <1>1, <1>3
  <2> QED BY <2>1, <2>2
<1>5. CASE TakeDown(s) \/ LoseRow(s)
  <2>1. PICK ended \in SUBSET live[s] : Rewrite(s, live[s] \ ended) /\ (Announced(s) \/ Unannounced(s))
    BY <1>5 DEF TakeDown, LoseRow
  <2> QED BY <1>1, <2>1
<1>6. ASSUME NEW n \in Sites, Relocate(s, n) \/ ScaleUp(s, n) \/ GoLive(s, n) \/ ReturnRow(s, n) \/ ReclaimRow(s, n)
      PROVE  \E rows \in SUBSET Row : Rewrite(s, rows) /\ (Announced(s) \/ Unannounced(s))
  <2>1. PICK kept \in SUBSET live[s] : Rewrite(s, kept \cup Checked(n)) /\ (Announced(s) \/ Unannounced(s))
    BY <1>6 DEF Relocate, ScaleUp, GoLive, ReturnRow, ReclaimRow
  <2>2. kept \cup Checked(n) \in SUBSET Row
    BY <1>1, <1>2
  <2> QED BY <2>1, <2>2
<1> QED BY <1>4, <1>5, <1>6 DEF RowsWritten

LEMMA IngressTypeStep == IngressTypeOK /\ [IngressNext]_ingressVars => IngressTypeOK'
<1> SUFFICES ASSUME IngressTypeOK, [IngressNext]_ingressVars PROVE IngressTypeOK'
    OBVIOUS
<1> USE DEF IngressTypeOK
<1>1. ASSUME NEW n \in Names, BeginLookup(n) PROVE IngressTypeOK'
  BY <1>1, ResolveTyped DEF BeginLookup
<1>2. ASSUME NEW n \in Names, FillCache(n) PROVE IngressTypeOK'
  BY <1>2 DEF FillCache
<1>3. ASSUME NEW n \in Names, Expire(n) PROVE IngressTypeOK'
  BY <1>3 DEF Expire
<1>4. ASSUME Invalidate PROVE IngressTypeOK'
  BY <1>4 DEF Invalidate
<1>5. ASSUME NEW s \in Services, RowsWritten(s) PROVE IngressTypeOK'
  <2> PICK rows \in SUBSET Row : Rewrite(s, rows) /\ (Announced(s) \/ Unannounced(s))
    BY <1>5, RowsTyped
  <2>1. CASE Announced(s)
    BY <2>1 DEF Rewrite, Change, Announced, Announce, Names
  <2>2. CASE Unannounced(s)
    BY <2>2 DEF Rewrite, Change, Unannounced, Dropped
  <2> QED BY <2>1, <2>2
<1>6. ASSUME NEW n \in Sites, MoveAddress(n) PROVE IngressTypeOK'
  BY <1>6 DEF MoveAddress, Change
<1>7. ASSUME NEW to \in Services \cup {Unattached}, SetAlias(to) PROVE IngressTypeOK'
  BY <1>7 DEF SetAlias, Change, Announce, Names
<1>8. CASE UNCHANGED ingressVars
  BY <1>8 DEF ingressVars
<1> QED
  BY <1>1, <1>2, <1>3, <1>4, <1>5, <1>6, <1>7, <1>8 DEF IngressNext, RowsWritten

LEMMA IngressInitially == IngressInit => IngressTypeOK
  BY DEF IngressInit, IngressTypeOK

\* Every variable of the edge keeps its type.
THEOREM IngressTyped == IngressSpec => []IngressTypeOK
  BY IngressInitially, IngressTypeStep, PTL DEF IngressSpec

-----------------------------------------------------------------------------
(* A hostname is not affected by a change to a service it is not of.        *)

LEMMA Unaffected ==
  ASSUME IngressTypeOK, NEW s \in Services, NEW n \in Names, Owner(n) # s,
         UNCHANGED <<attached, moved>>, \A t \in Services \ {s} : live'[t] = live[t]
  PROVE  Resolve(n)' = Resolve(n)
<1>1. Owner(n)' = Owner(n)
  BY DEF Owner
<1>2. CASE Owner(n) = Unattached
  BY <1>1, <1>2 DEF Resolve
<1>3. CASE Owner(n) # Unattached
  <2>1. live'[Owner(n)] = live[Owner(n)]
    BY <1>3, OwnerTyped
  <2> QED BY <1>1, <2>1 DEF Resolve
<1> QED BY <1>2, <1>3

\* A writer changes the rows of one service, and announces that service or is excused.
LEMMA WriteExplained ==
  ASSUME IngressTypeOK, StaleOnlyIfExcused, NEW s \in Services, NEW rows, Rewrite(s, rows),
         Announced(s) \/ Unannounced(s)
  PROVE  StaleOnlyIfExcused'
<1> SUFFICES ASSUME NEW n \in Names
             PROVE  (Current(cache[n], n) \/ n \in excused \/ \E what \in pending : n \in Dropped(what))'
  BY DEF StaleOnlyIfExcused
<1>1. UNCHANGED <<attached, moved, cache, lookup>>
  BY DEF Announced, Unannounced
<1>2. \A what : Dropped(what)' = Dropped(what)
  BY <1>1 DEF Dropped, Owner
<1>3. pending \subseteq pending' /\ excused \subseteq excused'
  BY DEF Announced, Unannounced, Announce
<1>4. CASE Owner(n) = s
  <2>1. n \in Dropped(s)
    BY <1>4, IngressAssumption DEF Dropped, Names
  <2>2. s \in pending' \/ n \in excused'
    BY <2>1 DEF Announced, Unannounced, Announce
  <2> QED BY <1>2, <2>1, <2>2
<1>5. CASE Owner(n) # s
  <2>1. \A t \in Services \ {s} : live'[t] = live[t]
    BY DEF Rewrite, IngressTypeOK
  <2>2. Resolve(n)' = Resolve(n)
    BY <1>1, <1>5, <2>1, Unaffected
  <2> QED BY <1>1, <1>2, <1>3, <2>2 DEF StaleOnlyIfExcused, Current
<1> QED BY <1>4, <1>5

LEMMA StaleStep ==
  IngressTypeOK /\ StaleOnlyIfExcused /\ [IngressNext]_ingressVars => StaleOnlyIfExcused'
<1> SUFFICES ASSUME IngressTypeOK, StaleOnlyIfExcused, [IngressNext]_ingressVars
             PROVE  StaleOnlyIfExcused'
    OBVIOUS
<1>a. ASSUME UNCHANGED <<live, attached, moved>>
      PROVE  /\ \A n : Resolve(n)' = Resolve(n)
             /\ \A what : Dropped(what)' = Dropped(what)
  BY <1>a DEF Resolve, Dropped, Owner
<1>1. ASSUME NEW n \in Names, BeginLookup(n) PROVE StaleOnlyIfExcused'
  BY <1>1, <1>a DEF BeginLookup, StaleOnlyIfExcused, Current
<1>2. ASSUME NEW n \in Names, FillCache(n) PROVE StaleOnlyIfExcused'
  <2> SUFFICES ASSUME NEW m \in Names
      PROVE (Current(cache[m], m) \/ m \in excused \/ \E what \in pending : m \in Dropped(what))'
    BY DEF StaleOnlyIfExcused
  <2>1. CASE m = n
    BY <1>2, <1>a, <2>1 DEF FillCache, Current, IngressTypeOK
  <2>2. CASE m # n
    BY <1>2, <1>a, <2>2 DEF FillCache, Current, IngressTypeOK, StaleOnlyIfExcused
  <2> QED BY <2>1, <2>2
<1>3. ASSUME NEW n \in Names, Expire(n) PROVE StaleOnlyIfExcused'
  BY <1>3, <1>a DEF Expire, Current, IngressTypeOK, StaleOnlyIfExcused
<1>4. ASSUME Invalidate PROVE StaleOnlyIfExcused'
  BY <1>4, <1>a DEF Invalidate, Current, IngressTypeOK, StaleOnlyIfExcused
<1>5. ASSUME NEW s \in Services, RowsWritten(s) PROVE StaleOnlyIfExcused'
  BY <1>5, RowsTyped, WriteExplained
<1>6. ASSUME NEW k \in Sites, MoveAddress(k) PROVE StaleOnlyIfExcused'
  <2> SUFFICES ASSUME NEW n \in Names
      PROVE (Current(cache[n], n) \/ n \in excused \/ \E what \in pending : n \in Dropped(what))'
    BY DEF StaleOnlyIfExcused
  <2>1. /\ \A what : Dropped(what)' = Dropped(what)
        /\ Owner(n)' = Owner(n)
    BY <1>6 DEF MoveAddress, Dropped, Owner
  <2>2. CASE Owner(n) = Unattached
    BY <1>6, <2>1, <2>2 DEF MoveAddress, Resolve, Current, StaleOnlyIfExcused
  <2>3. CASE Owner(n) # Unattached
    BY <1>6, <2>3 DEF MoveAddress
  <2> QED BY <2>2, <2>3
<1>7. ASSUME NEW to \in Services \cup {Unattached}, SetAlias(to) PROVE StaleOnlyIfExcused'
  <2> SUFFICES ASSUME NEW n \in Names
      PROVE (Current(cache[n], n) \/ n \in excused \/ \E what \in pending : n \in Dropped(what))'
    BY DEF StaleOnlyIfExcused
  <2>1. CASE n = Alias
    BY <1>7, <2>1 DEF SetAlias, Announce, Dropped
  <2>2. CASE n # Alias
    <3>1. Owner(n)' = Owner(n) /\ Resolve(n)' = Resolve(n)
      BY <1>7, <2>2 DEF SetAlias, Owner, Resolve
    <3>2. \A what : n \in Dropped(what) <=> n \in Dropped(what)'
      BY <2>2, <3>1 DEF Dropped
    <3> QED BY <1>7, <3>1, <3>2 DEF SetAlias, Announce, Current, StaleOnlyIfExcused
  <2> QED BY <2>1, <2>2
<1>8. CASE UNCHANGED ingressVars
  BY <1>8, <1>a DEF ingressVars, Current, StaleOnlyIfExcused
<1> QED
  BY <1>1, <1>2, <1>3, <1>4, <1>5, <1>6, <1>7, <1>8 DEF IngressNext, RowsWritten

LEMMA NothingStaleAtFirst == IngressInit => StaleOnlyIfExcused
  BY DEF IngressInit, StaleOnlyIfExcused, Current

\* A cached route is where its service is, or the writer that moved the service has
\* yet to invalidate it, or a lookup overlapped that writer, or one of the writers
\* that announce nothing (GoLive, LoseRow, ReturnRow, ReclaimRow, MoveAddress) has
\* been there since the key was set or dropped.
THEOREM RoutesExplained == IngressSpec => []StaleOnlyIfExcused
<1>1. IngressInit => IngressTypeOK /\ StaleOnlyIfExcused
  BY IngressInitially, NothingStaleAtFirst
<1>2. (IngressTypeOK /\ StaleOnlyIfExcused) /\ [IngressNext]_ingressVars
        => (IngressTypeOK /\ StaleOnlyIfExcused)'
  BY IngressTypeStep, StaleStep
<1> QED BY <1>1, <1>2, PTL DEF IngressSpec
=============================================================================
