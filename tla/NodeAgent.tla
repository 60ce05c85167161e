------------------------------ MODULE NodeAgent ------------------------------
(* The agents and their nodes' containers: the reconciler of                *)
(* agent/internal/reconcile/reconcile.go, which makes passes over the       *)
(* desired state it fetches, the prober of agent/internal/health, and the   *)
(* heartbeat that reports both.  Reconciler and heartbeat are goroutines of *)
(* their own; one call of the Docker daemon is one step.                    *)
(*                                                                          *)
(* What may go wrong is a fault of one of these kinds, up to a bound:       *)
(*   link     the node loses the control plane for a while                  *)
(*   agent    the agent's process restarts, the containers do not           *)
(*   exit     a container exits                                             *)
(*   docker   the daemon refuses to list, create, start or remove           *)
(*   control  the control plane restarts (in module Releases)               *)
EXTENDS ReleaseRows

CONSTANTS
  Faults,       \* kinds of fault that may happen
  MaxFaults     \* bound on their number

ASSUME FaultsAssumption ==
  /\ Faults \subseteq {"link", "agent", "exit", "docker", "control"}
  /\ MaxFaults \in Nat

VARIABLES
  box,          \* the container of each row, on the row's node
  verdict,      \* the prober's verdict on each row; untracked rows have none
  pass,         \* what is left of the reconciler's pass, per node
  settled,      \* Engine.settled
  connected,    \* whether the node reaches the control plane
  heartbeat,    \* the heartbeat requests the control plane is handling
  faults        \* faults so far

agents == <<box, verdict, pass, settled, connected>>

-----------------------------------------------------------------------------
(* A pass starts the containers of `todo', then removes those of `gone'.    *)
Pass == [todo: SUBSET Row, gone: SUBSET Row]
Rest == [todo |-> {}, gone |-> {}]

(* The handler of a heartbeat, by what it does next; `rows' are the rows    *)
(* its last query returned.  An agent awaits the answer before it sends     *)
(* another.                                                                 *)
Handling == [at: {"none", "promote", "recover", "held", "resume", "stranded", "place"},
             rows: SUBSET Row]
Handled == [at |-> "none", rows |-> {}]

AgentTypeOK ==
  /\ box \in [Row -> {"none", "down", "up"}]
  /\ verdict \in [Row -> {"none", "unhealthy", "healthy"}]
  /\ pass \in [Node -> Pass]
  /\ settled \in [Node -> BOOLEAN]
  /\ connected \in [Node -> BOOLEAN]
  /\ heartbeat \in [Node -> Handling]
  /\ faults \in 0..MaxFaults

AgentInit ==
  /\ box = [r \in Row |-> IF r = 1 THEN "up" ELSE "none"]
  /\ verdict = [r \in Row |-> IF r = 1 THEN "healthy" ELSE "none"]
  /\ pass = [n \in Node |-> Rest]
  /\ settled = [n \in Node |-> TRUE]
  /\ connected = [n \in Node |-> TRUE]
  /\ heartbeat = [n \in Node |-> Handled]
  /\ faults = 0

Fault(kind) == kind \in Faults /\ faults < MaxFaults /\ faults' = faults + 1

-----------------------------------------------------------------------------
(* Mutation of Tracked: a new deployment is reported as one without probe.  *)
TrackedUnprobed(n) ==
  [r \in Row |-> IF r \notin On(n) THEN verdict[r]
                 ELSE IF r \notin Wanted(n) THEN "none"
                 ELSE IF verdict[r] = "none" THEN "unprobed" ELSE verdict[r]]

(* Reconcile: the desired state and Track.  A deployment that is still      *)
(* wanted keeps its verdict, a new one starts without, others are dropped.  *)
Tracked(n) ==
  [r \in Row |-> IF r \notin On(n) THEN verdict[r]
                 ELSE IF r \notin Wanted(n) THEN "none"
                 ELSE IF verdict[r] = "none" THEN "unhealthy" ELSE verdict[r]]

(* Mutation of Listing: unwanted containers that still run are left alone.  *)
ListingDown(n) ==
  [todo |-> {r \in Wanted(n) : box[r] # "up"},
   gone |-> {r \in On(n) \ Wanted(n) : box[r] = "down"}]

(* The containers, listed once for the whole pass.                          *)
Listing(n) ==
  [todo |-> {r \in Wanted(n) : box[r] # "up"},
   gone |-> {r \in On(n) \ Wanted(n) : box[r] # "none"}]

(* What is not wanted is removed last, and not on the first pass.  A pass   *)
(* with nothing left to do is over.                                         *)
Onward(n, left) ==
  LET over == left.todo = {} /\ (settled[n] => left.gone = {}) IN
  /\ pass' = [pass EXCEPT ![n] = IF over THEN Rest ELSE left]
  /\ settled' = [settled EXCEPT ![n] = @ \/ over]

Fetch(n) ==
  /\ connected[n] /\ pass[n] = Rest
  /\ verdict' = Tracked(n)
  /\ Onward(n, Listing(n))
  /\ UNCHANGED <<store, box, connected, heartbeat, faults>>

(* The daemon does not answer: the pass ends before it began.               *)
FetchFails(n) ==
  /\ connected[n] /\ pass[n] = Rest
  /\ Fault("docker")
  /\ verdict' = Tracked(n)
  /\ UNCHANGED <<store, box, pass, settled, connected, heartbeat>>

PortFree(r) ==
  \A s \in On(rows[r].node) \ {r} : box[s] = "up" => rows[s].port # rows[r].port

(* A row's container is removed, if there is one that is not running, then  *)
(* created and started.  A container on the same port makes the start fail. *)
StartRow(n) == \E r \in pass[n].todo :
  /\ Onward(n, [pass[n] EXCEPT !.todo = @ \ {r}])
  /\ box' = [box EXCEPT ![r] = IF PortFree(r) THEN "up" ELSE "down"]
  /\ UNCHANGED <<store, verdict, connected, heartbeat, faults>>

StartFails(n) == \E r \in pass[n].todo :
  /\ Fault("docker")
  /\ Onward(n, [pass[n] EXCEPT !.todo = @ \ {r}])
  /\ \E left \in {"none", "down"} : box' = [box EXCEPT ![r] = left]
  /\ UNCHANGED <<store, verdict, connected, heartbeat>>

(* Mutation of RemoveRow: as soon as they are found.                        *)
RemoveRowAtOnce(n) == \E r \in pass[n].gone :
  /\ Onward(n, [pass[n] EXCEPT !.gone = @ \ {r}])
  /\ box' = [box EXCEPT ![r] = "none"]
  /\ UNCHANGED <<store, verdict, connected, heartbeat, faults>>

RemoveRow(n) == \E r \in pass[n].gone :
  /\ pass[n].todo = {}
  /\ Onward(n, [pass[n] EXCEPT !.gone = @ \ {r}])
  /\ box' = [box EXCEPT ![r] = "none"]
  /\ UNCHANGED <<store, verdict, connected, heartbeat, faults>>

RemoveFails(n) == \E r \in pass[n].gone :
  /\ pass[n].todo = {}
  /\ Fault("docker")
  /\ Onward(n, [pass[n] EXCEPT !.gone = @ \ {r}])
  /\ UNCHANGED <<store, box, verdict, connected, heartbeat>>

-----------------------------------------------------------------------------
(* The probe of a row asks its host port, whoever answers there.            *)
Answers(r) == \E s \in On(rows[r].node) :
  box[s] = "up" /\ rows[s].port = rows[r].port /\ rows[s].image \in Serving

(* Rows whose probe is due; a failing probe may be one of the first three.  *)
Probed(due) ==
  [r \in Row |-> IF r \notin due \/ verdict[r] = "none" THEN verdict[r]
                 ELSE IF Answers(r) THEN "healthy" ELSE "unhealthy"]

SeenAs(r, v) ==
  CASE box[r] = "none" -> "absent"
    [] box[r] = "down" -> "down"
    [] OTHER -> IF v = "none" THEN "unprobed" ELSE v

(* The control plane records a heartbeat and selects what to promote.       *)
Receive(n, seen) ==
  /\ connected[n] /\ heartbeat[n].at = "none"
  /\ report' = [report EXCEPT ![n] = seen]
  /\ silence' = [silence EXCEPT ![n] = "fresh"]
  /\ \E last \in Row :
       /\ ByName(seen, last)
       /\ heartbeat' = [heartbeat EXCEPT ![n] = [at |-> "promote", rows |-> Promotable(n, seen, last)]]

(* A heartbeat: probe, list, send.                                          *)
Beat(n, due) ==
  /\ verdict' = Probed(due)
  /\ Receive(n, [r \in Row |-> IF r \in On(n) THEN SeenAs(r, verdict'[r]) ELSE "absent"])
  /\ UNCHANGED <<rows, pinned, nodeStatus, box, pass, settled, connected, faults>>

(* The daemon cannot list its containers: the heartbeat says nothing of any. *)
BeatBlind(n) ==
  /\ Fault("docker")
  /\ Receive(n, [r \in Row |-> "absent"])
  /\ UNCHANGED <<rows, pinned, nodeStatus, agents>>

(* A new process: nothing is tracked, no pass has completed.                *)
AgentRestart(n) ==
  /\ Fault("agent")
  /\ verdict' = [r \in Row |-> IF r \in On(n) THEN "none" ELSE verdict[r]]
  /\ pass' = [pass EXCEPT ![n] = Rest]
  /\ settled' = [settled EXCEPT ![n] = FALSE]
  /\ UNCHANGED <<store, box, connected, heartbeat>>

Exit(r) ==
  /\ box[r] = "up"
  /\ Fault("exit")
  /\ box' = [box EXCEPT ![r] = "down"]
  /\ UNCHANGED <<store, verdict, pass, settled, connected, heartbeat>>

Disconnect(n) ==
  /\ connected[n]
  /\ Fault("link")
  /\ connected' = [connected EXCEPT ![n] = FALSE]
  /\ UNCHANGED <<store, box, verdict, pass, settled, heartbeat>>

Reconnect(n) ==
  /\ ~connected[n]
  /\ connected' = [connected EXCEPT ![n] = TRUE]
  /\ UNCHANGED <<store, box, verdict, pass, settled, heartbeat, faults>>

(* A node that cannot beat is missed after three intervals, and its last    *)
(* heartbeat forgotten after four, when that was handled long ago.          *)
Silence(n) ==
  /\ ~connected[n] /\ heartbeat[n].at = "none" /\ silence[n] # "expired"
  /\ silence' = [silence EXCEPT ![n] = IF @ = "fresh" THEN "stale" ELSE "expired"]
  /\ report' = IF silence[n] = "fresh" THEN report
               ELSE [report EXCEPT ![n] = [r \in Row |-> "absent"]]
  /\ UNCHANGED <<rows, pinned, nodeStatus, agents, heartbeat, faults>>

-----------------------------------------------------------------------------
PassStep(n) == Fetch(n) \/ StartRow(n) \/ RemoveRow(n)

AgentNext ==
  \/ \E n \in Node :
       \/ PassStep(n) \/ FetchFails(n) \/ StartFails(n) \/ RemoveFails(n)
       \/ \E due \in SUBSET Wanted(n) : Beat(n, due)
       \/ BeatBlind(n) \/ AgentRestart(n)
       \/ Disconnect(n) \/ Reconnect(n) \/ Silence(n)
  \/ \E r \in Row : Exit(r)
=============================================================================
