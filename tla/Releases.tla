------------------------------ MODULE Releases ------------------------------
(* The control plane's side of a rollout: the deploy route once its image   *)
(* is built, restart and stop (api/services.routes.ts), the heartbeat       *)
(* handler (api/agent.routes.ts) with reclaimToNode(), and the sweeper with *)
(* rescheduleFromNode().                                                    *)
(*                                                                          *)
(* Each SQL statement or transaction is a step of its own; what it writes   *)
(* is guarded by its WHERE clause alone, however long ago the rows it names *)
(* were read.                                                               *)
EXTENDS NodeAgent

CONSTANTS
  Operations,   \* what the operator may do: `deploy', `restart', `stop'
  MaxOperations,\* bound on how often
  Prompt        \* ten minutes are enough for a node to start and report a container

ASSUME OperatorAssumption ==
  /\ Operations \subseteq {"deploy", "restart", "stop"}
  /\ MaxOperations \in Nat
  /\ Prompt \in BOOLEAN

VARIABLES
  operations,   \* operations so far
  calls,        \* restarts and stops that have read their rows and not yet written
  sweep         \* where the sweeper is

operator == <<operations, calls>>

-----------------------------------------------------------------------------
Call == [kind: {"restart", "stop"}, rows: SUBSET Row]

(* The sweeper's tick: verdicts on overdue rollouts, nodes to be dealt with *)
(* one by one, rows to be moved off the current one.                        *)
Sweep == [at: {"rest", "stalled", "nodes", "move"},
          rescue: SUBSET Row, fail: SUBSET Row, nodes: SUBSET Node, rows: SUBSET Row]
Asleep == [at |-> "rest", rescue |-> {}, fail |-> {}, nodes |-> {}, rows |-> {}]

ReleasesTypeOK ==
  /\ operations \in 0..MaxOperations
  /\ calls \subseteq Call
  /\ sweep \in Sweep

ReleasesInit == operations = 0 /\ calls = {} /\ sweep = Asleep

(* place(): a pinned service fits its node only, and none that is down.     *)
(* Which of the others has room is not modelled.                            *)
Eligible == IF pinned THEN {Home} \intersect Online ELSE Online

-----------------------------------------------------------------------------
Operate(kind) ==
  /\ kind \in Operations /\ operations < MaxOperations
  /\ operations' = operations + 1

(* POST .../deploy.                                                         *)
Open == \E r \in Fresh, n \in Eligible :
  /\ Operate("deploy")
  /\ rows' = [rows EXCEPT ![r].status = "preparing", ![r].node = n]
  /\ UNCHANGED <<pinned, nodeStatus, report, silence, agents, heartbeat, faults, calls, sweep>>

(* The build failed, was cancelled, or was given up by failStaleBuilds().   *)
FailPreparing(r) ==
  /\ rows[r].status = "preparing"
  /\ rows' = [rows EXCEPT ![r].status = "failed"]
  /\ UNCHANGED <<pinned, nodeStatus, report, silence, agents, heartbeat, faults, operator, sweep>>

(* Mutation of GoesLive: the row is not read under its lock.                *)
GoesLiveUnlocked(r) == rows[r].status \in {"preparing", "failed"} /\ rows[r].image = NoImage

(* The row's status, read FOR UPDATE.                                       *)
GoesLive(r) == rows[r].status = "preparing"

(* The releases superseded when a new one goes live.                        *)
Replaced == IF HasVolume THEN LiveRows ELSE {}

(* started_at is left alone: it is when the row was inserted, and the build *)
(* may take longer than the window of the rollout.                          *)
GoLive(r) == \E image \in Image, age \in {"new", "spent"} :
  /\ GoesLive(r)
  /\ rows' = [Supersede(Replaced) EXCEPT ![r].status = "deploying", ![r].image = image,
                                         ![r].port = r, ![r].age = age]
  /\ UNCHANGED <<pinned, nodeStatus, report, silence, agents, heartbeat, faults, operator, sweep>>

(* Restart reads the newest live row, stop all of them ...                  *)
BeginCall(kind, set) ==
  /\ Operate(kind)
  /\ calls' = calls \union {[kind |-> kind, rows |-> set]}
  /\ UNCHANGED <<store, agents, heartbeat, faults, sweep>>

BeginRestart == \E r \in LiveRows :
  (\A s \in LiveRows : s <= r) /\ BeginCall("restart", {r})
BeginStop == LiveRows # {} /\ BeginCall("stop", LiveRows)

(* ... and then write: a restart is a new row with the image and the port   *)
(* of the one it supersedes.                                                *)
EndRestart == \E c \in calls, r \in Row, new \in Fresh :
  /\ c.kind = "restart" /\ c.rows = {r}
  /\ rows' = [Supersede({r}) EXCEPT ![new] = Deploying(rows[r].node, rows[r].image, rows[r].port)]
  /\ calls' = calls \ {c}
  /\ UNCHANGED <<pinned, nodeStatus, report, silence, agents, heartbeat, faults, operations, sweep>>

EndStop == \E c \in calls :
  /\ c.kind = "stop"
  /\ rows' = Supersede(c.rows)
  /\ calls' = calls \ {c}
  /\ UNCHANGED <<pinned, nodeStatus, report, silence, agents, heartbeat, faults, operations, sweep>>

-----------------------------------------------------------------------------
(* POST /agent/heartbeat, of node n, after the heartbeat is recorded.       *)
Proceed(n, at, set) == heartbeat' = [heartbeat EXCEPT ![n] = [at |-> at, rows |-> set]]

(* One transaction per row: it runs, whatever else was live is superseded.  *)
Promote(n) == \E r \in heartbeat[n].rows :
  /\ heartbeat[n].at = "promote"
  /\ rows' = [Supersede(LiveRows \ {r}) EXCEPT ![r].status = "running"]
  /\ Proceed(n, "promote", heartbeat[n].rows \ {r})
  /\ UNCHANGED <<pinned, nodeStatus, report, silence, agents, faults, operator, sweep>>

(* The node is online again if it was not, and then reclaimToNode() runs.   *)
Recover(n) ==
  /\ heartbeat[n] = [at |-> "promote", rows |-> {}]
  /\ nodeStatus' = [nodeStatus EXCEPT ![n] = "online"]
  /\ Proceed(n, IF nodeStatus[n] = "offline" THEN "held" ELSE "none", {})
  /\ UNCHANGED <<rows, pinned, report, silence, agents, faults, operator, sweep>>

(* The rows held on the node ...                                            *)
ReadHeld(n) ==
  /\ heartbeat[n].at = "held"
  /\ Proceed(n, "resume", {r \in On(n) : rows[r].status = "held"})
  /\ UNCHANGED <<store, agents, faults, operator, sweep>>

(* Mutation of Resume: started_at is left alone.                            *)
ResumeOverdue(n) == \E r \in heartbeat[n].rows :
  /\ heartbeat[n].at = "resume"
  /\ rows' = [rows EXCEPT ![r].status = "deploying"]
  /\ Proceed(n, "resume", heartbeat[n].rows \ {r})
  /\ UNCHANGED <<pinned, nodeStatus, report, silence, agents, faults, operator, sweep>>

(* ... are deployed there again.                                            *)
Resume(n) == \E r \in heartbeat[n].rows :
  /\ heartbeat[n].at = "resume"
  /\ rows' = [rows EXCEPT ![r].status = "deploying", ![r].age = "new"]
  /\ Proceed(n, "resume", heartbeat[n].rows \ {r})
  /\ UNCHANGED <<pinned, nodeStatus, report, silence, agents, faults, operator, sweep>>

(* placeStranded(): the newest stranded row, unless the service is live ... *)
ReadStranded(n) ==
  LET stranded == {r \in Row : rows[r].status = "stranded"}
      newest == {r \in stranded : \A s \in stranded : s <= r}
  IN
  /\ heartbeat[n] = [at |-> "resume", rows |-> {}]
  /\ IF stranded = {} \/ \E r \in Row : rows[r].status \in Live \union {"held"}
       THEN Proceed(n, "none", {}) ELSE Proceed(n, "place", newest)
  /\ UNCHANGED <<store, agents, faults, operator, sweep>>

(* ... is deployed where it fits.  No node is known to hold its volume.     *)
Place(n) == \E r \in heartbeat[n].rows :
  /\ heartbeat[n].at = "place"
  /\ \/ Eligible = {} /\ UNCHANGED rows
     \/ \E new \in Fresh, to \in Eligible :
          rows' = [rows EXCEPT ![new] = Deploying(to, rows[r].image, new)]
  /\ Proceed(n, "none", {})
  /\ UNCHANGED <<pinned, nodeStatus, report, silence, agents, faults, operator, sweep>>

-----------------------------------------------------------------------------
(* failStalledRollouts(): the overdue rollouts and what the last heartbeat  *)
(* of their nodes says ...                                                  *)
Overdue == {r \in Row : rows[r].status = "deploying" /\ rows[r].age # "new"}
Forgotten(n) == silence[n] = "expired"
SeenOf(r) == report[rows[r].node][r]

(* Mutation of Judged: a silent node's row fails like any other.            *)
JudgedAll == Overdue

(* Mutation of Judged: a container that runs but is not healthy is left be. *)
JudgedHealthy == {r \in Overdue : ~Forgotten(rows[r].node) /\ SeenOf(r) # "unhealthy"}

(* A node whose heartbeat is forgotten says nothing either way.             *)
Judged == {r \in Overdue : ~Forgotten(rows[r].node)}

SweepStalled ==
  /\ sweep.at = "rest"
  /\ LET rescue == {r \in Judged : SeenOf(r) \in Up}
     IN sweep' = [Asleep EXCEPT !.at = "stalled", !.rescue = rescue, !.fail = Judged \ rescue]
  /\ UNCHANGED <<store, agents, heartbeat, faults, operator>>

(* ... decide them, one by one.                                             *)
Rescue == \E r \in sweep.rescue :
  /\ rows' = [rows EXCEPT ![r].status = "running"]
  /\ sweep' = [sweep EXCEPT !.rescue = @ \ {r}]
  /\ UNCHANGED <<pinned, nodeStatus, report, silence, agents, heartbeat, faults, operator>>

FailStalled == \E r \in sweep.fail :
  /\ rows' = [rows EXCEPT ![r].status = "failed"]
  /\ sweep' = [sweep EXCEPT !.fail = @ \ {r}]
  /\ UNCHANGED <<pinned, nodeStatus, report, silence, agents, heartbeat, faults, operator>>

(* Nodes that have missed their heartbeats are down.                        *)
MarkDown ==
  LET down == {n \in Online : silence[n] # "fresh"} IN
  /\ sweep.at = "stalled" /\ sweep.rescue = {} /\ sweep.fail = {}
  /\ nodeStatus' = [n \in Node |-> IF n \in down THEN "offline" ELSE nodeStatus[n]]
  /\ sweep' = [Asleep EXCEPT !.at = IF down = {} THEN "rest" ELSE "nodes", !.nodes = down]
  /\ UNCHANGED <<rows, pinned, report, silence, agents, heartbeat, faults, operator>>

(* rescheduleFromNode(): the rows live on one of them ...                   *)
ReadAffected == \E n \in sweep.nodes :
  /\ sweep.at = "nodes"
  /\ sweep' = [sweep EXCEPT !.at = "move", !.nodes = @ \ {n}, !.rows = Wanted(n)]
  /\ UNCHANGED <<store, agents, heartbeat, faults, operator>>

(* The node that holds a volume is the one that is down.                    *)
Targets(r) == IF HasVolume THEN Online \intersect {rows[r].node} ELSE Online

(* ... are held, stranded or moved.                                         *)
Move(r) ==
  /\ sweep.at = "move" /\ r \in sweep.rows
  /\ \/ pinned /\ rows' = [rows EXCEPT ![r].status = "held"]
     \/ ~pinned /\ Targets(r) = {} /\ rows' = [rows EXCEPT ![r].status = "stranded"]
     \/ /\ ~pinned
        /\ \E new \in Fresh, to \in Targets(r) :
             rows' = [Supersede({r}) EXCEPT ![new] = Deploying(to, rows[r].image, new)]
  /\ sweep' = [sweep EXCEPT !.rows = @ \ {r}]
  /\ UNCHANGED <<pinned, nodeStatus, report, silence, agents, heartbeat, faults, operator>>

MovedAll ==
  /\ sweep.at = "move" /\ sweep.rows = {}
  /\ sweep' = IF sweep.nodes = {} THEN Asleep ELSE [sweep EXCEPT !.at = "nodes"]
  /\ UNCHANGED <<store, agents, heartbeat, faults, operator>>

-----------------------------------------------------------------------------
(* Ten minutes pass since the row went live.  A prompt node runs the container by then, has reported *)
(* it, and is done with passes from before.                                 *)
RunsLate(r) ==
  /\ rows[r].status = "deploying" /\ rows[r].age = "new"
  /\ Prompt => box[r] = "up" /\ SeenOf(r) \in Up /\ r \notin pass[rows[r].node].gone
  /\ rows' = [rows EXCEPT ![r].age = "late"]
  /\ UNCHANGED <<pinned, nodeStatus, report, silence, agents, heartbeat, faults, operator, sweep>>

(* The control plane restarts: its requests and its sweep are gone.         *)
ControlRestart ==
  /\ Fault("control")
  /\ heartbeat' = [n \in Node |-> Handled]
  /\ calls' = {}
  /\ sweep' = Asleep
  /\ UNCHANGED <<store, agents, operations>>

-----------------------------------------------------------------------------
HandlerStep(n) ==
  \/ Promote(n) \/ Recover(n)
  \/ ReadHeld(n) \/ Resume(n) \/ ReadStranded(n) \/ Place(n)

SweepStep ==
  \/ SweepStalled \/ Rescue \/ FailStalled
  \/ MarkDown \/ ReadAffected \/ MovedAll
  \/ \E r \in Row : Move(r)

ReleasesNext ==
  \/ Open \/ BeginRestart \/ BeginStop \/ EndRestart \/ EndStop
  \/ \E r \in Row : FailPreparing(r) \/ GoLive(r) \/ RunsLate(r)
  \/ \E n \in Node : HandlerStep(n)
  \/ SweepStep \/ ControlRestart
=============================================================================
