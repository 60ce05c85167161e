----------------------------- MODULE ReleaseRows -----------------------------
(* What the control plane stores about the releases of one service, and     *)
(* what the other modules of a rollout share: the deployments rows and the  *)
(* node statuses of Postgres, the last heartbeat of each node in Redis.     *)
(*                                                                          *)
(* The service is probed over a published port, as every service with a     *)
(* health check path and a host port is.                                    *)
EXTENDS Naturals, FiniteSets

CONSTANTS
  Node,         \* the nodes of the fleet
  Home,         \* the node the service runs on at first, the one it may be pinned to
  Pinning,      \* what services.placement_policy = 'pinned' may be
  HasVolume,    \* services.persistent_volume
  Image,        \* images that deploys may bring
  Serving,      \* those whose containers answer their health check
  FirstImage,   \* the image the service runs at first
  NoImage,      \* deployments.image_tags is empty
  MaxRows       \* bound on the rows of the service

ASSUME PlaceAssumption == Home \in Node /\ Pinning \in (SUBSET BOOLEAN) \ {{}} /\ HasVolume \in BOOLEAN
ASSUME ImageAssumption ==
  /\ Serving \subseteq Image /\ FirstImage \in Serving
  /\ NoImage \notin Image
ASSUME RowsAssumption == MaxRows \in Nat \ {0}

VARIABLES
  rows,         \* the deployments rows of the service
  pinned,       \* services.placement_policy is `pinned'
  nodeStatus,   \* nodes.status
  report,       \* what the last heartbeat of a node said of each row's container
  silence       \* the age of that heartbeat: its key expires later than it is stale

store == <<rows, pinned, nodeStatus, report, silence>>

-----------------------------------------------------------------------------
(* Rows are numbered as they are inserted.                                  *)
Row == 1..MaxRows

(* queued, building, pushing and scheduling are `preparing';                *)
(* pinned_unavailable is `held'; a row that failed with no_eligible_node,   *)
(* which placeStranded() looks for, is `stranded'.                          *)
Status == {"absent", "preparing", "deploying", "running", "superseded", "failed",
           "stranded", "held"}
Live == {"deploying", "running"}

(* A port is named by the row it was allocated for: allocateHostPort() picks *)
(* one that no live row of the node has, restarts hand it on.  The age of   *)
(* started_at: within the rollout window, past it, or past it already when  *)
(* the row went live, its build having used the window up.                  *)
Release == [status: Status, node: Node, image: Image \union {NoImage},
            port: 0..MaxRows, age: {"new", "late", "spent"}]

NoRelease == [status |-> "absent", node |-> Home, image |-> NoImage,
              port |-> 0, age |-> "new"]

(* A container as a heartbeat shows it: not listed, listed and not running, *)
(* or running with a verdict of the probe: not healthy, healthy, none.      *)
Seen == {"absent", "down", "unhealthy", "healthy", "unprobed"}
Up == {"unhealthy", "healthy", "unprobed"}

On(n) == {r \in Row : rows[r].status # "absent" /\ rows[r].node = n}
LiveRows == {r \in Row : rows[r].status \in Live}
Wanted(n) == {r \in On(n) : rows[r].status \in Live}
Online == {n \in Node : nodeStatus[n] = "online"}

(* The next row to insert, if the bound leaves one.                         *)
Fresh == {r \in Row : rows[r].status = "absent" /\ \A s \in 1..(r - 1) : rows[s].status # "absent"}

Deploying(n, image, port) ==
  [status |-> "deploying", node |-> n, image |-> image, port |-> port, age |-> "new"]

Supersede(set) ==
  [r \in Row |-> IF r \in set THEN [rows[r] EXCEPT !.status = "superseded"] ELSE rows[r]]

(* Handed a heartbeat that shows containers as `seen', which rows deploying *)
(* on n does the handler take for up?  One that is not in it is looked up   *)
(* by the name of its service, which gives the last container listed: the   *)
(* daemon's oldest, of any row, since a row's may have been created again.  *)
ByName(seen, last) == seen[last] # "absent" \/ \A s \in Row : seen[s] = "absent"

Evidence(seen, last, r, hows) ==
  \/ seen[r] \in hows
  \/ seen[r] = "absent" /\ seen[last] \in hows

Promotable(n, seen, last) ==
  {r \in On(n) : rows[r].status = "deploying" /\ Evidence(seen, last, r, {"healthy", "unprobed"})}

StoreTypeOK ==
  /\ rows \in [Row -> Release]
  /\ pinned \in Pinning
  /\ nodeStatus \in [Node -> {"online", "offline"}]
  /\ report \in [Node -> [Row -> Seen]]
  /\ silence \in [Node -> {"fresh", "stale", "expired"}]

(* The service has run on its home node for long, which reports it healthy. *)
StoreInit ==
  /\ rows = [r \in Row |-> IF r = 1
               THEN [Deploying(Home, FirstImage, 1) EXCEPT !.status = "running", !.age = "late"]
               ELSE NoRelease]
  /\ pinned \in Pinning
  /\ nodeStatus = [n \in Node |-> "online"]
  /\ report = [n \in Node |-> [r \in Row |-> IF n = Home /\ r = 1 THEN "healthy" ELSE "absent"]]
  /\ silence = [n \in Node |-> "fresh"]
=============================================================================
