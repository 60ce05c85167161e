------------------------------- MODULE Rollout -------------------------------
(* The releases of one service over the nodes of a fleet: the control plane *)
(* and the agents together, and what they promise.                          *)
EXTENDS Releases

vars == <<store, agents, heartbeat, faults, operator, sweep>>

TypeOK == StoreTypeOK /\ AgentTypeOK /\ ReleasesTypeOK

Init == StoreInit /\ AgentInit /\ ReleasesInit

Next ==
  \/ AgentNext /\ UNCHANGED <<operator, sweep>>
  \/ ReleasesNext

Spec == Init /\ [][Next]_vars

-----------------------------------------------------------------------------
(* Safety.                                                                  *)

Answering(r) == box[r] = "up" /\ rows[r].image \in Serving

(* Until something fails, or an operator does more than deploy once, a      *)
(* container of the service answers: a deploy brings no downtime, if its    *)
(* build leaves it time.  GoLive leaves the old release live, the           *)
(* reconciler starts before it removes, and the heartbeat handler           *)
(* supersedes a release when it promotes another.  It says nothing of       *)
(* deploys that overlap: promotion by the service's name (Evidence) may     *)
(* then supersede the one that answers.                                     *)
KeepsServing ==
  /\ faults = 0 /\ operations <= 1
  /\ \A r \in Row : rows[r].image \in Serving \union {NoImage} /\ rows[r].age # "spent"
  => \E r \in Row : Answering(r)

(* Some row says that the service is to run, or where to go on, unless a    *)
(* rollout whose build had used its window up was failed: no order of       *)
(* deploys, failovers, returns and restarts loses it.  The sweeper's        *)
(* verdicts, rescheduleFromNode(), reclaimToNode().                         *)
NotLost == \E r \in Row :
  \/ rows[r].status \in Live \union {"held", "stranded"}
  \/ rows[r].status = "failed" /\ rows[r].age = "spent"

(* A deployment that failed or was cancelled before it had an image never   *)
(* goes live.  The FOR UPDATE of the deploy route, the statuses the other   *)
(* writers select by.                                                       *)
CancelledNeverLive == [][\A r \in Row :
  rows[r].status = "failed" /\ rows[r].image = NoImage => rows'[r] = rows[r]]_vars

(* "Cutting a working rollout short is worse than waiting a few more        *)
(* minutes" (heartbeat/sweeper.ts): a rollout whose container runs and      *)
(* answers is not failed, unless it went live with its window used up, and  *)
(* the sweeper judged it before the container ran.                          *)
WorkingNotFailed == [][\A r \in Row :
  rows[r].status \in Live /\ rows[r].age # "spent" /\ Answering(r) => rows'[r].status # "failed"]_vars

(* "A deployment stays `deploying` until the node reports the container     *)
(* healthy, so a broken image simply never gets promoted"                   *)
(* (heartbeat/sweeper.ts).                                                  *)
BrokenNeverPromoted == \A r \in Row :
  rows[r].status = "running" => rows[r].image \in Serving

(* "Persistent-volume services replace in place to avoid concurrent         *)
(* writers" (docs/ARCHITECTURE.md): a node does not run two containers of a *)
(* service with a volume.                                                   *)
OneWriter == HasVolume => \A r, s \in Row :
  box[r] = "up" /\ box[s] = "up" /\ rows[r].node = rows[s].node => r = s

(* A row is held while its node is down, or is about to be resumed:         *)
(* "reclaim resumes it when the node returns" (heartbeat/sweeper.ts).       *)
HeldWhileDown == \A r \in Row : rows[r].status = "held" =>
  \/ nodeStatus[rows[r].node] = "offline"
  \/ heartbeat[rows[r].node].at \in {"held", "resume"}

-----------------------------------------------------------------------------
(* Liveness: the loops of the agents and of the control plane go on, every  *)
(* node finds its way back, ten minutes pass.  Operators owe nothing.       *)
Fairness ==
  /\ \A n \in Node :
       /\ WF_vars(PassStep(n) /\ UNCHANGED <<operator, sweep>>)
       /\ WF_vars(Beat(n, Wanted(n)) /\ UNCHANGED <<operator, sweep>>)
       /\ WF_vars((Reconnect(n) \/ Silence(n)) /\ UNCHANGED <<operator, sweep>>)
       /\ WF_vars(HandlerStep(n))
  /\ WF_vars(SweepStep)
  /\ WF_vars(EndRestart \/ EndStop)
  /\ \A r \in Row : WF_vars(RunsLate(r)) /\ WF_vars(FailPreparing(r))

FairSpec == Spec /\ Fairness

(* "A row stuck in `deploying` forever is a worse answer than a failed one  *)
(* that says what happened" (heartbeat/sweeper.ts): every rollout ends.     *)
RolloutsEnd == \A r \in Row :
  rows[r].status = "deploying" ~> rows[r].status # "deploying"

(* The nodes come to run what the rows say: a container for each live row   *)
(* and no other, whatever failed on the way.                                *)
Converges == <>[](\A r \in Row : box[r] = "up" <=> rows[r].status \in Live)
=============================================================================
