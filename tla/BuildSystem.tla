---------------------------- MODULE BuildSystem ----------------------------
(* The control plane and the agents' build executors together: delegated    *)
(* builds as a whole, and what they promise.                                *)
EXTENDS BuildJobs, BuildExecutor

vars == <<coordVars, tasks, toAgent, toControl>>

TypeOK == CoordTypeOK /\ ExecutorTypeOK /\ MessagesTypeOK

Init ==
  /\ CoordInit
  /\ ExecutorInit
  /\ toAgent = {}
  /\ toControl = {}

Next ==
  \/ CoordNext /\ UNCHANGED tasks
  \/ ExecutorNext /\ UNCHANGED coordVars

Spec == Init /\ [][Next]_vars

-----------------------------------------------------------------------------
(* Safety.                                                                  *)

(* A row that succeeded holds an image of its own platform, built on the    *)
(* attempt and by the builder its origin row names: what a builder pushes   *)
(* after it lost the job to another attempt never becomes the job's image.  *)
(* handleMessage() and its fence; the digest reuse of build().              *)
DigestFence == \A j \in Job : jobs[j].status = "succeeded" =>
  LET origin == jobs[j].digest IN
  /\ origin # NoDigest
  /\ origin.job[2] = j[2]
  /\ jobs[origin.job].status = "succeeded"
  /\ jobs[origin.job].attempt = origin.attempt
  /\ jobs[origin.job].builder = origin.builder

(* An attempt at a job belongs to one builder.  Whatever an agent knows of  *)
(* an attempt, or is being told, or says, the attempt is one the row has    *)
(* reached, and its current attempt is nobody's but the row's builder's.    *)
(* The increment of attempt in reserve().                                   *)
Traces ==
  {[job |-> m.job, attempt |-> m.attempt, builder |-> m.builder] : m \in toAgent \union toControl}
  \union UNION {{[job |-> t.job, attempt |-> t.attempt, builder |-> b] : t \in tasks[b]} : b \in Builders}

AttemptOwned ==
  /\ \A x \in Traces :
       /\ x.attempt <= jobs[x.job].attempt
       /\ x.attempt = jobs[x.job].attempt => x.builder = jobs[x.job].builder
  /\ \A x, y \in Traces : x.job = y.job /\ x.attempt = y.attempt => x.builder = y.builder

(* A receipt makes an agent forget a result, so it is sent only once the    *)
(* attempt can no longer use one.  handleMessage() sends it even when the   *)
(* fence refused the result.                                                *)
ReceiptMeansSettled == \A m \in toAgent :
  m.type = "receipt" /\ m.attempt = jobs[m.job].attempt => jobs[m.job].status \notin Active

(* A queued or active row has a runner that will see it through, unless a   *)
(* restart took the runner away, and then the row's build is not in flight, *)
(* so that reapOrphans() may have it.  No path out of runJob() and build()  *)
(* leaves work nobody waits for.                                            *)
Watched == \A j \in Job : jobs[j].status \in Open =>
  \/ runner[j] \in {"check", "reserve", "send", "poll", "expire", "fail"}
  \/ restarts > 0 /\ j[1] \notin inFlight

(* An active row can be reaped: it has a lease that passes, and a builder   *)
(* and an attempt to send the cancel message to.  reapOrphans() never sees  *)
(* an active row without a lease.                                           *)
ActiveHasLease == \A j \in Job : jobs[j].status \in Active =>
  jobs[j].lease # "none" /\ jobs[j].builder \in Builders /\ jobs[j].attempt \in Attempt

(* A deployment that left the build phases has an image for each platform.  *)
(* Promise.all, the finally of build() and phases.set('scheduling').        *)
ShipsWhatWasBuilt == \A d \in Deployments :
  deployment[d] = "scheduling" => \A p \in Platforms : jobs[<<d, p>>].status = "succeeded"

(* A builder is not given more than it takes: the rows it is active for,    *)
(* counted under the node locks of reserve(), over every retry and restart. *)
BuilderNotOverbooked == \A b \in Builders : Load(b) <= MaxJobs

(* "Cancellation is durable and cannot be overwritten by a later phase      *)
(* update" (docs/agent-delegated-builds.md): no race of the build's phases, *)
(* the reaper and the sweeper revives a deployment that failed.             *)
FailedStaysFailed == [][\A d \in Deployments :
  deployment[d] = "failed" => deployment'[d] = "failed"]_vars

(* What became of a job is decided once: late events, retries, cancels and  *)
(* the reaper leave a closed row's status and image alone.                  *)
ClosedIsFinal == [][\A j \in Job : jobs[j].status \in Closed =>
  jobs'[j].status = jobs[j].status /\ jobs'[j].digest = jobs[j].digest]_vars

(* After a restart an agent that is still building can neither finish nor   *)
(* prolong the job: the row only runs out, times out or is cancelled.       *)
(* The inFlight check of handleMessage().                                   *)
OrphansOnlyEnd == [][\A j \in Job :
  building[j[1]] = "lost" /\ jobs'[j] # jobs[j] =>
    \/ jobs'[j].status \in {"timed_out", "cancelled"}
    \/ jobs'[j] = [jobs[j] EXCEPT !.lease = "passed"]]_vars

-----------------------------------------------------------------------------
(* The table implements fenced work.                                        *)
HolderOf(row) == IF row.status \in Active THEN row.builder ELSE NoBuilder
OutcomeOf(row) ==
  CASE row.status = "succeeded" -> "done"
    [] row.status \in {"failed", "cancelled"} -> "abandoned"
    [] OTHER -> "open"
SamePlatform(j, k) == j[2] = k[2]

Fencing == INSTANCE FencedWork WITH
  Work <- Job, Workers <- Builders, Nobody <- NoBuilder, NoProduct <- NoDigest,
  MaxEpoch <- MaxAttempts, Product <- Built, Reusable <- SamePlatform,
  holder <- [j \in Job |-> HolderOf(jobs[j])],
  epoch <- [j \in Job |-> jobs[j].attempt],
  outcome <- [j \in Job |-> OutcomeOf(jobs[j])],
  product <- [j \in Job |-> jobs[j].digest]

(* The job rows implement FencedWork: leases, messages, retries, restarts   *)
(* and races add nothing to what it allows.                                 *)
ImplementsFencedWork == Fencing!Spec

-----------------------------------------------------------------------------
(* Liveness.  The process keeps running its timers and continuations, and   *)
(* the polls meet their deadline; agents, tunnels and operators owe         *)
(* nothing.  A lease nobody can renew any more passes.                      *)
OrphanLeasePasses(j) == j[1] \notin inFlight /\ LeasePasses(j)

Fairness ==
  /\ \A d \in Deployments : WF_vars(BuildStepOf(d) /\ UNCHANGED tasks)
  /\ \A d \in Deployments : WF_vars(OperatorStepOf(d) /\ UNCHANGED tasks)
  /\ \A d \in Deployments : WF_vars(FailStaleBuild(d) /\ UNCHANGED tasks)
  /\ \A j \in Job : WF_vars(RunnerStepOf(j) /\ UNCHANGED tasks)
  /\ \A j \in Job : WF_vars(OrphanLeasePasses(j) /\ UNCHANGED tasks)
  /\ WF_vars(HandlerStep /\ UNCHANGED tasks)
  /\ WF_vars(ReapScan /\ UNCHANGED tasks)
  /\ WF_vars(ReaperStep /\ UNCHANGED tasks)

FairSpec == Spec /\ Fairness

(* build() returns to its caller, whatever the builders do, unless the      *)
(* process restarts: no wait for a builder, a sibling or a retry is for     *)
(* ever.                                                                    *)
BuildReturns == \A d \in Deployments :
  building[d] \notin {"done", "lost"} ~> building[d] \in {"done", "lost"}

(* "Orphans after a control-plane restart fail clearly rather than          *)
(* remaining running indefinitely" (docs/agent-delegated-builds.md): no row *)
(* stays queued or active.                                                  *)
JobsEnd == \A j \in Job : jobs[j].status \in Open ~> jobs[j].status \notin Open
=============================================================================
