----------------------------- MODULE BuildJobs -----------------------------
(* The control plane's side of delegated builds, AgentBuildRunner in        *)
(* control-plane/src/build/agent.ts, with the deployment route that calls   *)
(* build() and the cancel route of api/services.routes.ts.                  *)
(*                                                                          *)
(* Postgres holds `deployment' and `jobs' and survives a restart of the     *)
(* process; everything else here is in its memory.  The process is one      *)
(* event loop: what runs between two awaits is one step, and each SQL       *)
(* statement is a step of its own, guarded by its WHERE clause alone.       *)
EXTENDS BuildProtocol

CONSTANTS
  Capable,        \* Capable[p]: builders selectBuilder may choose for platform p
  MaxJobs,        \* active jobs a builder is given (nodes.max_concurrent_builds)
  MaxRestarts,    \* bound on restarts of the control plane
  MaxHandling,    \* bound on events between their checks and their UPDATE
  MaxReaping,     \* bound on the rows one pass of the reaper deals with
  Past,           \* deployments of the service that were built before
  Cancellable     \* deployments an operator may cancel: a bound, all of them may be

ASSUME CapableAssumption == Capable \in [Platforms -> SUBSET Builders]
ASSUME BoundsAssumption ==
  /\ MaxJobs \in Nat /\ MaxRestarts \in Nat /\ MaxHandling \in Nat
  /\ MaxReaping \in Nat
  /\ Cancellable \subseteq Deployments
  /\ Past \subseteq Deployments

VARIABLES
  deployment,     \* status of each deployment's row
  jobs,           \* the build_jobs rows
  inFlight,       \* AgentBuildRunner.inFlight
  cancelled,      \* AgentBuildRunner.cancelled
  building,       \* where build() is, per deployment
  built,          \* deployments whose build() has an image to return
  runner,         \* where runJob() is, per job
  excluded,       \* builders the runner of a job has given up on
  handlers,       \* events past the checks of handleMessage, before its UPDATE
  reaping,        \* rows reapOrphans has read and not yet dealt with
  operator,       \* where the cancel route is, per deployment
  restarts        \* restarts of the control plane so far

rows == <<deployment, jobs>>
sets == <<inFlight, cancelled>>
calls == <<building, built, runner, excluded>>
tasksOfLoop == <<handlers, reaping, operator, restarts>>
coordVars == <<rows, sets, calls, tasksOfLoop>>

-----------------------------------------------------------------------------
Active == {"assigned", "running"}
Closed == {"succeeded", "failed", "cancelled"}
JobStatus == {"absent", "queued", "timed_out"} \union Active \union Closed

(* lease_expires_at: null, the epoch that marks an assignment which could   *)
(* not be sent, in the future, or passed.                                   *)
Lease == {"none", "epoch", "live", "passed"}

JobRow == [status: JobStatus, attempt: 0..MaxAttempts, builder: Builders \union {NoBuilder},
           lease: Lease, digest: Digest \union {NoDigest}]
NoRow == [status |-> "absent", attempt |-> 0, builder |-> NoBuilder,
          lease |-> "none", digest |-> NoDigest]

(* queued, building and pushing are guarded alike everywhere: `building'.   *)
DeploymentStatus == {"building", "scheduling", "failed"}

BuildStep == {"ready", "admitted", "inserting", "waiting", "merging",
              "leave", "sweep", "forget", "returned", "done", "lost"}
RunnerStep == {"none", "check", "reserve", "send", "poll", "expire",
               "fail", "mark", "sweep", "resolved", "rejected"}
OperatorStep == {"idle", "mark", "sweep"}
Reap == [job: Job, attempt: 0..MaxAttempts, builder: Builders \union {NoBuilder},
         at: {"row", "deployment"}]

CoordTypeOK ==
  /\ deployment \in [Deployments -> DeploymentStatus]
  /\ jobs \in [Job -> JobRow]
  /\ inFlight \subseteq Deployments
  /\ cancelled \subseteq Deployments
  /\ building \in [Deployments -> BuildStep]
  /\ built \subseteq Deployments
  /\ runner \in [Job -> RunnerStep]
  /\ excluded \in [Job -> SUBSET Builders]
  /\ handlers \subseteq Event
  /\ reaping \subseteq Reap
  /\ operator \in [Deployments -> OperatorStep]
  /\ restarts \in 0..MaxRestarts

(* A row of an earlier build of the same service that succeeded at once;    *)
(* its deployment failed later on.                                          *)
PastRow(j, b) ==
  [status |-> "succeeded", attempt |-> 1, builder |-> b,
   lease |-> "none", digest |-> Built(j, 1, b)]

CoordInit ==
  /\ deployment = [d \in Deployments |-> IF d \in Past THEN "failed" ELSE "building"]
  /\ \E b \in Builders :
       jobs = [j \in Job |-> IF j[1] \in Past THEN PastRow(j, b) ELSE NoRow]
  /\ inFlight = {}
  /\ cancelled = {}
  /\ building = [d \in Deployments |-> IF d \in Past THEN "done" ELSE "ready"]
  /\ built = {}
  /\ runner = [j \in Job |-> "none"]
  /\ excluded = [j \in Job |-> {}]
  /\ handlers = {}
  /\ reaping = {}
  /\ operator = [d \in Deployments |-> "idle"]
  /\ restarts = 0

-----------------------------------------------------------------------------
(* Statements several callers share.                                        *)

Open == {"queued"} \union Active

Close(row, status) == [row EXCEPT !.status = status, !.lease = "none"]

(* cancel(), synchronous part: only a build in flight remembers it.         *)
MarkCancelled(d) ==
  cancelled' = IF d \in inFlight THEN cancelled \union {d} ELSE cancelled

(* cancel(), its UPDATE and the cancel messages to the rows' builders.      *)
SweepRows(d) ==
  LET swept == {j \in Job : j[1] = d /\ jobs[j].status \in Open}
  IN /\ jobs' = [j \in Job |-> IF j \in swept THEN Close(jobs[j], "cancelled") ELSE jobs[j]]
     /\ toAgent' \in Sent(toAgent, {ToAgent("cancel", j, jobs[j].attempt, jobs[j].builder) :
             j \in {k \in swept : jobs[k].builder # NoBuilder}})

Goto(j, step) == runner' = [runner EXCEPT ![j] = step]
BuildGoto(d, step) == building' = [building EXCEPT ![d] = step]

-----------------------------------------------------------------------------
(* build(): one call per deployment.                                        *)

(* The status of the deployment is read, and its directories resolved,      *)
(* before the build counts as in flight.                                    *)
Admit(d) ==
  /\ building[d] = "ready"
  /\ BuildGoto(d, IF deployment[d] = "building" THEN "admitted" ELSE "returned")
  /\ UNCHANGED <<rows, sets, built, runner, excluded, tasksOfLoop, toAgent, toControl>>

EnterFlight(d) ==
  /\ building[d] = "admitted"
  /\ inFlight' = inFlight \union {d}
  /\ BuildGoto(d, "inserting")
  /\ UNCHANGED <<rows, cancelled, built, runner, excluded, tasksOfLoop, toAgent, toControl>>

(* The loop over platforms throws when it notices a cancellation, leaving   *)
(* the runners it already started to themselves; the archive, the secrets   *)
(* or the service may be refused before the first row.                      *)
LeaveLoop(d) ==
  /\ building[d] = "inserting"
  /\ d \in cancelled \/ \A p \in Platforms : jobs[<<d, p>>].status = "absent"
  /\ BuildGoto(d, "leave")
  /\ UNCHANGED <<rows, sets, built, runner, excluded, tasksOfLoop, toAgent, toControl>>

NextStep(d, j) ==
  IF \E p \in Platforms \ {j[2]} : jobs[<<d, p>>].status = "absent"
    THEN "inserting" ELSE "waiting"

(* One platform: a row and a runner for it ...                              *)
InsertJob(d, p) == LET j == <<d, p>> IN
  /\ building[d] = "inserting" /\ d \notin cancelled
  /\ jobs[j].status = "absent"
  /\ jobs' = [jobs EXCEPT ![j].status = "queued"]
  /\ Goto(j, "check")
  /\ BuildGoto(d, NextStep(d, j))
  /\ UNCHANGED <<deployment, sets, built, excluded, tasksOfLoop, toAgent, toControl>>

(* ... or, for a source already built for it, a row with that digest.       *)
ReuseDigest(d, p) == LET j == <<d, p>> IN
  /\ building[d] = "inserting" /\ d \notin cancelled
  /\ jobs[j].status = "absent"
  /\ \E k \in Job : /\ k[2] = p /\ jobs[k].status = "succeeded"
                    /\ jobs' = [jobs EXCEPT ![j].status = "succeeded",
                                            ![j].digest = jobs[k].digest]
  /\ Goto(j, "resolved")
  /\ BuildGoto(d, NextStep(d, j))
  /\ UNCHANGED <<deployment, sets, built, excluded, tasksOfLoop, toAgent, toControl>>

(* Mutation of Settle: Promise.race in place of Promise.all.                *)
SettleFirst(d) ==
  /\ building[d] = "waiting"
  /\ \E p \in Platforms : runner[<<d, p>>] \in {"resolved", "rejected"}
  /\ BuildGoto(d, IF d \in cancelled \/ \E p \in Platforms : runner[<<d, p>>] = "rejected"
                    THEN "leave" ELSE "merging")
  /\ UNCHANGED <<rows, sets, built, runner, excluded, tasksOfLoop, toAgent, toControl>>

(* Mutation of Settle: a runner that failed is waited for.                  *)
SettleResolved(d) ==
  /\ building[d] = "waiting"
  /\ \A p \in Platforms : runner[<<d, p>>] = "resolved"
  /\ BuildGoto(d, IF d \in cancelled THEN "leave" ELSE "merging")
  /\ UNCHANGED <<rows, sets, built, runner, excluded, tasksOfLoop, toAgent, toControl>>

(* Promise.all: every runner has settled.                                   *)
Settle(d) ==
  /\ building[d] = "waiting"
  /\ \A p \in Platforms : runner[<<d, p>>] \in {"resolved", "rejected"}
  /\ BuildGoto(d, IF d \in cancelled \/ \E p \in Platforms : runner[<<d, p>>] = "rejected"
                    THEN "leave" ELSE "merging")
  /\ UNCHANGED <<rows, sets, built, runner, excluded, tasksOfLoop, toAgent, toControl>>

(* The manifests are merged, which may fail; the cancellation is looked at  *)
(* once more.                                                               *)
MergeFails(d) ==
  /\ building[d] = "merging"
  /\ BuildGoto(d, "leave")
  /\ UNCHANGED <<rows, sets, built, runner, excluded, tasksOfLoop, toAgent, toControl>>

Merge(d) ==
  /\ building[d] = "merging" /\ d \notin cancelled
  /\ built' = built \union {d}
  /\ BuildGoto(d, "leave")
  /\ UNCHANGED <<rows, sets, runner, excluded, tasksOfLoop, toAgent, toControl>>

(* finally: leave flight, cancel what is still open, forget.                *)
LeaveFlight(d) ==
  /\ building[d] = "leave"
  /\ inFlight' = inFlight \ {d}
  /\ BuildGoto(d, "sweep")
  /\ UNCHANGED <<rows, cancelled, built, runner, excluded, tasksOfLoop, toAgent, toControl>>

SweepBuild(d) ==
  /\ building[d] = "sweep"
  /\ SweepRows(d)
  /\ BuildGoto(d, "forget")
  /\ UNCHANGED <<deployment, sets, built, runner, excluded, tasksOfLoop, toControl>>

Forget(d) ==
  /\ building[d] = "forget"
  /\ cancelled' = cancelled \ {d}
  /\ BuildGoto(d, "returned")
  /\ UNCHANGED <<rows, inFlight, built, runner, excluded, tasksOfLoop, toAgent, toControl>>

(* Mutation of FinishDeploy: the phase is written without looking.          *)
FinishDeployBlindly(d) ==
  /\ building[d] = "returned"
  /\ deployment' = [deployment EXCEPT ![d] = IF d \in built THEN "scheduling" ELSE "failed"]
  /\ BuildGoto(d, "done")
  /\ UNCHANGED <<jobs, sets, built, runner, excluded, tasksOfLoop, toAgent, toControl>>

(* The caller: the service may fit no more where it was to go,              *)
(* phases.set('scheduling') is refused for a row that left the build        *)
(* phases, and every refusal or exception ends in phases.fail.              *)
FinishDeploy(d) ==
  /\ building[d] = "returned"
  /\ \E phase \in {"scheduling", "failed"} :
       /\ phase = "scheduling" => d \in built /\ deployment[d] \in {"building", "scheduling"}
       /\ deployment' = [deployment EXCEPT ![d] = phase]
  /\ BuildGoto(d, "done")
  /\ UNCHANGED <<jobs, sets, built, runner, excluded, tasksOfLoop, toAgent, toControl>>

-----------------------------------------------------------------------------
(* runJob(): one per row, up to MaxAttempts rounds.  Only the runner of a   *)
(* row writes its attempt, so the attempt it remembers is the row's.        *)

(* reserve(), before its transaction.                                       *)
CheckCancelled(j) ==
  /\ runner[j] = "check"
  /\ Goto(j, IF j[1] \in cancelled THEN "fail" ELSE "reserve")
  /\ UNCHANGED <<rows, sets, building, built, excluded, tasksOfLoop, toAgent, toControl>>

Load(b) == Cardinality({j \in Job : jobs[j].status \in Active /\ jobs[j].builder = b})

(* Mutation of Eligible: off by one.                                        *)
EligibleOverbooking(j) ==
  {b \in Capable[j[2]] \ excluded[j] : Load(b) <= MaxJobs}

(* Which of the suitable builders is online and has room is not modelled.   *)
Eligible(j) ==
  {b \in Capable[j[2]] \ excluded[j] : Load(b) < MaxJobs}

(* Mutation of Reserve: a retry keeps the number of the first attempt.      *)
ReserveSameAttempt(j) == \E b \in Eligible(j) :
  /\ runner[j] = "reserve"
  /\ jobs[j].status \in {"queued", "timed_out"}
  /\ jobs' = [jobs EXCEPT ![j].status = "assigned", ![j].builder = b,
                          ![j].attempt = 1, ![j].lease = "live"]
  /\ Goto(j, "send")
  /\ UNCHANGED <<deployment, sets, building, built, excluded, tasksOfLoop, toAgent, toControl>>

(* reserve(), its transaction: it holds the node rows' locks.               *)
Reserve(j) == \E b \in Eligible(j) :
  /\ runner[j] = "reserve"
  /\ jobs[j].status \in {"queued", "timed_out"}
  /\ jobs' = [jobs EXCEPT ![j].status = "assigned", ![j].builder = b,
                          ![j].attempt = @ + 1, ![j].lease = "live"]
  /\ Goto(j, "send")
  /\ UNCHANGED <<deployment, sets, building, built, excluded, tasksOfLoop, toAgent, toControl>>

(* No builder is online with room, or the row is no longer to be had.       *)
ReserveFails(j) ==
  /\ runner[j] = "reserve"
  /\ Goto(j, "fail")
  /\ UNCHANGED <<rows, sets, building, built, excluded, tasksOfLoop, toAgent, toControl>>

SendAssignment(j) ==
  /\ runner[j] = "send"
  /\ toAgent' \in Sent(toAgent, {ToAgent("assign", j, jobs[j].attempt, jobs[j].builder)})
  /\ Goto(j, "poll")
  /\ UNCHANGED <<rows, sets, building, built, excluded, tasksOfLoop, toControl>>

(* What the assignment needs, the token of the repository for one, cannot   *)
(* be had: the runner throws with its row assigned.                         *)
PrepareFails(j) ==
  /\ runner[j] = "send"
  /\ Goto(j, "fail")
  /\ UNCHANGED <<rows, sets, building, built, excluded, tasksOfLoop, toAgent, toControl>>

(* Mutation of SendFails: the lease is cleared in place of backdated.       *)
SendFailsClearing(j) ==
  /\ runner[j] = "send"
  /\ jobs' = [jobs EXCEPT ![j].lease = "none"]
  /\ Goto(j, "poll")
  /\ UNCHANGED <<deployment, sets, building, built, excluded, tasksOfLoop, toAgent, toControl>>

(* The builder's tunnel is gone; this UPDATE names only the row.            *)
SendFails(j) ==
  /\ runner[j] = "send"
  /\ jobs' = [jobs EXCEPT ![j].lease = "epoch"]
  /\ Goto(j, "poll")
  /\ UNCHANGED <<deployment, sets, building, built, excluded, tasksOfLoop, toAgent, toControl>>

PollSucceeded(j) ==
  /\ runner[j] = "poll"
  /\ jobs[j].status = "succeeded"
  /\ Goto(j, "resolved")
  /\ UNCHANGED <<rows, sets, building, built, excluded, tasksOfLoop, toAgent, toControl>>

PollClosed(j) ==
  /\ runner[j] = "poll"
  /\ jobs[j].status \in {"failed", "cancelled"}
  /\ Goto(j, "fail")
  /\ UNCHANGED <<rows, sets, building, built, excluded, tasksOfLoop, toAgent, toControl>>

GiveUp(j) ==
  /\ runner[j] = "poll" /\ jobs[j].status \notin Closed
  /\ toAgent' \in Sent(toAgent, {ToAgent("cancel", j, jobs[j].attempt, jobs[j].builder)})
  /\ Goto(j, "expire")
  /\ UNCHANGED <<rows, sets, building, built, excluded, tasksOfLoop, toControl>>

(* The poll finds the lease passed, or gone ...                             *)
PollExpired(j) == jobs[j].lease # "live" /\ GiveUp(j)

(* Mutation of PollDeadline: a build that keeps renewing is never given up. *)
PollDeadlineNever(j) == jobs[j].lease = "none" /\ GiveUp(j)

(* ... or the build past its deadline.                                      *)
PollDeadline(j) == jobs[j].lease = "live" /\ GiveUp(j)

(* Mutations of ExpireAttempt: one retry too many; the row's status is not  *)
(* in the WHERE clause.                                                     *)
ExpireAttemptOnceMore(j) ==
  /\ runner[j] = "expire"
  /\ jobs' = [jobs EXCEPT ![j] = IF @.status \in Active THEN Close(@, "timed_out") ELSE @]
  /\ excluded' = [excluded EXCEPT ![j] = @ \union {jobs[j].builder}]
  /\ Goto(j, IF jobs[j].attempt <= MaxAttempts THEN "check" ELSE "fail")
  /\ UNCHANGED <<deployment, sets, building, built, tasksOfLoop, toAgent, toControl>>

ExpireAttemptBlindly(j) ==
  /\ runner[j] = "expire"
  /\ jobs' = [jobs EXCEPT ![j] = Close(@, "timed_out")]
  /\ excluded' = [excluded EXCEPT ![j] = @ \union {jobs[j].builder}]
  /\ Goto(j, IF jobs[j].attempt < MaxAttempts THEN "check" ELSE "fail")
  /\ UNCHANGED <<deployment, sets, building, built, tasksOfLoop, toAgent, toControl>>

(* The attempt is given up, if it is still active, and with it its builder. *)
ExpireAttempt(j) ==
  /\ runner[j] = "expire"
  /\ jobs' = [jobs EXCEPT ![j] = IF @.status \in Active THEN Close(@, "timed_out") ELSE @]
  /\ excluded' = [excluded EXCEPT ![j] = @ \union {jobs[j].builder}]
  /\ Goto(j, IF jobs[j].attempt < MaxAttempts THEN "check" ELSE "fail")
  /\ UNCHANGED <<deployment, sets, building, built, tasksOfLoop, toAgent, toControl>>

(* Mutation of FailJob: a row that was never assigned is left behind.       *)
FailJobActive(j) ==
  /\ runner[j] = "fail"
  /\ jobs' = [jobs EXCEPT ![j] = IF @.status \in Active THEN Close(@, "failed") ELSE @]
  /\ Goto(j, "mark")
  /\ UNCHANGED <<deployment, sets, building, built, excluded, tasksOfLoop, toAgent, toControl>>

(* The runner throws: its row is failed unless it is closed, then the whole *)
(* build is cancelled.                                                      *)
FailJob(j) ==
  /\ runner[j] = "fail"
  /\ jobs' = [jobs EXCEPT ![j] = IF @.status \in Open THEN Close(@, "failed") ELSE @]
  /\ Goto(j, "mark")
  /\ UNCHANGED <<deployment, sets, building, built, excluded, tasksOfLoop, toAgent, toControl>>

MarkSiblings(j) ==
  /\ runner[j] = "mark"
  /\ MarkCancelled(j[1])
  /\ Goto(j, "sweep")
  /\ UNCHANGED <<rows, inFlight, building, built, excluded, tasksOfLoop, toAgent, toControl>>

SweepSiblings(j) ==
  /\ runner[j] = "sweep"
  /\ SweepRows(j[1])
  /\ Goto(j, "rejected")
  /\ UNCHANGED <<deployment, sets, building, built, excluded, tasksOfLoop, toControl>>

-----------------------------------------------------------------------------
(* Mutation of Wanted: the build is not asked for.                          *)
WantedByLease(e) == jobs[e.job].lease = "live"

(* The build is in flight and the builder's lease has not passed.           *)
Wanted(e) == e.job[1] \in inFlight /\ jobs[e.job].lease = "live"

(* handleMessage(): a SELECT and the checks on what it returned ...         *)
ReceiveEvent == \E e \in toControl :
  LET row == jobs[e.job]
      Reply(type) == toAgent' \in Sent(toAgent, {ToAgent(type, e.job, e.attempt, e.builder)})
  IN
  /\ toControl' = toControl \ {e}
  /\ \/ /\ row.builder # e.builder \/ row.attempt # e.attempt
        /\ UNCHANGED <<toAgent, handlers>>
     \/ /\ row.builder = e.builder /\ row.attempt = e.attempt
        /\ row.status \notin Active
        /\ Reply("receipt")
        /\ UNCHANGED handlers
     \/ /\ row.builder = e.builder /\ row.attempt = e.attempt
        /\ row.status \in Active
        /\ ~Wanted(e)
        /\ Reply("cancel")
        /\ UNCHANGED handlers
     \/ /\ row.builder = e.builder /\ row.attempt = e.attempt
        /\ row.status \in Active
        /\ Wanted(e)
        /\ Cardinality(handlers) < MaxHandling
        /\ handlers' = handlers \union {e}
        /\ UNCHANGED toAgent
  /\ UNCHANGED <<rows, sets, calls, reaping, operator, restarts>>

(* Mutations of Fenced: by status alone; by identity alone; by the time at  *)
(* which the UPDATE runs.                                                   *)
FencedByStatus(e) == jobs[e.job].status \in Active

FencedByIdentity(e) ==
  /\ jobs[e.job].attempt = e.attempt
  /\ jobs[e.job].builder = e.builder

FencedLate(e) ==
  /\ FencedByIdentity(e)
  /\ jobs[e.job].status \in Active
  /\ jobs[e.job].lease = "live"

(* ... and the fenced UPDATE.  The fence compares the lease with the time   *)
(* it was built at, just after the checks, so a lease that has passed since *)
(* then still satisfies it.                                                 *)
Fenced(e) ==
  /\ jobs[e.job].attempt = e.attempt
  /\ jobs[e.job].builder = e.builder
  /\ jobs[e.job].status \in Active
  /\ jobs[e.job].lease \in {"live", "passed"}

HandleRenew == \E e \in handlers :
  /\ e.status = "renew"
  /\ jobs' = IF Fenced(e)
       THEN [jobs EXCEPT ![e.job].status = "running", ![e.job].lease = "live"] ELSE jobs
  /\ handlers' = handlers \ {e}
  /\ UNCHANGED <<deployment, sets, calls, reaping, operator, restarts, toAgent, toControl>>

Recorded(row, e) ==
  [Close(row, e.status) EXCEPT !.digest =
     IF e.status = "succeeded" THEN Built(e.job, e.attempt, e.builder) ELSE NoDigest]

(* A result is acknowledged whether or not the fence let it through.        *)
HandleResult == \E e \in handlers :
  /\ e.status # "renew"
  /\ jobs' = IF Fenced(e) THEN [jobs EXCEPT ![e.job] = Recorded(@, e)] ELSE jobs
  /\ handlers' = handlers \ {e}
  /\ toAgent' \in Sent(toAgent, {ToAgent("receipt", e.job, e.attempt, e.builder)})
  /\ UNCHANGED <<deployment, sets, calls, reaping, operator, restarts, toControl>>

-----------------------------------------------------------------------------
(* reapOrphans(), every ten seconds, one pass at a time: read the suspects  *)
(* ...                                                                      *)
Lapsed(row) == row.status \in Active /\ row.lease \in {"epoch", "passed"}

(* Mutation of Suspect: the rows that never got a builder are forgotten.    *)
SuspectActive(row) == Lapsed(row)

Suspect(row) == Lapsed(row) \/ row.status = "queued"

ReapScan ==
  LET found == {[job |-> j, attempt |-> jobs[j].attempt, builder |-> jobs[j].builder,
                 at |-> "row"] : j \in {k \in Job : Suspect(jobs[k])}}
  IN /\ reaping = {}
     /\ reaping' \in {f \in SUBSET found : f # {} /\ IF Cardinality(found) <= MaxReaping
                                             THEN f = found ELSE Cardinality(f) = MaxReaping}
     /\ UNCHANGED <<rows, sets, calls, handlers, operator, restarts, toAgent, toControl>>

(* ... skip those whose build is in flight ...                              *)
ReapSkip == \E r \in reaping :
  /\ r.at = "row" /\ r.job[1] \in inFlight
  /\ reaping' = reaping \ {r}
  /\ UNCHANGED <<rows, sets, calls, handlers, operator, restarts, toAgent, toControl>>

(* ... time out the row if it is still as it was read ...                   *)
ReapRow == \E r \in reaping : LET row == jobs[r.job] IN
  /\ r.at = "row" /\ r.job[1] \notin inFlight
  /\ jobs' = IF row.attempt = r.attempt /\ Suspect(row)
               THEN [jobs EXCEPT ![r.job].status = "timed_out"] ELSE jobs
  /\ reaping' = (reaping \ {r}) \union {[r EXCEPT !.at = "deployment"]}
  /\ UNCHANGED <<deployment, sets, calls, handlers, operator, restarts, toAgent, toControl>>

(* ... then fail the deployment and tell the builder.                       *)
ReapDeployment == \E r \in reaping :
  /\ r.at = "deployment"
  /\ deployment' = [deployment EXCEPT ![r.job[1]] = IF @ = "building" THEN "failed" ELSE @]
  /\ IF r.builder = NoBuilder THEN UNCHANGED toAgent
     ELSE toAgent' \in Sent(toAgent, {ToAgent("cancel", r.job, r.attempt, r.builder)})
  /\ reaping' = reaping \ {r}
  /\ UNCHANGED <<jobs, sets, calls, handlers, operator, restarts, toControl>>

(* Mutation of FailStaleBuild: only the last phase is looked at.            *)
FailStaleScheduling(d) ==
  /\ deployment[d] = "scheduling"
  /\ deployment' = [deployment EXCEPT ![d] = "failed"]
  /\ UNCHANGED <<jobs, sets, calls, tasksOfLoop, toAgent, toControl>>

(* failStaleBuilds(), once the deployment is older than a build may take.   *)
FailStaleBuild(d) ==
  /\ deployment[d] \in {"building", "scheduling"}
  /\ deployment' = [deployment EXCEPT ![d] = "failed"]
  /\ UNCHANGED <<jobs, sets, calls, tasksOfLoop, toAgent, toControl>>

-----------------------------------------------------------------------------
(* POST .../cancel: the row first, then builds.cancel().                    *)
CancelDeployment(d) ==
  /\ d \in Cancellable
  /\ operator[d] = "idle" /\ deployment[d] = "building"
  /\ deployment' = [deployment EXCEPT ![d] = "failed"]
  /\ operator' = [operator EXCEPT ![d] = "mark"]
  /\ UNCHANGED <<jobs, sets, calls, handlers, reaping, restarts, toAgent, toControl>>

CancelMark(d) ==
  /\ operator[d] = "mark"
  /\ MarkCancelled(d)
  /\ operator' = [operator EXCEPT ![d] = "sweep"]
  /\ UNCHANGED <<rows, inFlight, calls, handlers, reaping, restarts, toAgent, toControl>>

CancelSweep(d) ==
  /\ operator[d] = "sweep"
  /\ SweepRows(d)
  /\ operator' = [operator EXCEPT ![d] = "idle"]
  /\ UNCHANGED <<deployment, sets, calls, handlers, reaping, restarts, toControl>>

(* The time runs past a lease nobody renewed.                               *)
LeasePasses(j) ==
  /\ jobs[j].lease = "live"
  /\ jobs' = [jobs EXCEPT ![j].lease = "passed"]
  /\ UNCHANGED <<deployment, sets, calls, tasksOfLoop, toAgent, toControl>>

(* The process restarts: every call in progress is gone, the rows are not.  *)
Restart ==
  /\ restarts < MaxRestarts
  /\ restarts' = restarts + 1
  /\ inFlight' = {} /\ cancelled' = {} /\ built' = {}
  /\ building' = [d \in Deployments |-> IF building[d] = "done" THEN "done" ELSE "lost"]
  /\ runner' = [j \in Job |-> "none"]
  /\ excluded' = [j \in Job |-> {}]
  /\ handlers' = {} /\ reaping' = {}
  /\ operator' = [d \in Deployments |-> "idle"]
  /\ UNCHANGED <<rows, toAgent, toControl>>

-----------------------------------------------------------------------------
BuildStepOf(d) ==
  \/ Admit(d) \/ EnterFlight(d) \/ LeaveLoop(d)
  \/ \E p \in Platforms : InsertJob(d, p) \/ ReuseDigest(d, p)
  \/ Settle(d) \/ MergeFails(d) \/ Merge(d)
  \/ LeaveFlight(d) \/ SweepBuild(d) \/ Forget(d) \/ FinishDeploy(d)

RunnerStepOf(j) ==
  \/ CheckCancelled(j) \/ Reserve(j) \/ ReserveFails(j)
  \/ PrepareFails(j) \/ SendAssignment(j) \/ SendFails(j)
  \/ PollSucceeded(j) \/ PollClosed(j) \/ PollExpired(j) \/ PollDeadline(j)
  \/ ExpireAttempt(j) \/ FailJob(j) \/ MarkSiblings(j) \/ SweepSiblings(j)

HandlerStep == HandleRenew \/ HandleResult
ReaperStep == ReapSkip \/ ReapRow \/ ReapDeployment
OperatorStepOf(d) == CancelMark(d) \/ CancelSweep(d)

CoordNext ==
  \/ \E d \in Deployments : BuildStepOf(d) \/ CancelDeployment(d) \/ OperatorStepOf(d)
                            \/ FailStaleBuild(d)
  \/ \E j \in Job : RunnerStepOf(j) \/ LeasePasses(j)
  \/ ReceiveEvent \/ HandlerStep \/ ReapScan \/ ReaperStep \/ Restart
=============================================================================
