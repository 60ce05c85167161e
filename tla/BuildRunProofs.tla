--------------------------- MODULE BuildRunProofs ---------------------------
(* What is proved of the actors around the job rows: the builders and what  *)
(* they may be given, the runners, and what a restart leaves of them.       *)
EXTENDS BuildMessageProofs, FiniteSetTheorems

-----------------------------------------------------------------------------
(* Builders.                                                                *)

(* The rows a builder is active for, of which there are finitely many       *)
(* however many deployments there may be.                                   *)
Held(b) == {j \in Job : jobs[j].status \in Active /\ jobs[j].builder = b}
HeldFew == \A b \in Builders : IsFiniteSet(Held(b)) /\ Load(b) <= MaxJobs

LEMMA WritesHeld ==
  ASSUME TypeOK, TypeOK', RowWrite, NEW b \in Builders
  PROVE  \/ Held(b)' \subseteq Held(b)
         \/ Load(b) < MaxJobs /\ \E j : Held(b)' \subseteq Held(b) \union {j}
<1>0. jobs \in [Job -> JobRow] /\ jobs' \in [Job -> JobRow]
  BY DEF TypeOK, CoordTypeOK
<1>1. CASE Assigns
  <2>1. PICK j \in Job, c \in Builders :
          Load(c) < MaxJobs /\ jobs' = [jobs EXCEPT ![j] = Reserved(@, c)]
    BY <1>1 DEF Assigns
  <2>2. /\ \A i \in Job \ {j} : jobs'[i] = jobs[i]
        /\ jobs'[j].builder = c
    BY <1>0, <2>1 DEF Reserved
  <2>3. Held(b)' \subseteq Held(b) \union (IF b = c THEN {j} ELSE {})
    BY <2>2 DEF Held
  <2> QED
    BY <2>1, <2>3
<1>2. CASE ~Assigns
  <2>1. \A j \in Job : jobs'[j].attempt = jobs[j].attempt
    BY <1>2, WritesLease
  <2>2. \A j \in Job : jobs[j].attempt \in Nat
    BY <1>0, AttemptsAssumption DEF JobRow
  <2>3. \A j \in Job : /\ jobs'[j].builder = jobs[j].builder
                       /\ jobs'[j].status \in Active => jobs[j].status \in Active
    BY <2>1, <2>2, WritesMove DEF RowsMove
  <2> QED
    BY <2>3 DEF Held
<1> QED
  BY <1>1, <1>2

LEMMA StepHeldFew ==
  ASSUME TypeOK, TypeOK', HeldFew, RowWrite PROVE HeldFew'
<1> SUFFICES ASSUME NEW b \in Builders
             PROVE  IsFiniteSet(Held(b)') /\ Cardinality(Held(b)') <= MaxJobs
  BY DEF HeldFew, Load, Held
<1>1. IsFiniteSet(Held(b)) /\ Cardinality(Held(b)) <= MaxJobs /\ MaxJobs \in Nat
  BY BoundsAssumption DEF HeldFew, Load, Held
<1>2. Cardinality(Held(b)) \in Nat
  BY <1>1, FS_CardinalityType
<1>3. CASE Held(b)' \subseteq Held(b)
  <2>1. IsFiniteSet(Held(b)') /\ Cardinality(Held(b)') <= Cardinality(Held(b))
    BY <1>1, <1>3, FS_Subset
  <2> QED
    BY <1>1, <1>2, <2>1, FS_CardinalityType
<1>4. ASSUME Load(b) < MaxJobs, NEW j, Held(b)' \subseteq Held(b) \union {j}
      PROVE  IsFiniteSet(Held(b)') /\ Cardinality(Held(b)') <= MaxJobs
  <2> DEFINE S == Held(b) \union {j}
  <2>1. IsFiniteSet(S) /\ Cardinality(S) <= Cardinality(Held(b)) + 1
    BY <1>1, <1>2, FS_AddElement
  <2>2. IsFiniteSet(Held(b)') /\ Cardinality(Held(b)') <= Cardinality(S)
    BY <1>4, <2>1, FS_Subset
  <2>3. Cardinality(Held(b)) < MaxJobs
    BY <1>4 DEF Load, Held
  <2>4. Cardinality(S) \in Nat /\ Cardinality(Held(b)') \in Nat
    BY <2>1, <2>2, FS_CardinalityType
  <2> HIDE DEF S
  <2> QED
    BY <1>1, <1>2, <2>1, <2>2, <2>3, <2>4
<1> QED
  BY <1>3, <1>4, WritesHeld

LEMMA InitHeldFew == Init => HeldFew
<1> SUFFICES ASSUME Init, NEW b \in Builders PROVE IsFiniteSet(Held(b)) /\ Load(b) <= MaxJobs
  BY DEF HeldFew
<1>1. \A j \in Job : jobs[j].status \notin Active
  BY DEF Init, CoordInit, NoRow, PastRow, Active
<1>2. Held(b) = {} /\ Load(b) = Cardinality(Held(b))
  BY <1>1 DEF Held, Load
<1> QED
  BY <1>2, FS_EmptySet, BoundsAssumption

(* No builder is active for more rows than it takes, counted over every     *)
(* retry, every restart and every other deployment: reserve() counts the    *)
(* rows in the transaction that adds one.                                   *)
THEOREM NeverOverbooked == Spec => []BuilderNotOverbooked
<1>1. IndInv /\ HeldFew /\ [Next]_vars => IndInv' /\ HeldFew'
  BY StepIndInv, StepWrites, StepHeldFew DEF IndInv
<1>2. HeldFew => BuilderNotOverbooked
  BY DEF HeldFew, BuilderNotOverbooked
<1> QED
  BY InitIndInv, InitHeldFew, <1>1, <1>2, PTL DEF Spec

-----------------------------------------------------------------------------
(* The calls of build() and runJob(), and what a restart leaves of them.    *)

(* The steps that belong to no call of build() or runJob().                 *)
Apart ==
  \/ ReceiveEvent \/ HandlerStep \/ ReapScan \/ ReaperStep
  \/ \E d \in Deployments : CancelDeployment(d) \/ OperatorStepOf(d) \/ FailStaleBuild(d)
  \/ \E j \in Job : LeasePasses(j)
  \/ ExecutorNext /\ UNCHANGED coordVars
  \/ UNCHANGED vars

LEMMA StepKinds ==
  ASSUME [Next]_vars
  PROVE  \/ \E d \in Deployments : BuildStepOf(d)
         \/ \E j \in Job : RunnerStepOf(j)
         \/ Restart
         \/ Apart
BY DEF Next, CoordNext, Apart

LEMMA ApartKeeps ==
  ASSUME TypeOK, Apart
  PROVE  /\ UNCHANGED <<inFlight, building, built, runner, restarts>>
         /\ \A d \in Deployments : deployment'[d] = "scheduling" => deployment[d] = "scheduling"
         /\ \A e \in handlers' : e \in handlers \/ e.job[1] \in inFlight
<1> USE DEF Apart, HandlerStep, HandleRenew, HandleResult, ReapScan, ReaperStep, ReapSkip,
        ReapRow, ReapDeployment, CancelDeployment, OperatorStepOf, CancelMark, CancelSweep,
        FailStaleBuild, LeasePasses, vars, coordVars, rows, sets, calls, tasksOfLoop
<1>1. UNCHANGED <<inFlight, building, built, runner, restarts>>
  BY DEF ReceiveEvent
<1>2. \A d \in Deployments : deployment'[d] = "scheduling" => deployment[d] = "scheduling"
  BY DEF TypeOK, CoordTypeOK, ReceiveEvent
<1>3. \A e \in handlers' : e \in handlers \/ e.job[1] \in inFlight
  <2>1. CASE ReceiveEvent
    BY <2>1 DEF ReceiveEvent, Wanted
  <2>2. CASE ~ReceiveEvent
    <3>1. handlers' \subseteq handlers
      BY <2>2
    <3> QED
      BY <3>1
  <2> QED
    BY <2>1, <2>2
<1> QED
  BY <1>1, <1>2, <1>3

LEMMA RunnerStepKeeps ==
  ASSUME TypeOK, NEW j \in Job, RunnerStepOf(j)
  PROVE  /\ UNCHANGED <<deployment, inFlight, building, built, handlers, restarts>>
         /\ runner[j] # "none"
         /\ \A k \in Job \ {j} : runner'[k] = runner[k]
         /\ runner'[j] = "resolved" => jobs'[j].status = "succeeded"
         /\ runner'[j] # "none"
<1>1. /\ UNCHANGED <<deployment, inFlight, building, built, handlers, restarts>>
      /\ runner[j] # "none"
  BY DEF RunnerStepOf, CheckCancelled, Reserve, ReserveFails, PrepareFails, SendAssignment,
     SendFails, PollSucceeded, PollClosed, PollExpired, PollDeadline, GiveUp, ExpireAttempt,
     FailJob, MarkSiblings, SweepSiblings, rows, sets, tasksOfLoop
<1>2. PICK step \in RunnerStep \ {"none"} :
        /\ runner' = [runner EXCEPT ![j] = step]
        /\ step = "resolved" => jobs'[j].status = "succeeded"
  BY DEF RunnerStepOf, CheckCancelled, Reserve, ReserveFails, PrepareFails, SendAssignment,
     SendFails, PollSucceeded, PollClosed, PollExpired, PollDeadline, GiveUp, ExpireAttempt,
     FailJob, MarkSiblings, SweepSiblings, Goto, RunnerStep, rows
<1> QED
  BY <1>1, <1>2 DEF TypeOK, CoordTypeOK

LEMMA BuildStepKeeps ==
  ASSUME TypeOK, NEW d \in Deployments, BuildStepOf(d)
  PROVE  /\ UNCHANGED <<handlers, restarts>>
         /\ building[d] \notin {"done", "lost"} /\ building'[d] # "lost"
         /\ inFlight' \subseteq inFlight \union {d} /\ built' \subseteq built \union {d}
         /\ \A x \in Deployments \ {d} :
              building'[x] = building[x] /\ deployment'[x] = deployment[x]
         /\ \A j \in Job : \/ runner'[j] = runner[j]
                           \/ j[1] = d /\ runner'[j] \in {"check", "resolved"}
         /\ \A j \in Job : runner'[j] = "resolved" =>
              runner[j] = "resolved" \/ jobs'[j].status = "succeeded"
<1>0. building \in [Deployments -> BuildStep] /\ deployment \in [Deployments -> DeploymentStatus]
      /\ runner \in [Job -> RunnerStep] /\ jobs \in [Job -> JobRow]
  BY DEF TypeOK, CoordTypeOK
<1>1. /\ UNCHANGED <<handlers, restarts>>
      /\ building[d] \notin {"done", "lost"}
      /\ inFlight' \subseteq inFlight \union {d} /\ built' \subseteq built \union {d}
  BY DEF BuildStepOf, Admit, EnterFlight, LeaveLoop, InsertJob, ReuseDigest, Settle, MergeFails,
     Merge, LeaveFlight, SweepBuild, Forget, FinishDeploy, sets, tasksOfLoop
<1>2. \E step \in BuildStep \ {"lost"} : building' = [building EXCEPT ![d] = step]
  BY DEF BuildStepOf, Admit, EnterFlight, LeaveLoop, InsertJob, ReuseDigest, Settle, MergeFails,
     Merge, LeaveFlight, SweepBuild, Forget, FinishDeploy, BuildGoto, NextStep, BuildStep
<1>3. \A x \in Deployments \ {d} : deployment'[x] = deployment[x]
  BY <1>0 DEF BuildStepOf, Admit, EnterFlight, LeaveLoop, InsertJob, ReuseDigest, Settle, MergeFails,
     Merge, LeaveFlight, SweepBuild, Forget, FinishDeploy, rows
<1>4. \/ UNCHANGED runner
      \/ \E p \in Platforms : runner' = [runner EXCEPT ![<<d, p>>] = "check"]
      \/ \E p \in Platforms : /\ runner' = [runner EXCEPT ![<<d, p>>] = "resolved"]
                              /\ jobs'[<<d, p>>].status = "succeeded"
  <2>1. ASSUME NEW p \in Platforms, ReuseDigest(d, p)
        PROVE  /\ runner' = [runner EXCEPT ![<<d, p>>] = "resolved"]
               /\ jobs'[<<d, p>>].status = "succeeded"
    <3>1. <<d, p>> \in Job
      BY JobParts
    <3>2. PICK k \in Job : jobs' = [jobs EXCEPT ![<<d, p>>].status = "succeeded",
                                                ![<<d, p>>].digest = jobs[k].digest]
      BY <2>1 DEF ReuseDigest
    <3> QED
      BY <1>0, <2>1, <3>1, <3>2 DEF ReuseDigest, Goto, JobRow
  <2>2. ASSUME NEW p \in Platforms, InsertJob(d, p)
        PROVE  runner' = [runner EXCEPT ![<<d, p>>] = "check"]
    BY <2>2 DEF InsertJob, Goto
  <2> QED
    BY <2>1, <2>2 DEF BuildStepOf, Admit, EnterFlight, LeaveLoop, Settle, MergeFails,
       Merge, LeaveFlight, SweepBuild, Forget, FinishDeploy
<1>5. \A p \in Platforms : <<d, p>> \in Job /\ <<d, p>>[1] = d
  BY JobParts
<1> QED
  BY <1>0, <1>1, <1>2, <1>3, <1>4, <1>5

(* Of a build that a restart lost nothing is left in memory: it is not in   *)
(* flight, no runner of it is anywhere, and no event for it is between the  *)
(* checks and the UPDATE of handleMessage().                                *)
LostQuiet == \A d \in Deployments : building[d] = "lost" =>
  /\ d \notin inFlight
  /\ \A j \in Job : j[1] = d => runner[j] = "none"
  /\ \A e \in handlers : e.job[1] # d

LEMMA StepLostQuiet ==
  ASSUME TypeOK, LostQuiet, [Next]_vars PROVE LostQuiet'
<1>1. ASSUME NEW d \in Deployments, BuildStepOf(d) PROVE LostQuiet'
  BY <1>1, BuildStepKeeps DEF LostQuiet
<1>2. ASSUME NEW j \in Job, RunnerStepOf(j) PROVE LostQuiet'
  BY <1>2, RunnerStepKeeps DEF LostQuiet
<1>3. CASE Restart
  BY <1>3 DEF Restart, LostQuiet
<1>4. CASE Apart
  BY <1>4, ApartKeeps DEF LostQuiet
<1> QED
  BY <1>1, <1>2, <1>3, <1>4, StepKinds

(* A row whose build is lost is written by the reaper, by a cancel, or by   *)
(* the clock.                                                               *)
LEMMA LostWrites ==
  ASSUME TypeOK, LostQuiet, RowWrite, NEW j \in Job, building[j[1]] = "lost", jobs'[j] # jobs[j]
  PROVE  \/ jobs'[j].status \in {"timed_out", "cancelled"}
         \/ jobs'[j] = [jobs[j] EXCEPT !.lease = "passed"]
<1>0. jobs \in [Job -> JobRow] /\ runner[j] = "none" /\ j[1] \in Deployments
  BY JobParts DEF TypeOK, CoordTypeOK, LostQuiet
<1>1. CASE Inserts \/ Reuses
  BY <1>0, <1>1 DEF Inserts, Reuses
<1>2. CASE Assigns \/ Closes
  BY <1>0, <1>2 DEF Assigns, Closes
<1>3. CASE TimesOut
  BY <1>0, <1>3 DEF TimesOut, JobRow
<1>4. CASE Leases
  BY <1>0, <1>4 DEF Leases
<1>5. CASE Renews \/ Records
  <2>1. PICK e \in handlers : \A k \in Job \ {e.job} : jobs'[k] = jobs[k]
    BY <1>0, <1>5 DEF Renews, Records
  <2> QED
    BY <1>0, <2>1 DEF LostQuiet
<1>6. CASE Sweeps
  <2>1. "cancelled" \in JobStatus
    BY DEF JobStatus, Closed
  <2> QED
    BY <1>0, <1>6, <2>1, CloseType DEF Sweeps
<1> QED
  BY <1>1, <1>2, <1>3, <1>4, <1>5, <1>6 DEF RowWrite

(* After a restart an agent that is still building can neither finish nor   *)
(* prolong its job, although the lease in the row may still be live: no     *)
(* event for it passes handleMessage(), and nobody is left to assign it.    *)
THEOREM OrphansRunOut == Spec => OrphansOnlyEnd
<1> DEFINE Ends == \A j \in Job :
      building[j[1]] = "lost" /\ jobs'[j] # jobs[j] =>
        \/ jobs'[j].status \in {"timed_out", "cancelled"}
        \/ jobs'[j] = [jobs[j] EXCEPT !.lease = "passed"]
<1>1. Init => LostQuiet
  BY DEF Init, CoordInit, LostQuiet
<1>2. IndInv /\ LostQuiet /\ [Next]_vars => IndInv' /\ LostQuiet'
  BY StepIndInv, StepLostQuiet DEF IndInv
<1>3. IndInv /\ LostQuiet /\ [Next]_vars => [Ends]_vars
  BY StepWrites, LostWrites DEF IndInv
<1> QED
  BY InitIndInv, <1>1, <1>2, <1>3, PTL DEF Spec, OrphansOnlyEnd

-----------------------------------------------------------------------------
(* Nothing is in flight once the process has restarted.                     *)
RestartIdle == restarts > 0 =>
  inFlight = {} /\ \A d \in Deployments : building[d] \in {"done", "lost"}

LEMMA StepRestartIdle ==
  ASSUME TypeOK, RestartIdle, [Next]_vars PROVE RestartIdle'
<1>1. ASSUME NEW d \in Deployments, BuildStepOf(d) PROVE RestartIdle'
  BY <1>1, BuildStepKeeps DEF RestartIdle
<1>2. ASSUME NEW j \in Job, RunnerStepOf(j) PROVE RestartIdle'
  BY <1>2, RunnerStepKeeps DEF RestartIdle
<1>3. CASE Restart
  BY <1>3 DEF Restart, RestartIdle
<1>4. CASE Apart
  BY <1>4, ApartKeeps DEF RestartIdle
<1> QED
  BY <1>1, <1>2, <1>3, <1>4, StepKinds

(* A runner that has its row's end before it.                               *)
Running == {"check", "reserve", "send", "poll", "expire", "fail"}

(* A row is opened by the step that starts its runner, or by the runner.    *)
LEMMA WritesOpen ==
  ASSUME TypeOK, RowWrite, NEW j \in Job, jobs'[j].status \in Open
  PROVE  jobs[j].status \in Open \/ runner'[j] \in Running
<1>0. jobs \in [Job -> JobRow] /\ runner \in [Job -> RunnerStep]
  BY DEF TypeOK, CoordTypeOK
<1> USE DEF Open, Active, Running
<1>1. CASE jobs' = jobs
  BY <1>1
<1>2. CASE Inserts
  BY <1>0, <1>2 DEF Inserts
<1>3. CASE Assigns
  BY <1>0, <1>3 DEF Assigns
<1>4. CASE Reuses
  <2>1. PICK k \in Job, i \in Job :
          jobs' = [jobs EXCEPT ![k].status = "succeeded", ![k].digest = jobs[i].digest]
    BY <1>4 DEF Reuses
  <2> QED
    BY <1>0, <2>1 DEF JobRow
<1>9. CASE TimesOut \/ Leases
  BY <1>0, <1>9 DEF TimesOut, Leases, JobRow
<1>5. CASE Closes
  BY <1>0, <1>5 DEF Closes
<1>6. CASE Renews
  BY <1>0, <1>6 DEF Renews, Fenced
<1>7. CASE Records
  BY <1>0, <1>7 DEF Records, Fenced
<1>8. CASE Sweeps
  BY <1>0, <1>8 DEF Sweeps
<1> QED
  BY <1>1, <1>2, <1>3, <1>4, <1>5, <1>6, <1>7, <1>8, <1>9 DEF RowWrite

(* A runner leaves its row only when it is not open any more.               *)
LEMMA RunnerLeavesClosed ==
  ASSUME TypeOK, NEW j \in Job, RunnerStepOf(j), runner[j] \in Running, runner'[j] \notin Running
  PROVE  jobs'[j].status \notin Open
<1>0. jobs \in [Job -> JobRow] /\ runner \in [Job -> RunnerStep]
  BY DEF TypeOK, CoordTypeOK
<1>1. PollSucceeded(j) \/ FailJob(j)
  <2>1. CASE MarkSiblings(j) \/ SweepSiblings(j)
    BY <2>1 DEF MarkSiblings, SweepSiblings, Running
  <2>2. CASE \E step \in Running : Goto(j, step)
    BY <1>0, <2>2 DEF Goto
  <2> QED
    BY <2>1, <2>2 DEF RunnerStepOf, CheckCancelled, Reserve, ReserveFails, PrepareFails,
       SendAssignment, SendFails, PollClosed, PollExpired, PollDeadline, GiveUp, ExpireAttempt, Running
<1>2. CASE PollSucceeded(j)
  BY <1>2 DEF PollSucceeded, rows, Open, Active
<1>3. CASE FailJob(j)
  <2>1. "failed" \in JobStatus
    BY DEF JobStatus, Closed
  <2> QED
    BY <1>0, <1>3, <2>1, CloseType DEF FailJob, Open, Active
<1> QED
  BY <1>1, <1>2, <1>3

LEMMA StepWatched ==
  ASSUME TypeOK, RowWrite, Watched, RestartIdle', [Next]_vars PROVE Watched'
<1> SUFFICES ASSUME NEW j \in Job, jobs'[j].status \in Open, runner'[j] \notin Running
             PROVE  restarts' > 0 /\ j[1] \notin inFlight'
  BY DEF Watched, Running
<1>0. restarts \in Nat
  BY BoundsAssumption DEF TypeOK, CoordTypeOK
<1>1. jobs[j].status \in Open
  BY WritesOpen
<1>2. CASE Restart
  BY <1>0, <1>2 DEF Restart
<1>3. CASE ~Restart
  <2>1. restarts' = restarts
    BY <1>3, StepKinds, BuildStepKeeps, RunnerStepKeeps, ApartKeeps
  <2>2. runner[j] \notin Running
    <3>1. ASSUME NEW d \in Deployments, BuildStepOf(d) PROVE runner[j] \notin Running
      <4>1. runner'[j] = runner[j] \/ runner'[j] = "resolved"
        BY <3>1, BuildStepKeeps DEF Running
      <4>2. CASE runner'[j] = "resolved" /\ runner[j] # "resolved"
        BY <3>1, <4>2, BuildStepKeeps DEF Open, Active
      <4> QED
        BY <4>1, <4>2 DEF Running
    <3>2. ASSUME NEW k \in Job, RunnerStepOf(k) PROVE runner[j] \notin Running
      BY <3>2, RunnerStepKeeps, RunnerLeavesClosed
    <3>3. CASE Apart
      BY <3>3, ApartKeeps
    <3> QED
      BY <1>3, <3>1, <3>2, <3>3, StepKinds
  <2> QED
    BY <1>1, <2>1, <2>2 DEF Watched, Running, RestartIdle
<1> QED
  BY <1>2, <1>3

(* No path out of build() and runJob() leaves work nobody waits for: an     *)
(* open row has its runner, or a restart took it and the reaper may have    *)
(* the row.                                                                 *)
THEOREM OpenRowsWatched == Spec => []Watched
<1>1. Init => RestartIdle /\ Watched
  BY DEF Init, CoordInit, RestartIdle, Watched, NoRow, PastRow, Open, Active
<1>2. IndInv /\ RestartIdle /\ Watched /\ [Next]_vars => IndInv' /\ RestartIdle' /\ Watched'
  BY StepIndInv, StepWrites, StepRestartIdle, StepWatched DEF IndInv
<1> QED
  BY InitIndInv, <1>1, <1>2, PTL DEF Spec

-----------------------------------------------------------------------------
(* What is merged, returned and scheduled.                                  *)
ResolvedDone == \A j \in Job : runner[j] = "resolved" => jobs[j].status = "succeeded"

Claims(d) == building[d] = "merging" \/ d \in built \/ deployment[d] = "scheduling"
Whole(d) == \A p \in Platforms : jobs[<<d, p>>].status = "succeeded"
ClaimsWhole == \A d \in Deployments : Claims(d) => Whole(d)

LEMMA StepResolvedDone ==
  ASSUME TypeOK, ClosedKept, ResolvedDone, [Next]_vars PROVE ResolvedDone'
<1>1. ASSUME NEW j \in Job, runner'[j] = "resolved"
      PROVE  runner[j] = "resolved" \/ jobs'[j].status = "succeeded"
  <2>1. CASE Restart
    BY <1>1, <2>1 DEF Restart
  <2> QED
    BY <1>1, <2>1, StepKinds, BuildStepKeeps, RunnerStepKeeps, ApartKeeps
<1> QED
  BY <1>1 DEF ResolvedDone, ClosedKept, Closed

LEMMA StepClaims ==
  ASSUME TypeOK, [Next]_vars, NEW d \in Deployments, Claims(d)'
  PROVE  Claims(d) \/ \A p \in Platforms : runner[<<d, p>>] = "resolved"
<1> USE DEF Claims
<1>1. ASSUME NEW x \in Deployments, BuildStepOf(x)
      PROVE  Claims(d) \/ \A p \in Platforms : runner[<<d, p>>] = "resolved"
  <2>1. CASE x # d
    BY <1>1, <2>1, BuildStepKeeps
  <2>2. CASE x = d
    BY <1>1, <2>2 DEF BuildStepOf, Admit, EnterFlight, LeaveLoop, InsertJob, ReuseDigest, Settle,
       MergeFails, Merge, LeaveFlight, SweepBuild, Forget, FinishDeploy, BuildGoto, NextStep, rows,
       TypeOK, CoordTypeOK
  <2> QED
    BY <2>1, <2>2
<1>2. ASSUME NEW j \in Job, RunnerStepOf(j) PROVE Claims(d)
  BY <1>2, RunnerStepKeeps
<1>3. CASE Restart
  BY <1>3 DEF Restart, rows
<1>4. CASE Apart
  BY <1>4, ApartKeeps
<1> QED
  BY <1>1, <1>2, <1>3, <1>4, StepKinds

LEMMA StepClaimsWhole ==
  ASSUME TypeOK, ClosedKept, ResolvedDone, ClaimsWhole, [Next]_vars PROVE ClaimsWhole'
<1> SUFFICES ASSUME NEW d \in Deployments, Claims(d)', NEW p \in Platforms
             PROVE  jobs'[<<d, p>>].status = "succeeded"
  BY DEF ClaimsWhole, Whole
<1>1. <<d, p>> \in Job
  BY JobParts
<1>2. jobs[<<d, p>>].status = "succeeded"
  BY <1>1, StepClaims DEF ClaimsWhole, Whole, ResolvedDone
<1> QED
  BY <1>1, <1>2 DEF ClosedKept, Closed

(* A deployment leaves the build phases only with an image for every one of *)
(* its platforms, however its build was cancelled, retried or restarted on  *)
(* the way.                                                                 *)
THEOREM ShipsWhole == Spec => []ShipsWhatWasBuilt
<1>1. Init => ResolvedDone /\ ClaimsWhole
  BY DEF Init, CoordInit, ResolvedDone, ClaimsWhole, Claims
<1>2. IndInv /\ ResolvedDone /\ ClaimsWhole /\ [Next]_vars
        => IndInv' /\ ResolvedDone' /\ ClaimsWhole'
  BY StepIndInv, StepWrites, WritesKeepClosed, StepResolvedDone, StepClaimsWhole DEF IndInv
<1>3. ClaimsWhole => ShipsWhatWasBuilt
  BY DEF ClaimsWhole, Claims, Whole, ShipsWhatWasBuilt
<1> QED
  BY InitIndInv, <1>1, <1>2, <1>3, PTL DEF Spec
=============================================================================
