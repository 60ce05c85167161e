--------------------------- MODULE BuildRowProofs ---------------------------
(* What is proved of the job rows: how each may be written, and what        *)
(* follows for the images and the leases they hold.                         *)
EXTENDS BuildProofs

(* Every statement of the program that writes a row, with what its WHERE    *)
(* clause, or the call it is part of, guarantees.                           *)
Inserts == \E j \in Job :
  /\ building[j[1]] = "inserting"
  /\ jobs[j].status = "absent"
  /\ jobs' = [jobs EXCEPT ![j].status = "queued"]
  /\ runner' = [runner EXCEPT ![j] = "check"]

Reuses == \E j, k \in Job :
  /\ building[j[1]] = "inserting"
  /\ jobs[j].status = "absent" /\ jobs[k].status = "succeeded" /\ k[2] = j[2]
  /\ jobs' = [jobs EXCEPT ![j].status = "succeeded", ![j].digest = jobs[k].digest]

Assigns == \E j \in Job, b \in Builders :
  /\ jobs[j].status \in {"queued", "timed_out"}
  /\ jobs[j].attempt < MaxAttempts
  /\ Load(b) < MaxJobs
  /\ jobs' = [jobs EXCEPT ![j] = Reserved(@, b)]
  /\ runner[j] = "reserve" /\ runner' = [runner EXCEPT ![j] = "send"]

Closes == \E j \in Job, s \in {"timed_out", "failed"} :
  /\ runner[j] \in {"expire", "fail"}
  /\ jobs[j].status \in Open
  /\ jobs' = [jobs EXCEPT ![j] = Close(@, s)]

TimesOut == \E j \in Job :
  /\ jobs[j].status \in Open
  /\ jobs' = [jobs EXCEPT ![j].status = "timed_out"]

Leases == \E j \in Job, lease \in {"epoch", "passed"} :
  /\ lease = "epoch" => runner[j] = "send" /\ runner' = [runner EXCEPT ![j] = "poll"]
  /\ jobs' = [jobs EXCEPT ![j].lease = lease]

Renews == \E e \in Event :
  /\ e \in handlers /\ Fenced(e)
  /\ jobs' = [jobs EXCEPT ![e.job].status = "running", ![e.job].lease = "live"]

Records == \E e \in Event :
  /\ e \in handlers /\ Fenced(e) /\ e.status \in Outcome
  /\ jobs' = [jobs EXCEPT ![e.job] = Recorded(@, e)]

Sweeps == \E d \in Deployments :
  jobs' = [j \in Job |-> IF j[1] = d /\ jobs[j].status \in Open
                           THEN Close(jobs[j], "cancelled") ELSE jobs[j]]

RowWrite ==
  jobs' = jobs \/ Inserts \/ Reuses \/ Assigns \/ Closes \/ TimesOut \/ Leases
  \/ Renews \/ Records \/ Sweeps

LEMMA SweepRowsWrites ==
  ASSUME NEW d \in Deployments, SweepRows(d) PROVE Sweeps
BY DEF SweepRows, Sweeps

LEMMA BuildStepWrites ==
  ASSUME IndInv, NEW d \in Deployments, BuildStepOf(d) PROVE RowWrite
<1>1. ASSUME NEW p \in Platforms, InsertJob(d, p) PROVE Inserts
  <2>1. <<d, p>> \in Job /\ <<d, p>>[1] = d
    BY JobParts
  <2> QED
    BY <1>1, <2>1 DEF InsertJob, Goto, Inserts
<1>2. ASSUME NEW p \in Platforms, ReuseDigest(d, p) PROVE Reuses
  <2>1. <<d, p>> \in Job /\ <<d, p>>[1] = d /\ <<d, p>>[2] = p
    BY JobParts
  <2> QED
    BY <1>2, <2>1 DEF ReuseDigest, Reuses
<1>3. CASE SweepBuild(d)
  BY <1>3, SweepRowsWrites DEF SweepBuild, RowWrite
<1>4. CASE \/ Admit(d) \/ EnterFlight(d) \/ LeaveLoop(d) \/ Settle(d) \/ MergeFails(d)
           \/ Merge(d) \/ LeaveFlight(d) \/ Forget(d) \/ FinishDeploy(d)
  BY <1>4 DEF Admit, EnterFlight, LeaveLoop, Settle, MergeFails, Merge, LeaveFlight, Forget,
     FinishDeploy, rows, RowWrite
<1> QED
  BY <1>1, <1>2, <1>3, <1>4 DEF BuildStepOf, RowWrite

LEMMA RunnerStepWrites ==
  ASSUME IndInv, NEW j \in Job, RunnerStepOf(j) PROVE RowWrite
<1>0. jobs \in [Job -> JobRow]
  BY DEF IndInv, TypeOK, CoordTypeOK
<1>1. CASE Reserve(j)
  <2>1. PICK b \in Builders :
          /\ Load(b) < MaxJobs
          /\ jobs' = [jobs EXCEPT ![j].status = "assigned", ![j].builder = b,
                                  ![j].attempt = @ + 1, ![j].lease = "live"]
    BY <1>1, JobParts, CapableAssumption DEF Reserve, Eligible
  <2>2. jobs' = [jobs EXCEPT ![j] = Reserved(@, b)]
    BY <1>0, <2>1 DEF Reserved, JobRow
  <2>3. jobs[j].attempt < MaxAttempts
    BY <1>1 DEF Reserve, IndInv, RunnersOK
  <2> QED
    BY <1>1, <2>1, <2>2, <2>3 DEF Reserve, Goto, Assigns, RowWrite
<1>2. CASE SendFails(j)
  BY <1>2 DEF SendFails, Goto, Leases, RowWrite
<1>3. CASE ExpireAttempt(j)
  BY <1>0, <1>3 DEF ExpireAttempt, Closes, Open, RowWrite
<1>4. CASE FailJob(j)
  BY <1>0, <1>4 DEF FailJob, Closes, RowWrite
<1>5. CASE SweepSiblings(j)
  BY <1>5, JobParts, SweepRowsWrites DEF SweepSiblings, RowWrite
<1>6. CASE \/ CheckCancelled(j) \/ ReserveFails(j) \/ PrepareFails(j) \/ SendAssignment(j)
           \/ PollSucceeded(j) \/ PollClosed(j) \/ PollExpired(j) \/ PollDeadline(j) \/ MarkSiblings(j)
  BY <1>6 DEF CheckCancelled, ReserveFails, PrepareFails, SendAssignment, PollSucceeded, PollClosed,
     PollExpired, PollDeadline, GiveUp, MarkSiblings, rows, RowWrite
<1> QED
  BY <1>1, <1>2, <1>3, <1>4, <1>5, <1>6 DEF RunnerStepOf

LEMMA StepWrites == IndInv /\ [Next]_vars => RowWrite
<1> SUFFICES ASSUME IndInv, [Next]_vars PROVE RowWrite
  OBVIOUS
<1>0. jobs \in [Job -> JobRow] /\ handlers \subseteq Event /\ reaping \subseteq Reap
  BY DEF IndInv, TypeOK, CoordTypeOK
<1>1. CASE UNCHANGED coordVars
  BY <1>1 DEF coordVars, rows, RowWrite
<1>2. CASE CoordNext
  <2>1. ASSUME NEW d \in Deployments, BuildStepOf(d) PROVE RowWrite
    BY <2>1, BuildStepWrites
  <2>2. ASSUME NEW j \in Job, RunnerStepOf(j) PROVE RowWrite
    BY <2>2, RunnerStepWrites
  <2>3. CASE HandleRenew
    BY <1>0, <2>3 DEF HandleRenew, Renews, RowWrite
  <2>4. CASE HandleResult
    <3>1. PICK e \in handlers : e.status # "renew" /\
            jobs' = IF Fenced(e) THEN [jobs EXCEPT ![e.job] = Recorded(@, e)] ELSE jobs
      BY <2>4 DEF HandleResult
    <3>2. e \in Event /\ e.status \in Outcome
      BY <1>0, <3>1 DEF Event
    <3> QED
      BY <3>1, <3>2 DEF Records, RowWrite
  <2>5. CASE ReapRow
    BY <1>0, <2>5 DEF ReapRow, Reap, Suspect, Lapsed, Open, TimesOut, RowWrite
  <2>6. CASE ReceiveEvent \/ ReapScan \/ ReapSkip \/ ReapDeployment \/ Restart
    BY <2>6 DEF ReceiveEvent, ReapScan, ReapSkip, ReapDeployment, Restart, rows, RowWrite
  <2>7. ASSUME NEW d \in Deployments, CancelDeployment(d) \/ OperatorStepOf(d) \/ FailStaleBuild(d)
        PROVE  RowWrite
    BY <2>7, SweepRowsWrites DEF CancelDeployment, OperatorStepOf, CancelMark, CancelSweep,
       FailStaleBuild, rows, RowWrite
  <2>8. ASSUME NEW j \in Job, LeasePasses(j) PROVE RowWrite
    BY <2>8 DEF LeasePasses, Leases, RowWrite
  <2> QED
    BY <1>2, <2>1, <2>2, <2>3, <2>4, <2>5, <2>6, <2>7, <2>8 DEF CoordNext, HandlerStep, ReaperStep
<1> QED
  BY <1>1, <1>2 DEF Next, vars

-----------------------------------------------------------------------------
(* A closed row keeps what it holds, and what made it.                      *)
ClosedKept == \A j \in Job : jobs[j].status \in Closed =>
  /\ jobs'[j].status = jobs[j].status
  /\ jobs'[j].digest = jobs[j].digest
  /\ jobs'[j].attempt = jobs[j].attempt
  /\ jobs'[j].builder = jobs[j].builder

(* A row that has just succeeded holds the image its builder made on its    *)
(* attempt, or that of a row which had succeeded before.                    *)
NewSuccess == \A j \in Job : jobs'[j].status = "succeeded" =>
  \/ jobs[j].status = "succeeded"
  \/ /\ jobs'[j].attempt \in Attempt /\ jobs'[j].builder \in Builders
     /\ jobs'[j].digest = Built(j, jobs'[j].attempt, jobs'[j].builder)
  \/ \E k \in Job : /\ jobs[k].status = "succeeded" /\ k[2] = j[2]
                    /\ jobs'[j].digest = jobs[k].digest

LEMMA RecordedRow ==
  ASSUME NEW row \in JobRow, NEW e \in Event, e.status \in Outcome
  PROVE  /\ Recorded(row, e).status = e.status
         /\ Recorded(row, e).attempt = row.attempt
         /\ Recorded(row, e).builder = row.builder
         /\ Recorded(row, e).digest = IF e.status = "succeeded"
              THEN Built(e.job, e.attempt, e.builder) ELSE NoDigest
<1> DEFINE closed == Close(row, e.status)
<1>1. e.status \in JobStatus
  BY DEF Outcome, JobStatus, Closed
<1>2. /\ closed \in JobRow /\ closed.status = e.status
      /\ closed.attempt = row.attempt /\ closed.builder = row.builder
  BY <1>1, CloseType
<1>3. Recorded(row, e) = [closed EXCEPT !.digest =
        IF e.status = "succeeded" THEN Built(e.job, e.attempt, e.builder) ELSE NoDigest]
  BY DEF Recorded
<1> HIDE DEF closed
<1> QED
  BY <1>2, <1>3 DEF JobRow

LEMMA WritesKeepClosed ==
  ASSUME TypeOK, RowWrite PROVE ClosedKept /\ NewSuccess
<1>0. jobs \in [Job -> JobRow]
  BY DEF TypeOK, CoordTypeOK
<1> USE DEF ClosedKept, NewSuccess, Closed, Open, Active
<1>1. CASE jobs' = jobs
  BY <1>1
<1>2. CASE Inserts
  BY <1>0, <1>2 DEF Inserts, JobRow
<1>3. CASE Reuses
  <2>1. PICK j \in Job, k \in Job :
          /\ jobs[j].status = "absent" /\ jobs[k].status = "succeeded" /\ k[2] = j[2]
          /\ jobs' = [jobs EXCEPT ![j].status = "succeeded", ![j].digest = jobs[k].digest]
    BY <1>3 DEF Reuses
  <2>2. jobs'[j].digest = jobs[k].digest /\ \A i \in Job \ {j} : jobs'[i] = jobs[i]
    BY <1>0, <2>1 DEF JobRow
  <2> QED
    BY <2>1, <2>2
<1>4. CASE Assigns
  BY <1>0, <1>4 DEF Assigns, Reserved
<1>5. CASE Closes
  <2>1. {"timed_out", "failed"} \subseteq JobStatus
    BY DEF JobStatus
  <2> QED
    BY <1>0, <1>5, <2>1, CloseType DEF Closes
<1>6. CASE TimesOut
  BY <1>0, <1>6 DEF TimesOut, JobRow
<1>7. CASE Leases
  BY <1>0, <1>7 DEF Leases, JobRow
<1>8. CASE Renews
  BY <1>0, <1>8 DEF Renews, Fenced, Event, JobRow
<1>9. CASE Records
  <2>1. PICK e \in Event : /\ Fenced(e) /\ e.status \in Outcome
                           /\ jobs' = [jobs EXCEPT ![e.job] = Recorded(@, e)]
    BY <1>9 DEF Records
  <2>2. e.job \in Job /\ e.attempt \in Attempt /\ e.builder \in Builders
    BY DEF Event
  <2>3. /\ jobs'[e.job] = Recorded(jobs[e.job], e)
        /\ \A i \in Job \ {e.job} : jobs'[i] = jobs[i]
    BY <1>0, <2>1, <2>2
  <2> QED
    BY <1>0, <2>1, <2>2, <2>3, RecordedRow DEF Fenced
<1>10. CASE Sweeps
  <2>1. "cancelled" \in JobStatus
    BY DEF JobStatus
  <2> QED
    BY <1>0, <1>10, <2>1, CloseType DEF Sweeps
<1> QED
  BY <1>1, <1>2, <1>3, <1>4, <1>5, <1>6, <1>7, <1>8, <1>9, <1>10 DEF RowWrite

-----------------------------------------------------------------------------
LEMMA InitDigestFence == Init => DigestFence
<1> SUFFICES ASSUME Init, NEW j \in Job, jobs[j].status = "succeeded"
             PROVE  LET origin == jobs[j].digest IN
                    /\ origin # NoDigest
                    /\ origin.job[2] = j[2]
                    /\ jobs[origin.job].status = "succeeded"
                    /\ jobs[origin.job].attempt = origin.attempt
                    /\ jobs[origin.job].builder = origin.builder
  BY DEF DigestFence
<1>1. PICK b \in Builders :
        jobs = [k \in Job |-> IF k[1] \in Past THEN PastRow(k, b) ELSE NoRow]
  BY DEF Init, CoordInit
<1>2. jobs[j] = PastRow(j, b)
  BY <1>1 DEF NoRow
<1>3. jobs[j].digest = Built(j, 1, b) /\ jobs[j].attempt = 1 /\ jobs[j].builder = b
  BY <1>2 DEF PastRow
<1>4. Built(j, 1, b) \in Digest /\ Built(j, 1, b) # NoDigest
  BY AttemptsAssumption, NoDigestAssumption DEF Built, Digest, Attempt
<1> QED
  BY <1>3, <1>4 DEF Built

LEMMA StepDigestFence ==
  ASSUME TypeOK, DigestFence, ClosedKept, NewSuccess PROVE DigestFence'
<1> SUFFICES ASSUME NEW j \in Job, jobs'[j].status = "succeeded"
             PROVE  LET origin == jobs'[j].digest IN
                    /\ origin # NoDigest
                    /\ origin.job[2] = j[2]
                    /\ jobs'[origin.job].status = "succeeded"
                    /\ jobs'[origin.job].attempt = origin.attempt
                    /\ jobs'[origin.job].builder = origin.builder
  BY DEF DigestFence
<1>1. CASE \E k \in Job : /\ jobs[k].status = "succeeded" /\ k[2] = j[2]
                          /\ jobs'[j].digest = jobs[k].digest
  <2>1. PICK k \in Job : /\ jobs[k].status = "succeeded" /\ k[2] = j[2]
                         /\ jobs'[j].digest = jobs[k].digest
    BY <1>1
  <2>2. jobs[k].digest \in Digest
    BY <2>1 DEF DigestFence, TypeOK, CoordTypeOK, JobRow
  <2>3. jobs[k].digest.job \in Job
    BY <2>2 DEF Digest
  <2> QED
    BY <2>1, <2>3 DEF DigestFence, ClosedKept, Closed
<1>2. CASE jobs[j].status = "succeeded"
  BY <1>1, <1>2 DEF ClosedKept, Closed
<1>3. CASE /\ jobs'[j].attempt \in Attempt /\ jobs'[j].builder \in Builders
           /\ jobs'[j].digest = Built(j, jobs'[j].attempt, jobs'[j].builder)
  BY <1>3, NoDigestAssumption DEF Built, Digest
<1> QED
  BY <1>1, <1>2, <1>3 DEF NewSuccess

(* No image of a builder that lost a job, or of another platform, is ever   *)
(* a job's image, however late, often or out of order builders report: the  *)
(* fence of handleMessage() and the digest reuse of build().                *)
THEOREM DigestFenced == Spec => []DigestFence
<1>1. IndInv /\ DigestFence /\ [Next]_vars => IndInv' /\ DigestFence'
  <2> SUFFICES ASSUME IndInv, DigestFence, [Next]_vars PROVE IndInv' /\ DigestFence'
    OBVIOUS
  <2>1. TypeOK
    BY DEF IndInv
  <2>2. ClosedKept /\ NewSuccess
    BY <2>1, StepWrites, WritesKeepClosed
  <2> QED
    BY <2>1, <2>2, StepIndInv, StepDigestFence
<1> QED
  BY InitIndInv, InitDigestFence, <1>1, PTL DEF Spec

(* What became of a job is decided once, whatever is retried, cancelled or  *)
(* reaped while it was being decided.                                       *)
THEOREM ClosedForGood == Spec => ClosedIsFinal
<1>1. IndInv /\ [Next]_vars =>
        [\A j \in Job : jobs[j].status \in Closed =>
           jobs'[j].status = jobs[j].status /\ jobs'[j].digest = jobs[j].digest]_vars
  BY StepWrites, WritesKeepClosed DEF IndInv, ClosedKept
<1> QED
  BY InitIndInv, StepIndInv, <1>1, PTL DEF Spec, ClosedIsFinal

-----------------------------------------------------------------------------
LEMMA InitActiveHasLease == Init => ActiveHasLease
BY DEF Init, CoordInit, ActiveHasLease, NoRow, PastRow, Active

LEMMA StepActiveHasLease ==
  ASSUME TypeOK, ActiveHasLease, RowWrite PROVE ActiveHasLease'
<1>0. jobs \in [Job -> JobRow]
  BY DEF TypeOK, CoordTypeOK
<1> USE DEF ActiveHasLease, Active
<1>1. CASE jobs' = jobs
  BY <1>1
<1>2. CASE Inserts \/ Reuses \/ TimesOut
  <2>1. CASE Inserts
    BY <1>0, <2>1 DEF Inserts, JobRow
  <2>2. CASE Reuses
    BY <1>0, <2>2 DEF Reuses, JobRow
  <2>3. CASE TimesOut
    BY <1>0, <2>3 DEF TimesOut, JobRow
  <2> QED
    BY <1>2, <2>1, <2>2, <2>3
<1>3. CASE Assigns
  BY <1>0, <1>3, AttemptsAssumption DEF Assigns, Reserved, JobRow, Attempt
<1>4. CASE Closes
  <2>1. {"timed_out", "failed"} \subseteq JobStatus
    BY DEF JobStatus, Closed
  <2> QED
    BY <1>0, <1>4, <2>1, CloseType DEF Closes
<1>5. CASE Leases
  BY <1>0, <1>5 DEF Leases, JobRow
<1>6. CASE Renews
  BY <1>0, <1>6 DEF Renews, Fenced, Event, JobRow
<1>7. CASE Records
  <2>1. PICK e \in Event : /\ Fenced(e) /\ e.status \in Outcome
                           /\ jobs' = [jobs EXCEPT ![e.job] = Recorded(@, e)]
    BY <1>7 DEF Records
  <2>2. e.job \in Job /\ e.status \notin Active
    BY <2>1 DEF Event, Outcome
  <2>3. /\ jobs'[e.job] = Recorded(jobs[e.job], e)
        /\ \A i \in Job \ {e.job} : jobs'[i] = jobs[i]
    BY <1>0, <2>1, <2>2
  <2>4. jobs'[e.job].status = e.status
    BY <1>0, <2>1, <2>2, <2>3, RecordedRow
  <2> QED
    BY <2>2, <2>3, <2>4
<1>8. CASE Sweeps
  <2>1. "cancelled" \in JobStatus
    BY DEF JobStatus, Closed
  <2> QED
    BY <1>0, <1>8, <2>1, CloseType DEF Sweeps
<1> QED
  BY <1>1, <1>2, <1>3, <1>4, <1>5, <1>6, <1>7, <1>8 DEF RowWrite

(* Every active row has a lease that can pass and a builder that can be     *)
(* told, so that reapOrphans() finds it after a restart; no path through    *)
(* reserve(), a failed send or a late event leaves one without.             *)
THEOREM ActiveLeased == Spec => []ActiveHasLease
<1>1. IndInv /\ ActiveHasLease /\ [Next]_vars => IndInv' /\ ActiveHasLease'
  BY StepIndInv, StepWrites, StepActiveHasLease DEF IndInv
<1> QED
  BY InitIndInv, InitActiveHasLease, <1>1, PTL DEF Spec

-----------------------------------------------------------------------------
(* The cancellation of a deployment is durable: neither the phases of its   *)
(* build, nor the reaper, nor the sweeper revive a deployment that failed.  *)
THEOREM CancelDurable == Spec => FailedStaysFailed
<1>1. IndInv /\ [Next]_vars =>
        [\A d \in Deployments : deployment[d] = "failed" => deployment'[d] = "failed"]_vars
  <2> SUFFICES ASSUME IndInv, [Next]_vars, NEW d \in Deployments, deployment[d] = "failed"
               PROVE  deployment'[d] = "failed"
    OBVIOUS
  <2>0. deployment \in [Deployments -> DeploymentStatus]
    BY DEF IndInv, TypeOK, CoordTypeOK
  <2>1. ASSUME NEW x \in Deployments, BuildStepOf(x) PROVE deployment'[d] = "failed"
    BY <2>0, <2>1 DEF BuildStepOf, Admit, EnterFlight, LeaveLoop, InsertJob, ReuseDigest, Settle,
       MergeFails, Merge, LeaveFlight, SweepBuild, Forget, FinishDeploy, rows
  <2>2. ASSUME NEW j \in Job, RunnerStepOf(j) \/ LeasePasses(j) PROVE deployment'[d] = "failed"
    BY <2>2 DEF RunnerStepOf, LeasePasses, CheckCancelled, Reserve, ReserveFails, PrepareFails, SendAssignment,
       SendFails, PollSucceeded, PollClosed, PollExpired, PollDeadline, GiveUp, ExpireAttempt,
       FailJob, MarkSiblings, SweepSiblings, rows
  <2>3. CASE ReceiveEvent \/ HandlerStep \/ ReapScan \/ ReaperStep \/ Restart
    BY <2>0, <2>3 DEF ReceiveEvent, HandlerStep, HandleRenew, HandleResult, ReapScan, ReaperStep,
       ReapSkip, ReapRow, ReapDeployment, Restart, rows
  <2>4. ASSUME NEW x \in Deployments, CancelDeployment(x) \/ OperatorStepOf(x) \/ FailStaleBuild(x)
        PROVE  deployment'[d] = "failed"
    BY <2>0, <2>4 DEF CancelDeployment, OperatorStepOf, CancelMark, CancelSweep, FailStaleBuild, rows
  <2>5. CASE UNCHANGED coordVars
    BY <2>5 DEF coordVars, rows
  <2> QED
    BY <2>1, <2>2, <2>3, <2>4, <2>5 DEF Next, CoordNext, vars
<1> QED
  BY InitIndInv, StepIndInv, <1>1, PTL DEF Spec, FailedStaysFailed
-----------------------------------------------------------------------------
(* The job rows implement fenced work: each of the nine writes is a step of *)
(* FencedWork or changes nothing that it sees.                              *)

(* A row that has not succeeded holds no image, so that abandoning one      *)
(* leaves its product as it is.                                             *)
NoImageYet == \A j \in Job : jobs[j].status # "succeeded" => jobs[j].digest = NoDigest

LEMMA InitNoImageYet == Init => NoImageYet
BY DEF Init, CoordInit, NoImageYet, NoRow, PastRow

LEMMA StepNoImageYet ==
  ASSUME TypeOK, NoImageYet, RowWrite PROVE NoImageYet'
<1>0. jobs \in [Job -> JobRow]
  BY DEF TypeOK, CoordTypeOK
<1> USE DEF NoImageYet
<1>1. CASE jobs' = jobs
  BY <1>1
<1>2. CASE Inserts \/ Reuses \/ TimesOut \/ Leases
  <2>1. CASE Inserts
    BY <1>0, <2>1 DEF Inserts, JobRow
  <2>2. CASE Reuses
    BY <1>0, <2>2 DEF Reuses, JobRow
  <2>3. CASE TimesOut
    BY <1>0, <2>3 DEF TimesOut, Open, Active, JobRow
  <2>4. CASE Leases
    BY <1>0, <2>4 DEF Leases, JobRow
  <2> QED
    BY <1>2, <2>1, <2>2, <2>3, <2>4
<1>3. CASE Assigns
  BY <1>0, <1>3 DEF Assigns, Reserved, JobRow
<1>4. CASE Closes
  <2>1. {"timed_out", "failed"} \subseteq JobStatus
    BY DEF JobStatus, Closed
  <2> QED
    BY <1>0, <1>4, <2>1, CloseType DEF Closes, Open, Active
<1>5. CASE Renews
  BY <1>0, <1>5 DEF Renews, Fenced, Active, Event, JobRow
<1>6. CASE Records
  <2>1. PICK e \in Event : /\ Fenced(e) /\ e.status \in Outcome
                           /\ jobs' = [jobs EXCEPT ![e.job] = Recorded(@, e)]
    BY <1>6 DEF Records
  <2>2. e.job \in Job /\ jobs[e.job] \in JobRow
    BY <1>0, <2>1 DEF Event
  <2>3. /\ jobs'[e.job] = Recorded(jobs[e.job], e)
        /\ \A i \in Job \ {e.job} : jobs'[i] = jobs[i]
    BY <1>0, <2>1, <2>2
  <2>4. Recorded(jobs[e.job], e).status = e.status
    BY <2>1, <2>2, RecordedRow
  <2>5. e.status # "succeeded" => Recorded(jobs[e.job], e).digest = NoDigest
    BY <2>1, <2>2, RecordedRow
  <2> QED
    BY <2>2, <2>3, <2>4, <2>5
<1>7. CASE Sweeps
  <2>1. "cancelled" \in JobStatus
    BY DEF JobStatus, Closed
  <2> QED
    BY <1>0, <1>7, <2>1, CloseType DEF Sweeps, Open, Active
<1> QED
  BY <1>1, <1>2, <1>3, <1>4, <1>5, <1>6, <1>7 DEF RowWrite

(* What FencedWork sees of a row.                                           *)
Seen(row) == [holder |-> HolderOf(row), epoch |-> row.attempt,
              outcome |-> OutcomeOf(row), product |-> row.digest]

LEMMA UnseenWrite ==
  ASSUME \A j \in Job : Seen(jobs'[j]) = Seen(jobs[j])
  PROVE  UNCHANGED Fencing!workVars
<1>1. \A j \in Job : /\ HolderOf(jobs'[j]) = HolderOf(jobs[j])
                     /\ jobs'[j].attempt = jobs[j].attempt
                     /\ OutcomeOf(jobs'[j]) = OutcomeOf(jobs[j])
                     /\ jobs'[j].digest = jobs[j].digest
  BY DEF Seen
<1> QED
  BY <1>1 DEF Fencing!workVars

(* Queueing a row, renewing a lease and letting one pass are unseen.        *)
LEMMA UnseenSteps ==
  ASSUME IndInv, jobs' = jobs \/ Inserts \/ Leases \/ Renews
  PROVE  UNCHANGED Fencing!workVars
<1>0. jobs \in [Job -> JobRow]
  BY DEF IndInv, TypeOK, CoordTypeOK
<1>1. \A j \in Job : /\ jobs'[j].attempt = jobs[j].attempt /\ jobs'[j].builder = jobs[j].builder
                     /\ jobs'[j].digest = jobs[j].digest
                     /\ \/ jobs'[j].status = jobs[j].status
                        \/ jobs'[j].status = "queued" /\ jobs[j].status = "absent"
                        \/ jobs'[j].status \in Active /\ jobs[j].status \in Active
  <2>1. CASE jobs' = jobs
    BY <2>1
  <2>2. CASE Inserts
    BY <1>0, <2>2 DEF Inserts, JobRow
  <2>3. CASE Leases
    BY <1>0, <2>3 DEF Leases, JobRow
  <2>4. CASE Renews
    <3>1. PICK e \in Event : /\ Fenced(e)
            /\ jobs' = [jobs EXCEPT ![e.job].status = "running", ![e.job].lease = "live"]
      BY <2>4 DEF Renews
    <3>2. e.job \in Job /\ jobs[e.job] \in JobRow /\ jobs[e.job].status \in Active
      BY <1>0, <3>1 DEF Fenced, Event
    <3> QED
      BY <1>0, <3>1, <3>2 DEF JobRow, Active
  <2> QED
    BY <2>1, <2>2, <2>3, <2>4
<1>2. \A j \in Job : Seen(jobs'[j]) = Seen(jobs[j])
  BY <1>1 DEF Seen, HolderOf, OutcomeOf, Active
<1> QED
  BY <1>2, UnseenWrite

(* The digest of a sibling deployment is adopted by a row never assigned.   *)
LEMMA ReuseAdopts ==
  ASSUME IndInv, Reuses PROVE Fencing!Next
<1>0. jobs \in [Job -> JobRow]
  BY DEF IndInv, TypeOK, CoordTypeOK
<1>1. PICK j \in Job, k \in Job :
        /\ jobs[j].status = "absent" /\ jobs[k].status = "succeeded" /\ k[2] = j[2]
        /\ jobs' = [jobs EXCEPT ![j].status = "succeeded", ![j].digest = jobs[k].digest]
  BY DEF Reuses
<1>2. /\ jobs'[j].status = "succeeded" /\ jobs'[j].digest = jobs[k].digest
      /\ jobs'[j].attempt = jobs[j].attempt /\ jobs'[j].builder = jobs[j].builder
      /\ \A i \in Job \ {j} : jobs'[i] = jobs[i]
  BY <1>0, <1>1 DEF JobRow
<1>3. jobs[j].attempt = 0
  BY <1>1 DEF IndInv, RowsOK
<1>4. /\ OutcomeOf(jobs[j]) = "open" /\ OutcomeOf(jobs[k]) = "done"
      /\ OutcomeOf(jobs'[j]) = "done" /\ HolderOf(jobs'[j]) = HolderOf(jobs[j])
  BY <1>1, <1>2 DEF HolderOf, OutcomeOf, Active
<1>5. SamePlatform(j, k)
  BY <1>1 DEF SamePlatform
<1>6. Fencing!Adopt(j)
  BY <1>2, <1>3, <1>4, <1>5 DEF Fencing!Adopt
<1> QED
  BY <1>6 DEF Fencing!Next

LEMMA AssignGrants ==
  ASSUME IndInv, Assigns PROVE Fencing!Next
<1>0. jobs \in [Job -> JobRow]
  BY DEF IndInv, TypeOK, CoordTypeOK
<1>1. PICK j \in Job, b \in Builders :
        /\ jobs[j].status \in {"queued", "timed_out"}
        /\ jobs[j].attempt < MaxAttempts
        /\ jobs' = [jobs EXCEPT ![j] = Reserved(@, b)]
  BY DEF Assigns
<1>2. /\ jobs'[j].status = "assigned" /\ jobs'[j].digest = jobs[j].digest
      /\ jobs'[j].attempt = jobs[j].attempt + 1 /\ jobs'[j].builder = b
      /\ \A i \in Job \ {j} : jobs'[i] = jobs[i]
  BY <1>0, <1>1 DEF Reserved
<1>3. /\ OutcomeOf(jobs[j]) = "open" /\ HolderOf(jobs[j]) = NoBuilder
      /\ OutcomeOf(jobs'[j]) = "open" /\ HolderOf(jobs'[j]) = b
  BY <1>1, <1>2 DEF HolderOf, OutcomeOf, Active
<1>4. /\ [i \in Job |-> HolderOf(jobs'[i])] = [[i \in Job |-> HolderOf(jobs[i])] EXCEPT ![j] = b]
      /\ [i \in Job |-> jobs'[i].attempt] = [[i \in Job |-> jobs[i].attempt] EXCEPT ![j] = @ + 1]
      /\ [i \in Job |-> OutcomeOf(jobs'[i])] = [i \in Job |-> OutcomeOf(jobs[i])]
      /\ [i \in Job |-> jobs'[i].digest] = [i \in Job |-> jobs[i].digest]
  BY <1>2, <1>3
<1>5. Fencing!Grant(j)
  BY <1>1, <1>3, <1>4 DEF Fencing!Grant
<1> QED
  BY <1>5 DEF Fencing!Next

(* An attempt that is given up is taken back; a row that waits in the queue *)
(* has nothing to take back.                                                *)
LEMMA TimeOutRevokes ==
  ASSUME IndInv, NEW j \in Job, jobs[j].status \in Open,
         /\ jobs'[j].status = "timed_out" /\ jobs'[j].digest = jobs[j].digest
         /\ jobs'[j].attempt = jobs[j].attempt,
         \A i \in Job \ {j} : jobs'[i] = jobs[i],
         ActiveHasLease
  PROVE  [Fencing!Next]_(Fencing!workVars)
<1>1. CASE jobs[j].status \in Active
  <2>1. jobs[j].builder # NoBuilder
    BY <1>1, NoneAssumption DEF ActiveHasLease
  <2>2. Fencing!Revoke(j)
    BY <1>1, <2>1 DEF Fencing!Revoke, HolderOf, OutcomeOf, Active
  <2> QED
    BY <2>2 DEF Fencing!Next
<1>2. CASE jobs[j].status = "queued"
  <2>1. \A i \in Job : Seen(jobs'[i]) = Seen(jobs[i])
    BY <1>2 DEF Seen, HolderOf, OutcomeOf, Active
  <2> QED
    BY <2>1, UnseenWrite
<1> QED
  BY <1>1, <1>2 DEF Open

(* Rows that fail or are cancelled while they are open are abandoned.       *)
LEMMA CloseAbandons ==
  ASSUME NEW S \in SUBSET Job, \A j \in S : jobs[j].status \in Open,
         \A j \in S : /\ jobs'[j].status \in {"failed", "cancelled"}
                      /\ jobs'[j].attempt = jobs[j].attempt
                      /\ jobs'[j].digest = jobs[j].digest,
         \A j \in Job \ S : jobs'[j] = jobs[j]
  PROVE  Fencing!Next
<1>1. Fencing!Abandon(S)
  BY DEF Fencing!Abandon, HolderOf, OutcomeOf, Open, Active
<1> QED
  BY <1>1 DEF Fencing!Next

(* A result that passes the fence is the holder's, under the current epoch. *)
LEMMA RecordProduces ==
  ASSUME IndInv, NoImageYet, Records PROVE Fencing!Next
<1>0. jobs \in [Job -> JobRow]
  BY DEF IndInv, TypeOK, CoordTypeOK
<1>1. PICK e \in Event : /\ Fenced(e) /\ e.status \in Outcome
                         /\ jobs' = [jobs EXCEPT ![e.job] = Recorded(@, e)]
  BY DEF Records
<1>2. /\ e.job \in Job /\ jobs[e.job] \in JobRow /\ e.builder \in Builders
      /\ jobs[e.job].status \in Active
      /\ jobs[e.job].attempt = e.attempt /\ jobs[e.job].builder = e.builder
  BY <1>0, <1>1 DEF Event, Fenced
<1>3. /\ jobs'[e.job] = Recorded(jobs[e.job], e)
      /\ \A i \in Job \ {e.job} : jobs'[i] = jobs[i]
  BY <1>0, <1>1, <1>2
<1>4. /\ jobs'[e.job].status = e.status
      /\ jobs'[e.job].attempt = jobs[e.job].attempt
      /\ jobs'[e.job].digest = IF e.status = "succeeded"
           THEN Built(e.job, e.attempt, e.builder) ELSE NoDigest
  BY <1>1, <1>2, <1>3, RecordedRow
<1>5. CASE e.status = "succeeded"
  <2>1. e.builder # NoBuilder
    BY <1>2, NoneAssumption
  <2>2. Fencing!Produce(e.job)
    BY <1>2, <1>3, <1>4, <1>5, <2>1 DEF Fencing!Produce, HolderOf, OutcomeOf, Active
  <2> QED
    BY <1>2, <2>2 DEF Fencing!Next
<1>6. CASE e.status \in {"failed", "cancelled"}
  <2>1. jobs'[e.job].digest = jobs[e.job].digest
    BY <1>2, <1>4, <1>6 DEF NoImageYet, Active
  <2> DEFINE S == {e.job}
  <2>2. /\ S \in SUBSET Job /\ \A j \in S : jobs[j].status \in Open
        /\ \A j \in S : /\ jobs'[j].status \in {"failed", "cancelled"}
                       /\ jobs'[j].attempt = jobs[j].attempt
                       /\ jobs'[j].digest = jobs[j].digest
        /\ \A j \in Job \ S : jobs'[j] = jobs[j]
    BY <1>2, <1>3, <1>4, <1>6, <2>1 DEF Open
  <2> HIDE DEF S
  <2> QED
    BY <2>2, CloseAbandons
<1> QED
  BY <1>1, <1>5, <1>6 DEF Outcome

LEMMA StepFencing ==
  ASSUME IndInv, NoImageYet, ActiveHasLease, RowWrite
  PROVE  [Fencing!Next]_(Fencing!workVars)
<1>0. jobs \in [Job -> JobRow]
  BY DEF IndInv, TypeOK, CoordTypeOK
<1>1. CASE jobs' = jobs \/ Inserts \/ Leases \/ Renews
  BY <1>1, UnseenSteps
<1>2. CASE Closes
  <2>1. PICK j \in Job, s \in {"timed_out", "failed"} :
          jobs[j].status \in Open /\ jobs' = [jobs EXCEPT ![j] = Close(@, s)]
    BY <1>2 DEF Closes
  <2>2. /\ jobs'[j].status = s /\ jobs'[j].attempt = jobs[j].attempt
        /\ jobs'[j].digest = jobs[j].digest
        /\ \A i \in Job \ {j} : jobs'[i] = jobs[i]
    BY <1>0, <2>1, CloseType DEF JobStatus, Closed
  <2>3. CASE s = "timed_out"
    BY <2>1, <2>2, <2>3, TimeOutRevokes
  <2>4. CASE s = "failed"
    BY <2>1, <2>2, <2>4, CloseAbandons
  <2> QED
    BY <2>3, <2>4
<1>3. CASE TimesOut
  <2>1. PICK j \in Job : jobs[j].status \in Open /\ jobs' = [jobs EXCEPT ![j].status = "timed_out"]
    BY <1>3 DEF TimesOut
  <2>2. /\ jobs'[j].status = "timed_out" /\ jobs'[j].attempt = jobs[j].attempt
        /\ jobs'[j].digest = jobs[j].digest
        /\ \A i \in Job \ {j} : jobs'[i] = jobs[i]
    BY <1>0, <2>1 DEF JobRow
  <2> QED
    BY <2>1, <2>2, TimeOutRevokes
<1>4. CASE Sweeps
  <2>1. PICK d \in Deployments :
          jobs' = [j \in Job |-> IF j[1] = d /\ jobs[j].status \in Open
                                   THEN Close(jobs[j], "cancelled") ELSE jobs[j]]
    BY <1>4 DEF Sweeps
  <2> DEFINE swept == {j \in Job : j[1] = d /\ jobs[j].status \in Open}
  <2>2. "cancelled" \in JobStatus
    BY DEF JobStatus, Closed
  <2>3. /\ \A j \in swept : /\ jobs'[j].status = "cancelled"
                            /\ jobs'[j].attempt = jobs[j].attempt
                            /\ jobs'[j].digest = jobs[j].digest
        /\ \A j \in Job \ swept : jobs'[j] = jobs[j]
    BY <1>0, <2>1, <2>2, CloseType
  <2>4. swept \in SUBSET Job /\ \A j \in swept : jobs[j].status \in Open
    OBVIOUS
  <2> HIDE DEF swept
  <2> QED
    BY <2>3, <2>4, CloseAbandons
<1> QED
  BY <1>1, <1>2, <1>3, <1>4, ReuseAdopts, AssignGrants, RecordProduces DEF RowWrite

LEMMA InitFencing == Init => Fencing!Init
<1> SUFFICES ASSUME Init PROVE Fencing!Init
  OBVIOUS
<1>1. PICK b \in Builders :
        jobs = [j \in Job |-> IF j[1] \in Past THEN PastRow(j, b) ELSE NoRow]
  BY DEF Init, CoordInit
<1>2. ASSUME NEW j \in Job, j[1] \in Past
      PROVE  /\ HolderOf(jobs[j]) = NoBuilder /\ jobs[j].attempt = 1
             /\ OutcomeOf(jobs[j]) = "done" /\ jobs[j].digest = Built(j, 1, b)
  BY <1>1, <1>2 DEF PastRow, HolderOf, OutcomeOf, Active
<1>3. ASSUME NEW j \in Job, j[1] \notin Past
      PROVE  /\ HolderOf(jobs[j]) = NoBuilder /\ jobs[j].attempt = 0
             /\ OutcomeOf(jobs[j]) = "open" /\ jobs[j].digest = NoDigest
  BY <1>1, <1>3 DEF NoRow, HolderOf, OutcomeOf, Active
<1> QED
  BY <1>2, <1>3, AttemptsAssumption DEF Fencing!Init

(* The job table implements fenced work: whatever leases, messages, retries *)
(* and restarts do, a job is held by one builder at a time, under an        *)
(* attempt that grows with each assignment; only what the holder made under *)
(* the current one becomes its image; and what is decided is not assigned   *)
(* again.  AgentBuildRunner as a whole.                                     *)
THEOREM TableFences == Spec => ImplementsFencedWork
<1> DEFINE Inv == IndInv /\ NoImageYet /\ ActiveHasLease
<1>1. Init => Inv
  BY InitIndInv, InitNoImageYet, InitActiveHasLease
<1>2. Inv /\ [Next]_vars => Inv'
  BY StepIndInv, StepWrites, StepNoImageYet, StepActiveHasLease DEF IndInv
<1>3. Inv /\ [Next]_vars => [Fencing!Next]_(Fencing!workVars)
  BY StepWrites, StepFencing
<1> HIDE DEF Inv
<1> QED
  BY InitFencing, <1>1, <1>2, <1>3, PTL DEF Spec, ImplementsFencedWork, Fencing!Spec

-----------------------------------------------------------------------------
(* What the writes do to the attempt, the builder and the lease of a row.   *)

(* Attempts only grow, a row changes hands only with a new attempt, and it  *)
(* becomes active only by one.                                              *)
RowsMove == \A j \in Job :
  /\ \/ jobs'[j].attempt = jobs[j].attempt /\ jobs'[j].builder = jobs[j].builder
     \/ jobs'[j].attempt > jobs[j].attempt
  /\ jobs'[j].status \in Active =>
       \/ jobs[j].status \in Active /\ jobs'[j].attempt = jobs[j].attempt
       \/ jobs'[j].attempt > jobs[j].attempt

LEMMA WritesMove ==
  ASSUME TypeOK, RowWrite PROVE RowsMove
<1>0. jobs \in [Job -> JobRow]
  BY DEF TypeOK, CoordTypeOK
<1> USE DEF RowsMove, Active
<1>1. CASE jobs' = jobs
  BY <1>1
<1>2. CASE Inserts \/ TimesOut \/ Leases
  BY <1>0, <1>2 DEF Inserts, TimesOut, Leases, JobRow
<1>3. CASE Reuses
  BY <1>0, <1>3 DEF Reuses, JobRow
<1>4. CASE Assigns
  BY <1>0, <1>4, AttemptsAssumption DEF Assigns, Reserved, JobRow
<1>5. CASE Closes
  <2>1. {"timed_out", "failed"} \subseteq JobStatus
    BY DEF JobStatus, Closed
  <2> QED
    BY <1>0, <1>5, <2>1, CloseType DEF Closes
<1>6. CASE Renews
  BY <1>0, <1>6 DEF Renews, Fenced, Event, JobRow
<1>7. CASE Records
  <2>1. PICK e \in Event : /\ Fenced(e) /\ e.status \in Outcome
                           /\ jobs' = [jobs EXCEPT ![e.job] = Recorded(@, e)]
    BY <1>7 DEF Records
  <2>2. e.job \in Job /\ jobs[e.job] \in JobRow /\ e.status \notin Active
    BY <1>0, <2>1 DEF Event, Outcome
  <2>3. /\ jobs'[e.job] = Recorded(jobs[e.job], e)
        /\ \A i \in Job \ {e.job} : jobs'[i] = jobs[i]
    BY <1>0, <2>1, <2>2
  <2> QED
    BY <2>1, <2>2, <2>3, RecordedRow
<1>8. CASE Sweeps
  <2>1. "cancelled" \in JobStatus
    BY DEF JobStatus, Closed
  <2> QED
    BY <1>0, <1>8, <2>1, CloseType DEF Sweeps
<1> QED
  BY <1>1, <1>2, <1>3, <1>4, <1>5, <1>6, <1>7, <1>8 DEF RowWrite

LEMMA WritesLease ==
  ASSUME TypeOK, RowWrite, NEW j \in Job
  PROVE  /\ jobs'[j].lease = "epoch" =>
              jobs[j].lease = "epoch" \/ (runner[j] = "send" /\ runner'[j] = "poll")
         /\ jobs'[j].attempt # jobs[j].attempt => jobs'[j].lease = "live" /\ Assigns
<1>0. jobs \in [Job -> JobRow] /\ runner \in [Job -> RunnerStep]
  BY DEF TypeOK, CoordTypeOK
<1>1. CASE jobs' = jobs
  BY <1>1
<1>2. CASE Inserts \/ TimesOut
  BY <1>0, <1>2 DEF Inserts, TimesOut, JobRow
<1>3. CASE Leases
  BY <1>0, <1>3 DEF Leases, JobRow
<1>4. CASE Assigns
  <2>1. jobs'[j] = jobs[j] \/ jobs'[j].lease = "live"
    BY <1>0, <1>4 DEF Assigns, Reserved
  <2> QED
    BY <1>4, <2>1
<1>5. CASE Closes \/ Sweeps
  <2>1. ASSUME NEW row \in JobRow, NEW s
        PROVE  Close(row, s).lease = "none" /\ Close(row, s).attempt = row.attempt
    BY DEF Close, JobRow
  <2>2. \A i \in Job : jobs'[i] = jobs[i] \/ \E s : jobs'[i] = Close(jobs[i], s)
    BY <1>0, <1>5 DEF Closes, Sweeps
  <2> QED
    BY <1>0, <2>1, <2>2
<1>6. CASE Renews
  BY <1>0, <1>6 DEF Renews, Event, JobRow
<1>7. CASE Records
  <2>1. PICK e \in Event : /\ Fenced(e) /\ e.status \in Outcome
                           /\ jobs' = [jobs EXCEPT ![e.job] = Recorded(@, e)]
    BY <1>7 DEF Records
  <2>2. e.job \in Job /\ jobs[e.job] \in JobRow
    BY <1>0, <2>1 DEF Event
  <2>3. /\ jobs'[e.job] = Recorded(jobs[e.job], e)
        /\ \A i \in Job \ {e.job} : jobs'[i] = jobs[i]
    BY <1>0, <2>1, <2>2
  <2>4. Recorded(jobs[e.job], e).lease = "none"
    BY <2>2 DEF Recorded, Close, JobRow
  <2> QED
    BY <2>1, <2>2, <2>3, <2>4, RecordedRow
<1>8. CASE Reuses
  <2>1. PICK k \in Job, i \in Job :
          jobs' = [jobs EXCEPT ![k].status = "succeeded", ![k].digest = jobs[i].digest]
    BY <1>8 DEF Reuses
  <2> QED
    BY <1>0, <2>1 DEF JobRow
<1> QED
  BY <1>1, <1>2, <1>3, <1>4, <1>5, <1>6, <1>7, <1>8 DEF RowWrite
=============================================================================
