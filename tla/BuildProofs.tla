---------------------------- MODULE BuildProofs ----------------------------
(* What is proved of delegated builds for any deployments, platforms,       *)
(* builders, attempts and bounds.                                           *)
EXTENDS BuildSystem, TLAPS

(* An attempt and its builder come and go together, a row that does not     *)
(* exist is blank, and a runner that may still start an attempt has one     *)
(* left: what keeps attempts, and the messages that name them, in range.    *)
RowsOK == \A j \in Job :
  /\ jobs[j].status = "absent" => jobs[j].attempt = 0 /\ jobs[j].builder = NoBuilder
  /\ jobs[j].builder # NoBuilder => jobs[j].attempt # 0

RunnersOK == \A j \in Job :
  /\ runner[j] \in {"check", "reserve"} => jobs[j].attempt < MaxAttempts
  /\ runner[j] \in {"send", "poll", "expire"} =>
       jobs[j].builder \in Builders /\ jobs[j].attempt \in Attempt

ReapingOK == \A r \in reaping : r.builder # NoBuilder => r.attempt # 0

IndInv == TypeOK /\ RowsOK /\ RunnersOK /\ ReapingOK

-----------------------------------------------------------------------------
LEMMA SentType ==
  ASSUME NEW M, NEW channel \in SUBSET M, NEW messages \in SUBSET M
  PROVE  \A c \in Sent(channel, messages) : c \in SUBSET M
BY DEF Sent

LEMMA JobParts ==
  /\ \A j \in Job : j[1] \in Deployments /\ j[2] \in Platforms
  /\ \A d \in Deployments, p \in Platforms : <<d, p>> \in Job
BY DEF Job

LEMMA CloseType ==
  ASSUME NEW row \in JobRow, NEW s \in JobStatus
  PROVE  /\ Close(row, s) \in JobRow
         /\ Close(row, s).attempt = row.attempt
         /\ Close(row, s).builder = row.builder
         /\ Close(row, s).digest = row.digest
         /\ Close(row, s).status = s
BY DEF Close, JobRow, Lease

LEMMA InitIndInv == Init => IndInv
<1> SUFFICES ASSUME Init PROVE IndInv
  OBVIOUS
<1> USE NoneAssumption, AttemptsAssumption, BoundsAssumption
<1>1. PICK b \in Builders :
        jobs = [j \in Job |-> IF j[1] \in Past THEN PastRow(j, b) ELSE NoRow]
  BY DEF Init, CoordInit
<1>2. NoRow \in JobRow
  BY DEF NoRow, JobRow, JobStatus, Lease
<1>3. ASSUME NEW j \in Job PROVE PastRow(j, b) \in JobRow
  BY DEF PastRow, JobRow, JobStatus, Lease, Closed, Built, Digest, Attempt
<1>4. jobs \in [Job -> JobRow]
  BY <1>1, <1>2, <1>3
<1>5. TypeOK
  BY <1>4 DEF Init, CoordInit, ExecutorInit, TypeOK, CoordTypeOK, ExecutorTypeOK, MessagesTypeOK,
     DeploymentStatus, BuildStep, RunnerStep, OperatorStep
<1>6. RowsOK
  BY <1>1 DEF RowsOK, NoRow, PastRow
<1>7. RunnersOK /\ ReapingOK
  BY DEF RunnersOK, ReapingOK, Init, CoordInit
<1> QED
  BY <1>5, <1>6, <1>7 DEF IndInv

-----------------------------------------------------------------------------
(* The control plane's steps.                                               *)

(* A row that keeps its attempt and its builder keeps what the rows and the *)
(* runners rely on.                                                         *)
KeepsOwner == \A j \in Job :
  /\ jobs'[j].attempt = jobs[j].attempt
  /\ jobs'[j].builder = jobs[j].builder
  /\ jobs'[j].status = "absent" => jobs[j].status = "absent"

LEMMA KeepsOwnerRows ==
  ASSUME RowsOK, KeepsOwner
  PROVE  RowsOK' /\ (RunnersOK /\ runner' = runner => RunnersOK')
BY DEF RowsOK, RunnersOK, KeepsOwner

(* cancel() and the statements of the reaper close rows and send messages   *)
(* to the builders they name.                                               *)
LEMMA SweepRowsType ==
  ASSUME NEW d \in Deployments, IndInv, SweepRows(d)
  PROVE  /\ jobs' \in [Job -> JobRow]
         /\ KeepsOwner
         /\ toAgent' \in SUBSET ToAgentMessage
<1> DEFINE swept == {j \in Job : j[1] = d /\ jobs[j].status \in Open}
           told == {ToAgent("cancel", j, jobs[j].attempt, jobs[j].builder) :
                      j \in {k \in swept : jobs[k].builder # NoBuilder}}
<1>1. jobs' = [j \in Job |-> IF j \in swept THEN Close(jobs[j], "cancelled") ELSE jobs[j]]
  BY DEF SweepRows
<1>2. jobs \in [Job -> JobRow]
  BY DEF IndInv, TypeOK, CoordTypeOK
<1>3. "cancelled" \in JobStatus
  BY DEF JobStatus, Closed
<1>4. jobs' \in [Job -> JobRow]
  BY <1>1, <1>2, <1>3, CloseType
<1>5. KeepsOwner
  BY <1>1, <1>2, <1>3, CloseType DEF KeepsOwner
<1>6. told \subseteq ToAgentMessage
  BY <1>2, AttemptsAssumption DEF IndInv, RowsOK, JobRow, ToAgentMessage, ToAgent, Attempt
<1>7. toAgent' \in Sent(toAgent, told)
  BY DEF SweepRows
<1>8. toAgent \subseteq ToAgentMessage
  BY DEF IndInv, TypeOK, MessagesTypeOK
<1> HIDE DEF told
<1>9. toAgent' \in SUBSET ToAgentMessage
  BY <1>6, <1>7, <1>8, SentType
<1> QED
  BY <1>4, <1>5, <1>9

(* The steps of build() that leave the rows alone.                          *)
LEMMA BuildStepPlain ==
  ASSUME IndInv, UNCHANGED tasks, NEW d \in Deployments,
         \/ Admit(d) \/ EnterFlight(d) \/ LeaveLoop(d) \/ Settle(d) \/ MergeFails(d)
         \/ Merge(d) \/ LeaveFlight(d) \/ Forget(d) \/ FinishDeploy(d)
  PROVE  IndInv'
<1>1. /\ jobs' = jobs /\ runner' = runner /\ reaping' = reaping
      /\ UNCHANGED <<excluded, handlers, operator, restarts, tasks, toAgent, toControl>>
  BY DEF Admit, EnterFlight, LeaveLoop, Settle, MergeFails, Merge, LeaveFlight, Forget,
     FinishDeploy, BuildGoto, rows, sets, tasksOfLoop
<1>2. RowsOK' /\ RunnersOK' /\ ReapingOK'
  BY <1>1 DEF IndInv, RowsOK, RunnersOK, ReapingOK
<1>3. building' \in [Deployments -> BuildStep]
  <2>1. \E step \in BuildStep : BuildGoto(d, step)
    BY DEF Admit, EnterFlight, LeaveLoop, Settle, MergeFails, Merge, LeaveFlight, Forget,
       FinishDeploy, BuildStep
  <2> QED
    BY <2>1 DEF BuildGoto, IndInv, TypeOK, CoordTypeOK
<1>4. deployment' \in [Deployments -> DeploymentStatus]
  BY DEF Admit, EnterFlight, LeaveLoop, Settle, MergeFails, Merge, LeaveFlight, Forget,
     FinishDeploy, rows, IndInv, TypeOK, CoordTypeOK, DeploymentStatus
<1>5. inFlight' \subseteq Deployments /\ cancelled' \subseteq Deployments /\ built' \subseteq Deployments
  BY DEF Admit, EnterFlight, LeaveLoop, Settle, MergeFails, Merge, LeaveFlight, Forget,
     FinishDeploy, rows, sets, IndInv, TypeOK, CoordTypeOK
<1>6. TypeOK'
  BY <1>1, <1>3, <1>4, <1>5 DEF IndInv, TypeOK, CoordTypeOK, ExecutorTypeOK, MessagesTypeOK
<1> QED
  BY <1>2, <1>6 DEF IndInv

(* The steps of build() that write rows.                                    *)
LEMMA BuildStepRows ==
  ASSUME IndInv, UNCHANGED tasks, NEW d \in Deployments,
         \/ \E p \in Platforms : InsertJob(d, p) \/ ReuseDigest(d, p)
         \/ SweepBuild(d)
  PROVE  IndInv'
<1> USE AttemptsAssumption
<1>1. ASSUME NEW p \in Platforms, InsertJob(d, p) PROVE IndInv'
  <2> DEFINE j == <<d, p>>
  <2>1. j \in Job
    BY JobParts
  <2> HIDE DEF j
  <2>2. /\ jobs' = [jobs EXCEPT ![j].status = "queued"]
        /\ runner' = [runner EXCEPT ![j] = "check"]
        /\ jobs[j].status = "absent"
        /\ UNCHANGED <<deployment, sets, built, excluded, tasksOfLoop, toAgent, toControl>>
    BY <1>1 DEF InsertJob, Goto, j
  <2>3. building' \in [Deployments -> BuildStep]
    BY <1>1 DEF InsertJob, BuildGoto, NextStep, IndInv, TypeOK, CoordTypeOK, BuildStep
  <2>4. jobs' \in [Job -> JobRow] /\ runner' \in [Job -> RunnerStep]
    BY <2>1, <2>2 DEF IndInv, TypeOK, CoordTypeOK, JobRow, JobStatus, RunnerStep
  <2>5. TypeOK'
    BY <2>2, <2>3, <2>4 DEF IndInv, TypeOK, CoordTypeOK, ExecutorTypeOK, MessagesTypeOK, sets, tasksOfLoop
  <2>6. \A k \in Job : /\ jobs'[k].attempt = jobs[k].attempt
                       /\ jobs'[k].builder = jobs[k].builder
                       /\ jobs'[k].status = "absent" => jobs[k].status = "absent"
    BY <2>1, <2>2 DEF IndInv, TypeOK, CoordTypeOK, JobRow
  <2>7. RowsOK'
    BY <2>6 DEF IndInv, RowsOK
  <2>8. RunnersOK'
    BY <2>1, <2>2, <2>6 DEF IndInv, RowsOK, RunnersOK, TypeOK, CoordTypeOK, JobRow
  <2> QED
    BY <2>2, <2>5, <2>7, <2>8 DEF IndInv, ReapingOK, tasksOfLoop
<1>2. ASSUME NEW p \in Platforms, ReuseDigest(d, p) PROVE IndInv'
  <2> DEFINE j == <<d, p>>
  <2>1. j \in Job
    BY JobParts
  <2> HIDE DEF j
  <2>2. PICK k \in Job :
          jobs' = [jobs EXCEPT ![j].status = "succeeded", ![j].digest = jobs[k].digest]
    BY <1>2 DEF ReuseDigest, j
  <2>3. /\ runner' = [runner EXCEPT ![j] = "resolved"]
        /\ UNCHANGED <<deployment, sets, built, excluded, tasksOfLoop, toAgent, toControl>>
    BY <1>2 DEF ReuseDigest, Goto, j
  <2>4. building' \in [Deployments -> BuildStep]
    BY <1>2 DEF ReuseDigest, BuildGoto, NextStep, IndInv, TypeOK, CoordTypeOK, BuildStep
  <2>5. jobs' \in [Job -> JobRow] /\ runner' \in [Job -> RunnerStep]
    <3>1. jobs \in [Job -> JobRow] /\ runner \in [Job -> RunnerStep]
      BY DEF IndInv, TypeOK, CoordTypeOK
    <3>2. [jobs[j] EXCEPT !.status = "succeeded", !.digest = jobs[k].digest] \in JobRow
      BY <2>1, <3>1 DEF JobRow, JobStatus, Closed
    <3>3. jobs' \in [Job -> JobRow]
      BY <2>1, <2>2, <3>1, <3>2
    <3> QED
      BY <2>1, <2>3, <3>1, <3>3 DEF RunnerStep
  <2>6. TypeOK'
    BY <2>3, <2>4, <2>5 DEF IndInv, TypeOK, CoordTypeOK, ExecutorTypeOK, MessagesTypeOK, sets, tasksOfLoop
  <2>7. \A i \in Job : /\ jobs'[i].attempt = jobs[i].attempt
                       /\ jobs'[i].builder = jobs[i].builder
                       /\ jobs'[i].status = "absent" => jobs[i].status = "absent"
    BY <2>1, <2>2 DEF IndInv, TypeOK, CoordTypeOK, JobRow
  <2>8. RowsOK'
    BY <2>7 DEF IndInv, RowsOK
  <2>9. RunnersOK'
    BY <2>1, <2>3, <2>7 DEF IndInv, RunnersOK, TypeOK, CoordTypeOK
  <2> QED
    BY <2>3, <2>6, <2>8, <2>9 DEF IndInv, ReapingOK, tasksOfLoop
<1>3. ASSUME SweepBuild(d) PROVE IndInv'
  <2>1. SweepRows(d)
    BY <1>3 DEF SweepBuild
  <2>2. UNCHANGED <<deployment, sets, built, runner, excluded, tasksOfLoop, toControl>>
    BY <1>3 DEF SweepBuild
  <2>3. building' \in [Deployments -> BuildStep]
    BY <1>3 DEF SweepBuild, BuildGoto, IndInv, TypeOK, CoordTypeOK, BuildStep
  <2>4. TypeOK'
    BY <2>1, <2>2, <2>3, SweepRowsType
       DEF IndInv, TypeOK, CoordTypeOK, ExecutorTypeOK, MessagesTypeOK, sets, tasksOfLoop
  <2>5. RowsOK' /\ RunnersOK'
    BY <2>1, <2>2, SweepRowsType, KeepsOwnerRows DEF IndInv
  <2> QED
    BY <2>2, <2>4, <2>5 DEF IndInv, ReapingOK, tasksOfLoop
<1> QED
  BY <1>1, <1>2, <1>3

(* The steps of a runner that leave its row alone.                          *)
LEMMA RunnerStepPlain ==
  ASSUME IndInv, UNCHANGED tasks, NEW j \in Job,
         \/ CheckCancelled(j) \/ ReserveFails(j) \/ PrepareFails(j) \/ SendAssignment(j)
         \/ PollSucceeded(j) \/ PollClosed(j) \/ PollExpired(j) \/ PollDeadline(j) \/ MarkSiblings(j)
  PROVE  IndInv'
<1> USE DEF PollExpired, PollDeadline
<1>1. UNCHANGED <<rows, inFlight, building, built, excluded, tasksOfLoop, toControl>>
  BY DEF CheckCancelled, ReserveFails, PrepareFails, SendAssignment, PollSucceeded, PollClosed, GiveUp,
     MarkSiblings, sets
<1>2. PICK step \in RunnerStep : runner' = [runner EXCEPT ![j] = step]
  BY DEF CheckCancelled, ReserveFails, PrepareFails, SendAssignment, PollSucceeded, PollClosed, GiveUp,
     MarkSiblings, Goto, RunnerStep
<1>3. runner' \in [Job -> RunnerStep]
  BY <1>2 DEF IndInv, TypeOK, CoordTypeOK
<1>4. /\ step \in {"check", "reserve"} => jobs[j].attempt < MaxAttempts
      /\ step \in {"send", "poll", "expire"} =>
           jobs[j].builder \in Builders /\ jobs[j].attempt \in Attempt
  <2>1. runner'[j] = step
    BY <1>2 DEF IndInv, TypeOK, CoordTypeOK
  <2> QED
    BY <2>1 DEF CheckCancelled, ReserveFails, PrepareFails, SendAssignment, PollSucceeded, PollClosed, GiveUp,
       MarkSiblings, Goto, IndInv, TypeOK, CoordTypeOK, RunnersOK
<1>5. RunnersOK'
  BY <1>1, <1>2, <1>4 DEF IndInv, RunnersOK, TypeOK, CoordTypeOK, rows
<1>6. RowsOK' /\ ReapingOK'
  BY <1>1 DEF IndInv, RowsOK, ReapingOK, rows, tasksOfLoop
<1>7. toAgent' \in SUBSET ToAgentMessage
  <2>1. \A type \in {"assign", "cancel", "receipt"} : runner[j] \in {"send", "poll"} =>
          {ToAgent(type, j, jobs[j].attempt, jobs[j].builder)} \subseteq ToAgentMessage
    BY DEF IndInv, RunnersOK, ToAgent, ToAgentMessage
  <2>2. toAgent \subseteq ToAgentMessage
    BY DEF IndInv, TypeOK, MessagesTypeOK
  <2>3. CASE SendAssignment(j)
    BY <2>1, <2>2, <2>3, SentType DEF SendAssignment
  <2>4. CASE GiveUp(j)
    BY <2>1, <2>2, <2>4, SentType DEF GiveUp
  <2>5. CASE UNCHANGED toAgent
    BY <2>2, <2>5
  <2> QED
    BY <2>3, <2>4, <2>5 DEF CheckCancelled, ReserveFails, PrepareFails, PollSucceeded, PollClosed, MarkSiblings
<1>8. cancelled' \subseteq Deployments
  BY DEF CheckCancelled, ReserveFails, PrepareFails, SendAssignment, PollSucceeded, PollClosed, GiveUp,
     MarkSiblings, MarkCancelled, sets, IndInv, TypeOK, CoordTypeOK
<1>9. TypeOK'
  BY <1>1, <1>3, <1>7, <1>8
     DEF IndInv, TypeOK, CoordTypeOK, ExecutorTypeOK, MessagesTypeOK, rows, tasksOfLoop
<1> QED
  BY <1>5, <1>6, <1>9 DEF IndInv

(* The row an assignment makes of a row.                                    *)
Reserved(row, b) == [status |-> "assigned", attempt |-> row.attempt + 1, builder |-> b,
                     lease |-> "live", digest |-> row.digest]

(* The steps of a runner that write rows.                                   *)
LEMMA RunnerStepRows ==
  ASSUME IndInv, UNCHANGED tasks, NEW j \in Job,
         Reserve(j) \/ SendFails(j) \/ ExpireAttempt(j) \/ FailJob(j) \/ SweepSiblings(j)
  PROVE  IndInv'
<1> USE AttemptsAssumption
<1>0. jobs \in [Job -> JobRow] /\ runner \in [Job -> RunnerStep]
  BY DEF IndInv, TypeOK, CoordTypeOK
<1>1. ASSUME Reserve(j) PROVE IndInv'
  <2>1. PICK b \in Builders :
          jobs' = [jobs EXCEPT ![j].status = "assigned", ![j].builder = b,
                               ![j].attempt = @ + 1, ![j].lease = "live"]
    BY <1>1, JobParts, CapableAssumption DEF Reserve, Eligible
  <2>2. /\ runner' = [runner EXCEPT ![j] = "send"] /\ runner[j] = "reserve"
        /\ UNCHANGED <<deployment, sets, building, built, excluded, tasksOfLoop, toAgent, toControl>>
    BY <1>1 DEF Reserve, Goto
  <2>3. jobs[j].attempt + 1 \in Attempt
    BY <1>0, <2>2 DEF IndInv, RunnersOK, JobRow, Attempt
  <2>4. /\ jobs' = [jobs EXCEPT ![j] = Reserved(jobs[j], b)]
        /\ Reserved(jobs[j], b) \in JobRow
    BY <1>0, <2>1, <2>3 DEF Reserved, JobRow, JobStatus, Active, Lease, Attempt
  <2>5. jobs' \in [Job -> JobRow]
    BY <1>0, <2>4
  <2>6. runner' \in [Job -> RunnerStep]
    BY <1>0, <2>2 DEF RunnerStep
  <2>7. TypeOK'
    BY <2>2, <2>5, <2>6 DEF IndInv, TypeOK, CoordTypeOK, ExecutorTypeOK, MessagesTypeOK, sets, tasksOfLoop
  <2>8. /\ jobs'[j].status = "assigned" /\ jobs'[j].attempt = jobs[j].attempt + 1
        /\ jobs'[j].builder = b
        /\ \A k \in Job \ {j} : jobs'[k] = jobs[k]
    BY <1>0, <2>4 DEF Reserved
  <2>9. RowsOK'
    BY <2>3, <2>8 DEF IndInv, RowsOK, Attempt
  <2>10. RunnersOK'
    BY <1>0, <2>2, <2>3, <2>8 DEF IndInv, RunnersOK
  <2> QED
    BY <2>2, <2>7, <2>9, <2>10 DEF IndInv, ReapingOK, tasksOfLoop
<1>2. ASSUME SendFails(j) PROVE IndInv'
  <2>1. /\ jobs' = [jobs EXCEPT ![j].lease = "epoch"]
        /\ runner' = [runner EXCEPT ![j] = "poll"] /\ runner[j] = "send"
        /\ UNCHANGED <<deployment, sets, building, built, excluded, tasksOfLoop, toAgent, toControl>>
    BY <1>2 DEF SendFails, Goto
  <2>2. jobs' \in [Job -> JobRow] /\ KeepsOwner
    BY <1>0, <2>1 DEF JobRow, Lease, KeepsOwner
  <2>3. runner' \in [Job -> RunnerStep]
    BY <1>0, <2>1 DEF RunnerStep
  <2>4. TypeOK'
    BY <2>1, <2>2, <2>3 DEF IndInv, TypeOK, CoordTypeOK, ExecutorTypeOK, MessagesTypeOK, sets, tasksOfLoop
  <2>5. RowsOK' /\ RunnersOK'
    BY <1>0, <2>1, <2>2, KeepsOwnerRows DEF IndInv, RunnersOK, KeepsOwner
  <2> QED
    BY <2>1, <2>4, <2>5 DEF IndInv, ReapingOK, tasksOfLoop
<1>3. ASSUME ExpireAttempt(j) \/ FailJob(j) PROVE IndInv'
  <2>1. PICK s \in JobStatus \ {"absent"} :
          jobs' = jobs \/ jobs' = [jobs EXCEPT ![j] = Close(@, s)]
    BY <1>0, <1>3 DEF ExpireAttempt, FailJob, JobStatus, Closed
  <2>2. jobs' \in [Job -> JobRow] /\ KeepsOwner
    BY <1>0, <2>1, CloseType DEF KeepsOwner
  <2>3. /\ UNCHANGED <<deployment, sets, building, built, tasksOfLoop, toAgent, toControl>>
        /\ \E step \in {"check", "fail", "mark"} :
             /\ runner' = [runner EXCEPT ![j] = step]
             /\ step = "check" => jobs[j].attempt < MaxAttempts
    BY <1>3 DEF ExpireAttempt, FailJob, Goto
  <2>4. excluded' \in [Job -> SUBSET Builders]
    BY <1>3 DEF ExpireAttempt, FailJob, IndInv, TypeOK, CoordTypeOK, RunnersOK
  <2>5. runner' \in [Job -> RunnerStep]
    BY <1>0, <2>3 DEF RunnerStep
  <2>6. TypeOK'
    BY <2>2, <2>3, <2>4, <2>5 DEF IndInv, TypeOK, CoordTypeOK, ExecutorTypeOK, MessagesTypeOK, sets, tasksOfLoop
  <2>7. RowsOK' /\ RunnersOK'
    BY <1>0, <2>2, <2>3, KeepsOwnerRows DEF IndInv, RunnersOK, KeepsOwner
  <2> QED
    BY <2>3, <2>6, <2>7 DEF IndInv, ReapingOK, tasksOfLoop
<1>4. ASSUME SweepSiblings(j) PROVE IndInv'
  <2>1. SweepRows(j[1]) /\ j[1] \in Deployments
    BY <1>4, JobParts DEF SweepSiblings
  <2>2. /\ runner' = [runner EXCEPT ![j] = "rejected"]
        /\ UNCHANGED <<deployment, sets, building, built, excluded, tasksOfLoop, toControl>>
    BY <1>4 DEF SweepSiblings, Goto
  <2>3. runner' \in [Job -> RunnerStep]
    BY <1>0, <2>2 DEF RunnerStep
  <2>4. TypeOK'
    BY <2>1, <2>2, <2>3, SweepRowsType
       DEF IndInv, TypeOK, CoordTypeOK, ExecutorTypeOK, MessagesTypeOK, sets, tasksOfLoop
  <2>5. RowsOK' /\ RunnersOK'
    BY <1>0, <2>1, <2>2, SweepRowsType, KeepsOwnerRows DEF IndInv, RunnersOK, KeepsOwner
  <2> QED
    BY <2>2, <2>4, <2>5 DEF IndInv, ReapingOK, tasksOfLoop
<1> QED
  BY <1>1, <1>2, <1>3, <1>4

(* What handleMessage() does with an event.                                 *)
LEMMA HandlerStepTypes ==
  ASSUME IndInv, UNCHANGED tasks, ReceiveEvent \/ HandleRenew \/ HandleResult
  PROVE  IndInv'
<1> USE AttemptsAssumption
<1>0. /\ jobs \in [Job -> JobRow] /\ handlers \subseteq Event
      /\ toControl \subseteq Event /\ toAgent \in SUBSET ToAgentMessage
  BY DEF IndInv, TypeOK, CoordTypeOK, MessagesTypeOK
<1>1. \A e \in Event, type \in {"assign", "cancel", "receipt"} :
        {ToAgent(type, e.job, e.attempt, e.builder)} \subseteq ToAgentMessage
  BY DEF Event, ToAgent, ToAgentMessage
<1>2. UNCHANGED <<deployment, sets, calls, reaping, operator, restarts, tasks>>
  BY DEF ReceiveEvent, HandleRenew, HandleResult, rows
<1>3. handlers' \subseteq Event /\ toControl' \subseteq Event
  BY <1>0 DEF ReceiveEvent, HandleRenew, HandleResult
<1>4. toAgent' \in SUBSET ToAgentMessage
  <2>1. CASE UNCHANGED toAgent
    BY <1>0, <2>1
  <2>2. CASE \E e \in Event, type \in {"assign", "cancel", "receipt"} :
               toAgent' \in Sent(toAgent, {ToAgent(type, e.job, e.attempt, e.builder)})
    BY <1>0, <1>1, <2>2, SentType
  <2> QED
    BY <1>0, <2>1, <2>2 DEF ReceiveEvent, HandleRenew, HandleResult
<1>5. jobs' \in [Job -> JobRow] /\ KeepsOwner
  <2>1. CASE jobs' = jobs
    BY <1>0, <2>1 DEF KeepsOwner
  <2>2. CASE \E e \in Event :
               jobs' = [jobs EXCEPT ![e.job].status = "running", ![e.job].lease = "live"]
    BY <1>0, <2>2 DEF Event, JobRow, JobStatus, Active, Lease, KeepsOwner
  <2>3. CASE \E e \in Event : e.status \in Outcome /\ jobs' = [jobs EXCEPT ![e.job] = Recorded(@, e)]
    <3>1. PICK e \in Event :
            e.status \in Outcome /\ jobs' = [jobs EXCEPT ![e.job] = Recorded(@, e)]
      BY <2>3
    <3>2. e.job \in Job /\ e.attempt \in Attempt /\ e.builder \in Builders /\ e.status \in JobStatus
      BY <3>1 DEF Event, Outcome, JobStatus, Closed
    <3>3. Built(e.job, e.attempt, e.builder) \in Digest
      BY <3>2 DEF Built, Digest
    <3>4. jobs[e.job] \in JobRow
      BY <1>0, <3>2
    <3>5. /\ Recorded(jobs[e.job], e) \in JobRow
          /\ Recorded(jobs[e.job], e).attempt = jobs[e.job].attempt
          /\ Recorded(jobs[e.job], e).builder = jobs[e.job].builder
          /\ Recorded(jobs[e.job], e).status = e.status
      <4> DEFINE row == Close(jobs[e.job], e.status)
      <4>1. /\ row \in JobRow /\ row.attempt = jobs[e.job].attempt
            /\ row.builder = jobs[e.job].builder /\ row.status = e.status
        BY <3>2, <3>4, CloseType
      <4>2. Recorded(jobs[e.job], e) = [row EXCEPT !.digest =
              IF e.status = "succeeded" THEN Built(e.job, e.attempt, e.builder) ELSE NoDigest]
        BY DEF Recorded
      <4> HIDE DEF row
      <4> QED
        BY <4>1, <4>2, <3>3 DEF JobRow
    <3>6. e.status # "absent"
      BY <3>1 DEF Outcome
    <3> QED
      BY <1>0, <3>1, <3>2, <3>5, <3>6 DEF KeepsOwner
  <2>4. HandleResult => jobs' = jobs \/ \E e \in Event :
          e.status \in Outcome /\ jobs' = [jobs EXCEPT ![e.job] = Recorded(@, e)]
    BY <1>0 DEF HandleResult, Event
  <2>5. HandleRenew => jobs' = jobs \/ \E e \in Event :
          jobs' = [jobs EXCEPT ![e.job].status = "running", ![e.job].lease = "live"]
    BY <1>0 DEF HandleRenew
  <2>6. ReceiveEvent => jobs' = jobs
    BY DEF ReceiveEvent, rows
  <2> QED
    BY <2>1, <2>2, <2>3, <2>4, <2>5, <2>6
<1>6. TypeOK'
  BY <1>2, <1>3, <1>4, <1>5
     DEF IndInv, TypeOK, CoordTypeOK, ExecutorTypeOK, MessagesTypeOK, sets, calls
<1>7. RowsOK' /\ RunnersOK' /\ ReapingOK'
  BY <1>2, <1>5, KeepsOwnerRows DEF IndInv, ReapingOK, calls
<1> QED
  BY <1>6, <1>7 DEF IndInv

(* The passes of reapOrphans().                                             *)
LEMMA ReaperStepTypes ==
  ASSUME IndInv, UNCHANGED tasks, ReapScan \/ ReaperStep
  PROVE  IndInv'
<1> USE AttemptsAssumption
<1>0. /\ jobs \in [Job -> JobRow] /\ deployment \in [Deployments -> DeploymentStatus]
      /\ reaping \subseteq Reap /\ toAgent \in SUBSET ToAgentMessage
  BY DEF IndInv, TypeOK, CoordTypeOK, MessagesTypeOK
<1>1. UNCHANGED <<sets, calls, handlers, operator, restarts, toControl, tasks>>
  BY DEF ReapScan, ReaperStep, ReapSkip, ReapRow, ReapDeployment
<1>2. deployment' \in [Deployments -> DeploymentStatus]
  BY <1>0 DEF ReapScan, ReaperStep, ReapSkip, ReapRow, ReapDeployment, rows, DeploymentStatus
<1>3. jobs' \in [Job -> JobRow] /\ KeepsOwner
  <2>1. CASE jobs' = jobs
    BY <1>0, <2>1 DEF KeepsOwner
  <2>2. CASE \E j \in Job : jobs' = [jobs EXCEPT ![j].status = "timed_out"]
    BY <1>0, <2>2 DEF JobRow, JobStatus, KeepsOwner
  <2>3. ReapRow => jobs' = jobs \/ \E j \in Job : jobs' = [jobs EXCEPT ![j].status = "timed_out"]
    BY <1>0 DEF ReapRow, Reap
  <2> QED
    BY <2>1, <2>2, <2>3 DEF ReapScan, ReaperStep, ReapSkip, ReapDeployment, rows
<1>4. reaping' \subseteq Reap /\ ReapingOK'
  <2>1. CASE reaping' \subseteq reaping
    BY <1>0, <2>1 DEF IndInv, ReapingOK
  <2>2. CASE ReapScan
    <3>1. reaping' \subseteq
            {[job |-> j, attempt |-> jobs[j].attempt, builder |-> jobs[j].builder,
              at |-> "row"] : j \in {k \in Job : Suspect(jobs[k])}}
      BY <2>2 DEF ReapScan
    <3>2. \A r \in reaping' : r \in Reap /\ (r.builder # NoBuilder => r.attempt # 0)
      BY <1>0, <3>1 DEF Reap, JobRow, IndInv, RowsOK
    <3> QED
      BY <3>2 DEF ReapingOK
  <2>3. CASE \E r \in reaping :
               reaping' = (reaping \ {r}) \union {[r EXCEPT !.at = "deployment"]}
    <3>1. PICK r \in reaping : reaping' = (reaping \ {r}) \union {[r EXCEPT !.at = "deployment"]}
      BY <2>3
    <3>2. LET q == [r EXCEPT !.at = "deployment"]
          IN  q \in Reap /\ q.attempt = r.attempt /\ q.builder = r.builder
      BY <1>0, <3>1 DEF Reap
    <3> QED
      BY <1>0, <3>1, <3>2 DEF IndInv, ReapingOK
  <2> QED
    BY <2>1, <2>2, <2>3 DEF ReaperStep, ReapSkip, ReapRow, ReapDeployment
<1>5. toAgent' \in SUBSET ToAgentMessage
  <2>1. ASSUME NEW r \in reaping, r.builder # NoBuilder
        PROVE  {ToAgent("cancel", r.job, r.attempt, r.builder)} \subseteq ToAgentMessage
    BY <1>0, <2>1 DEF IndInv, ReapingOK, Reap, ToAgent, ToAgentMessage, Attempt
  <2>2. CASE UNCHANGED toAgent
    BY <1>0, <2>2
  <2>3. CASE \E r \in reaping : r.builder # NoBuilder /\
               toAgent' \in Sent(toAgent, {ToAgent("cancel", r.job, r.attempt, r.builder)})
    BY <1>0, <2>1, <2>3, SentType
  <2> QED
    BY <2>2, <2>3 DEF ReapScan, ReaperStep, ReapSkip, ReapRow, ReapDeployment
<1>6. TypeOK'
  BY <1>1, <1>2, <1>3, <1>4, <1>5
     DEF IndInv, TypeOK, CoordTypeOK, ExecutorTypeOK, MessagesTypeOK, sets, calls
<1>7. RowsOK' /\ RunnersOK'
  BY <1>1, <1>3, KeepsOwnerRows DEF IndInv, calls
<1> QED
  BY <1>4, <1>6, <1>7 DEF IndInv

(* An operator's cancel, failStaleBuilds(), the clock and a restart.        *)
LEMMA OutsideStepTypes ==
  ASSUME IndInv, UNCHANGED tasks,
         \/ \E d \in Deployments : CancelDeployment(d) \/ OperatorStepOf(d) \/ FailStaleBuild(d)
         \/ \E j \in Job : LeasePasses(j)
         \/ Restart
  PROVE  IndInv'
<1> USE AttemptsAssumption, BoundsAssumption
<1>0. jobs \in [Job -> JobRow]
  BY DEF IndInv, TypeOK, CoordTypeOK
<1>1. ASSUME NEW d \in Deployments, CancelDeployment(d) \/ CancelMark(d) \/ FailStaleBuild(d)
      PROVE  IndInv'
  <2>1. UNCHANGED <<jobs, inFlight, calls, handlers, reaping, restarts, toAgent, toControl, tasks>>
    BY <1>1 DEF CancelDeployment, CancelMark, FailStaleBuild, rows, sets, calls, tasksOfLoop
  <2>2. /\ deployment' \in [Deployments -> DeploymentStatus]
        /\ operator' \in [Deployments -> OperatorStep]
        /\ cancelled' \subseteq Deployments
    BY <1>1 DEF CancelDeployment, CancelMark, FailStaleBuild, MarkCancelled, rows, sets,
       tasksOfLoop, IndInv, TypeOK, CoordTypeOK, DeploymentStatus, OperatorStep
  <2>3. TypeOK'
    BY <2>1, <2>2 DEF IndInv, TypeOK, CoordTypeOK, ExecutorTypeOK, MessagesTypeOK, calls
  <2> QED
    BY <2>1, <2>3 DEF IndInv, RowsOK, RunnersOK, ReapingOK, calls
<1>2. ASSUME NEW d \in Deployments, CancelSweep(d) PROVE IndInv'
  <2>1. SweepRows(d)
    BY <1>2 DEF CancelSweep
  <2>2. UNCHANGED <<deployment, sets, calls, handlers, reaping, restarts, toControl>>
    BY <1>2 DEF CancelSweep
  <2>3. operator' \in [Deployments -> OperatorStep]
    BY <1>2 DEF CancelSweep, IndInv, TypeOK, CoordTypeOK, OperatorStep
  <2>4. TypeOK'
    BY <2>1, <2>2, <2>3, SweepRowsType
       DEF IndInv, TypeOK, CoordTypeOK, ExecutorTypeOK, MessagesTypeOK, sets, calls
  <2> QED
    BY <2>1, <2>2, <2>4, SweepRowsType, KeepsOwnerRows DEF IndInv, ReapingOK, calls
<1>3. ASSUME NEW j \in Job, LeasePasses(j) PROVE IndInv'
  <2>1. jobs' = [jobs EXCEPT ![j].lease = "passed"]
    BY <1>3 DEF LeasePasses
  <2>2. UNCHANGED <<deployment, sets, calls, tasksOfLoop, toAgent, toControl>>
    BY <1>3 DEF LeasePasses
  <2>3. jobs' \in [Job -> JobRow] /\ KeepsOwner
    BY <1>0, <2>1 DEF JobRow, Lease, KeepsOwner
  <2>4. TypeOK'
    BY <2>2, <2>3 DEF IndInv, TypeOK, CoordTypeOK, ExecutorTypeOK, MessagesTypeOK, sets, calls, tasksOfLoop
  <2> QED
    BY <2>2, <2>3, <2>4, KeepsOwnerRows DEF IndInv, ReapingOK, calls, tasksOfLoop
<1>4. ASSUME Restart PROVE IndInv'
  <2>1. TypeOK'
    BY <1>4 DEF Restart, rows, IndInv, TypeOK, CoordTypeOK, ExecutorTypeOK, MessagesTypeOK,
       BuildStep, RunnerStep, OperatorStep
  <2> QED
    BY <1>4, <2>1 DEF Restart, rows, IndInv, RowsOK, RunnersOK, ReapingOK
<1> QED
  BY <1>1, <1>2, <1>3, <1>4 DEF OperatorStepOf

-----------------------------------------------------------------------------
(* The agents' steps.                                                       *)
LEMMA ExecutorStepTypes ==
  ASSUME IndInv, UNCHANGED coordVars, ExecutorNext
  PROVE  IndInv'
<1>0. /\ tasks \in [Builders -> SUBSET Task]
      /\ toAgent \in SUBSET ToAgentMessage /\ toControl \in SUBSET Event
  BY DEF IndInv, TypeOK, ExecutorTypeOK, MessagesTypeOK
<1>1. PICK b \in Builders : ReceiveAssign(b) \/ ReceiveCancel(b) \/ ReceiveReceipt(b)
                            \/ FinishBuild(b) \/ Replay(b) \/ RestartAgent(b)
  BY DEF ExecutorNext
<1>2. ASSUME NEW t \in Task PROVE Report(b, t) \in Event
  BY DEF Report, EventOf, Event, Task, Outcome
<1>3. ASSUME NEW m \in ToAgentMessage, NEW s \in {"renew"} \union Outcome
      PROVE  EventOf(s, m.job, m.attempt, b) \in Event
  BY DEF EventOf, Event, ToAgentMessage
<1>4. tasks' \in [Builders -> SUBSET Task]
  <2>1. CASE ReceiveAssign(b)
    BY <1>0, <2>1 DEF ReceiveAssign, Task, ToAgentMessage
  <2>2. CASE ReceiveCancel(b)
    <3>1. PICK m \in toAgent : tasks' = [tasks EXCEPT ![b] =
            {IF t \in TasksOf(b, m) /\ t.state = "building"
               THEN [t EXCEPT !.state = "stopping"] ELSE t : t \in @}]
      BY <2>2 DEF ReceiveCancel
    <3>2. \A t \in tasks[b] : t \in Task /\ [t EXCEPT !.state = "stopping"] \in Task
      BY <1>0 DEF Task
    <3> QED
      BY <1>0, <3>1, <3>2
  <2>3. CASE ReceiveReceipt(b)
    BY <1>0, <2>3 DEF ReceiveReceipt
  <2>4. CASE FinishBuild(b)
    <3>1. PICK t \in Unfinished(b), s \in Outcome :
            tasks' = [tasks EXCEPT ![b] = (@ \ {t}) \union {[t EXCEPT !.state = s]}]
      BY <2>4 DEF FinishBuild
    <3>2. [t EXCEPT !.state = s] \in Task
      BY <1>0, <3>1 DEF Unfinished, Task
    <3> QED
      BY <1>0, <3>1, <3>2
  <2>5. CASE Replay(b) \/ RestartAgent(b)
    BY <1>0, <2>5 DEF Replay, RestartAgent
  <2> QED
    BY <1>1, <2>1, <2>2, <2>3, <2>4, <2>5
<1>5. toAgent' \in SUBSET ToAgentMessage
  BY <1>0, <1>1 DEF ReceiveAssign, ReceiveCancel, ReceiveReceipt, FinishBuild, Replay, RestartAgent
<1>6. toControl' \in SUBSET Event
  <2>1. CASE ReceiveAssign(b)
    <3>1. PICK m \in toAgent : \E sent \in SUBSET Event : toControl' \in Sent(toControl, sent)
      <4>1. PICK m \in toAgent :
              \/ toControl' \in Sent(toControl, {Report(b, t) : t \in TasksOf(b, m)})
              \/ toControl' \in Sent(toControl, {EventOf("failed", m.job, m.attempt, b)})
              \/ toControl' \in Sent(toControl, {EventOf("renew", m.job, m.attempt, b)})
        BY <2>1 DEF ReceiveAssign
      <4>2. {Report(b, t) : t \in TasksOf(b, m)} \in SUBSET Event
        BY <1>0, <1>2 DEF TasksOf
      <4>3. /\ {EventOf("failed", m.job, m.attempt, b)} \in SUBSET Event
            /\ {EventOf("renew", m.job, m.attempt, b)} \in SUBSET Event
        BY <1>0, <1>3 DEF Outcome
      <4> QED
        BY <4>1, <4>2, <4>3
    <3> QED
      BY <1>0, <3>1, SentType
  <2>2. CASE FinishBuild(b)
    <3>1. PICK t \in Unfinished(b), s \in Outcome :
            toControl' \in Sent(toControl, {EventOf(s, t.job, t.attempt, b)})
      BY <2>2 DEF FinishBuild
    <3>2. {EventOf(s, t.job, t.attempt, b)} \in SUBSET Event
      BY <1>0, <3>1 DEF Unfinished, Task, EventOf, Event
    <3> QED
      BY <1>0, <3>1, <3>2, SentType
  <2>3. CASE Replay(b)
    <3>1. PICK t \in tasks[b] : toControl' \in Sent(toControl, {Report(b, t)})
      BY <2>3 DEF Replay
    <3>2. {Report(b, t)} \in SUBSET Event
      BY <1>0, <1>2
    <3> QED
      BY <1>0, <3>1, <3>2, SentType
  <2>4. CASE UNCHANGED toControl
    BY <1>0, <2>4
  <2> QED
    BY <1>1, <2>1, <2>2, <2>3, <2>4 DEF ReceiveCancel, ReceiveReceipt, RestartAgent
<1>7. TypeOK'
  BY <1>4, <1>5, <1>6 DEF IndInv, TypeOK, CoordTypeOK, ExecutorTypeOK, MessagesTypeOK,
     coordVars, rows, sets, calls, tasksOfLoop
<1> QED
  BY <1>7 DEF IndInv, RowsOK, RunnersOK, ReapingOK, coordVars, rows, sets, calls, tasksOfLoop

-----------------------------------------------------------------------------
LEMMA StepIndInv == IndInv /\ [Next]_vars => IndInv'
<1> SUFFICES ASSUME IndInv, [Next]_vars PROVE IndInv'
  OBVIOUS
<1>1. CASE UNCHANGED vars
  BY <1>1 DEF vars, coordVars, rows, sets, calls, tasksOfLoop, IndInv, TypeOK, CoordTypeOK,
     ExecutorTypeOK, MessagesTypeOK, RowsOK, RunnersOK, ReapingOK
<1>2. CASE CoordNext /\ UNCHANGED tasks
  <2>1. ASSUME NEW d \in Deployments, BuildStepOf(d) PROVE IndInv'
    BY <1>2, <2>1, BuildStepPlain, BuildStepRows DEF BuildStepOf
  <2>2. ASSUME NEW j \in Job, RunnerStepOf(j) PROVE IndInv'
    BY <1>2, <2>2, RunnerStepPlain, RunnerStepRows DEF RunnerStepOf
  <2>3. CASE ReceiveEvent \/ HandlerStep
    BY <1>2, <2>3, HandlerStepTypes DEF HandlerStep
  <2>4. CASE ReapScan \/ ReaperStep
    BY <1>2, <2>4, ReaperStepTypes
  <2>5. CASE \/ \E d \in Deployments : CancelDeployment(d) \/ OperatorStepOf(d) \/ FailStaleBuild(d)
             \/ \E j \in Job : LeasePasses(j)
             \/ Restart
    BY <1>2, <2>5, OutsideStepTypes
  <2> QED
    BY <1>2, <2>1, <2>2, <2>3, <2>4, <2>5 DEF CoordNext
<1>3. CASE ExecutorNext /\ UNCHANGED coordVars
  BY <1>3, ExecutorStepTypes
<1> QED
  BY <1>1, <1>2, <1>3 DEF Next

(* Every state of a delegated build is one the types describe: attempts     *)
(* never exceed MaxAttempts, and every message names a real attempt and     *)
(* builder.                                                                 *)
THEOREM TypeCorrect == Spec => []TypeOK
<1>1. IndInv => TypeOK
  BY DEF IndInv
<1> QED
  BY InitIndInv, StepIndInv, <1>1, PTL DEF Spec
=============================================================================
