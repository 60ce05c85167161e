-------------------------- MODULE BuildMessageProofs -------------------------
(* What is proved of the messages between the control plane and its agents: *)
(* which attempt they may be about, and what a receipt may mean.            *)
EXTENDS BuildRowProofs

(* Every attempt that is named anywhere, with the builder it is named with: *)
(* in flight, on an agent, between the checks and the UPDATE of             *)
(* handleMessage(), and in the hands of the reaper.                         *)
TraceOf(m) == [job |-> m.job, attempt |-> m.attempt, builder |-> m.builder]
TaskTrace(b, t) == [job |-> t.job, attempt |-> t.attempt, builder |-> b]
RowTrace(j) == [job |-> j, attempt |-> jobs[j].attempt, builder |-> jobs[j].builder]

Known ==
  {TraceOf(m) : m \in toAgent} \union {TraceOf(e) : e \in toControl}
  \union {TraceOf(e) : e \in handlers}
  \union {TraceOf(r) : r \in {q \in reaping : q.builder # NoBuilder}}
  \union UNION {{TaskTrace(b, t) : t \in tasks[b]} : b \in Builders}

(* What an agent was told to build, has, or says: everything known but the  *)
(* cancel messages and receipts, and what makes them.                       *)
Spoken ==
  {TraceOf(m) : m \in {n \in toAgent : n.type = "assign"}}
  \union {TraceOf(e) : e \in toControl} \union {TraceOf(e) : e \in handlers}
  \union UNION {{TaskTrace(b, t) : t \in tasks[b]} : b \in Builders}

OfRows == {RowTrace(j) : j \in {k \in Job : jobs[k].builder # NoBuilder}}

(* Whatever is named of a job is an attempt its row has reached, the        *)
(* current one only with the row's builder, and one builder per attempt.    *)
Owned ==
  /\ \A x \in Known :
       /\ x.job \in Job /\ x.attempt \in Nat
       /\ x.attempt <= jobs[x.job].attempt
       /\ x.attempt = jobs[x.job].attempt => x.builder = jobs[x.job].builder
  /\ \A x, y \in Known : x.job = y.job /\ x.attempt = y.attempt => x.builder = y.builder

LEMMA OwnedAttempts == Owned => AttemptOwned
<1>1. Traces \subseteq Known
  BY DEF Traces, Known, TraceOf, TaskTrace
<1> QED
  BY <1>1 DEF Owned, AttemptOwned

LEMMA SentWithin ==
  ASSUME NEW channel, NEW messages, NEW c \in Sent(channel, messages)
  PROVE  c \subseteq channel \union messages
BY DEF Sent

(* What is known lies within S if each place where it can be does.          *)
LEMMA KnownWithin ==
  ASSUME NEW S,
         \A m \in toAgent' : TraceOf(m) \in S,
         \A e \in toControl' : TraceOf(e) \in S,
         \A e \in handlers' : TraceOf(e) \in S,
         \A r \in reaping' : r.builder # NoBuilder => TraceOf(r) \in S,
         \A b \in Builders : \A t \in tasks'[b] : TaskTrace(b, t) \in S
  PROVE  Known' \subseteq S
BY DEF Known, TraceOf, TaskTrace

LEMMA KnownPlaces ==
  /\ \A m \in toAgent \union toControl \union handlers : TraceOf(m) \in Known
  /\ \A r \in reaping : r.builder # NoBuilder => TraceOf(r) \in Known
  /\ \A b \in Builders : \A t \in tasks[b] : TaskTrace(b, t) \in Known
  /\ \A j \in Job : jobs[j].builder # NoBuilder => RowTrace(j) \in OfRows
BY DEF Known, OfRows

LEMMA SpokenWithin ==
  ASSUME NEW S,
         \A m \in toAgent' : m.type = "assign" => TraceOf(m) \in S,
         \A e \in toControl' : TraceOf(e) \in S,
         \A e \in handlers' : TraceOf(e) \in S,
         \A b \in Builders : \A t \in tasks'[b] : TaskTrace(b, t) \in S
  PROVE  Spoken' \subseteq S
BY DEF Spoken, TraceOf, TaskTrace

LEMMA SpokenPlaces ==
  /\ \A m \in toAgent : m.type = "assign" => TraceOf(m) \in Spoken
  /\ \A e \in toControl \union handlers : TraceOf(e) \in Spoken
  /\ \A b \in Builders : \A t \in tasks[b] : TaskTrace(b, t) \in Spoken
BY DEF Spoken

-----------------------------------------------------------------------------
(* No step names what was not known or is not a row's own: agents answer    *)
(* with what they were told, the control plane with what it was told, and   *)
(* all else is read from a row.                                             *)
Learns == Known' \subseteq Known \union OfRows

LEMMA NothingNew ==
  ASSUME toAgent' \subseteq toAgent, toControl' \subseteq toControl,
         handlers' \subseteq handlers, reaping' \subseteq reaping, UNCHANGED tasks
  PROVE  Learns
<1> DEFINE S == Known \union OfRows
<1>1. /\ \A m \in toAgent' : TraceOf(m) \in S
      /\ \A e \in toControl' : TraceOf(e) \in S
      /\ \A e \in handlers' : TraceOf(e) \in S
      /\ \A r \in reaping' : r.builder # NoBuilder => TraceOf(r) \in S
      /\ \A b \in Builders : \A t \in tasks'[b] : TaskTrace(b, t) \in S
  BY KnownPlaces
<1> HIDE DEF S
<1>2. Known' \subseteq S
  BY <1>1, KnownWithin
<1> QED
  BY <1>2 DEF Learns, S

(* Messages to agents.                                                      *)
LEMMA Tells ==
  ASSUME NEW messages, \A m \in messages : TraceOf(m) \in Known \union OfRows,
         toAgent' \in Sent(toAgent, messages),
         toControl' \subseteq toControl, handlers' \subseteq handlers,
         reaping' \subseteq reaping, UNCHANGED tasks
  PROVE  Learns
<1> DEFINE S == Known \union OfRows
<1>1. toAgent' \subseteq toAgent \union messages
  BY SentWithin
<1>2. /\ \A m \in toAgent' : TraceOf(m) \in S
      /\ \A e \in toControl' : TraceOf(e) \in S
      /\ \A e \in handlers' : TraceOf(e) \in S
      /\ \A r \in reaping' : r.builder # NoBuilder => TraceOf(r) \in S
      /\ \A b \in Builders : \A t \in tasks'[b] : TaskTrace(b, t) \in S
  BY <1>1, KnownPlaces
<1> HIDE DEF S
<1>3. Known' \subseteq S
  BY <1>2, KnownWithin
<1> QED
  BY <1>3 DEF Learns, S

(* Events of an agent, and the tasks it keeps.                              *)
LEMMA Reports ==
  ASSUME NEW messages, \A e \in messages : TraceOf(e) \in Spoken,
         toControl' \in Sent(toControl, messages), toAgent' \subseteq toAgent,
         \A b \in Builders : \A t \in tasks'[b] : TaskTrace(b, t) \in Spoken,
         UNCHANGED handlers
  PROVE  Spoken' \subseteq Spoken
<1> DEFINE S == Spoken
<1>1. toControl' \subseteq toControl \union messages
  BY SentWithin
<1>2. /\ \A m \in toAgent' : m.type = "assign" => TraceOf(m) \in S
      /\ \A e \in toControl' : TraceOf(e) \in S
      /\ \A e \in handlers' : TraceOf(e) \in S
      /\ \A b \in Builders : \A t \in tasks'[b] : TaskTrace(b, t) \in S
  BY <1>1, SpokenPlaces
<1> HIDE DEF S
<1>3. Spoken' \subseteq S
  BY <1>2, SpokenWithin
<1> QED
  BY <1>3 DEF S

LEMMA SweepTells ==
  ASSUME NEW d \in Deployments, SweepRows(d), toControl' = toControl,
         UNCHANGED <<handlers, reaping, tasks>>
  PROVE  Learns
<1> DEFINE swept == {j \in Job : j[1] = d /\ jobs[j].status \in Open}
           told == {ToAgent("cancel", j, jobs[j].attempt, jobs[j].builder) :
                      j \in {k \in swept : jobs[k].builder # NoBuilder}}
<1>1. toAgent' \in Sent(toAgent, told)
  BY DEF SweepRows
<1>2. \A m \in told : TraceOf(m) \in Known \union OfRows
  BY DEF ToAgent, TraceOf, OfRows, RowTrace
<1> HIDE DEF told
<1> QED
  BY <1>1, <1>2, Tells

LEMMA BuildStepLearns ==
  ASSUME UNCHANGED tasks, NEW d \in Deployments, BuildStepOf(d)
  PROVE  Learns
<1>1. CASE SweepBuild(d)
  BY <1>1, SweepTells DEF SweepBuild, tasksOfLoop
<1>2. CASE \/ Admit(d) \/ EnterFlight(d) \/ LeaveLoop(d)
           \/ \E p \in Platforms : InsertJob(d, p) \/ ReuseDigest(d, p)
           \/ Settle(d) \/ MergeFails(d) \/ Merge(d)
           \/ LeaveFlight(d) \/ Forget(d) \/ FinishDeploy(d)
  <2>1. UNCHANGED <<toAgent, toControl, handlers, reaping>>
    BY <1>2 DEF Admit, EnterFlight, LeaveLoop, InsertJob, ReuseDigest, Settle, MergeFails, Merge,
       LeaveFlight, Forget, FinishDeploy, tasksOfLoop
  <2> QED
    BY <2>1, NothingNew
<1> QED
  BY <1>1, <1>2 DEF BuildStepOf

LEMMA RunnerStepLearns ==
  ASSUME IndInv, UNCHANGED tasks, NEW j \in Job, RunnerStepOf(j)
  PROVE  Learns
<1>1. UNCHANGED <<toControl, handlers, reaping>>
  BY DEF RunnerStepOf, CheckCancelled, Reserve, ReserveFails, PrepareFails, SendAssignment,
     SendFails, PollSucceeded, PollClosed, PollExpired, PollDeadline, GiveUp, ExpireAttempt,
     FailJob, MarkSiblings, SweepSiblings, tasksOfLoop
<1>2. ASSUME NEW type, runner[j] \in {"send", "poll"},
             toAgent' \in Sent(toAgent, {ToAgent(type, j, jobs[j].attempt, jobs[j].builder)})
      PROVE  Learns
  <2>1. jobs[j].builder # NoBuilder
    BY <1>2, NoneAssumption DEF IndInv, RunnersOK
  <2>2. TraceOf(ToAgent(type, j, jobs[j].attempt, jobs[j].builder)) \in Known \union OfRows
    BY <2>1, KnownPlaces DEF TraceOf, ToAgent, RowTrace
  <2> QED
    BY <1>1, <1>2, <2>2, Tells
<1>3. CASE SendAssignment(j)
  BY <1>2, <1>3 DEF SendAssignment
<1>4. CASE PollExpired(j) \/ PollDeadline(j)
  BY <1>2, <1>4 DEF PollExpired, PollDeadline, GiveUp
<1>5. CASE SweepSiblings(j)
  BY <1>1, <1>5, SweepTells, JobParts DEF SweepSiblings
<1>6. CASE \/ CheckCancelled(j) \/ Reserve(j) \/ ReserveFails(j) \/ PrepareFails(j) \/ SendFails(j)
           \/ PollSucceeded(j) \/ PollClosed(j) \/ ExpireAttempt(j) \/ FailJob(j) \/ MarkSiblings(j)
  <2>1. UNCHANGED toAgent
    BY <1>6 DEF CheckCancelled, Reserve, ReserveFails, PrepareFails, SendFails, PollSucceeded,
       PollClosed, ExpireAttempt, FailJob, MarkSiblings
  <2> QED
    BY <1>1, <2>1, NothingNew
<1> QED
  BY <1>3, <1>4, <1>5, <1>6 DEF RunnerStepOf

LEMMA HandlerStepLearns ==
  ASSUME UNCHANGED tasks, ReceiveEvent \/ HandleRenew \/ HandleResult
  PROVE  Learns
<1>1. UNCHANGED reaping
  BY DEF ReceiveEvent, HandleRenew, HandleResult
<1>2. ASSUME NEW e \in toControl \union handlers, NEW type
      PROVE  \A m \in {ToAgent(type, e.job, e.attempt, e.builder)} : TraceOf(m) \in Known \union OfRows
  BY KnownPlaces DEF ToAgent, TraceOf
<1>3. CASE HandleRenew
  BY <1>1, <1>3, NothingNew DEF HandleRenew
<1>4. CASE HandleResult
  <2>1. PICK e \in handlers :
          /\ handlers' = handlers \ {e} /\ toControl' = toControl
          /\ toAgent' \in Sent(toAgent, {ToAgent("receipt", e.job, e.attempt, e.builder)})
    BY <1>4 DEF HandleResult
  <2> QED
    BY <1>1, <1>2, <2>1, Tells
<1>5. CASE ReceiveEvent
  <2>1. PICK e \in toControl :
          /\ toControl' = toControl \ {e}
          /\ \/ UNCHANGED <<toAgent, handlers>>
             \/ /\ UNCHANGED handlers
                /\ \E type \in {"receipt", "cancel"} :
                     toAgent' \in Sent(toAgent, {ToAgent(type, e.job, e.attempt, e.builder)})
             \/ handlers' = handlers \union {e} /\ UNCHANGED toAgent
    BY <1>5 DEF ReceiveEvent
  <2>2. CASE UNCHANGED <<toAgent, handlers>>
    BY <1>1, <2>1, <2>2, NothingNew
  <2>3. ASSUME NEW type, UNCHANGED handlers,
               toAgent' \in Sent(toAgent, {ToAgent(type, e.job, e.attempt, e.builder)})
        PROVE  Learns
    BY <1>1, <1>2, <2>1, <2>3, Tells
  <2>4. CASE handlers' = handlers \union {e} /\ UNCHANGED toAgent
    <3> DEFINE S == Known \union OfRows
    <3>1. /\ \A m \in toAgent' : TraceOf(m) \in S
          /\ \A x \in toControl' : TraceOf(x) \in S
          /\ \A x \in handlers' : TraceOf(x) \in S
          /\ \A r \in reaping' : r.builder # NoBuilder => TraceOf(r) \in S
          /\ \A b \in Builders : \A t \in tasks'[b] : TaskTrace(b, t) \in S
      BY <1>1, <2>1, <2>4, KnownPlaces
    <3> HIDE DEF S
    <3>2. Known' \subseteq S
      BY <3>1, KnownWithin
    <3> QED
      BY <3>2 DEF Learns, S
  <2> QED
    BY <2>1, <2>2, <2>3, <2>4
<1> QED
  BY <1>3, <1>4, <1>5

LEMMA ReaperStepLearns ==
  ASSUME IndInv, UNCHANGED tasks, ReapScan \/ ReaperStep
  PROVE  Learns
<1>0. reaping \subseteq Reap
  BY DEF IndInv, TypeOK, CoordTypeOK
<1>1. UNCHANGED <<toControl, handlers>>
  BY DEF ReapScan, ReaperStep, ReapSkip, ReapRow, ReapDeployment
<1>2. CASE ReapSkip
  BY <1>1, <1>2, NothingNew DEF ReapSkip
<1>3. CASE ReapDeployment
  <2>1. PICK r \in reaping :
          /\ IF r.builder = NoBuilder THEN UNCHANGED toAgent
             ELSE toAgent' \in Sent(toAgent, {ToAgent("cancel", r.job, r.attempt, r.builder)})
          /\ reaping' = reaping \ {r}
    BY <1>3 DEF ReapDeployment
  <2>2. CASE r.builder = NoBuilder
    BY <1>1, <2>1, <2>2, NothingNew
  <2>3. CASE r.builder # NoBuilder
    <3>1. TraceOf(ToAgent("cancel", r.job, r.attempt, r.builder)) \in Known \union OfRows
      BY <2>1, <2>3, KnownPlaces DEF TraceOf, ToAgent
    <3> QED
      BY <1>1, <2>1, <2>3, <3>1, Tells
  <2> QED
    BY <2>2, <2>3
<1>4. CASE ReapScan \/ ReapRow
  <2> DEFINE S == Known \union OfRows
  <2>1. \A r \in reaping' : r.builder # NoBuilder => TraceOf(r) \in S
    <3>1. CASE ReapScan
      <4>1. reaping' \subseteq
              {[job |-> j, attempt |-> jobs[j].attempt, builder |-> jobs[j].builder,
                at |-> "row"] : j \in {k \in Job : Suspect(jobs[k])}}
        BY <3>1 DEF ReapScan
      <4> QED
        BY <4>1, KnownPlaces DEF TraceOf, RowTrace
    <3>2. CASE ReapRow
      <4>1. PICK r \in reaping : reaping' = (reaping \ {r}) \union {[r EXCEPT !.at = "deployment"]}
        BY <3>2 DEF ReapRow
      <4>2. LET q == [r EXCEPT !.at = "deployment"]
            IN  TraceOf(q) = TraceOf(r) /\ q.builder = r.builder
        BY <1>0, <4>1 DEF Reap, TraceOf
      <4> QED
        BY <4>1, <4>2, KnownPlaces
    <3> QED
      BY <1>4, <3>1, <3>2
  <2>2. /\ \A m \in toAgent' : TraceOf(m) \in S
        /\ \A e \in toControl' : TraceOf(e) \in S
        /\ \A e \in handlers' : TraceOf(e) \in S
        /\ \A b \in Builders : \A t \in tasks'[b] : TaskTrace(b, t) \in S
    BY <1>1, <1>4, KnownPlaces DEF ReapScan, ReapRow
  <2> HIDE DEF S
  <2>3. Known' \subseteq S
    BY <2>1, <2>2, KnownWithin
  <2> QED
    BY <2>3 DEF Learns, S
<1> QED
  BY <1>2, <1>3, <1>4 DEF ReaperStep

LEMMA OutsideStepLearns ==
  ASSUME UNCHANGED tasks,
         \/ \E d \in Deployments : CancelDeployment(d) \/ OperatorStepOf(d) \/ FailStaleBuild(d)
         \/ \E j \in Job : LeasePasses(j)
         \/ Restart
  PROVE  Learns
<1>1. ASSUME NEW d \in Deployments, CancelSweep(d) PROVE Learns
  BY <1>1, SweepTells DEF CancelSweep
<1>2. CASE \/ \E d \in Deployments : CancelDeployment(d) \/ CancelMark(d) \/ FailStaleBuild(d)
           \/ \E j \in Job : LeasePasses(j)
           \/ Restart
  BY <1>2, NothingNew DEF CancelDeployment, CancelMark, FailStaleBuild, LeasePasses, Restart, tasksOfLoop
<1> QED
  BY <1>1, <1>2 DEF OperatorStepOf

LEMMA ExecutorStepSpeaks ==
  ASSUME IndInv, UNCHANGED coordVars, ExecutorNext
  PROVE  Spoken' \subseteq Spoken
<1>0. tasks \in [Builders -> SUBSET Task]
  BY DEF IndInv, TypeOK, ExecutorTypeOK
<1>1. UNCHANGED handlers
  BY DEF coordVars, tasksOfLoop
<1>2. PICK b \in Builders : ReceiveAssign(b) \/ ReceiveCancel(b) \/ ReceiveReceipt(b)
                            \/ FinishBuild(b) \/ Replay(b) \/ RestartAgent(b)
  BY DEF ExecutorNext
<1>3. \A t \in tasks[b] : TraceOf(Report(b, t)) \in Spoken
  BY SpokenPlaces DEF TraceOf, Report, EventOf, TaskTrace
<1>4. ASSUME NEW status, NEW t \in tasks[b]
      PROVE  TraceOf(EventOf(status, t.job, t.attempt, b)) \in Spoken
  BY SpokenPlaces DEF TraceOf, EventOf, TaskTrace
<1>5. ASSUME toControl' = toControl, toAgent' \subseteq toAgent,
             \A c \in Builders : \A t \in tasks'[c] : TaskTrace(c, t) \in Spoken
      PROVE  Spoken' \subseteq Spoken
  <2>1. toControl' \in Sent(toControl, {})
    BY <1>5 DEF Sent
  <2> QED
    BY <1>1, <1>5, <2>1, Reports
<1>6. CASE ReceiveAssign(b)
  <2>1. PICK m \in toAgent :
          /\ m.type = "assign" /\ m.builder = b /\ toAgent' = toAgent \ {m}
          /\ \/ /\ toControl' \in Sent(toControl, {Report(b, t) : t \in TasksOf(b, m)})
                /\ UNCHANGED tasks
             \/ /\ toControl' \in Sent(toControl, {EventOf("failed", m.job, m.attempt, b)})
                /\ UNCHANGED tasks
             \/ /\ tasks' = [tasks EXCEPT ![b] = @ \union
                       {[job |-> m.job, attempt |-> m.attempt, state |-> "building"]}]
                /\ toControl' \in Sent(toControl, {EventOf("renew", m.job, m.attempt, b)})
    BY <1>6 DEF ReceiveAssign
  <2>2. \A status : TraceOf(EventOf(status, m.job, m.attempt, b)) \in Spoken
    BY <2>1, SpokenPlaces DEF TraceOf, EventOf
  <2>3. CASE /\ toControl' \in Sent(toControl, {Report(b, t) : t \in TasksOf(b, m)})
             /\ UNCHANGED tasks
    <3>1. \A e \in {Report(b, t) : t \in TasksOf(b, m)} : TraceOf(e) \in Spoken
      BY <1>3 DEF TasksOf
    <3> QED
      BY <1>1, <2>1, <2>3, <3>1, SpokenPlaces, Reports
  <2>4. CASE /\ toControl' \in Sent(toControl, {EventOf("failed", m.job, m.attempt, b)})
             /\ UNCHANGED tasks
    BY <1>1, <2>1, <2>2, <2>4, SpokenPlaces, Reports
  <2>5. CASE /\ tasks' = [tasks EXCEPT ![b] = @ \union
                       {[job |-> m.job, attempt |-> m.attempt, state |-> "building"]}]
             /\ toControl' \in Sent(toControl, {EventOf("renew", m.job, m.attempt, b)})
    <3>1. TaskTrace(b, [job |-> m.job, attempt |-> m.attempt, state |-> "building"]) \in Spoken
      BY <2>1, SpokenPlaces DEF TaskTrace, TraceOf
    <3>2. \A c \in Builders : \A t \in tasks'[c] : TaskTrace(c, t) \in Spoken
      BY <1>0, <2>5, <3>1, SpokenPlaces
    <3> QED
      BY <1>1, <2>1, <2>2, <2>5, <3>2, Reports
  <2> QED
    BY <2>1, <2>3, <2>4, <2>5
<1>7. CASE ReceiveCancel(b)
  <2>1. PICK m \in toAgent :
          /\ toAgent' = toAgent \ {m} /\ toControl' = toControl
          /\ tasks' = [tasks EXCEPT ![b] =
               {IF t \in TasksOf(b, m) /\ t.state = "building"
                  THEN [t EXCEPT !.state = "stopping"] ELSE t : t \in @}]
    BY <1>7 DEF ReceiveCancel
  <2>2. \A t \in tasks[b] : TaskTrace(b, [t EXCEPT !.state = "stopping"]) = TaskTrace(b, t)
    BY <1>0 DEF Task, TaskTrace
  <2>3. \A c \in Builders : \A t \in tasks'[c] : TaskTrace(c, t) \in Spoken
    BY <1>0, <2>1, <2>2, SpokenPlaces
  <2> QED
    BY <1>5, <2>1, <2>3
<1>8. CASE ReceiveReceipt(b) \/ RestartAgent(b)
  <2>1. \A c \in Builders : \A t \in tasks'[c] : TaskTrace(c, t) \in Spoken
    BY <1>0, <1>8, SpokenPlaces DEF ReceiveReceipt, RestartAgent
  <2> QED
    BY <1>5, <1>8, <2>1 DEF ReceiveReceipt, RestartAgent
<1>9. CASE FinishBuild(b)
  <2>1. PICK t \in tasks[b], s \in Outcome :
          /\ tasks' = [tasks EXCEPT ![b] = (@ \ {t}) \union {[t EXCEPT !.state = s]}]
          /\ toControl' \in Sent(toControl, {EventOf(s, t.job, t.attempt, b)})
          /\ UNCHANGED toAgent
    BY <1>9 DEF FinishBuild, Unfinished
  <2>2. TaskTrace(b, [t EXCEPT !.state = s]) = TaskTrace(b, t)
    BY <1>0, <2>1 DEF Task, TaskTrace
  <2>3. \A c \in Builders : \A u \in tasks'[c] : TaskTrace(c, u) \in Spoken
    BY <1>0, <2>1, <2>2, SpokenPlaces
  <2> QED
    BY <1>1, <1>4, <2>1, <2>3, Reports
<1>10. CASE Replay(b)
  <2>1. PICK t \in tasks[b] : /\ toControl' \in Sent(toControl, {Report(b, t)})
                              /\ UNCHANGED <<toAgent, tasks>>
    BY <1>10 DEF Replay
  <2> QED
    BY <1>1, <1>3, <2>1, SpokenPlaces, Reports
<1> QED
  BY <1>2, <1>6, <1>7, <1>8, <1>9, <1>10

LEMMA ExecutorStepLearns ==
  ASSUME IndInv, UNCHANGED coordVars, ExecutorNext
  PROVE  Learns
<1> DEFINE S == Known \union OfRows
<1>1. Spoken' \subseteq Spoken
  BY ExecutorStepSpeaks
<1>2. toAgent' \subseteq toAgent /\ UNCHANGED reaping
  BY DEF ExecutorNext, ReceiveAssign, ReceiveCancel, ReceiveReceipt, FinishBuild, Replay,
     RestartAgent, coordVars, tasksOfLoop
<1>3. Spoken \subseteq Known
  BY DEF Spoken, Known
<1>4. /\ \A m \in toAgent' : TraceOf(m) \in S
      /\ \A e \in toControl' : TraceOf(e) \in S
      /\ \A e \in handlers' : TraceOf(e) \in S
      /\ \A r \in reaping' : r.builder # NoBuilder => TraceOf(r) \in S
      /\ \A b \in Builders : \A t \in tasks'[b] : TaskTrace(b, t) \in S
  <2>1. \A e \in toControl' : TraceOf(e) \in Spoken'
    BY DEF Spoken, TraceOf
  <2>2. \A e \in handlers' : TraceOf(e) \in Spoken'
    BY DEF Spoken, TraceOf
  <2>3. \A b \in Builders : \A t \in tasks'[b] : TaskTrace(b, t) \in Spoken'
    BY DEF Spoken, TaskTrace
  <2> QED
    BY <1>1, <1>2, <1>3, <2>1, <2>2, <2>3, KnownPlaces
<1> HIDE DEF S
<1>5. Known' \subseteq S
  BY <1>4, KnownWithin
<1> QED
  BY <1>5 DEF Learns, S

LEMMA StepLearns == IndInv /\ [Next]_vars => Learns
<1> SUFFICES ASSUME IndInv, [Next]_vars PROVE Learns
  OBVIOUS
<1>1. CASE UNCHANGED vars
  BY <1>1, NothingNew DEF vars, coordVars, tasksOfLoop
<1>2. CASE CoordNext /\ UNCHANGED tasks
  BY <1>2, BuildStepLearns, RunnerStepLearns, HandlerStepLearns, ReaperStepLearns, OutsideStepLearns
     DEF CoordNext, HandlerStep
<1>3. CASE ExecutorNext /\ UNCHANGED coordVars
  BY <1>3, ExecutorStepLearns
<1> QED
  BY <1>1, <1>2, <1>3 DEF Next

-----------------------------------------------------------------------------
LEMMA InitOwned == Init => Owned
<1> SUFFICES ASSUME Init PROVE Known = {}
  BY DEF Owned
<1> QED
  BY DEF Init, CoordInit, ExecutorInit, Known

LEMMA StepOwned ==
  ASSUME IndInv, Owned, Learns, RowsMove, TypeOK' PROVE Owned'
<1>0. jobs \in [Job -> JobRow] /\ jobs' \in [Job -> JobRow]
  BY DEF IndInv, TypeOK, CoordTypeOK
<1>1. \A j \in Job : jobs[j].attempt \in Nat /\ jobs'[j].attempt \in Nat
  BY <1>0, AttemptsAssumption DEF JobRow
<1>2. \A x \in OfRows : /\ x.job \in Job /\ x.attempt = jobs[x.job].attempt
                        /\ x.builder = jobs[x.job].builder
  BY DEF OfRows, RowTrace
<1>3. ASSUME NEW x \in Known \union OfRows
      PROVE  /\ x.job \in Job /\ x.attempt \in Nat
             /\ x.attempt <= jobs[x.job].attempt
             /\ x.attempt = jobs[x.job].attempt => x.builder = jobs[x.job].builder
  BY <1>1, <1>2 DEF Owned
<1>4. ASSUME NEW x \in Known \union OfRows, NEW y \in Known \union OfRows,
             x.job = y.job, x.attempt = y.attempt
      PROVE  x.builder = y.builder
  BY <1>2, <1>3, <1>4 DEF Owned
<1>5. ASSUME NEW x \in Known \union OfRows
      PROVE  /\ x.attempt <= jobs'[x.job].attempt
             /\ x.attempt = jobs'[x.job].attempt => x.builder = jobs'[x.job].builder
  BY <1>1, <1>3 DEF RowsMove
<1> QED
  BY <1>3, <1>4, <1>5 DEF Learns, Owned

(* An attempt at a job belongs to one builder, however late, often or out   *)
(* of order messages arrive and wherever the processes die: the increment   *)
(* of attempt in reserve().                                                 *)
THEOREM AttemptsOwned == Spec => []AttemptOwned
<1>1. IndInv /\ Owned /\ [Next]_vars => IndInv' /\ Owned'
  <2> SUFFICES ASSUME IndInv, Owned, [Next]_vars PROVE IndInv' /\ Owned'
    OBVIOUS
  <2>1. IndInv' /\ TypeOK /\ TypeOK'
    BY StepIndInv DEF IndInv
  <2> QED
    BY <2>1, StepLearns, StepWrites, WritesMove, StepOwned
<1> QED
  BY InitIndInv, InitOwned, OwnedAttempts, <1>1, PTL DEF Spec

-----------------------------------------------------------------------------
(* Receipts.                                                                *)

(* Between its reservation and its assignment no agent has heard of an      *)
(* attempt, nor ever does once the assignment could not be sent.            *)
Unsent(j) ==
  /\ jobs[j].status \in Active
  /\ runner[j] = "send" \/ jobs[j].lease = "epoch"

Unheard == \A j \in Job : Unsent(j) =>
  \A x \in Spoken : x.job = j => x.attempt # jobs[j].attempt

SendFresh == \A j \in Job :
  runner[j] = "send" /\ jobs[j].status \in Active => jobs[j].lease # "epoch"

(* What becomes spoken was spoken before, or is the attempt the runner of a *)
(* row sends, which then waits for it.                                      *)
Speaks(x) ==
  \/ x \in Spoken
  \/ /\ x = RowTrace(x.job) /\ x.job \in Job
     /\ runner[x.job] = "send" /\ runner'[x.job] = "poll" /\ jobs' = jobs

LEMMA NothingSpoken ==
  ASSUME NEW messages, toAgent' \subseteq toAgent \union messages,
         \A m \in messages : m.type # "assign",
         toControl' \subseteq toControl, handlers' \subseteq handlers \union toControl,
         UNCHANGED tasks
  PROVE  Spoken' \subseteq Spoken
<1>1. /\ \A m \in toAgent' : m.type = "assign" => TraceOf(m) \in Spoken
      /\ \A e \in toControl' : TraceOf(e) \in Spoken
      /\ \A e \in handlers' : TraceOf(e) \in Spoken
      /\ \A b \in Builders : \A t \in tasks'[b] : TaskTrace(b, t) \in Spoken
  BY SpokenPlaces
<1> DEFINE S == Spoken
<1> HIDE DEF S
<1>2. Spoken' \subseteq S
  BY <1>1, SpokenWithin DEF S
<1> QED
  BY <1>2 DEF S

LEMMA SweepSpeaks ==
  ASSUME NEW d \in Deployments, SweepRows(d), UNCHANGED <<toControl, handlers, tasks>>
  PROVE  Spoken' \subseteq Spoken
<1> DEFINE swept == {j \in Job : j[1] = d /\ jobs[j].status \in Open}
           told == {ToAgent("cancel", j, jobs[j].attempt, jobs[j].builder) :
                      j \in {k \in swept : jobs[k].builder # NoBuilder}}
<1>1. toAgent' \in Sent(toAgent, told)
  BY DEF SweepRows
<1>2. \A m \in told : m.type # "assign"
  BY DEF ToAgent
<1> HIDE DEF told
<1>3. toAgent' \subseteq toAgent \union told
  BY <1>1, SentWithin
<1> QED
  BY <1>2, <1>3, NothingSpoken

(* A message of another type than `assign'.                                 *)
LEMMA OtherSpeaks ==
  ASSUME NEW type \in {"cancel", "receipt"}, NEW j, NEW a, NEW b,
         toAgent' \in Sent(toAgent, {ToAgent(type, j, a, b)}),
         toControl' \subseteq toControl, handlers' \subseteq handlers \union toControl,
         UNCHANGED tasks
  PROVE  Spoken' \subseteq Spoken
<1> DEFINE told == {ToAgent(type, j, a, b)}
<1>1. toAgent' \subseteq toAgent \union told
  BY SentWithin
<1>2. \A m \in told : m.type # "assign"
  BY DEF ToAgent
<1> HIDE DEF told
<1> QED
  BY <1>1, <1>2, NothingSpoken

LEMMA QuietSpeaks ==
  ASSUME toAgent' \subseteq toAgent, toControl' \subseteq toControl,
         handlers' \subseteq handlers \union toControl, UNCHANGED tasks
  PROVE  Spoken' \subseteq Spoken
<1> DEFINE told == {}
<1>1. toAgent' \subseteq toAgent \union told /\ \A m \in told : m.type # "assign"
  OBVIOUS
<1> HIDE DEF told
<1> QED
  BY <1>1, NothingSpoken

LEMMA RunnerStepSpeaks ==
  ASSUME IndInv, UNCHANGED tasks, NEW j \in Job, RunnerStepOf(j)
  PROVE  \A x \in Spoken' : Speaks(x)
<1>1. UNCHANGED <<toControl, handlers>>
  BY DEF RunnerStepOf, CheckCancelled, Reserve, ReserveFails, PrepareFails, SendAssignment,
     SendFails, PollSucceeded, PollClosed, PollExpired, PollDeadline, GiveUp, ExpireAttempt,
     FailJob, MarkSiblings, SweepSiblings, tasksOfLoop
<1>2. CASE SendAssignment(j)
  <2> DEFINE m == ToAgent("assign", j, jobs[j].attempt, jobs[j].builder)
             S == Spoken \union {RowTrace(j)}
  <2>1. toAgent' \subseteq toAgent \union {m}
    BY <1>2, SentWithin DEF SendAssignment
  <2>2. TraceOf(m) = RowTrace(j)
    BY DEF TraceOf, ToAgent, RowTrace
  <2> HIDE DEF m
  <2>3. /\ \A n \in toAgent' : n.type = "assign" => TraceOf(n) \in S
        /\ \A e \in toControl' : TraceOf(e) \in S
        /\ \A e \in handlers' : TraceOf(e) \in S
        /\ \A b \in Builders : \A t \in tasks'[b] : TaskTrace(b, t) \in S
    BY <1>1, <2>1, <2>2, SpokenPlaces
  <2> HIDE DEF S
  <2>4. Spoken' \subseteq S
    BY <2>3, SpokenWithin
  <2>5. /\ jobs' = jobs /\ runner[j] = "send" /\ runner'[j] = "poll" /\ RowTrace(j).job = j
    BY <1>2 DEF SendAssignment, Goto, rows, RowTrace, IndInv, TypeOK, CoordTypeOK
  <2> QED
    BY <2>4, <2>5 DEF S, Speaks
<1>3. CASE PollExpired(j) \/ PollDeadline(j)
  BY <1>1, <1>3, OtherSpeaks DEF PollExpired, PollDeadline, GiveUp, Speaks
<1>4. CASE SweepSiblings(j)
  BY <1>1, <1>4, SweepSpeaks, JobParts DEF SweepSiblings, Speaks
<1>5. CASE \/ CheckCancelled(j) \/ Reserve(j) \/ ReserveFails(j) \/ PrepareFails(j) \/ SendFails(j)
           \/ PollSucceeded(j) \/ PollClosed(j) \/ ExpireAttempt(j) \/ FailJob(j) \/ MarkSiblings(j)
  <2>1. UNCHANGED toAgent
    BY <1>5 DEF CheckCancelled, Reserve, ReserveFails, PrepareFails, SendFails, PollSucceeded,
       PollClosed, ExpireAttempt, FailJob, MarkSiblings
  <2> QED
    BY <1>1, <2>1, QuietSpeaks DEF Speaks
<1> QED
  BY <1>2, <1>3, <1>4, <1>5 DEF RunnerStepOf

LEMMA StepSpeaks ==
  ASSUME IndInv, [Next]_vars PROVE \A x \in Spoken' : Speaks(x)
<1> SUFFICES ASSUME ~ \E j \in Job : RunnerStepOf(j) /\ UNCHANGED tasks
             PROVE  Spoken' \subseteq Spoken
  BY RunnerStepSpeaks DEF Speaks
<1>1. CASE UNCHANGED vars
  BY <1>1, QuietSpeaks DEF vars, coordVars, tasksOfLoop
<1>2. CASE ExecutorNext /\ UNCHANGED coordVars
  BY <1>2, ExecutorStepSpeaks
<1>3. CASE CoordNext /\ UNCHANGED tasks
  <2>1. ASSUME NEW d \in Deployments, BuildStepOf(d) PROVE Spoken' \subseteq Spoken
    <3>1. CASE SweepBuild(d)
      BY <1>3, <3>1, SweepSpeaks DEF SweepBuild, tasksOfLoop
    <3>2. CASE ~SweepBuild(d)
      <4>1. UNCHANGED <<toAgent, toControl, handlers>>
        BY <2>1, <3>2 DEF BuildStepOf, Admit, EnterFlight, LeaveLoop, InsertJob, ReuseDigest, Settle,
           MergeFails, Merge, LeaveFlight, Forget, FinishDeploy, tasksOfLoop
      <4> QED
        BY <1>3, <4>1, QuietSpeaks
    <3> QED
      BY <3>1, <3>2
  <2>2. ASSUME NEW d \in Deployments, CancelDeployment(d) \/ OperatorStepOf(d) \/ FailStaleBuild(d)
        PROVE  Spoken' \subseteq Spoken
    <3>1. CASE CancelSweep(d)
      BY <1>3, <3>1, SweepSpeaks DEF CancelSweep
    <3>2. CASE CancelDeployment(d) \/ CancelMark(d) \/ FailStaleBuild(d)
      BY <1>3, <3>2, QuietSpeaks DEF CancelDeployment, CancelMark, FailStaleBuild, tasksOfLoop
    <3> QED
      BY <2>2, <3>1, <3>2 DEF OperatorStepOf
  <2>3. ASSUME NEW j \in Job, LeasePasses(j) PROVE Spoken' \subseteq Spoken
    BY <1>3, <2>3, QuietSpeaks DEF LeasePasses, tasksOfLoop
  <2>4. CASE ReceiveEvent
    <3>1. PICK e \in toControl :
            /\ toControl' = toControl \ {e}
            /\ \/ UNCHANGED <<toAgent, handlers>>
               \/ /\ UNCHANGED handlers
                  /\ \E type \in {"receipt", "cancel"} :
                       toAgent' \in Sent(toAgent, {ToAgent(type, e.job, e.attempt, e.builder)})
               \/ handlers' = handlers \union {e} /\ UNCHANGED toAgent
      BY <2>4 DEF ReceiveEvent
    <3> QED
      BY <1>3, <3>1, QuietSpeaks, OtherSpeaks
  <2>5. CASE HandleRenew \/ ReapScan \/ ReapSkip \/ ReapRow \/ Restart
    BY <1>3, <2>5, QuietSpeaks DEF HandleRenew, ReapScan, ReapSkip, ReapRow, Restart
  <2>6. CASE HandleResult
    BY <1>3, <2>6, OtherSpeaks DEF HandleResult
  <2>7. CASE ReapDeployment
    BY <1>3, <2>7, QuietSpeaks, OtherSpeaks DEF ReapDeployment
  <2> QED
    BY <1>3, <2>1, <2>2, <2>3, <2>4, <2>5, <2>6, <2>7 DEF CoordNext, HandlerStep, ReaperStep
<1> QED
  BY <1>1, <1>2, <1>3 DEF Next

(* A runner is about to send only when it has just reserved, which makes    *)
(* the attempt a new one; only what could not be sent gets the epoch; and a *)
(* new attempt has its lease.                                               *)
LEMMA StepSending ==
  ASSUME IndInv, [Next]_vars, NEW j \in Job
  PROVE  runner'[j] = "send" => runner[j] = "send" \/ jobs'[j].attempt > jobs[j].attempt
<1>0. jobs \in [Job -> JobRow] /\ runner \in [Job -> RunnerStep]
  BY DEF IndInv, TypeOK, CoordTypeOK
<1>1. CASE UNCHANGED runner
  BY <1>1
<1>2. ASSUME NEW d \in Deployments, BuildStepOf(d)
      PROVE  runner'[j] = "send" => runner[j] = "send"
  BY <1>0, <1>2 DEF BuildStepOf, Admit, EnterFlight, LeaveLoop, InsertJob, ReuseDigest, Settle,
     MergeFails, Merge, LeaveFlight, SweepBuild, Forget, FinishDeploy, Goto
<1>3. ASSUME NEW k \in Job, RunnerStepOf(k)
      PROVE  runner'[j] = "send" => runner[j] = "send" \/ jobs'[j].attempt > jobs[j].attempt
  <2>1. CASE Reserve(k)
    <3>1. jobs[k].attempt \in Nat
      BY <1>0, AttemptsAssumption DEF JobRow
    <3>2. jobs'[k].attempt = jobs[k].attempt + 1
      BY <1>0, <2>1 DEF Reserve, JobRow
    <3>3. runner' = [runner EXCEPT ![k] = "send"]
      BY <2>1 DEF Reserve, Goto
    <3> QED
      BY <1>0, <3>1, <3>2, <3>3
  <2>2. CASE ~Reserve(k)
    <3>1. PICK step \in RunnerStep \ {"send"} : runner' = [runner EXCEPT ![k] = step]
      BY <1>3, <2>2 DEF RunnerStepOf, CheckCancelled, ReserveFails, PrepareFails, SendAssignment,
         SendFails, PollSucceeded, PollClosed, PollExpired, PollDeadline, GiveUp, ExpireAttempt,
         FailJob, MarkSiblings, SweepSiblings, Goto, RunnerStep
    <3> QED
      BY <1>0, <3>1
  <2> QED
    BY <2>1, <2>2
<1>4. CASE \/ ReceiveEvent \/ HandlerStep \/ ReapScan \/ ReaperStep
           \/ \E d \in Deployments : CancelDeployment(d) \/ OperatorStepOf(d) \/ FailStaleBuild(d)
           \/ \E k \in Job : LeasePasses(k)
           \/ ExecutorNext /\ UNCHANGED coordVars
           \/ UNCHANGED vars
  <2>1. UNCHANGED runner
    BY <1>4 DEF ReceiveEvent, HandlerStep, HandleRenew, HandleResult, ReapScan, ReaperStep, ReapSkip,
       ReapRow, ReapDeployment, CancelDeployment, OperatorStepOf, CancelMark, CancelSweep,
       FailStaleBuild, LeasePasses, vars, coordVars, calls
  <2> QED
    BY <1>1, <2>1
<1>5. CASE Restart
  BY <1>5 DEF Restart
<1> QED
  BY <1>2, <1>3, <1>4, <1>5 DEF Next, CoordNext

LEMMA StepUnheard ==
  ASSUME IndInv, Owned, Unheard, SendFresh, [Next]_vars PROVE Unheard' /\ SendFresh'
<1>0. TypeOK /\ TypeOK' /\ RowWrite /\ RowsMove
  BY StepIndInv, StepWrites, WritesMove DEF IndInv
<1>1. \A j \in Job : jobs[j].attempt \in Nat /\ jobs'[j].attempt \in Nat
  BY <1>0, AttemptsAssumption DEF TypeOK, CoordTypeOK, JobRow
<1>2. Spoken \subseteq Known
  BY DEF Spoken, Known
<1>3. SendFresh'
  <2> SUFFICES ASSUME NEW j \in Job, runner'[j] = "send", jobs'[j].status \in Active,
                      jobs'[j].lease = "epoch"
               PROVE  FALSE
    BY DEF SendFresh
  <2>1. jobs'[j].attempt = jobs[j].attempt
    BY <1>0, WritesLease
  <2>2. runner[j] = "send" /\ jobs[j].status \in Active
    BY <1>0, <1>1, <2>1, StepSending DEF RowsMove
  <2>3. jobs[j].lease = "epoch"
    BY <1>0, WritesLease
  <2> QED
    BY <2>2, <2>3 DEF SendFresh
<1>4. Unheard'
  <2> SUFFICES ASSUME NEW j \in Job, jobs'[j].status \in Active,
                      runner'[j] = "send" \/ jobs'[j].lease = "epoch",
                      NEW x \in Spoken', x.job = j, x.attempt = jobs'[j].attempt
               PROVE  FALSE
    BY DEF Unheard, Unsent
  <2>1. Speaks(x)
    BY StepSpeaks
  <2>2. x.attempt \in Nat /\ x.attempt <= jobs[j].attempt
    BY <1>1, <1>2, <2>1 DEF Speaks, Owned, RowTrace
  <2>3. jobs'[j].attempt = jobs[j].attempt /\ jobs[j].status \in Active
    BY <1>0, <1>1, <2>2 DEF RowsMove
  <2>4. Unsent(j)
    BY <1>0, <1>1, <2>3, StepSending, WritesLease DEF Unsent
  <2>5. x \notin Spoken
    BY <2>3, <2>4 DEF Unheard
  <2>6. runner[j] = "send" /\ runner'[j] = "poll" /\ jobs' = jobs
    BY <2>1, <2>5 DEF Speaks
  <2> QED
    BY <2>3, <2>6 DEF SendFresh
<1> QED
  BY <1>3, <1>4

(* A receipt is sent for an attempt that is over.                           *)
Acknowledges(m) ==
  m.type = "receipt" /\ m.attempt = jobs'[m.job].attempt => jobs'[m.job].status \notin Active

LEMMA ResultSettles ==
  ASSUME IndInv, Owned, Unheard, ActiveHasLease, NEW e \in handlers, e.status # "renew",
         jobs' = IF Fenced(e) THEN [jobs EXCEPT ![e.job] = Recorded(@, e)] ELSE jobs,
         e.attempt = jobs'[e.job].attempt
  PROVE  jobs'[e.job].status \notin Active
<1>0. jobs \in [Job -> JobRow] /\ e \in Event
  BY DEF IndInv, TypeOK, CoordTypeOK
<1>1. e.job \in Job /\ jobs[e.job] \in JobRow /\ e.status \in Outcome
  BY <1>0 DEF Event
<1>2. CASE Fenced(e)
  <2>1. jobs'[e.job] = Recorded(jobs[e.job], e)
    BY <1>0, <1>1, <1>2
  <2> QED
    BY <1>0, <1>1, <2>1, RecordedRow DEF Outcome, Active
<1>3. CASE ~Fenced(e)
  <2> SUFFICES ASSUME jobs[e.job].status \in Active PROVE FALSE
    BY <1>3
  <2>1. TraceOf(e) \in Known /\ TraceOf(e) \in Spoken
    BY KnownPlaces, SpokenPlaces
  <2>2. e.attempt = jobs[e.job].attempt /\ e.builder = jobs[e.job].builder
    BY <1>3, <2>1 DEF Owned, TraceOf
  <2>3. jobs[e.job].lease = "epoch"
    BY <1>1, <1>3, <2>2 DEF Fenced, ActiveHasLease, JobRow, Lease
  <2> QED
    BY <1>1, <2>1, <2>2, <2>3 DEF Unheard, Unsent, TraceOf
<1> QED
  BY <1>2, <1>3

LEMMA StepAcknowledges ==
  ASSUME IndInv, Owned, Unheard, ActiveHasLease, [Next]_vars
  PROVE  \A m \in toAgent' : m \in toAgent \/ Acknowledges(m)
<1> USE DEF Acknowledges
<1>1. ASSUME NEW type \in {"assign", "cancel"}, NEW j, NEW a, NEW b,
             toAgent' \in Sent(toAgent, {ToAgent(type, j, a, b)})
      PROVE  \A m \in toAgent' : m \in toAgent \/ Acknowledges(m)
  BY <1>1, SentWithin DEF ToAgent
<1>2. ASSUME NEW d \in Deployments, SweepRows(d)
      PROVE  \A m \in toAgent' : m \in toAgent \/ Acknowledges(m)
  <2> DEFINE swept == {j \in Job : j[1] = d /\ jobs[j].status \in Open}
             told == {ToAgent("cancel", j, jobs[j].attempt, jobs[j].builder) :
                        j \in {k \in swept : jobs[k].builder # NoBuilder}}
  <2>1. toAgent' \in Sent(toAgent, told)
    BY <1>2 DEF SweepRows
  <2>2. \A m \in told : m.type # "receipt"
    BY DEF ToAgent
  <2> HIDE DEF told
  <2> QED
    BY <2>1, <2>2, SentWithin
<1>3. CASE ReceiveEvent
  <2>1. PICK e \in toControl :
          \/ UNCHANGED toAgent
          \/ /\ jobs[e.job].status \notin Active
             /\ toAgent' \in Sent(toAgent, {ToAgent("receipt", e.job, e.attempt, e.builder)})
          \/ toAgent' \in Sent(toAgent, {ToAgent("cancel", e.job, e.attempt, e.builder)})
    BY <1>3 DEF ReceiveEvent
  <2>2. jobs' = jobs
    BY <1>3 DEF ReceiveEvent, rows
  <2>3. CASE /\ jobs[e.job].status \notin Active
             /\ toAgent' \in Sent(toAgent, {ToAgent("receipt", e.job, e.attempt, e.builder)})
    BY <2>2, <2>3, SentWithin DEF ToAgent
  <2> QED
    BY <1>1, <2>1, <2>3
<1>4. CASE HandleResult
  <2>1. PICK e \in handlers :
          /\ e.status # "renew"
          /\ jobs' = IF Fenced(e) THEN [jobs EXCEPT ![e.job] = Recorded(@, e)] ELSE jobs
          /\ toAgent' \in Sent(toAgent, {ToAgent("receipt", e.job, e.attempt, e.builder)})
    BY <1>4 DEF HandleResult
  <2>2. e.attempt = jobs'[e.job].attempt => jobs'[e.job].status \notin Active
    BY <2>1, ResultSettles
  <2> QED
    BY <2>1, <2>2, SentWithin DEF ToAgent
<1>5. CASE ReapDeployment
  <2>1. \/ UNCHANGED toAgent
        \/ \E r \in reaping :
             toAgent' \in Sent(toAgent, {ToAgent("cancel", r.job, r.attempt, r.builder)})
    BY <1>5 DEF ReapDeployment
  <2> QED
    BY <1>1, <2>1
<1>6. ASSUME NEW j \in Job, RunnerStepOf(j)
      PROVE  \A m \in toAgent' : m \in toAgent \/ Acknowledges(m)
  <2>1. CASE SendAssignment(j) \/ PollExpired(j) \/ PollDeadline(j)
    BY <1>1, <2>1 DEF SendAssignment, PollExpired, PollDeadline, GiveUp
  <2>2. CASE SweepSiblings(j)
    BY <1>2, <2>2, JobParts DEF SweepSiblings
  <2>3. CASE ~(SendAssignment(j) \/ PollExpired(j) \/ PollDeadline(j) \/ SweepSiblings(j))
    <3>1. UNCHANGED toAgent
      BY <1>6, <2>3 DEF RunnerStepOf, CheckCancelled, Reserve, ReserveFails, PrepareFails, SendFails,
         PollSucceeded, PollClosed, ExpireAttempt, FailJob, MarkSiblings
    <3> QED
      BY <3>1
  <2> QED
    BY <2>1, <2>2, <2>3
<1>7. ASSUME NEW d \in Deployments,
             BuildStepOf(d) \/ CancelDeployment(d) \/ OperatorStepOf(d) \/ FailStaleBuild(d)
      PROVE  \A m \in toAgent' : m \in toAgent \/ Acknowledges(m)
  <2>1. CASE SweepBuild(d) \/ CancelSweep(d)
    BY <1>2, <2>1 DEF SweepBuild, CancelSweep
  <2>2. CASE ~(SweepBuild(d) \/ CancelSweep(d))
    <3>1. UNCHANGED toAgent
      BY <1>7, <2>2 DEF BuildStepOf, Admit, EnterFlight, LeaveLoop, InsertJob, ReuseDigest, Settle,
         MergeFails, Merge, LeaveFlight, Forget, FinishDeploy, CancelDeployment, OperatorStepOf,
         CancelMark, FailStaleBuild
    <3> QED
      BY <3>1
  <2> QED
    BY <2>1, <2>2
<1>8. CASE \/ HandleRenew \/ ReapScan \/ ReapSkip \/ ReapRow \/ Restart
           \/ \E j \in Job : LeasePasses(j)
           \/ ExecutorNext
           \/ UNCHANGED vars
  <2>1. toAgent' \subseteq toAgent
    BY <1>8 DEF HandleRenew, ReapScan, ReapSkip, ReapRow, Restart, LeasePasses, ExecutorNext,
       ReceiveAssign, ReceiveCancel, ReceiveReceipt, FinishBuild, Replay, RestartAgent, vars
  <2> QED
    BY <2>1
<1> QED
  BY <1>3, <1>4, <1>5, <1>6, <1>7, <1>8 DEF Next, CoordNext, HandlerStep, ReaperStep

LEMMA StepReceiptMeansSettled ==
  ASSUME IndInv, Owned, Unheard, ActiveHasLease, ReceiptMeansSettled, [Next]_vars
  PROVE  ReceiptMeansSettled'
<1>0. TypeOK /\ TypeOK' /\ RowsMove
  BY StepIndInv, StepWrites, WritesMove DEF IndInv
<1>1. \A j \in Job : jobs[j].attempt \in Nat /\ jobs'[j].attempt \in Nat
  BY <1>0, AttemptsAssumption DEF TypeOK, CoordTypeOK, JobRow
<1>2. ASSUME NEW m \in toAgent, m.type = "receipt", m.attempt = jobs'[m.job].attempt,
             jobs'[m.job].status \in Active
      PROVE  FALSE
  <2>1. m.job \in Job /\ m.attempt \in Nat /\ m.attempt <= jobs[m.job].attempt
    BY KnownPlaces DEF Owned, TraceOf
  <2>2. m.attempt = jobs[m.job].attempt /\ jobs[m.job].status \in Active
    BY <1>0, <1>1, <1>2, <2>1 DEF RowsMove
  <2> QED
    BY <1>2, <2>2 DEF ReceiptMeansSettled
<1> QED
  BY <1>2, StepAcknowledges DEF ReceiptMeansSettled, Acknowledges

(* An agent is told to forget a result only once no late use can be made of *)
(* the attempt, although handleMessage() acknowledges what its fence has    *)
(* refused, too: a row whose assignment could not be sent is the one an     *)
(* event could be refused for while it is active, and no agent ever heard   *)
(* of it.                                                                   *)
THEOREM ReceiptsSettle == Spec => []ReceiptMeansSettled
<1> DEFINE Inv == /\ IndInv /\ Owned /\ ActiveHasLease
                  /\ Unheard /\ SendFresh /\ ReceiptMeansSettled
<1>1. Init => Unheard /\ SendFresh /\ ReceiptMeansSettled
  BY DEF Init, CoordInit, ExecutorInit, Unheard, Spoken, SendFresh, ReceiptMeansSettled
<1>2. Inv /\ [Next]_vars => Inv'
  <2> SUFFICES ASSUME Inv, [Next]_vars PROVE Inv'
    OBVIOUS
  <2>1. IndInv' /\ TypeOK /\ TypeOK'
    BY StepIndInv DEF IndInv
  <2>2. Owned' /\ ActiveHasLease'
    BY <2>1, StepLearns, StepWrites, WritesMove, StepOwned, StepActiveHasLease
  <2>3. Unheard' /\ SendFresh' /\ ReceiptMeansSettled'
    BY StepUnheard, StepReceiptMeansSettled
  <2> QED
    BY <2>1, <2>2, <2>3
<1> QED
  BY InitIndInv, InitOwned, InitActiveHasLease, <1>1, <1>2, PTL DEF Spec
=============================================================================
