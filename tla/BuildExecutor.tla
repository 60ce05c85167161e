--------------------------- MODULE BuildExecutor ---------------------------
(* The build executor of the agents, agent/internal/build/executor.go: a    *)
(* table of tasks per agent, kept in memory only, keyed by job and attempt. *)
(* A task whose build has ended keeps its result until the control plane    *)
(* sends a receipt; every ten seconds, and when the tunnel reconnects, the  *)
(* agent reports each running task and resends each unacknowledged result.  *)
EXTENDS BuildProtocol

CONSTANTS
  MaxConcurrent,  \* builds an agent runs at once (max_concurrent_builds)
  TaskCap         \* tasks an agent remembers; the code has 128

ASSUME CapacityAssumption == MaxConcurrent \in Nat /\ TaskCap \in Nat

VARIABLE tasks

-----------------------------------------------------------------------------
(* `stopping' is a task whose context was cancelled and whose BuildKit is   *)
(* still being torn down.                                                   *)
Task == [job: Job, attempt: Attempt, state: {"building", "stopping"} \union Outcome]

ExecutorTypeOK == tasks \in [Builders -> SUBSET Task]
ExecutorInit == tasks = [b \in Builders |-> {}]

TasksOf(b, m) == {t \in tasks[b] : t.job = m.job /\ t.attempt = m.attempt}
Unfinished(b) == {t \in tasks[b] : t.state \in {"building", "stopping"}}

Report(b, t) ==
  EventOf(IF t.state \in Outcome THEN t.state ELSE "renew", t.job, t.attempt, b)

(* The cache key is the service and the platform, and two builds of one     *)
(* cache may not run on one agent.                                          *)
Busy(b, j) ==
  \/ \E t \in Unfinished(b) : t.job[2] = j[2]
  \/ Cardinality(Unfinished(b)) >= MaxConcurrent
  \/ Cardinality(tasks[b]) >= TaskCap

(* Handle, build.assign: a known attempt is answered with what became of    *)
(* it, a busy agent refuses, otherwise the build starts.                    *)
ReceiveAssign(b) == \E m \in toAgent :
  /\ m.type = "assign" /\ m.builder = b
  /\ toAgent' = toAgent \ {m}
  /\ \/ /\ TasksOf(b, m) # {}
        /\ toControl' \in Sent(toControl, {Report(b, t) : t \in TasksOf(b, m)})
        /\ UNCHANGED tasks
     \/ /\ TasksOf(b, m) = {} /\ Busy(b, m.job)
        /\ toControl' \in Sent(toControl, {EventOf("failed", m.job, m.attempt, b)})
        /\ UNCHANGED tasks
     \/ /\ TasksOf(b, m) = {} /\ ~Busy(b, m.job)
        /\ tasks' = [tasks EXCEPT ![b] = @ \union
                       {[job |-> m.job, attempt |-> m.attempt, state |-> "building"]}]
        /\ toControl' \in Sent(toControl, {EventOf("renew", m.job, m.attempt, b)})

(* Handle, build.cancel: cancels the context, which does nothing to a build *)
(* that has ended.                                                          *)
ReceiveCancel(b) == \E m \in toAgent :
  /\ m.type = "cancel" /\ m.builder = b
  /\ toAgent' = toAgent \ {m}
  /\ tasks' = [tasks EXCEPT ![b] =
       {IF t \in TasksOf(b, m) /\ t.state = "building"
          THEN [t EXCEPT !.state = "stopping"] ELSE t : t \in @}]
  /\ UNCHANGED toControl

(* Handle, build.receipt: forgets the task if it has a result.              *)
ReceiveReceipt(b) == \E m \in toAgent :
  /\ m.type = "receipt" /\ m.builder = b
  /\ toAgent' = toAgent \ {m}
  /\ tasks' = [tasks EXCEPT ![b] = @ \ {t \in TasksOf(b, m) : t.state \in Outcome}]
  /\ UNCHANGED toControl

(* The build goroutine ends.  A cancelled context reports `cancelled'       *)
(* whatever the build did; otherwise it pushed an image or failed.          *)
FinishBuild(b) == \E t \in Unfinished(b), s \in Outcome :
  /\ IF t.state = "stopping" THEN s = "cancelled" ELSE s \in {"succeeded", "failed"}
  /\ tasks' = [tasks EXCEPT ![b] = (@ \ {t}) \union {[t EXCEPT !.state = s]}]
  /\ toControl' \in Sent(toControl, {EventOf(s, t.job, t.attempt, b)})
  /\ UNCHANGED toAgent

(* Replay, of one task: the messages are handled independently of each      *)
(* other, so replaying them one by one gives every order.                   *)
Replay(b) == \E t \in tasks[b] :
  /\ toControl' \in Sent(toControl, {Report(b, t)})
  /\ UNCHANGED <<toAgent, tasks>>

(* The agent restarts: the table is not persisted.                          *)
RestartAgent(b) ==
  /\ tasks[b] # {}
  /\ tasks' = [tasks EXCEPT ![b] = {}]
  /\ UNCHANGED <<toAgent, toControl>>

ExecutorNext == \E b \in Builders :
  \/ ReceiveAssign(b)
  \/ ReceiveCancel(b)
  \/ ReceiveReceipt(b)
  \/ FinishBuild(b)
  \/ Replay(b)
  \/ RestartAgent(b)
=============================================================================
