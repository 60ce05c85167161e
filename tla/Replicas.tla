------------------------------ MODULE Replicas ------------------------------
(***************************************************************************)
(* A service that declares several copies: the sweep that keeps their      *)
(* number (scheduler/replicas.ts) and judges overdue rollouts              *)
(* (heartbeat/sweeper.ts), a deploy of the service, and the promotion of a *)
(* copy by the heartbeat of its node (agent.routes.ts).                    *)
(*                                                                         *)
(* The service is stateless and not pinned (the others are refused), its   *)
(* nodes stay up, and any node has room.  A release's image is left out:   *)
(* every copy stands for the release its row names.  A row that was        *)
(* superseded and one that failed are both an ended one.                   *)
(***************************************************************************)
EXTENDS Naturals, FiniteSets

CONSTANTS Copies,        \* the ids a row of deployments may have, used again
          Hosts,         \* the nodes of the fleet
          MaxReplicas,   \* bound on the declared count
          MaxChanges     \* bound: deploys, changes of the declared count and of the
                        \* other nodes, and rollouts that come to be overdue

ASSUME ReplicasAssumption ==
  IsFiniteSet(Copies) /\ MaxReplicas \in Nat \ {0} /\ MaxChanges \in Nat

VARIABLES replicas,     \* services.replicas
          copies,       \* the service's rows; an ended one stays only while a
                        \* heartbeat or the sweep still holds its id
          older,        \* of which two rows the first has the earlier startedAt
          containers,   \* per node, the rows it runs
          promoted,     \* per node, what its heartbeat being served will promote
          rescue, fail, \* failStalledRollouts' verdicts not written yet
          sweep,        \* reconcileReplicas: what it read, and what it placed
          absent,       \* whether some other node of the fleet is silent
          changes,
          rescued       \* history: the rows rescued since the last promotion

verdicts == <<rescue, fail>>
replicaVars == <<replicas, copies, older, containers, promoted, verdicts, sweep, absent, changes,
                 rescued>>

Copy == [id : Copies, host : Hosts, status : {"deploying", "running", "ended"}]

Live(rows)    == {c \in rows : c.status \in {"deploying", "running"}}
IdsOf(rows)   == {c.id : c \in rows}
HostsOf(rows) == {c.host : c \in rows}

NoSweep == [at |-> "idle", missing |-> 0, taken |-> {}]

\* No two rows have one id, and any two are one after the other.
Ordered ==
  /\ \A c, d \in copies : c.id = d.id => c = d
  /\ older \subseteq IdsOf(copies) \X IdsOf(copies)
  /\ \A i, j \in IdsOf(copies) : i # j => (<<i, j>> \in older <=> <<j, i>> \notin older)
  /\ \A i, j, k \in IdsOf(copies) :
       <<i, j>> \in older /\ <<j, k>> \in older => i # k /\ <<i, k>> \in older

ReplicasTypeOK ==
  /\ replicas \in 1..MaxReplicas
  /\ copies \subseteq Copy /\ Ordered
  /\ containers \in [Hosts -> SUBSET Copies] /\ promoted \in [Hosts -> SUBSET Copies]
  /\ sweep \in [at : {"idle", "adding", "removing"}, missing : 0..MaxReplicas + Cardinality(Copies),
                taken : SUBSET Hosts]
  /\ rescue \subseteq Copies /\ fail \subseteq Copies /\ rescued \subseteq Copies
  /\ absent \in BOOLEAN /\ changes \in 0..MaxChanges

\* Deployed once, on some node, and running.
ReplicasInit ==
  /\ replicas = MaxReplicas
  /\ \E c \in Copies, h \in Hosts :
       /\ copies = {[id |-> c, host |-> h, status |-> "running"]} /\ older = {}
       /\ containers = [x \in Hosts |-> IF x = h THEN {c} ELSE {}]
  /\ promoted = [h \in Hosts |-> {}] /\ sweep = NoSweep /\ changes = 0
  /\ rescue = {} /\ fail = {} /\ rescued = {} /\ absent \in BOOLEAN

Referred == rescue \cup fail \cup UNION {promoted[h] : h \in Hosts}

\* An ended row nobody refers to is of no further consequence.
Kept(rows, held) == {c \in rows : c.status # "ended" \/ c.id \in held}

Update(rows, held) ==
  /\ copies' = Kept(rows, held)
  /\ older' = older \cap (IdsOf(Kept(rows, held)) \X IdsOf(Kept(rows, held)))

\* An insert, dated after some of the rows, under an id no row and no node still uses.
Insert(host, before) ==
  \E c \in Copies \ IdsOf(copies) :
    /\ \A h \in Hosts : c \notin containers[h]
    /\ copies' = copies \cup {[id |-> c, host |-> host, status |-> "deploying"]}
    /\ older' = older \cup (before \X {c}) \cup ({c} \X (IdsOf(copies) \ before))

-----------------------------------------------------------------------------
\* A deploy goes live beside the others; its row was opened, and dated, when its
\* build began.
Deploy(h) ==
  /\ changes < MaxChanges /\ changes' = changes + 1
  /\ \E before \in SUBSET IdsOf(copies) :
       /\ \A p \in older : p[2] \in before => p[1] \in before
       /\ Insert(h, before)
  /\ UNCHANGED <<replicas, containers, promoted, verdicts, sweep, absent, rescued>>

SetReplicas(n) ==
  /\ changes < MaxChanges /\ changes' = changes + 1
  /\ n # replicas /\ replicas' = n
  /\ UNCHANGED <<copies, older, containers, promoted, verdicts, sweep, absent, rescued>>

\* One of the fleet's other nodes falls silent, or the last of them comes back.
OthersAbsent ==
  /\ changes < MaxChanges /\ changes' = changes + 1
  /\ absent' = ~absent
  /\ UNCHANGED <<replicas, copies, older, containers, promoted, verdicts, sweep, rescued>>

\* The node runs what its desired state holds for it, and nothing else.
Reconcile(h) ==
  LET desired == {c.id : c \in {x \in Live(copies) : x.host = h}}
  IN /\ containers[h] # desired
     /\ containers' = [containers EXCEPT ![h] = desired]
     /\ UNCHANGED <<replicas, copies, older, promoted, verdicts, sweep, absent, changes, rescued>>

\* The heartbeat's select: the rows deploying here whose container is up.
SelectPending(h) ==
  LET up == {c.id : c \in {x \in copies :
                             x.host = h /\ x.status = "deploying" /\ x.id \in containers[h]}}
  IN /\ promoted[h] = {} /\ up # {}
     /\ promoted' = [promoted EXCEPT ![h] = up]
     /\ UNCHANGED <<replicas, copies, older, containers, verdicts, sweep, absent, changes, rescued>>

\* Mutation of CutOver: the copies that are running are left alone.
CutOverKeepingRunning(c) ==
  {[x EXCEPT !.status = IF x.id = c THEN "running"
                        ELSE IF @ = "deploying" THEN "ended" ELSE @] : x \in copies}

\* The rows after the cutover to c: every other live row of the service ends.
CutOver(c) ==
  {[x EXCEPT !.status = IF x.id = c THEN "running" ELSE "ended"] : x \in copies}

\* One of the heartbeat's transactions: by id, whatever the row has become.
Promote(h) ==
  \E c \in promoted[h] :
    /\ promoted' = [promoted EXCEPT ![h] = @ \ {c}]
    /\ UNCHANGED <<replicas, containers, verdicts, sweep, absent, changes>>
    /\ Update(CutOver(c), Referred') /\ rescued' = {}

-----------------------------------------------------------------------------
\* The sweep begins with the rollouts past their window: what the last report of
\* its node has running is to be rescued, the others are to fail.
JudgeOverdue ==
  \E overdue \in SUBSET {c \in copies : c.status = "deploying"} :
    /\ sweep.at = "idle" /\ rescue = {} /\ fail = {} /\ overdue # {}
    /\ changes < MaxChanges /\ changes' = changes + 1
    /\ \A c \in overdue, d \in copies :
         d.status = "deploying" /\ <<d.id, c.id>> \in older => d \in overdue
    /\ \E reported \in SUBSET {c \in overdue : c.id \in containers[c.host]} :
         rescue' = IdsOf(reported) /\ fail' = IdsOf(overdue \ reported)
    /\ UNCHANGED <<replicas, copies, older, containers, promoted, sweep, absent, rescued>>

\* A verdict is written by id, whatever the row has become, and nothing else is.
Judged(c, status) ==
  Update({[x EXCEPT !.status = IF x.id = c THEN status ELSE @] : x \in copies}, Referred')

Rescue ==
  \E c \in rescue :
    /\ rescue' = rescue \ {c} /\ rescued' = rescued \cup {c}
    /\ UNCHANGED <<replicas, containers, promoted, fail, sweep, absent, changes>>
    /\ Judged(c, "running")

FailOverdue ==
  \E c \in fail :
    /\ fail' = fail \ {c}
    /\ UNCHANGED <<replicas, containers, promoted, rescue, sweep, absent, changes, rescued>>
    /\ Judged(c, "ended")

\* In a fleet with a silent node, and no other, the sweep reads the live rows:
\* nothing live, or the right number, is none of its business, and neither is a
\* service of one copy.
ReadLive ==
  LET live  == Live(copies)
      count == Cardinality(live)
  IN /\ sweep.at = "idle" /\ rescue = {} /\ fail = {} /\ absent
     /\ replicas > 1 /\ live # {} /\ count # replicas
     /\ sweep' = IF count > replicas
                 THEN [at |-> "removing", missing |-> count - replicas, taken |-> {}]
                 ELSE [at |-> "adding", missing |-> replicas - count, taken |-> HostsOf(live)]
     /\ UNCHANGED <<replicas, copies, older, containers, promoted, verdicts, absent, changes, rescued>>

\* Too many: the newest of the rows that are live now, as many as were too many.
ScaleDown ==
  LET live   == Live(copies)
      excess == {c \in live : Cardinality({d \in live : <<c.id, d.id>> \in older}) < sweep.missing}
  IN /\ sweep.at = "removing"
     /\ sweep' = NoSweep
     /\ UNCHANGED <<replicas, containers, promoted, verdicts, absent, changes, rescued>>
     /\ Update({IF c \in excess THEN [c EXCEPT !.status = "ended"] ELSE c : c \in copies},
               Referred')

\* Too few: one more copy, on a node that had none when the rows were read; or
\* none is left, and the pass gives up.
AddCopy ==
  /\ sweep.at = "adding"
  /\ \/ \E h \in Hosts \ sweep.taken :
          /\ Insert(h, IdsOf(copies))
          /\ sweep' = IF sweep.missing = 1 THEN NoSweep
                      ELSE [sweep EXCEPT !.missing = @ - 1, !.taken = @ \cup {h}]
     \/ sweep.taken = Hosts /\ sweep' = NoSweep /\ UNCHANGED <<copies, older>>
  /\ UNCHANGED <<replicas, containers, promoted, verdicts, absent, changes, rescued>>

-----------------------------------------------------------------------------
ReplicasNext ==
  \/ \E h \in Hosts : Deploy(h)
  \/ \E n \in 1..MaxReplicas : SetReplicas(n)
  \/ \E h \in Hosts : Reconcile(h)
  \/ \E h \in Hosts : SelectPending(h)
  \/ \E h \in Hosts : Promote(h)
  \/ OthersAbsent
  \/ JudgeOverdue \/ Rescue \/ FailOverdue
  \/ ReadLive \/ ScaleDown \/ AddCopy

\* The sweep ticks, and every node reconciles and sends its heartbeats.
ReplicasFairness ==
  /\ WF_replicaVars(Rescue \/ FailOverdue \/ ReadLive \/ ScaleDown \/ AddCopy)
  /\ \A h \in Hosts : WF_replicaVars(Reconcile(h)) /\ WF_replicaVars(SelectPending(h) \/ Promote(h))

ReplicasSpec == ReplicasInit /\ [][ReplicasNext]_replicaVars /\ ReplicasFairness

-----------------------------------------------------------------------------
\* However the heartbeats of several nodes, a deploy and the sweep interleave, a
\* promotion leaves one release in charge: of two rows that are running, the sweep
\* has rescued one since the last promotion.
OneInCharge ==
  \A c, d \in copies :
    c.status = "running" /\ d.status = "running" => c = d \/ {c.id, d.id} \cap rescued # {}

\* "Fleet keeps three copies running, each on a different node"
\* (docs/fleet-yaml-spec.md): once nobody deploys or changes the count, in a fleet
\* the sweep attends to, as many copies run as are declared, if there are nodes.
ReplicasKept ==
  <>[]absent =>
    <>[](replicas <= Cardinality(Hosts) =>
           replicas = Cardinality({c.id : c \in {x \in copies : x.status = "running"}}))
=============================================================================
