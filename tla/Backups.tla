------------------------------ MODULE Backups ------------------------------
(***************************************************************************)
(* Backups and restores of one service with a volume: the rows and the     *)
(* archives of the control plane (backup/store.ts, backup/schedule.ts,     *)
(* api/backups.routes.ts, the sweeper's part) and the jobs of the agents   *)
(* (agent/internal/backup, runReconciler of agent/cmd/agent).              *)
(*                                                                         *)
(* Rows are numbered as inserted, so the order of numbers is createdAt's.  *)
(***************************************************************************)
EXTENDS Naturals, FiniteSets

CONSTANTS Nodes, NoNode,
          Keep,             \* pruneOldBackups' keep
          MaxBackups,       \* bound: rows of backups
          MaxRestores,      \* bound: rows of restores
          MaxMoves,         \* bound: deploys and stops of the service
          MaxFaults         \* bound: lost replies, failed reads, crashes

ASSUME BackupNodesAssumption == NoNode \notin Nodes
ASSUME KeepAssumption == Keep \in Nat \ {0}
ASSUME BackupBounds == {MaxBackups, MaxRestores, MaxMoves, MaxFaults} \subseteq Nat

BackupIds  == 1..MaxBackups
RestoreIds == 1..MaxRestores
NoId       == 0

VARIABLES serving,     \* the node of the service's live deployment, if any
          lastNode,    \* the node of its newest deployment
          backups,     \* the table: status, node, and whether a location is stored
          restores,    \* the table: status, backup, node
          files,       \* the archives in BACKUP_DIR
          asking,      \* requests between their checks and their insert
          pruning,     \* what pruneOldBackups found in excess and has not deleted
          deleting,    \* deleteBackup under way: the row as it was read
          container,   \* whether the node runs the service's container
          pass,        \* what is left of the node's pass: desired state, then jobs
          job,         \* the job its runner is at
          gone,        \* nodes that will not come back, and that nobody removes
          elsewhere,   \* whether a node that is none of these is silent
          moves, faults,
          waived      \* history: a user began to delete a backup, or the reply
                       \* to an upload that was stored was lost

backupVars == <<serving, lastNode, backups, restores, files, asking, pruning, deleting,
                container, pass, job, gone, elsewhere, moves, faults, waived>>

Callers == {"user", "schedule"}
Deleters == {"user", "prune"}
InFlight == {"pending", "running"}

NoBackup  == [status |-> "none", node |-> NoNode, stored |-> FALSE]
NoRestore == [status |-> "none", backup |-> NoId, node |-> NoNode]
NoJob     == [kind |-> "none", id |-> NoId, at |-> "none"]
Idle      == [at |-> "idle", serve |-> FALSE, backups |-> {}, restores |-> {}]

RowStatus == {"none", "pending", "running", "complete", "failed", "deleted"}

BackupTypeOK ==
  /\ serving \in Nodes \cup {NoNode} /\ lastNode \in Nodes \cup {NoNode}
  /\ backups \in [BackupIds -> [status : RowStatus, node : Nodes \cup {NoNode}, stored : BOOLEAN]]
  /\ restores \in [RestoreIds ->
                     [status : RowStatus, backup : BackupIds \cup {NoId}, node : Nodes \cup {NoNode}]]
  /\ files \subseteq BackupIds
  /\ asking \in [Callers -> Nodes \cup {NoNode}]
  /\ pruning \subseteq BackupIds
  /\ deleting \in [Deleters -> [id : BackupIds \cup {NoId}, stored : BOOLEAN]]
  /\ container \in [Nodes -> BOOLEAN]
  /\ pass \in [Nodes -> [at : {"idle", "reconcile", "jobs"}, serve : BOOLEAN,
                         backups : SUBSET BackupIds, restores : SUBSET RestoreIds]]
  /\ job \in [Nodes -> [kind : {"none", "backup", "restore"}, id : Nat,
                        at : {"none", "claim", "read", "upload", "stored", "fetch", "write",
                              "done", "failed"}]]
  /\ gone \subseteq Nodes /\ elsewhere \in BOOLEAN
  /\ moves \in 0..MaxMoves /\ faults \in 0..MaxFaults /\ waived \in BOOLEAN

BackupInit ==
  /\ serving \in Nodes /\ lastNode = serving
  /\ backups = [b \in BackupIds |-> NoBackup]
  /\ restores = [r \in RestoreIds |-> NoRestore]
  /\ files = {} /\ pruning = {}
  /\ asking = [c \in Callers |-> NoNode]
  /\ deleting = [d \in Deleters |-> [id |-> NoId, stored |-> FALSE]]
  /\ container = [n \in Nodes |-> n = serving]
  /\ pass = [n \in Nodes |-> Idle] /\ job = [n \in Nodes |-> NoJob]
  /\ gone = {} /\ elsewhere \in BOOLEAN /\ moves = 0 /\ faults = 0 /\ waived = FALSE

service == <<serving, lastNode, moves, elsewhere>>
agents  == <<container, pass, job, gone>>
control == <<asking, pruning, deleting>>

Exists(b)  == backups[b].status \notin {"none", "deleted"}
Complete   == {b \in BackupIds : backups[b].status = "complete"}
LowestFree(ids, table) == {i \in ids : /\ table[i].status = "none"
                                       /\ \A j \in ids : j < i => table[j].status # "none"}
Fault == faults < MaxFaults /\ faults' = faults + 1

-----------------------------------------------------------------------------
(* The service is deployed and stopped by routes that know nothing of this. *)

DeployService(n) ==
  /\ moves < MaxMoves /\ serving = NoNode /\ n \notin gone
  /\ serving' = n /\ lastNode' = n /\ moves' = moves + 1
  /\ UNCHANGED <<elsewhere, backups, restores, files, control, agents, faults, waived>>

StopService ==
  /\ moves < MaxMoves /\ serving # NoNode
  /\ serving' = NoNode /\ moves' = moves + 1
  /\ UNCHANGED <<lastNode, elsewhere, backups, restores, files, control, agents, faults, waived>>

-----------------------------------------------------------------------------
(* The sweeper turns to the next fleet where no node is stale, before what  *)
(* it does for the backups of all fleets: schedule, prune, fail the stalled. *)

Stale == gone # {} \/ elsewhere

OthersChange ==
  /\ elsewhere' = ~elsewhere
  /\ UNCHANGED <<serving, lastNode, moves, backups, restores, files, control, agents, faults, waived>>

-----------------------------------------------------------------------------
(* requestBackup, by a user or by runDueBackups.  The live deployment and   *)
(* the rows in flight are selected first, the row is inserted after.        *)

AskForBackup(c) ==
  /\ asking[c] = NoNode /\ (c = "schedule" => Stale)
  /\ serving # NoNode
  /\ \A b \in BackupIds : backups[b].status \notin InFlight
  /\ LowestFree(BackupIds, backups) # {}
  /\ asking' = [asking EXCEPT ![c] = serving]
  /\ UNCHANGED <<service, backups, restores, files, pruning, deleting, agents, faults, waived>>

InsertBackup(c) ==
  /\ asking[c] # NoNode
  /\ asking' = [asking EXCEPT ![c] = NoNode]
  /\ \/ \E b \in LowestFree(BackupIds, backups) :
          backups' = [backups EXCEPT ![b] = [status |-> "pending", node |-> asking[c], stored |-> FALSE]]
     \/ LowestFree(BackupIds, backups) = {} /\ UNCHANGED backups
  /\ UNCHANGED <<service, restores, files, pruning, deleting, agents, faults, waived>>

(* requestRestore: of a complete backup, onto the node that ran the service *)
(* last, when it runs nowhere and no other restore is in flight.            *)
RequestRestore(b) ==
  /\ backups[b].status = "complete" /\ backups[b].stored
  /\ serving = NoNode
  /\ \A r \in RestoreIds : restores[r].status \notin InFlight
  /\ \E r \in LowestFree(RestoreIds, restores) :
       restores' = [restores EXCEPT ![r] = [status |-> "pending", backup |-> b, node |-> lastNode]]
  /\ UNCHANGED <<service, backups, files, control, agents, faults, waived>>

-----------------------------------------------------------------------------
(* deleteBackup, by a user or by pruneOldBackups: the row is read, its      *)
(* archive removed if the row had one, and the row goes last.               *)

ReadForDeletion(d, b) ==
  /\ deleting[d].id = NoId /\ Exists(b)
  /\ deleting' = [deleting EXCEPT ![d] = [id |-> b, stored |-> backups[b].stored]]

DeleteBackup(b) ==
  /\ ReadForDeletion("user", b) /\ waived' = TRUE
  /\ UNCHANGED <<service, backups, restores, files, asking, pruning, agents, faults>>

RemoveArchive(d) ==
  /\ deleting[d].stored
  /\ files' = files \ {deleting[d].id}
  /\ deleting' = [deleting EXCEPT ![d].stored = FALSE]
  /\ UNCHANGED <<service, backups, restores, asking, pruning, agents, faults, waived>>

\* The restores of the backup go with it (on delete cascade).
DeleteRow(d) ==
  LET b == deleting[d].id
  IN /\ b # NoId /\ ~deleting[d].stored
     /\ backups' = [backups EXCEPT ![b].status = "deleted"]
     /\ restores' = [r \in RestoreIds |->
                       IF restores[r].backup = b THEN [restores[r] EXCEPT !.status = "deleted"]
                                                 ELSE restores[r]]
     /\ deleting' = [deleting EXCEPT ![d].id = NoId]
     /\ UNCHANGED <<service, files, asking, pruning, agents, faults, waived>>

\* Mutation of Excess: rows that failed count towards the limit.
ExcessOfAll ==
  {b \in Complete : Cardinality({c \in BackupIds : Exists(c) /\ c > b}) >= Keep}

\* The complete rows beyond the newest Keep.
Excess == {b \in Complete : Cardinality({c \in Complete : c > b}) >= Keep}

PruneOldBackups ==
  /\ Stale /\ pruning = {} /\ deleting["prune"].id = NoId /\ Excess # {}
  /\ pruning' = Excess
  /\ UNCHANGED <<service, backups, restores, files, asking, deleting, agents, faults, waived>>

PruneNext(b) ==
  /\ b \in pruning /\ deleting["prune"].id = NoId
  /\ pruning' = pruning \ {b}
  /\ \/ ReadForDeletion("prune", b)
     \/ ~Exists(b) /\ UNCHANGED deleting
  /\ UNCHANGED <<service, backups, restores, files, asking, agents, faults, waived>>

\* Mutation of FailStalled: it is the jobs nobody has claimed that are failed.
FailUnclaimed(rows) ==
  [i \in DOMAIN rows |->
     IF rows[i].status = "pending" THEN [rows[i] EXCEPT !.status = "failed"] ELSE rows[i]]

\* failStalledBackups and failStalledRestores.  Thirty minutes are less than the
\* agent's two deadlines of twenty, so what is failed may still be under way.
FailStalled(rows) ==
  [i \in DOMAIN rows |->
     IF rows[i].status = "running" THEN [rows[i] EXCEPT !.status = "failed"] ELSE rows[i]]

SweepStalled ==
  /\ Stale
  /\ \/ /\ \E b \in BackupIds : backups[b].status = "running"
        /\ backups' = FailStalled(backups) /\ UNCHANGED restores
     \/ /\ \E r \in RestoreIds : restores[r].status = "running"
        /\ restores' = FailStalled(restores) /\ UNCHANGED backups
  /\ UNCHANGED <<service, files, control, agents, faults, waived>>

-----------------------------------------------------------------------------
(* The node: a pass fetches desired state, reconciles, then does the jobs   *)
(* it was given, one after the other.                                       *)

Alive(n) == n \notin gone

FetchDesired(n) ==
  /\ Alive(n) /\ pass[n].at = "idle"
  /\ LET first(s) == {r \in s : \A q \in s : r <= q}
     IN pass' = [pass EXCEPT ![n] =
          [at       |-> "reconcile",
           serve    |-> serving = n,
           backups  |-> {b \in BackupIds : backups[b].status = "pending" /\ backups[b].node = n},
           restores |-> first({r \in RestoreIds : restores[r].status = "pending" /\ restores[r].node = n})]]
  /\ UNCHANGED <<service, backups, restores, files, control, container, job, gone, faults, waived>>

ReconcileService(n) ==
  /\ Alive(n) /\ pass[n].at = "reconcile"
  /\ container' = [container EXCEPT ![n] = pass[n].serve]
  /\ pass' = [pass EXCEPT ![n].at = "jobs"]
  /\ UNCHANGED <<service, backups, restores, files, control, job, gone, faults, waived>>

At(n, kind, at) == Alive(n) /\ job[n].kind = kind /\ job[n].at = at
JobTo(n, at)    == job' = [job EXCEPT ![n].at = at]
JobDone(n)      == job' = [job EXCEPT ![n] = NoJob]

\* Runner.Run, then Runner.Restore, then the pass is over.
NextJob(n) ==
  /\ Alive(n) /\ pass[n].at = "jobs" /\ job[n] = NoJob
  /\ \/ \E b \in pass[n].backups :
          /\ job' = [job EXCEPT ![n] = [kind |-> "backup", id |-> b, at |-> "claim"]]
          /\ pass' = [pass EXCEPT ![n].backups = @ \ {b}]
     \/ /\ pass[n].backups = {}
        /\ \E r \in pass[n].restores :
             /\ job' = [job EXCEPT ![n] = [kind |-> "restore", id |-> r, at |-> "fetch"]]
             /\ pass' = [pass EXCEPT ![n].restores = @ \ {r}]
     \/ /\ pass[n].backups = {} /\ pass[n].restores = {}
        /\ pass' = [pass EXCEPT ![n] = Idle] /\ UNCHANGED job
  /\ UNCHANGED <<service, backups, restores, files, control, container, gone, faults, waived>>

\* The claim marks the row running if it is pending; a lost reply fails the job.
ClaimBackup(n) ==
  LET b == job[n].id
  IN /\ At(n, "backup", "claim")
     /\ backups' = IF backups[b].status = "pending"
                   THEN [backups EXCEPT ![b].status = "running"] ELSE backups
     /\ \/ Exists(b) /\ JobTo(n, "read") /\ UNCHANGED faults
        \/ ~Exists(b) /\ JobTo(n, "failed") /\ UNCHANGED faults
        \/ Exists(b) /\ JobTo(n, "failed") /\ Fault
     /\ UNCHANGED <<service, restores, files, control, container, pass, gone, waived>>

ReadVolume(n) ==
  /\ At(n, "backup", "read")
  /\ \/ JobTo(n, "upload") /\ UNCHANGED faults
     \/ JobTo(n, "failed") /\ Fault
  /\ UNCHANGED <<service, backups, restores, files, control, container, pass, gone, waived>>

\* The upload reaches the control plane, which finds the row and writes the file.
UploadBackup(n) ==
  /\ At(n, "backup", "upload")
  /\ \/ /\ Exists(job[n].id)
        /\ files' = files \cup {job[n].id} /\ JobTo(n, "stored") /\ UNCHANGED faults
     \/ /\ ~Exists(job[n].id)
        /\ JobTo(n, "failed") /\ UNCHANGED <<files, faults>>
     \/ JobTo(n, "failed") /\ Fault /\ UNCHANGED files
  /\ UNCHANGED <<service, backups, restores, control, container, pass, gone, waived>>

\* completeBackup's update; the control plane may die before it, or the reply
\* may be lost after it.
CompleteBackup(n) ==
  LET b == job[n].id
  IN /\ At(n, "backup", "stored")
     /\ \/ /\ Exists(b)
           /\ backups' = [backups EXCEPT ![b].status = "complete", ![b].stored = TRUE]
           /\ \/ JobDone(n) /\ UNCHANGED <<faults, waived>>
              \/ JobTo(n, "failed") /\ Fault /\ waived' = TRUE
        \/ /\ ~Exists(b) \/ faults < MaxFaults
           /\ faults' = IF Exists(b) THEN faults + 1 ELSE faults
           /\ JobTo(n, "failed") /\ UNCHANGED <<backups, waived>>
     /\ UNCHANGED <<service, restores, files, control, container, pass, gone>>

\* failBackup writes whatever the row's status is; or the report is lost.
ReportFailedBackup(n) ==
  LET b == job[n].id
  IN /\ At(n, "backup", "failed") /\ JobDone(n)
     /\ \/ /\ backups' = IF Exists(b) THEN [backups EXCEPT ![b].status = "failed"] ELSE backups
           /\ UNCHANGED faults
        \/ UNCHANGED backups /\ Fault
     /\ UNCHANGED <<service, restores, files, control, container, pass, gone, waived>>

\* The archive route: it marks the restore running before it opens the file.
FetchRestore(n) ==
  LET r == job[n].id
      b == restores[r].backup
      found == restores[r].status \notin {"none", "deleted"} /\ backups[b].stored
  IN /\ At(n, "restore", "fetch")
     /\ restores' = IF found /\ restores[r].status = "pending"
                    THEN [restores EXCEPT ![r].status = "running"] ELSE restores
     /\ \/ found /\ b \in files /\ JobTo(n, "write") /\ UNCHANGED faults
        \/ ~(found /\ b \in files) /\ JobTo(n, "failed") /\ UNCHANGED faults
        \/ JobTo(n, "failed") /\ Fault
     /\ UNCHANGED <<service, backups, files, control, container, pass, gone, waived>>

WriteVolume(n) ==
  /\ At(n, "restore", "write")
  /\ \/ JobTo(n, "done") /\ UNCHANGED faults
     \/ JobTo(n, "failed") /\ Fault
  /\ UNCHANGED <<service, backups, restores, files, control, container, pass, gone, waived>>

\* completeRestore or failRestore, neither of which looks at the status.
ReportRestore(n) ==
  LET r == job[n].id
      settle(status) == restores' = IF restores[r].status = "deleted" THEN restores
                                    ELSE [restores EXCEPT ![r].status = status]
  IN /\ \/ /\ At(n, "restore", "done") /\ settle("complete")
           /\ \/ JobDone(n) /\ UNCHANGED faults
              \/ JobTo(n, "failed") /\ Fault
        \/ /\ At(n, "restore", "failed") /\ JobDone(n)
           /\ \/ settle("failed") /\ UNCHANGED faults
              \/ UNCHANGED restores /\ Fault
     /\ UNCHANGED <<service, backups, files, control, container, pass, gone, waived>>

\* The agent restarts and has forgotten its pass; or the machine is lost.
AgentRestarts(n) ==
  /\ Alive(n) /\ Fault /\ pass[n].at # "idle"
  /\ pass' = [pass EXCEPT ![n] = Idle] /\ job' = [job EXCEPT ![n] = NoJob]
  /\ UNCHANGED <<service, backups, restores, files, control, container, gone, waived>>

NodeLost(n) ==
  /\ Alive(n) /\ Fault
  /\ gone' = gone \cup {n}
  /\ pass' = [pass EXCEPT ![n] = Idle] /\ job' = [job EXCEPT ![n] = NoJob]
  /\ UNCHANGED <<service, backups, restores, files, control, container, waived>>

-----------------------------------------------------------------------------
BackupPass(n) ==
  \/ FetchDesired(n) \/ ReconcileService(n) \/ NextJob(n)
  \/ ClaimBackup(n) \/ ReadVolume(n) \/ UploadBackup(n) \/ CompleteBackup(n)
  \/ ReportFailedBackup(n) \/ FetchRestore(n) \/ WriteVolume(n) \/ ReportRestore(n)

Deletion(d) == RemoveArchive(d) \/ DeleteRow(d)

BackupNext ==
  \/ \E n \in Nodes : DeployService(n) \/ AgentRestarts(n) \/ NodeLost(n)
  \/ StopService \/ OthersChange
  \/ \E c \in Callers : AskForBackup(c) \/ InsertBackup(c)
  \/ \E b \in BackupIds : RequestRestore(b) \/ DeleteBackup(b) \/ PruneNext(b)
  \/ \E d \in Deleters : RemoveArchive(d) \/ DeleteRow(d)
  \/ PruneOldBackups \/ SweepStalled
  \/ \E n \in Nodes :
       \/ FetchDesired(n) \/ ReconcileService(n) \/ NextJob(n)
       \/ ClaimBackup(n) \/ ReadVolume(n) \/ UploadBackup(n) \/ CompleteBackup(n)
       \/ ReportFailedBackup(n) \/ FetchRestore(n) \/ WriteVolume(n) \/ ReportRestore(n)

BackupFairness ==
  /\ \A n \in Nodes : WF_backupVars(BackupPass(n))
  /\ \A c \in Callers : WF_backupVars(InsertBackup(c))
  /\ \A d \in Deleters : WF_backupVars(Deletion(d))
  /\ WF_backupVars(SweepStalled)
  /\ WF_backupVars(PruneOldBackups) /\ WF_backupVars(\E b \in BackupIds : PruneNext(b))

BackupSpec == BackupInit /\ [][BackupNext]_backupVars /\ BackupFairness

-----------------------------------------------------------------------------
\* A row that says complete has its archive, unless the row is being deleted:
\* whatever was lost, failed late, or crashed on the way.
CompleteHasArchive ==
  \A b \in Complete : b \in files \/ \E d \in Deleters : deleting[d].id = b

\* Pruning, the sweeper and failures never cost the last good archive: once a
\* backup is complete one stays so, until a user deletes one or the reply to an
\* upload that was stored is lost, which reports it failed.
GoodArchiveSurvives == [][Complete # {} /\ Complete' = {} => waived']_backupVars

Orphaned(kind, id) == \A n \in Nodes : ~(job[n].kind = kind /\ job[n].id = id)

\* A backup or a restore that was claimed ends, whatever becomes of its node; or
\* no agent is at it any more, and no node of any fleet is silent, so that the
\* sweeper does not look.
ClaimedEnds ==
  /\ \A b \in BackupIds :
       backups[b].status = "running"
         ~> (backups[b].status = "running" => Orphaned("backup", b) /\ ~Stale)
  /\ \A r \in RestoreIds :
       restores[r].status = "running"
         ~> (restores[r].status = "running" => Orphaned("restore", r) /\ ~Stale)

\* What the sweeper's comment says it prevents: a row left `running` for ever,
\* which "blocks every future backup of that service" (heartbeat/sweeper.ts).
NoneStaysRunning ==
  \A b \in BackupIds : backups[b].status = "running" ~> backups[b].status # "running"

\* "Safe only because the control plane refuses to queue one while the service
\* is running" (backup.go:146): nothing is written under a running service.
RestoredOnlyStopped == \A n \in Nodes : job[n].at = "write" => ~container[n]

\* "One at a time" (store.ts:96).
OneBackupAtATime == Cardinality({b \in BackupIds : backups[b].status \in InFlight}) <= 1

\* "The row goes last, so nothing is orphaned" (store.ts:212).
NothingOrphaned ==
  \A b \in files : backups[b].status # "deleted"

\* Nothing blocks the backups of a service for ever.
PendingEnds == \A b \in BackupIds : backups[b].status = "pending" ~> backups[b].status # "pending"
=============================================================================
