---------------------------- MODULE FleetProofs ----------------------------
(***************************************************************************)
(* What holds of AgentUpgrade, Backups, Placement and Replicas, and of the *)
(* eight components side by side, for every value of their constants.      *)
(***************************************************************************)
EXTENDS MCComponents, AccessProofs, TrafficProofs, FiniteSetTheorems, WellFoundedInduction, TLAPS

USE BuildsAssumption, UpgradeBounds

-----------------------------------------------------------------------------
(* The agent's upgrade: only builds decided on by their checksum are run.   *)

\* What a check waits for was decided on, and what it accepts is that.
WantedDecided == check \in {"download", "staged"} => wanted \in decided

UpgradeInv == UpgradeTypeOK /\ WantedDecided /\ OnlyVerifiedBuilds

LEMMA UpgradeInitially == UpgradeInit => UpgradeInv
  BY DEF UpgradeInit, UpgradeInv, UpgradeTypeOK, WantedDecided, OnlyVerifiedBuilds, UpgradeRecord, MaxAttempts

\* What may happen to the file of a failed or successful write of agent.json.
LEMMA SavedStaysTyped ==
  ASSUME UpgradeTypeOK, NEW r \in UpgradeRecord, SaveState(r)
  PROVE  saved' \in UpgradeRecord /\ mishaps' \in 0..MaxMishaps
  BY DEF SaveState, UpgradeTypeOK

LEMMA UpgradeStep == UpgradeInv /\ [UpgradeNext]_upgradeVars => UpgradeInv'
<1> SUFFICES ASSUME UpgradeInv, [UpgradeNext]_upgradeVars PROVE UpgradeInv'
    OBVIOUS
<1> USE DEF UpgradeInv, UpgradeTypeOK, WantedDecided, OnlyVerifiedBuilds, disk, process, outside, upgradeHistory
<1>1. CASE \E b \in Builds : Publish(b)
  BY <1>1 DEF Publish
<1>2. CASE SetOptIn
  BY <1>2 DEF SetOptIn
<1>3. CASE BeginCheck
  BY <1>3 DEF BeginCheck
<1>4. CASE DecideUpgrade
  <2> DEFINE again == [memory EXCEPT !.attempts = @ + 1]
  <2>1. CASE Decide(binary, published, memory) \in {"UpToDate", "Failed"} /\ check' = "idle"
              /\ UNCHANGED <<wanted, memory, saved, mishaps, upgradeHistory>>
    BY <1>4, <2>1 DEF DecideUpgrade
  <2>2. CASE Decide(binary, published, memory) = "AlreadyStaged" /\ memory' = again
              /\ SaveState(again) /\ check' = "idle" /\ UNCHANGED <<wanted, upgradeHistory>>
    <3>1. memory.attempts < MaxAttempts
      BY <2>2 DEF Decide, UpgradeRecord, MaxAttempts
    <3>2. again \in UpgradeRecord
      BY <3>1 DEF UpgradeRecord, MaxAttempts
    <3>3. saved' \in UpgradeRecord /\ mishaps' \in 0..MaxMishaps
      BY <2>2, <3>2, SavedStaysTyped
    <3> QED BY <1>4, <2>2, <3>2, <3>3 DEF DecideUpgrade
  <2>3. CASE check' = "download" /\ wanted' = published /\ decided' = decided \cup {published}
              /\ UNCHANGED <<memory, saved, mishaps, spoiled>>
    BY <1>4, <2>3 DEF DecideUpgrade
  <2> QED BY <1>4, <2>1, <2>2, <2>3 DEF DecideUpgrade
<1>5. CASE DownloadAgent
  BY <1>5 DEF DownloadAgent, Accepts
<1>6. CASE DownloadFails
  BY <1>6 DEF DownloadFails
<1>7. CASE RecordStaged
  <2>1. [lastStaged |-> wanted, attempts |-> 1] \in UpgradeRecord
    BY DEF UpgradeRecord, MaxAttempts
  <2> QED BY <1>7, <2>1 DEF RecordStaged, Exit, Spoil
<1>8. CASE AgentDies
  BY <1>8 DEF AgentDies, Exit, Spoil
<1>9. CASE PreStartInstall
  BY <1>9 DEF PreStartInstall
<1>10. CASE StartAgent
  BY <1>10 DEF StartAgent
<1>11. CASE InstallStaged
  BY <1>11 DEF InstallStaged, Exit, Spoil
<1>12. CASE InstallUnremoved
  BY <1>12 DEF InstallUnremoved, Spoil
<1>13. CASE UNCHANGED upgradeVars
  BY <1>13 DEF upgradeVars
<1>14. CASE PreStartFails
  BY <1>14 DEF PreStartFails
<1> QED
  BY <1>1, <1>2, <1>3, <1>4, <1>5, <1>6, <1>7, <1>8, <1>9, <1>10, <1>11, <1>12, <1>13, <1>14
  DEF UpgradeNext

LEMMA UpgradeInvariant == UpgradeSpec => []UpgradeInv
<1> QED BY UpgradeInitially, UpgradeStep, PTL DEF UpgradeSpec

\* The agent's files, its process and its record keep the values the code gives
\* them, whatever is published and wherever it dies.
THEOREM UpgradeTyped == UpgradeSpec => []UpgradeTypeOK
<1>1. UpgradeInv => UpgradeTypeOK
  BY DEF UpgradeInv
<1> QED BY <1>1, UpgradeInvariant, PTL

\* No build is ever staged, installed or run that the agent did not decide on by
\* its checksum, but the one the node began with: what is published between the
\* checksum and the bytes is dropped (Stage's comparison).
THEOREM VerifiedBuilds == UpgradeSpec => []OnlyVerifiedBuilds
<1>1. UpgradeInv => OnlyVerifiedBuilds
  BY DEF UpgradeInv
<1> QED BY <1>1, UpgradeInvariant, PTL

-----------------------------------------------------------------------------
(* Backups: the types, and that the last good archive is kept.              *)

USE BackupNodesAssumption, KeepAssumption, BackupBounds

BackupRow  == [status : RowStatus, node : Nodes \cup {NoNode}, stored : BOOLEAN]
RestoreRow == [status : RowStatus, backup : BackupIds \cup {NoId}, node : Nodes \cup {NoNode}]
Pass       == [at : {"idle", "reconcile", "jobs"}, serve : BOOLEAN,
               backups : SUBSET BackupIds, restores : SUBSET RestoreIds]
Job        == [kind : {"none", "backup", "restore"}, id : Nat,
               at : {"none", "claim", "read", "upload", "stored", "fetch", "write", "done", "failed"}]

LEMMA BackupRowChanges ==
  ASSUME NEW row \in BackupRow
  PROVE  /\ \A s \in RowStatus : [row EXCEPT !.status = s] \in BackupRow
         /\ \A s \in RowStatus : [row EXCEPT !.status = s, !.stored = TRUE] \in BackupRow
  BY DEF BackupRow

LEMMA RestoreRowChanges ==
  ASSUME NEW row \in RestoreRow
  PROVE  \A s \in RowStatus : [row EXCEPT !.status = s] \in RestoreRow
  BY DEF RestoreRow

LEMMA JobChanges ==
  ASSUME NEW j \in Job
  PROVE  \A at \in {"claim", "read", "upload", "stored", "fetch", "write", "done", "failed"} :
           [j EXCEPT !.at = at] \in Job
  BY DEF Job

LEMMA BackupInitially == BackupInit => BackupTypeOK
<1> SUFFICES ASSUME BackupInit PROVE BackupTypeOK
    OBVIOUS
<1>1. NoBackup \in BackupRow /\ NoRestore \in RestoreRow /\ NoJob \in Job /\ Idle \in Pass
  BY DEF NoBackup, NoRestore, NoJob, Idle, RowStatus, NoId, BackupRow, RestoreRow, Job, Pass
<1>2. 0 \in 0..MaxMoves /\ 0 \in 0..MaxFaults
  OBVIOUS
<1>3. /\ backups \in [BackupIds -> BackupRow] /\ restores \in [RestoreIds -> RestoreRow]
      /\ pass \in [Nodes -> Pass] /\ job \in [Nodes -> Job]
  BY <1>1 DEF BackupInit
<1>4. /\ asking \in [Callers -> Nodes \cup {NoNode}] /\ container \in [Nodes -> BOOLEAN]
      /\ deleting \in [Deleters -> [id : BackupIds \cup {NoId}, stored : BOOLEAN]]
  BY DEF BackupInit, NoId
<1> QED BY <1>2, <1>3, <1>4 DEF BackupInit, BackupTypeOK, BackupRow, RestoreRow, Job, Pass

\* The backup jobs of a node, of its pass and under way, are of rows inserted
\* for that node, each once, and done in the last part of the pass.
JobsOwn == \A n \in Nodes :
  /\ \A b \in pass[n].backups : backups[b].status # "none" /\ backups[b].node = n
  /\ job[n].kind = "backup" =>
       /\ job[n].id \in BackupIds \ pass[n].backups
       /\ backups[job[n].id].status # "none" /\ backups[job[n].id].node = n
  /\ job[n].kind # "none" => pass[n].at = "jobs"

LEMMA BackupTypeStep ==
  ASSUME BackupTypeOK, JobsOwn, [BackupNext]_backupVars
  PROVE  BackupTypeOK'
<1> USE DEF service, agents, control
<1>1. /\ serving \in Nodes \cup {NoNode} /\ lastNode \in Nodes \cup {NoNode}
      /\ backups \in [BackupIds -> BackupRow] /\ restores \in [RestoreIds -> RestoreRow]
      /\ files \subseteq BackupIds
      /\ asking \in [Callers -> Nodes \cup {NoNode}] /\ pruning \subseteq BackupIds
      /\ deleting \in [Deleters -> [id : BackupIds \cup {NoId}, stored : BOOLEAN]]
      /\ container \in [Nodes -> BOOLEAN]
      /\ pass \in [Nodes -> Pass] /\ job \in [Nodes -> Job]
      /\ gone \subseteq Nodes /\ elsewhere \in BOOLEAN /\ moves \in 0..MaxMoves /\ faults \in 0..MaxFaults /\ waived \in BOOLEAN
  BY DEF BackupTypeOK, BackupRow, RestoreRow, Pass, Job
<1> DEFINE NextTyped == /\ serving' \in Nodes \cup {NoNode} /\ lastNode' \in Nodes \cup {NoNode}
                    /\ backups' \in [BackupIds -> BackupRow] /\ restores' \in [RestoreIds -> RestoreRow]
                    /\ files' \subseteq BackupIds
                    /\ asking' \in [Callers -> Nodes \cup {NoNode}] /\ pruning' \subseteq BackupIds
                    /\ deleting' \in [Deleters -> [id : BackupIds \cup {NoId}, stored : BOOLEAN]]
                    /\ container' \in [Nodes -> BOOLEAN]
                    /\ pass' \in [Nodes -> Pass] /\ job' \in [Nodes -> Job]
                    /\ gone' \subseteq Nodes /\ elsewhere' \in BOOLEAN /\ moves' \in 0..MaxMoves /\ faults' \in 0..MaxFaults
                    /\ waived' \in BOOLEAN
<1> SUFFICES NextTyped
    BY DEF BackupTypeOK, BackupRow, RestoreRow, Pass, Job
<1>2. /\ NoJob \in Job /\ Idle \in Pass
      /\ {"pending", "running", "complete", "failed", "deleted"} \subseteq RowStatus
      /\ Fault => faults' \in 0..MaxFaults
  BY <1>1 DEF NoJob, Idle, Job, Pass, RowStatus, NoId, Fault
<1>3. ASSUME NEW n \in Nodes, DeployService(n) \/ AgentRestarts(n) \/ NodeLost(n) PROVE NextTyped
  BY <1>1, <1>2, <1>3 DEF DeployService, AgentRestarts, NodeLost
<1>26. CASE StopService
  BY <1>1, <1>26 DEF StopService
<1>27. CASE OthersChange
  <2>1. elsewhere' \in BOOLEAN
    BY <1>27 DEF OthersChange
  <2> QED BY <1>1, <1>27, <2>1 DEF OthersChange
<1>4. ASSUME NEW c \in Callers, AskForBackup(c) PROVE NextTyped
  BY <1>1, <1>4 DEF AskForBackup
<1>5. ASSUME NEW c \in Callers, InsertBackup(c) PROVE NextTyped
  <2>1. [status |-> "pending", node |-> asking[c], stored |-> FALSE] \in BackupRow
    BY <1>1, <1>2 DEF BackupRow
  <2>2. backups' \in [BackupIds -> BackupRow] /\ asking' \in [Callers -> Nodes \cup {NoNode}]
    BY <1>1, <1>5, <2>1 DEF InsertBackup, LowestFree
  <2> QED BY <1>1, <1>5, <2>2 DEF InsertBackup
<1>6. ASSUME NEW b \in BackupIds, RequestRestore(b) PROVE NextTyped
  <2>1. [status |-> "pending", backup |-> b, node |-> lastNode] \in RestoreRow
    BY <1>1, <1>2 DEF RestoreRow
  <2>2. restores' \in [RestoreIds -> RestoreRow]
    BY <1>1, <1>6, <2>1 DEF RequestRestore, LowestFree
  <2> QED BY <1>1, <1>6, <2>2 DEF RequestRestore
<1>7. ASSUME NEW b \in BackupIds, DeleteBackup(b) \/ PruneNext(b) PROVE NextTyped
  <2>1. [id |-> b, stored |-> backups[b].stored] \in [id : BackupIds \cup {NoId}, stored : BOOLEAN]
    BY <1>1 DEF BackupRow
  <2>2. deleting' \in [Deleters -> [id : BackupIds \cup {NoId}, stored : BOOLEAN]]
    BY <1>1, <1>7, <2>1 DEF DeleteBackup, PruneNext, ReadForDeletion, Deleters
  <2> QED BY <1>1, <1>7, <2>2 DEF DeleteBackup, PruneNext
<1>8. ASSUME NEW d \in Deleters, RemoveArchive(d) PROVE NextTyped
  BY <1>1, <1>8 DEF RemoveArchive
<1>9. ASSUME NEW d \in Deleters, DeleteRow(d) PROVE NextTyped
  <2>1. deleting[d].id \in BackupIds
    BY <1>1, <1>9 DEF DeleteRow
  <2>2. backups' \in [BackupIds -> BackupRow]
    BY <1>1, <1>2, <1>9, <2>1, BackupRowChanges DEF DeleteRow
  <2>3. restores' \in [RestoreIds -> RestoreRow]
    BY <1>1, <1>2, <1>9, RestoreRowChanges DEF DeleteRow
  <2>4. deleting' \in [Deleters -> [id : BackupIds \cup {NoId}, stored : BOOLEAN]]
    BY <1>1, <1>9 DEF DeleteRow
  <2> QED BY <1>1, <1>9, <2>2, <2>3, <2>4 DEF DeleteRow
<1>10. CASE PruneOldBackups
  BY <1>1, <1>10 DEF PruneOldBackups, Excess, Complete
<1>11. CASE SweepStalled
  <2>1. /\ FailStalled(backups) \in [BackupIds -> BackupRow]
        /\ FailStalled(restores) \in [RestoreIds -> RestoreRow]
    BY <1>1, <1>2, BackupRowChanges, RestoreRowChanges DEF FailStalled
  <2> QED BY <1>1, <1>11, <2>1 DEF SweepStalled
<1>12. ASSUME NEW n \in Nodes, FetchDesired(n) PROVE NextTyped
  <2> PICK p : /\ p = [at       |-> "reconcile", serve |-> serving = n,
                       backups  |-> {b \in BackupIds : backups[b].status = "pending" /\ backups[b].node = n},
                       restores |-> {r \in {q \in RestoreIds : restores[q].status = "pending" /\ restores[q].node = n} :
                                       \A q \in {x \in RestoreIds : restores[x].status = "pending" /\ restores[x].node = n} : r <= q}]
               /\ pass' = [pass EXCEPT ![n] = p]
    BY <1>12 DEF FetchDesired
  <2>1. p \in Pass
    BY DEF Pass
  <2> QED BY <1>1, <1>12, <2>1 DEF FetchDesired
<1>13. ASSUME NEW n \in Nodes, ReconcileService(n) PROVE NextTyped
  <2>0. pass[n] \in Pass
    BY <1>1
  <2>1. [pass[n] EXCEPT !.at = "jobs"] \in Pass /\ pass[n].serve \in BOOLEAN
    BY <2>0 DEF Pass
  <2> QED BY <1>1, <1>13, <2>1 DEF ReconcileService
<1>14. ASSUME NEW n \in Nodes, NextJob(n) PROVE NextTyped
  <2>1. /\ \A b : [pass[n] EXCEPT !.backups = @ \ {b}] \in Pass
        /\ \A r : [pass[n] EXCEPT !.restores = @ \ {r}] \in Pass
        /\ \A b \in pass[n].backups : [kind |-> "backup", id |-> b, at |-> "claim"] \in Job
        /\ \A r \in pass[n].restores : [kind |-> "restore", id |-> r, at |-> "fetch"] \in Job
    <3>1. pass[n] \in Pass
      BY <1>1
    <3>2. /\ \A b : [pass[n] EXCEPT !.backups = @ \ {b}] \in Pass
          /\ \A r : [pass[n] EXCEPT !.restores = @ \ {r}] \in Pass
      BY <3>1 DEF Pass
    <3>3. pass[n].backups \subseteq Nat /\ pass[n].restores \subseteq Nat
      BY <3>1 DEF Pass, BackupIds, RestoreIds
    <3> QED BY <3>2, <3>3 DEF Job
  <2>2. pass' \in [Nodes -> Pass]
    <3>1. \E p \in Pass : pass' = [pass EXCEPT ![n] = p]
      BY <1>2, <1>14, <2>1 DEF NextJob
    <3> QED BY <1>1, <3>1
  <2>3. job' \in [Nodes -> Job]
    BY <1>1, <1>14, <2>1 DEF NextJob
  <2> QED BY <1>1, <1>14, <2>2, <2>3 DEF NextJob
<1>15. \A n \in Nodes : /\ \A at \in {"claim", "read", "upload", "stored", "fetch", "write", "done", "failed"} :
                             JobTo(n, at) => job' \in [Nodes -> Job]
                        /\ JobDone(n) => job' \in [Nodes -> Job]
  <2> TAKE n \in Nodes
  <2>1. JobDone(n) => job' \in [Nodes -> Job]
    BY <1>1, <1>2 DEF JobDone
  <2>2. ASSUME NEW at \in {"claim", "read", "upload", "stored", "fetch", "write", "done", "failed"},
               JobTo(n, at)
        PROVE  job' \in [Nodes -> Job]
    <3>1. [job[n] EXCEPT !.at = at] \in Job
      BY <1>1, JobChanges
    <3> QED BY <1>1, <2>2, <3>1 DEF JobTo
  <2> QED BY <2>1, <2>2
<1>16. ASSUME NEW n \in Nodes,
              UNCHANGED <<service, control, container, pass, gone>>,
              job' \in [Nodes -> Job], faults' \in 0..MaxFaults, waived' \in BOOLEAN,
              backups' \in [BackupIds -> BackupRow], restores' \in [RestoreIds -> RestoreRow],
              files' \subseteq BackupIds
       PROVE  NextTyped
  BY <1>1, <1>16
<1>17. /\ \A b, s : s \in RowStatus => [backups EXCEPT ![b].status = s] \in [BackupIds -> BackupRow]
       /\ \A b : [backups EXCEPT ![b].status = "complete", ![b].stored = TRUE] \in [BackupIds -> BackupRow]
       /\ \A r, s : s \in RowStatus => [restores EXCEPT ![r].status = s] \in [RestoreIds -> RestoreRow]
  BY <1>1, <1>2, BackupRowChanges, RestoreRowChanges
<1>18. ASSUME NEW n \in Nodes, ClaimBackup(n) PROVE NextTyped
  <2>1. backups' \in [BackupIds -> BackupRow]
    BY <1>1, <1>2, <1>17, <1>18 DEF ClaimBackup
  <2>2. job' \in [Nodes -> Job] /\ faults' \in 0..MaxFaults
    BY <1>1, <1>2, <1>15, <1>18 DEF ClaimBackup
  <2> QED BY <1>1, <1>16, <1>18, <2>1, <2>2 DEF ClaimBackup
<1>19. ASSUME NEW n \in Nodes, ReadVolume(n) \/ WriteVolume(n) PROVE NextTyped
  <2>1. job' \in [Nodes -> Job] /\ faults' \in 0..MaxFaults
    BY <1>1, <1>2, <1>15, <1>19 DEF ReadVolume, WriteVolume
  <2> QED BY <1>1, <1>16, <1>19, <2>1 DEF ReadVolume, WriteVolume
<1>20. ASSUME NEW n \in Nodes, UploadBackup(n) PROVE NextTyped
  <2>1. job' \in [Nodes -> Job] /\ faults' \in 0..MaxFaults
    BY <1>1, <1>2, <1>15, <1>20 DEF UploadBackup
  <2>2. job[n].id \in BackupIds
    BY <1>20 DEF UploadBackup, At, JobsOwn
  <2>3. files' \subseteq BackupIds
    BY <1>1, <1>20, <2>2 DEF UploadBackup
  <2> QED BY <1>1, <1>16, <1>20, <2>1, <2>3 DEF UploadBackup
<1>21. ASSUME NEW n \in Nodes, CompleteBackup(n) PROVE NextTyped
  <2>1. backups' \in [BackupIds -> BackupRow] /\ waived' \in BOOLEAN
    <3>1. backups' = backups \/ backups' = [backups EXCEPT ![job[n].id].status = "complete", ![job[n].id].stored = TRUE]
      BY <1>21 DEF CompleteBackup
    <3>2. waived' = waived \/ waived' = TRUE
      BY <1>21 DEF CompleteBackup
    <3>3. backups' \in [BackupIds -> BackupRow]
      BY <1>1, <1>17, <3>1
    <3> QED BY <1>1, <3>2, <3>3
  <2>2. job' \in [Nodes -> Job]
    BY <1>15, <1>21 DEF CompleteBackup
  <2>3. faults' \in 0..MaxFaults
    BY <1>1, <1>2, <1>21 DEF CompleteBackup
  <2> QED BY <1>1, <1>16, <1>21, <2>1, <2>2, <2>3 DEF CompleteBackup
<1>22. ASSUME NEW n \in Nodes, ReportFailedBackup(n) PROVE NextTyped
  <2>1. backups' \in [BackupIds -> BackupRow]
    BY <1>1, <1>2, <1>17, <1>22 DEF ReportFailedBackup
  <2>2. job' \in [Nodes -> Job] /\ faults' \in 0..MaxFaults
    BY <1>1, <1>2, <1>15, <1>22 DEF ReportFailedBackup
  <2> QED BY <1>1, <1>16, <1>22, <2>1, <2>2 DEF ReportFailedBackup
<1>23. ASSUME NEW n \in Nodes, FetchRestore(n) PROVE NextTyped
  <2>1. restores' \in [RestoreIds -> RestoreRow]
    BY <1>1, <1>2, <1>17, <1>23 DEF FetchRestore
  <2>2. job' \in [Nodes -> Job] /\ faults' \in 0..MaxFaults
    BY <1>1, <1>2, <1>15, <1>23 DEF FetchRestore
  <2> QED BY <1>1, <1>16, <1>23, <2>1, <2>2 DEF FetchRestore
<1>24. ASSUME NEW n \in Nodes, ReportRestore(n) PROVE NextTyped
  <2>1. restores' \in [RestoreIds -> RestoreRow]
    BY <1>1, <1>2, <1>17, <1>24 DEF ReportRestore
  <2>2. job' \in [Nodes -> Job] /\ faults' \in 0..MaxFaults
    BY <1>1, <1>2, <1>15, <1>24 DEF ReportRestore
  <2> QED BY <1>1, <1>16, <1>24, <2>1, <2>2 DEF ReportRestore
<1>25. CASE UNCHANGED backupVars
  BY <1>1, <1>25 DEF backupVars
<1> HIDE DEF NextTyped
<1> QED
  BY <1>3, <1>4, <1>5, <1>6, <1>7, <1>8, <1>9, <1>10, <1>11, <1>12, <1>13, <1>14, <1>18, <1>19,
     <1>20, <1>21, <1>22, <1>23, <1>24, <1>25, <1>26, <1>27 DEF BackupNext

LEMMA JobsOwnInitially == BackupInit => JobsOwn
  BY DEF BackupInit, JobsOwn, Idle, NoJob

\* A row that was inserted keeps its node, and stays a row or is marked deleted.
RowsPersist ==
  \A b \in BackupIds : backups[b].status # "none" =>
    backups'[b].status # "none" /\ backups'[b].node = backups[b].node

LEMMA RowsPersisting ==
  ASSUME BackupTypeOK, [BackupNext]_backupVars
  PROVE  RowsPersist
<1> USE DEF service, agents, control
<1>1. backups \in [BackupIds -> BackupRow]
  BY DEF BackupTypeOK, BackupRow
<1>2. backups' = backups => RowsPersist
  BY DEF RowsPersist
<1>3. ASSUME NEW b, NEW s \in {"complete", "failed", "running", "deleted"},
             backups' = [backups EXCEPT ![b].status = s]
      PROVE  RowsPersist
  BY <1>1, <1>3 DEF RowsPersist, BackupRow
<1>4. ASSUME NEW b, backups' = [backups EXCEPT ![b].status = "complete", ![b].stored = TRUE]
      PROVE  RowsPersist
  BY <1>1, <1>4 DEF RowsPersist, BackupRow
<1>5. ASSUME NEW c \in Callers, InsertBackup(c) PROVE RowsPersist
  BY <1>1, <1>2, <1>5 DEF InsertBackup, LowestFree, RowsPersist
<1>6. CASE SweepStalled
  <2>1. backups' = backups \/ backups' = FailStalled(backups)
    BY <1>6 DEF SweepStalled
  <2>2. CASE backups' = FailStalled(backups)
    BY <1>1, <2>2 DEF FailStalled, RowsPersist, BackupRow
  <2> QED BY <1>2, <2>1, <2>2
<1>7. ASSUME NEW d \in Deleters, DeleteRow(d) PROVE RowsPersist
  BY <1>3, <1>7 DEF DeleteRow
<1>8. ASSUME NEW n \in Nodes, ClaimBackup(n) PROVE RowsPersist
  BY <1>2, <1>3, <1>8 DEF ClaimBackup
<1>9. ASSUME NEW n \in Nodes, CompleteBackup(n) PROVE RowsPersist
  BY <1>2, <1>4, <1>9 DEF CompleteBackup
<1>10. ASSUME NEW n \in Nodes, ReportFailedBackup(n) PROVE RowsPersist
  BY <1>2, <1>3, <1>10 DEF ReportFailedBackup
<1>11. CASE UNCHANGED backups
  BY <1>2, <1>11
<1>12. CASE \/ \E n \in Nodes : DeployService(n) \/ AgentRestarts(n) \/ NodeLost(n)
            \/ StopService \/ OthersChange \/ \E c \in Callers : AskForBackup(c)
            \/ \E b \in BackupIds : RequestRestore(b) \/ DeleteBackup(b) \/ PruneNext(b)
            \/ \E d \in Deleters : RemoveArchive(d)
            \/ PruneOldBackups \/ UNCHANGED backupVars
  BY <1>11, <1>12 DEF DeployService, AgentRestarts, NodeLost, StopService, OthersChange, AskForBackup, RequestRestore,
                      DeleteBackup, PruneNext, RemoveArchive, PruneOldBackups, backupVars
<1>13. CASE \E n \in Nodes : \/ FetchDesired(n) \/ ReconcileService(n) \/ NextJob(n)
                             \/ ReadVolume(n) \/ UploadBackup(n)
                             \/ FetchRestore(n) \/ WriteVolume(n) \/ ReportRestore(n)
  BY <1>11, <1>13 DEF FetchDesired, ReconcileService, NextJob, ReadVolume, UploadBackup,
                      FetchRestore, WriteVolume, ReportRestore
<1> QED BY <1>5, <1>6, <1>7, <1>8, <1>9, <1>10, <1>12, <1>13 DEF BackupNext

\* What a step does to the node n's jobs.
JobsStay(n)  == /\ pass'[n] = pass[n]
                /\ \/ job'[n].kind = job[n].kind /\ job'[n].id = job[n].id
                   \/ job'[n] = NoJob
JobsEnd(n)   == pass'[n] = Idle /\ job'[n] = NoJob
JobsCome(n)  == /\ pass[n].at = "idle" /\ job'[n] = job[n]
                /\ pass'[n].backups =
                     {b \in BackupIds : backups[b].status = "pending" /\ backups[b].node = n}
PassGoesOn(n) == /\ pass[n].at = "reconcile" /\ job'[n] = job[n]
                 /\ pass'[n].backups = pass[n].backups
JobBegins(n) ==
  /\ pass[n].at = "jobs" /\ pass'[n].at = "jobs"
  /\ \/ \E b \in pass[n].backups : /\ job'[n] = [kind |-> "backup", id |-> b, at |-> "claim"]
                                    /\ pass'[n].backups = pass[n].backups \ {b}
     \/ job'[n].kind = "restore" /\ pass'[n].backups = pass[n].backups
JobMoves(n) == JobsStay(n) \/ JobsEnd(n) \/ JobsCome(n) \/ PassGoesOn(n) \/ JobBegins(n)

LEMMA JobsMove ==
  ASSUME BackupTypeOK, [BackupNext]_backupVars, NEW n \in Nodes
  PROVE  JobMoves(n)
<1> USE DEF service, agents, control
<1>1. pass \in [Nodes -> Pass] /\ job \in [Nodes -> Job]
  BY DEF BackupTypeOK, Pass, Job
<1>2. UNCHANGED <<pass, job>> => JobMoves(n)
  BY DEF JobMoves, JobsStay
<1>3. ASSUME NEW m \in Nodes, NEW at, JobTo(m, at), UNCHANGED pass PROVE JobMoves(n)
  BY <1>1, <1>3 DEF JobTo, JobMoves, JobsStay, Job
<1>4. ASSUME NEW m \in Nodes, JobDone(m), UNCHANGED pass PROVE JobMoves(n)
  BY <1>1, <1>4 DEF JobDone, JobMoves, JobsStay
<1>5. ASSUME NEW m \in Nodes, AgentRestarts(m) \/ NodeLost(m) PROVE JobMoves(n)
  BY <1>1, <1>5 DEF AgentRestarts, NodeLost, JobMoves, JobsStay, JobsEnd
<1>6. ASSUME NEW m \in Nodes, FetchDesired(m) PROVE JobMoves(n)
  <2>1. CASE n = m
    <3>1. /\ pass[n].at = "idle" /\ job' = job
          /\ pass'[n].backups = {b \in BackupIds : backups[b].status = "pending" /\ backups[b].node = n}
      BY <1>1, <1>6, <2>1 DEF FetchDesired
    <3> QED BY <3>1 DEF JobMoves, JobsCome
  <2>2. CASE n # m
    <3>1. pass'[n] = pass[n] /\ job' = job
      BY <1>1, <1>6, <2>2 DEF FetchDesired
    <3> QED BY <3>1 DEF JobMoves, JobsStay
  <2> QED BY <2>1, <2>2
<1>7. ASSUME NEW m \in Nodes, ReconcileService(m) PROVE JobMoves(n)
  BY <1>1, <1>7 DEF ReconcileService, JobMoves, JobsStay, PassGoesOn, Pass
<1>8. ASSUME NEW m \in Nodes, NextJob(m) PROVE JobMoves(n)
  <2>1. CASE n # m
    BY <1>1, <1>8, <2>1 DEF NextJob, JobMoves, JobsStay
  <2>2. CASE n = m
    <3>1. pass[n] \in Pass /\ job[n] = NoJob /\ pass[n].at = "jobs"
      BY <1>1, <1>8, <2>2 DEF NextJob
    <3>2. ASSUME NEW b \in pass[n].backups,
                 job' = [job EXCEPT ![n] = [kind |-> "backup", id |-> b, at |-> "claim"]],
                 pass' = [pass EXCEPT ![n].backups = @ \ {b}]
          PROVE  JobBegins(n)
      BY <1>1, <3>1, <3>2 DEF JobBegins, Pass
    <3>3. ASSUME NEW r \in pass[n].restores,
                 job' = [job EXCEPT ![n] = [kind |-> "restore", id |-> r, at |-> "fetch"]],
                 pass' = [pass EXCEPT ![n].restores = @ \ {r}]
          PROVE  JobBegins(n)
      BY <1>1, <3>1, <3>3 DEF JobBegins, Pass
    <3>4. ASSUME pass' = [pass EXCEPT ![n] = Idle], UNCHANGED job PROVE JobsEnd(n)
      BY <1>1, <3>1, <3>4 DEF JobsEnd
    <3> QED BY <1>8, <2>2, <3>2, <3>3, <3>4 DEF NextJob, JobMoves
  <2> QED BY <2>1, <2>2
<1>9. CASE \E m \in Nodes : \/ ClaimBackup(m) \/ ReadVolume(m) \/ UploadBackup(m) \/ CompleteBackup(m)
                            \/ ReportFailedBackup(m) \/ FetchRestore(m) \/ WriteVolume(m)
                            \/ ReportRestore(m)
  <2>1. PICK m \in Nodes : pass' = pass /\ (JobDone(m) \/ \E at : JobTo(m, at))
    BY <1>9 DEF ClaimBackup, ReadVolume, UploadBackup, CompleteBackup, ReportFailedBackup,
                FetchRestore, WriteVolume, ReportRestore
  <2> QED BY <1>3, <1>4, <2>1
<1>10. CASE \/ \E m \in Nodes : DeployService(m)
            \/ StopService \/ OthersChange \/ (\E c \in Callers : AskForBackup(c) \/ InsertBackup(c))
            \/ (\E b \in BackupIds : RequestRestore(b) \/ DeleteBackup(b) \/ PruneNext(b))
            \/ (\E d \in Deleters : RemoveArchive(d) \/ DeleteRow(d))
            \/ PruneOldBackups \/ SweepStalled \/ UNCHANGED backupVars
  BY <1>2, <1>10 DEF DeployService, StopService, OthersChange, AskForBackup, InsertBackup, RequestRestore,
                     DeleteBackup, PruneNext, RemoveArchive, DeleteRow, PruneOldBackups, SweepStalled,
                     backupVars
<1> QED BY <1>5, <1>6, <1>7, <1>8, <1>9, <1>10 DEF BackupNext

LEMMA JobsOwnStep ==
  ASSUME BackupTypeOK, JobsOwn, [BackupNext]_backupVars
  PROVE  JobsOwn'
<1> SUFFICES ASSUME NEW n \in Nodes
             PROVE  /\ \A b \in pass'[n].backups : backups'[b].status # "none" /\ backups'[b].node = n
                    /\ job'[n].kind = "backup" =>
                         /\ job'[n].id \in BackupIds \ pass'[n].backups
                         /\ backups'[job'[n].id].status # "none" /\ backups'[job'[n].id].node = n
                    /\ job'[n].kind # "none" => pass'[n].at = "jobs"
    BY DEF JobsOwn
<1>1. RowsPersist /\ JobMoves(n)
  BY RowsPersisting, JobsMove
<1>2. /\ \A b \in pass[n].backups : backups[b].status # "none" /\ backups[b].node = n
      /\ job[n].kind = "backup" =>
           /\ job[n].id \in BackupIds \ pass[n].backups
           /\ backups[job[n].id].status # "none" /\ backups[job[n].id].node = n
      /\ job[n].kind # "none" => pass[n].at = "jobs"
  BY DEF JobsOwn
<1>3. pass[n].backups \subseteq BackupIds
  BY DEF BackupTypeOK
<1>4. CASE JobsStay(n)
  BY <1>1, <1>2, <1>3, <1>4 DEF JobsStay, RowsPersist, NoJob
<1>5. CASE JobsEnd(n)
  BY <1>5 DEF JobsEnd, Idle, NoJob
<1>6. CASE JobsCome(n)
  BY <1>1, <1>2, <1>6 DEF JobsCome, RowsPersist
<1>7. CASE PassGoesOn(n)
  BY <1>1, <1>2, <1>3, <1>7 DEF PassGoesOn, RowsPersist
<1>8. CASE JobBegins(n)
  <2>1. ASSUME NEW b \in pass[n].backups, job'[n] = [kind |-> "backup", id |-> b, at |-> "claim"],
               pass'[n].backups = pass[n].backups \ {b}
        PROVE  /\ \A c \in pass'[n].backups : backups'[c].status # "none" /\ backups'[c].node = n
               /\ job'[n].id \in BackupIds \ pass'[n].backups
               /\ backups'[job'[n].id].status # "none" /\ backups'[job'[n].id].node = n
    BY <1>1, <1>2, <1>3, <2>1 DEF RowsPersist
  <2>2. ASSUME job'[n].kind = "restore", pass'[n].backups = pass[n].backups
        PROVE  \A c \in pass'[n].backups : backups'[c].status # "none" /\ backups'[c].node = n
    BY <1>1, <1>2, <1>3, <2>2 DEF RowsPersist
  <2>3. pass'[n].at = "jobs"
    BY <1>8 DEF JobBegins
  <2>4. CASE job'[n].kind = "restore" /\ pass'[n].backups = pass[n].backups
    BY <2>2, <2>3, <2>4
  <2> QED BY <1>8, <2>1, <2>3, <2>4 DEF JobBegins
<1> QED BY <1>1, <1>4, <1>5, <1>6, <1>7, <1>8 DEF JobMoves

\* A complete backup has no job left that could report it failed.
Settled ==
  \A b \in Complete : \A n \in Nodes :
    b \notin pass[n].backups /\ ~(job[n].kind = "backup" /\ job[n].id = b)

\* What pruning has found in excess, or is deleting; and a newer backup that is
\* complete and not among it, for each.
OnTheWay  == pruning \cup ({deleting["prune"].id} \ {NoId})
NewerKept == \A b \in OnTheWay : \E c \in Complete : c > b /\ c \notin OnTheWay

LastKept == Settled /\ NewerKept /\ deleting["user"].id = NoId

BackupInv == BackupTypeOK /\ JobsOwn /\ (waived \/ LastKept)

LEMMA Least ==
  ASSUME NEW S \in SUBSET Nat, S # {}
  PROVE  \E x \in S : \A y \in S : x <= y
<1>1. PICK x \in S : \A y \in S : <<y, x>> \notin OpToRel(<, Nat)
  BY NatLessThanWellFounded, WFMin
<1>2. \A y \in S : ~(y < x)
  BY <1>1 DEF OpToRel
<1> QED BY <1>2

LEMMA Newest ==
  ASSUME NEW S \in SUBSET BackupIds, S # {}
  PROVE  \E x \in S : \A y \in S : y <= x
<1> DEFINE ages == {MaxBackups - b : b \in S}
<1>1. ages \in SUBSET Nat /\ ages # {}
  <2>1. \A b \in S : MaxBackups - b \in Nat
    BY DEF BackupIds
  <2>2. PICK b \in S : TRUE
    OBVIOUS
  <2>3. MaxBackups - b \in ages
    OBVIOUS
  <2> QED BY <2>1, <2>3
<1>2. PICK a \in ages : \A y \in ages : a <= y
  <2> HIDE DEF ages
  <2> QED BY <1>1, Least
<1>3. PICK x \in S : a = MaxBackups - x
  BY <1>2
<1>4. \A y \in S : MaxBackups - x <= MaxBackups - y
  BY <1>2, <1>3
<1> QED BY <1>4 DEF BackupIds

\* Only the deletion of a backup makes it cease to be complete.
LEMMA CompleteLasts ==
  ASSUME BackupTypeOK, JobsOwn, LastKept, [BackupNext]_backupVars, ~waived',
         NEW b \in Complete, b \notin Complete'
  PROVE  b = deleting["prune"].id
<1> USE DEF service, agents, control
<1>1. backups \in [BackupIds -> BackupRow] /\ b \in BackupIds /\ backups[b].status = "complete"
  BY DEF BackupTypeOK, BackupRow, Complete
<1>2. backups'[b].status # "complete"
  BY <1>1 DEF Complete
<1>3. ASSUME NEW c \in Callers, InsertBackup(c) PROVE FALSE
  BY <1>1, <1>2, <1>3 DEF InsertBackup, LowestFree
<1>4. ASSUME NEW d \in Deleters, DeleteRow(d) PROVE b = deleting["prune"].id
  BY <1>1, <1>2, <1>4 DEF DeleteRow, Deleters, LastKept
<1>5. CASE SweepStalled
  BY <1>1, <1>2, <1>5 DEF SweepStalled, FailStalled, BackupRow
<1>6. ASSUME NEW n \in Nodes, ClaimBackup(n) PROVE FALSE
  BY <1>1, <1>2, <1>6 DEF ClaimBackup, BackupRow
<1>7. ASSUME NEW n \in Nodes, CompleteBackup(n) PROVE FALSE
  BY <1>1, <1>2, <1>7 DEF CompleteBackup, BackupRow
<1>8. ASSUME NEW n \in Nodes, ReportFailedBackup(n) PROVE FALSE
  <2>1. job[n].id # b
    BY <1>8 DEF ReportFailedBackup, At, LastKept, Settled
  <2> QED BY <1>1, <1>2, <1>8, <2>1 DEF ReportFailedBackup
<1>9. UNCHANGED backups => FALSE
  BY <1>1, <1>2
<1>10. CASE \/ \E n \in Nodes : DeployService(n) \/ AgentRestarts(n) \/ NodeLost(n)
            \/ StopService \/ OthersChange \/ \E c \in Callers : AskForBackup(c)
            \/ \E c \in BackupIds : RequestRestore(c) \/ DeleteBackup(c) \/ PruneNext(c)
            \/ \E d \in Deleters : RemoveArchive(d)
            \/ PruneOldBackups \/ UNCHANGED backupVars
  BY <1>9, <1>10 DEF DeployService, AgentRestarts, NodeLost, StopService, OthersChange, AskForBackup, RequestRestore,
                      DeleteBackup, PruneNext, RemoveArchive, PruneOldBackups, backupVars
<1>11. CASE \E n \in Nodes : \/ FetchDesired(n) \/ ReconcileService(n) \/ NextJob(n)
                             \/ ReadVolume(n) \/ UploadBackup(n)
                             \/ FetchRestore(n) \/ WriteVolume(n) \/ ReportRestore(n)
  BY <1>9, <1>11 DEF FetchDesired, ReconcileService, NextJob, ReadVolume, UploadBackup,
                      FetchRestore, WriteVolume, ReportRestore
<1> QED BY <1>3, <1>4, <1>5, <1>6, <1>7, <1>8, <1>10, <1>11 DEF BackupNext

\* A backup becomes complete as its job ends, unless the reply is lost.
LEMMA CompleteComes ==
  ASSUME BackupTypeOK, JobsOwn, [BackupNext]_backupVars, ~waived',
         NEW b \in Complete', b \notin Complete
  PROVE  \E n \in Nodes : /\ job[n].kind = "backup" /\ job[n].id = b
                         /\ pass' = pass /\ job' = [job EXCEPT ![n] = NoJob]
<1> USE DEF service, agents, control
<1>1. backups \in [BackupIds -> BackupRow] /\ b \in BackupIds /\ backups[b].status # "complete"
  BY DEF BackupTypeOK, BackupRow, Complete
<1>2. backups'[b].status = "complete"
  BY <1>1 DEF Complete
<1>3. ASSUME NEW c \in Callers, InsertBackup(c) PROVE FALSE
  BY <1>1, <1>2, <1>3 DEF InsertBackup
<1>4. ASSUME NEW d \in Deleters, DeleteRow(d) PROVE FALSE
  BY <1>1, <1>2, <1>4 DEF DeleteRow, BackupRow
<1>5. CASE SweepStalled
  BY <1>1, <1>2, <1>5 DEF SweepStalled, FailStalled, BackupRow
<1>6. ASSUME NEW n \in Nodes, ClaimBackup(n) PROVE FALSE
  BY <1>1, <1>2, <1>6 DEF ClaimBackup, BackupRow
<1>7. ASSUME NEW n \in Nodes, CompleteBackup(n)
      PROVE  /\ job[n].kind = "backup" /\ job[n].id = b
             /\ pass' = pass /\ job' = [job EXCEPT ![n] = NoJob]
  <2>1. job[n].kind = "backup" /\ pass' = pass
    BY <1>7 DEF CompleteBackup, At
  <2>2. job[n].id = b
    BY <1>1, <1>2, <1>7 DEF CompleteBackup, BackupRow
  <2>3. CASE JobDone(n)
    BY <2>1, <2>2, <2>3 DEF JobDone
  <2>4. CASE waived'
    BY <2>4
  <2>5. CASE UNCHANGED backups
    BY <1>1, <1>2, <2>5
  <2> QED BY <1>7, <2>3, <2>4, <2>5 DEF CompleteBackup
<1>8. ASSUME NEW n \in Nodes, ReportFailedBackup(n) PROVE FALSE
  BY <1>1, <1>2, <1>8 DEF ReportFailedBackup, BackupRow
<1>9. UNCHANGED backups => FALSE
  BY <1>1, <1>2
<1>10. CASE \/ \E n \in Nodes : DeployService(n) \/ AgentRestarts(n) \/ NodeLost(n)
            \/ StopService \/ OthersChange \/ \E c \in Callers : AskForBackup(c)
            \/ \E c \in BackupIds : RequestRestore(c) \/ DeleteBackup(c) \/ PruneNext(c)
            \/ \E d \in Deleters : RemoveArchive(d)
            \/ PruneOldBackups \/ UNCHANGED backupVars
  BY <1>9, <1>10 DEF DeployService, AgentRestarts, NodeLost, StopService, OthersChange, AskForBackup, RequestRestore,
                      DeleteBackup, PruneNext, RemoveArchive, PruneOldBackups, backupVars
<1>11. CASE \E n \in Nodes : \/ FetchDesired(n) \/ ReconcileService(n) \/ NextJob(n)
                             \/ ReadVolume(n) \/ UploadBackup(n)
                             \/ FetchRestore(n) \/ WriteVolume(n) \/ ReportRestore(n)
  BY <1>9, <1>11 DEF FetchDesired, ReconcileService, NextJob, ReadVolume, UploadBackup,
                      FetchRestore, WriteVolume, ReportRestore
<1> QED BY <1>3, <1>4, <1>5, <1>6, <1>7, <1>8, <1>10, <1>11 DEF BackupNext

\* The newest complete backup is never in excess.
LEMMA NewestStays ==
  ASSUME Complete # {}
  PROVE  \E c \in Complete : c \notin Excess /\ \A b \in Complete : b <= c
<1>1. PICK c \in Complete : \A b \in Complete : b <= c
  BY Newest DEF Complete
<1>2. {x \in Complete : x > c} = {}
  BY <1>1 DEF Complete, BackupIds
<1>3. Cardinality({x \in Complete : x > c}) = 0
  BY <1>2, FS_EmptySet
<1>4. c \notin Excess
  BY <1>3 DEF Excess
<1> QED BY <1>1, <1>4

\* What is on its way out was, unless pruning has just looked.
LEMMA DeletionsOnTheWay ==
  ASSUME BackupTypeOK, LastKept, [BackupNext]_backupVars, ~waived'
  PROVE  /\ deleting'["user"].id = NoId
         /\ OnTheWay' \subseteq OnTheWay \/ (OnTheWay' = Excess /\ backups' = backups)
<1> USE DEF service, agents, control
<1>1. /\ deleting \in [Deleters -> [id : BackupIds \cup {NoId}, stored : BOOLEAN]]
      /\ deleting["user"].id = NoId
  BY DEF BackupTypeOK, LastKept
<1> DEFINE Goal == /\ deleting'["user"].id = NoId
                   /\ OnTheWay' \subseteq OnTheWay \/ (OnTheWay' = Excess /\ backups' = backups)
<1> SUFFICES Goal
    OBVIOUS
<1>2. UNCHANGED <<pruning, deleting>> => Goal
  BY <1>1 DEF OnTheWay
<1>3. ASSUME NEW b \in BackupIds, PruneNext(b) PROVE Goal
  <2>1. CASE ReadForDeletion("prune", b)
    <3>1. /\ deleting'["user"] = deleting["user"] /\ deleting'["prune"].id = b
          /\ b \in pruning /\ pruning' = pruning \ {b}
      BY <1>1, <1>3, <2>1 DEF ReadForDeletion, Deleters, PruneNext
    <3> QED BY <1>1, <3>1 DEF OnTheWay
  <2>2. CASE UNCHANGED deleting
    BY <1>1, <1>3, <2>2 DEF PruneNext, OnTheWay
  <2> QED BY <1>3, <2>1, <2>2 DEF PruneNext
<1>4. ASSUME NEW d \in Deleters, RemoveArchive(d) PROVE Goal
  BY <1>1, <1>4 DEF RemoveArchive, Deleters, OnTheWay
<1>5. ASSUME NEW d \in Deleters, DeleteRow(d) PROVE Goal
  BY <1>1, <1>5 DEF DeleteRow, Deleters, OnTheWay
<1>6. CASE PruneOldBackups
  BY <1>1, <1>6 DEF PruneOldBackups, OnTheWay
<1>7. ASSUME NEW b \in BackupIds, DeleteBackup(b) PROVE Goal
  BY <1>7 DEF DeleteBackup
<1>8. CASE \/ \E n \in Nodes : DeployService(n) \/ AgentRestarts(n) \/ NodeLost(n)
           \/ StopService \/ OthersChange \/ (\E c \in Callers : AskForBackup(c) \/ InsertBackup(c))
           \/ (\E b \in BackupIds : RequestRestore(b)) \/ SweepStalled \/ UNCHANGED backupVars
  BY <1>2, <1>8 DEF DeployService, AgentRestarts, NodeLost, StopService, OthersChange, AskForBackup, InsertBackup,
                    RequestRestore, SweepStalled, backupVars
<1>9. CASE \E n \in Nodes : FetchDesired(n) \/ ReconcileService(n) \/ NextJob(n)
  BY <1>2, <1>9 DEF FetchDesired, ReconcileService, NextJob
<1>10. CASE \E n \in Nodes : \/ ClaimBackup(n) \/ ReadVolume(n) \/ UploadBackup(n) \/ CompleteBackup(n)
                             \/ ReportFailedBackup(n) \/ FetchRestore(n) \/ WriteVolume(n)
                             \/ ReportRestore(n)
  BY <1>2, <1>10 DEF ClaimBackup, ReadVolume, UploadBackup, CompleteBackup, ReportFailedBackup,
                     FetchRestore, WriteVolume, ReportRestore
<1> HIDE DEF Goal
<1>11. CASE \E b \in BackupIds : RequestRestore(b) \/ DeleteBackup(b) \/ PruneNext(b)
  BY <1>3, <1>7, <1>8, <1>11
<1>12. CASE \E d \in Deleters : RemoveArchive(d) \/ DeleteRow(d)
  BY <1>4, <1>5, <1>12
<1> QED BY <1>6, <1>8, <1>9, <1>10, <1>11, <1>12 DEF BackupNext

LEMMA KeptStep ==
  ASSUME BackupTypeOK, JobsOwn, LastKept, [BackupNext]_backupVars, ~waived'
  PROVE  /\ LastKept'
         /\ Complete # {} => Complete' # {}
<1>1. /\ Complete \subseteq BackupIds /\ NoId \notin BackupIds
      /\ \A c \in Complete : c \notin OnTheWay => c \in Complete'
  <2>1. Complete \subseteq BackupIds /\ NoId \notin BackupIds
    BY DEF Complete, BackupIds, NoId
  <2>2. ASSUME NEW c \in Complete, c \notin OnTheWay PROVE c \in Complete'
    BY <2>1, <2>2, CompleteLasts DEF OnTheWay
  <2> QED BY <2>1, <2>2
<1>2. NewerKept'
  <2>1. CASE OnTheWay' \subseteq OnTheWay
    <3>1. ASSUME NEW b \in OnTheWay' PROVE \E c \in Complete' : c > b /\ c \notin OnTheWay'
      <4>1. PICK c \in Complete : c > b /\ c \notin OnTheWay
        BY <2>1, <3>1 DEF LastKept, NewerKept
      <4> QED BY <1>1, <2>1, <4>1
    <3> QED BY <3>1 DEF NewerKept
  <2>2. CASE OnTheWay' = Excess /\ backups' = backups
    <3>1. Complete' = Complete
      BY <2>2 DEF Complete
    <3>2. ASSUME NEW b \in Excess PROVE \E c \in Complete : c > b /\ c \notin Excess
      <4>1. b \in Complete
        BY DEF Excess
      <4>2. PICK c \in Complete : c \notin Excess /\ \A x \in Complete : x <= c
        BY <4>1, NewestStays
      <4>3. b <= c /\ b # c
        BY <4>1, <4>2
      <4> QED BY <1>1, <4>1, <4>2, <4>3 DEF BackupIds
    <3> QED BY <2>2, <3>1, <3>2 DEF NewerKept
  <2> QED BY <2>1, <2>2, DeletionsOnTheWay
<1>3. Settled'
  <2> SUFFICES ASSUME NEW b \in Complete', NEW n \in Nodes
               PROVE  b \notin pass'[n].backups /\ ~(job'[n].kind = "backup" /\ job'[n].id = b)
      BY DEF Settled
  <2>1. CASE b \in Complete
    <3>1. b \notin pass[n].backups /\ ~(job[n].kind = "backup" /\ job[n].id = b)
      BY <2>1 DEF LastKept, Settled
    <3>2. backups[b].status = "complete" /\ JobMoves(n)
      BY <2>1, JobsMove DEF Complete
    <3>3. CASE JobsStay(n) \/ PassGoesOn(n)
      BY <3>1, <3>3 DEF JobsStay, PassGoesOn, NoJob
    <3>4. CASE JobsEnd(n)
      BY <3>4 DEF JobsEnd, Idle, NoJob
    <3>5. CASE JobsCome(n)
      BY <3>1, <3>2, <3>5 DEF JobsCome
    <3>6. CASE JobBegins(n)
      <4>1. ASSUME NEW c \in pass[n].backups, job'[n] = [kind |-> "backup", id |-> c, at |-> "claim"]
            PROVE  job'[n].id # b
        BY <3>1, <4>1
      <4>2. pass'[n].backups \subseteq pass[n].backups
        BY <3>6 DEF JobBegins
      <4>3. CASE job'[n].kind = "restore"
        BY <3>1, <4>2, <4>3
      <4> QED BY <3>1, <3>6, <4>1, <4>2, <4>3 DEF JobBegins
    <3> QED BY <3>2, <3>3, <3>4, <3>5, <3>6 DEF JobMoves
  <2>2. CASE b \notin Complete
    <3>1. PICK m \in Nodes : /\ job[m].kind = "backup" /\ job[m].id = b
                            /\ pass' = pass /\ job' = [job EXCEPT ![m] = NoJob]
      BY <2>2, CompleteComes
    <3>2. job \in [Nodes -> Job]
      BY DEF BackupTypeOK, Job
    <3>3. CASE n = m
      BY <3>1, <3>2, <3>3 DEF JobsOwn, NoJob
    <3>4. CASE n # m
      <4>1. job'[n] = job[n] /\ pass'[n] = pass[n] /\ backups[b].node # n
        BY <3>1, <3>2, <3>4 DEF JobsOwn
      <4> QED BY <4>1 DEF JobsOwn
    <3> QED BY <3>3, <3>4
  <2> QED BY <2>1, <2>2
<1>4. Complete # {} => Complete' # {}
  <2> SUFFICES ASSUME NEW c \in Complete, c \notin Complete' PROVE Complete' # {}
      OBVIOUS
  <2>1. c \in OnTheWay
    BY <1>1
  <2> QED BY <1>1, <2>1 DEF LastKept, NewerKept
<1> QED BY <1>2, <1>3, <1>4, DeletionsOnTheWay DEF LastKept

LEMMA BackupInvInitially == BackupInit => BackupInv
<1> SUFFICES ASSUME BackupInit PROVE LastKept
    BY BackupInitially, JobsOwnInitially DEF BackupInv
<1>1. Complete = {} /\ OnTheWay = {} /\ deleting["user"].id = NoId
  BY DEF BackupInit, Complete, NoBackup, OnTheWay, Deleters
<1> QED BY <1>1 DEF LastKept, Settled, NewerKept

LEMMA BackupInvStep ==
  BackupInv /\ [BackupNext]_backupVars =>
    /\ BackupInv'
    /\ (Complete # {} /\ Complete' = {} => waived') \/ UNCHANGED backupVars
<1> SUFFICES ASSUME BackupInv, [BackupNext]_backupVars
             PROVE  /\ BackupInv'
                    /\ (Complete # {} /\ Complete' = {} => waived')
    OBVIOUS
<1>1. BackupTypeOK' /\ JobsOwn'
  BY BackupTypeStep, JobsOwnStep DEF BackupInv
<1>2. waived' \/ (LastKept' /\ (Complete # {} => Complete' # {}))
  <2>1. waived => waived'
    BY DEF BackupNext, DeployService, AgentRestarts, NodeLost, StopService, OthersChange, AskForBackup, InsertBackup,
           RequestRestore, DeleteBackup, PruneNext, RemoveArchive, DeleteRow, PruneOldBackups,
           SweepStalled, FetchDesired, ReconcileService, NextJob, ClaimBackup, ReadVolume, UploadBackup,
           CompleteBackup, ReportFailedBackup, FetchRestore, WriteVolume, ReportRestore, backupVars
  <2> QED BY <2>1, KeptStep DEF BackupInv
<1> QED BY <1>1, <1>2 DEF BackupInv

\* The rows, the archives and the agents' passes keep the values the code gives
\* them: no job is of a row that was never inserted.
THEOREM BackupTyped == BackupSpec => []BackupTypeOK
<1>1. BackupInv => BackupTypeOK
  BY DEF BackupInv
<1> QED BY <1>1, BackupInvInitially, BackupInvStep, PTL DEF BackupSpec

\* For any number of backups kept (pruneOldBackups' keep), of nodes and of losses:
\* the last complete backup is lost neither to pruning, nor to the sweeper, nor to
\* a report that comes late, until a user deletes one or a reply is lost.
THEOREM LastBackupKept == BackupSpec => GoodArchiveSurvives
<1>1. BackupInv /\ [BackupNext]_backupVars =>
        [Complete # {} /\ Complete' = {} => waived']_backupVars
  BY BackupInvStep
<1> QED BY <1>1, BackupInvInitially, BackupInvStep, PTL DEF BackupSpec, GoodArchiveSurvives

\* A row that is complete, or whose upload is stored and will be called so.
HasUpload(b) ==
  /\ Exists(b)
  /\ \/ backups[b].status = "complete"
     \/ \E n \in Nodes : job[n].kind = "backup" /\ job[n].at = "stored" /\ job[n].id = b

Archived(b) == b \in files \/ \E d \in Deleters : deleting[d].id = b

ArchivesHeld == \A b \in BackupIds : HasUpload(b) => Archived(b)

\* An archive goes only with a deletion that is under way until its row is gone.
LEMMA ArchivesStay ==
  ASSUME BackupTypeOK, [BackupNext]_backupVars, NEW b \in BackupIds, Archived(b), Exists(b)'
  PROVE  Archived(b)'
<1> USE DEF service, agents, control
<1>1. /\ deleting \in [Deleters -> [id : BackupIds \cup {NoId}, stored : BOOLEAN]]
      /\ backups \in [BackupIds -> BackupRow] /\ b # NoId
  BY DEF BackupTypeOK, BackupRow, BackupIds, NoId
<1>2. UNCHANGED <<files, deleting>> => Archived(b)'
  BY DEF Archived
<1>3. ASSUME NEW n \in Nodes, UploadBackup(n) PROVE Archived(b)'
  BY <1>3 DEF UploadBackup, Archived
<1>4. ASSUME NEW d \in Deleters, RemoveArchive(d) PROVE Archived(b)'
  BY <1>1, <1>4 DEF RemoveArchive, Archived
<1>5. ASSUME NEW d \in Deleters, DeleteRow(d) PROVE Archived(b)'
  <2>1. b # deleting[d].id
    BY <1>1, <1>5 DEF DeleteRow, Exists, BackupRow
  <2> QED BY <1>1, <1>5, <2>1 DEF DeleteRow, Archived
<1>6. ASSUME NEW d \in Deleters, NEW c \in BackupIds, ReadForDeletion(d, c), UNCHANGED files
      PROVE  Archived(b)'
  BY <1>1, <1>6 DEF ReadForDeletion, Archived
<1>7. ASSUME NEW c \in BackupIds, DeleteBackup(c) \/ PruneNext(c) PROVE Archived(b)'
  BY <1>2, <1>6, <1>7 DEF DeleteBackup, PruneNext, Deleters
<1>8. CASE \/ \E n \in Nodes : DeployService(n) \/ AgentRestarts(n) \/ NodeLost(n)
           \/ StopService \/ OthersChange \/ (\E c \in Callers : AskForBackup(c) \/ InsertBackup(c))
           \/ (\E c \in BackupIds : RequestRestore(c)) \/ PruneOldBackups \/ SweepStalled
           \/ UNCHANGED backupVars
  BY <1>2, <1>8 DEF DeployService, AgentRestarts, NodeLost, StopService, OthersChange, AskForBackup, InsertBackup,
                    RequestRestore, PruneOldBackups, SweepStalled, backupVars
<1>9. CASE \E n \in Nodes : \/ FetchDesired(n) \/ ReconcileService(n) \/ NextJob(n)
                            \/ ClaimBackup(n) \/ ReadVolume(n) \/ CompleteBackup(n)
                            \/ ReportFailedBackup(n) \/ FetchRestore(n) \/ WriteVolume(n)
                            \/ ReportRestore(n)
  BY <1>2, <1>9 DEF FetchDesired, ReconcileService, NextJob, ClaimBackup, ReadVolume, CompleteBackup,
                    ReportFailedBackup, FetchRestore, WriteVolume, ReportRestore
<1>10. CASE \E c \in BackupIds : RequestRestore(c) \/ DeleteBackup(c) \/ PruneNext(c)
  BY <1>7, <1>8, <1>10
<1>11. CASE \E d \in Deleters : RemoveArchive(d) \/ DeleteRow(d)
  BY <1>4, <1>5, <1>11
<1>12. CASE \E n \in Nodes :
              \/ FetchDesired(n) \/ ReconcileService(n) \/ NextJob(n)
              \/ ClaimBackup(n) \/ ReadVolume(n) \/ UploadBackup(n) \/ CompleteBackup(n)
              \/ ReportFailedBackup(n) \/ FetchRestore(n) \/ WriteVolume(n) \/ ReportRestore(n)
  BY <1>3, <1>9, <1>12
<1> QED BY <1>8, <1>10, <1>11, <1>12 DEF BackupNext

\* An upload is stored before its job, and then its row, says so.
LEMMA UploadsCome ==
  ASSUME BackupTypeOK, JobsOwn, [BackupNext]_backupVars, NEW b \in BackupIds, HasUpload(b)'
  PROVE  HasUpload(b) \/ b \in files'
<1> USE DEF service, agents, control
<1>1. /\ backups \in [BackupIds -> BackupRow] /\ job \in [Nodes -> Job]
  BY DEF BackupTypeOK, BackupRow, Job
<1>2. ASSUME UNCHANGED job, \A c \in BackupIds : backups'[c] = backups[c] PROVE HasUpload(b)
  BY <1>2 DEF HasUpload, Exists
<1>3. ASSUME NEW n \in Nodes, UNCHANGED backups,
             \/ \E at \in {"claim", "read", "upload", "fetch", "write", "done", "failed"} : JobTo(n, at)
             \/ JobDone(n)
      PROVE  HasUpload(b)
  BY <1>1, <1>3 DEF HasUpload, Exists, JobTo, JobDone, NoJob, Job
<1>4. ASSUME NEW c \in Callers, InsertBackup(c) PROVE HasUpload(b)
  <2>1. UNCHANGED job
    BY <1>4 DEF InsertBackup
  <2>2. CASE UNCHANGED backups
    BY <1>2, <2>1, <2>2
  <2>3. ASSUME NEW i \in LowestFree(BackupIds, backups),
               backups' = [backups EXCEPT ![i] = [status |-> "pending", node |-> asking[c], stored |-> FALSE]]
        PROVE  HasUpload(b)
    <3>1. backups[i].status = "none" /\ i \in BackupIds
      BY DEF LowestFree
    <3>2. i # b
      BY <1>1, <2>1, <2>3, <3>1 DEF HasUpload, JobsOwn
    <3> QED BY <1>1, <2>1, <2>3, <3>2 DEF HasUpload, Exists
  <2> QED BY <1>4, <2>2, <2>3 DEF InsertBackup
<1>5. ASSUME NEW d \in Deleters, DeleteRow(d) PROVE HasUpload(b)
  BY <1>1, <1>5 DEF DeleteRow, HasUpload, Exists, BackupRow
<1>6. CASE SweepStalled
  BY <1>1, <1>6 DEF SweepStalled, FailStalled, HasUpload, Exists, BackupRow
<1>7. ASSUME NEW n \in Nodes, AgentRestarts(n) \/ NodeLost(n) PROVE HasUpload(b)
  BY <1>1, <1>7 DEF AgentRestarts, NodeLost, HasUpload, Exists, NoJob
<1>8. ASSUME NEW n \in Nodes, NextJob(n) PROVE HasUpload(b)
  BY <1>1, <1>8 DEF NextJob, HasUpload, Exists
<1>9. ASSUME NEW n \in Nodes, ClaimBackup(n) PROVE HasUpload(b)
  <2>1. \A c \in BackupIds : backups'[c].status \in {backups[c].status} \/
                             (backups[c].status = "pending" /\ backups'[c].status = "running")
    BY <1>1, <1>9 DEF ClaimBackup, BackupRow
  <2>2. JobTo(n, "read") \/ JobTo(n, "failed")
    BY <1>9 DEF ClaimBackup
  <2>3. \A m \in Nodes : job'[m].kind = "backup" /\ job'[m].at = "stored" => job'[m] = job[m]
    BY <1>1, <2>2 DEF JobTo, Job
  <2> QED BY <2>1, <2>3 DEF HasUpload, Exists
<1>10. ASSUME NEW n \in Nodes, UploadBackup(n) PROVE HasUpload(b) \/ b \in files'
  <2>1. UNCHANGED backups
    BY <1>10 DEF UploadBackup
  <2>2. CASE JobTo(n, "failed")
    BY <1>3, <2>1, <2>2
  <2>3. CASE files' = files \cup {job[n].id} /\ JobTo(n, "stored")
    BY <1>1, <2>1, <2>3 DEF HasUpload, Exists, JobTo, Job
  <2> QED BY <1>10, <2>2, <2>3 DEF UploadBackup
<1>11. ASSUME NEW n \in Nodes, CompleteBackup(n) PROVE HasUpload(b)
  <2>1. job[n].kind = "backup" /\ job[n].at = "stored" /\ (JobDone(n) \/ JobTo(n, "failed"))
    BY <1>11 DEF CompleteBackup, At
  <2>2. CASE UNCHANGED backups
    BY <1>3, <2>1, <2>2
  <2>3. CASE /\ Exists(job[n].id)
             /\ backups' = [backups EXCEPT ![job[n].id].status = "complete", ![job[n].id].stored = TRUE]
    <3>1. CASE b = job[n].id
      BY <2>1, <2>3, <3>1 DEF HasUpload
    <3>2. CASE b # job[n].id
      BY <1>1, <2>1, <2>3, <3>2 DEF HasUpload, Exists, JobDone, JobTo, NoJob, Job
    <3> QED BY <3>1, <3>2
  <2> QED BY <1>11, <2>2, <2>3 DEF CompleteBackup
<1>12. ASSUME NEW n \in Nodes, ReportFailedBackup(n) PROVE HasUpload(b)
  <2>1. JobDone(n) /\ job[n].at = "failed"
    BY <1>12 DEF ReportFailedBackup, At
  <2>2. CASE UNCHANGED backups
    BY <1>3, <2>1, <2>2
  <2>3. CASE Exists(job[n].id) /\ backups' = [backups EXCEPT ![job[n].id].status = "failed"]
    BY <1>1, <2>1, <2>3 DEF HasUpload, Exists, JobDone, NoJob, BackupRow
  <2> QED BY <1>12, <2>2, <2>3 DEF ReportFailedBackup
<1>13. ASSUME NEW n \in Nodes, ReadVolume(n) \/ FetchRestore(n) \/ WriteVolume(n) \/ ReportRestore(n)
       PROVE  HasUpload(b)
  BY <1>3, <1>13 DEF ReadVolume, FetchRestore, WriteVolume, ReportRestore
<1>14. CASE \/ \E n \in Nodes : DeployService(n) \/ FetchDesired(n) \/ ReconcileService(n)
            \/ StopService \/ OthersChange \/ (\E c \in Callers : AskForBackup(c))
            \/ (\E c \in BackupIds : RequestRestore(c) \/ DeleteBackup(c) \/ PruneNext(c))
            \/ (\E d \in Deleters : RemoveArchive(d)) \/ PruneOldBackups \/ UNCHANGED backupVars
  BY <1>2, <1>14 DEF DeployService, FetchDesired, ReconcileService, StopService, OthersChange,
                     AskForBackup, RequestRestore, DeleteBackup, PruneNext, RemoveArchive,
                     PruneOldBackups, backupVars
<1>15. CASE \E n \in Nodes :
              \/ FetchDesired(n) \/ ReconcileService(n) \/ NextJob(n)
              \/ ClaimBackup(n) \/ ReadVolume(n) \/ UploadBackup(n) \/ CompleteBackup(n)
              \/ ReportFailedBackup(n) \/ FetchRestore(n) \/ WriteVolume(n) \/ ReportRestore(n)
  BY <1>8, <1>9, <1>10, <1>11, <1>12, <1>13, <1>14, <1>15
<1> QED BY <1>4, <1>5, <1>6, <1>7, <1>14, <1>15 DEF BackupNext

\* A row says complete only of an archive that is there, or is being deleted with
\* it: an upload comes before the row's update, and a deletion ends with the row.
THEOREM ArchivesKept == BackupSpec => []CompleteHasArchive
<1>1. BackupInit => ArchivesHeld
  BY DEF BackupInit, ArchivesHeld, HasUpload, Exists, NoBackup
<1>2. BackupInv /\ ArchivesHeld /\ [BackupNext]_backupVars => ArchivesHeld'
  <2> SUFFICES ASSUME BackupInv, ArchivesHeld, [BackupNext]_backupVars,
                      NEW b \in BackupIds, HasUpload(b)'
               PROVE  Archived(b)'
      BY DEF ArchivesHeld
  <2>1. HasUpload(b) \/ b \in files'
    BY UploadsCome DEF BackupInv
  <2>2. CASE b \in files'
    BY <2>2 DEF Archived
  <2>3. CASE HasUpload(b)
    <3>1. Archived(b) /\ Exists(b)'
      BY <2>3 DEF ArchivesHeld, HasUpload
    <3> QED BY <3>1, ArchivesStay DEF BackupInv
  <2> QED BY <2>1, <2>2, <2>3
<1>3. ArchivesHeld => CompleteHasArchive
  BY DEF ArchivesHeld, HasUpload, Archived, CompleteHasArchive, Complete, Exists
<1> QED BY <1>1, <1>2, <1>3, BackupInvInitially, BackupInvStep, PTL DEF BackupSpec

-----------------------------------------------------------------------------
(* Placement: a node is promised no more than it has.                       *)

USE PlacementAssumption

\* The rows that were decided on and not overtaken fit, and so does every decision
\* that is not overtaken, beside the rows that are not unchecked.
CheckedFit == \A m \in Machines : Load(RowsAt(m) \ (raced \cup unchecked)) <= Capacity[m]

DecisionsFit ==
  \A w \in Workloads, m \in Machines : deciding[w] = m =>
    [of |-> w, on |-> m] \in raced \/ Load(RowsAt(m) \ unchecked) + Ram[w] <= Capacity[m]

PlacementInv == PlacementTypeOK /\ IsFiniteSet(rows) /\ CheckedFit /\ DecisionsFit

LEMMA UnitsOfRow ==
  ASSUME NEW r \in RowOf
  PROVE  /\ IsFiniteSet({r} \X (1..Ram[r.of]))
         /\ Cardinality({r} \X (1..Ram[r.of])) = Ram[r.of]
<1>1. Ram[r.of] \in Nat
  BY DEF RowOf
<1>2. IsFiniteSet({r}) /\ Cardinality({r}) = 1
  BY FS_Singleton
<1>3. IsFiniteSet(1..Ram[r.of]) /\ Cardinality(1..Ram[r.of]) = Ram[r.of]
  <2>1. 1 \in Int /\ Ram[r.of] \in Int
    BY <1>1
  <2>2. /\ IsFiniteSet(1..Ram[r.of])
        /\ Cardinality(1..Ram[r.of]) = IF 1 > Ram[r.of] THEN 0 ELSE Ram[r.of] - 1 + 1
    BY <2>1, FS_Interval
  <2> QED BY <1>1, <2>2
<1>4. /\ IsFiniteSet({r} \X (1..Ram[r.of]))
      /\ Cardinality({r} \X (1..Ram[r.of])) = Cardinality({r}) * Cardinality(1..Ram[r.of])
  BY <1>2, <1>3, FS_Product
<1> QED BY <1>1, <1>2, <1>3, <1>4

LEMMA LoadFinite ==
  ASSUME NEW some \in SUBSET RowOf, IsFiniteSet(some)
  PROVE  /\ IsFiniteSet(UNION {{r} \X (1..Ram[r.of]) : r \in some})
         /\ Load(some) \in Nat
<1> DEFINE shares == {{r} \X (1..Ram[r.of]) : r \in some}
<1>1. IsFiniteSet(shares)
  <2> DEFINE f == [r \in some |-> {r} \X (1..Ram[r.of])]
  <2>1. f \in Surjection(some, shares)
    BY DEF Surjection
  <2> HIDE DEF shares, f
  <2> QED BY <2>1, FS_Surjection
<1>2. \A u \in shares : IsFiniteSet(u)
  BY UnitsOfRow
<1>3. IsFiniteSet(UNION shares)
  <2> HIDE DEF shares
  <2> QED BY <1>1, <1>2, FS_UNION
<1> QED BY <1>3, FS_CardinalityType DEF Load

\* Rows that are gone give back what they were promised.
LEMMA FewerRows ==
  ASSUME NEW some \in SUBSET RowOf, IsFiniteSet(some), NEW fewer \in SUBSET some
  PROVE  Load(fewer) \in Nat /\ Load(fewer) <= Load(some)
<1> DEFINE after  == UNION {{r} \X (1..Ram[r.of]) : r \in fewer}
           before == UNION {{r} \X (1..Ram[r.of]) : r \in some}
<1>1. after \subseteq before
  OBVIOUS
<1>2. IsFiniteSet(before) /\ Load(some) = Cardinality(before) /\ Load(fewer) = Cardinality(after)
  BY LoadFinite DEF Load
<1> HIDE DEF after, before
<1> QED BY <1>1, <1>2, FS_Subset, FS_CardinalityType

\* A row takes no more than its service asks for.
LEMMA OneMoreRow ==
  ASSUME NEW some \in SUBSET RowOf, IsFiniteSet(some), NEW r \in RowOf,
         NEW more \in SUBSET (some \cup {r})
  PROVE  Load(more) \in Nat /\ Load(more) <= Load(some) + Ram[r.of]
<1> DEFINE share == {r} \X (1..Ram[r.of])
           before == UNION {{q} \X (1..Ram[q.of]) : q \in some}
           both == before \cup share
           after == UNION {{q} \X (1..Ram[q.of]) : q \in more}
<1>1. after \subseteq both
  OBVIOUS
<1>2. /\ IsFiniteSet(before) /\ IsFiniteSet(share)
      /\ Cardinality(before) \in Nat /\ Cardinality(share) = Ram[r.of] /\ Ram[r.of] \in Nat
  BY LoadFinite, UnitsOfRow DEF RowOf, Load
<1>3. IsFiniteSet(both) /\ Cardinality(both) <= Cardinality(before) + Ram[r.of]
  <2> HIDE DEF before, share
  <2>1. /\ IsFiniteSet(both)
        /\ Cardinality(both) = Cardinality(before) + Cardinality(share) - Cardinality(before \cap share)
    BY <1>2, FS_Union
  <2>2. Cardinality(before \cap share) \in Nat
    BY <1>2, FS_Intersection, FS_CardinalityType
  <2> QED BY <1>2, <2>1, <2>2
<1>4. IsFiniteSet(after) /\ Cardinality(after) <= Cardinality(both) /\ Cardinality(after) \in Nat
      /\ Cardinality(both) \in Nat
  <2> HIDE DEF after, both
  <2> QED BY <1>1, <1>3, FS_Subset, FS_CardinalityType
<1>5. Load(more) = Cardinality(after) /\ Load(some) = Cardinality(before)
  BY DEF Load
<1> HIDE DEF after, both, before
<1> QED BY <1>2, <1>3, <1>4, <1>5

LEMMA PlacementInitially == PlacementInit => PlacementInv
<1> SUFFICES ASSUME PlacementInit PROVE PlacementInv
    OBVIOUS
<1>1. Load({}) = 0 /\ IsFiniteSet(rows)
  BY FS_EmptySet DEF Load, PlacementInit
<1>2. \A m \in Machines : RowsAt(m) \ (raced \cup unchecked) = {}
  BY DEF PlacementInit, RowsAt
<1>3. PlacementTypeOK /\ DecisionsFit
  BY DEF PlacementInit, PlacementTypeOK, DecisionsFit
<1>4. ASSUME NEW m \in Machines PROVE Load(RowsAt(m) \ (raced \cup unchecked)) <= Capacity[m]
  <2>1. Load(RowsAt(m) \ (raced \cup unchecked)) = 0
    BY <1>1, <1>2
  <2> QED BY <2>1
<1> QED BY <1>1, <1>3, <1>4 DEF PlacementInv, CheckedFit

LEMMA PlacementStep == PlacementInv /\ [PlacementNext]_placementVars => PlacementInv'
<1> SUFFICES ASSUME PlacementInv, [PlacementNext]_placementVars PROVE PlacementInv'
    OBVIOUS
<1>1. /\ rows \subseteq RowOf /\ held \subseteq RowOf /\ IsFiniteSet(rows) /\ returning \subseteq Machines
      /\ machine \in [Machines -> {"online", "offline", "cordoned"}]
      /\ deciding \in [Workloads -> Machines \cup {Nowhere}]
      /\ placed \in 0..MaxPlaced /\ raced \subseteq RowOf /\ unchecked \subseteq RowOf
  BY DEF PlacementInv, PlacementTypeOK
<1>2. \A w \in Workloads, m \in Machines : [of |-> w, on |-> m] \in RowOf
  BY DEF RowOf
<1>3. \A m : /\ RowsAt(m) \in SUBSET RowOf /\ IsFiniteSet(RowsAt(m))
             /\ RowsAt(m) \ unchecked \in SUBSET RowOf /\ IsFiniteSet(RowsAt(m) \ unchecked)
             /\ RowsAt(m) \ (raced \cup unchecked) \in SUBSET RowOf
             /\ IsFiniteSet(RowsAt(m) \ (raced \cup unchecked))
  BY <1>1, FS_Subset DEF RowsAt
\* The steps that decide and insert nothing add to the rows unchecked ones at most.
<1>4. ASSUME rows' \ unchecked' \subseteq rows \ unchecked, UNCHANGED <<deciding, raced>>,
             PlacementTypeOK', IsFiniteSet(rows)'
      PROVE  PlacementInv'
  <2>1. ASSUME NEW m \in Machines PROVE Load(RowsAt(m) \ (raced \cup unchecked))' <= Capacity[m]
    <3>1. (RowsAt(m) \ (raced \cup unchecked))' \subseteq RowsAt(m) \ (raced \cup unchecked)
      BY <1>4 DEF RowsAt
    <3>2. /\ Load((RowsAt(m) \ (raced \cup unchecked))') \in Nat
          /\ Load((RowsAt(m) \ (raced \cup unchecked))') <= Load(RowsAt(m) \ (raced \cup unchecked))
      BY <1>3, <3>1, FewerRows
    <3>3. Load(RowsAt(m) \ (raced \cup unchecked)) \in Nat
      BY <1>3, LoadFinite
    <3>4. Load(RowsAt(m) \ (raced \cup unchecked))' = Load((RowsAt(m) \ (raced \cup unchecked))')
      BY DEF Load
    <3> QED BY <3>2, <3>3, <3>4 DEF PlacementInv, CheckedFit
  <2>2. ASSUME NEW w \in Workloads, NEW m \in Machines, deciding[w] = m, [of |-> w, on |-> m] \notin raced
        PROVE  Load(RowsAt(m) \ unchecked)' + Ram[w] <= Capacity[m]
    <3>1. (RowsAt(m) \ unchecked)' \subseteq RowsAt(m) \ unchecked
      BY <1>4 DEF RowsAt
    <3>2. Load((RowsAt(m) \ unchecked)') \in Nat /\ Load((RowsAt(m) \ unchecked)') <= Load(RowsAt(m) \ unchecked)
      BY <1>3, <3>1, FewerRows
    <3>3. Load(RowsAt(m) \ unchecked) \in Nat
      BY <1>3, LoadFinite
    <3>4. Load(RowsAt(m) \ unchecked)' = Load((RowsAt(m) \ unchecked)')
      BY DEF Load
    <3> QED BY <2>2, <3>2, <3>3, <3>4 DEF PlacementInv, DecisionsFit
  <2> QED BY <1>4, <2>1, <2>2 DEF PlacementInv, CheckedFit, DecisionsFit
<1>5. ASSUME NEW w \in Workloads, ChooseNode(w) PROVE PlacementInv'
  <2> PICK p \in Placements : \E m \in Eligible(w, p) :
        /\ deciding' = [deciding EXCEPT ![w] = m]
        /\ raced' = raced \ {[of |-> w, on |-> m]}
        /\ UNCHANGED <<rows, held, machine, returning, placed, unchecked>>
      BY <1>5 DEF ChooseNode
  <2> PICK m \in Eligible(w, p) :
        /\ deciding' = [deciding EXCEPT ![w] = m]
        /\ raced' = raced \ {[of |-> w, on |-> m]}
        /\ UNCHANGED <<rows, held, machine, returning, placed, unchecked>>
      OBVIOUS
  <2>1. m \in Machines /\ Load(RowsAt(m)) + Ram[w] <= Capacity[m]
    BY DEF Eligible, Room, Committed
  <2>2. PlacementTypeOK' /\ IsFiniteSet(rows)'
    BY <1>1, <1>2, <2>1 DEF PlacementTypeOK
  <2>3. \A x : RowsAt(x)' = RowsAt(x)
    BY DEF RowsAt
  <2>4. Load(RowsAt(m)) \in Nat /\ Ram[w] \in Nat /\ Capacity[m] \in Nat
    BY <1>3, <2>1, LoadFinite
  <2>5. ASSUME NEW some \in SUBSET RowsAt(m) PROVE Load(some) \in Nat /\ Load(some) <= Load(RowsAt(m))
    BY <1>3, FewerRows
  <2>6. CheckedFit'
    <3> SUFFICES ASSUME NEW x \in Machines
                 PROVE  Load(RowsAt(x) \ (raced' \cup unchecked)) <= Capacity[x]
        BY <2>3 DEF CheckedFit, Load
    <3>1. CASE x = m
      <4>1. RowsAt(m) \ (raced' \cup unchecked) \in SUBSET RowsAt(m)
        OBVIOUS
      <4> QED BY <2>1, <2>4, <2>5, <3>1, <4>1
    <3>2. CASE x # m
      <4>1. RowsAt(x) \ (raced' \cup unchecked) = RowsAt(x) \ (raced \cup unchecked)
        BY <3>2 DEF RowsAt
      <4> QED BY <4>1 DEF PlacementInv, CheckedFit
    <3> QED BY <3>1, <3>2
  <2>7. DecisionsFit'
    <3> SUFFICES ASSUME NEW o \in Workloads, NEW x \in Machines, deciding'[o] = x
                 PROVE  \/ [of |-> o, on |-> x] \in raced'
                        \/ Load(RowsAt(x) \ unchecked) + Ram[o] <= Capacity[x]
        BY <2>3 DEF DecisionsFit, Load
    <3>1. CASE o = w
      <4>1. x = m
        BY <1>1, <3>1
      <4>2. Load(RowsAt(m) \ unchecked) \in Nat /\ Load(RowsAt(m) \ unchecked) <= Load(RowsAt(m))
        BY <2>5
      <4> QED BY <2>1, <2>4, <3>1, <4>1, <4>2
    <3>2. CASE o # w
      <4>1. deciding[o] = x /\ [of |-> o, on |-> x] # [of |-> w, on |-> m]
        BY <1>1, <3>2
      <4> QED BY <4>1 DEF PlacementInv, DecisionsFit
    <3> QED BY <3>1, <3>2
  <2> QED BY <2>2, <2>6, <2>7 DEF PlacementInv
<1>6. ASSUME NEW w \in Workloads, InsertRow(w) PROVE PlacementInv'
  <2> DEFINE m == deciding[w]
             new == [of |-> w, on |-> m]
             others == {[of |-> o, on |-> deciding[o]] : o \in {x \in Workloads \ {w} : deciding[x] # Nowhere}}
  <2>1. m \in Machines /\ new \in RowOf /\ new.on = m /\ new.of = w
    BY <1>1, <1>2, <1>6 DEF InsertRow
  <2>2. /\ rows' \subseteq rows \cup {new} /\ placed' = placed + 1 /\ placed < MaxPlaced
        /\ deciding' = [deciding EXCEPT ![w] = Nowhere] /\ raced' = raced \cup others
        /\ unchecked' = unchecked \ {new} /\ UNCHANGED <<held, machine, returning>>
    BY <1>6 DEF InsertRow
  <2>3. others \subseteq RowOf
    BY <1>1, <1>2
  <2> HIDE DEF new, m
  <2>4. PlacementTypeOK'
    BY <1>1, <2>1, <2>2, <2>3 DEF PlacementTypeOK
  <2>5. IsFiniteSet(rows)'
    <3>1. IsFiniteSet(rows \cup {new})
      BY <1>1, FS_AddElement
    <3> QED BY <2>2, <3>1, FS_Subset
  <2>6. CheckedFit'
    <3> SUFFICES ASSUME NEW x \in Machines
                 PROVE  Load((RowsAt(x) \ (raced \cup unchecked))') <= Capacity[x]
        BY DEF CheckedFit, Load
    <3>1. Capacity[x] \in Nat /\ Ram[w] \in Nat
      OBVIOUS
    <3>2. CASE x = m /\ new \notin raced
      <4>1. Load(RowsAt(x) \ unchecked) + Ram[w] <= Capacity[x]
        <5>1. deciding[w] = x /\ [of |-> w, on |-> x] \notin raced
          BY <3>2 DEF new, m
        <5> QED BY <5>1 DEF PlacementInv, DecisionsFit
      <4> DEFINE before == RowsAt(x) \ unchecked
                 after  == {r \in rows' : r.on = x} \ (raced' \cup unchecked')
      <4>2. after \in SUBSET (before \cup {new})
        BY <2>2 DEF RowsAt
      <4>3. (RowsAt(x) \ (raced \cup unchecked))' = after
        BY DEF RowsAt
      <4>4. before \in SUBSET RowOf /\ IsFiniteSet(before) /\ Load(before) \in Nat
        BY <1>3, LoadFinite
      <4> HIDE DEF before, after
      <4>5. Load(after) \in Nat /\ Load(after) <= Load(before) + Ram[w]
        BY <2>1, <4>2, <4>4, OneMoreRow
      <4>6. Load(before) + Ram[w] <= Capacity[x]
        BY <4>1 DEF before
      <4>7. Load((RowsAt(x) \ (raced \cup unchecked))') = Load(after)
        BY <4>3
      <4> QED BY <3>1, <4>4, <4>5, <4>6, <4>7
    <3>3. CASE x # m \/ new \in raced
      <4>1. (RowsAt(x) \ (raced \cup unchecked))' \in SUBSET (RowsAt(x) \ (raced \cup unchecked))
        BY <2>1, <2>2, <3>3 DEF RowsAt
      <4>2. /\ Load((RowsAt(x) \ (raced \cup unchecked))') \in Nat
            /\ Load((RowsAt(x) \ (raced \cup unchecked))') <= Load(RowsAt(x) \ (raced \cup unchecked))
        BY <1>3, <4>1, FewerRows
      <4>3. Load(RowsAt(x) \ (raced \cup unchecked)) \in Nat
        BY <1>3, LoadFinite
      <4> QED BY <3>1, <4>2, <4>3 DEF PlacementInv, CheckedFit
    <3> QED BY <3>2, <3>3
  <2>7. DecisionsFit'
    BY <1>1, <2>2 DEF DecisionsFit
  <2> QED BY <2>4, <2>5, <2>6, <2>7 DEF PlacementInv
<1>7. ASSUME NEW r \in rows, EndRow(r) \/ HoldRow(r) PROVE PlacementInv'
  <2>1. /\ rows' = rows \ {r} /\ unchecked' = unchecked \ {r} /\ held' \subseteq held \cup {r}
        /\ UNCHANGED <<machine, returning, deciding, placed, raced>>
    BY <1>7 DEF EndRow, HoldRow
  <2>2. PlacementTypeOK' /\ IsFiniteSet(rows)'
    BY <1>1, <2>1, FS_Subset DEF PlacementTypeOK
  <2> QED BY <1>4, <2>1, <2>2
<1>8. ASSUME NEW m \in Machines, NEW s \in {"online", "offline", "cordoned"}, SetMachine(m, s)
      PROVE  PlacementInv'
  <2>1. PlacementTypeOK' /\ IsFiniteSet(rows)'
    BY <1>1, <1>8 DEF SetMachine, PlacementTypeOK
  <2> QED BY <1>4, <1>8, <2>1 DEF SetMachine
<1>9. ASSUME NEW back \in RowOf, rows' \subseteq rows \cup {back}, unchecked' = unchecked \cup {back},
             held' \subseteq held, placed' \in 0..MaxPlaced, UNCHANGED <<machine, returning, deciding, raced>>
      PROVE  PlacementInv'
  <2>1. IsFiniteSet(rows \cup {back})
    BY <1>1, FS_AddElement
  <2>2. PlacementTypeOK' /\ IsFiniteSet(rows)'
    BY <1>1, <1>9, <2>1, FS_Subset DEF PlacementTypeOK
  <2> QED BY <1>4, <1>9, <2>2
<1>10. ASSUME NEW r \in held, ResumeRow(r) PROVE PlacementInv'
  BY <1>1, <1>9, <1>10 DEF ResumeRow
<1>11. ASSUME NEW r \in rows, ReclaimEagerly(r) PROVE PlacementInv'
  <2>1. [of |-> r.of, on |-> Home[r.of]] \in RowOf /\ placed' \in 0..MaxPlaced
    BY <1>1, <1>11 DEF ReclaimEagerly, RowOf
  <2> QED BY <1>9, <1>11, <2>1 DEF ReclaimEagerly
<1>12. ASSUME NEW m \in returning, ReturnDealtWith(m) PROVE PlacementInv'
  <2>1. PlacementTypeOK' /\ IsFiniteSet(rows)'
    BY <1>1, <1>12 DEF ReturnDealtWith, PlacementTypeOK
  <2> QED BY <1>4, <1>12, <2>1 DEF ReturnDealtWith
<1>13. ASSUME NEW w \in Workloads, NEW m \in Machines, RollBack(w, m) PROVE PlacementInv'
  <2>1. [of |-> w, on |-> m] \in RowOf /\ placed' \in 0..MaxPlaced
    BY <1>1, <1>2, <1>13 DEF RollBack
  <2> QED BY <1>9, <1>13, <2>1 DEF RollBack
<1>14. CASE UNCHANGED placementVars
  <2>1. PlacementTypeOK' /\ IsFiniteSet(rows)'
    BY <1>14 DEF placementVars, PlacementInv, PlacementTypeOK
  <2> QED BY <1>4, <1>14, <2>1 DEF placementVars
<1> QED BY <1>5, <1>6, <1>7, <1>8, <1>10, <1>11, <1>12, <1>13, <1>14 DEF PlacementNext

LEMMA PlacementInvariant == PlacementSpec => []PlacementInv
<1> QED BY PlacementInitially, PlacementStep, PTL DEF PlacementSpec

\* The rows, the decisions and the nodes' states keep the values the code gives them.
THEOREM PlacementTyped == PlacementSpec => []PlacementTypeOK
<1>1. PlacementInv => PlacementTypeOK
  BY DEF PlacementInv
<1> QED BY <1>1, PlacementInvariant, PTL

\* Whatever the services ask for and the nodes have, and in whatever order deploys
\* decide and insert (place, committedRamMb): a node that promises more than it has
\* carries a row whose decision an insert had overtaken, or one that came without a
\* decision: resumed or reclaimed when its node returned, or rolled back to.
THEOREM WithinCapacity == PlacementSpec => []NotOvercommitted
<1>1. ASSUME PlacementInv, NEW m \in Machines, RowsAt(m) \cap (raced \cup unchecked) = {}
      PROVE  Committed(m) <= Capacity[m]
  <2>1. RowsAt(m) \ (raced \cup unchecked) = RowsAt(m)
    BY <1>1
  <2> QED BY <1>1, <2>1 DEF PlacementInv, CheckedFit, Committed
<1>2. PlacementInv => NotOvercommitted
  BY <1>1 DEF NotOvercommitted
<1> QED BY <1>2, PlacementInvariant, PTL

-----------------------------------------------------------------------------
(* Replicas: whichever heartbeat comes last, one release is in charge.      *)

USE ReplicasAssumption

\* A sweep that adds copies has copies to add.
SweepCounts == sweep.at = "adding" => sweep.missing >= 1

ReplicasInv == ReplicasTypeOK /\ SweepCounts /\ OneInCharge

LEMMA LiveCounted ==
  ASSUME copies \subseteq Copy, Ordered
  PROVE  /\ Cardinality(Live(copies)) \in Nat
         /\ Cardinality(Live(copies)) <= Cardinality(Copies)
         /\ Cardinality(Copies) \in Nat
<1> DEFINE liveRows == Live(copies)
           ids == IdsOf(liveRows)
           f == [i \in ids |-> CHOOSE c \in liveRows : c.id = i]
<1>1. liveRows \subseteq copies /\ ids \subseteq Copies
  BY DEF Live, IdsOf, Copy
<1>2. \A c \in liveRows : f[c.id] = c
  BY <1>1 DEF IdsOf, Ordered
<1>3. f \in Surjection(ids, liveRows)
  <2>1. f \in [ids -> liveRows]
    BY DEF IdsOf
  <2>2. ASSUME NEW c \in liveRows PROVE \E i \in ids : f[i] = c
    <3>1. c.id \in ids
      BY DEF IdsOf
    <3> QED BY <1>2, <3>1
  <2> QED BY <2>1, <2>2 DEF Surjection
<1>4. /\ IsFiniteSet(ids) /\ Cardinality(ids) <= Cardinality(Copies)
      /\ Cardinality(ids) \in Nat /\ Cardinality(Copies) \in Nat
  <2> HIDE DEF ids
  <2> QED BY <1>1, FS_Subset, FS_CardinalityType
<1>5. IsFiniteSet(liveRows) /\ Cardinality(liveRows) <= Cardinality(ids)
  <2> HIDE DEF ids, liveRows, f
  <2> QED BY <1>3, <1>4, FS_Surjection
<1>6. Cardinality(liveRows) \in Nat
  <2> HIDE DEF liveRows
  <2> QED BY <1>5, FS_CardinalityType
<1> QED BY <1>4, <1>5, <1>6

\* Rows keep their ids, and their order, when their status is written or when some go.
LEMMA UpdateOrders ==
  ASSUME copies \subseteq Copy, Ordered, NEW table, NEW referred, Update(table, referred),
         \A x \in table : \E c \in copies :
           x = c \/ \E s \in {"running", "ended"} : x = [c EXCEPT !.status = s],
         \A x, y \in table : x.id = y.id => x = y
  PROVE  copies' \subseteq Copy /\ Ordered'
<1>1. copies' \subseteq table /\ older' = older \cap (IdsOf(copies') \X IdsOf(copies'))
  BY DEF Update, Kept
<1>2. \A x \in table : x \in Copy /\ x.id \in IdsOf(copies)
  BY DEF Copy, IdsOf
<1>3. IdsOf(copies') \subseteq IdsOf(copies)
  BY <1>1, <1>2 DEF IdsOf
<1>4. \A c, d \in copies' : c.id = d.id => c = d
  BY <1>1
<1>5. \A i, j \in IdsOf(copies') : i # j => (<<i, j>> \in older' <=> <<j, i>> \notin older')
  BY <1>1, <1>3 DEF Ordered
<1>6. \A i, j, k \in IdsOf(copies') :
        <<i, j>> \in older' /\ <<j, k>> \in older' => i # k /\ <<i, k>> \in older'
  BY <1>1, <1>3 DEF Ordered
<1> QED BY <1>1, <1>2, <1>4, <1>5, <1>6 DEF Ordered, IdsOf

LEMMA InsertOrders ==
  ASSUME copies \subseteq Copy, Ordered, NEW h \in Hosts, NEW before \in SUBSET IdsOf(copies),
         \A p \in older : p[2] \in before => p[1] \in before,
         Insert(h, before)
  PROVE  /\ copies' \subseteq Copy /\ Ordered'
         /\ \E c : copies' = copies \cup {[id |-> c, host |-> h, status |-> "deploying"]}
<1> PICK c \in Copies \ IdsOf(copies) :
      /\ copies' = copies \cup {[id |-> c, host |-> h, status |-> "deploying"]}
      /\ older' = older \cup (before \X {c}) \cup ({c} \X (IdsOf(copies) \ before))
    BY DEF Insert
<1>1. copies' \subseteq Copy
  BY DEF Copy
<1>2. \A x, y \in copies' : x.id = y.id => x = y
  BY DEF Ordered, IdsOf
<1> DEFINE ids == IdsOf(copies)
<1>3. IdsOf(copies') = ids \cup {c}
  <2> DEFINE row == [id |-> c, host |-> h, status |-> "deploying"]
  <2>1. row.id = c /\ copies' = copies \cup {row}
    OBVIOUS
  <2> HIDE DEF row
  <2> QED BY <2>1 DEF IdsOf
<1>4. /\ older \subseteq ids \X ids /\ c \notin ids /\ before \subseteq ids
      /\ \A i, j \in ids : <<i, j>> \in older /\ j \in before => i \in before
  BY DEF Ordered
<1>5. /\ \A i, j \in ids : <<i, j>> \in older' <=> <<i, j>> \in older
      /\ \A i \in ids : <<i, c>> \in older' <=> i \in before
      /\ \A i \in ids : <<c, i>> \in older' <=> i \notin before
      /\ <<c, c>> \notin older'
      /\ older' \subseteq (ids \cup {c}) \X (ids \cup {c})
  BY <1>4
<1>6. /\ \A i, j \in ids : i # j => (<<i, j>> \in older <=> <<j, i>> \notin older)
      /\ \A i, j, k \in ids : <<i, j>> \in older /\ <<j, k>> \in older => i # k /\ <<i, k>> \in older
  BY DEF Ordered
<1> HIDE DEF ids
<1>7. \A i, j \in ids \cup {c} : i # j => (<<i, j>> \in older' <=> <<j, i>> \notin older')
  BY <1>4, <1>5, <1>6
<1>8. ASSUME NEW i \in ids \cup {c}, NEW j \in ids \cup {c}, NEW k \in ids \cup {c},
             <<i, j>> \in older', <<j, k>> \in older'
      PROVE  i # k /\ <<i, k>> \in older'
  <2>1. CASE i = c
    BY <1>4, <1>5, <1>6, <1>8, <2>1
  <2>2. CASE i \in ids /\ j = c
    BY <1>4, <1>5, <1>6, <1>8, <2>2
  <2>3. CASE i \in ids /\ j \in ids
    BY <1>4, <1>5, <1>6, <1>8, <2>3
  <2> QED BY <2>1, <2>2, <2>3
<1>9. Ordered'
  <2>1. \A i, j, k \in IdsOf(copies') :
          <<i, j>> \in older' /\ <<j, k>> \in older' => i # k /\ <<i, k>> \in older'
    <3> TAKE i, j, k \in IdsOf(copies')
    <3> HAVE <<i, j>> \in older' /\ <<j, k>> \in older'
    <3>1. i \in ids \cup {c} /\ j \in ids \cup {c} /\ k \in ids \cup {c}
      BY <1>3
    <3> QED BY <1>8, <3>1
  <2>2. older' \subseteq IdsOf(copies') \X IdsOf(copies')
    BY <1>3, <1>5
  <2>3. \A i, j \in IdsOf(copies') : i # j => (<<i, j>> \in older' <=> <<j, i>> \notin older')
    BY <1>3, <1>7
  <2> QED BY <1>2, <2>1, <2>2, <2>3 DEF Ordered, IdsOf
<1> QED BY <1>1, <1>9

LEMMA ReplicasInitially == ReplicasInit => ReplicasInv
<1> SUFFICES ASSUME ReplicasInit PROVE ReplicasInv
    OBVIOUS
<1> PICK c \in Copies, h \in Hosts :
      /\ copies = {[id |-> c, host |-> h, status |-> "running"]} /\ older = {}
      /\ containers = [x \in Hosts |-> IF x = h THEN {c} ELSE {}]
    BY DEF ReplicasInit
<1>1. Cardinality(Copies) \in Nat
  BY FS_CardinalityType
<1>2. copies \subseteq Copy /\ Ordered
  BY DEF Copy, Ordered, IdsOf
<1>3. NoSweep \in [at : {"idle", "adding", "removing"}, missing : 0..MaxReplicas + Cardinality(Copies),
                   taken : SUBSET Hosts]
  BY <1>1 DEF NoSweep
<1>4. ReplicasTypeOK
  BY <1>2, <1>3 DEF ReplicasInit, ReplicasTypeOK
<1> QED BY <1>4 DEF ReplicasInit, ReplicasInv, SweepCounts, NoSweep, OneInCharge

LEMMA ReplicasStep == ReplicasInv /\ [ReplicasNext]_replicaVars => ReplicasInv'
<1> SUFFICES ASSUME ReplicasInv, [ReplicasNext]_replicaVars PROVE ReplicasInv'
    OBVIOUS
<1> DEFINE Sweep == [at : {"idle", "adding", "removing"}, missing : 0..MaxReplicas + Cardinality(Copies),
                     taken : SUBSET Hosts]
<1>1. /\ replicas \in 1..MaxReplicas /\ copies \subseteq Copy /\ Ordered
      /\ containers \in [Hosts -> SUBSET Copies] /\ promoted \in [Hosts -> SUBSET Copies]
      /\ sweep \in Sweep /\ changes \in 0..MaxChanges /\ absent \in BOOLEAN
      /\ rescue \subseteq Copies /\ fail \subseteq Copies /\ rescued \subseteq Copies
  BY DEF ReplicasInv, ReplicasTypeOK
<1>2. /\ Cardinality(Live(copies)) \in Nat /\ Cardinality(Copies) \in Nat
      /\ Cardinality(Live(copies)) <= Cardinality(Copies)
  BY <1>1, LiveCounted
<1>3. NoSweep \in Sweep /\ NoSweep.at = "idle"
  BY <1>2 DEF NoSweep
<1> HIDE DEF Sweep
<1> DEFINE NextTyped == /\ replicas' \in 1..MaxReplicas /\ copies' \subseteq Copy /\ Ordered'
                    /\ containers' \in [Hosts -> SUBSET Copies] /\ promoted' \in [Hosts -> SUBSET Copies]
                    /\ sweep' \in Sweep /\ changes' \in 0..MaxChanges /\ absent' \in BOOLEAN
                    /\ rescue' \subseteq Copies /\ fail' \subseteq Copies /\ rescued' \subseteq Copies
<1>4. SUFFICES NextTyped /\ SweepCounts' /\ OneInCharge'
  BY DEF Sweep, ReplicasInv, ReplicasTypeOK
<1>5. UNCHANGED <<copies, older, rescued>> => copies' \subseteq Copy /\ Ordered' /\ OneInCharge'
  BY <1>1 DEF Ordered, IdsOf, OneInCharge, ReplicasInv
<1>6. UNCHANGED sweep => sweep' \in Sweep /\ SweepCounts'
  BY <1>1 DEF ReplicasInv, SweepCounts
<1>7. ASSUME NEW c, NEW h, copies' = copies \cup {[id |-> c, host |-> h, status |-> "deploying"]}
      PROVE  UNCHANGED rescued => OneInCharge'
  BY <1>7 DEF ReplicasInv, OneInCharge
<1>8. ASSUME NEW h \in Hosts, Deploy(h) PROVE NextTyped /\ SweepCounts' /\ OneInCharge'
  <2>1. copies' \subseteq Copy /\ Ordered' /\ OneInCharge'
    BY <1>1, <1>7, <1>8, InsertOrders DEF Deploy
  <2> QED BY <1>1, <1>6, <1>8, <2>1 DEF Deploy, verdicts
<1>9. ASSUME NEW n \in 1..MaxReplicas, SetReplicas(n) PROVE NextTyped /\ SweepCounts' /\ OneInCharge'
  BY <1>1, <1>5, <1>6, <1>9 DEF SetReplicas, verdicts
<1>10. ASSUME NEW h \in Hosts, Reconcile(h) PROVE NextTyped /\ SweepCounts' /\ OneInCharge'
  <2>1. {c.id : c \in {x \in Live(copies) : x.host = h}} \subseteq Copies
    BY <1>1 DEF Live, Copy
  <2> QED BY <1>1, <1>5, <1>6, <1>10, <2>1 DEF Reconcile, verdicts
<1>11. ASSUME NEW h \in Hosts, SelectPending(h) PROVE NextTyped /\ SweepCounts' /\ OneInCharge'
  <2>1. {c.id : c \in {x \in copies : x.host = h /\ x.status = "deploying" /\ x.id \in containers[h]}}
          \subseteq Copies
    BY <1>1 DEF Copy
  <2> QED BY <1>1, <1>5, <1>6, <1>11, <2>1 DEF SelectPending, verdicts
<1>12. ASSUME NEW h \in Hosts, Promote(h) PROVE NextTyped /\ SweepCounts' /\ OneInCharge'
  <2> PICK c \in promoted[h] :
        /\ promoted' = [promoted EXCEPT ![h] = @ \ {c}]
        /\ UNCHANGED <<replicas, containers, rescue, fail, sweep, absent, changes>>
        /\ Update(CutOver(c), Referred') /\ rescued' = {}
      BY <1>12 DEF Promote, verdicts
  <2>1. /\ \A x \in CutOver(c) : \E d \in copies :
             x = d \/ \E s \in {"running", "ended"} : x = [d EXCEPT !.status = s]
        /\ \A x \in CutOver(c) : x.status = "running" => x.id = c
    BY <1>1 DEF CutOver, Copy
  <2>2. \A x, y \in CutOver(c) : x.id = y.id => x = y
    BY <1>1 DEF CutOver, Copy, Ordered
  <2>3. copies' \subseteq Copy /\ Ordered'
    BY <1>1, <2>1, <2>2, UpdateOrders
  <2>4. copies' \subseteq CutOver(c)
    BY DEF Update, Kept
  <2>5. OneInCharge'
    BY <2>1, <2>2, <2>4 DEF OneInCharge
  <2> QED BY <1>1, <1>6, <2>3, <2>5
<1>13. CASE ReadLive
  <2>1. HostsOf(Live(copies)) \subseteq Hosts
    BY <1>1 DEF HostsOf, Live, Copy
  <2>2. sweep' \in Sweep /\ SweepCounts'
    <3> DEFINE count == Cardinality(Live(copies))
    <3>1. count \in Nat /\ count <= Cardinality(Copies) /\ replicas \in 1..MaxReplicas
      BY <1>1, <1>2
    <3>2. /\ count # replicas
          /\ sweep' = IF count > replicas
                      THEN [at |-> "removing", missing |-> count - replicas, taken |-> {}]
                      ELSE [at |-> "adding", missing |-> replicas - count,
                            taken |-> HostsOf(Live(copies))]
      BY <1>13 DEF ReadLive
    <3> HIDE DEF count
    <3>3. CASE count > replicas
      BY <1>2, <3>1, <3>2, <3>3 DEF Sweep, SweepCounts
    <3>4. CASE count < replicas
      BY <1>2, <2>1, <3>1, <3>2, <3>4 DEF Sweep, SweepCounts
    <3> QED BY <3>1, <3>2, <3>3, <3>4
  <2> QED BY <1>1, <1>5, <1>13, <2>2 DEF ReadLive, verdicts
<1>14. CASE ScaleDown
  <2> DEFINE excess == {c \in Live(copies) :
                         Cardinality({d \in Live(copies) : <<c.id, d.id>> \in older}) < sweep.missing}
  <2>0. /\ excess \subseteq copies
        /\ Update({IF c \in excess THEN [c EXCEPT !.status = "ended"] ELSE c : c \in copies}, Referred')
    <3>1. excess \subseteq copies
      BY DEF Live
    <3> QED BY <1>14, <3>1 DEF ScaleDown
  <2> HIDE DEF excess
  <2> DEFINE table == {IF c \in excess THEN [c EXCEPT !.status = "ended"] ELSE c : c \in copies}
  <2>1. /\ \A x \in table : \E d \in copies :
             x = d \/ \E s \in {"running", "ended"} : x = [d EXCEPT !.status = s]
        /\ \A x \in table : x.status = "running" => x \in copies
    BY <1>1 DEF Copy
  <2>2. \A x, y \in table : x.id = y.id => x = y
    BY <1>1 DEF Copy, Ordered
  <2> HIDE DEF table
  <2>3. copies' \subseteq Copy /\ Ordered'
    BY <1>1, <2>0, <2>1, <2>2, UpdateOrders DEF table
  <2>4. copies' \subseteq table
    BY <2>0 DEF Update, Kept, table
  <2>5. OneInCharge'
    BY <1>14, <2>1, <2>4 DEF ScaleDown, OneInCharge, ReplicasInv
  <2> QED BY <1>1, <1>3, <1>14, <2>3, <2>5 DEF ScaleDown, SweepCounts, verdicts
<1>15. CASE AddCopy
  <2>1. ASSUME NEW h \in Hosts \ sweep.taken, Insert(h, IdsOf(copies)),
               sweep' = IF sweep.missing = 1 THEN NoSweep
                        ELSE [sweep EXCEPT !.missing = @ - 1, !.taken = @ \cup {h}]
        PROVE  NextTyped /\ SweepCounts' /\ OneInCharge'
    <3>1. copies' \subseteq Copy /\ Ordered' /\ OneInCharge'
      <4>1. \A p \in older : p[2] \in IdsOf(copies) => p[1] \in IdsOf(copies)
        BY <1>1 DEF Ordered
      <4> QED BY <1>1, <1>7, <1>15, <2>1, <4>1, InsertOrders DEF AddCopy
    <3>2. sweep' \in Sweep /\ SweepCounts'
      <4>1. sweep.at = "adding" /\ sweep.missing >= 1
        BY <1>15 DEF AddCopy, ReplicasInv, SweepCounts
      <4>2. CASE sweep.missing = 1
        BY <1>3, <2>1, <4>2 DEF SweepCounts
      <4>3. CASE sweep.missing # 1
        <5>1. /\ sweep' = [at |-> "adding", missing |-> sweep.missing - 1, taken |-> sweep.taken \cup {h}]
              /\ sweep.missing \in 0..MaxReplicas + Cardinality(Copies) /\ sweep.taken \subseteq Hosts
          BY <1>1, <2>1, <4>1, <4>3 DEF Sweep
        <5> QED BY <1>2, <4>1, <4>3, <5>1 DEF Sweep, SweepCounts
      <4> QED BY <4>2, <4>3
    <3> QED BY <1>1, <1>15, <3>1, <3>2 DEF AddCopy, verdicts
  <2>2. CASE sweep' = NoSweep /\ UNCHANGED <<copies, older>>
    BY <1>1, <1>3, <1>5, <1>15, <2>2 DEF AddCopy, SweepCounts, verdicts
  <2> QED BY <1>15, <2>1, <2>2 DEF AddCopy
<1>16. CASE UNCHANGED replicaVars
  BY <1>1, <1>5, <1>6, <1>16 DEF replicaVars, verdicts
<1>17. CASE OthersAbsent
  BY <1>1, <1>5, <1>6, <1>17 DEF OthersAbsent, verdicts
<1>18. CASE JudgeOverdue
  <2> PICK overdue \in SUBSET copies, reported \in SUBSET copies :
        /\ rescue' = IdsOf(reported) /\ fail' = IdsOf(overdue \ reported)
        /\ UNCHANGED <<replicas, copies, older, containers, promoted, sweep, absent, rescued>>
        /\ changes < MaxChanges /\ changes' = changes + 1
      BY <1>18 DEF JudgeOverdue
  <2>1. rescue' \subseteq Copies /\ fail' \subseteq Copies
    BY <1>1 DEF IdsOf, Copy
  <2>2. changes' \in 0..MaxChanges
    BY <1>1
  <2>3. copies' \subseteq Copy /\ Ordered' /\ OneInCharge'
    BY <1>5
  <2>4. sweep' \in Sweep /\ SweepCounts'
    BY <1>6
  <2> QED BY <1>1, <2>1, <2>2, <2>3, <2>4
<1>19. ASSUME NEW i \in Copies, NEW s \in {"running", "ended"}, Judged(i, s),
              IF s = "running" THEN rescued' = rescued \cup {i} ELSE rescued' = rescued
       PROVE  copies' \subseteq Copy /\ Ordered' /\ OneInCharge'
  <2> DEFINE table == {[x EXCEPT !.status = IF x.id = i THEN s ELSE @] : x \in copies}
  <2>1. \A x \in table : \E d \in copies :
          /\ x = d \/ x = [d EXCEPT !.status = s]
          /\ x.id = d.id
          /\ x.status = "running" => d.status = "running" \/ (x.id = i /\ s = "running")
    <3> TAKE x \in table
    <3> PICK d \in copies : x = [d EXCEPT !.status = IF d.id = i THEN s ELSE d.status]
        OBVIOUS
    <3>1. d = [id |-> d.id, host |-> d.host, status |-> d.status]
      BY <1>1 DEF Copy
    <3> HIDE DEF table
    <3> WITNESS d \in copies
    <3>2. CASE d.id = i
      <4>1. x = [d EXCEPT !.status = s]
        BY <3>2
      <4> QED BY <3>1, <3>2, <4>1
    <3>3. CASE d.id # i
      <4>1. x = [d EXCEPT !.status = d.status]
        BY <3>3
      <4>2. x = d
        BY <3>1, <4>1
      <4> QED BY <4>2
    <3> QED BY <3>2, <3>3
  <2>2. \A x, y \in table : x.id = y.id => x = y
    BY <1>1 DEF Copy, Ordered
  <2>3. Update(table, Referred')
    BY <1>19 DEF Judged
  <2> HIDE DEF table
  <2>4. copies' \subseteq Copy /\ Ordered'
    BY <1>1, <2>1, <2>2, <2>3, UpdateOrders
  <2>5. copies' \subseteq table
    BY <2>3 DEF Update, Kept
  <2>6. OneInCharge'
    <3> SUFFICES ASSUME NEW c \in copies', NEW d \in copies', c.status = "running", d.status = "running"
                 PROVE  c = d \/ {c.id, d.id} \cap rescued' # {}
      BY DEF OneInCharge
    <3>1. CASE s = "running" /\ (c.id = i \/ d.id = i)
      BY <1>19, <3>1
    <3>2. CASE ~(s = "running" /\ (c.id = i \/ d.id = i))
      <4>1. PICK b \in copies, e \in copies :
              b.id = c.id /\ e.id = d.id /\ b.status = "running" /\ e.status = "running"
        BY <2>1, <2>5, <3>2
      <4>2. b = e \/ {b.id, e.id} \cap rescued # {}
        BY <4>1 DEF OneInCharge, ReplicasInv
      <4>3. rescued \subseteq rescued'
        BY <1>19
      <4> QED BY <2>2, <2>5, <4>1, <4>2, <4>3
    <3> QED BY <3>1, <3>2
  <2> QED BY <2>4, <2>6
<1>20. CASE Rescue
  BY <1>1, <1>6, <1>19, <1>20 DEF Rescue
<1>21. CASE FailOverdue
  BY <1>1, <1>6, <1>19, <1>21 DEF FailOverdue
<1> HIDE DEF NextTyped
<1> QED BY <1>8, <1>9, <1>10, <1>11, <1>12, <1>13, <1>14, <1>15, <1>16, <1>17, <1>18, <1>20, <1>21
        DEF ReplicasNext

LEMMA ReplicasInvariant == ReplicasSpec => []ReplicasInv
<1> QED BY ReplicasInitially, ReplicasStep, PTL DEF ReplicasSpec

\* However the heartbeats of several nodes, the deploys and the sweep interleave, and
\* however many copies are declared: of two rows of a service that are running, the
\* sweeper has rescued one since the last promotion.  A rescue sets its row running
\* and ends no other (heartbeat/sweeper.ts, failStalledRollouts).
THEOREM OneRunning == ReplicasSpec => []OneInCharge
<1>1. ReplicasInv => OneInCharge
  BY DEF ReplicasInv
<1> QED BY <1>1, ReplicasInvariant, PTL

-----------------------------------------------------------------------------
(* All eight components side by side, as the run "components" has them.     *)

\* Every component's variables keep the values its code gives them, for every set
\* of nodes, users, services and builds and for every bound of the run.
THEOREM ComponentsTyped == MCSpec => []ComponentsTypeOK
<1>1. MCInit => /\ UpgradeInv /\ BackupInv /\ TunnelTypeOK /\ SessionInv /\ AccountInv
                /\ ReplicasInv /\ IngressTypeOK /\ PlacementInv
  BY UpgradeInitially, BackupInvInitially, TunnelInitially, SessionInitially, AccountInitially,
     ReplicasInitially, IngressInitially, PlacementInitially DEF MCInit
<1>2. [MCNext]_allVars => /\ [UpgradeNext]_upgradeVars /\ [BackupNext]_backupVars
                          /\ [TunnelNext]_tunnelVars /\ [SessionNext]_sessionVars
                          /\ [AccountNext]_accountVars /\ [ReplicasNext]_replicaVars
                          /\ [IngressNext]_ingressVars /\ [PlacementNext]_placementVars
  BY DEF MCNext, allVars, AgentUpgradeAlone, BackupsAlone, TunnelAlone, SessionsAlone, AccountsAlone,
         ReplicasAlone, IngressAlone, PlacementAlone
<1>3. /\ UpgradeInv /\ [UpgradeNext]_upgradeVars => UpgradeInv'
      /\ BackupInv /\ [BackupNext]_backupVars => BackupInv'
      /\ TunnelTypeOK /\ [TunnelNext]_tunnelVars => TunnelTypeOK'
      /\ SessionInv /\ [SessionNext]_sessionVars => SessionInv'
      /\ AccountInv /\ [AccountNext]_accountVars => AccountInv'
      /\ ReplicasInv /\ [ReplicasNext]_replicaVars => ReplicasInv'
      /\ IngressTypeOK /\ [IngressNext]_ingressVars => IngressTypeOK'
      /\ PlacementInv /\ [PlacementNext]_placementVars => PlacementInv'
  BY UpgradeStep, BackupInvStep, TunnelTypeStep, SessionStep, AccountStep, ReplicasStep,
     IngressTypeStep, PlacementStep
<1>4. UpgradeInv /\ BackupInv /\ TunnelTypeOK /\ SessionInv /\ AccountInv
        /\ ReplicasInv /\ IngressTypeOK /\ PlacementInv => ComponentsTypeOK
  BY DEF UpgradeInv, BackupInv, SessionInv, AccountInv, ReplicasInv, PlacementInv, ComponentsTypeOK
<1> QED BY <1>1, <1>2, <1>3, <1>4, PTL DEF MCSpec
=============================================================================
