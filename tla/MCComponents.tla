---------------------------- MODULE MCComponents ----------------------------
(***************************************************************************)
(* The components that keep no state in common, checked side by side: a    *)
(* behaviour is one of a single component, chosen in the initial state,    *)
(* while the others stay as they began.  Each is thereby explored whole,   *)
(* and never interleaved with another.                                     *)
(***************************************************************************)
EXTENDS AgentUpgrade, Backups, Tunnel, Sessions, Accounts, Replicas, Ingress, Placement, TLC

CONSTANTS web, proxy, db, big, small   \* the services and the nodes of Placement

MCSuits    == web :> {big, small} @@ proxy :> {big, small} @@ db :> {big}
MCRam      == web :> 1 @@ proxy :> 2 @@ db :> 1
MCCapacity == big :> 3 @@ small :> 2
MCApart    == web :> {proxy} @@ proxy :> {} @@ db :> {}
MCHome     == web :> small @@ proxy :> Nowhere @@ db :> big
MCWith     == web :> {} @@ proxy :> {} @@ db :> {web}

VARIABLE part

parts == {"upgrade", "backups", "tunnel", "sessions", "accounts", "replicas", "ingress", "placement"}

allVars == <<part, upgradeVars, backupVars, tunnelVars, sessionVars, accountVars,
            replicaVars, ingressVars, placementVars>>

\* The component a behaviour is not about starts in one of its initial states.
MCInit ==
  /\ part \in parts
  /\ UpgradeInit
  /\ BackupInit
  /\ TunnelInit
  /\ SessionInit
  /\ AccountInit
  /\ ReplicasInit
  /\ IngressInit
  /\ PlacementInit
  /\ part = "upgrade" \/ (supervisor = "systemd" /\ binary = CHOOSE b \in Builds : TRUE)
  /\ part = "backups" \/ (~elsewhere /\ serving = CHOOSE n \in Nodes : TRUE)
  /\ part = "accounts" \/ (owners = People)
  /\ part = "replicas" \/ ~absent
  /\ part = "replicas" \/ copies = {[id |-> CHOOSE c \in Copies : TRUE, host |-> CHOOSE h \in Hosts : TRUE, status |-> "running"]}

AgentUpgradeAlone == part = "upgrade" /\ UNCHANGED <<part, backupVars, tunnelVars, sessionVars, accountVars, replicaVars, ingressVars, placementVars>>
BackupsAlone == part = "backups" /\ UNCHANGED <<part, upgradeVars, tunnelVars, sessionVars, accountVars, replicaVars, ingressVars, placementVars>>
TunnelAlone == part = "tunnel" /\ UNCHANGED <<part, upgradeVars, backupVars, sessionVars, accountVars, replicaVars, ingressVars, placementVars>>
SessionsAlone == part = "sessions" /\ UNCHANGED <<part, upgradeVars, backupVars, tunnelVars, accountVars, replicaVars, ingressVars, placementVars>>
AccountsAlone == part = "accounts" /\ UNCHANGED <<part, upgradeVars, backupVars, tunnelVars, sessionVars, replicaVars, ingressVars, placementVars>>
ReplicasAlone == part = "replicas" /\ UNCHANGED <<part, upgradeVars, backupVars, tunnelVars, sessionVars, accountVars, ingressVars, placementVars>>
IngressAlone == part = "ingress" /\ UNCHANGED <<part, upgradeVars, backupVars, tunnelVars, sessionVars, accountVars, replicaVars, placementVars>>
PlacementAlone == part = "placement" /\ UNCHANGED <<part, upgradeVars, backupVars, tunnelVars, sessionVars, accountVars, replicaVars, ingressVars>>

MCNext ==
  \/ AgentUpgradeAlone /\ UpgradeNext
  \/ BackupsAlone /\ BackupNext
  \/ TunnelAlone /\ TunnelNext
  \/ SessionsAlone /\ SessionNext
  \/ AccountsAlone /\ AccountNext
  \/ ReplicasAlone /\ ReplicasNext
  \/ IngressAlone /\ IngressNext
  \/ PlacementAlone /\ PlacementNext

\* The fairness of the components whose liveness is checked, each while it runs.
MCFairness ==
  /\ WF_upgradeVars(part = "upgrade" /\ CheckForUpgrade)
  /\ WF_upgradeVars(part = "upgrade" /\ Supervise)
  /\ \A n \in Nodes : WF_backupVars(part = "backups" /\ BackupPass(n))
  /\ WF_backupVars(part = "backups" /\ SweepStalled)
  /\ \A n \in Names : /\ WF_ingressVars(part = "ingress" /\ FillCache(n))
                      /\ WF_ingressVars(part = "ingress" /\ Expire(n))
  /\ WF_ingressVars(part = "ingress" /\ Invalidate)

MCSpec == MCInit /\ [][MCNext]_allVars /\ MCFairness

\* Every component's variables keep the values its code gives them.
ComponentsTypeOK ==
  /\ UpgradeTypeOK
  /\ BackupTypeOK
  /\ TunnelTypeOK
  /\ SessionTypeOK
  /\ AccountTypeOK
  /\ ReplicasTypeOK
  /\ IngressTypeOK
  /\ PlacementTypeOK
=============================================================================
