---------------------------- MODULE AgentUpgrade ----------------------------
(***************************************************************************)
(* The agent replaces its own binary: agent/internal/upgrade, the upgrade  *)
(* check of agent/cmd/agent/main.go, and what the supervisor does around   *)
(* the process (the unit and the launchd job of scripts/install.sh).       *)
(*                                                                         *)
(* A build stands for a binary and for its SHA-256.  The state directory   *)
(* and the binary survive a crash, the process does not.                   *)
(***************************************************************************)
EXTENDS Naturals

CONSTANTS Builds,            \* what the control plane may ever publish
          NoBuild,           \* no file, or no process
          Supervisors,       \* the supervisors a node may run under
          MaxPublications,   \* bound: publications and changes of the opt-in
          MaxMishaps         \* bound: crashes, broken downloads, failed writes

ASSUME BuildsAssumption == NoBuild \notin Builds
\* "legacy" is a unit from before self-upgrade, over a directory the agent cannot
\* write: nothing installs what it stages.
ASSUME SupervisorsAssumption == Supervisors \subseteq {"systemd", "launchd", "legacy"}
ASSUME UpgradeBounds == MaxPublications \in Nat /\ MaxMishaps \in Nat

VARIABLES supervisor,     \* which supervisor this node has
          published,      \* the build in SHA256SUMS, and the one served
          optedIn,        \* agent_auto_upgrade, as desired state would say it
          binary,         \* the file the supervisor starts
          staged,         \* agent.staged in the state directory
          saved,          \* the upgrade fields of agent.json
          agent,          \* "down", "starting" or "up"
          running,        \* the build the process was started from
          memory,         \* the process's copy of saved
          check,          \* where decideUpgrade stands
          wanted,         \* publishedSum of this check
          publications, mishaps,
          spoiled,        \* history: a staging went unrecorded, or an install failed
          decided         \* history: the first build, and those whose checksum an
                          \* upgrade was decided on

upgradeVars == <<supervisor, published, optedIn, binary, staged, saved, agent, running,
                 memory, check, wanted, publications, mishaps, spoiled, decided>>

\* Decide's MaxAttempts.
MaxAttempts == 2

UpgradeRecord == [lastStaged : Builds \cup {NoBuild}, attempts : 0..MaxAttempts]

UpgradeTypeOK ==
  /\ supervisor \in Supervisors
  /\ published \in Builds /\ optedIn \in BOOLEAN
  /\ binary \in Builds /\ staged \in Builds \cup {NoBuild}
  /\ saved \in UpgradeRecord /\ memory \in UpgradeRecord
  /\ agent \in {"down", "starting", "up"}
  /\ running \in Builds \cup {NoBuild}
  /\ (running = NoBuild) <=> (agent = "down")
  /\ check \in {"idle", "allowed", "download", "staged"}
  /\ wanted \in Builds \cup {NoBuild}
  /\ publications \in 0..MaxPublications /\ mishaps \in 0..MaxMishaps
  /\ spoiled \in {"no", "unrecorded", "uninstalled"} /\ decided \subseteq Builds

UpgradeInit ==
  /\ supervisor \in Supervisors
  /\ \E b \in Builds : published = b /\ binary = b /\ running = b /\ decided = {b}
  /\ optedIn = TRUE /\ staged = NoBuild
  /\ saved = [lastStaged |-> NoBuild, attempts |-> 0] /\ memory = saved
  /\ agent = "up" /\ check = "idle" /\ wanted = NoBuild
  /\ publications = 0 /\ mishaps = 0 /\ spoiled = "no"

disk    == <<binary, staged, saved>>
process == <<agent, running, memory>>
outside == <<supervisor, published, optedIn, publications>>
upgradeHistory == <<spoiled, decided>>

-----------------------------------------------------------------------------
(* The control plane: a release puts one build and its checksum there, and *)
(* an operator turns automatic upgrades on and off.                        *)

Publish(b) ==
  /\ publications < MaxPublications /\ b # published
  /\ published' = b /\ publications' = publications + 1
  /\ UNCHANGED <<supervisor, optedIn, disk, process, check, wanted, mishaps, upgradeHistory>>

SetOptIn ==
  /\ publications < MaxPublications
  /\ optedIn' = ~optedIn /\ publications' = publications + 1
  /\ UNCHANGED <<supervisor, published, disk, process, check, wanted, mishaps, upgradeHistory>>

-----------------------------------------------------------------------------
(* The check.  Every half hour: is the fleet opted in, what is published,  *)
(* what is the binary on disk, and what was staged before.                 *)

\* Mutation of Decide: an install that is not working is never called failed.
DecideUncapped(own, served, record) ==
  CASE own = served                               -> "UpToDate"
    [] own # served /\ record.lastStaged = served -> "AlreadyStaged"
    [] OTHER                                      -> "Upgrade"

\* Mutation of Decide: what was staged before is not remembered.
DecideForgets(own, served, record) == IF own = served THEN "UpToDate" ELSE "Upgrade"

\* Decide.
Decide(own, served, record) ==
  CASE own = served                                   -> "UpToDate"
    [] own # served /\ record.lastStaged = served     ->
         IF record.attempts >= MaxAttempts THEN "Failed" ELSE "AlreadyStaged"
    [] OTHER                                          -> "Upgrade"

Spoil(how) == spoiled' = IF spoiled = "no" THEN how ELSE spoiled

\* The write of agent.json that may fail: saved' is the record, or stays.
SaveState(record) ==
  \/ saved' = record /\ UNCHANGED mishaps
  \/ /\ mishaps < MaxMishaps
     /\ mishaps' = mishaps + 1 /\ UNCHANGED saved

BeginCheck ==
  /\ agent = "up" /\ check = "idle"
  /\ optedIn
  /\ check' = "allowed"
  /\ UNCHANGED <<outside, disk, process, wanted, mishaps, upgradeHistory>>

\* The checksums are read and the decision is taken on them.
DecideUpgrade ==
  LET decision == Decide(binary, published, memory)
      again    == [memory EXCEPT !.attempts = @ + 1]
  IN /\ agent = "up" /\ check = "allowed"
     /\ UNCHANGED <<outside, binary, staged, agent, running>>
     /\ \/ /\ decision \in {"UpToDate", "Failed"}
           /\ check' = "idle"
           /\ UNCHANGED <<wanted, memory, saved, mishaps, upgradeHistory>>
        \/ /\ decision = "AlreadyStaged"
           /\ memory' = again /\ SaveState(again)
           /\ check' = "idle" /\ UNCHANGED <<wanted, upgradeHistory>>
        \/ /\ decision = "Upgrade"
           /\ check' = "download" /\ wanted' = published /\ decided' = decided \cup {published}
           /\ UNCHANGED <<memory, saved, mishaps, spoiled>>

\* Mutation of Accepts: the checksum is not compared.
AcceptsAll(bytes) == bytes # NoBuild

\* What Stage accepts of the bytes that arrived whole: what hashes to the checksum
\* read before them.
Accepts(bytes) == bytes = wanted

\* Stage: the build served now is verified and renamed into place, or dropped.
DownloadAgent ==
  /\ agent = "up" /\ check = "download"
  /\ IF Accepts(published) THEN staged' = published /\ check' = "staged"
                           ELSE UNCHANGED staged /\ check' = "idle"
  /\ UNCHANGED <<outside, binary, saved, process, wanted, mishaps, upgradeHistory>>

\* The copy ends in an error, or the rename does: nothing is staged.
DownloadFails ==
  /\ mishaps < MaxMishaps /\ mishaps' = mishaps + 1
  /\ agent = "up" /\ check = "download" /\ check' = "idle"
  /\ UNCHANGED <<outside, disk, process, wanted, upgradeHistory>>

Exit == agent' = "down" /\ running' = NoBuild /\ check' = "idle"

\* The staging is recorded, and the process exits so as to be restarted.  If
\* the record cannot be written the agent stays up.
RecordStaged ==
  LET record == [lastStaged |-> wanted, attempts |-> 1]
  IN /\ agent = "up" /\ check = "staged"
     /\ memory' = record
     /\ \/ saved' = record /\ Exit /\ UNCHANGED <<mishaps, spoiled>>
        \/ /\ mishaps < MaxMishaps
           /\ mishaps' = mishaps + 1 /\ Spoil("unrecorded")
           /\ check' = "idle" /\ UNCHANGED <<saved, agent, running>>
     /\ UNCHANGED <<outside, binary, staged, wanted, decided>>

\* The process dies, or the machine does.
AgentDies ==
  /\ agent # "down" /\ mishaps < MaxMishaps
  /\ mishaps' = mishaps + 1
  /\ IF check = "staged" THEN Spoil("unrecorded") ELSE UNCHANGED spoiled
  /\ Exit
  /\ UNCHANGED <<outside, disk, memory, wanted, decided>>

-----------------------------------------------------------------------------
(* The supervisor and the start of the process.                            *)

\* ExecStartPre: copy, rename, then remove the staged file.
PreStartInstall ==
  /\ agent = "down" /\ supervisor = "systemd" /\ staged # NoBuild
  /\ binary' = staged /\ staged' = NoBuild
  /\ UNCHANGED <<outside, saved, process, check, wanted, mishaps, upgradeHistory>>

\* One of its commands fails, before the rename or after it: so does the start of
\* the unit, to be tried again.
PreStartFails ==
  /\ agent = "down" /\ supervisor = "systemd" /\ staged # NoBuild
  /\ mishaps < MaxMishaps /\ mishaps' = mishaps + 1
  /\ binary' \in {binary, staged}
  /\ UNCHANGED <<outside, staged, saved, process, check, wanted, upgradeHistory>>

\* ExecStart, once the pre-start step has succeeded; launchd has none.
StartAgent ==
  /\ agent = "down"
  /\ supervisor = "systemd" => staged = NoBuild
  /\ agent' = "starting" /\ running' = binary /\ memory' = saved
  /\ UNCHANGED <<outside, disk, check, wanted, mishaps, upgradeHistory>>

\* Mutation of InstallStaged: only the unit's pre-start step installs.
InstallNever ==
  /\ agent = "starting" /\ agent' = "up"
  /\ UNCHANGED <<outside, disk, running, memory, check, wanted, mishaps, upgradeHistory>>

\* InstallStaged: nothing to do; or the file replaces the binary and the
\* process exits to be restarted onto it; or it cannot, and the agent runs on.
InstallStaged ==
  /\ agent = "starting"
  /\ \/ /\ staged = NoBuild /\ agent' = "up"
        /\ UNCHANGED <<binary, staged, running, check, mishaps, spoiled>>
     \/ /\ staged # NoBuild /\ supervisor # "legacy"
        /\ binary' = staged /\ staged' = NoBuild /\ Exit
        /\ UNCHANGED <<mishaps, spoiled>>
     \/ /\ staged # NoBuild
        /\ IF supervisor = "legacy" THEN UNCHANGED mishaps
                                    ELSE mishaps < MaxMishaps /\ mishaps' = mishaps + 1
        /\ Spoil("uninstalled")
        /\ agent' = "up" /\ UNCHANGED <<binary, staged, running, check>>
  /\ UNCHANGED <<outside, saved, memory, wanted, decided>>

\* The rename succeeded and the removal of the staged file did not: reported
\* as an error, so the old process runs on over the new file.
InstallUnremoved ==
  /\ agent = "starting" /\ staged # NoBuild /\ supervisor # "legacy"
  /\ mishaps < MaxMishaps /\ mishaps' = mishaps + 1
  /\ binary' = staged /\ agent' = "up" /\ Spoil("uninstalled")
  /\ UNCHANGED <<outside, staged, saved, running, memory, check, wanted, decided>>

-----------------------------------------------------------------------------
CheckForUpgrade == BeginCheck \/ DecideUpgrade \/ DownloadAgent \/ RecordStaged
Supervise == PreStartInstall \/ StartAgent \/ InstallStaged

UpgradeNext ==
  \/ \E b \in Builds : Publish(b)
  \/ SetOptIn
  \/ BeginCheck \/ DecideUpgrade \/ DownloadAgent \/ DownloadFails \/ RecordStaged
  \/ AgentDies
  \/ PreStartInstall \/ PreStartFails \/ StartAgent \/ InstallStaged \/ InstallUnremoved

\* The ticker of runUpgradeChecks and the supervisor's Restart=on-failure.
UpgradeFairness == WF_upgradeVars(CheckForUpgrade) /\ WF_upgradeVars(Supervise)

UpgradeSpec == UpgradeInit /\ [][UpgradeNext]_upgradeVars /\ UpgradeFairness

-----------------------------------------------------------------------------
\* Nothing is ever staged, installed or run but the node's first build and those
\* whose checksum the agent decided on: whatever is published between reading the
\* checksum and reading the bytes, and wherever a step fails or the process dies.
OnlyVerifiedBuilds == {staged, binary, running} \subseteq decided \cup {NoBuild}

\* An install that does not take effect does not make the agent download for
\* ever: once releases stop, so do downloads (the reason for LastStaged).
DownloadsCease == <>[][check # "download" \/ check' = "download"]_upgradeVars

\* When releases stop, a node that is opted in runs the published build,
\* unless an install failed or a staging was not recorded.
UpgradeConverges == <>[](optedIn /\ spoiled = "no" => agent = "up" /\ running = published)

\* The same, excusing nothing but an install that failed: "Failed: this checksum
\* was staged before and the agent is still running the old binary, so
\* installing it is not working" (upgrade.go).
UpgradeNeverGivesUp ==
  <>[](optedIn /\ spoiled # "uninstalled" => agent = "up" /\ running = published)
=============================================================================
