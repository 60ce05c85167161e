# Fleet OS in TLA+

Fleet OS runs services on a fleet of machines that belong to its users. A control
plane (TypeScript, Postgres, Redis) decides what runs where; an agent (Go) on
every node carries it out with Docker, and dials out only: the control plane
never connects to a node. This directory models the parts of it where that is
hard (delegated builds, rollouts, and eight components that share no state with
them), checks the models with TLC on small instances, and proves with TLAPS, for all
instances, every invariant those checks use and every property of theirs that is
not about fairness.

    cd tla
    tlc -config BuildFencing.cfg MCBuildSystem     # any run of PROJECT.json
    tlapm BuildProofs.tla                          # and the other *Proofs.tla

`PROJECT.json` lists the components, runs, mutations, theorems, hazards, and for
each definition the lines of the source it stands for.

## Inventory

| Component | State | Operations | What is hard |
|---|---|---|---|
| Delegated builds, control plane (`build/agent.ts`) | `build_jobs` rows; `inFlight`, `workers`, `resolvers` in memory | `build`, `reserve`, `runJob`, `handleMessage`, `cancel`, `reapOrphans` | late events, retries on another builder, siblings, cancellation, restart |
| Delegated builds, agent (`agent/internal/build`) | task table | assign, cancel, receipt, replay | the control plane forgets it, results are resent until acknowledged |
| Deploy and service routes (`api/services.routes.ts`) | `deployments` rows | deploy, cancel, restart, stop, rollback, reschedule | a build of many minutes between reading and writing |
| Agent API (`api/agent.routes.ts`, `heartbeat/tracker.ts`) | `nodes.status`, last heartbeat in Redis | heartbeat: promotion, recovery; desired state | what was read is written after awaits, by row id |
| Sweeper (`heartbeat/sweeper.ts`) | none of its own | stale builds, stalled rollouts, nodes that are down | judges by what nodes last said |
| Scheduler (`scheduler/`) | none of its own | place, reschedule, reclaim, unstrand, replicas | moves what a returning node may still run |
| Agent reconciler (`reconcile/reconcile.go`) | containers, `settled` | fetch, start, remove | desired state as old as the pass; a daemon that fails |
| Agent prober and heartbeat (`health/prober.go`, `heartbeat/loop.go`, `sampler/`) | verdict per deployment | track, probe, list, send | goroutine of its own beside the reconciler |
| Ingress (`ingress/`) | route cache in Redis, host ports | resolve, invalidate, proxy | a cache filled by a read that is already stale |
| Backups and restores (`backup/`, agent's `internal/backup`) | `backups`, `restores` rows, archives | request, schedule, claim, upload, complete, fail, restore, prune | one at a time, over nodes that vanish; late completions against the stall sweep |
| Tunnels, terminals (`tunnel/`, agent's `internal/tunnel`, `terminal`) | connections, requests and sessions in memory | connect, replace, close, forward, start a shell | a new connection beside the old; goroutines that start late |
| Self-upgrade (agent's `internal/upgrade`, `cmd/agent`, `scripts/install.sh`) | what was staged last, the binary | publish, decide, stage, exit, install | a crash at any point, a release in the middle of a download, an install that does not take |
| Sessions (`auth/tokens.ts`, `sessions.ts`, `api/auth.routes.ts`) | session and refresh keys, second factor | sign in, challenge, refresh, sign out, revoke, CLI login | a refresh that overlaps a revocation |
| Accounts (`auth/email-tokens.ts`, `account-deletion.ts`) | tokens, users, owners | send, redeem, confirm, call off, delete | deciding on what was read before |
| Fleets, GitHub, secrets, alerts, AI diagnosis, CLI, web | rows | requests | little: single statements, validation, presentation |

They interact as follows. A deploy opens a `deployments` row and calls
`builds.build()`, which opens one `build_jobs` row per platform and gives each to
a builder over that node's tunnel; agents answer with events. When the images
exist the route puts the row to `deploying`. The node polls its desired state
(the `deploying` and `running` rows), starts and removes containers, and sends
heartbeats that list them; the handler promotes the row and supersedes the one
before. The sweeper ends what takes too long, declares silent nodes down and has
their rows held, stranded or moved; the heartbeat of a node that returns resumes
them. The same pass of the agent carries out backup and restore jobs, which the
desired state lists. Requests of the ingress and of terminals travel over the
tunnel, whose connection a node replaces whenever it dials again. Nothing but
Postgres, Redis and these messages connects the parts.

What makes each of them correct: a build's result counts only for the attempt it
belongs to and no row is left open; a deploy interrupts nothing unless its
service has a volume; a release is promoted on evidence about itself; a verdict
is written only on evidence; the service is never lost between a node's failure
and its return; the nodes come to run what the rows say; nothing but a
build that was decided on is ever run; no request waits for ever and no connection is
lost sight of; a job that was claimed ends; what was revoked stays revoked; a route
follows its service. Where the code keeps less than that, the properties say what
they except, and "Where the code keeps less than a comment says" says why. `PROJECT.json` lists under "hazards" the lines at which each could go wrong.

## Modules

### Delegated builds

| Module | Models |
|---|---|
| `BuildProtocol` | identities of jobs and attempts, digests, the messages both ways, and the tunnel: lossy, unordered, bounded by `MaxInFlight` messages each way |
| `BuildExecutor` | the agent's task table: one action per message, the end of a build, replay, a restart of the agent |
| `BuildJobs` | `AgentBuildRunner`, the deploy route around it, cancel, the reaper, a restart of the control plane; one action per stretch of code between awaits |
| `BuildSystem` | the two together, and the properties |
| `FencedWork` | the abstract specification: work that is held by at most one owner under a token that grows, and ends once |
| `BuildProofs`, `BuildRowProofs`, `BuildMessageProofs`, `BuildRunProofs` | theorems: types; the rows; the messages; the actors around the rows |
| `MCBuildSystem` | symmetry and capabilities for TLC |

A job is a pair of a deployment and a platform. `jobs` is the table, `building`
and `runner` are where each `build()` and each `runJob()` stands between awaits,
`inFlight` is the map of that name, `toAgent` and `toControl` are the messages on
the way and `tasks` the agents' tables. A digest records who made it, on which
attempt, so that a property can tell whose image a row holds.

Abstracted: source archives, credentials, logs and progress; the capacity of a
builder is a number of jobs (`MaxJobs`) and of tasks (`TaskCap`), and which of
the eligible builders is chosen is left open. `queued`, `building` and `pushing`
of a deployment are one status. A lease is present, passed or absent: time is
nondeterministic, a lease may pass whenever nobody has just renewed it, and the
fence compares with a time captured before the statement, as the code does.

`PrepareFails` is what `runJob` awaits between reserving a row and assigning it: if
the token of the repository cannot be had it throws, with the row assigned and its
lease running. `Watched` therefore says that an open row has a runner, or that the
process has restarted and the row's build is not in flight: what is left then is
the reaper's, and a loop that a cancellation ended beside it.

### Rollouts

| Module | Models |
|---|---|
| `ReleaseRows` | the `deployments` rows of one service, node status, last heartbeats; what a heartbeat is evidence of |
| `NodeAgent` | containers, the reconciler's pass, the prober, heartbeats, and the faults |
| `Releases` | deploy, restart, stop, the heartbeat handler with `reclaimToNode`, the sweeper with `rescheduleFromNode` |
| `Rollout` | the two together, the properties, fairness |
| `RolloutProofs` | theorems |
| `MCRollout` | the root for TLC |

`rows[r]` is a row, numbered as inserted, with `queued` to `scheduling` as
`preparing`, `pinned_unavailable` as `held` and a failed row with
`no_eligible_node` as `stranded`. A host port is named by the row it was
allocated for, so that a restart, which hands its port on, is seen to collide.
`box[r]` is the container of a row; `pass[n]` what is left of the node's current
pass, from the desired state and the listing it began with; `report[n]` and
`silence[n]` the Redis key; `heartbeat[n]`, `sweep` and `calls` the handlers and
what they have read and not yet written. Each statement or transaction is a step
of its own, so everything else may come in between.

Simplifications, beyond those the comments of the modules name:

* one service, probed through a published port; `starting` and `unhealthy` are
  one verdict;
* recording a heartbeat and selecting the rows to promote is one step, as are
  `place()` and the write that follows it, and the two selects of
  `placeStranded()`: the races between those are not covered;
* a new host port is never the one of a container that lingers; which eligible
  node is chosen is left open;
* a node falls silent only while it is disconnected and its last heartbeat is
  handled; the sweeper's grace after a restart has no other effect then;
* restart picks the newest row by number.

`RunsLate` is the ten-minute window. With `Prompt` it passes only over a row
whose container the node runs and has reported: the assumption, named where it
is used, under which the sweeper may be asked never to fail a release that works.
Without it, a rollout may be overdue at any moment.

### Components of their own

Each of these keeps its own state, which no other module of the project reads.

| Module | Models | State and steps |
|---|---|---|
| `AgentUpgrade` | `internal/upgrade`, `decideUpgrade` and `runUpgradeChecks` of `cmd/agent`, the unit and the launchd job of `install.sh` | the record of what was staged and the files survive a crash, the process does not; a check is read sums, decide, download, record, exit, and the machine may die between any two |
| `Backups` | `backup/store.ts`, `schedule.ts`, `backups.routes.ts`, the sweeper's part, `internal/backup`, the agent's pass | rows numbered as inserted; check and insert of a request are two steps, as are reading, removing the archive and removing the row of a deletion; a node does one job of its pass at a time |
| `Tunnel` | `TunnelRegistry`, `tunnel/client.go`, `terminal/session.go` | a connection has two ends and a queue each way, ends close separately, a link may be lost with neither told; `terminal_start` runs in a goroutine of its own |
| `Sessions` | `auth/tokens.ts`, `sessions.ts` and the routes that use them | every request is a process between its awaits; a scan of a revocation finds keys one batch after another |
| `Accounts` | `auth/email-tokens.ts`, `account-deletion.ts`, the janitor | `consumeEmailToken` is four steps; the janitor's list, its verdict and its transaction are three |
| `Replicas` | `scheduler/replicas.ts`, a deploy, promotion by heartbeat, `failStalledRollouts` | rows with the order of `startedAt`, each node reconciles and reports; the sweep judges overdue rows, then, if a node of the fleet is silent, reads the rows and corrects their number |
| `Ingress` | `ingress/routes.ts` and the writers of deployments, node addresses and the alias | a lookup reads, then fills the cache; a writer commits, then invalidates, or does not |
| `Placement` | `scheduler/snapshot.ts`, `placement.ts`, the insert by the caller; holds, `scheduler/reclaim.ts` and the rollback, which insert without a decision | decide on a snapshot, insert later; rows end or are held, nodes go offline, return or are cordoned |
| `TrafficProofs`, `AccessProofs`, `FleetProofs` | theorems: tunnel and ingress; sessions and accounts; upgrade, backups, placement, replicas, and the eight together | |
| `MCComponents` | the eight side by side for TLC | `part` says which one a behaviour is about |

Abstracted: what an archive, a request, a terminal or a page of HTTP holds;
passwords, codes and addresses; when a schedule is due (any time); the ranking of
nodes that are eligible; tags, tiers, architectures, pins and volumes, which no
other service can change and are one constant (`Suits`); access tokens, which
name a session and are good while it is.

History variables say what a property must except, and only that: `spoiled`
(an install that failed or a staging not recorded), `waived` (a user deleted a
backup, or the reply to a stored upload was lost), `overtaken` (a shell whose
start was overtaken), `overlooked` (a closing called off behind the janitor's
list), `excused` (routes a lookup overlapped, and those of the writers that announce
nothing), `raced` (a decision overtaken by another insert), `unchecked` (a row that
was resumed, reclaimed or rolled back without a decision), `rescued` (a row the
sweeper has set running since the last promotion). `decided` and `burned` excuse
nothing: they record which checksums an upgrade was decided on and which links
another has invalidated.

The sweeper's pass over a fleet ends early (`sweeper.ts:322`) when no node of the
fleet is silent, and for some time after a start (`sweeper.ts:274-279`): scheduled
backups, pruning, stalled backups and restores and the number of copies come after
that. `Stale` in `Backups` and `absent` in `Replicas` are that condition; what
those functions do is not limited to the fleet, so a silent node of another one
lets the backups' part run too (`elsewhere`).

Smaller simplifications of these and of the build model:

* `InsertJob` and `ReuseDigest` are one step each though the code awaits a query
  between its check and its write; a cancel there is found by the checks of
  `reserve()` and of the merge;
* `FinishDeploy` fails a placement that has changed like any other failed deploy;
* `NodeAgent!StartRow` pulls, creates and starts in one step, and `Beat` lists and
  probes in one;
* `Sessions!Logout` consumes and deletes in one step, as does the use of a
  challenge token;
* an error of the send in `Tunnel!ForwardHttpRequest` ends the request as its timer
  does, which may be at any moment;
* two rows of one service on one node are counted once by `Placement`.

## Runs

All bounds are CONSTANTS; a run takes between a second and two and a half
minutes.

| Run | Instance | Shows |
|---|---|---|
| `build_fencing` | one job, two builders, two attempts, one restart; 0.5 M states | `DigestFence`, `AttemptOwned`, `ReceiptMeansSettled`, `Watched`, `ActiveHasLease`, `FailedStaysFailed`, `ClosedIsFinal`, `OrphansOnlyEnd`, and `ImplementsFencedWork`, the refinement of `FencedWork` |
| `build_siblings` | two platforms, an earlier deployment to reuse, one builder of capacity one, cancel; 1.8 M states | `ShipsWhatWasBuilt`, `BuilderNotOverbooked` |
| `build_liveness` | one job, one attempt, a restart and a cancel; 0.1 M states | `BuildReturns`, `JobsEnd` |
| `build_retries` | two platforms, two attempts, an earlier deployment to reuse, builders that have no room; 0.3 M states | `BuildReturns`: `build()` waits for all its runners and their retries, and the failure of one ends the others |
| `rollout_safety` | a deploy over two nodes, one of: a node lost, an agent restarted, the control plane restarted; 2.0 M states | `KeepsServing`, `NotLost`, `CancelledNeverLive`, `WorkingNotFailed` |
| `rollout_liveness` | a deploy of a good or a broken image, a restart or a stop; two faults of agent, container, daemon, control plane; 0.1 M states | `RolloutsEnd`, `Converges` |
| `rollout_failover` | a service with a volume, pinned or not; two nodes, two faults of link, agent, control plane; 0.4 M states | `NotLost`, `Converges` through hold, strand, resume and placement |
| `rollout_by_name` | one deploy of a broken image | refutes `BrokenNeverPromoted` |
| `rollout_writers` | one deploy of a service with a volume | refutes `OneWriter` |
| `rollout_blind` | one deploy, one failure of the daemon | refutes `WorkingNotFailed` |
| `rollout_held` | a pinned service, its node lost once | refutes `HeldWhileDown` |
| `components` | the eight components above, each alone; 0.5 M states | one or two properties of each, below |

What `components` shows:

* upgrade: `OnlyVerifiedBuilds`, `DownloadsCease`, `UpgradeConverges`;
* backups: `GoodArchiveSurvives`, `ClaimedEnds`;
* tunnel: `NoneForgotten`, `OpenIsRegistered`, `ShellsEnd`;
* sessions and accounts: `RevokedStaysRevoked`, `DeletedOnlyIfMeant`, `OrgHasOwner`;
* replicas, ingress, placement: `OneInCharge`, `StaleOnlyIfExcused`, `RoutesFollow`,
  `NotOvercommitted`.

They share one run because they share no variable: a behaviour that interleaved
two of them would show nothing that either does not show alone, so the root
chooses one and leaves the others at rest.

Why the bounds are enough. The fence needs two attempts and two builders for an
event of the wrong attempt or owner to exist, a restart for orphans, and one
message each way in flight since the network already reorders and loses; the
siblings run has the second platform and the second deployment instead of the
second attempt, and `build_retries` has both, with builders that refuse so as to
keep it small: what it asks is whether the waiting ends, however attempts do.
In `components` every hazard needs two of something: two releases and two mishaps (one in the download, one in the install); two backups with
`Keep` one, so that one is pruned; two connections of one node; two requests that
redeem or refresh at once, with a revocation beside them; two copies on two nodes;
a service on two nodes with its own name and an alias; three services of which two
fit a node. A rollout needs the serving release, the new one and one that a
failover inserts: three rows; more come only of a second deploy. Deadlock is not
checked: with every counter at its bound and every release settled the models
stop, as the system waits for its users.

Each property of a passing run is known to fail for a mutation of the code's
logic that is written beside the definition it replaces ("Mutation of ...").

### What the refuted properties say

* **Promotion by name** (`agent.routes.ts:504`). The heartbeat between a deploy
  and the node's next pass does not list the new row; the handler then looks its
  *service* up by name, finds the old release's healthy container, promotes the
  new row and supersedes the old one. The fallback is meant for agents that
  report no deployment ids, but it applies to every row that is missing. A deploy
  and one heartbeat suffice: health evidence does not gate promotion, although
  the sweeper's comment and `docs/ARCHITECTURE.md:113` rest on it.
* **Two writers** (`reconcile.go:228-317`). A pass starts, then removes. The
  deploy route supersedes a stateful release first, "handled on the node", but
  the node starts the new container on the volume before it removes the old one.
* **Blind heartbeat** (`sampler.go:92-96`). A failed listing is sent as an empty
  one, which reads as "no such container".
* **Held for good** (`reschedule.ts:53-57`). The sweeper's write arrives after
  the node's return.

`KeepsServing`, `NotLost` and `WorkingNotFailed` hold in the passing runs under
their stated conditions (images that answer, prompt nodes, no daemon
failure, builds that leave a rollout its window); the runs above are the same properties, or their neighbours, without them.

### Where the code keeps less than a comment says

No run is kept for these; TLC finds each within seconds when the definition, where
one is named, is added to a run of its module alone.

* **The sweeper looks only while a node is silent** (`sweeper.ts:322`). In a fleet
  whose nodes all answer, scheduled backups are not queued, old ones not pruned,
  and a backup or a restore whose agent forgot it by restarting stays running, and
  "the one-at-a-time rule then blocks every future backup of that service"
  (`sweeper.ts:386-389`): `NoneStaysRunning` of `Backups` fails. `ClaimedEnds`
  states what is kept: it ends, or nobody is at it and no node is silent.
* **Several copies** (`agent.routes.ts:536`, `docs/fleet-yaml-spec.md:163`).
  A promotion supersedes every other live row of the service, the copies beside it
  too, and the number is corrected only while some node is silent: `ReplicasKept`
  of `Replicas` fails even of a fleet in which one always is. Nor does a promotion
  leave one release in charge for good: the rescue of an overdue rollout
  (`sweeper.ts:200-207`) sets a row running and supersedes nothing.
  `OneInCharge` states what is kept.
* **Long builds** (`services.routes.ts:933-935`). A push resets `startedAt` when
  the row goes live, and says why (`deploy.ts:108-116`: the row of a longer build
  "was failed by the next sweep while its container was still starting"); the
  dashboard's deploy does not. Releases that go live so have age `spent`, and
  `KeepsServing`, `NotLost` and `WorkingNotFailed` except them, since such a
  release may be failed, and be the last.
* **Routes** (`ingress/routes.ts:173`: "Called whenever placement changes"). The
  dashboard's deploy going live, rows that are held, stranded or failed, rows that
  are resumed or placed again on a node's return, eager reclaim and a new address
  of a node invalidate nothing: the cache follows when its keys expire
  (`RoutesFollow`).
* **Capacity** (`scheduler/reclaim.ts:59-62`, `107-119`, `services.routes.ts:394`).
  A row held for a node is not in the snapshot, and it resumes, as a row is
  reclaimed or rolled back, without a look at what the node has since promised.
* **Mailed links** (`auth/email-tokens.ts:84-102`). A link's siblings are
  invalidated by an update of its own, after the one that marks the link: two that
  are marked before either of those are both redeemed. `LinksUsedOnce` says: not
  once the second update has been made.
* `RestoredOnlyStopped` (`backup.go:146`): a restore is queued only while the
  service is stopped, and nothing stops a deploy before it is carried out.
  `OneBackupAtATime` (`store.ts:96`): the route and the schedule both look before
  either inserts. `NothingOrphaned` (`store.ts:212`): an upload that ends between
  the removal of the archive and of the row leaves its file.

Two liveness statements fail by what the code intends or nearly so.
`UpgradeNeverGivesUp`: if the record of a staging cannot be written the agent
stays up on the old binary, remembers the staging in memory, and two checks later
calls an install failed that was never tried; only a restart installs it.
`PendingEnds`: a backup whose node never returns stays pending, since only running
ones are swept.

`CompleteHasArchive`, `LinksUsedOnce`, `OneRefreshPerSession` and
`FactorNotReplaced` hold of the same instances and are stated in their modules, the
first two with a proof.

Two more behaviours of the code were seen and have no property, since no document
says otherwise: a promotion or a rescue that writes by row id what it read before
(`agent.routes.ts:519`, `sweeper.ts:206`) can bring a stopped service back, and so
can the old stranded row of one that was placed again and stopped
(`reclaim.ts:192`); and an agent's task whose result is of an old attempt is never
acknowledged and keeps one of its 128 places until the agent restarts
(`executor.go:120`).

## Fairness

Builds (`BuildSystem!Fairness`): weak fairness of the control plane's own
continuations, timers and handlers, which Node's event loop runs as long as the
process lives, and of the passing of a lease once its build is not in flight and
nobody renews it (`OrphanLeasePasses`). Nothing is assumed of
agents, of messages or of operators: `BuildReturns` holds with builders that
renew for ever or vanish, because the deadline of the poll is the control
plane's.

Rollouts (`Rollout!Fairness`): weak fairness of each node's pass (the ticker of
`runReconciler`), of its heartbeat with every probe done (`Loop.Run`), of a
disconnected node either falling silent or coming back, of each heartbeat's
handler, of the sweeper's tick, of the two-statement operations, of the window of
ten minutes, and of a build that ends (`BuildReturns` of the build model, and
`failStaleBuilds()` after a restart).
Faults and operators' requests are not fair, and faults are bounded, so "the
nodes come to run what the rows say" means once faults cease.

Components (`MCComponents!MCFairness`): the ticker of `runUpgradeChecks` and the
supervisor's restart; each node's pass over its jobs, and the stall sweep as
long as the sweeper gets to it (its guard is `Stale`); that a
lookup which has read writes the cache, that Redis expires keys, that a writer
which has committed goes on to invalidate. Releases, deploys, requests, faults
and crashes are not fair. 

## Proofs

Every theorem holds for any sets and bounds that meet the named ASSUMEs of the
modules, which say what the code says: bounds are naturals, "nobody" is none of
them, `Copies` is finite. Each is an induction: the property, which is seldom
inductive, is strengthened by what the steps rely on; the strengthening was checked
by TLC first.

### Builds

* `BuildProofs`. `TypeCorrect`: `Spec => []TypeOK`. `TypeOK` is not inductive:
  `reserve()` writes the builder a runner chose, a runner's job must be a job of a
  deployment that is being built, and a reaped row's attempt must be one. The
  induction is over `IndInv == TypeOK /\ RowsOK /\ RunnersOK /\ ReapingOK`: an
  attempt and its builder come and go together, a runner that may still start an
  attempt has one left, the reaper's snapshot is of attempts. One lemma for the
  actions of each actor shows its steps keep it; `StepIndInv` puts them together.
* `BuildRowProofs` first shows that every step writes the table in one of nine
  ways (`StepWrites`: insert, reuse, assign, close, time out, lease, renew, record,
  sweep). The rest is proved of the nine, not of the thirty-six actions:
  `DigestFenced`, `ActiveLeased`, `ClosedForGood`, `CancelDurable`, and
  `TableFences`, that the table implements `FencedWork` under the refinement
  mapping the run uses. Each of the nine is a step of the abstract specification or
  a stutter; what a row shows of itself (`Seen`: holder, epoch, outcome, product)
  and that only a succeeded row has an image (`NoImageYet`) are what it takes.
* `BuildMessageProofs`. `AttemptsOwned` collects every attempt that is named
  anywhere with the builder it is named with (`Known`: on the tunnel both ways, on
  agents, in handlers, in the reaper's hands) and shows that each is one its row has
  reached, the current one only with the row's builder, and with one builder each
  (`Owned`). `ReceiptsSettle` needs more: that between its reservation and its
  assignment no agent has heard of an attempt (`Unheard`), so that a result for it
  cannot have been acknowledged before.
* `BuildRunProofs`. `NeverOverbooked`: what a builder is active for is finite and
  within `MaxJobs` (`HeldFew`), because `reserve()` counts and writes under one
  lock. `OrphansRunOut`: of a build whose loop died with the process nothing is in
  flight, no runner is left and no event is between `handleMessage()`'s checks and
  its UPDATE (`LostQuiet`). `OpenRowsWatched`: a row is opened by the step that
  starts its runner, and no runner leaves an open row except to a process that
  restarted (`RestartIdle`). `ShipsWhole`: what is merged, returned and scheduled is
  all succeeded (`ClaimsWhole`), since closed rows stay as they are.

### Rollouts

`RolloutTyped` is the type theorem. As for builds, every step writes `rows` in one
of ten ways (`RowWrite`), and `Imaged` says that whatever anybody holds from a
select (`Named`: heartbeats, sweeper, operators) has an image.

| Theorem | Hypotheses | Argument |
|---|---|---|
| `CancelledForGood` | none | who holds rows from a select holds rows with an image, and going live reads the status under its lock |
| `WorkingRolloutsStay` | `Prompt`, faults only of links, agents and the control plane | an overdue rollout runs, stays and was seen (`NoneGivenUp`), so `failStalledRollouts` has a verdict of failure only for one that went live with its window used up; and verdicts are carried out before rows are held, so that none of them falls on a row that resumes with a new window (`HeldApart`) |
| `NeverLost` | the same, and nobody stops the service | every write that takes a row out of service puts one in, holds it or strands it, but the failing of a release whose window was used up |
| `DeployKeepsServing` | `Prompt`, deploys only, no volume | as long as no release went live with its window used up (`InTime`), `Deployed`: one release follows (`OneFollows`), nothing is down (`NothingDown`), only that release is in anybody's hands (`InHand`), and it runs or starts before the old one is removed (`OneServes`) |

The hypotheses are needed. With containers that exit, or a daemon that fails, TLC
refutes both `NotLost` and `WorkingNotFailed`: the sweeper's verdict is carried out
after the heartbeat that promoted the release. A stop is meant to leave no row. And
`KeepsServing` is stated of one deploy: of two that overlap on two nodes, the second
is promoted by name and supersedes the first on the other node, whose pass has
already removed the old container (TLC finds it with `MaxOperations = 2`).

### The eight components

Each has its type theorem (`UpgradeTyped`, `BackupTyped`, `TunnelTyped`,
`SessionTyped`, `AccountTyped`, `IngressTyped`, `PlacementTyped`, the replicas' in
`ReplicasInv`); `ComponentsTyped` combines them for the root of the run, of which
every step is a step or a stutter of each component.

* `VerifiedBuilds` (`OnlyVerifiedBuilds`): a download is for a checksum that was
  read and decided on (`WantedDecided`), and bytes are staged only if they have it,
  whatever is served by then; the pre-start step and the agent install nothing else.
* `LastBackupKept` (`GoodArchiveSurvives`): a job belongs to a row of its node, each
  row to one job (`JobsOwn`); a complete row has none left that could report it
  failed (`Settled`); and for everything pruning has found or is deleting there is
  a newer complete row that it has not (`NewerKept`). The last rests on the newest
  row being never in excess, which is well-founded induction. `ArchivesKept`
  (`CompleteHasArchive`): an archive is written before its row says complete, and
  removed only by a deletion that ends with the row.
* `RequestsNeverForgotten`: a request is in the map exactly while it is open.
  `RegistryKnowsTheOpen`: an open socket is its node's, for which the connections
  that ended, that are being closed and that are still to register must be told
  apart. `ShellsNeverLeft`: the queues to the nodes join the invariant: a start is
  on its way once (`StartsOnce`), to a node that has no such shell yet
  (`StartsComing`), and the close that must follow it is behind it or the
  connection is ending (`ShellsAsked`).
* `RoutesExplained`: what a lookup carries between its read and its write is
  current, or a writer has since excused the name or is about to invalidate it;
  every writer of rows changes one service's (`RowsWritten`) and either announces or
  excuses it.
* `GoneForGood`: a request that rotates has a token of a session in hand; every
  step that writes a session's key finds it absent and new, or active.
* `OrgKeptWithOwner`, `DeletedAsMeant`, `LinkOnce`: the janitor's verdict stands
  until its transaction, whoever is on its list confirmed, and a token that is not
  used was neither redeemed nor invalidated.
* `WithinCapacity` (`NotOvercommitted`): a decision fits its node unless an insert
  has overtaken it (`DecisionsFit`), leaving out rows that came without a decision, and
  so do the rows that were checked (`CheckedFit`); memory is counted in units, so that the sum
  over rows is the size of a set, about which the library has facts.
* `OneRunning` (`OneInCharge`): ids stay unique and rows ordered (`Ordered`) through
  inserts at any date and updates; a promotion leaves one row running, and from then on
  only a rescue adds one.

### Only model-checked

The liveness properties (`BuildReturns`, `JobsEnd`, `RolloutsEnd`, `Converges`, `DownloadsCease`, `UpgradeConverges`, `ClaimedEnds`,
`RoutesFollow`): they rest on fairness, which is out of the prover's reach.
`OneRefreshPerSession` and `FactorNotReplaced`, which no run keeps, have not been
tried.

## Not modelled

* of builds: local `docker buildx`, transfers of sources, manifests, logs;
* of rollouts: deploys by push, rollback, eager reclaim, manual moves and the watchdog
  (only as `Ingress` and `Placement` see them), cordons (only in `Placement`), deletion;
* allocation of host ports: two deploys to one node may be given one port between
  the select and the insert (`ingress/routes.ts:254`);
* the Windows installer of the agent, pairing, and the configuration on a node;
* of accounts: signing up, GitHub's handshake, roles and their checks;
* the composition of the eight components with the rollout model: a backup's
  service, a route's rows and a replica's deploy are modelled in each of them as
  far as it reads them;
* what is I/O, presentation, parsing or a single guarded statement: fleets,
  secrets, alerts, GitHub, AI diagnosis. Each is in `PROJECT.json` with its reason;
* the CLI, the dashboard and the web site, two fifths of the repository's lines:
  clients of the HTTP API and user interface, which keep no state of the system.

## What would come next

1. Rollback, eager reclaim and deploys by push in `Rollout` itself; a run for restarts
   together with a lost node, where a rescue and a restart leave two rows on one
   host port.
2. An abstract specification of a service (one release serves, is replaced,
   moves) for `Rollout` to implement under prompt nodes.
3. Proofs: the type theorem of `Replicas` on its own, `OneRefreshPerSession` of `Sessions`; then whatever an abstract specification
   for `Rollout` needs.
