# flux-pg-cluster: a TLA+ verification project

The system runs PostgreSQL under Patroni on nodes that Flux, an untrusted
hosting network, starts, moves and kills at will.  Patroni's DCS is an etcd
cluster embedded in the same containers, so the etcd cluster comes and goes with
the nodes it is meant to coordinate.  The code this project is about is
`flux-agent`, a Go program that decides, on every node and without a coordinator,
which etcd cluster the node belongs to, who its members are, and when data may be
overwritten.  Mistakes there are split brains and lost databases, and they need
several nodes and an unlucky order to happen.

Paths below are relative to `src/`.  `agent/` stands for `cmd/flux-agent/`.

## 1. Inventory

| Component | Code | State it keeps | Operations |
|---|---|---|---|
| etcd-start | `agent/etcd_start.go` | `/var/lib/etcd`, process locals, the force-new flag file | start with present data (verify, wipe, keep), join peers as a learner, decide a bootstrap, exec etcd |
| identity evidence | `agent/bootstrap_identity.go` | none (samples of one round, locals of the confirmation) | local identity, probe all peers, evaluate fresh / recovery evidence, confirm it for several rounds |
| daemon | `agent/daemon.go` | in memory: desired view and its stability count, outage counters, confirmed ghosts, cooldown; on disk: cluster_env, force-new flag | refresh the Flux view, rewrite cluster_env, promote learners, remove ghosts and undesired members, handle an unreachable etcd, trigger force-new, check the Patroni system ID and wipe PGDATA |
| init | `agent/init.go` | cluster_env, certificates, Patroni configuration | poll Flux for the first view, write the topology |
| proxy | `agent/proxy.go` | address of the current primary, the configuration of its start | answer identity probes, find the primary, forward connections |
| backup | `agent/backup.go` | dump files in the backup directory | dump, verify, publish by rename, prune by count and bytes |
| config | `internal/config/config.go` | cluster_env (written in place, read by everyone) | load, save |
| etcdmgr, Patroni and Flux clients | `internal/*` | none | one external query each |
| supervisord and image | `supervisord.conf`, shell scripts | process table | restart etcd-start and the daemons, start Patroni after etcd |

How they interact: the daemon writes cluster_env, etcd-start and the proxy read
it afresh for every attempt and every request; the daemon writes the force-new flag
and restarts etcd through supervisord, etcd-start consumes the flag; etcd-start of
one node talks to etcd of the others (member list, member add) and, only when no
etcd answers, to their proxies (identity probe); Patroni starts when the
local etcd is healthy and fills or changes PGDATA, which the identity probes
describe.

Hard behaviours: a probe round is not a snapshot; two nodes decide at once;
views differ between nodes and change under a running process; processes die
between any two steps and forget what they refused to do; the same directory
means "new node" and "node whose volume was lost"; etcd restarts race a
confirmation that takes tens of seconds; files are read while they are written.

What makes each component correct:

* etcd-start and evidence: no fresh epoch over data, no recovery that discards
  what another member holds, no two epochs founded side by side, and a deployment
  that can be settled without guessing is settled.
* daemon: force-new only after a confirmed and lasting outage and only on one node;
  a member that answers is removed only when it was not listed for long enough, and the
  members end up as the listed nodes; PGDATA is wiped only for a database that lives on
  elsewhere.
* proxy: connections are only directed to a node that was the primary while the proxy
  looked for it, and in the end to the primary.
* backup: what is published was verified, as far as verification goes; pruning never removes
  the newest backup; one process dumps at a time.
* config: whatever a reader sees while cluster_env is rewritten, in the end every reader
  has the list that lasts.

`PROJECT.json` lists all hazards with their lines, and the properties that
cover them.

## 2. Modules

| Module | Models | Role |
|---|---|---|
| `Evidence` | the two evidence policies of `bootstrap_identity.go` | constant operators, no state; used by every module that founds or recovers an epoch |
| `EpochBootstrap` | etcd-start on all nodes, the probe rounds, the disturbances around them | the core |
| `ReplicaSelection` | the loops of `evaluateRecoveryAuthority` and `selectMostAdvancedReplica` | shows that they compute `Evidence!Authorities` |
| `Outage` | the daemon's outage handling, the force-new flag, etcd-start's use of it, etcd quorum | composes daemon, etcd-start and etcd of all nodes over `Evidence` |
| `Membership` | the rest of the daemon's cycle: Flux list, ghosts, learners, removals | composes the daemons, etcd-start and etcd of all nodes with Flux |
| `SystemId` | `checkStalePatroniLeader`, `checkPatroniSystemID` | the daemons of all nodes, Patroni and two keys of the DCS |
| `ClusterEnv` | cluster_env of one container: init and daemon write, all read | the file under `Proxy` |
| `Proxy` | the proxy of that container | extends `ClusterEnv`, composes proxy, daemon, file and the primary |
| `Backup` | the backup agent | implements `BackupStore` |
| `BackupStore` | what the backup agent promises | abstract specification |
| `AtomicFounding` | what etcd-start promises: foundings as if decided at one instant | abstract specification, implemented by `EpochBootstrap` |
| `EpochLine` | what the way out of an outage promises to PostgreSQL: epochs in a line | abstract specification, implemented by `Outage` |
| `EpochBootstrapProofs`, `FoundsOnceProofs`, `ReplicaSelectionProofs`, `OutageProofs`, `BackupProofs`, `ProxyProofs`, `MembershipProofs`, `SystemIdProofs` | | theorems and proofs |
| `MCEpochBootstrap`, `MCReplicaSelection`, `MCOutage`, `MCMembership`, `MCSystemId`, `MCProxy` | | constants for TLC (`Backup` needs none) |

Each module looks at the same programs from another side, and fixes what the others vary.
`EpochBootstrap` has the probe rounds, changing views and changing PGDATA, and an etcd that
merely answers or not. `Outage` has quorum, learners, the daemon and the flag, and takes a
confirmation as one step on a fixed view and PGDATA. `Membership` has the changing list and
the member entries, and no second epoch. `SystemId` has the databases, and an etcd that
always serves. `Proxy` has one container, and sees the others as answers.

Planned: `DcsConfig`, the read, merge and write of `reconcilePatroniDCSConfig` by several
daemons, and `reconcilePostgresCredentials`.

## 3. EpochBootstrap: state and actions against the code

State per node: `view` (cluster_env), `pg` and `stray`/`epoch` (the two volumes),
`pc` (container off; supervisord about to run etcd-start; peer discovery; fresh or
recovery confirmation; about to exec; etcd running), and the process locals `cfg`,
`run`, `seen`, `plan`, which `Halt` erases.  `roster[e]` is the member list of epoch
`e`, `born` counts the epochs; `founded` is a history variable: how and on which
view a node founded the epoch its disk has held ever since.

| Action | Code |
|---|---|
| `Boot`, `Stop`, `LosePg`, `LoseEtcd`, `EtcdExit` | container and volumes come and go; `init.go` writes the first view |
| `UpdateView`, `RemoveMember` | `updateClusterEnv` and the removal of undesired members in `daemon.go` |
| `PatroniFills`, `PatroniChanges` | Patroni and PostgreSQL change PGDATA |
| `StartKnown`, `StartUnknown`, `StartAlone`, `StartEmpty` | `runEtcdStart`: data present and a peer knows us / does not / none answers; no data |
| `Reload`, `JoinPeer`, `JoinRefused` | one attempt of `tryJoinExistingWithLoader`; a member add may be refused, or be committed although its answer comes too late |
| `GiveUp`, `DecideOverride`, `DecideFresh`, `DecideRecover` | the end of peer discovery and `decideBootstrap` |
| `Probe`, `ProbeFails` | one goroutine of `probeAllPeerIdentities` gets its answer or not |
| `FreshRound`, `RecoverRound` | one iteration of the two confirmation loops |
| `FoundEpoch`, `JoinEpoch`, `JoinEvicted` | exec of etcd with state new or existing, and a member that was removed meanwhile |

Abstractions and assumptions:

* Node names are naturals; the code uses their order only to pick the smallest.
  A name, scope or app mismatch, an HTTP error and the fallback to Patroni's REST
  API (which has no membership view and can therefore only block) are one outcome:
  a failed sample.
* PGDATA is the record of what an identity tells: empty or not, system ID, role,
  timeline, WAL position. A directory without a readable control file is `PartialPg`.
* **Timing assumption** (`Unobserved`): the PGDATA of a node that has answered a probe
  does not change before that probe round ends, and that of a deciding node does not
  change while it decides. A round lasts as long as its slowest probe, seconds;
  Patroni only runs behind a healthy local etcd and starts at least 20 s after it
  (`supervisord.conf`). A base backup or initdb that *begins* (`PatroniFills`) is not
  restricted, and between two rounds anything may change. Without the assumption
  `RecoveryKeepsBestCopy` is false of any protocol that probes instead of locking.
* An etcd answers or does not (quorum, network): both are always possible, so nothing
  is concluded from the silence of etcd; quorum itself is in `Outage`.
* The temporary etcd of `verifyLocalDataWithTempEtcd` always ends in "keep the data"
  in the code; it is not visible to peers here.
* A wipe of `/var/lib/etcd` succeeds, here and in `Outage`. The code goes on when it fails in
  `StartUnknown` (`agent/etcd_start.go:99`) and gives up the cycle or goes on in the daemon's
  reset (`agent/daemon.go:970`, `:988`); etcd then starts on partly removed data, and what it does with
  that is etcd's own affair.
* The force-new flag and the daemon's wipes are in `Outage` and `SystemId`; a cluster_env
  that is read while it is rewritten is in `ClusterEnv`.

Bounds: `MaxFaults` counts every disturbance and bounds how many happen,
`MaxEpoch` bounds how many epochs are founded, `Cycles` is the code's own parameter.
The two-node run uses two rounds and four disturbances, which covers "answer, change,
confirm, change, found" by each of the two nodes; the three-node run adds the third party
of an election with one round, and gives one node the operator's override.  CHECK_DEADLOCK is FALSE because the system
rests: when each etcd is up and no disturbance is left nothing happens.

`AtomicFounding` leaves out all that makes the protocol hard: probes, rounds, samples, loaded
views, crashes of processes. A node founds an epoch in one step in which it looks at the disks
of all members of its view; besides, disks change, get lost, and nodes join. The two share
`pg`, `epoch`, `founded` and `born`, so the mapping is the identity on these and the rest is
forgotten.

### ReplicaSelection

One state per visit of a loop: `phase` is the loop, `todo` what it has not visited, the
other variables are the locals of the two functions.

| Action | Code (`bootstrap_identity.go`) |
|---|---|
| `Screen`, `ScreenBlocks`, `ScreenEnds` | the loop at 283, its early returns, and the decisions at 315-328 |
| `Classify`, `ClassifyBlocks`, `ClassifyEnds` | the loop at 332 and the choice at 354 |
| `Rank`, `RankBlocks`, `RankEnds` | `selectMostAdvancedReplica` |

A loop may visit its nodes in any order, which includes the code's. The checks of app, scope
and name are one outcome with a failed probe. The run takes three nodes because a third
one is what a wrong running maximum needs.

### Outage

State per node: `epoch` (etcd data), `pc` and `target` (etcd-start), `flag`, `downs`,
`noquorum`, `cooling` (the files under /tmp), `daemon` (idle, confirming on the
unreachable or the no-quorum path, between the flag and the restart, waiting for etcd).
`roster[e]` is etcd's member list of epoch `e`: voter, learner, added but not started.

| Action | Code |
|---|---|
| `StartPresent`, `StartEmpty` | `runEtcdStart` 69-134, with `consumeEmptyDCSRecoveryHint` |
| `JoinPeer`, `JoinFails` | `tryJoinExistingWithLoader`, and what runEtcdStart does when it fails |
| `Exec` | 194-224: consume the flag, become etcd; `--force-new-cluster` has an effect on existing data only |
| `CycleDown` | `handleEtcdUnreachable` up to the confirmation |
| `CycleNoQuorum`, `CycleHealthy` | `runReconcile` with a failing and a working quorum probe: counters, split-brain restart, mismatch wipe, promotion |
| `ConfirmEnds` | the answer of `confirmRecoveryAuthorityWithPeers`: trigger, follow the authority, or nothing |
| `ForcedRestart`, `CleanKeys`, `WaitFails` | the rest of `triggerForceNewCluster` |
| `CooldownEnds` | time passes |
| `EtcdExit`, `LoseEtcd`, `DaemonExit` | disturbances |

Abstractions: all nodes are desired and the Flux list is stable, so ghosts are never
undesired; PGDATA does not change; a confirmation is one look at all identities, made at
its end (the rounds are `EpochBootstrap`'s subject); etcd 3.5 answers a member list only
with a quorum and not on a learner; `/health` of a running etcd without a quorum may or
may not answer. The network works: all loss is loss of processes and files. A wipe of
`/var/lib/etcd` succeeds, see `EpochBootstrap`.

Initial states (`Initial`, in `MCOutage`): `TotalLoss`, all etcd data gone and a replica on
every node; `SoleSurvivor`, PostgreSQL and etcd data on one node only; `Healthy`, every etcd
runs and any nodes have PostgreSQL data.

`EpochLine` sees three things of this: the last epoch founded (`born`), who has etcd data of it
(`Holders`) and who of an older one (`Stale`). A founding is by the one node whose copy goes
first (`Heirs`), over the loss of all etcd data or by the holder of the only copy; other nodes
get etcd data from somebody who has it; data is dropped. Daemons, flags, starts, quorum and
cooldowns are stutters.

Bounds: `outage_safe` starts with the loss of everything, so the election among three
copies is what it explores, and adds one disturbance at any moment of it. `MaxEpoch` is 3
there, which leaves room for the old epoch, a new one and a fork of it, and 5 in
`outage_heals`, where it must not be what stops a recovery (with 4 it does). The two
refuted properties need two disturbances of a healthy deployment: to break a quorum of three
and to have it come back. Thresholds of 1 count one cycle: what matters is that counting,
confirming and acting are separate steps, and that the counters are reset in between.

### Backup

`files` and `tmps` are the directory, `pc`, `cur`, `draft`, `hidden` and `victims` the locals of
a cycle; `latest`, `clean` and `steady` (the clock was never set back, and no listing missed a
file) are history variables. Actions follow the statements of
`runBackupCycle` and `pruneBackups`: `StartDump`, `DumpEnds`/`DumpFails`, `VerifyFails`,
`RenameFails`, `Publish`, `ListFiles`/`ListFails`, `Select`, `Prune`, `PruneEnds`, `DropOldest`,
`CycleEnds`; `Crash` may come between any two. Names and modification times come from
`clock`, which `ClockSetBack` moves. An entry whose `Info()` fails is passed over by the whole
cycle (`hidden`).

What pg_dumpall leaves is external: a file that is `"whole"`, cut after the marker that
pg_dump writes at the end of one database (`"part"`), or cut before the first (`"stub"`).
`verifyDump` stops at the first marker it meets, so it tells only the last kind from the other
two (`Marked`). A dump is cut although `writeDump` returns no error only as a disturbance.

Five cycles with a retention of two and three sizes, one of them above the cap, let every rule of
pruning apply and be interrupted. CHECK_DEADLOCK is FALSE in this run, and in `selection`, because
both stop: the bound on cycles is reached, the function has returned.

`BackupStore` is what somebody who restores can rely on: a set of numbered verified backups,
in which one appears at once (possibly in place of an older one of the same name)
and old ones go one at a time, never the last. The mapping is `Offered`, the numbers of
the files that carry a marker. Dumping, verifying, failing and crashing are stutters. The store
does not promise that a backup is whole: the code does not establish it, see section 4.

### Membership

State: `flux` (what the API lists), `members` (etcd's member entries: an ID, a node, and
added, learner or voter), `place` and `pc` per node (container and disk; etcd-start), and per
daemon `last` and `count` (the state tracker) and the locals of its cycle: `phase`, `list`,
`todo`, `victim`. `missed` is a history variable, the polls in a row without a node.

| Action | Code |
|---|---|
| `Poll` | `runReconcile` up to `updateStateTracker`: the list of Flux and its stability count |
| `ListMembers`, `RemoveGhost`, `ListAgain` | the member list, the loop over unstarted members, the second member list |
| `Judge`, `RemoveMember` | one visit of the removal loop: the health check and the gate; the call of `MemberRemove` |
| `Promote` | one visit of the promotion loop |
| `StartExisting`, `DropGhost`, `Register`, `Exec`, `Evicted` | etcd-start of a node that is known, removes its unused entry, is added as a learner, becomes etcd, or was removed |
| `FluxChanges`, `Placed`, `Killed`, `EtcdExits` | Flux drops, lists, starts and ends containers; etcd exits |

A removal is two steps because seconds pass between the look at a list and the call, and the
list is the one from the start of the cycle. `MemberRemove` goes by the ID: an entry that was
unstarted when a daemon listed it is removed although it is that of a running learner by now,
or of a voter (`AfterRemove`; within the bounds both happen). `DropGhost` and `Register` are two steps,
as the code sleeps in between. A member add that is committed but not answered in time
leaves an entry without a process, like an exit before exec. `FindByClientIP` returns any of the entries
whose client URL contains the address: the order of etcd's list is not fixed. `Contains` says
which addresses contain which; it is empty in `membership` and one pair in `removes_listed`.
etcd is external: quorum for every call, one learner at a time, no addition while a voter is
down, no removal that costs the quorum. The etcd cluster lives on: `Converges` has
`<>[]HasQuorum` as its premise and leaves the rest to `Outage`.

Bounds: two nodes and one that comes and goes, two disturbances (a change of the list and
another one or an exit), a stability threshold of 2, so that a count can be interrupted; six
member IDs, so that an ID somebody remembers is not given again, as in etcd.

### SystemId

State: `init` and `leader` (two keys of the DCS), `pg` and `role` per node, and the
locals of the daemon's check: `at`, `seen` (the value of /initialize it goes by), `ask`,
`found`, `matched`, and the cooldown `cooling`.

| Action | Code (`agent/daemon.go`) |
|---|---|
| `CheckLeader`, `ClearLeader` | `checkStalePatroniLeader`: the probe, and the deletion of the key whoever holds it by then |
| `ReadInitialize`, `Ask` | the read of /initialize, the probe of one node after the other |
| `SetInitialize` | case 1: a primary runs another database and nobody that of the key |
| `StopPatroni`, `Wipe`, `StartPatroni`, `KeepData` | case 2 with its guards, step by step, and no action |
| `PatroniStarts`, `TakesLead`, `InitDb`, `Clones`, `MismatchExits`, `Demotes`, `LockExpires` | external: Patroni |
| `WipeFails`, `DaemonDies` | disturbances: `wipeDir` returns at an entry it cannot remove; the daemon is killed at any step |
| `PatroniExits`, `KeysLost`, `Recovered` | disturbances: an exit, a new etcd epoch, a recovery that renames the database |

`wipeDir` removes entries in the order of their names and stops at the first it cannot remove, `base`
goes before `global`: a wipe that does not end leaves a PGDATA that still tells its database, or
one that does not (`Partial`). Only the process that stopped Patroni starts it again.

**Timing assumption** (`Timely`): no node becomes primary between the moment a check has
found a primary and the end of that check. A check lasts a few seconds, more only for nodes that do not
answer (5 s each); a Patroni start takes 20 s and a failover the 30 s of the leader lock.
Without it `WipeKeepsAuthority` is violated: the primary that was found fails, another
database takes the lead and the first node clones it, all within one check.

Bounds: two nodes, both of which may wipe, override and be overridden, and three disturbances;
each check of one overlaps with every step of the other. Both have
ALLOW_PG_DATA_WIPE=true, which is what the property is about. A third node would add
a replica of either database; with two nodes a replica already confirms a database without a primary
when its own daemon asks it, which is what the property's mutant gets wrong.

### ClusterEnv and Proxy

State: `listed` (what Flux reports), `file` (cluster_env), `daemon` and `mem` (its own
configuration); `leader` (who answers /primary with 200), `snap` (the configuration of the
proxy's start), `probeCfg`, `waiting`, `claims`, `found` (a probe round), `primaryIP`, and
`pending`, the address a connection has been given. `led` is a history variable: who
has led since the round began.

| Action | Code |
|---|---|
| `DaemonStarts`, `Truncate`, `WriteClusterEnv`, `OpenFails`, `WriteFails` | `LoadClusterEnv` and `updateClusterEnv`; the write of `WriteClusterEnv` has a middle, and fails at the open or after it |
| `ProxyStarts`, `StartRound`, `NoCandidates`, `Answers`, `Silent`, `Record`, `EndRound` | `runProxy`, `probePrimary`: a goroutine asks, is answered, and records its answer |
| `Accept`, `Dial`, `DialFails` | the acceptor reads the address, the connection is dialled after the client's first bytes, at the local or the public address as the startup configuration says |
| `DaemonKilled`, `ProxyKilled`, `ContainerRestarts`, `FluxChanges`, `LeaderChanges` | disturbances |

A configuration keeps what the properties tell apart: whether the node knows its own name and
address, and the nodes of ETCD_HOSTS. The file is a sequence of at most one configuration:
`os.WriteFile` truncates and then writes its few kilobytes in one call, which a reader sees
whole or not at all; a write cut by a full disk counts as the failed one. The leader lock is
external, so one node at most answers as primary at a time. `Hairpin` says whether the node
reaches its own public address; it does not in the run, the harder case.
The bytes of a connection are not modelled. Bounds: three nodes, three
lists (with, without this node, and without another), three disturbances of any kind.

## 4. What the runs show

| Run | Expect | Properties | Shows |
|---|---|---|---|
| `bootstrap_two` | pass | `TypeOK`, `FreshNeverOverData`, `RecoveryKeepsBestCopy`, `FoundingNeverForks`, `ImplementsAtomicFounding` | Two nodes, two views, every kind of disturbance up to four times, two confirmation rounds, copies of three kinds: founding by evidence is safe whatever changes between the rounds, and looks like a founder that sees all members at one instant. |
| `bootstrap_live` | pass | `RecoveryKeepsBestCopy`, `FoundingNeverForks`, `DeploymentForms`, `FoundsOnce` | Three nodes whose disks are all empty or hold a primary, a lagging or a caught-up replica, in every assignment, one of them with the bootstrap override: the election among copies is safe although no round sees all nodes at once, and whatever can be settled without the override ends in one epoch, whatever stop, etcd exit or unanswered probe disturbs it; and where the override is not used, no second epoch is ever founded. |
| `self_excluded` | violation | `OneAuthorityPerView` | A node that the Flux list has dropped founds an epoch on the view of the others, and one of those founds another on the same view. |
| `selection` | pass | `SelectionCorrect` | Three nodes, twenty-two kinds of answers in every combination, the loops in every order of visits: the authority that is returned is the one the declarative policy names, and the same for every order. |
| `backup` | pass | `LatestKept`, `RetentionHolds`, `ImplementsStore` | Crashes between any two steps, dumps cut before or after the marker of the first database, failing renames and unlinks, listings that miss a file and a clock set back never cost the last published backup; unless the clock was set back or a listing missed a file, a cycle that ends cleanly leaves the most recent backups within both limits; and the directory implements the abstract store, in which backups appear verified and go one at a time. Verified is not whole, see below. |
| `outage_safe` | pass | `TypeOK`, `OneDataEpoch`, `ImplementsLine`, `LastEtcdDataKept` | Three replicas after the loss of all etcd data: electing, founding and joining race on three nodes, with an exit, a loss or a daemon crash at any moment. Two epochs never serve PostgreSQL data side by side, the epochs form the line of `EpochLine`, and the nodes never wipe the last etcd data among themselves. |
| `outage_heals` | pass | `OutageEnds` | Three replicas after the loss of all etcd data, or a sole survivor whose data is of a dead epoch: they always end up as voters of one epoch, through the one learner slot and by force where needed. |
| `force_live_epoch` | violation | `ForceOnlyDeadEpoch` | The peers recover their epoch while the authority confirms; its etcd is forced into a new epoch nevertheless. |
| `membership` | pass | `TypeOK`, `EvictedAfterAbsence`, `OnlyUndesiredRemoved`, `Converges` | While Flux lists and drops a node and an etcd process dies, three daemons that work on old member lists, and whose removals go by an ID whatever has become of the entry, end with exactly the listed nodes as voters, remove nobody they were not told is gone, and a member that answers only after its absence from as many polls as asked for. |
| `removes_listed` | violation | `OnlyUndesiredRemoved` | When the client address of a listed member has that of a dropped one inside it, the listed member can be removed. |
| `system_id` | pass | `TypeOK`, `WipeKeepsAuthority`, `Heals` | Two nodes that may both wipe and both override /initialize, while the keys are lost, a recovery renames the database, Patroni dies, a wipe fails half-way or the daemon is killed in it: who loses its database to a wipe does so for one another node still has, and a primary that stays ends up with everybody on its database, but for the nodes the code gives up with Patroni stopped. |
| `proxy` | pass | `TypeOK`, `RetargetsToPrimary`, `FollowsPrimary`, `ViewSettles` | One container of three nodes with three disturbances (daemon or proxy killed at any step, also between the truncation and the write of cluster_env, a write that fails at the open or after it, a container restart, list and primary changes, silent nodes): connections are only directed to a node that led during the round that found it, a lasting primary gets them all in the end, at an address that reaches it unless the proxy was started on a truncated file, and every reader ends up with the list that lasts. |

Fairness of `EpochBootstrap` (`FairSpec`, only in `bootstrap_live`): supervisord restarts etcd-start and
the container is started again, and a process that can step does (weak fairness per
process and phase). `JoinPeer` gets strong fairness: every attempt asks every peer,
the process runs again and again, and the one learner slot of etcd is freed by the
promotion of the learner before; without strength a peer could be asked forever at
the moments it is down. The operator's override is not assumed to be used: `DeploymentForms`
speaks of behaviours without it, and of authorities other than the node it is set on. The
liveness run lets containers stop, etcd exit and probes go unanswered, finitely
often, for one fixed view and PGDATA that only etcd-start's environment holds still:
with changing data or views nobody can promise that the deployment settles.

Fairness of `Outage` (`outage_heals`): weak fairness of etcd-start,
of the daemon's cycle and of what follows it, because supervisord restarts both; strong
fairness of the ends of cooldowns, which are times. The liveness run also sets
`Timely`, because with arbitrary delays recovery does not converge: a daemon whose cooldown
is over before the start it has forced restarts etcd again and again. `Timely` says that a
cooldown does not end while the start it follows, or a confirmation begun before it
ended, goes on (a start takes at most about a minute once a flag or a serving peer is
there, FNF_COOLDOWN_SECS defaults to 300 and the etcd cooldown is 90 s), and that peer
discovery, which asks every ten seconds, does not give up on a peer that serves. The safety
runs have `Timely = FALSE`. `OutageEnds` speaks of states in which the evidence names an
authority and after the last disturbance; what blocks by design (two data copies and some etcd data kept) stays down.

Fairness of `Membership`: each daemon and each etcd-start is a loop that supervisord keeps
alive (weak fairness, one for each node's daemon, as its loop is sequential), and Flux
starts and ends containers as its list says, some day. `Converges` then needs no fairness of
a list that stays: `MaxFaults` lets it change only so often. Nothing forces an etcd to exit
or the list to change.

Fairness of `SystemId`: the daemon runs for ever, the cooldown ends, the leader lock expires, and
Patroni does what the DCS asks of it (starts, clones, exits on a mismatch, demotes). Who
takes the lead is left open: `Heals` starts from a primary that stays. It excepts the nodes the
code gives up (`GivenUp`): Patroni stopped, and nothing left in PGDATA that would be found
stale. A node whose PGDATA still is of another database is not excepted: its wipe is tried again.

Fairness of `Proxy`: supervisord restarts daemon and proxy, both loop on a timer, a request is
answered or times out, and a dial ends. Nothing is assumed of clients. The premise
`WritesRecover` of the two liveness properties (the file is again and again what the daemon takes
it for) excludes the end that a failed write of cluster_env has. What `FollowsPrimary` says
of dials has the premise `StartedWhole`, that the proxy was not started on a truncated file.
Without either premise TLC finds the property violated, see below.

Findings (runs that TLC must refute):

* `self_excluded`: a node that the Flux list has dropped still takes itself for an
  authority over the remaining members and can found an epoch beside theirs.
* `force_live_epoch`: two of three etcds exit, the daemon of the node with the data sees no
  serving peer and confirms itself, meanwhile one of the others returns and the old
  epoch has a quorum again; the flag forces the data out of it. The empty nodes later
  join it again, so data is not lost, but two epochs serve at once.
* `removes_listed`: members are looked up by a substring of their client URL, so the removal
  of 10.0.0.1 can hit 110.0.0.1, which Flux lists.

Other disagreements met while modelling, without a run of their own:

* `README.md:183` and `:206` say recovery never selects between data copies; once all etcd
  directories are empty the code does, by role and, on one timeline, WAL position
  (`agent/bootstrap_identity.go:331`). `RecoveryKeepsBestCopy` and `SelectionCorrect` are
  about how it does.
* A dump that is killed leaves a .tmp file under a name no later cycle takes, and pruning
  passes over it (`agent/backup.go:284`): the limits of `README.md:266` do not
  hold for these files. `tmps` of `Backup` grows with every such crash.
* The daemon removes the Patroni keys of the epoch it finds after a forced restart
  (`agent/daemon.go:431`). If etcd-start took the flag just before that restart and was
  killed, the epoch may be a live one that the node has joined.
* `agent/backup.go:40` and `:204` say that the completion marker proves that a dump was not
  truncated, and that a good backup is never replaced by a broken one. The marker
  (`:29`) is what pg_dump writes once per database, and the search stops at the first
  (`:247`), before the rest of the gzip stream has been read. A file that is cut or damaged
  after its first database, although pg_dumpall and the writes reported no error, is published and counts
  for retention; with a retention of one it becomes the only backup. `Backup` has such dumps, and
  its properties promise a verified backup, not a whole one.
* A failed write of cluster_env is logged and not repeated (`agent/daemon.go:1038`), as the
  daemon's own copy already has the new list: the file stays empty, or old when it could not be
  opened. Without `WritesRecover`, `ViewSettles` and `FollowsPrimary` are violated.
* A daemon killed between the truncation and the write starts from an empty file and then
  persists a configuration without MY_NAME and MY_IP, against the comment at
  `internal/config/config.go:176`. A proxy started at that moment dials its own node by the
  public address for as long as it lives (`agent/proxy.go:267-272` go by the configuration of its
  start, the probes by the reloaded one), against `agent/proxy.go:246`: "When the primary is this
  node, dial via localhost". Without `StartedWhole`, `FollowsPrimary` is violated.
* `checkPatroniSystemID`: the comment on case 1 speaks of a consensus of the majority
  (`agent/daemon.go:705`), the code asks for one primary and no member that matches; the
  function's comment lets a replica confirm the database (`:661`), the code asks for the
  primary (`:738`). The action it announces, "wipe local PG data and restart Patroni so it
  pg_basebackup" (`:663`), may end half-way: when `wipeDir` fails (`:772`) or the daemon is killed
  before `:776`, Patroni stays stopped, and if PGDATA has no readable `global` any more (`:745`) no
  later check finds it stale. Such a node never gets the primary's database; `Heals` excepts it.
* `readLocalPGControlData` looks for the binaries of PostgreSQL 13 to 16, the search in
  `agent/init.go` also for 17.

## 5. What is proved

`EpochBootstrapProofs` proves, for every set of nodes, views, rounds, PGDATA contents
and bounds allowed by the named assumptions of `EpochBootstrap` (node names and WAL
positions are naturals, `Cycles` is positive, Patroni leaves no empty directory):

* `TypeCorrect`: `Spec => []TypeOK`.
* `Inductive`: `Spec => []IInv`.
* `FreshNeverOverDataHolds`, `RecoveryKeepsBestCopyHolds`, `FoundingNeverForksHolds`.
* `ImplementsAtomicFoundingHolds`: `Spec => ImplementsAtomicFounding`.

None of the three safety properties is inductive: each speaks of the moment before
exec, and what makes it true was established when a probe was answered. `IInv` adds
the link. Of each node by itself (`Sound`) it says that a sample is no older than the round
(`SamplesAreRecent`), that a process about to found has the evidence (`FreshReady`,
`RecoverReady`), and that a founder that kept its epoch has non-empty etcd state and so fails
the test in any later sample (`FoundersHold`). Of several nodes it says that a sample in hand
still describes its node's PGDATA (`SamplesHold`), and that a process still confirming on older
answers was outranked by whoever founded (`Elected`). The last one is the heart: two nodes may
both be confirming, and `Outranks` being asymmetric is what lets at most one of them end.
Each part was checked as an invariant by TLC before it was proved.

Every step is a step of one node, and the proof uses that: `OthersKeep` and the lemmas that
rest on it (`OthersSound`, `SamplesHoldKept`, `ElectedKept`) settle the other nodes once, so each
action owes `Sound` of its own node and little more. Two actions are an exception and have
their own proof: a probe brings a new sample, a founding a new founder.

The refinement says the same in one sentence: probing in rounds is as good as looking at all
members at the moment of the founding. Its invariant `FoundInv` adds to `IInv` that a running
etcd-start has no etcd data but of the epoch it is about to run, that it founds by fresh
evidence only on a view it belongs to, and by the override only where it is set (`FitAt`). That
the founder is entitled at that instant then follows from the evidence invariants and `NeverForks`.

`FoundsOnceProofs` proves `FoundsOnceHolds`, `Spec => FoundsOnce`: under one membership
(`Views = {Node}`), without lost volumes and without the override, at most one epoch is ever
founded. These three premises are needed: two memberships may found one epoch each, a
node that has lost its volumes looks like a new one, and the override asks nobody. A behaviour
is only followed as long as nobody overrides, so the invariant is one of the steps before that.
Why a second founding is impossible is not visible in any one state that `FoundingNeverForks`
speaks of, as a fresh founder has no data at all until Patroni has filled its directory.
`OnceInv` adds to `FoundInv` that the founder stays in everybody's way (`FounderStays`): it has a
readable copy, which blocks a fresh founding and outranks a recovery that asked before; or it
is the candidate, so that nobody else founds afresh, and what data there is belongs to nodes
that have joined its epoch, so that nobody recovers. `Enrolled` says that who has data of the epoch is
a started member of it, which is why the wipe of an unknown member never hits it, and
`SamplesCurrent` that a node whose PGDATA has changed since its answer has joined.

`ReplicaSelectionProofs` proves `SelectionComputesAuthority`, `Spec => []SelectionCorrect`,
for every set of nodes (positive naturals), finite or not, and every set of samples. The loop invariant has
one part per loop: what has been visited was consistent and `data` is exactly the
visited copies (`Screening`), there are at least two of them and every etcd is empty
(`Contest`), the visited copies have one system ID and are split into `primary` and
`replicas` (`Classifying`), and `selected` outranks every replica visited (`Ranking`).
The result then is the unique maximum of `Outranks`, or nothing is. `AtMostOneAuthority` says of the
policy itself, for any answers, that it names at most one node.

`OutageProofs` proves, for every number of nodes, any disks, thresholds and disturbances, and
without `Timely`, so for any delays:

* `TypeCorrect` and `Inductive`: `Spec => []TypeOK` and `Spec => []IInv`.
* `OneDataEpochHolds`, `ImplementsLineHolds`, `LastEtcdDataKeptHolds`, and `NoRelapseHolds`
  (`Spec => []Line!NoRelapse`, a consequence of the abstract specification's own).

The danger in this module is delay: a flag, or a start about to found an epoch, was confirmed
long before it takes effect. `IInv` says that what was confirmed then still holds. `Entitled`:
whoever may found at its next exec is the heir, and if two nodes have copies, all etcd data is
gone. `OneEpoch`: if two nodes have copies, there is no etcd data but of the last epoch. `Located`
ties the place of etcd-start to its disk. They support each other: while copies compete an
authority is named only over the loss of all etcd data, etcd data comes only from a quorum,
that is from a node that has it, or from a founding, and there is one heir because `Outranks` is
asymmetric; so nothing but the heir's own founding ends the state it was confirmed in. With a
single copy epochs may overlap, but only the one with the copy counts. This is where the
finding `force_live_epoch` comes from: `OneDataEpoch` holds in spite of it.
`LastEtcdDataKept` follows: a node drops its etcd data for an epoch that another node serves,
which then is the last one, or for an authority, which there is none before the data is gone.
Every step is the exec of one node or leaves epochs alone but for one node's loss (`Calm`), so
that the three parts are proved for two kinds of steps instead of sixteen.

`BackupProofs` proves `LatestKeptHolds`, `Spec => []LatestKept`, for every retention, cap,
set of sizes and number of failures. The invariant adds that while a cycle prunes, the
last published backup is the file named `cur` (`CurrentSafe`): both loops spare that name,
and that is the only reason why the property holds when the clock is set back. It also proves
the refinement, `ImplementsStoreHolds`, `Spec => ImplementsStore`: with `Catalogued` (what is
published carries a marker, a number and a name belong to one file) a `Publish` is a `Make`, which
replaces at most the one file of its name, and each unlink is a `Discard` of one number that
is not the last.

`RetentionHoldsAlways`, `Spec => []RetentionHolds`, has an invariant of its own, as retention is about
what all earlier cycles left behind. Retention removes from the newest victim to the oldest, so a
cycle that is cut short, or an unlink that fails, leaves a gap with older files under it.
`GapsPaid` says that such a gap has `Retain` newer files above it, whatever happened, and so a
cycle that ends with at most `Retain` files has closed every gap; `VictimsPaid` says the same of
the files about to go. `InOrder` says that dates follow the numbers, for which the clock must
not be set back and the listings show every file. The sum of sizes is nowhere computed: the
bound follows from the exit of the size loop.

`ProxyProofs` proves `TypeCorrect` and `RetargetsToPrimaryHolds` for every set of nodes, lists
and disturbances. The invariant behind them is `ClaimsLed`: during a round, whoever has claimed
the role, recorded or not, has led since the round began; and between two rounds no claim is
left, which is part of `TypeOK` and what waiting for all goroutines is for.

`MembershipProofs` proves `TypeCorrect`, and for addresses none of which is part of another
`EvictedAfterAbsenceHolds` and `OnlyUndesiredRemovedHolds`, for every set of nodes and every
threshold. `CountedAbsence` says what the stability count of a list means for a node outside it:
it has missed at least as many polls. It is the reset of the count by any change of the list
that makes it true. `TargetsUnlisted` says that ghosts in work and the member about to be removed
are outside the list of the cycle, which no poll replaces meanwhile. The premise on addresses
is the one that `removes_listed` drops. `OneNode` is what makes a removal by ID safe: whatever
entries etcd has and daemons remember, an ID belongs to one node, so that an old decision may hit an
entry that has become a voter, but never the entry of another node.

`SystemIdProofs` proves `TypeCorrect` and `WipeKeepsAuthorityHolds` under `Timely`, for every number of
nodes and databases. `WipeReady` says whom a node about to wipe relies on, `FoundHolds` that this
primary still has its database, since everybody who relies on a primary relies on the same one and
that one does not wipe: a node that has found itself is not one with stale data, and a node between
the stop and the start of its Patroni is nobody's primary. Losing the database is what counts, in a
wipe that ends as in one cut short. `OnePrimary` and
`Timely` are what makes the first part hold.

The named assumptions on constants are the only others. TLC evaluates them in every run.

Only model-checked, on the instances above:

* All liveness: `DeploymentForms`, `OutageEnds`, `Converges`, `Heals`, `FollowsPrimary`,
  `ViewSettles`. Fairness and ENABLED are out of the prover's reach.
* The findings, which are counterexamples.

Every invariant, action property and refinement that a passing run checks is stated by a theorem.
Retention is stated for a clock that was never set back and listings that missed no file:
pruning sorts by modification time,
so after a correction it may remove newer backups or keep one too many, but never, as proved, the
last one.

Induction over data is out of reach, too (the library's induction theorems take operators as
parameters). No model needs it: the loops are actions, and the policies are
quantified formulas, not recursive functions.

## 6. Not modelled

* `errors`, `log`, `main`: error types, logging, dispatch to the subcommands. No state.
* The container image: shell around the agent. What matters of it, the restart policy of
  supervisord and the delays of Patroni's start, appears as fairness and as named assumptions.
* `init` after the first view: certificates, discovery of the own address, rendering of
  templates. Input and output without later decisions.
* `reconcilePatroniDCSConfig` and `reconcilePostgresCredentials`: the repair of settings. The
  first reads, merges and writes one key without a comparison, so an edit made meanwhile is
  lost; see the plan.
* Transport: HTTP, TLS, the probe's token, the etcdctl command line and its JSON. Each call is
  its outcome: an answer, a refusal, or none.
