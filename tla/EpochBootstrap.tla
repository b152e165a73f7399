--------------------------- MODULE EpochBootstrap ---------------------------
(***************************************************************************)
(* How the nodes of a deployment agree on one etcd cluster ("epoch").      *)
(*                                                                         *)
(* `flux-agent etcd-start` runs on every node before etcd does, with no    *)
(* coordinator to ask: it decides from its disks, from /etc/cluster_env    *)
(* and from what the peers' identity endpoints say whether to restart the  *)
(* etcd data it has, to join an epoch that is up, or to found a new one.   *)
(* Founding is the dangerous step: two nodes that both found an epoch over *)
(* PostgreSQL data are a split brain.  This module runs any number of      *)
(* etcd-start processes concurrently, over containers that come and go,    *)
(* volumes that get lost, membership views that change under the process,  *)
(* and PGDATA that Patroni changes between two probes.                     *)
(*                                                                         *)
(* Left out here (module of its own, or see README.md): the force-new flag *)
(* of the daemon and its own wipe of /var/lib/etcd; torn reads of          *)
(* cluster_env.  External: etcd answers MemberList and MemberAdd on a node *)
(* whose etcd runs, or it does not (no quorum, network): either may happen.*)
(***************************************************************************)
EXTENDS Evidence

CONSTANTS
  Node,          \* node names, naturals: only their order matters
  Views,         \* the desired memberships the Flux API may report
  Cycles,        \* BOOTSTRAP_PEER_CONFIRM_CYCLES
  AllowNew,      \* nodes with ALLOW_NEW_CLUSTER_BOOTSTRAP=true
  AllowAny,      \* nodes with ALLOW_ANY_NODE_BOOTSTRAP=true
  AutoFresh,     \* nodes with AUTO_BOOTSTRAP_IF_FRESH=true
  DeadRec,       \* nodes with DEAD_CLUSTER_RECOVERY=true
  InitialPg,     \* what PGDATA may hold when the episode begins
  LivePg,        \* what Patroni may turn PGDATA into while etcd is up
  InitialLeft,   \* nodes that may begin with a stray file in /var/lib/etcd
  Faults,        \* the kinds of disturbance that happen
  MaxFaults,     \* how many of them: a bound for TLC
  MaxEpoch       \* how many epochs get founded: a bound for TLC

Epoch == 1..MaxEpoch
FaultKind == {"stop", "exit", "losepg", "loseetcd", "view", "patroni",
              "remove", "noanswer"}

ASSUME NodeAssumption == Node \subseteq Nat
ASSUME ViewsAssumption == Views \subseteq SUBSET Node
ASSUME CyclesAssumption == Cycles \in Nat \ {0}
ASSUME BoundAssumption == MaxEpoch \in Nat /\ MaxFaults \in Nat
ASSUME PgAssumption == InitialPg \cup LivePg \subseteq PgState
ASSUME LivePgAssumption == \A d \in LivePg : ~d.empty
ASSUME FaultsAssumption == Faults \subseteq FaultKind

VARIABLES
  view,     \* view[n]: the member names in n's /etc/cluster_env
  pg,       \* pg[n]: the content of n's /var/lib/postgresql/data
  stray,    \* stray[n]: /var/lib/etcd has files but no member/snap/db
  epoch,    \* epoch[n]: the epoch n's member/snap/db belongs to, 0: no db
  pc,       \* pc[n]: where n's container and its etcd-start process are
  cfg,      \* cfg[n]: the view the running etcd-start has loaded
  run,      \* run[n]: the other locals of the running etcd-start
  seen,     \* seen[n][p]: what p answered in the probe round of n
  plan,     \* plan[n]: how the running etcd-start will exec etcd
  founded,  \* founded[n]: how and on which view n founded the epoch that its
            \* /var/lib/etcd has held ever since (history variable)
  roster,   \* roster[e][n]: n's entry in the member list of e
  born,     \* how many epochs have been founded
  faults    \* how many disturbances have happened

vars == <<view, pg, stray, epoch, pc, cfg, run, seen, plan,
          founded, roster, born, faults>>

-----------------------------------------------------------------------------
(* Locals of etcd-start when none runs.                                    *)
NoRun == [cand |-> FALSE, forced |-> FALSE, reached |-> FALSE,
          cycle |-> 0, auth |-> 0, sys |-> 0, target |-> 0]
NoSamples == [p \in Node |-> NoSample]
NotFounder == [view |-> {}, how |-> "none"]

DataPresent(n) == epoch[n] # 0
EtcdEmpty(n) == epoch[n] = 0 /\ ~stray[n]      \* etcdDataDirectoryIsFresh
PgDir(n) == ~pg[n].empty
Peers(n) == cfg[n] \ {n}                       \* otherIPsFromInitialCluster
EtcdUp(p) == pc[p] = "up" /\ epoch[p] # 0
AgentUp(p) == pc[p] # "off"                    \* the proxy serves /identity

(* localNodeIdentity(cfg): the view reported is the one loaded.            *)
LocalSample(n) == OkSample(pg[n], EtcdEmpty(n), cfg[n])

(* The endpoint of a peer reloads cluster_env for every request.           *)
PeerSample(p) == OkSample(pg[p], EtcdEmpty(p), view[p])

(* n has founded an epoch on view V, by h, and kept it.                    *)
Founder(n, V, h) == founded[n] = [view |-> V, how |-> h]

(* A disturbance of kind k is allowed, and counted.                        *)
Disturb(k) == k \in Faults /\ faults < MaxFaults /\ faults' = faults + 1

disks == <<pg, stray, epoch, founded>>
world == <<view, disks, roster, born>>
process == <<pc, cfg, run, seen, plan>>

(* The etcd-start process of n is gone: its memory is lost.                *)
Halt(n, to) ==
  /\ pc' = [pc EXCEPT ![n] = to]
  /\ cfg' = [cfg EXCEPT ![n] = {}]
  /\ run' = [run EXCEPT ![n] = NoRun]
  /\ seen' = [seen EXCEPT ![n] = NoSamples]
  /\ plan' = [plan EXCEPT ![n] = "none"]

(* os.Exit(1), or etcd itself ends: supervisord runs etcd-start again.     *)
Exit(n) == Halt(n, "down")

Init ==
  /\ view = [n \in Node |-> {n}]
  /\ pg \in [Node -> InitialPg]
  /\ stray \in {s \in [Node -> BOOLEAN] : \A n \in Node : s[n] => n \in InitialLeft}
  /\ epoch = [n \in Node |-> 0]
  /\ pc = [n \in Node |-> "off"]
  /\ cfg = [n \in Node |-> {}]
  /\ run = [n \in Node |-> NoRun]
  /\ seen = [n \in Node |-> NoSamples]
  /\ plan = [n \in Node |-> "none"]
  /\ founded = [n \in Node |-> NotFounder]
  /\ roster = [e \in Epoch |-> [n \in Node |-> "absent"]]
  /\ born = 0
  /\ faults = 0

-----------------------------------------------------------------------------
(* The container and its volumes.                                          *)

(* runInit writes cluster_env: the Flux view plus the node itself.         *)
Boot(n) ==
  /\ pc[n] = "off"
  /\ \E V \in Views : view' = [view EXCEPT ![n] = V \cup {n}]
  /\ pc' = [pc EXCEPT ![n] = "down"]
  /\ UNCHANGED <<disks, cfg, run, seen, plan, roster, born, faults>>

(* The daemon writes a view that has changed, as the API gave it: the node *)
(* itself is not added.                                                    *)
UpdateView(n) ==
  /\ AgentUp(n)
  /\ Disturb("view")
  /\ \E V \in Views \ {view[n]} : view' = [view EXCEPT ![n] = V]
  /\ UNCHANGED <<disks, process, roster, born>>

Stop(n) ==
  /\ AgentUp(n)
  /\ Disturb("stop")
  /\ Halt(n, "off")
  /\ UNCHANGED world

LosePg(n) ==
  /\ pc[n] = "off"
  /\ PgDir(n)
  /\ Disturb("losepg")
  /\ pg' = [pg EXCEPT ![n] = EmptyPg]
  /\ UNCHANGED <<view, stray, epoch, founded, process, roster, born>>

LoseEtcd(n) ==
  /\ pc[n] = "off"
  /\ ~EtcdEmpty(n)
  /\ Disturb("loseetcd")
  /\ epoch' = [epoch EXCEPT ![n] = 0]
  /\ stray' = [stray EXCEPT ![n] = FALSE]
  /\ founded' = [founded EXCEPT ![n] = NotFounder]
  /\ UNCHANGED <<view, pg, process, roster, born>>

(* etcd dies, or the daemon restarts it: supervisord runs etcd-start again *)
EtcdExit(n) ==
  /\ pc[n] = "up"
  /\ Disturb("exit")
  /\ Exit(n)
  /\ UNCHANGED world

(***************************************************************************)
(* Patroni starts after the local etcd is healthy, and fills an empty      *)
(* PGDATA then (initdb, base backup): the directory is partial at first.   *)
(***************************************************************************)
PatroniFills(n) ==
  /\ EtcdUp(n)
  /\ pg[n].empty
  /\ Disturb("patroni")
  /\ pg' = [pg EXCEPT ![n] = PartialPg]
  /\ UNCHANGED <<view, stray, epoch, founded, process, roster, born>>

(* No probe round in progress has a sample of n, nor is n deciding.        *)
Unobserved(n) ==
  /\ pc[n] \notin {"fresh", "recover", "exec"}
  /\ \A m \in Node : seen[m][n].st # "ok"

(***************************************************************************)
(* The base backup ends, a replica is promoted or replays WAL, a primary   *)
(* is demoted.  Timing assumption: none of this happens to a node between  *)
(* its answer and the end of that probe round (a round lasts as long as    *)
(* its slowest probe, seconds).  Between two rounds it may.                *)
(***************************************************************************)
PatroniChanges(n) ==
  /\ AgentUp(n)
  /\ PgDir(n)
  /\ Unobserved(n)
  /\ Disturb("patroni")
  /\ \E d \in LivePg \ {pg[n]} : pg' = [pg EXCEPT ![n] = d]
  /\ UNCHANGED <<view, stray, epoch, founded, process, roster, born>>

(* The daemon of q removes from q's epoch a member outside q's view.       *)
RemoveMember(q, n) ==
  /\ EtcdUp(q)
  /\ n \notin view[q] /\ n # q
  /\ roster[epoch[q]][n] # "absent"
  /\ Disturb("remove")
  /\ roster' = [roster EXCEPT ![epoch[q]][n] = "absent"]
  /\ UNCHANGED <<view, disks, process, born>>

-----------------------------------------------------------------------------
(* etcd-start on a node whose member/snap/db is present.                   *)

Begin(n, to, action) ==
  /\ pc[n] = "down"
  /\ pc' = [pc EXCEPT ![n] = to]
  /\ cfg' = [cfg EXCEPT ![n] = view[n]]
  /\ run' = [run EXCEPT ![n] = action]
  /\ UNCHANGED <<view, pg, seen, roster, born, faults>>

(* The first peer that answers lists this member: keep the data.           *)
StartKnown(n, p) ==
  /\ DataPresent(n)
  /\ p \in view[n] \ {n} /\ EtcdUp(p)
  /\ roster[epoch[p]][n] = "started"
  /\ Begin(n, "exec", [NoRun EXCEPT !.target = epoch[n]])
  /\ plan' = [plan EXCEPT ![n] = "existing"]
  /\ UNCHANGED <<stray, epoch, founded>>

(* The first peer that answers does not: wipe /var/lib/etcd and rejoin.    *)
StartUnknown(n, p) ==
  /\ DataPresent(n)
  /\ p \in view[n] \ {n} /\ EtcdUp(p)
  /\ roster[epoch[p]][n] # "started"
  /\ Begin(n, "join", [NoRun EXCEPT !.forced = TRUE,
                                    !.cand = IsCandidate(n, view[n])])
  /\ epoch' = [epoch EXCEPT ![n] = 0]
  /\ stray' = [stray EXCEPT ![n] = FALSE]
  /\ founded' = [founded EXCEPT ![n] = NotFounder]
  /\ UNCHANGED plan

(* No peer answered.  Whatever the temporary etcd finds, the data is kept  *)
(* (a mismatch is an error, and an error is "inconclusive").               *)
StartAlone(n) ==
  /\ DataPresent(n)
  /\ Begin(n, "exec", [NoRun EXCEPT !.target = epoch[n]])
  /\ plan' = [plan EXCEPT ![n] = "existing"]
  /\ UNCHANGED <<stray, epoch, founded>>

StartEmpty(n) ==
  /\ ~DataPresent(n)
  /\ Begin(n, "join", [NoRun EXCEPT !.cand = IsCandidate(n, view[n])])
  /\ UNCHANGED <<stray, epoch, founded, plan>>

-----------------------------------------------------------------------------
(* tryJoinExisting: every attempt loads cluster_env afresh.                *)

Reload(n) ==
  /\ pc[n] = "join"
  /\ cfg[n] # view[n]
  /\ cfg' = [cfg EXCEPT ![n] = view[n]]
  /\ UNCHANGED <<world, pc, run, seen, plan, faults>>

(* p lists n as a started member, and n has not just wiped its data.       *)
Registered(n, p) == roster[epoch[p]][n] = "started" /\ ~run[n].forced

(* Already registered, or added as a learner after a stale entry is gone.  *)
JoinPeer(n, p) ==
  /\ pc[n] = "join"
  /\ p \in view[n] \ {n} /\ EtcdUp(p)
  /\ roster' = IF Registered(n, p) THEN roster
               ELSE [roster EXCEPT ![epoch[p]][n] = "added"]
  /\ pc' = [pc EXCEPT ![n] = "exec"]
  /\ plan' = [plan EXCEPT ![n] = "existing"]
  /\ cfg' = [cfg EXCEPT ![n] = view[n]]
  /\ run' = [run EXCEPT ![n].target = epoch[p]]
  /\ UNCHANGED <<view, disks, seen, born, faults>>

(* The stale entry is removed, or not, and member add fails (there is a    *)
(* learner); or the entry is made and the answer does not come in time.    *)
JoinRefused(n, p) ==
  /\ pc[n] = "join"
  /\ p \in view[n] \ {n} /\ EtcdUp(p)
  /\ ~Registered(n, p)
  /\ \/ \E entry \in {"absent", roster[epoch[p]][n]} :
          /\ roster' = [roster EXCEPT ![epoch[p]][n] = entry]
          /\ UNCHANGED faults
     \/ /\ roster' = [roster EXCEPT ![epoch[p]][n] = "added"]
        /\ Disturb("noanswer")
  /\ cfg' = [cfg EXCEPT ![n] = view[n]]
  /\ run' = [run EXCEPT ![n].reached = TRUE]
  /\ UNCHANGED <<view, disks, pc, seen, plan, born>>

(* The attempts are used up.  A peer that came up after the last of them   *)
(* is not noticed any more, so nothing here looks at the peers.            *)
NoPeerReachable(n) == pc[n] = "join" /\ ~run[n].reached /\ ~run[n].forced

(* Mutant of MayEvaluate: a data-bearing node must be the candidate too.   *)
CandidateMayEvaluate(n) == run[n].cand

MayEvaluate(n) == run[n].cand \/ (n \in DeadRec /\ PgDir(n))

MayOverride(n) ==
  /\ n \in AllowNew
  /\ n \in AllowAny \/ IsCandidate(n, cfg[n])

(* Strictly empty disks, several members expected, and the candidate.      *)
MayBeFresh(n) ==
  /\ n \notin AllowNew /\ n \in AutoFresh
  /\ EtcdEmpty(n) /\ pg[n].empty
  /\ IsCandidate(n, cfg[n]) /\ Peers(n) # {}

(* A directory without global/ ends in the same refusal as one whose       *)
(* system ID cannot be read: PgDir stands for both.                        *)
MayRecover(n) ==
  n \notin AllowNew /\ n \in DeadRec /\ ~DataPresent(n) /\ PgDir(n)

(* decideBootstrap.                                                        *)
Decide(n, to, how) ==
  /\ NoPeerReachable(n)
  /\ MayEvaluate(n)
  /\ pc' = [pc EXCEPT ![n] = to]
  /\ plan' = [plan EXCEPT ![n] = how]
  /\ UNCHANGED <<world, cfg, run, seen, faults>>

DecideOverride(n) == MayOverride(n) /\ Decide(n, "exec", "override")
DecideFresh(n) == MayBeFresh(n) /\ Decide(n, "fresh", "none")
DecideRecover(n) == MayRecover(n) /\ Decide(n, "recover", "none")

(* Split-brain guard, forced rejoin, not entitled, or refused: exit(1).    *)
GiveUp(n) ==
  /\ pc[n] = "join"
  /\ \/ run[n].reached \/ run[n].forced \/ ~MayEvaluate(n)
     \/ ~MayOverride(n) /\ ~MayBeFresh(n) /\ ~MayRecover(n)
  /\ Exit(n)
  /\ UNCHANGED <<world, faults>>

-----------------------------------------------------------------------------
(* The probe rounds.                                                       *)

Confirming(n) == pc[n] \in {"fresh", "recover"}

(* One goroutine per peer: the answers of a round arrive in any order.     *)
Probe(n, p) ==
  /\ Confirming(n)
  /\ p \in Peers(n) /\ seen[n][p].st = "none"
  /\ AgentUp(p)
  /\ seen' = [seen EXCEPT ![n][p] = PeerSample(p)]
  /\ UNCHANGED <<world, pc, cfg, run, plan, faults>>

ProbeFails(n, p) ==
  /\ Confirming(n)
  /\ p \in Peers(n) /\ seen[n][p].st = "none"
  /\ IF AgentUp(p) THEN Disturb("noanswer") ELSE UNCHANGED faults
  /\ seen' = [seen EXCEPT ![n][p] = ErrSample]
  /\ UNCHANGED <<world, pc, cfg, run, plan>>

RoundComplete(n) == \A p \in Peers(n) : seen[n][p].st # "none"

(* Mutant of NextRound: one round more than asked for.                     *)
NextRoundTooMany(n, auth, sys) ==
  /\ run[n].cycle + 1 <= Cycles
  /\ run' = [run EXCEPT ![n].cycle = @ + 1, ![n].auth = auth, ![n].sys = sys]
  /\ seen' = [seen EXCEPT ![n] = NoSamples]
  /\ UNCHANGED <<world, pc, cfg, plan, faults>>

(* Another round follows, after the probe interval.                        *)
NextRound(n, auth, sys) ==
  /\ run[n].cycle + 1 < Cycles
  /\ run' = [run EXCEPT ![n].cycle = @ + 1, ![n].auth = auth, ![n].sys = sys]
  /\ seen' = [seen EXCEPT ![n] = NoSamples]
  /\ UNCHANGED <<world, pc, cfg, plan, faults>>

Confirmed(n, how) ==
  /\ run[n].cycle + 1 = Cycles
  /\ pc' = [pc EXCEPT ![n] = "exec"]
  /\ plan' = [plan EXCEPT ![n] = how]
  /\ UNCHANGED <<world, cfg, run, seen, faults>>

(* confirmFreshClusterWithPeers: one iteration.                            *)
FreshRound(n) ==
  /\ pc[n] = "fresh" /\ RoundComplete(n)
  /\ IF FreshEvidence(seen[n], n, cfg[n])
       THEN NextRound(n, 0, 0) \/ Confirmed(n, "fresh")
       ELSE Exit(n) /\ UNCHANGED <<world, faults>>

(* The evidence of a recovery round: the peers' samples and n's own.       *)
Evidence(n) == [seen[n] EXCEPT ![n] = LocalSample(n)]
Electors(n) == cfg[n] \cup {n}

(* confirmRecoveryAuthorityWithPeers: one iteration.                       *)
RecoverRound(n) ==
  /\ pc[n] = "recover" /\ RoundComplete(n)
  /\ LET found == {a \in Authorities(Evidence(n), Electors(n), cfg[n]) :
                     \/ run[n].cycle = 0
                     \/ run[n].auth = a /\ run[n].sys = Evidence(n)[a].pg.sys}
     IN \/ \E a \in found : NextRound(n, a, Evidence(n)[a].pg.sys)
        \/ n \in found /\ Confirmed(n, "recover")
        \/ /\ found = {} \/ (run[n].cycle + 1 = Cycles /\ n \notin found)
           /\ Exit(n)
           /\ UNCHANGED <<world, faults>>

-----------------------------------------------------------------------------
(* exec: the process becomes etcd.                                         *)

BecomeEtcd(n, e) ==
  /\ epoch' = [epoch EXCEPT ![n] = e]
  /\ roster' = [roster EXCEPT ![e][n] = "started"]
  /\ Halt(n, "up")
  /\ UNCHANGED <<view, pg, stray, faults>>

(* --initial-cluster-state=new with this node as the only member.          *)
FoundEpoch(n) ==
  /\ pc[n] = "exec" /\ plan[n] \in {"fresh", "recover", "override"}
  /\ born < MaxEpoch
  /\ born' = born + 1
  /\ founded' = [founded EXCEPT ![n] = [view |-> cfg[n], how |-> plan[n]]]
  /\ BecomeEtcd(n, born + 1)

JoinEpoch(n) ==
  /\ pc[n] = "exec" /\ plan[n] = "existing"
  /\ roster[run[n].target][n] # "absent"
  /\ BecomeEtcd(n, run[n].target)
  /\ UNCHANGED <<founded, born>>

(* Removed from the member list before it starts: etcd exits.              *)
JoinEvicted(n) ==
  /\ pc[n] = "exec" /\ plan[n] = "existing"
  /\ roster[run[n].target][n] = "absent"
  /\ Exit(n)
  /\ UNCHANGED <<world, faults>>

-----------------------------------------------------------------------------
Environment(n) ==
  \/ Boot(n) \/ UpdateView(n) \/ Stop(n) \/ LosePg(n) \/ LoseEtcd(n)
  \/ EtcdExit(n) \/ PatroniFills(n) \/ PatroniChanges(n)
  \/ \E q \in Node : RemoveMember(q, n)

Start(n) ==
  \/ StartAlone(n) \/ StartEmpty(n)
  \/ \E p \in Node : StartKnown(n, p) \/ StartUnknown(n, p)

Join(n) ==
  \/ Reload(n) \/ GiveUp(n)
  \/ DecideOverride(n) \/ DecideFresh(n) \/ DecideRecover(n)
  \/ \E p \in Node : JoinPeer(n, p) \/ JoinRefused(n, p)

Confirm(n) ==
  \/ FreshRound(n) \/ RecoverRound(n)
  \/ \E p \in Node : Probe(n, p) \/ ProbeFails(n, p)

Exec(n) == FoundEpoch(n) \/ JoinEpoch(n) \/ JoinEvicted(n)

Next ==
  \E n \in Node : Environment(n) \/ Start(n) \/ Join(n) \/ Confirm(n) \/ Exec(n)

Spec == Init /\ [][Next]_vars

(***************************************************************************)
(* Scheduling: the container is started again, supervisord restarts        *)
(* etcd-start, and a process that can take a step takes one.  A process    *)
(* leaves peer discovery in one way or the other; it asks every peer in    *)
(* every attempt and runs again and again, so a peer that is up keeps      *)
(* being asked, and admits the node some time (its learner slot is freed   *)
(* by the promotion of the learner before): strong fairness.               *)
(***************************************************************************)
Fairness ==
  \A n \in Node :
    /\ WF_vars(Boot(n))
    /\ WF_vars(Start(n))
    /\ WF_vars(Reload(n) \/ GiveUp(n) \/ DecideFresh(n) \/ DecideRecover(n))
    /\ WF_vars(Confirm(n))
    /\ WF_vars(Exec(n))
    /\ SF_vars(\E p \in Node : JoinPeer(n, p))

FairSpec == Spec /\ Fairness

-----------------------------------------------------------------------------
Sample == [st : {"none", "ok", "err"}, pg : PgState, etcdEmpty : BOOLEAN,
           view : SUBSET Node]

Locals == [cand : BOOLEAN, forced : BOOLEAN, reached : BOOLEAN,
           cycle : 0..(Cycles - 1), auth : Nat, sys : Nat, target : 0..born]

(* Every variable stays in its type; epochs are numbered in the order of   *)
(* their founding, and no disk or process refers to one not yet founded.   *)
TypeOK ==
  /\ view \in [Node -> SUBSET Node]
  /\ pg \in [Node -> PgState]
  /\ stray \in [Node -> BOOLEAN]
  /\ epoch \in [Node -> 0..born]
  /\ pc \in [Node -> {"off", "down", "join", "fresh", "recover", "exec", "up"}]
  /\ cfg \in [Node -> SUBSET Node]
  /\ run \in [Node -> Locals]
  /\ seen \in [Node -> [Node -> Sample]]
  /\ plan \in [Node -> {"none", "existing", "fresh", "recover", "override"}]
  /\ founded \in [Node -> [view : SUBSET Node,
                          how : {"none", "fresh", "recover", "override"}]]
  /\ roster \in [Epoch -> [Node -> {"absent", "added", "started"}]]
  /\ born \in 0..MaxEpoch
  /\ faults \in 0..MaxFaults

ByEvidence == {"fresh", "recover"}
Founding(n, how) == pc[n] = "exec" /\ plan[n] = how

(***************************************************************************)
(* A fresh epoch, over which Patroni will run initdb, is not founded while *)
(* any expected member holds a readable PostgreSQL copy: not even one that *)
(* appeared after the first confirmation round.                            *)
(***************************************************************************)
FreshNeverOverData ==
  \A n \in Node : Founding(n, "fresh") =>
    \A x \in cfg[n] : ~Readable(pg[x])

(* Founding over x and following it discards what y holds: y belongs to    *)
(* another database, may be ahead of the replica x, or was a primary too.  *)
Discards(x, y) ==
  \/ x.sys # y.sys
  \/ y.role # "replica"
  \/ x.role = "replica" /\ (x.tl # y.tl \/ x.lsn < y.lsn)

(***************************************************************************)
(* A node about to found a recovery epoch discards nothing that an         *)
(* expected member holds at that moment: the election by repeated probes,  *)
(* which never looks at all the nodes at once, loses no WAL and overrides  *)
(* no other primary.                                                       *)
(***************************************************************************)
RecoveryKeepsBestCopy ==
  \A n \in Node : Founding(n, "recover") =>
    \A x \in cfg[n] \ {n} : Readable(pg[x]) => ~Discards(pg[n], pg[x])

(***************************************************************************)
(* Split brain: a member of V about to found an epoch on V by evidence     *)
(* while another member of V, with PostgreSQL data, keeps the epoch it has *)
(* founded on V by evidence.  etcd-start has no lock and no quorum to ask. *)
(***************************************************************************)
FoundingNeverForks ==
  \A n \in Node : \A h \in ByEvidence : Founding(n, h) /\ n \in cfg[n] =>
    \A x \in cfg[n] \ {n} : \A g \in ByEvidence :
      ~(Founder(x, cfg[n], g) /\ Readable(pg[x]))

(***************************************************************************)
(* The rounds of probes are as good as one look at all members at the      *)
(* instant of founding: whatever changes, is lost, joins or founds between *)
(* the first probe and exec, each epoch is one that AtomicFounding founds. *)
(***************************************************************************)
Atomic == INSTANCE AtomicFounding

ImplementsAtomicFounding == Atomic!Spec

(***************************************************************************)
(* The promise of README.md "Recovering the cluster from a backup" and of  *)
(* AUTO_BOOTSTRAP_IF_FRESH: a deployment whose disks, put side by side,    *)
(* are all empty or designate one authority ends up as one etcd epoch with *)
(* every node in it, whatever restarts and unanswered probes come between. *)
(* Stated for one membership view, over disks only etcd-start changes, and *)
(* for a deployment that its operator leaves to settle itself: the         *)
(* override is not used, and not set on the node whose part it would be.   *)
(***************************************************************************)
AllDisks(n) == OkSample(pg[n], EtcdEmpty(n), Node)
OnDisk == [n \in Node |-> AllDisks(n)]

Settleable ==
  \/ \A n \in Node : pg[n].empty /\ EtcdEmpty(n)
  \/ Authorities(OnDisk, Node, Node) \ AllowNew # {}

OneEpochUp == \E e \in 1..born : \A n \in Node : EtcdUp(n) /\ epoch[n] = e

Overridden == \E n \in Node : plan[n] = "override"

DeploymentForms == Settleable => <>Overridden \/ <>[]OneEpochUp

(***************************************************************************)
(* Never two epochs: with one membership for all nodes, and volumes that   *)
(* are kept, etcd-start founds one epoch and no other, unless the operator *)
(* overrides it, whatever restarts, crashes, unanswered probes and         *)
(* failovers there are ("which prevents a network partition from creating  *)
(* a new epoch", etcd_start.go:520-523).  Patroni leaves a readable copy   *)
(* where it changes one.                                                   *)
(***************************************************************************)
Undisturbed ==
  /\ Views = {Node}
  /\ Faults \cap {"losepg", "loseetcd"} = {}
  /\ \A d \in LivePg : Readable(d)

FoundsOnce == Undisturbed /\ []~Overridden => [](born <= 1)

(***************************************************************************)
(* etcd_start.go:520-523: "Every expected peer must repeatedly identify    *)
(* the same sole PGDATA-bearing node. [...] which prevents a network       *)
(* partition from creating a new epoch": no two nodes found on the same    *)
(* view.  A node whose own cluster_env does not contain it, as the daemon  *)
(* writes it for a node that left the Flux list, still takes itself for an *)
(* authority, on peers that do not know it as a member.                    *)
(***************************************************************************)
OneAuthorityPerView ==
  \A n, x \in Node : Founding(n, "recover") /\ n # x =>
    ~(Founder(x, cfg[n], "recover") /\ Readable(pg[x]))
=============================================================================
