----------------------------- MODULE OutageProofs -----------------------------
(***************************************************************************)
(* Proofs about Outage, for every set of nodes, every content of their     *)
(* disks, every threshold, however long anything is delayed, and whatever  *)
(* disturbs it how often.                                                  *)
(***************************************************************************)
EXTENDS Outage, FiniteSetTheorems, TLAPS

Place == {"down", "join", "refused", "rejoin", "exec", "up"}
Entry == {"absent", "added", "learner", "voter"}

(* The types of what etcd-start and etcd keep, and of what the daemon does. *)
EtcdOK ==
  /\ epoch \in [Node -> 0..born]
  /\ roster \in [Epoch -> [Node -> Entry]]
  /\ pc \in [Node -> Place]
  /\ target \in [Node -> 0..born]
  /\ born \in Epoch

DaemonOK ==
  /\ pg \in [Node -> PgState]
  /\ flag \in [Node -> BOOLEAN]
  /\ downs \in [Node -> 0..DownCycles]
  /\ noquorum \in [Node -> 0..Stability]
  /\ cooling \in [Node -> SUBSET {"etcd", "force"}]
  /\ daemon \in [Node -> {"idle", "authority", "survivor", "restart", "wait"}]
  /\ faults \in 0..MaxFaults

LEMMA TypeParts ==
  /\ TypeOK <=> EtcdOK /\ DaemonOK
  /\ EtcdOK' /\ DaemonOK' => TypeOK'
  BY DEF TypeOK, EtcdOK, DaemonOK, Place, Entry

LEMMA EpochRange ==
  ASSUME EtcdOK
  PROVE  /\ born \in Nat /\ 0 \in 0..born
         /\ \A e \in 0..born : e # 0 => e \in Epoch
  BY BoundAssumption DEF EtcdOK, Epoch

LEMMA AtMostType ==
  ASSUME NEW bound \in Nat, NEW k \in 0..bound
  PROVE  AtMost(k + 1, bound) \in 0..bound
  BY DEF AtMost

LEMMA DisturbType ==
  ASSUME DaemonOK, NEW k, Disturb(k)
  PROVE  faults' \in 0..MaxFaults
  BY BoundAssumption DEF DaemonOK, Disturb

LEMMA InitType == Init => TypeOK
<1> SUFFICES ASSUME Init PROVE TypeOK
  OBVIOUS
<1>1. EtcdOK
  BY InitialAssumption, BoundAssumption DEF Init, EtcdOK, Epoch, Place, Entry
<1>2. DaemonOK
  BY InitialAssumption, ThresholdAssumption, BoundAssumption DEF Init, DaemonOK
<1> QED
  BY <1>1, <1>2, TypeParts

(* A peer that serves has etcd data of some epoch.                         *)
LEMMA ServingEpoch ==
  ASSUME EtcdOK, NEW n \in Node, NEW p \in ServingPeers(n)
  PROVE  p \in Node /\ epoch[p] \in 0..born /\ epoch[p] \in Epoch
  BY EpochRange DEF ServingPeers, Serves, EtcdOK

LEMMA StartType ==
  ASSUME TypeOK, NEW n \in Node, Start(n)
  PROVE  TypeOK'
<1>1. EtcdOK /\ DaemonOK
  BY TypeParts
<1>2. DaemonOK'
  BY <1>1 DEF Start, StartPresent, StartEmpty, DaemonOK, Consume, counters
<1>3. EtcdOK'
  BY <1>1, EpochRange
  DEF Start, StartPresent, StartEmpty, EtcdOK, Goto, RunEpoch, Wipe, Place
<1> QED
  BY <1>2, <1>3, TypeParts

LEMMA JoinType ==
  ASSUME TypeOK, NEW n \in Node, Join(n) \/ JoinFails(n)
  PROVE  TypeOK'
<1>1. EtcdOK /\ DaemonOK
  BY TypeParts
<1>2. DaemonOK'
  BY <1>1 DEF Join, JoinPeer, JoinFails, DaemonOK, counters
<1>3. CASE JoinFails(n)
  <2>1. EtcdOK'
    BY <1>1, <1>3, EpochRange DEF JoinFails, EtcdOK, Goto, RunEpoch, Place
  <2> QED
    BY <1>2, <2>1, TypeParts
<1>4. ASSUME NEW p \in Node, JoinPeer(n, p) PROVE TypeOK'
  <2>1. epoch[p] \in 0..born /\ epoch[p] \in Epoch
    BY <1>1, <1>4, ServingEpoch DEF JoinPeer
  <2>2. roster' \in [Epoch -> [Node -> Entry]]
    BY <1>1, <1>4, <2>1 DEF JoinPeer, EtcdOK, Entry
  <2>3. pc' \in [Node -> Place] /\ target' \in [Node -> 0..born]
    BY <1>1, <1>4, <2>1 DEF JoinPeer, EtcdOK, Goto, RunEpoch, Place
  <2>4. EtcdOK'
    BY <1>1, <1>4, <2>2, <2>3 DEF JoinPeer, EtcdOK
  <2> QED
    BY <1>2, <2>4, TypeParts
<1> QED
  BY <1>3, <1>4 DEF Join

LEMMA ExecType ==
  ASSUME TypeOK, NEW n \in Node, Exec(n)
  PROVE  TypeOK'
<1>1. EtcdOK /\ DaemonOK
  BY TypeParts
<1>2. DaemonOK'
  BY <1>1 DEF Exec, DaemonOK, Consume
<1>3. born \in Nat /\ born \in 1..MaxEpoch
  BY <1>1, EpochRange DEF EtcdOK, Epoch
<1>4. CASE target[n] = 0 \/ Forces(n)
  <2>1. Create(n)
    BY <1>4 DEF Exec
  <2>2. born' = born + 1 /\ born' \in Epoch
    BY <2>1, <1>3, BoundAssumption DEF Create, Epoch
  <2>3. 0..born \subseteq 0..born' /\ born' \in 0..born'
    BY <1>3, <2>2
  <2>4. epoch' \in [Node -> 0..born']
    BY <1>1, <2>1, <2>2, <2>3 DEF Create, EtcdOK
  <2>5. target' \in [Node -> 0..born']
    BY <1>1, <2>3 DEF Exec, EtcdOK
  <2>6. roster' \in [Epoch -> [Node -> Entry]] /\ pc' \in [Node -> Place]
    BY <1>1, <2>1, <2>2 DEF Create, EtcdOK, Goto, Place, Entry
  <2> QED
    BY <1>2, <2>2, <2>4, <2>5, <2>6, TypeParts DEF EtcdOK
<1>5. CASE ~(target[n] = 0 \/ Forces(n))
  <2>1. target[n] \in Epoch /\ target[n] \in 0..born
    BY <1>1, <1>5, EpochRange DEF EtcdOK
  <2>2. UNCHANGED born /\ epoch' \in [Node -> 0..born] /\ pc' \in [Node -> Place]
    BY <1>1, <1>5, <2>1 DEF Exec, EtcdOK, Goto, Place
  <2>3. roster' \in [Epoch -> [Node -> Entry]]
    BY <1>1, <1>5, <2>1 DEF Exec, EtcdOK, Entry
  <2>4. target' \in [Node -> 0..born]
    BY <1>1, EpochRange DEF Exec, EtcdOK
  <2> QED
    BY <1>1, <1>2, <2>2, <2>3, <2>4, TypeParts DEF EtcdOK
<1> QED
  BY <1>4, <1>5

(* The two ways in which a daemon restarts etcd.                           *)
LEMMA RestartType ==
  ASSUME EtcdOK, NEW n \in Node,
         WipeAndRestart(n) \/ RestartOnly(n) \/ Settling(n) \/ LeaveEtcd,
         UNCHANGED <<roster, born>>
  PROVE  EtcdOK'
  BY EpochRange DEF EtcdOK, WipeAndRestart, RestartOnly, Settling, LeaveEtcd, Wipe, Restart,
     Goto, Place

LEMMA CoolType ==
  ASSUME DaemonOK, NEW n \in Node,
         WipeAndRestart(n) \/ RestartOnly(n) \/ Settling(n) \/ LeaveEtcd \/ Cool(n, "force")
  PROVE  cooling' \in [Node -> SUBSET {"etcd", "force"}]
  BY DEF DaemonOK, WipeAndRestart, RestartOnly, Settling, LeaveEtcd, Cool

LEMMA CycleDownType ==
  ASSUME TypeOK, NEW n \in Node, CycleDown(n)
  PROVE  TypeOK'
<1>1. EtcdOK /\ DaemonOK
  BY TypeParts
<1> DEFINE count == AtMost(downs[n] + 1, DownCycles)
<1>2. count \in 0..DownCycles /\ 0 \in 0..DownCycles
  BY <1>1, ThresholdAssumption, AtMostType DEF DaemonOK
<1> HIDE DEF count
<1>3. WipeAndRestart(n) \/ RestartOnly(n) \/ Settling(n) \/ LeaveEtcd
  BY DEF CycleDown
<1>4. EtcdOK'
  BY <1>1, <1>3, RestartType DEF CycleDown
<1>5. downs' = [downs EXCEPT ![n] = count] \/ downs' = [downs EXCEPT ![n] = 0]
  BY DEF CycleDown, count
<1>6. daemon' = [daemon EXCEPT ![n] = "authority"] \/ UNCHANGED daemon
  BY DEF CycleDown
<1>7. cooling' \in [Node -> SUBSET {"etcd", "force"}]
  BY <1>1, <1>3, CoolType
<1>8. UNCHANGED <<pg, flag, noquorum, faults>>
  BY DEF CycleDown
<1>9. DaemonOK'
  BY <1>1, <1>2, <1>5, <1>6, <1>7, <1>8 DEF DaemonOK
<1> QED
  BY <1>4, <1>9, TypeParts

LEMMA CycleNoQuorumType ==
  ASSUME TypeOK, NEW n \in Node, CycleNoQuorum(n)
  PROVE  TypeOK'
<1>1. EtcdOK /\ DaemonOK
  BY TypeParts
<1> DEFINE count == AtMost(noquorum[n] + 1, Stability)
<1>2. count \in 0..Stability /\ 0 \in 0..DownCycles
  BY <1>1, ThresholdAssumption, AtMostType DEF DaemonOK
<1> HIDE DEF count
<1>3. noquorum' = [noquorum EXCEPT ![n] = count]
  BY DEF CycleNoQuorum, count
<1>4. daemon' = [daemon EXCEPT ![n] = "survivor"] \/ UNCHANGED daemon
  BY DEF CycleNoQuorum
<1>5. DaemonOK'
  BY <1>1, <1>2, <1>3, <1>4 DEF CycleNoQuorum, DaemonOK
<1>6. EtcdOK'
  BY <1>1 DEF CycleNoQuorum, EtcdOK, etcd
<1> QED
  BY <1>5, <1>6, TypeParts

LEMMA CycleHealthyType ==
  ASSUME TypeOK, NEW n \in Node, CycleHealthy(n)
  PROVE  TypeOK'
<1>1. EtcdOK /\ DaemonOK
  BY TypeParts
<1>2. WipeAndRestart(n) \/ RestartOnly(n) \/ Settling(n) \/ LeaveEtcd
  BY DEF CycleHealthy
<1>3. cooling' \in [Node -> SUBSET {"etcd", "force"}]
  BY <1>1, <1>2, CoolType
<1>4. DaemonOK'
  BY <1>1, <1>3, ThresholdAssumption DEF CycleHealthy, DaemonOK
<1>5. CASE UNCHANGED roster
  BY <1>1, <1>2, <1>4, <1>5, RestartType, TypeParts DEF CycleHealthy
<1>6. CASE Promote(n) /\ LeaveEtcd
  <2>1. epoch[n] \in Epoch
    BY <1>1, EpochRange DEF CycleHealthy, Serves, EtcdOK
  <2>2. roster' \in [Epoch -> [Node -> Entry]]
    BY <1>1, <1>6, <2>1 DEF Promote, EtcdOK, Entry
  <2>3. EtcdOK'
    BY <1>1, <1>6, <2>2 DEF CycleHealthy, LeaveEtcd, EtcdOK
  <2> QED
    BY <1>4, <2>3, TypeParts
<1> QED
  BY <1>5, <1>6 DEF CycleHealthy

LEMMA ConfirmEndsType ==
  ASSUME TypeOK, NEW n \in Node, ConfirmEnds(n)
  PROVE  TypeOK'
<1>1. EtcdOK /\ DaemonOK
  BY TypeParts
<1>2. UNCHANGED <<pg, roster, born, faults>>
  BY DEF ConfirmEnds
<1>3. CASE Trigger(n)
  <2>1. EtcdOK'
    BY <1>1, <1>2, <1>3 DEF Trigger, EtcdOK
  <2>2. DaemonOK'
    BY <1>1, <1>2, <1>3, CoolType, ThresholdAssumption DEF Trigger, DaemonOK
  <2> QED
    BY <2>1, <2>2, TypeParts
<1>4. CASE WipeAndRestart(n) /\ downs' = [downs EXCEPT ![n] = 0]
           /\ daemon' = [daemon EXCEPT ![n] = "idle"] /\ UNCHANGED <<flag, noquorum>>
  <2>1. EtcdOK'
    BY <1>1, <1>2, <1>4, RestartType
  <2>2. DaemonOK'
    BY <1>1, <1>2, <1>4, CoolType, ThresholdAssumption DEF DaemonOK
  <2> QED
    BY <2>1, <2>2, TypeParts
<1>5. CASE daemon' = [daemon EXCEPT ![n] = "idle"]
           /\ UNCHANGED <<flag, epoch, pc, target, counters>>
  BY <1>1, <1>2, <1>5, TypeParts DEF EtcdOK, DaemonOK, counters
<1> QED
  BY <1>3, <1>4, <1>5 DEF ConfirmEnds

LEMMA SettleType ==
  ASSUME TypeOK, NEW n \in Node, Settle(n) \/ \E k \in {"etcd", "force"} : CooldownEnds(n, k)
  PROVE  TypeOK'
<1>1. EtcdOK /\ DaemonOK
  BY TypeParts
<1>2. CASE ConfirmEnds(n)
  BY <1>2, ConfirmEndsType
<1>3. CASE ForcedRestart(n)
  <2>1. EtcdOK' /\ DaemonOK'
    BY <1>1, <1>3, EpochRange
    DEF ForcedRestart, Restart, Goto, EtcdOK, DaemonOK, Place, counters
  <2> QED
    BY <2>1, TypeParts
<1>4. CASE CleanKeys(n) \/ WaitFails(n)
  <2>1. EtcdOK' /\ DaemonOK'
    BY <1>1, <1>4 DEF CleanKeys, WaitFails, EtcdOK, DaemonOK, etcd, counters
  <2> QED
    BY <2>1, TypeParts
<1>5. ASSUME NEW k \in {"etcd", "force"}, CooldownEnds(n, k) PROVE TypeOK'
  <2>1. EtcdOK' /\ DaemonOK'
    BY <1>1, <1>5 DEF CooldownEnds, EtcdOK, DaemonOK, etcd
  <2> QED
    BY <2>1, TypeParts
<1> QED
  BY <1>2, <1>3, <1>4, <1>5 DEF Settle

LEMMA DisturbanceType ==
  ASSUME TypeOK, NEW n \in Node, Disturbance(n)
  PROVE  TypeOK'
<1>1. EtcdOK /\ DaemonOK
  BY TypeParts
<1>2. CASE EtcdExit(n)
  <2>1. EtcdOK' /\ DaemonOK'
    BY <1>1, <1>2, DisturbType DEF EtcdExit, Goto, EtcdOK, DaemonOK, Place, counters
  <2> QED
    BY <2>1, TypeParts
<1>3. CASE LoseEtcd(n)
  <2>1. EtcdOK'
    BY <1>1, <1>3, EpochRange DEF LoseEtcd, Wipe, Restart, Goto, EtcdOK, Place
  <2>2. DaemonOK'
    BY <1>1, <1>3, DisturbType, ThresholdAssumption DEF LoseEtcd, Consume, DaemonOK
  <2> QED
    BY <2>1, <2>2, TypeParts
<1>4. CASE DaemonExit(n)
  <2>1. EtcdOK' /\ DaemonOK'
    BY <1>1, <1>4, DisturbType DEF DaemonExit, EtcdOK, DaemonOK, etcd, counters
  <2> QED
    BY <2>1, TypeParts
<1> QED
  BY <1>2, <1>3, <1>4 DEF Disturbance

LEMMA TypeStep == TypeOK /\ [Next]_vars => TypeOK'
<1> SUFFICES ASSUME TypeOK, [Next]_vars PROVE TypeOK'
  OBVIOUS
<1>1. CASE UNCHANGED vars
  BY <1>1 DEF vars, etcd, counters, TypeOK
<1>2. ASSUME NEW n \in Node, Start(n) \/ Join(n) \/ JoinFails(n) \/ Exec(n) PROVE TypeOK'
  BY <1>2, StartType, JoinType, ExecType
<1>3. ASSUME NEW n \in Node, Cycle(n) PROVE TypeOK'
  BY <1>3, CycleDownType, CycleNoQuorumType, CycleHealthyType DEF Cycle
<1>4. ASSUME NEW n \in Node,
             Settle(n) \/ (\E k \in {"etcd", "force"} : CooldownEnds(n, k)) \/ Disturbance(n)
      PROVE  TypeOK'
  BY <1>4, SettleType, DisturbanceType
<1> QED
  BY <1>1, <1>2, <1>3, <1>4 DEF Next

(* The variables of daemons, etcd-starts and etcds stay in their types; no *)
(* disk or start refers to an epoch that nobody has founded.               *)
THEOREM TypeCorrect == Spec => []TypeOK
<1> QED
  BY InitType, TypeStep, PTL DEF Spec

-----------------------------------------------------------------------------
(***************************************************************************)
(* Safety.  The two ways to a new epoch, a flag and a start that is about  *)
(* to found one, are left behind by an authority that was confirmed some   *)
(* time ago.  The invariant says that what was confirmed still holds when  *)
(* it is used: the copies of the data do not change, and etcd data does    *)
(* not come back from nowhere.                                             *)
(***************************************************************************)
AllEmpty == \A n \in Node : epoch[n] = 0

(* The next exec of n may found an epoch.                                  *)
Ready(n) == flag[n] \/ (pc[n] = "exec" /\ target[n] = 0)

LocatedAt(n) ==
  /\ Joining(n) => epoch[n] = 0
  /\ pc[n] = "exec" => epoch[n] \in {0, target[n]}
(* Etcd-start joins without data, and runs the epoch it has or has none.   *)
Located == \A n \in Node : LocatedAt(n)

Entitled == \A n \in Node : Ready(n) => n \in Line!Heirs /\ (Contested => AllEmpty)

OneEpoch == Contested => \A n \in Node : epoch[n] \in {0, born}

IInv == TypeOK /\ Located /\ Entitled /\ OneEpoch

(***************************************************************************)
(* The policy, for a fixed content of the disks.                           *)
(***************************************************************************)
LEMMA Domain ==
  ASSUME TypeOK
  PROVE  DOMAIN pg = Node
  BY DEF TypeOK

LEMMA HeirsPolicy ==
  ASSUME TypeOK
  PROVE  Line!Heirs = Authorities([p \in Node |-> OkSample(pg[p], TRUE, Node)], Node, Node)
  BY Domain DEF Line!Heirs, Line!Authorities, Authorities, Line!DataNodes, DataNodes,
     Line!Consistent, Consistent, Line!Outranks, Outranks, Line!OkSample, OkSample,
     Line!EmptyPg, EmptyPg

LEMMA HeirsHaveCopies ==
  ASSUME TypeOK, NEW a \in Line!Heirs
  PROVE  a \in Node /\ PgDir(a) /\ Readable(pg[a])
<1> DEFINE ev == [p \in Node |-> OkSample(pg[p], TRUE, Node)]
<1>1. a \in Authorities(ev, Node, Node)
  BY HeirsPolicy
<1>2. \A p \in Node : ev[p].pg = pg[p]
  BY DEF OkSample
<1>3. a \in Node /\ ~pg[a].empty
  BY <1>1, <1>2 DEF Authorities, DataNodes
<1>4. pg[a].sys # 0
  BY <1>1, <1>2, <1>3 DEF Authorities, Consistent
<1> QED
  BY <1>3, <1>4 DEF PgDir, Readable

LEMMA HeirsOutrank ==
  ASSUME TypeOK, NEW a \in Line!Heirs, NEW b \in Node, PgDir(b), a # b
  PROVE  Outranks(a, pg[a], b, pg[b])
<1> DEFINE ev == [p \in Node |-> OkSample(pg[p], TRUE, Node)]
<1>1. a \in Authorities(ev, Node, Node)
  BY HeirsPolicy
<1>2. \A p \in Node : ev[p].pg = pg[p]
  BY DEF OkSample
<1>3. b \in DataNodes(ev, Node) /\ a \in DataNodes(ev, Node)
  BY <1>1, <1>2 DEF Authorities, DataNodes, PgDir
<1>4. DataNodes(ev, Node) # {a}
  BY <1>3
<1>5. Outranks(a, ev[a].pg, b, ev[b].pg)
  BY <1>1, <1>3, <1>4 DEF Authorities
<1> QED
  BY <1>2, <1>3, <1>5 DEF DataNodes

LEMMA OneHeir ==
  ASSUME TypeOK, NEW a \in Line!Heirs, NEW b \in Line!Heirs
  PROVE  a = b
<1> SUFFICES ASSUME a # b PROVE FALSE
  OBVIOUS
<1>1. /\ a \in Node /\ PgDir(a)
      /\ b \in Node /\ PgDir(b)
  BY HeirsHaveCopies
<1>2. /\ Outranks(a, pg[a], b, pg[b])
      /\ Outranks(b, pg[b], a, pg[a])
  BY <1>1, HeirsOutrank
<1>3. /\ a \in Nat /\ b \in Nat
      /\ pg[a].lsn \in Nat /\ pg[b].lsn \in Nat
  BY <1>1, NodeAssumption DEF TypeOK, PgState
<1> QED
  BY <1>2, <1>3 DEF Outranks

(* The authority is the heir, and where copies compete it is named only     *)
(* when no etcd data is left.                                              *)
LEMMA AuthorityInherits ==
  ASSUME TypeOK, NEW a \in Node, Authority(a)
  PROVE  a \in Line!Heirs /\ (Contested => AllEmpty)
<1> DEFINE ev == [p \in Node |-> OkSample(pg[p], TRUE, Node)]
<1>1. \A p \in Node : /\ Identities[p].pg = pg[p] /\ ev[p].pg = pg[p]
                      /\ Identities[p].st = ev[p].st /\ Identities[p].view = ev[p].view
                      /\ Identities[p].etcdEmpty = (epoch[p] = 0) /\ ev[p].etcdEmpty
  BY DEF Identities, OkSample
<1> HIDE DEF ev
<1>2. a \in Authorities(Identities, Node, Node)
  BY DEF Authority
<1>3. DataNodes(Identities, Node) = DataNodes(ev, Node)
  BY <1>1 DEF DataNodes
<1>4. Consistent(ev, Node, Node)
  BY <1>1, <1>2 DEF Authorities, Consistent
<1>5. a \in Authorities(ev, Node, Node)
  BY <1>1, <1>2, <1>3, <1>4 DEF Authorities, DataNodes
<1>6. a \in Line!Heirs
  BY <1>5, HeirsPolicy DEF ev
<1>7. ASSUME Contested PROVE AllEmpty
  <2>1. PICK x \in Node, y \in Node : x # y /\ PgDir(x) /\ PgDir(y)
    BY <1>7 DEF Contested
  <2>2. x \in DataNodes(Identities, Node) /\ y \in DataNodes(Identities, Node)
    BY <1>1, <2>1 DEF DataNodes, PgDir
  <2>3. DataNodes(Identities, Node) # {a}
    BY <2>1, <2>2
  <2> QED
    BY <1>1, <1>2, <2>3 DEF Authorities, AllEmpty
<1> QED
  BY <1>6, <1>7

(* An epoch with a quorum has a voter that runs it.                        *)
LEMMA QuorumRuns ==
  ASSUME NEW e, HasQuorum(e)
  PROVE  \E m \in Node : epoch[m] = e
<1> SUFFICES ASSUME \A m \in Node : epoch[m] # e PROVE FALSE
  OBVIOUS
<1>1. Voter(e) \cap Running(e) = {}
  BY DEF Running
<1>2. IsFiniteSet(Voter(e))
  BY NodeAssumption, FS_Subset DEF Voter
<1>3. Cardinality(Voter(e)) \in Nat /\ Cardinality({}) = 0
  BY <1>2, FS_CardinalityType, FS_EmptySet
<1>4. Cardinality(Voter(e) \cap Running(e)) = 0
  BY <1>1, <1>3
<1>5. 2 * Cardinality(Voter(e) \cap Running(e)) > Cardinality(Voter(e))
  BY DEF HasQuorum
<1> QED
  BY <1>3, <1>4, <1>5

LEMMA NobodyServes ==
  ASSUME AllEmpty, NEW e, e # 0
  PROVE  ~HasQuorum(e)
  BY QuorumRuns DEF AllEmpty

(***************************************************************************)
(* What a step of node n other than exec may do: it takes etcd data away   *)
(* or leaves it, and n gets ready for a new epoch as an authority only.    *)
(***************************************************************************)
Calm(n) ==
  /\ UNCHANGED <<pg, born>>
  /\ epoch' = [epoch EXCEPT ![n] = 0] \/ UNCHANGED epoch
  /\ \A m \in Node \ {n} : pc'[m] = pc[m] /\ target'[m] = target[m] /\ flag'[m] = flag[m]
  /\ LocatedAt(n)'
  /\ Ready(n)' => Ready(n) \/ Authority(n)

LEMMA StartCalm ==
  ASSUME TypeOK, Located, NEW n \in Node, Start(n)
  PROVE  Calm(n)
<1>1. CASE StartPresent(n)
  BY <1>1 DEF StartPresent, RunEpoch, Wipe, Goto, Calm, Ready, LocatedAt, Joining, TypeOK
<1>2. CASE StartEmpty(n)
  <2>1. CASE MayRecover(n) /\ flag[n]
    BY <1>2, <2>1
    DEF StartEmpty, Consume, RunEpoch, Goto, Calm, Ready, LocatedAt, Joining, TypeOK
  <2>2. CASE ~(MayRecover(n) /\ flag[n])
    BY <1>2, <2>2
    DEF StartEmpty, Consume, RunEpoch, Goto, Calm, Ready, LocatedAt, Joining, TypeOK
  <2> QED
    BY <2>1, <2>2
<1> QED
  BY <1>1, <1>2 DEF Start

LEMMA JoinCalm ==
  ASSUME TypeOK, Located, NEW n \in Node, Join(n) \/ JoinFails(n)
  PROVE  Calm(n)
<1>1. Joining(n) /\ epoch[n] = 0
  BY DEF Join, JoinPeer, JoinFails, Located, LocatedAt
<1>2. ASSUME NEW p \in Node, JoinPeer(n, p) PROVE Calm(n)
  <2>1. epoch[p] # 0
    BY <1>2 DEF JoinPeer, ServingPeers, Serves
  <2>2. CASE RunEpoch(n, epoch[p])
    BY <1>1, <1>2, <2>1, <2>2
    DEF JoinPeer, RunEpoch, Goto, Calm, Ready, LocatedAt, Joining, TypeOK
  <2>3. CASE pc' = [pc EXCEPT ![n] = IF @ = "join" THEN "refused" ELSE @] /\ UNCHANGED target
    BY <1>1, <1>2, <2>3 DEF JoinPeer, Calm, Ready, LocatedAt, Joining, TypeOK
  <2> QED
    BY <1>2, <2>2, <2>3 DEF JoinPeer
<1>3. CASE JoinFails(n)
  BY <1>1, <1>3 DEF JoinFails, RunEpoch, Goto, Calm, Ready, LocatedAt, Joining, TypeOK
<1> QED
  BY <1>2, <1>3 DEF Join

(* Supervisord stops etcd-start, or etcd, of n.                            *)
LEMMA RestartCalm ==
  ASSUME TypeOK, Located, NEW n \in Node,
         WipeAndRestart(n) \/ RestartOnly(n) \/ Settling(n) \/ LeaveEtcd,
         UNCHANGED <<pg, born, flag>>
  PROVE  Calm(n)
<1>1. CASE WipeAndRestart(n) \/ RestartOnly(n)
  BY <1>1 DEF WipeAndRestart, RestartOnly, Wipe, Restart, Goto, Calm, Ready, LocatedAt,
     Joining, TypeOK
<1>2. CASE Settling(n) \/ LeaveEtcd
  BY <1>2 DEF Settling, LeaveEtcd, Calm, Ready, Located, LocatedAt, Joining
<1> QED
  BY <1>1, <1>2

LEMMA CycleCalm ==
  ASSUME TypeOK, Located, NEW n \in Node, Cycle(n)
  PROVE  Calm(n)
<1>1. CASE CycleDown(n)
  <2>1. WipeAndRestart(n) \/ RestartOnly(n) \/ Settling(n) \/ LeaveEtcd
    BY <1>1 DEF CycleDown
  <2> QED
    BY <1>1, <2>1, RestartCalm DEF CycleDown
<1>2. CASE CycleNoQuorum(n)
  BY <1>2 DEF CycleNoQuorum, etcd, Calm, Ready, Located, LocatedAt, Joining
<1>3. CASE CycleHealthy(n)
  <2>1. WipeAndRestart(n) \/ RestartOnly(n) \/ Settling(n) \/ LeaveEtcd
    BY <1>3 DEF CycleHealthy
  <2> QED
    BY <1>3, <2>1, RestartCalm DEF CycleHealthy
<1> QED
  BY <1>1, <1>2, <1>3 DEF Cycle

LEMMA SettleCalm ==
  ASSUME TypeOK, Located, NEW n \in Node, Settle(n)
  PROVE  Calm(n)
<1>1. CASE ConfirmEnds(n)
  <2>1. CASE Authority(n) /\ Trigger(n)
    BY <1>1, <2>1 DEF ConfirmEnds, Trigger, Calm, Ready, Located, LocatedAt, Joining, TypeOK
  <2>2. CASE WipeAndRestart(n) /\ UNCHANGED flag
    BY <1>1, <2>2, RestartCalm DEF ConfirmEnds
  <2>3. CASE UNCHANGED <<flag, epoch, pc, target>>
    BY <1>1, <2>3, RestartCalm DEF ConfirmEnds, Calm, Ready, Located, LocatedAt, Joining
  <2> QED
    BY <1>1, <2>1, <2>2, <2>3 DEF ConfirmEnds
<1>2. CASE ForcedRestart(n)
  BY <1>2 DEF ForcedRestart, Restart, Goto, Calm, Ready, LocatedAt, Joining, TypeOK
<1>3. CASE CleanKeys(n) \/ WaitFails(n)
  BY <1>3 DEF CleanKeys, WaitFails, etcd, Calm, Ready, Located, LocatedAt, Joining
<1> QED
  BY <1>1, <1>2, <1>3 DEF Settle

LEMMA DisturbanceCalm ==
  ASSUME TypeOK, Located, NEW n \in Node, Disturbance(n)
  PROVE  Calm(n)
<1>1. CASE EtcdExit(n)
  BY <1>1 DEF EtcdExit, Goto, Calm, Ready, LocatedAt, Joining, TypeOK
<1>2. CASE LoseEtcd(n)
  BY <1>2 DEF LoseEtcd, Wipe, Restart, Goto, Consume, Calm, Ready, LocatedAt, Joining, TypeOK
<1>3. CASE DaemonExit(n)
  BY <1>3 DEF DaemonExit, etcd, Calm, Ready, Located, LocatedAt, Joining
<1> QED
  BY <1>1, <1>2, <1>3 DEF Disturbance

LEMMA CooldownCalm ==
  ASSUME Located, NEW n \in Node, NEW k, CooldownEnds(n, k)
  PROVE  Calm(n)
  BY DEF CooldownEnds, etcd, Calm, Ready, Located, LocatedAt, Joining

(* Each step is the exec of a node, or calm.                               *)
LEMMA StepKinds ==
  ASSUME TypeOK, Located, Next
  PROVE  \E n \in Node : Exec(n) \/ Calm(n)
  BY StartCalm, JoinCalm, CycleCalm, SettleCalm, DisturbanceCalm, CooldownCalm DEF Next

(* A calm step keeps the invariant.                                        *)
LEMMA CalmKeeps ==
  ASSUME IInv, NEW n \in Node, Calm(n), TypeOK'
  PROVE  Located' /\ Entitled' /\ OneEpoch'
<1>1. UNCHANGED <<Contested, Line!Heirs, born>>
  BY DEF Calm, Contested, PgDir, Line!Heirs
<1>2. \A m \in Node : epoch'[m] \in {0, epoch[m]}
  BY DEF Calm, IInv, TypeOK
<1>3. AllEmpty => AllEmpty'
  BY <1>2 DEF AllEmpty
<1>4. ASSUME NEW m \in Node PROVE LocatedAt(m)'
  <2>1. CASE m = n
    BY <2>1 DEF Calm
  <2>2. CASE m # n
    BY <1>2, <2>2 DEF Calm, IInv, Located, LocatedAt, Joining
  <2> QED
    BY <2>1, <2>2
<1>5. ASSUME NEW m \in Node, Ready(m)'
      PROVE  m \in Line!Heirs' /\ (Contested' => AllEmpty')
  <2>1. CASE Ready(m)
    BY <1>1, <1>3, <2>1 DEF IInv, Entitled
  <2>2. CASE ~Ready(m)
    <3>1. m = n
      BY <1>5, <2>2 DEF Calm, Ready
    <3>2. Authority(n)
      BY <1>5, <2>2, <3>1 DEF Calm
    <3> QED
      BY <1>1, <1>3, <3>1, <3>2, AuthorityInherits DEF IInv
  <2> QED
    BY <2>1, <2>2
<1>6. OneEpoch'
  BY <1>1, <1>2 DEF IInv, OneEpoch
<1> QED
  BY <1>4, <1>5, <1>6 DEF Located, Entitled

(***************************************************************************)
(* Exec.  An epoch is founded by the heir, over no etcd data if copies     *)
(* compete; otherwise n runs the epoch of its data, or gets that of a node *)
(* which has it.                                                           *)
(***************************************************************************)
Founds(n) ==
  /\ Create(n)
  /\ n \in Line!Heirs
  /\ Contested => AllEmpty

Runs(n) ==
  /\ UNCHANGED born
  /\ \/ UNCHANGED epoch
     \/ /\ epoch[n] = 0 /\ target[n] # 0
        /\ epoch' = [epoch EXCEPT ![n] = target[n]]
        /\ \E m \in Node : epoch[m] = target[n]

LEMMA ExecKinds ==
  ASSUME IInv, NEW n \in Node, Exec(n)
  PROVE  Founds(n) \/ Runs(n)
<1>1. CASE target[n] = 0 \/ Forces(n)
  <2>1. Ready(n)
    BY <1>1 DEF Exec, Forces, Ready
  <2> QED
    BY <1>1, <2>1 DEF Exec, Founds, IInv, Entitled
<1>2. CASE ~(target[n] = 0 \/ Forces(n))
  <2>1. epoch[n] = target[n] \/ epoch[n] = 0
    BY DEF Exec, IInv, Located, LocatedAt
  <2>2. CASE epoch[n] = target[n]
    <3>1. UNCHANGED born /\ epoch' = [epoch EXCEPT ![n] = target[n]]
      BY <1>2, <2>2 DEF Exec
    <3>2. UNCHANGED epoch
      BY <2>2, <3>1 DEF IInv, TypeOK
    <3> QED
      BY <3>1, <3>2 DEF Runs
  <2>3. CASE epoch[n] = 0 /\ HasQuorum(target[n])
    BY <1>2, <2>3, QuorumRuns DEF Exec, Runs
  <2>4. CASE epoch[n] = 0 /\ ~HasQuorum(target[n])
    BY <1>2, <2>4 DEF Exec, Runs
  <2> QED
    BY <2>1, <2>2, <2>3, <2>4
<1> QED
  BY <1>1, <1>2

(* What exec leaves behind.                                                *)
LEMMA ExecLeaves ==
  ASSUME IInv, NEW n \in Node, Exec(n)
  PROVE  /\ UNCHANGED <<Contested, Line!Heirs>>
         /\ LocatedAt(n)' /\ ~Ready(n)'
         /\ \A m \in Node \ {n} : /\ epoch'[m] = epoch[m] /\ pc'[m] = pc[m]
                                  /\ target'[m] = target[m] /\ flag'[m] = flag[m]
<1>1. UNCHANGED pg
  BY DEF Exec
<1>2. pc' = [pc EXCEPT ![n] = "up"] \/ pc' = [pc EXCEPT ![n] = "down"]
  BY DEF Exec, Create, Goto
<1>3. epoch' = [epoch EXCEPT ![n] = born + 1] \/ epoch' = [epoch EXCEPT ![n] = target[n]]
      \/ UNCHANGED epoch
  BY DEF Exec, Create
<1>4. flag' = [flag EXCEPT ![n] = FALSE] /\ target' = [target EXCEPT ![n] = 0]
  BY DEF Exec, Consume
<1>5. UNCHANGED <<Contested, Line!Heirs>>
  BY <1>1 DEF Contested, PgDir, Line!Heirs
<1> QED
  BY <1>2, <1>3, <1>4, <1>5 DEF IInv, TypeOK, LocatedAt, Joining, Ready

LEMMA ExecKeeps ==
  ASSUME IInv, NEW n \in Node, Exec(n)
  PROVE  Located' /\ Entitled' /\ OneEpoch'
<1>1. Located'
  BY ExecLeaves DEF IInv, Located, LocatedAt, Joining
<1>2. CASE Founds(n)
  <2>1. ASSUME NEW m \in Node, Ready(m)' PROVE FALSE
    <3>1. m # n /\ Ready(m)
      BY <2>1, ExecLeaves DEF Ready
    <3>2. m \in Line!Heirs /\ n \in Line!Heirs
      BY <1>2, <3>1 DEF Founds, IInv, Entitled
    <3> QED
      BY <3>1, <3>2, OneHeir DEF IInv
  <2>2. OneEpoch'
    BY <1>2, ExecLeaves DEF Founds, Create, AllEmpty, OneEpoch, IInv, TypeOK
  <2> QED
    BY <1>1, <2>1, <2>2 DEF Entitled
<1>3. CASE Runs(n)
  <2>1. Contested /\ AllEmpty => UNCHANGED epoch
    BY <1>3 DEF Runs, AllEmpty
  <2>2. Entitled'
    BY <2>1, ExecLeaves DEF Entitled, IInv, Ready, AllEmpty
  <2>3. OneEpoch'
    BY <1>3, ExecLeaves DEF Runs, OneEpoch, IInv, TypeOK
  <2> QED
    BY <1>1, <2>2, <2>3
<1> QED
  BY <1>2, <1>3, ExecKinds

LEMMA InitSafe == Init => IInv
<1> SUFFICES ASSUME Init PROVE IInv
  OBVIOUS
<1>1. TypeOK
  BY InitType
<1>2. \A n \in Node : pc[n] \in {"down", "up"} /\ ~flag[n] /\ epoch[n] \in {0, born}
  BY InitialAssumption DEF Init
<1> QED
  BY <1>1, <1>2 DEF IInv, Located, LocatedAt, Joining, Entitled, Ready, OneEpoch

LEMMA StepSafe == IInv /\ [Next]_vars => IInv'
<1> SUFFICES ASSUME IInv, [Next]_vars PROVE IInv'
  OBVIOUS
<1>1. TypeOK'
  BY TypeStep DEF IInv
<1>2. CASE UNCHANGED vars
  BY <1>1, <1>2 DEF vars, etcd, counters, IInv, Located, LocatedAt, Joining, Entitled, Ready,
     AllEmpty, OneEpoch, Contested, PgDir, Line!Heirs
<1>3. CASE Next
  BY <1>1, <1>3, StepKinds, CalmKeeps, ExecKeeps DEF IInv
<1> QED
  BY <1>2, <1>3

(* The inductive invariant of the way out of an outage: whoever may found  *)
(* an epoch, by a flag or a start confirmed before, is still entitled to.  *)
THEOREM Inductive == Spec => []IInv
<1> QED
  BY InitSafe, StepSafe, PTL DEF Spec

(* While two nodes have copies, all the nodes that serve are in one epoch; *)
(* and the only copy is in one.                                            *)
LEMMA DataInOneEpoch ==
  ASSUME IInv, NEW d \in DataEpochs, NEW e \in DataEpochs
  PROVE  d = e
<1>1. PICK m \in Node : epoch[m] = d /\ Serves(m) /\ Readable(pg[m])
  BY DEF DataEpochs
<1>2. PICK n \in Node : epoch[n] = e /\ Serves(n) /\ Readable(pg[n])
  BY DEF DataEpochs
<1>3. CASE m = n
  BY <1>1, <1>2, <1>3
<1>4. CASE m # n
  <2>1. Contested
    BY <1>1, <1>2, <1>4 DEF Contested, PgDir, Readable
  <2> QED
    BY <1>1, <1>2, <2>1 DEF IInv, OneEpoch, Serves
<1> QED
  BY <1>3, <1>4

(* Two etcd epochs never serve nodes with PostgreSQL data side by side,     *)
(* however late a confirmation, a flag or a restart by the daemon takes    *)
(* effect, and whatever exits or is lost in between.                       *)
THEOREM OneDataEpochHolds == Spec => []OneDataEpoch
<1>1. IInv => OneDataEpoch
  <2> SUFFICES ASSUME IInv PROVE OneDataEpoch
    OBVIOUS
  <2>1. CASE DataEpochs = {}
    BY <2>1, FS_EmptySet DEF OneDataEpoch
  <2>2. CASE DataEpochs # {}
    <3>1. PICK e \in DataEpochs : DataEpochs = {e}
      BY <2>2, DataInOneEpoch
    <3>2. Cardinality({e}) = 1
      BY FS_Singleton
    <3> QED
      BY <3>1, <3>2 DEF OneDataEpoch
  <2> QED
    BY <2>1, <2>2
<1> QED
  BY <1>1, Inductive, PTL

-----------------------------------------------------------------------------
(***************************************************************************)
(* The refinement of EpochLine.                                            *)
(***************************************************************************)
LEMMA FoundsIsFound ==
  ASSUME IInv, NEW n \in Node, Exec(n), Founds(n)
  PROVE  Line!Next
<1>1. /\ born' = born + 1 /\ epoch' = [epoch EXCEPT ![n] = born + 1]
      /\ born \in Nat /\ born # 0
  BY BoundAssumption DEF Founds, Create, IInv, TypeOK, Epoch
<1>2. \A m \in Node : epoch[m] \in 0..born
  BY DEF IInv, TypeOK
<1>3. Holders' = {n}
  BY <1>1, <1>2 DEF Holders, IInv, TypeOK
<1>4. Stale' = (Holders \cup Stale) \ {n}
  BY <1>1, <1>2 DEF Holders, Stale, IInv, TypeOK
<1>5. Holders \cup Stale = {} \/ Line!Copies = {n}
  <2>1. CASE Contested
    BY <1>1, <2>1 DEF Founds, AllEmpty, Holders, Stale, IInv, TypeOK, Epoch
  <2>2. CASE ~Contested
    <3>1. PgDir(n) /\ DOMAIN pg = Node
      BY HeirsHaveCopies, Domain DEF Founds, IInv
    <3> QED
      BY <2>2, <3>1 DEF Contested, Line!Copies, PgDir
  <2> QED
    BY <2>1, <2>2
<1>6. n \in Line!Heirs /\ UNCHANGED pg
  BY DEF Founds, Exec
<1> QED
  BY <1>1, <1>3, <1>4, <1>5, <1>6 DEF Line!Next, Line!Found

LEMMA RunsIsAdopt ==
  ASSUME IInv, NEW n \in Node, Exec(n), Runs(n)
  PROVE  Line!Next \/ UNCHANGED Line!line
<1>1. UNCHANGED <<pg, born>> /\ born \in Nat
  BY BoundAssumption DEF Exec, Runs, IInv, TypeOK, Epoch
<1>2. CASE UNCHANGED epoch
  BY <1>1, <1>2 DEF Line!line, Holders, Stale
<1>3. ASSUME epoch[n] = 0, target[n] # 0, epoch' = [epoch EXCEPT ![n] = target[n]],
             NEW m \in Node, epoch[m] = target[n]
      PROVE  Line!Next
  <2>1. n \notin Holders \cup Stale
    BY <1>1, <1>3 DEF Holders, Stale, IInv, TypeOK, Epoch
  <2>2. CASE target[n] = born
    <3>1. m \in Holders /\ Holders' = Holders \cup {n} /\ Stale' = Stale
      BY <1>1, <1>3, <2>2 DEF Holders, Stale, IInv, TypeOK, Epoch
    <3> QED
      BY <1>1, <2>1, <3>1 DEF Line!Next, Line!Adopt
  <2>3. CASE target[n] # born
    <3>1. m \in Stale /\ Stale' = Stale \cup {n} /\ Holders' = Holders
      BY <1>1, <1>3, <2>3 DEF Holders, Stale, IInv, TypeOK, Epoch
    <3> QED
      BY <1>1, <2>1, <3>1 DEF Line!Next, Line!Revert
  <2> QED
    BY <2>2, <2>3
<1> QED
  BY <1>2, <1>3 DEF Runs

LEMMA CalmIsLose ==
  ASSUME IInv, NEW n \in Node, Calm(n)
  PROVE  Line!Next \/ UNCHANGED Line!line
<1>1. UNCHANGED <<pg, born>> /\ born \in Nat /\ born # 0
  BY BoundAssumption DEF Calm, IInv, TypeOK, Epoch
<1>2. CASE UNCHANGED epoch
  BY <1>1, <1>2 DEF Line!line, Holders, Stale
<1>3. CASE epoch' = [epoch EXCEPT ![n] = 0]
  <2>1. Holders' = Holders \ {n} /\ Stale' = Stale \ {n}
    BY <1>1, <1>3 DEF Holders, Stale, IInv, TypeOK
  <2>2. CASE n \in Holders \cup Stale
    BY <1>1, <2>1, <2>2 DEF Line!Next, Line!Lose
  <2>3. CASE n \notin Holders \cup Stale
    BY <1>1, <2>1, <2>3 DEF Line!line
  <2> QED
    BY <2>2, <2>3
<1> QED
  BY <1>2, <1>3 DEF Calm

(* The etcd data of all nodes is a line of epochs: founded by the heir     *)
(* over nothing, or by the only copy, and passed on from node to node.     *)
THEOREM ImplementsLineHolds == Spec => ImplementsLine
<1>1. Init => Line!Init
  <2> SUFFICES ASSUME Init PROVE Line!Init
    OBVIOUS
  <2>1. \A n \in Node : epoch[n] \in {0, 1}
    BY InitialAssumption DEF Init
  <2> QED
    BY <2>1 DEF Init, Line!Init, Stale
<1>2. IInv /\ [Next]_vars => [Line!Next]_(Line!line)
  <2> SUFFICES ASSUME IInv, [Next]_vars PROVE Line!Next \/ UNCHANGED Line!line
    OBVIOUS
  <2>1. CASE UNCHANGED vars
    BY <2>1 DEF vars, etcd, counters, Line!line, Holders, Stale
  <2>2. CASE Next
    BY <2>2, StepKinds, ExecKinds, FoundsIsFound, RunsIsAdopt, CalmIsLose DEF IInv
  <2> QED
    BY <2>1, <2>2
<1> QED
  BY <1>1, <1>2, Inductive, PTL DEF Spec, ImplementsLine, Line!Spec

(* While two nodes have copies, no etcd data of an epoch left behind is    *)
(* anywhere, so none can come back to serve.                               *)
THEOREM NoRelapseHolds == Spec => []Line!NoRelapse
<1>1. IInv => Line!NoRelapse
  <2> SUFFICES ASSUME IInv, Stale # {}, NEW a \in Line!Copies, NEW b \in Line!Copies
               PROVE  a = b
    BY DEF Line!NoRelapse
  <2>1. ~Contested
    BY DEF IInv, OneEpoch, Stale
  <2> QED
    BY <2>1, Domain DEF Contested, Line!Copies, PgDir, IInv
<1> QED
  BY <1>1, Inductive, PTL
-----------------------------------------------------------------------------
(***************************************************************************)
(* Who drops etcd data, and what is left.                                  *)
(***************************************************************************)
Elsewhere(n) ==
  \/ \E p \in Node \ {n} : Serves(p)
  \/ \E a \in Node \ {n} : Authority(a)

LEMMA VotesNeedVoters ==
  ASSUME NEW n \in Node, Outvoted(n)
  PROVE  \E p \in Node \ {n} : Serves(p)
<1> SUFFICES ASSUME ServingPeers(n) = {} PROVE FALSE
  BY DEF ServingPeers
<1>1. Strangers(n) = {} /\ Friends(n) = {}
  BY DEF Strangers, Friends
<1> QED
  BY <1>1, FS_EmptySet DEF Outvoted

(* Without a disturbance, a node drops its etcd data for an epoch that a    *)
(* peer serves, or for the authority.                                      *)
LEMMA WipesForAnother ==
  ASSUME TypeOK, NEW n \in Node,
         Start(n) \/ Join(n) \/ JoinFails(n) \/ Cycle(n) \/ Settle(n)
           \/ \E k \in {"etcd", "force"} : CooldownEnds(n, k)
  PROVE  UNCHANGED epoch \/ (Wipe(n) /\ Elsewhere(n))
<1>1. CASE Start(n)
  BY <1>1 DEF Start, StartPresent, StartEmpty, ServingPeers, Elsewhere
<1>2. CASE Join(n) \/ JoinFails(n)
  BY <1>2 DEF Join, JoinPeer, JoinFails
<1>3. CASE Cycle(n)
  <2>1. UNCHANGED epoch \/ (Outvoted(n) /\ Wipe(n))
    BY <1>3 DEF Cycle, CycleDown, CycleNoQuorum, CycleHealthy, WipeAndRestart, RestartOnly,
       Settling, LeaveEtcd, etcd
  <2> QED
    BY <2>1, VotesNeedVoters DEF Elsewhere
<1>4. CASE Settle(n)
  BY <1>4 DEF Settle, ConfirmEnds, Trigger, WipeAndRestart, ForcedRestart, CleanKeys, WaitFails,
     etcd, Elsewhere
<1>5. CASE \E k \in {"etcd", "force"} : CooldownEnds(n, k)
  BY <1>5 DEF CooldownEnds, etcd
<1> QED
  BY <1>1, <1>2, <1>3, <1>4, <1>5

LEMMA DisturbanceCounts ==
  ASSUME TypeOK, NEW n \in Node, Disturbance(n)
  PROVE  faults' # faults
  BY DEF Disturbance, EtcdExit, LoseEtcd, DaemonExit, Disturb, TypeOK

(* Exec runs the epoch of the data that is there, or founds the next one.  *)
LEMMA ExecHolds ==
  ASSUME IInv, NEW n \in Node, Exec(n), Holders # {}
  PROVE  Holders' # {}
<1>1. CASE Founds(n)
  <2>1. epoch'[n] = born'
    BY <1>1 DEF Founds, Create, IInv, TypeOK
  <2> QED
    BY <2>1 DEF Holders
<1>2. CASE Runs(n)
  <2>1. born \in Nat \ {0} /\ UNCHANGED born
    BY <1>2 DEF Runs, IInv, TypeOK, Epoch
  <2>2. PICK m \in Node : epoch[m] = born
    BY DEF Holders
  <2>3. epoch'[m] = epoch[m]
    BY <1>2, <2>1, <2>2 DEF Runs, IInv, TypeOK
  <2> QED
    BY <2>1, <2>2, <2>3 DEF Holders
<1> QED
  BY <1>1, <1>2, ExecKinds

(* While copies compete, what another serves is the last epoch, and nobody *)
(* is an authority before all etcd data is gone.                           *)
LEMMA WipeLeavesHolder ==
  ASSUME IInv, NEW n \in Node, Contested, Holders # {}, Wipe(n), Elsewhere(n), UNCHANGED born
  PROVE  Holders' # {}
<1>1. born \in Nat \ {0}
  BY DEF IInv, TypeOK, Epoch
<1>2. PICK m \in Node : epoch[m] = born
  BY DEF Holders
<1>3. ~AllEmpty
  BY <1>1, <1>2 DEF AllEmpty
<1>4. PICK p \in Node \ {n} : Serves(p)
  BY <1>3, AuthorityInherits DEF Elsewhere, IInv
<1>5. epoch[p] = born
  BY <1>4 DEF Serves, IInv, OneEpoch
<1>6. epoch'[p] = born'
  BY <1>4, <1>5 DEF Wipe, IInv, TypeOK
<1> QED
  BY <1>6 DEF Holders

(* The nodes never talk each other out of the last etcd data: with several  *)
(* copies of PostgreSQL an election needs a disturbance that took it        *)
(* (the wipes of runEtcdStart, runReconcile and handleEtcdUnreachable).     *)
THEOREM LastEtcdDataKeptHolds == Spec => LastEtcdDataKept
<1>1. IInv /\ [Next]_vars =>
        [Contested /\ Holders # {} /\ Holders' = {} => faults' # faults]_vars
  <2> SUFFICES ASSUME IInv, Next, Contested, Holders # {}, Holders' = {}
               PROVE  faults' # faults
    OBVIOUS
  <2>1. PICK n \in Node :
          \/ Exec(n)
          \/ Start(n) \/ Join(n) \/ JoinFails(n) \/ Cycle(n) \/ Settle(n)
               \/ \E k \in {"etcd", "force"} : CooldownEnds(n, k)
          \/ Disturbance(n)
    BY DEF Next
  <2>2. CASE Exec(n)
    BY <2>2, ExecHolds
  <2>3. CASE Start(n) \/ Join(n) \/ JoinFails(n) \/ Cycle(n) \/ Settle(n)
               \/ \E k \in {"etcd", "force"} : CooldownEnds(n, k)
    <3>1. UNCHANGED born
      BY <2>3 DEF Start, StartPresent, StartEmpty, Join, JoinPeer, JoinFails, Cycle, CycleDown,
         CycleNoQuorum, CycleHealthy, Settle, ConfirmEnds, ForcedRestart, CleanKeys, WaitFails,
         CooldownEnds, etcd
    <3>2. CASE UNCHANGED epoch
      BY <3>1, <3>2 DEF Holders
    <3> QED
      BY <2>3, <3>1, <3>2, WipesForAnother, WipeLeavesHolder DEF IInv
  <2>4. CASE Disturbance(n)
    BY <2>4, DisturbanceCounts DEF IInv
  <2> QED
    BY <2>1, <2>2, <2>3, <2>4
<1> QED
  BY <1>1, Inductive, PTL DEF Spec, LastEtcdDataKept
=============================================================================
