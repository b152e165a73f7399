------------------------ MODULE EpochBootstrapProofs ------------------------
(***************************************************************************)
(* Proofs about EpochBootstrap, for every set of nodes, views, settings,   *)
(* PGDATA contents and bounds.                                             *)
(***************************************************************************)
EXTENDS EpochBootstrap, TLAPS

PcType == {"off", "down", "join", "fresh", "recover", "exec", "up"}

LEMMA NoSampleType == NoSample \in Sample /\ ErrSample \in Sample /\ EmptyPg \in PgState
  BY DEF NoSample, ErrSample, EmptyPg, Sample, PgState

LEMMA PeerSampleType ==
  ASSUME TypeOK, NEW p \in Node
  PROVE  PeerSample(p) \in Sample
  BY DEF PeerSample, OkSample, EtcdEmpty, Sample, TypeOK

LEMMA EpochRange ==
  ASSUME TypeOK, NEW p \in Node, epoch[p] # 0
  PROVE  epoch[p] \in Epoch
  BY BoundAssumption DEF TypeOK, Epoch

(* The process variables of TypeOK.                                        *)
ProcessOK ==
  /\ pc \in [Node -> PcType]
  /\ cfg \in [Node -> SUBSET Node]
  /\ run \in [Node -> Locals]
  /\ seen \in [Node -> [Node -> Sample]]
  /\ plan \in [Node -> {"none", "existing", "fresh", "recover", "override"}]

LEMMA NoRunType ==
  ASSUME TypeOK
  PROVE  NoRun \in Locals
  BY CyclesAssumption, BoundAssumption DEF NoRun, Locals, TypeOK

(* The updates of etcd-start's locals.                                     *)
LEMMA LocalsUpdates ==
  ASSUME NEW r \in Locals
  PROVE  /\ \A c \in 0..(Cycles - 1), a \in Nat, y \in Nat :
              [r EXCEPT !.cycle = c, !.auth = a, !.sys = y] \in Locals
         /\ \A e \in 0..born : [r EXCEPT !.target = e] \in Locals
         /\ [r EXCEPT !.reached = TRUE] \in Locals
  BY DEF Locals

(* Locals grows with born.                                                 *)
LEMMA LocalsGrow ==
  ASSUME TypeOK, born' \in {born, born + 1}
  PROVE  Locals \subseteq Locals'
<1>1. born \in Nat
  BY BoundAssumption DEF TypeOK
<1>2. 0..born \subseteq 0..born'
  BY <1>1
<1> QED
  BY <1>2 DEF Locals

LEMMA HaltType ==
  ASSUME TypeOK, NEW n \in Node, NEW to \in PcType, Halt(n, to), born' \in {born, born + 1}
  PROVE  ProcessOK'
<1>1. NoRun \in Locals
  BY NoRunType
<1>2. NoSamples \in [Node -> Sample]
  BY NoSampleType DEF NoSamples
<1>3. run' \in [Node -> Locals]
  BY <1>1 DEF Halt, TypeOK
<1>4. run' \in [Node -> Locals']
  BY <1>3, LocalsGrow
<1>5. pc' \in [Node -> PcType] /\ cfg' \in [Node -> SUBSET Node]
  BY DEF Halt, TypeOK, PcType
<1>6. seen' \in [Node -> [Node -> Sample]]
  BY <1>2 DEF Halt, TypeOK
<1>7. plan' \in [Node -> {"none", "existing", "fresh", "recover", "override"}]
  BY DEF Halt, TypeOK
<1> QED
  BY <1>4, <1>5, <1>6, <1>7 DEF ProcessOK

(* The other variables of TypeOK.                                          *)
WorldOK ==
  /\ view \in [Node -> SUBSET Node]
  /\ pg \in [Node -> PgState]
  /\ stray \in [Node -> BOOLEAN]
  /\ epoch \in [Node -> 0..born]
  /\ founded \in [Node -> [view : SUBSET Node,
                          how : {"none", "fresh", "recover", "override"}]]
  /\ roster \in [Epoch -> [Node -> {"absent", "added", "started"}]]
  /\ born \in 0..MaxEpoch
  /\ faults \in 0..MaxFaults

LEMMA TypeParts == TypeOK <=> (ProcessOK /\ WorldOK)
  BY DEF TypeOK, ProcessOK, WorldOK, PcType

LEMMA DisturbType ==
  ASSUME TypeOK, NEW k, Disturb(k)
  PROVE  faults' \in 0..MaxFaults
  BY BoundAssumption DEF TypeOK, Disturb

LEMMA InitType == Init => TypeOK
<1> SUFFICES ASSUME Init PROVE TypeOK
  OBVIOUS
<1>1. WorldOK
  BY BoundAssumption, PgAssumption DEF Init, WorldOK, NotFounder
<1>2. ProcessOK
  <2>1. NoRun \in Locals
    BY CyclesAssumption DEF NoRun, Locals, Init
  <2>2. NoSamples \in [Node -> Sample]
    BY NoSampleType DEF NoSamples
  <2> QED
    BY <2>1, <2>2 DEF Init, ProcessOK, PcType
<1> QED
  BY <1>1, <1>2, TypeParts

(* The disturbances.                                                       *)
LEMMA EnvironmentType ==
  ASSUME TypeOK, NEW n \in Node, Environment(n)
  PROVE  TypeOK'
<1>1. CASE Boot(n)
  <2>1. WorldOK'
    BY <1>1, ViewsAssumption DEF Boot, TypeOK, WorldOK, disks
  <2>2. ProcessOK'
    BY <1>1 DEF Boot, TypeOK, ProcessOK, PcType, Locals
  <2> QED BY <2>1, <2>2, TypeParts, PTL
<1>2. CASE UpdateView(n)
  <2>1. WorldOK'
    BY <1>2, ViewsAssumption, DisturbType DEF UpdateView, TypeOK, WorldOK, disks
  <2>2. ProcessOK'
    BY <1>2 DEF UpdateView, TypeOK, ProcessOK, PcType, Locals, process
  <2> QED BY <2>1, <2>2, TypeParts, PTL
<1>3. CASE Stop(n)
  <2>1. WorldOK'
    BY <1>3, DisturbType DEF Stop, TypeOK, WorldOK, world, disks
  <2>2. ProcessOK'
    BY <1>3, HaltType DEF Stop, PcType, world
  <2> QED BY <2>1, <2>2, TypeParts, PTL
<1>4. CASE LosePg(n)
  <2>1. WorldOK'
    BY <1>4, DisturbType, NoSampleType DEF LosePg, TypeOK, WorldOK
  <2>2. ProcessOK'
    BY <1>4 DEF LosePg, TypeOK, ProcessOK, PcType, Locals, process
  <2> QED BY <2>1, <2>2, TypeParts, PTL
<1>5. CASE LoseEtcd(n)
  <2>1. WorldOK'
    BY <1>5, DisturbType, BoundAssumption DEF LoseEtcd, TypeOK, WorldOK, NotFounder
  <2>2. ProcessOK'
    BY <1>5 DEF LoseEtcd, TypeOK, ProcessOK, PcType, Locals, process
  <2> QED BY <2>1, <2>2, TypeParts, PTL
<1>6. CASE EtcdExit(n)
  <2>1. WorldOK'
    BY <1>6, DisturbType DEF EtcdExit, TypeOK, WorldOK, world, disks
  <2>2. ProcessOK'
    BY <1>6, HaltType DEF EtcdExit, Exit, PcType, world
  <2> QED BY <2>1, <2>2, TypeParts, PTL
<1>7. CASE PatroniFills(n)
  <2>0. PartialPg \in PgState
    BY DEF PartialPg, PgState
  <2>1. WorldOK'
    BY <1>7, <2>0, DisturbType DEF PatroniFills, TypeOK, WorldOK
  <2>2. ProcessOK'
    BY <1>7 DEF PatroniFills, TypeOK, ProcessOK, PcType, Locals, process
  <2> QED BY <2>1, <2>2, TypeParts, PTL
<1>8. CASE PatroniChanges(n)
  <2>1. WorldOK'
    BY <1>8, PgAssumption, DisturbType DEF PatroniChanges, TypeOK, WorldOK
  <2>2. ProcessOK'
    BY <1>8 DEF PatroniChanges, TypeOK, ProcessOK, PcType, Locals, process
  <2> QED BY <2>1, <2>2, TypeParts, PTL
<1>9. ASSUME NEW q \in Node, RemoveMember(q, n) PROVE TypeOK'
  <2>1. WorldOK'
    BY <1>9, DisturbType DEF RemoveMember, TypeOK, WorldOK, disks
  <2>2. ProcessOK'
    BY <1>9 DEF RemoveMember, TypeOK, ProcessOK, PcType, Locals, process
  <2> QED BY <2>1, <2>2, TypeParts, PTL
<1> QED
  BY <1>1, <1>2, <1>3, <1>4, <1>5, <1>6, <1>7, <1>8, <1>9 DEF Environment

(* etcd-start before it looks for peers, and while it does.                *)
LEMMA StartType ==
  ASSUME TypeOK, NEW n \in Node, Start(n)
  PROVE  TypeOK'
<1>1. CASE StartAlone(n)
  <2>1. WorldOK'
    BY <1>1 DEF StartAlone, Begin, TypeOK, WorldOK
  <2>2. ProcessOK'
    BY <1>1, NoRunType DEF StartAlone, Begin, TypeOK, ProcessOK, PcType, Locals
  <2> QED BY <2>1, <2>2, TypeParts, PTL
<1>2. CASE StartEmpty(n)
  <2>1. WorldOK'
    BY <1>2 DEF StartEmpty, Begin, TypeOK, WorldOK
  <2>2. ProcessOK'
    BY <1>2, NoRunType DEF StartEmpty, Begin, IsCandidate, TypeOK, ProcessOK, PcType, Locals
  <2> QED BY <2>1, <2>2, TypeParts, PTL
<1>3. ASSUME NEW p \in Node, StartKnown(n, p) PROVE TypeOK'
  <2>1. WorldOK'
    BY <1>3 DEF StartKnown, Begin, TypeOK, WorldOK
  <2>2. ProcessOK'
    BY <1>3, NoRunType DEF StartKnown, Begin, TypeOK, ProcessOK, PcType, Locals
  <2> QED BY <2>1, <2>2, TypeParts, PTL
<1>4. ASSUME NEW p \in Node, StartUnknown(n, p) PROVE TypeOK'
  <2>1. WorldOK'
    BY <1>4, BoundAssumption DEF StartUnknown, Begin, NotFounder, TypeOK, WorldOK
  <2>2. ProcessOK'
    BY <1>4, NoRunType DEF StartUnknown, Begin, IsCandidate, TypeOK, ProcessOK, PcType, Locals
  <2> QED BY <2>1, <2>2, TypeParts, PTL
<1> QED
  BY <1>1, <1>2, <1>3, <1>4 DEF Start

LEMMA JoinType ==
  ASSUME TypeOK, NEW n \in Node, Join(n)
  PROVE  TypeOK'
<1>1. CASE Reload(n)
  <2>1. WorldOK'
    BY <1>1 DEF Reload, world, disks, TypeOK, WorldOK
  <2>2. ProcessOK'
    BY <1>1 DEF Reload, world, TypeOK, ProcessOK, PcType, Locals
  <2> QED BY <2>1, <2>2, TypeParts, PTL
<1>2. CASE GiveUp(n)
  <2>1. WorldOK'
    BY <1>2 DEF GiveUp, world, disks, TypeOK, WorldOK
  <2>2. ProcessOK'
    BY <1>2, HaltType DEF GiveUp, Exit, world, TypeOK, ProcessOK, PcType, Locals
  <2> QED BY <2>1, <2>2, TypeParts, PTL
<1>3. CASE DecideOverride(n)
  <2>1. WorldOK'
    BY <1>3 DEF DecideOverride, Decide, world, disks, TypeOK, WorldOK
  <2>2. ProcessOK'
    BY <1>3 DEF DecideOverride, Decide, world, TypeOK, ProcessOK, PcType, Locals
  <2> QED BY <2>1, <2>2, TypeParts, PTL
<1>4. CASE DecideFresh(n)
  <2>1. WorldOK'
    BY <1>4 DEF DecideFresh, Decide, world, disks, TypeOK, WorldOK
  <2>2. ProcessOK'
    BY <1>4 DEF DecideFresh, Decide, world, TypeOK, ProcessOK, PcType, Locals
  <2> QED BY <2>1, <2>2, TypeParts, PTL
<1>5. CASE DecideRecover(n)
  <2>1. WorldOK'
    BY <1>5 DEF DecideRecover, Decide, world, disks, TypeOK, WorldOK
  <2>2. ProcessOK'
    BY <1>5 DEF DecideRecover, Decide, world, TypeOK, ProcessOK, PcType, Locals
  <2> QED BY <2>1, <2>2, TypeParts, PTL
<1>6. ASSUME NEW p \in Node, JoinPeer(n, p) PROVE TypeOK'
  <2>1. WorldOK'
    BY <1>6 DEF JoinPeer, disks, TypeOK, WorldOK
  <2>2. [run[n] EXCEPT !.target = epoch[p]] \in Locals
    BY LocalsUpdates DEF TypeOK
  <2>3. run' = [run EXCEPT ![n] = [run[n] EXCEPT !.target = epoch[p]]]
    BY <1>6 DEF JoinPeer
  <2>4. run' \in [Node -> Locals']
    BY <1>6, <2>2, <2>3 DEF JoinPeer, TypeOK, Locals
  <2>5. ProcessOK'
    BY <1>6, <2>4 DEF JoinPeer, TypeOK, ProcessOK, PcType
  <2> QED BY <2>1, <2>5, TypeParts, PTL
<1>7. ASSUME NEW p \in Node, JoinRefused(n, p) PROVE TypeOK'
  <2>1. WorldOK'
    <3>1. PICK entry \in {"absent", "added", roster[epoch[p]][n]} :
            roster' = [roster EXCEPT ![epoch[p]][n] = entry]
      BY <1>7 DEF JoinRefused
    <3>2. epoch[p] \in Epoch /\ roster' \in [Epoch -> [Node -> {"absent", "added", "started"}]]
      BY <1>7, <3>1, EpochRange DEF JoinRefused, EtcdUp, TypeOK
    <3>3. faults' \in 0..MaxFaults
      BY <1>7, BoundAssumption DEF JoinRefused, Disturb, TypeOK
    <3> QED BY <1>7, <3>2, <3>3 DEF JoinRefused, disks, TypeOK, WorldOK
  <2>2. [run[n] EXCEPT !.reached = TRUE] \in Locals
    BY LocalsUpdates DEF TypeOK
  <2>3. run' = [run EXCEPT ![n] = [run[n] EXCEPT !.reached = TRUE]]
    BY <1>7 DEF JoinRefused
  <2>4. run' \in [Node -> Locals']
    BY <1>7, <2>2, <2>3 DEF JoinRefused, TypeOK, Locals
  <2>5. ProcessOK'
    BY <1>7, <2>4 DEF JoinRefused, TypeOK, ProcessOK, PcType
  <2> QED BY <2>1, <2>5, TypeParts, PTL
<1> QED
  BY <1>1, <1>2, <1>3, <1>4, <1>5, <1>6, <1>7 DEF Join

(* The probe rounds.                                                       *)
LEMMA RoundType ==
  ASSUME TypeOK, NEW n \in Node, NEW a \in Nat, NEW sys \in Nat, NextRound(n, a, sys)
  PROVE  TypeOK'
<1>1. WorldOK'
  BY DEF NextRound, TypeOK, WorldOK, world, disks
<1>2. NoSamples \in [Node -> Sample]
  BY NoSampleType DEF NoSamples
<1>3. run[n].cycle + 1 \in 0..(Cycles - 1)
  BY CyclesAssumption DEF NextRound, TypeOK, Locals
<1>4. [run[n] EXCEPT !.cycle = run[n].cycle + 1, !.auth = a, !.sys = sys] \in Locals
  BY <1>3, LocalsUpdates DEF TypeOK
<1>5. run' = [run EXCEPT ![n] = [run[n] EXCEPT !.cycle = run[n].cycle + 1, !.auth = a, !.sys = sys]]
  BY DEF NextRound
<1>6. run' \in [Node -> Locals']
  BY <1>4, <1>5 DEF TypeOK, Locals, NextRound, world
<1>7. ProcessOK'
  BY <1>2, <1>6 DEF NextRound, TypeOK, ProcessOK, PcType
<1> QED
  BY <1>1, <1>7, TypeParts, PTL

LEMMA ConfirmedType ==
  ASSUME TypeOK, NEW n \in Node, NEW h \in ByEvidence, Confirmed(n, h)
  PROVE  TypeOK'
<1>1. WorldOK'
  BY DEF Confirmed, TypeOK, WorldOK, world, disks
<1>2. ProcessOK'
  BY DEF Confirmed, TypeOK, ProcessOK, PcType, Locals, ByEvidence, world
<1> QED
  BY <1>1, <1>2, TypeParts, PTL

LEMMA QuitType ==
  ASSUME TypeOK, NEW n \in Node, Exit(n), UNCHANGED <<world, faults>>
  PROVE  TypeOK'
<1>1. WorldOK'
  BY DEF TypeOK, WorldOK, world, disks
<1>2. ProcessOK'
  BY HaltType DEF Exit, PcType, world
<1> QED
  BY <1>1, <1>2, TypeParts, PTL

LEMMA EvidenceType ==
  ASSUME TypeOK, NEW n \in Node
  PROVE  Evidence(n) \in [Node -> Sample]
  BY DEF Evidence, LocalSample, OkSample, EtcdEmpty, Sample, TypeOK

LEMMA AuthorityType ==
  ASSUME TypeOK, NEW n \in Node,
         NEW a \in Authorities(Evidence(n), Electors(n), cfg[n])
  PROVE  a \in Nat /\ Evidence(n)[a].pg.sys \in Nat
<1>1. a \in Electors(n)
  BY DEF Authorities, DataNodes
<1>2. a \in Node
  BY <1>1 DEF Electors, TypeOK
<1>3. Evidence(n)[a] \in Sample
  BY <1>2, EvidenceType
<1> QED
  BY <1>2, <1>3, NodeAssumption DEF Sample, PgState

LEMMA ConfirmType ==
  ASSUME TypeOK, NEW n \in Node, Confirm(n)
  PROVE  TypeOK'
<1>1. CASE FreshRound(n)
  BY <1>1, RoundType, ConfirmedType, QuitType DEF FreshRound, ByEvidence
<1>2. CASE RecoverRound(n)
  <2>1. \A a \in Authorities(Evidence(n), Electors(n), cfg[n]) :
          a \in Nat /\ Evidence(n)[a].pg.sys \in Nat
    BY AuthorityType
  <2> QED
    BY <1>2, <2>1, RoundType, ConfirmedType, QuitType DEF RecoverRound, ByEvidence
<1>3. ASSUME NEW p \in Node, Probe(n, p) PROVE TypeOK'
  <2>1. WorldOK'
    BY <1>3 DEF Probe, world, disks, TypeOK, WorldOK
  <2>2. ProcessOK'
    BY <1>3, PeerSampleType DEF Probe, world, TypeOK, ProcessOK, PcType, Locals
  <2> QED BY <2>1, <2>2, TypeParts, PTL
<1>4. ASSUME NEW p \in Node, ProbeFails(n, p) PROVE TypeOK'
  <2>1. WorldOK'
    BY <1>4, DisturbType DEF ProbeFails, world, disks, TypeOK, WorldOK
  <2>2. ProcessOK'
    BY <1>4, NoSampleType DEF ProbeFails, world, TypeOK, ProcessOK, PcType, Locals
  <2> QED BY <2>1, <2>2, TypeParts, PTL
<1> QED
  BY <1>1, <1>2, <1>3, <1>4 DEF Confirm

(* exec.                                                                   *)
LEMMA ExecType ==
  ASSUME TypeOK, NEW n \in Node, Exec(n)
  PROVE  TypeOK'
<1>1. CASE FoundEpoch(n)
  <2>0. born \in Nat /\ 0..born \subseteq 0..(born + 1)
    BY BoundAssumption DEF TypeOK
  <2>3. epoch' \in [Node -> 0..born']
    BY <1>1, <2>0 DEF FoundEpoch, BecomeEtcd, TypeOK
  <2>4. /\ founded' \in [Node -> [view : SUBSET Node,
                          how : {"none", "fresh", "recover", "override"}]]
        /\ born' \in 0..MaxEpoch
    BY <1>1, BoundAssumption DEF FoundEpoch, TypeOK
  <2>5. roster' \in [Epoch -> [Node -> {"absent", "added", "started"}]]
    BY <1>1 DEF FoundEpoch, BecomeEtcd, TypeOK
  <2>1. WorldOK'
    BY <1>1, <2>3, <2>4, <2>5 DEF FoundEpoch, BecomeEtcd, TypeOK, WorldOK
  <2>2. ProcessOK'
    BY <1>1, HaltType DEF FoundEpoch, BecomeEtcd, PcType
  <2> QED BY <2>1, <2>2, TypeParts, PTL
<1>2. CASE JoinEpoch(n)
  <2>3. run[n].target \in 0..born
    BY DEF TypeOK, Locals
  <2>1. WorldOK'
    BY <1>2, <2>3 DEF JoinEpoch, BecomeEtcd, TypeOK, WorldOK
  <2>2. ProcessOK'
    BY <1>2, HaltType DEF JoinEpoch, BecomeEtcd, PcType
  <2> QED BY <2>1, <2>2, TypeParts, PTL
<1>3. CASE JoinEvicted(n)
  BY <1>3, QuitType DEF JoinEvicted
<1> QED
  BY <1>1, <1>2, <1>3 DEF Exec

(***************************************************************************)
(* Type correctness of the whole protocol: whatever the containers,        *)
(* volumes and views do, every etcd-start keeps its variables in range and *)
(* no disk or process refers to an epoch nobody founded.                   *)
(***************************************************************************)
THEOREM TypeCorrect == Spec => []TypeOK
<1>1. TypeOK /\ [Next]_vars => TypeOK'
  <2> SUFFICES ASSUME TypeOK, [Next]_vars PROVE TypeOK'
    OBVIOUS
  <2>1. CASE UNCHANGED vars
    <3>1. WorldOK'
      BY <2>1 DEF vars, TypeOK, WorldOK
    <3>2. ProcessOK'
      BY <2>1 DEF vars, TypeOK, ProcessOK, PcType, Locals
    <3> QED BY <3>1, <3>2, TypeParts, PTL
  <2>2. CASE Next
    BY <2>2, EnvironmentType, StartType, JoinType, ConfirmType, ExecType DEF Next
  <2> QED BY <2>1, <2>2
<1> QED
  BY InitType, <1>1, PTL DEF Spec

-----------------------------------------------------------------------------
(***************************************************************************)
(* The inductive invariant behind FoundingNeverForks.                      *)
(***************************************************************************)

(* n is confirming an authority, or has confirmed itself.                  *)
Recovering(n) == pc[n] = "recover" \/ Founding(n, "recover")

(* Only a process that decides holds samples.                              *)
SamplesAreRecent(n) ==
  \A p \in Node : seen[n][p].st = "ok" => pc[n] \in {"fresh", "recover", "exec"}

(* A fresh founder is empty itself, and has the evidence of its last round *)
(* in hand.                                                                *)
FreshReady(n) ==
  /\ pc[n] = "fresh" \/ Founding(n, "fresh") => pg[n].empty
  /\ Founding(n, "fresh") => FreshEvidence(seen[n], n, cfg[n])

(* A recovery founder is the authority of the evidence it has in hand.     *)
RecoverReady(n) ==
  /\ Recovering(n) => epoch[n] = 0
  /\ Founding(n, "recover") => n \in Authorities(Evidence(n), Electors(n), cfg[n])

(* Who founded an epoch has one, and who starts an etcd on an existing one *)
(* knows which.                                                            *)
FoundersHold(n) ==
  /\ founded[n].how # "none" => epoch[n] # 0
  /\ pc[n] = "exec" /\ plan[n] = "existing" => run[n].target # 0

(* What the invariant says of one node by itself.                          *)
Sound(n) ==
  SamplesAreRecent(n) /\ FreshReady(n) /\ RecoverReady(n) /\ FoundersHold(n)

(* A sample tells the truth about PGDATA as long as it is held, except for *)
(* a copy that has been lost since.                                        *)
SamplesHold ==
  \A m, p \in Node : seen[m][p].st = "ok" =>
    pg[p] = seen[m][p].pg \/ ~Readable(pg[p])

(* The heart: if x has founded on V, then a member y of V that is          *)
(* confirming on V, and asked x before x founded, has no readable copy or  *)
(* was outranked by x when x founded, and both copies are what they were.  *)
ElectedAt(x, y) ==
  \A h \in ByEvidence :
    (/\ x # y /\ x \in cfg[y] /\ y \in cfg[y]
     /\ Founder(x, cfg[y], h)
     /\ Recovering(y)
     /\ seen[y][x].st = "ok" /\ seen[y][x].etcdEmpty
     /\ Readable(pg[y]) /\ Readable(seen[y][x].pg))
    => h = "recover" /\ Outranks(x, seen[y][x].pg, y, pg[y])

Elected == \A x, y \in Node : ElectedAt(x, y)

IInv ==
  /\ TypeOK
  /\ \A n \in Node : Sound(n)
  /\ SamplesHold
  /\ Elected

-----------------------------------------------------------------------------
(* Every step is a step of one node.  What the invariant says of the       *)
(* others is kept, so that each action owes little more than Sound(n)'.    *)

OthersKeep(n) ==
  \A m \in Node \ {n} :
    /\ pg'[m] = pg[m] /\ stray'[m] = stray[m]
    /\ epoch'[m] = epoch[m] /\ founded'[m] = founded[m]
    /\ pc'[m] = pc[m] /\ cfg'[m] = cfg[m] /\ run'[m] = run[m]
    /\ seen'[m] = seen[m] /\ plan'[m] = plan[m]

(* A copy changes only where nobody has a sample of it, or it is lost.     *)
PgKept(n) ==
  \/ pg'[n] = pg[n] \/ ~Readable(pg'[n])
  \/ \A m \in Node : seen[m][n].st # "ok"

(* What n knows after the step it knew before, and used for the same.      *)
SamplesKept(n) ==
  \A p \in Node : seen'[n][p].st = "ok" =>
    /\ seen'[n][p] = seen[n][p] /\ cfg'[n] = cfg[n] /\ pg'[n] = pg[n]
    /\ Recovering(n)' => Recovering(n)

LEMMA OthersSound ==
  ASSUME IInv, NEW n \in Node, OthersKeep(n), NEW m \in Node, m # n
  PROVE  Sound(m)'
<1>1. /\ pg'[m] = pg[m] /\ stray'[m] = stray[m]
      /\ epoch'[m] = epoch[m] /\ founded'[m] = founded[m]
      /\ pc'[m] = pc[m] /\ cfg'[m] = cfg[m] /\ run'[m] = run[m]
      /\ seen'[m] = seen[m] /\ plan'[m] = plan[m]
  BY DEF OthersKeep
<1>2. Sound(m)
  BY DEF IInv
<1>3. SamplesAreRecent(m)' /\ FoundersHold(m)' /\ FreshReady(m)'
  BY <1>1, <1>2 DEF Sound, SamplesAreRecent, FoundersHold, FreshReady, Founding
<1>4. /\ Recovering(m)' = Recovering(m)
      /\ Founding(m, "recover")' = Founding(m, "recover")
      /\ Evidence(m)' = Evidence(m) /\ Electors(m)' = Electors(m)
  BY <1>1 DEF Recovering, Founding, Evidence, LocalSample, EtcdEmpty, Electors
<1>5. RecoverReady(m)'
  BY <1>1, <1>2, <1>4 DEF Sound, RecoverReady
<1> QED
  BY <1>3, <1>5 DEF Sound

LEMMA SamplesHoldKept ==
  ASSUME IInv, NEW n \in Node, OthersKeep(n), PgKept(n), SamplesKept(n)
  PROVE  SamplesHold'
<1> SUFFICES ASSUME NEW m \in Node, NEW p \in Node, seen'[m][p].st = "ok"
             PROVE  pg'[p] = seen'[m][p].pg \/ ~Readable(pg'[p])
  BY DEF SamplesHold
<1>1. seen'[m][p] = seen[m][p]
  BY DEF OthersKeep, SamplesKept
<1>2. pg[p] = seen[m][p].pg \/ ~Readable(pg[p])
  BY <1>1 DEF IInv, SamplesHold
<1>3. pg'[p] = pg[p] \/ ~Readable(pg'[p])
  BY <1>1 DEF OthersKeep, PgKept
<1> QED
  BY <1>1, <1>2, <1>3

(* Nobody founds by a step that leaves founded[n] alone or forgets it.     *)
LEMMA ElectedKept ==
  ASSUME IInv, NEW n \in Node, OthersKeep(n), SamplesKept(n),
         founded'[n] \in {founded[n], NotFounder}
  PROVE  Elected'
<1> SUFFICES ASSUME NEW x \in Node, NEW y \in Node, NEW h \in ByEvidence,
                    x # y, x \in cfg'[y], y \in cfg'[y],
                    founded'[x] = [view |-> cfg'[y], how |-> h],
                    Recovering(y)', seen'[y][x].st = "ok", seen'[y][x].etcdEmpty,
                    Readable(pg'[y]), Readable(seen'[y][x].pg)
             PROVE  h = "recover" /\ Outranks(x, seen'[y][x].pg, y, pg'[y])
  BY DEF Elected, ElectedAt, Founder
<1>1. seen'[y][x] = seen[y][x] /\ cfg'[y] = cfg[y] /\ pg'[y] = pg[y] /\ Recovering(y)
  BY DEF OthersKeep, SamplesKept, Recovering, Founding
<1>2. founded'[x] # NotFounder
  BY DEF NotFounder, ByEvidence
<1>3. founded[x] = founded'[x]
  BY <1>2 DEF OthersKeep
<1>4. ElectedAt(x, y)
  BY DEF IInv, Elected
<1> QED
  BY <1>1, <1>3, <1>4 DEF ElectedAt, Founder

LEMMA QuietKeeps ==
  ASSUME IInv, TypeOK', NEW n \in Node, OthersKeep(n), Sound(n)', PgKept(n),
         SamplesKept(n), founded'[n] \in {founded[n], NotFounder}
  PROVE  IInv'
<1>1. \A m \in Node : Sound(m)'
  BY OthersSound
<1> QED
  BY <1>1, SamplesHoldKept, ElectedKept DEF IInv

(* After most steps n has no samples and does not decide by evidence.      *)
Undecided(n) ==
  /\ \A p \in Node : seen[n][p].st # "ok"
  /\ pc[n] \notin ByEvidence
  /\ pc[n] = "exec" => plan[n] \notin ByEvidence

LEMMA UndecidedSound ==
  ASSUME NEW n \in Node, Undecided(n), FoundersHold(n)
  PROVE  Sound(n)
BY DEF Undecided, ByEvidence, Sound, SamplesAreRecent, FreshReady, RecoverReady, Recovering,
       Founding

LEMMA UndecidedKeeps ==
  ASSUME IInv, TypeOK', NEW n \in Node, OthersKeep(n), Undecided(n)', FoundersHold(n)',
         PgKept(n), founded'[n] \in {founded[n], NotFounder}
  PROVE  IInv'
<1>1. Sound(n)'
  BY UndecidedSound, PTL
<1>2. SamplesKept(n)
  BY DEF Undecided, SamplesKept
<1> QED
  BY <1>1, <1>2, QuietKeeps

(* A node that is not deciding has no samples.                             *)
LEMMA NoneInHand ==
  ASSUME IInv, NEW n \in Node, pc[n] \notin {"fresh", "recover", "exec"}
  PROVE  \A p \in Node : seen[n][p].st # "ok"
BY DEF IInv, Sound, SamplesAreRecent

LEMMA HaltKeeps ==
  ASSUME IInv, TypeOK', NEW n \in Node, NEW to \in {"off", "down"}, Halt(n, to),
         UNCHANGED disks
  PROVE  IInv'
<1>1. OthersKeep(n) /\ PgKept(n) /\ founded'[n] = founded[n]
  BY DEF Halt, disks, OthersKeep, PgKept
<1>2. pc'[n] = to /\ seen'[n] = NoSamples
  BY DEF Halt, IInv, TypeOK
<1>3. Undecided(n)'
  BY <1>2 DEF Undecided, ByEvidence, NoSamples, NoSample
<1>4. FoundersHold(n)'
  BY <1>2 DEF FoundersHold, disks, IInv, Sound
<1> QED
  BY <1>1, <1>3, <1>4, UndecidedKeeps

LEMMA EnvironmentKeeps ==
  ASSUME IInv, NEW n \in Node, Environment(n)
  PROVE  IInv'
<1>0. TypeOK' /\ FoundersHold(n)
  BY EnvironmentType DEF IInv, Sound
<1>1. CASE Boot(n)
  <2>1. UNCHANGED <<disks, cfg, run, seen, plan>> /\ pc' = [pc EXCEPT ![n] = "down"]
    BY <1>1 DEF Boot
  <2>2. OthersKeep(n) /\ PgKept(n) /\ founded'[n] = founded[n]
    BY <2>1 DEF disks, OthersKeep, PgKept
  <2>3. pc'[n] = "down" /\ \A p \in Node : seen'[n][p].st # "ok"
    BY <1>1, <2>1, NoneInHand DEF Boot, IInv, TypeOK
  <2>4. Undecided(n)' /\ FoundersHold(n)'
    BY <1>0, <2>1, <2>3 DEF Undecided, ByEvidence, FoundersHold, disks
  <2> QED
    BY <1>0, <2>2, <2>4, UndecidedKeeps
<1>2. CASE UpdateView(n) \/ \E q \in Node : RemoveMember(q, n)
  <2>1. UNCHANGED <<disks, process>>
    BY <1>2 DEF UpdateView, RemoveMember
  <2>2. OthersKeep(n) /\ PgKept(n) /\ SamplesKept(n) /\ founded'[n] = founded[n]
    BY <2>1 DEF disks, process, OthersKeep, PgKept, SamplesKept, Recovering, Founding
  <2>3. Sound(n)'
    BY <2>1 DEF IInv, disks, process, Sound, SamplesAreRecent, FreshReady, RecoverReady,
       FoundersHold, Recovering, Founding, Evidence, LocalSample, EtcdEmpty, Electors
  <2> QED
    BY <1>0, <2>2, <2>3, QuietKeeps
<1>3. CASE Stop(n) \/ EtcdExit(n)
  BY <1>0, <1>3, HaltKeeps DEF Stop, EtcdExit, Exit, world
<1>4. CASE LosePg(n) \/ PatroniFills(n) \/ PatroniChanges(n)
  <2>1. /\ pg' = [pg EXCEPT ![n] = pg'[n]]
        /\ UNCHANGED <<stray, epoch, founded, process>>
    BY <1>4 DEF LosePg, PatroniFills, PatroniChanges
  <2>2. pc[n] \notin {"fresh", "recover", "exec"}
    BY <1>4 DEF LosePg, PatroniFills, PatroniChanges, EtcdUp, Unobserved
  <2>3. PgKept(n)
    <3>1. CASE PatroniChanges(n)
      BY <3>1 DEF PatroniChanges, Unobserved, PgKept
    <3>2. CASE LosePg(n) \/ PatroniFills(n)
      <4>1. pg'[n] \in {EmptyPg, PartialPg}
        BY <3>2 DEF LosePg, PatroniFills, IInv, TypeOK
      <4>2. ~Readable(EmptyPg) /\ ~Readable(PartialPg)
        BY DEF Readable, EmptyPg, PartialPg
      <4> QED
        BY <4>1, <4>2 DEF PgKept
    <3> QED
      BY <1>4, <3>1, <3>2
  <2>4. OthersKeep(n)
    BY <2>1 DEF process, OthersKeep, IInv, TypeOK
  <2>5. Undecided(n)' /\ FoundersHold(n)'
    BY <1>0, <2>1, <2>2, NoneInHand DEF Undecided, ByEvidence, FoundersHold, process
  <2> QED
    BY <1>0, <2>1, <2>3, <2>4, <2>5, UndecidedKeeps
<1>5. CASE LoseEtcd(n)
  <2>1. /\ epoch' = [epoch EXCEPT ![n] = 0] /\ stray' = [stray EXCEPT ![n] = FALSE]
        /\ founded' = [founded EXCEPT ![n] = NotFounder]
        /\ UNCHANGED <<pg, process>> /\ pc[n] = "off"
    BY <1>5 DEF LoseEtcd
  <2>2. OthersKeep(n) /\ PgKept(n)
    BY <2>1 DEF process, OthersKeep, PgKept
  <2>3. founded'[n] = NotFounder
    BY <2>1 DEF IInv, TypeOK
  <2>4. Undecided(n)' /\ FoundersHold(n)'
    BY <2>1, <2>3, NoneInHand DEF Undecided, ByEvidence, FoundersHold, process, NotFounder
  <2> QED
    BY <1>0, <2>2, <2>3, <2>4, UndecidedKeeps
<1> QED
  BY <1>1, <1>2, <1>3, <1>4, <1>5 DEF Environment

LEMMA StartKeeps ==
  ASSUME IInv, NEW n \in Node, Start(n)
  PROVE  IInv'
<1>0. TypeOK' /\ FoundersHold(n)
  BY StartType DEF IInv, Sound
<1>1. \E to, action : Begin(n, to, action)
  BY DEF Start, StartAlone, StartEmpty, StartKnown, StartUnknown
<1>3. \A p \in Node : seen'[n][p].st # "ok"
  BY <1>1, NoneInHand DEF Begin
<1>4. CASE StartAlone(n) \/ \E p \in Node : StartKnown(n, p)
  <2>1. /\ pc' = [pc EXCEPT ![n] = "exec"] /\ plan' = [plan EXCEPT ![n] = "existing"]
        /\ run' = [run EXCEPT ![n] = [NoRun EXCEPT !.target = epoch[n]]]
        /\ UNCHANGED <<stray, epoch, founded>> /\ epoch[n] # 0
    BY <1>4 DEF StartAlone, StartKnown, Begin, DataPresent
  <2>2. pc'[n] = "exec" /\ plan'[n] = "existing" /\ run'[n].target = epoch[n]
    BY <2>1 DEF IInv, TypeOK, NoRun
  <2>3. OthersKeep(n) /\ PgKept(n)
    BY <1>1, <2>1 DEF Begin, OthersKeep, PgKept
  <2>4. Undecided(n)' /\ FoundersHold(n)'
    BY <1>3, <2>1, <2>2 DEF Undecided, ByEvidence, FoundersHold
  <2> QED
    BY <1>0, <2>1, <2>3, <2>4, UndecidedKeeps
<1>5. CASE StartEmpty(n)
  <2>1. UNCHANGED <<stray, epoch, founded, plan>> /\ pc' = [pc EXCEPT ![n] = "join"]
    BY <1>5 DEF StartEmpty, Begin
  <2>2. pc'[n] = "join"
    BY <2>1 DEF IInv, TypeOK
  <2>3. OthersKeep(n) /\ PgKept(n)
    BY <1>1, <2>1 DEF Begin, OthersKeep, PgKept
  <2>4. Undecided(n)' /\ FoundersHold(n)'
    BY <1>0, <1>3, <2>1, <2>2 DEF Undecided, ByEvidence, FoundersHold
  <2> QED
    BY <1>0, <2>1, <2>3, <2>4, UndecidedKeeps
<1>6. CASE \E p \in Node : StartUnknown(n, p)
  <2>1. /\ epoch' = [epoch EXCEPT ![n] = 0] /\ stray' = [stray EXCEPT ![n] = FALSE]
        /\ founded' = [founded EXCEPT ![n] = NotFounder]
        /\ UNCHANGED plan /\ pc' = [pc EXCEPT ![n] = "join"]
    BY <1>6 DEF StartUnknown, Begin
  <2>2. pc'[n] = "join" /\ founded'[n] = NotFounder
    BY <2>1 DEF IInv, TypeOK
  <2>3. OthersKeep(n) /\ PgKept(n)
    BY <1>1, <2>1 DEF Begin, OthersKeep, PgKept
  <2>4. Undecided(n)' /\ FoundersHold(n)'
    BY <1>3, <2>2 DEF Undecided, ByEvidence, FoundersHold, NotFounder
  <2> QED
    BY <1>0, <2>2, <2>3, <2>4, UndecidedKeeps
<1> QED
  BY <1>4, <1>5, <1>6 DEF Start

(* A process that leaves peer discovery has no samples yet.                *)
LEMMA DecideFrame ==
  ASSUME IInv, NEW n \in Node, NEW to \in PcType, NEW how, Decide(n, to, how)
  PROVE  /\ OthersKeep(n) /\ PgKept(n) /\ SamplesKept(n) /\ UNCHANGED disks
         /\ \A p \in Node : seen'[n][p].st # "ok"
         /\ pc'[n] = to /\ plan'[n] = how
<1>1. /\ pc' = [pc EXCEPT ![n] = to] /\ plan' = [plan EXCEPT ![n] = how]
      /\ UNCHANGED <<world, cfg, run, seen>> /\ pc[n] = "join"
  BY DEF Decide, NoPeerReachable
<1>2. \A p \in Node : seen'[n][p].st # "ok"
  BY <1>1, NoneInHand
<1>3. pc'[n] = to /\ plan'[n] = how
  BY <1>1 DEF IInv, TypeOK
<1>4. OthersKeep(n) /\ PgKept(n) /\ UNCHANGED disks
  BY <1>1 DEF world, disks, OthersKeep, PgKept
<1> QED
  BY <1>2, <1>3, <1>4 DEF SamplesKept

LEMMA JoinKeeps ==
  ASSUME IInv, NEW n \in Node, Join(n)
  PROVE  IInv'
<1>0. TypeOK' /\ FoundersHold(n)
  BY JoinType DEF IInv, Sound
<1>1. CASE Reload(n) \/ \E p \in Node : JoinRefused(n, p)
  <2>1. /\ cfg' = [cfg EXCEPT ![n] = view[n]] /\ UNCHANGED <<disks, pc, seen, plan>>
        /\ pc[n] = "join"
        /\ run' = [run EXCEPT ![n].reached = TRUE] \/ UNCHANGED run
    BY <1>1 DEF Reload, JoinRefused, world
  <2>2. OthersKeep(n) /\ PgKept(n) /\ founded'[n] = founded[n]
    BY <2>1 DEF disks, OthersKeep, PgKept, IInv, TypeOK
  <2>3. Undecided(n)' /\ FoundersHold(n)'
    BY <1>0, <2>1, NoneInHand DEF Undecided, ByEvidence, FoundersHold, disks
  <2> QED
    BY <1>0, <2>2, <2>3, UndecidedKeeps
<1>2. CASE GiveUp(n)
  BY <1>0, <1>2, HaltKeeps DEF GiveUp, Exit, world
<1>3. CASE DecideOverride(n)
  <2>1. Decide(n, "exec", "override") /\ "exec" \in PcType
    BY <1>3 DEF DecideOverride, PcType
  <2>2. /\ OthersKeep(n) /\ PgKept(n) /\ UNCHANGED disks
        /\ \A p \in Node : seen'[n][p].st # "ok"
        /\ pc'[n] = "exec" /\ plan'[n] = "override"
    BY <2>1, DecideFrame
  <2>3. Undecided(n)' /\ FoundersHold(n)'
    BY <1>0, <2>2 DEF Undecided, ByEvidence, FoundersHold, disks
  <2> QED
    BY <1>0, <2>2, <2>3, UndecidedKeeps DEF disks
<1>4. CASE DecideFresh(n) \/ DecideRecover(n)
  <2>1. PICK to \in ByEvidence : Decide(n, to, "none")
    BY <1>4 DEF DecideFresh, DecideRecover, ByEvidence
  <2>2. /\ OthersKeep(n) /\ PgKept(n) /\ SamplesKept(n) /\ UNCHANGED disks
        /\ \A p \in Node : seen'[n][p].st # "ok"
        /\ pc'[n] = to /\ plan'[n] = "none"
    BY <2>1, DecideFrame DEF PcType, ByEvidence
  <2>3. ~Founding(n, "fresh")' /\ ~Founding(n, "recover")'
    BY <2>2 DEF Founding
  <2>4. pc'[n] = "fresh" => pg'[n].empty
    BY <1>4, <2>2 DEF DecideFresh, MayBeFresh, DecideRecover, Decide, disks, IInv, TypeOK
  <2>5. pc'[n] = "recover" => epoch'[n] = 0
    BY <1>4, <2>2 DEF DecideFresh, DecideRecover, MayRecover, DataPresent, Decide, disks,
       IInv, TypeOK
  <2>6. FoundersHold(n)'
    BY <1>0, <2>2 DEF FoundersHold, disks
  <2>7. Sound(n)'
    BY <2>2, <2>3, <2>4, <2>5, <2>6
       DEF Sound, SamplesAreRecent, FreshReady, RecoverReady, Recovering
  <2> QED
    BY <1>0, <2>2, <2>7, QuietKeeps DEF disks
<1>5. ASSUME NEW p \in Node, JoinPeer(n, p) PROVE IInv'
  <2>1. /\ pc' = [pc EXCEPT ![n] = "exec"] /\ plan' = [plan EXCEPT ![n] = "existing"]
        /\ cfg' = [cfg EXCEPT ![n] = view[n]]
        /\ run' = [run EXCEPT ![n].target = epoch[p]]
        /\ UNCHANGED <<disks, seen>> /\ pc[n] = "join" /\ epoch[p] # 0
    BY <1>5 DEF JoinPeer, EtcdUp
  <2>2. pc'[n] = "exec" /\ plan'[n] = "existing" /\ run'[n].target = epoch[p]
    BY <2>1 DEF IInv, TypeOK, Locals
  <2>3. OthersKeep(n) /\ PgKept(n) /\ founded'[n] = founded[n]
    BY <2>1 DEF disks, OthersKeep, PgKept
  <2>4. Undecided(n)' /\ FoundersHold(n)'
    BY <1>0, <2>1, <2>2, NoneInHand DEF Undecided, ByEvidence, FoundersHold, disks
  <2> QED
    BY <1>0, <2>3, <2>4, UndecidedKeeps
<1> QED
  BY <1>1, <1>2, <1>3, <1>4, <1>5 DEF Join

(* The steps of a probe round.                                             *)
LEMMA RoundKeeps ==
  ASSUME IInv, NEW n \in Node, NEW a \in Nat, NEW sys \in Nat, Confirming(n),
         NextRound(n, a, sys)
  PROVE  IInv'
<1>0. TypeOK' /\ Sound(n)
  BY RoundType DEF IInv
<1>1. seen'[n] = NoSamples
  BY DEF NextRound, IInv, TypeOK
<1>2. OthersKeep(n) /\ PgKept(n)
  BY DEF NextRound, world, disks, OthersKeep, PgKept, IInv, TypeOK
<1>3. SamplesKept(n)
  BY <1>1 DEF SamplesKept, NoSamples, NoSample
<1>4. UNCHANGED <<pg, epoch, founded, pc, plan>> /\ pc[n] # "exec"
  BY DEF NextRound, world, disks, Confirming
<1>5. Sound(n)'
  BY <1>0, <1>1, <1>4 DEF Sound, SamplesAreRecent, FreshReady, RecoverReady, FoundersHold,
     Recovering, Founding, NoSamples, NoSample
<1> QED
  BY <1>0, <1>2, <1>3, <1>4, <1>5, QuietKeeps

LEMMA QuitKeeps ==
  ASSUME IInv, NEW n \in Node, Exit(n), UNCHANGED <<world, faults>>
  PROVE  IInv'
BY QuitType, HaltKeeps DEF IInv, Exit, world

(* Only the evidence of the last round lets a process reach exec.          *)
LEMMA ConfirmedFrame ==
  ASSUME IInv, NEW n \in Node, NEW h \in ByEvidence, pc[n] = h, Confirmed(n, h)
  PROVE  /\ TypeOK' /\ OthersKeep(n) /\ PgKept(n) /\ SamplesKept(n)
         /\ pc'[n] = "exec" /\ plan'[n] = h
         /\ UNCHANGED <<pg, stray, epoch, founded, cfg, run, seen>>
<1>1. TypeOK'
  BY ConfirmedType DEF IInv
<1>2. UNCHANGED <<pg, stray, epoch, founded, cfg, run, seen>>
  BY DEF Confirmed, world, disks
<1>3. pc'[n] = "exec" /\ plan'[n] = h
  BY DEF Confirmed, IInv, TypeOK
<1>4. OthersKeep(n) /\ PgKept(n)
  BY <1>2 DEF Confirmed, OthersKeep, PgKept
<1>5. SamplesKept(n)
  BY <1>2, <1>3 DEF SamplesKept, Recovering, Founding, ByEvidence
<1> QED
  BY <1>1, <1>2, <1>3, <1>4, <1>5

LEMMA FreshConfirmedKeeps ==
  ASSUME IInv, NEW n \in Node, pc[n] = "fresh", Confirmed(n, "fresh"),
         FreshEvidence(seen[n], n, cfg[n])
  PROVE  IInv'
<1>1. /\ TypeOK' /\ OthersKeep(n) /\ PgKept(n) /\ SamplesKept(n)
      /\ pc'[n] = "exec" /\ plan'[n] = "fresh"
      /\ UNCHANGED <<pg, stray, epoch, founded, cfg, run, seen>>
  BY ConfirmedFrame DEF ByEvidence
<1>2. Sound(n)
  BY DEF IInv
<1>3. Sound(n)'
  BY <1>1, <1>2 DEF Sound, SamplesAreRecent, FreshReady, RecoverReady, FoundersHold,
     Recovering, Founding
<1> QED
  BY <1>1, <1>3, QuietKeeps

LEMMA RecoverConfirmedKeeps ==
  ASSUME IInv, NEW n \in Node, pc[n] = "recover", Confirmed(n, "recover"),
         n \in Authorities(Evidence(n), Electors(n), cfg[n])
  PROVE  IInv'
<1>1. /\ TypeOK' /\ OthersKeep(n) /\ PgKept(n) /\ SamplesKept(n)
      /\ pc'[n] = "exec" /\ plan'[n] = "recover"
      /\ UNCHANGED <<pg, stray, epoch, founded, cfg, run, seen>>
  BY ConfirmedFrame DEF ByEvidence
<1>2. Sound(n)
  BY DEF IInv
<1>3. Evidence(n)' = Evidence(n) /\ Electors(n)' = Electors(n)
  BY <1>1 DEF Evidence, LocalSample, EtcdEmpty, Electors
<1>4. RecoverReady(n)'
  BY <1>1, <1>2, <1>3 DEF Sound, RecoverReady, Recovering
<1>5. Sound(n)'
  BY <1>1, <1>2, <1>4 DEF Sound, SamplesAreRecent, FreshReady, FoundersHold, Founding
<1> QED
  BY <1>1, <1>5, QuietKeeps

(* What a probe leaves alone, whatever the answer.                         *)
LEMMA AnswerFrame ==
  ASSUME IInv, NEW n \in Node, NEW p \in Node, NEW s, Confirming(n),
         seen' = [seen EXCEPT ![n][p] = s], UNCHANGED <<world, pc, cfg, run, plan>>
  PROVE  /\ OthersKeep(n) /\ PgKept(n) /\ Sound(n)'
         /\ seen'[n][p] = s
         /\ \A x \in Node \ {p} : seen'[n][x] = seen[n][x]
         /\ UNCHANGED <<pg, stray, epoch, founded, pc, cfg, run, plan>>
<1>1. UNCHANGED <<pg, stray, epoch, founded, pc, cfg, run, plan>>
  BY DEF world, disks
<1>2. seen'[n][p] = s /\ \A x \in Node \ {p} : seen'[n][x] = seen[n][x]
  BY DEF IInv, TypeOK
<1>3. OthersKeep(n) /\ PgKept(n)
  BY <1>1 DEF OthersKeep, PgKept
<1>4. Sound(n)
  BY DEF IInv
<1>5. Sound(n)'
  BY <1>1, <1>4 DEF Confirming, Sound, SamplesAreRecent, FreshReady, RecoverReady,
     FoundersHold, Recovering, Founding
<1> QED
  BY <1>1, <1>2, <1>3, <1>5

LEMMA ProbeKeeps ==
  ASSUME IInv, NEW n \in Node, NEW p \in Node, Probe(n, p)
  PROVE  IInv'
<1>0. TypeOK'
  BY ConfirmType DEF Confirm, IInv
<1>1. /\ OthersKeep(n) /\ PgKept(n) /\ Sound(n)'
      /\ seen'[n][p] = PeerSample(p)
      /\ \A x \in Node \ {p} : seen'[n][x] = seen[n][x]
      /\ UNCHANGED <<pg, stray, epoch, founded, pc, cfg, run, plan>>
  BY AnswerFrame DEF Probe
<1>2. \A m \in Node : Sound(m)'
  BY <1>1, OthersSound
<1>3. \A m, x \in Node : m # n \/ x # p => seen'[m][x] = seen[m][x]
  BY <1>1 DEF OthersKeep
<1>4. SamplesHold'
  <2>1. seen'[n][p].pg = pg[p]
    BY <1>1 DEF PeerSample, OkSample
  <2> QED
    BY <1>1, <1>3, <2>1 DEF IInv, SamplesHold
<1>5. Elected'
  (* A founder reports etcd data: the new sample is not of that kind.      *)
  <2>1. \A V : \A h \in ByEvidence : Founder(p, V, h) => ~seen'[n][p].etcdEmpty
    <3>1. FoundersHold(p)
      BY DEF IInv, Sound
    <3>2. epoch[p] # 0 => EtcdEmpty(p) = FALSE
      BY DEF EtcdEmpty
    <3>3. seen'[n][p].etcdEmpty = EtcdEmpty(p)
      BY <1>1 DEF PeerSample, OkSample
    <3> QED
      BY <3>1, <3>2, <3>3 DEF FoundersHold, Founder, ByEvidence
  <2>2. ASSUME NEW x \in Node, NEW y \in Node PROVE ElectedAt(x, y)'
    <3>1. CASE y = n /\ x = p
      BY <1>1, <2>1, <3>1 DEF ElectedAt, Founder
    <3>2. CASE y # n \/ x # p
      <4>1. seen'[y][x] = seen[y][x] /\ ElectedAt(x, y)
        BY <1>3, <3>2 DEF IInv, Elected
      <4> QED
        BY <1>1, <4>1 DEF ElectedAt, Founder, Recovering, Founding
    <3> QED
      BY <3>1, <3>2
  <2> QED
    BY <2>2 DEF Elected
<1> QED
  BY <1>0, <1>2, <1>4, <1>5 DEF IInv

LEMMA ProbeFailsKeeps ==
  ASSUME IInv, NEW n \in Node, NEW p \in Node, ProbeFails(n, p)
  PROVE  IInv'
<1>0. TypeOK'
  BY ConfirmType DEF Confirm, IInv
<1>1. /\ OthersKeep(n) /\ PgKept(n) /\ Sound(n)'
      /\ seen'[n][p] = ErrSample
      /\ \A x \in Node \ {p} : seen'[n][x] = seen[n][x]
      /\ UNCHANGED <<pg, stray, epoch, founded, pc, cfg, run, plan>>
  BY AnswerFrame DEF ProbeFails
<1>2. SamplesKept(n)
  BY <1>1 DEF SamplesKept, ErrSample, Recovering, Founding
<1> QED
  BY <1>0, <1>1, <1>2, QuietKeeps

LEMMA ConfirmKeeps ==
  ASSUME IInv, NEW n \in Node, Confirm(n)
  PROVE  IInv'
<1> USE DEF IInv
<1>1. CASE FreshRound(n)
  BY <1>1, RoundKeeps, FreshConfirmedKeeps, QuitKeeps DEF FreshRound, Confirming
<1>2. CASE RecoverRound(n)
  <2> DEFINE auths == Authorities(Evidence(n), Electors(n), cfg[n])
  <2>1. \A a \in auths : a \in Nat /\ Evidence(n)[a].pg.sys \in Nat
    BY AuthorityType
  <2>2. CASE \E a \in auths : NextRound(n, a, Evidence(n)[a].pg.sys)
    BY <1>2, <2>1, <2>2, RoundKeeps DEF RecoverRound, Confirming
  <2>3. CASE n \in auths /\ Confirmed(n, "recover")
    BY <1>2, <2>3, RecoverConfirmedKeeps DEF RecoverRound
  <2>4. CASE Exit(n) /\ UNCHANGED <<world, faults>>
    BY <2>4, QuitKeeps
  <2> QED
    BY <1>2, <2>2, <2>3, <2>4 DEF RecoverRound
<1>3. ASSUME NEW p \in Node, Probe(n, p) \/ ProbeFails(n, p) PROVE IInv'
  BY <1>3, ProbeKeeps, ProbeFailsKeeps
<1> QED
  BY <1>1, <1>2, <1>3 DEF Confirm

-----------------------------------------------------------------------------
(* Founding.  The evidence in the founder's hand is about the others as    *)
(* they still are, so it settles what anyone else may conclude from an     *)
(* answer given before.                                                    *)

(* Nobody on the view of a fresh founder has a readable copy.              *)
LEMMA FreshMeansNoData ==
  ASSUME IInv, NEW n \in Node, Founding(n, "fresh"), NEW y \in cfg[n]
  PROVE  ~Readable(pg[y])
<1>1. y \in Node
  BY DEF IInv, TypeOK
<1>2. CASE y = n
  BY <1>2 DEF IInv, Sound, FreshReady, Readable
<1>3. CASE y # n
  <2>1. seen[n][y].st = "ok" /\ seen[n][y].pg.empty
    BY <1>3 DEF IInv, Sound, FreshReady, FreshEvidence
  <2> QED
    BY <1>1, <2>1 DEF IInv, SamplesHold, Readable
<1> QED
  BY <1>2, <1>3

(* A recovery founder outranks every readable copy on its view, by what    *)
(* the holder answered, which is what the holder still has.                *)
LEMMA RecoverOutranks ==
  ASSUME IInv, NEW n \in Node, Founding(n, "recover"),
         NEW y \in cfg[n], y # n, Readable(pg[y])
  PROVE  /\ Readable(pg[n])
         /\ seen[n][y].st = "ok" /\ seen[n][y].etcdEmpty
         /\ seen[n][y].pg = pg[y]
         /\ Outranks(n, pg[n], y, pg[y])
<1> DEFINE ev == Evidence(n)
           S == Electors(n)
<1>1. y \in Node /\ y \in S /\ n \in S
  BY DEF IInv, TypeOK, Electors
<1>2. n \in Authorities(ev, S, cfg[n])
  BY DEF IInv, Sound, RecoverReady
<1>3. ev[n].pg = pg[n] /\ ev[y] = seen[n][y]
  BY <1>1 DEF Evidence, LocalSample, OkSample, IInv, TypeOK
<1>4. seen[n][y].st = "ok"
  BY <1>1, <1>2, <1>3 DEF Authorities, Consistent
<1>5. seen[n][y].pg = pg[y]
  BY <1>1, <1>4 DEF IInv, SamplesHold
<1>6. y \in DataNodes(ev, S)
  BY <1>1, <1>3, <1>5 DEF DataNodes, Readable
<1>7. /\ \A q \in S : ev[q].etcdEmpty
      /\ Outranks(n, ev[n].pg, y, ev[y].pg)
  BY <1>2, <1>6 DEF Authorities
<1>8. Readable(pg[n])
  BY <1>1, <1>2, <1>3 DEF Authorities, Consistent, DataNodes, Readable
<1> QED
  BY <1>1, <1>3, <1>4, <1>5, <1>7, <1>8

(* What a process leaves behind that becomes etcd.                         *)
LEMMA BecomeFrame ==
  ASSUME IInv, NEW n \in Node, NEW e, BecomeEtcd(n, e),
         \A m \in Node \ {n} : founded'[m] = founded[m]
  PROVE  /\ OthersKeep(n) /\ PgKept(n) /\ Undecided(n)'
         /\ pc'[n] = "up" /\ epoch'[n] = e
<1>1. OthersKeep(n) /\ PgKept(n)
  BY DEF BecomeEtcd, Halt, OthersKeep, PgKept, IInv, TypeOK
<1>2. pc'[n] = "up" /\ seen'[n] = NoSamples /\ epoch'[n] = e
  BY DEF BecomeEtcd, Halt, IInv, TypeOK
<1>3. Undecided(n)'
  BY <1>2 DEF Undecided, ByEvidence, NoSamples, NoSample
<1> QED
  BY <1>1, <1>2, <1>3

LEMMA FoundKeeps ==
  ASSUME IInv, NEW n \in Node, FoundEpoch(n)
  PROVE  IInv'
<1>0. TypeOK'
  BY ExecType DEF Exec, IInv
<1>1. founded' = [founded EXCEPT ![n] = [view |-> cfg[n], how |-> plan[n]]]
  BY DEF FoundEpoch
<1>2. /\ founded'[n] = [view |-> cfg[n], how |-> plan[n]]
      /\ \A m \in Node \ {n} : founded'[m] = founded[m]
  BY <1>1 DEF IInv, TypeOK
<1>3. /\ OthersKeep(n) /\ PgKept(n) /\ Undecided(n)'
      /\ pc'[n] = "up" /\ epoch'[n] = born + 1
  BY <1>2, BecomeFrame DEF FoundEpoch
<1>4. Sound(n)'
  <2>1. born + 1 # 0
    BY BoundAssumption DEF IInv, TypeOK
  <2>2. FoundersHold(n)'
    BY <1>3, <2>1 DEF FoundersHold
  <2> QED
    BY <1>3, <2>2, UndecidedSound, PTL
<1>5. \A m \in Node : Sound(m)'
  BY <1>3, <1>4, OthersSound
<1>6. SamplesKept(n)
  BY <1>3 DEF Undecided, SamplesKept
<1>7. SamplesHold'
  BY <1>3, <1>6, SamplesHoldKept
(* Only what others may conclude from n's earlier answers is new.          *)
<1>8. ASSUME NEW x \in Node, NEW y \in Node, NEW h \in ByEvidence,
             x # y, x \in cfg'[y], y \in cfg'[y],
             founded'[x] = [view |-> cfg'[y], how |-> h],
             Recovering(y)', seen'[y][x].st = "ok", seen'[y][x].etcdEmpty,
             Readable(pg'[y]), Readable(seen'[y][x].pg)
      PROVE  h = "recover" /\ Outranks(x, seen'[y][x].pg, y, pg'[y])
  <2>1. y # n
    BY <1>3, <1>8 DEF Undecided
  <2>2. /\ seen'[y] = seen[y] /\ cfg'[y] = cfg[y] /\ pg'[y] = pg[y]
        /\ Recovering(y)
    BY <1>3, <1>8, <2>1 DEF OthersKeep, Recovering, Founding
  <2>3. CASE x # n
    <3>1. founded'[x] = founded[x] /\ ElectedAt(x, y)
      BY <1>2, <2>3 DEF IInv, Elected
    <3> QED
      BY <1>8, <2>2, <3>1 DEF ElectedAt, Founder
  <2>4. CASE x = n
    <3>1. cfg[y] = cfg[n] /\ Founding(n, h)
      BY <1>2, <1>8, <2>2, <2>4 DEF FoundEpoch, Founding
    <3>2. y \in cfg[n] /\ Readable(pg[y]) /\ seen[y][n].st = "ok"
      BY <1>8, <2>2, <2>4, <3>1
    <3>3. h = "recover"
      BY <1>8, <3>1, <3>2, FreshMeansNoData DEF ByEvidence
    <3>4. Readable(pg[n]) /\ Outranks(n, pg[n], y, pg[y])
      BY <2>1, <3>1, <3>2, <3>3, RecoverOutranks
    <3>5. pg[n] = seen[y][n].pg
      BY <3>2, <3>4 DEF IInv, SamplesHold
    <3> QED
      BY <2>2, <2>4, <3>3, <3>4, <3>5
  <2> QED
    BY <2>3, <2>4
<1>9. Elected'
  BY <1>8 DEF Elected, ElectedAt, Founder
<1> QED
  BY <1>0, <1>5, <1>7, <1>9 DEF IInv

LEMMA ExecKeeps ==
  ASSUME IInv, NEW n \in Node, Exec(n)
  PROVE  IInv'
<1>1. CASE FoundEpoch(n)
  BY <1>1, FoundKeeps
<1>2. CASE JoinEpoch(n)
  <2>0. TypeOK'
    BY ExecType DEF IInv
  <2>1. run[n].target # 0 /\ UNCHANGED founded
    BY <1>2 DEF JoinEpoch, IInv, Sound, FoundersHold
  <2>2. /\ OthersKeep(n) /\ PgKept(n) /\ Undecided(n)'
        /\ pc'[n] = "up" /\ epoch'[n] = run[n].target
    BY <1>2, <2>1, BecomeFrame DEF JoinEpoch
  <2>3. FoundersHold(n)'
    BY <2>1, <2>2 DEF FoundersHold
  <2> QED
    BY <2>0, <2>1, <2>2, <2>3, UndecidedKeeps
<1>3. CASE JoinEvicted(n)
  BY <1>3, QuitKeeps DEF JoinEvicted
<1> QED
  BY <1>1, <1>2, <1>3 DEF Exec

-----------------------------------------------------------------------------
LEMMA InitIInv == Init => IInv
<1> SUFFICES ASSUME Init PROVE IInv
  OBVIOUS
<1>1. TypeOK
  BY InitType
<1>2. ASSUME NEW n \in Node PROVE Sound(n)
  <2>1. Undecided(n) /\ FoundersHold(n)
    BY DEF Init, Undecided, ByEvidence, FoundersHold, NoSamples, NoSample, NotFounder
  <2> QED
    BY <2>1, UndecidedSound
<1>3. SamplesHold /\ Elected
  BY DEF Init, SamplesHold, Elected, ElectedAt, NoSamples, NoSample
<1> QED
  BY <1>1, <1>2, <1>3 DEF IInv

LEMMA StutterKeeps ==
  ASSUME IInv, UNCHANGED vars
  PROVE  IInv'
<1>1. TypeOK'
  BY DEF IInv, TypeOK, vars, Locals
<1>2. ASSUME NEW n \in Node PROVE Sound(n)'
  <2>1. Sound(n)
    BY DEF IInv
  <2> QED
    BY <2>1 DEF vars, Sound, SamplesAreRecent, FreshReady, RecoverReady, FoundersHold,
       Recovering, Founding, Evidence, LocalSample, EtcdEmpty, Electors
<1>3. SamplesHold' /\ Elected'
  BY DEF IInv, vars, SamplesHold, Elected, ElectedAt, Recovering, Founding, Founder
<1> QED
  BY <1>1, <1>2, <1>3 DEF IInv

THEOREM Inductive == Spec => []IInv
<1>1. IInv /\ [Next]_vars => IInv'
  BY EnvironmentKeeps, StartKeeps, JoinKeeps, ConfirmKeeps, ExecKeeps, StutterKeeps DEF Next
<1> QED
  BY InitIInv, <1>1, PTL DEF Spec

(* Of two nodes at most one outranks the other.                            *)
LEMMA OutranksAntisymmetric ==
  ASSUME NEW a \in Node, NEW b \in Node, NEW da \in PgState, NEW db \in PgState,
         Outranks(a, da, b, db), Outranks(b, db, a, da)
  PROVE  FALSE
<1>1. a \in Nat /\ b \in Nat /\ da.lsn \in Nat /\ db.lsn \in Nat
  BY NodeAssumption DEF PgState
<1>2. da.role = "replica" /\ db.role = "replica"
  BY DEF Outranks
<1>3. da.lsn > db.lsn \/ (da.lsn = db.lsn /\ a < b)
  BY <1>2 DEF Outranks
<1>4. db.lsn > da.lsn \/ (db.lsn = da.lsn /\ b < a)
  BY <1>2 DEF Outranks
<1> QED
  BY <1>1, <1>3, <1>4

(***************************************************************************)
(* No fresh epoch, whose PostgreSQL cluster initdb will create, is founded *)
(* while an expected member holds a readable copy.                         *)
(***************************************************************************)
THEOREM FreshNeverOverDataHolds == Spec => []FreshNeverOverData
<1>1. IInv => FreshNeverOverData
  BY FreshMeansNoData DEF FreshNeverOverData
<1> QED
  BY <1>1, Inductive, PTL

(***************************************************************************)
(* A recovery founder discards no copy that an expected member holds.      *)
(***************************************************************************)
THEOREM RecoveryKeepsBestCopyHolds == Spec => []RecoveryKeepsBestCopy
<1>1. ASSUME IInv, NEW n \in Node, Founding(n, "recover"),
             NEW x \in cfg[n] \ {n}, Readable(pg[x])
      PROVE  ~Discards(pg[n], pg[x])
  <2>1. Outranks(n, pg[n], x, pg[x])
    BY <1>1, RecoverOutranks
  <2>2. x \in Node
    BY <1>1 DEF IInv, TypeOK
  <2>3. pg[n].lsn \in Nat /\ pg[x].lsn \in Nat
    <3>1. pg[n] \in PgState /\ pg[x] \in PgState
      BY <2>2, <1>1 DEF IInv, TypeOK
    <3> QED
      BY <3>1 DEF PgState
  <2>4. pg[n].role = "replica" =>
          pg[n].tl = pg[x].tl /\ ~(pg[n].lsn < pg[x].lsn)
    BY <2>1, <2>3 DEF Outranks
  <2> QED
    BY <2>1, <2>4 DEF Outranks, Discards
<1>2. IInv => RecoveryKeepsBestCopy
  BY <1>1 DEF RecoveryKeepsBestCopy
<1> QED
  BY <1>2, Inductive, PTL

(* Foundings by evidence never fork a view: in a state of the invariant.   *)
LEMMA NeverForks ==
  ASSUME IInv
  PROVE  FoundingNeverForks
<1>1. ASSUME NEW n \in Node, NEW h \in ByEvidence, Founding(n, h), n \in cfg[n],
             NEW x \in cfg[n] \ {n}, NEW g \in ByEvidence,
             Founder(x, cfg[n], g), Readable(pg[x])
      PROVE  FALSE
  <2>1. x \in Node
    BY <1>1 DEF IInv, TypeOK
  <2>2. CASE h = "fresh"
    BY <1>1, <2>2, FreshMeansNoData
  <2>3. CASE h = "recover"
    <3>1. /\ Readable(pg[n])
          /\ seen[n][x].st = "ok" /\ seen[n][x].etcdEmpty
          /\ seen[n][x].pg = pg[x]
          /\ Outranks(n, pg[n], x, pg[x])
      BY <1>1, <2>3, RecoverOutranks
    <3>2. Outranks(x, pg[x], n, pg[n])
      BY <1>1, <2>1, <2>3, <3>1 DEF IInv, Elected, ElectedAt, Recovering
    <3>3. pg[n] \in PgState /\ pg[x] \in PgState
      BY <1>1, <2>1 DEF IInv, TypeOK
    <3> QED
      BY <2>1, <3>1, <3>2, <3>3, OutranksAntisymmetric
  <2> QED
    BY <1>1, <2>2, <2>3 DEF ByEvidence
<1> QED
  BY <1>1 DEF FoundingNeverForks

(* No founding ever forks, whatever the nodes read and whenever they act   *)
(* (evaluateFreshPeerEvidence, evaluateRecoveryAuthority).                    *)
THEOREM FoundingNeverForksHolds == Spec => []FoundingNeverForks
<1> QED
  BY NeverForks, Inductive, PTL

-----------------------------------------------------------------------------
(***************************************************************************)
(* The refinement of AtomicFounding.  It needs to know of a running        *)
(* etcd-start, besides the evidence: until it runs an epoch it has no etcd *)
(* data but that of this epoch, and it founds for what it was asked to.    *)
(***************************************************************************)
FitAt(n) ==
  /\ pc[n] \in {"join", "fresh", "recover"} => epoch[n] = 0
  /\ pc[n] = "fresh" => n \in cfg[n]
  /\ pc[n] = "exec" =>
       /\ plan[n] # "existing" => epoch[n] = 0
       /\ plan[n] = "existing" => epoch[n] \in {0, run[n].target}
       /\ plan[n] = "fresh" => n \in cfg[n]
       /\ plan[n] = "override" => n \in AllowNew

FoundInv == IInv /\ \A n \in Node : FitAt(n)

(* What a step that neither founds nor joins does: it changes one node.    *)
OneNode(n) ==
  /\ \A m \in Node \ {n} :
       /\ pc'[m] = pc[m] /\ plan'[m] = plan[m] /\ cfg'[m] = cfg[m]
       /\ run'[m] = run[m] /\ epoch'[m] = epoch[m]
  /\ FitAt(n)'
  /\ Atomic!Lose(n) \/ Atomic!Change(n) \/ UNCHANGED <<pg, epoch, founded, born>>

LEMMA HaltOneNode ==
  ASSUME TypeOK, NEW n \in Node, NEW to \in {"off", "down", "up"}, Halt(n, to),
         UNCHANGED <<pg, epoch, founded, born>>
  PROVE  OneNode(n)
  BY DEF Halt, OneNode, FitAt, TypeOK

LEMMA EnvironmentOneNode ==
  ASSUME FoundInv, NEW n \in Node, Environment(n)
  PROVE  OneNode(n)
<1> USE DEF FoundInv, IInv, TypeOK
<1>1. CASE Boot(n)
  BY <1>1 DEF Boot, disks, OneNode, FitAt
<1>2. CASE UpdateView(n)
  BY <1>2 DEF UpdateView, disks, process, OneNode, FitAt
<1>3. CASE Stop(n) \/ EtcdExit(n)
  BY <1>3, HaltOneNode DEF Stop, EtcdExit, Exit, world, disks
<1>4. CASE LosePg(n) \/ PatroniFills(n) \/ PatroniChanges(n)
  <2>1. UNCHANGED <<epoch, founded, born, pc, cfg, run, plan>>
    BY <1>4 DEF LosePg, PatroniFills, PatroniChanges, process
  <2>2. pg' = [pg EXCEPT ![n] = pg'[n]]
    BY <1>4 DEF LosePg, PatroniFills, PatroniChanges
  <2> QED
    BY <2>1, <2>2 DEF OneNode, FitAt, Atomic!Change
<1>5. CASE LoseEtcd(n)
  <2>1. Atomic!Lose(n)
    BY <1>5 DEF LoseEtcd, Atomic!Lose, NotFounder, Atomic!NotFounder
  <2>2. UNCHANGED <<pc, cfg, run, plan>> /\ pc[n] = "off"
    BY <1>5 DEF LoseEtcd, process
  <2> QED
    BY <2>1, <2>2 DEF OneNode, FitAt, Atomic!Lose
<1>6. ASSUME NEW q \in Node, RemoveMember(q, n) PROVE OneNode(n)
  BY <1>6 DEF RemoveMember, disks, process, OneNode, FitAt
<1> QED
  BY <1>1, <1>2, <1>3, <1>4, <1>5, <1>6 DEF Environment

LEMMA StartOneNode ==
  ASSUME FoundInv, NEW n \in Node, Start(n)
  PROVE  OneNode(n)
<1> USE DEF FoundInv, IInv, TypeOK
<1>1. ASSUME NEW p \in Node, StartKnown(n, p) \/ StartAlone(n) PROVE OneNode(n)
  BY <1>1 DEF StartKnown, StartAlone, Begin, NoRun, OneNode, FitAt
<1>2. ASSUME NEW p \in Node, StartUnknown(n, p) PROVE OneNode(n)
  <2>1. Atomic!Lose(n)
    BY <1>2 DEF StartUnknown, Begin, Atomic!Lose, NotFounder, Atomic!NotFounder
  <2>2. FitAt(n)'
    BY <1>2 DEF StartUnknown, Begin, FitAt
  <2> QED
    BY <1>2, <2>1, <2>2 DEF StartUnknown, Begin, OneNode
<1>3. CASE StartEmpty(n)
  BY <1>3 DEF StartEmpty, Begin, DataPresent, OneNode, FitAt
<1> QED
  BY <1>1, <1>2, <1>3 DEF Start

LEMMA JoinOneNode ==
  ASSUME FoundInv, NEW n \in Node, Join(n)
  PROVE  OneNode(n)
<1> USE DEF FoundInv, IInv, TypeOK
<1>1. CASE Reload(n)
  BY <1>1 DEF Reload, world, disks, OneNode, FitAt
<1>2. CASE GiveUp(n)
  BY <1>2, HaltOneNode DEF GiveUp, Exit, world, disks
<1>3. CASE DecideOverride(n) \/ DecideFresh(n) \/ DecideRecover(n)
  BY <1>3 DEF DecideOverride, DecideFresh, DecideRecover, Decide, NoPeerReachable,
     MayOverride, MayBeFresh, IsCandidate, world, disks, OneNode, FitAt
<1>4. ASSUME NEW p \in Node, JoinPeer(n, p) \/ JoinRefused(n, p) PROVE OneNode(n)
  BY <1>4 DEF JoinPeer, JoinRefused, disks, OneNode, FitAt
<1> QED
  BY <1>1, <1>2, <1>3, <1>4 DEF Join

LEMMA ConfirmOneNode ==
  ASSUME FoundInv, NEW n \in Node, Confirm(n)
  PROVE  OneNode(n)
<1> USE DEF FoundInv, IInv, TypeOK
<1>1. ASSUME Confirming(n), NEW auth, NEW sys, NextRound(n, auth, sys) PROVE OneNode(n)
  BY <1>1 DEF NextRound, Confirming, world, disks, OneNode, FitAt
<1>2. CASE FreshRound(n)
  <2>1. CASE Confirmed(n, "fresh")
    BY <1>2, <2>1 DEF FreshRound, Confirmed, world, disks, OneNode, FitAt
  <2>2. CASE Exit(n) /\ UNCHANGED world
    BY <2>2, HaltOneNode DEF Exit, world, disks
  <2> QED
    BY <1>1, <1>2, <2>1, <2>2 DEF FreshRound, Confirming
<1>3. CASE RecoverRound(n)
  <2>1. CASE Confirmed(n, "recover")
    BY <1>3, <2>1 DEF RecoverRound, Confirmed, world, disks, OneNode, FitAt
  <2>2. CASE Exit(n) /\ UNCHANGED world
    BY <2>2, HaltOneNode DEF Exit, world, disks
  <2> QED
    BY <1>1, <1>3, <2>1, <2>2 DEF RecoverRound, Confirming
<1>4. ASSUME NEW p \in Node, Probe(n, p) \/ ProbeFails(n, p) PROVE OneNode(n)
  BY <1>4 DEF Probe, ProbeFails, world, disks, OneNode, FitAt
<1> QED
  BY <1>2, <1>3, <1>4 DEF Confirm

(* Founding for real is founding at one instant.                           *)
LEMMA FoundIsFound ==
  ASSUME FoundInv, NEW n \in Node, FoundEpoch(n)
  PROVE  Atomic!Found(n)
<1> DEFINE V == cfg[n]
<1>1. PICK how \in {"fresh", "recover", "override"} : Founding(n, how)
  BY DEF FoundEpoch, Founding
<1>2. founded' = [founded EXCEPT ![n] = [view |-> V, how |-> how]] /\ n \in DOMAIN founded
  BY <1>1 DEF FoundEpoch, Founding, FoundInv, IInv, TypeOK
<1>3. founded'[n] = [view |-> V, how |-> how]
  BY <1>2
<1>4. n \in V /\ how # "override" => Atomic!NoRival(n, V)
  BY <1>1, NeverForks DEF FoundInv, FoundingNeverForks, Founder, ByEvidence, Atomic!NoRival,
     Readable, Atomic!Readable
<1>5. Atomic!Entitled(n, V, how)
  <2>1. CASE how = "override"
    BY <1>1, <2>1 DEF Atomic!Entitled, FoundInv, FitAt, Founding
  <2>2. CASE how = "fresh"
    <3>1. n \in V
      BY <1>1, <2>2 DEF FoundInv, FitAt, Founding
    <3>2. Atomic!NoData(V)
      BY <1>1, <2>2, FreshMeansNoData DEF FoundInv, Atomic!NoData, Readable, Atomic!Readable
    <3> QED
      BY <1>4, <2>2, <3>1, <3>2 DEF Atomic!Entitled
  <2>3. CASE how = "recover"
    <3>1. Readable(pg[n])
      <4>1. n \in Authorities(Evidence(n), Electors(n), cfg[n])
        BY <1>1, <2>3 DEF FoundInv, IInv, Sound, RecoverReady
      <4>2. Evidence(n)[n].pg = pg[n]
        BY DEF Evidence, LocalSample, OkSample, FoundInv, IInv, TypeOK
      <4> QED
        BY <4>1, <4>2 DEF Authorities, DataNodes, Consistent, Readable
    <3>2. \A x \in V \ {n} : Readable(pg[x]) => Outranks(n, pg[n], x, pg[x])
      BY <1>1, <2>3, RecoverOutranks DEF FoundInv
    <3>3. Atomic!HasBest(n, V)
      BY <3>1, <3>2 DEF Atomic!HasBest, Readable, Atomic!Readable, Outranks, Atomic!Outranks
    <3> QED
      BY <1>4, <2>3, <3>3 DEF Atomic!Entitled
  <2> QED
    BY <2>1, <2>2, <2>3
<1>6. epoch[n] = 0
  BY <1>1 DEF FoundInv, FitAt, Founding
<1> QED
  BY <1>2, <1>3, <1>5, <1>6 DEF FoundEpoch, BecomeEtcd, Atomic!Found

LEMMA JoinIsJoin ==
  ASSUME FoundInv, NEW n \in Node, JoinEpoch(n)
  PROVE  Atomic!Join(n) \/ UNCHANGED <<pg, epoch, founded, born>>
<1> DEFINE e == run[n].target
<1>1. e \in 0..born /\ born \in Nat
  BY BoundAssumption DEF FoundInv, IInv, TypeOK, Locals
<1>2. e # 0
  BY DEF JoinEpoch, FoundInv, IInv, Sound, FoundersHold
<1>3. epoch' = [epoch EXCEPT ![n] = e] /\ UNCHANGED <<pg, founded, born>>
  BY DEF JoinEpoch, BecomeEtcd
<1>4. epoch[n] \in {0, e}
  BY DEF JoinEpoch, FoundInv, FitAt
<1>5. epoch \in [Node -> 0..born]
  BY DEF FoundInv, IInv, TypeOK
<1> HIDE DEF e
<1>6. CASE epoch[n] = 0
  BY <1>1, <1>2, <1>3, <1>5, <1>6 DEF Atomic!Join
<1>7. CASE epoch[n] = e
  BY <1>3, <1>5, <1>7
<1> QED
  BY <1>4, <1>6, <1>7

LEMMA ExecFit ==
  ASSUME FoundInv, NEW n \in Node, FoundEpoch(n) \/ JoinEpoch(n)
  PROVE  \A m \in Node : FitAt(m)'
<1>1. FitAt(n)'
  BY DEF FoundEpoch, JoinEpoch, BecomeEtcd, Halt, FitAt, FoundInv, IInv, TypeOK
<1>2. ASSUME NEW m \in Node, m # n PROVE FitAt(m)'
  BY <1>2 DEF FoundEpoch, JoinEpoch, BecomeEtcd, Halt, FitAt, FoundInv, IInv, TypeOK
<1> QED
  BY <1>1, <1>2

LEMMA FoundInvStep ==
  ASSUME FoundInv, [Next]_vars
  PROVE  /\ \A n \in Node : FitAt(n)'
         /\ [Atomic!Next]_<<pg, epoch, founded, born>>
<1>1. CASE UNCHANGED vars
  BY <1>1 DEF vars, FoundInv, FitAt
<1>2. ASSUME NEW n \in Node, OneNode(n) PROVE \A m \in Node : FitAt(m)'
  <2>1. ASSUME NEW m \in Node, m # n PROVE FitAt(m)'
    BY <1>2, <2>1 DEF OneNode, FoundInv, FitAt
  <2> QED
    BY <1>2, <2>1 DEF OneNode
<1>3. DOMAIN pg = Node
  BY DEF FoundInv, IInv, TypeOK
<1>4. ASSUME NEW n \in Node, OneNode(n) PROVE [Atomic!Next]_<<pg, epoch, founded, born>>
  BY <1>3, <1>4 DEF OneNode, Atomic!Next
<1>5. ASSUME NEW n \in Node, JoinEvicted(n) PROVE OneNode(n)
  BY <1>5, HaltOneNode DEF JoinEvicted, Exit, world, disks, FoundInv, IInv
<1>6. ASSUME NEW n \in Node, FoundEpoch(n) \/ JoinEpoch(n)
      PROVE  [Atomic!Next]_<<pg, epoch, founded, born>>
  BY <1>3, <1>6, FoundIsFound, JoinIsJoin DEF Atomic!Next
<1> QED
  BY <1>1, <1>2, <1>4, <1>5, <1>6, EnvironmentOneNode, StartOneNode, JoinOneNode,
     ConfirmOneNode, ExecFit DEF Next, Exec

(***************************************************************************)
(* Rounds of probes, whatever happens between them, are as good as one     *)
(* look at all members at the instant an epoch is founded.                 *)
(***************************************************************************)
THEOREM ImplementsAtomicFoundingHolds == Spec => ImplementsAtomicFounding
<1>1. Init => FoundInv /\ Atomic!Init
  BY InitIInv DEF Init, FoundInv, FitAt, Atomic!Init, NotFounder, Atomic!NotFounder
<1>2. IInv /\ [Next]_vars => IInv'
  BY EnvironmentKeeps, StartKeeps, JoinKeeps, ConfirmKeeps, ExecKeeps, StutterKeeps DEF Next
<1>3. FoundInv /\ [Next]_vars => FoundInv' /\ [Atomic!Next]_<<pg, epoch, founded, born>>
  BY <1>2, FoundInvStep DEF FoundInv
<1> QED
  BY <1>1, <1>3, PTL DEF Spec, ImplementsAtomicFounding, Atomic!Spec
=============================================================================
