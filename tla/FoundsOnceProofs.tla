-------------------------- MODULE FoundsOnceProofs --------------------------
(***************************************************************************)
(* With one membership view and volumes that are kept, a deployment founds *)
(* one epoch, for every set of nodes, settings, PGDATA contents, bounds    *)
(* and disturbances other than the loss of a volume.                       *)
(***************************************************************************)
EXTENDS EpochBootstrapProofs

(* n goes by the one membership, founds afresh as its candidate only, and  *)
(* is a started member of the epoch it has data of.                        *)
Enrolled(n) ==
  /\ pc[n] # "off" => view[n] = Node
  /\ pc[n] \in {"join", "fresh", "recover", "exec"} => cfg[n] = Node
  /\ pc[n] = "fresh" \/ Founding(n, "fresh") => IsCandidate(n, Node)
  /\ epoch[n] # 0 => roster[epoch[n]][n] = "started"

(* Nothing is lost: what a sample says of PGDATA is so, or the node has    *)
(* joined an epoch since.                                                  *)
SamplesCurrent ==
  \A m, p \in Node : seen[m][p].st = "ok" => pg[p] = seen[m][p].pg \/ epoch[p] # 0

(* The one who founded the epoch stands in the way of everybody else: it   *)
(* has data, or it is the candidate and only its epoch brings data.        *)
StandsInWay(x, h) ==
  /\ Founder(x, Node, h)
  /\ \/ Readable(pg[x])
     \/ /\ h = "fresh" /\ IsCandidate(x, Node)
        /\ \A y \in Node : ~pg[y].empty => epoch[y] # 0

FounderStays == born # 0 => \E x \in Node : \E h \in ByEvidence : StandsInWay(x, h)

OnceInv ==
  /\ FoundInv
  /\ born \in {0, 1}
  /\ \A n \in Node : Enrolled(n)
  /\ SamplesCurrent
  /\ FounderStays

-----------------------------------------------------------------------------
(* No step loses etcd data or a readable copy, and new data appears with   *)
(* an epoch only.                                                          *)
Keeps ==
  \A y \in Node :
    /\ epoch[y] # 0 => epoch'[y] = epoch[y]
    /\ Readable(pg[y]) => Readable(pg'[y])
    /\ ~pg'[y].empty => ~pg[y].empty \/ epoch[y] # 0

LEMMA FounderKept ==
  ASSUME OnceInv, Keeps, UNCHANGED <<founded, born>>
  PROVE  FounderStays'
<1> SUFFICES ASSUME born' # 0
             PROVE  \E x \in Node : \E h \in ByEvidence : StandsInWay(x, h)'
  BY DEF FounderStays
<1>1. PICK x \in Node, h \in ByEvidence : StandsInWay(x, h)
  BY DEF OnceInv, FounderStays
<1>2. StandsInWay(x, h)'
  BY <1>1 DEF StandsInWay, Founder, Keeps
<1> QED
  BY <1>2

(* A step of n concerns n's view and n's entries in the member lists, and  *)
(* a copy that somebody has sampled does not change.                       *)
OnlyItsOwn(n) ==
  /\ OthersKeep(n)
  /\ \A m \in Node \ {n} :
       /\ view'[m] = view[m]
       /\ \A e \in Epoch : roster'[e][m] = roster[e][m]
  /\ \/ pg'[n] = pg[n] \/ epoch[n] # 0
     \/ \A m \in Node : seen[m][n].st # "ok"
  /\ \A p \in Node : seen'[n][p].st = "ok" =>
       pg'[p] = pg[p] /\ (seen'[n][p] = seen[n][p] \/ seen'[n][p].pg = pg[p])

LEMMA EnrolledKept ==
  ASSUME OnceInv, NEW n \in Node, OnlyItsOwn(n), Enrolled(n)'
  PROVE  \A m \in Node : Enrolled(m)'
<1> SUFFICES ASSUME NEW m \in Node, m # n PROVE Enrolled(m)'
  OBVIOUS
<1>1. Enrolled(m)
  BY DEF OnceInv
<1>2. epoch[m] # 0 => epoch[m] \in Epoch
  BY EpochRange DEF OnceInv, FoundInv, IInv
<1>3. /\ view'[m] = view[m] /\ epoch'[m] = epoch[m]
      /\ pc'[m] = pc[m] /\ cfg'[m] = cfg[m] /\ plan'[m] = plan[m]
      /\ epoch[m] # 0 => roster'[epoch[m]][m] = roster[epoch[m]][m]
  BY <1>2 DEF OnlyItsOwn, OthersKeep
<1> QED
  BY <1>1, <1>3 DEF Enrolled, Founding

LEMMA SamplesKeptCurrent ==
  ASSUME OnceInv, NEW n \in Node, OnlyItsOwn(n), Keeps
  PROVE  SamplesCurrent'
<1> SUFFICES ASSUME NEW m \in Node, NEW p \in Node, seen'[m][p].st = "ok"
             PROVE  pg'[p] = seen'[m][p].pg \/ epoch'[p] # 0
  BY DEF SamplesCurrent
<1>1. epoch[p] # 0 => epoch'[p] # 0
  BY DEF Keeps
<1>2. CASE m = n
  <2>1. /\ pg'[p] = pg[p]
        /\ seen'[n][p] = seen[n][p] \/ seen'[n][p].pg = pg[p]
    BY <1>2 DEF OnlyItsOwn
  <2> QED
    BY <1>1, <1>2, <2>1 DEF OnceInv, SamplesCurrent
<1>3. CASE m # n
  <2>1. seen'[m][p] = seen[m][p]
    BY <1>3 DEF OnlyItsOwn, OthersKeep
  <2>2. pg[p] = seen[m][p].pg \/ epoch[p] # 0
    BY <2>1 DEF OnceInv, SamplesCurrent
  <2>3. pg'[p] = pg[p] \/ epoch[p] # 0
    BY <2>1 DEF OnlyItsOwn, OthersKeep
  <2> QED
    BY <1>1, <2>1, <2>2, <2>3
<1> QED
  BY <1>2, <1>3

(* What a step of n owes that founds nothing.                              *)
Blameless(n) ==
  /\ OnlyItsOwn(n) /\ Enrolled(n)' /\ Keeps
  /\ UNCHANGED <<founded, born>>

LEMMA BlamelessKeeps ==
  ASSUME OnceInv, FoundInv', NEW n \in Node, Blameless(n)
  PROVE  OnceInv'
<1>1. (\A m \in Node : Enrolled(m)') /\ SamplesCurrent' /\ FounderStays'
  BY EnrolledKept, SamplesKeptCurrent, FounderKept DEF Blameless
<1>2. born' \in {0, 1}
  BY DEF Blameless, OnceInv
<1> QED
  BY <1>1, <1>2 DEF OnceInv

(* Most steps leave the disks and the member lists as they are.            *)
LEMMA QuietBlameless ==
  ASSUME OnceInv, NEW n \in Node, OthersKeep(n), Enrolled(n)',
         \A m \in Node \ {n} : view'[m] = view[m],
         UNCHANGED <<disks, roster, born>>,
         \A p \in Node : seen'[n][p].st = "ok" => seen'[n][p] \in {seen[n][p], PeerSample(p)}
  PROVE  Blameless(n)
<1>1. \A p \in Node : PeerSample(p).pg = pg[p]
  BY DEF PeerSample, OkSample
<1>2. OnlyItsOwn(n)
  BY <1>1 DEF OnlyItsOwn, disks
<1>3. Keeps
  BY DEF Keeps, disks
<1> QED
  BY <1>2, <1>3 DEF Blameless, disks

LEMMA HaltBlameless ==
  ASSUME OnceInv, NEW n \in Node, NEW to \in {"off", "down"}, Halt(n, to),
         to = "down" => pc[n] # "off", UNCHANGED world
  PROVE  Blameless(n)
<1>1. UNCHANGED <<disks, roster, born, view, epoch>> /\ OthersKeep(n)
  BY DEF Halt, world, disks, OthersKeep
<1>2. pc'[n] = to /\ seen'[n] = NoSamples
  BY DEF Halt, OnceInv, FoundInv, IInv, TypeOK
<1>3. Enrolled(n)'
  BY <1>1, <1>2 DEF Enrolled, Founding, OnceInv
<1>4. \A p \in Node : seen'[n][p].st # "ok"
  BY <1>2 DEF NoSamples, NoSample
<1> QED
  BY <1>1, <1>3, <1>4, QuietBlameless

-----------------------------------------------------------------------------
(* Undisturbed is what follows from now on: one membership, no volume is   *)
(* lost, and Patroni leaves readable copies.                               *)
LEMMA EnvironmentBlameless ==
  ASSUME Undisturbed, OnceInv, NEW n \in Node, Environment(n)
  PROVE  Blameless(n)
<1>0. Enrolled(n) /\ TypeOK
  BY DEF OnceInv, FoundInv, IInv
<1>1. CASE Boot(n)
  <2>1. /\ view' = [view EXCEPT ![n] = Node] /\ pc' = [pc EXCEPT ![n] = "down"]
        /\ UNCHANGED <<disks, cfg, run, seen, plan, roster, born>>
    BY <1>1 DEF Boot, Undisturbed
  <2>2. view'[n] = Node /\ pc'[n] = "down" /\ OthersKeep(n)
    BY <1>0, <2>1 DEF TypeOK, OthersKeep, disks
  <2>3. Enrolled(n)'
    BY <1>0, <2>1, <2>2 DEF Enrolled, Founding, disks
  <2>4. \A m \in Node \ {n} : view'[m] = view[m]
    BY <2>1
  <2> QED
    BY <2>1, <2>2, <2>3, <2>4, QuietBlameless
<1>2. CASE UpdateView(n)
  <2>1. view[n] = Node
    BY <1>0, <1>2 DEF UpdateView, AgentUp, Enrolled
  <2> QED
    BY <1>2, <2>1 DEF UpdateView, Undisturbed
<1>3. CASE Stop(n) \/ EtcdExit(n)
  BY <1>3, HaltBlameless DEF Stop, EtcdExit, Exit
<1>4. CASE LosePg(n) \/ LoseEtcd(n)
  BY <1>4 DEF LosePg, LoseEtcd, Disturb, Undisturbed
<1>5. CASE PatroniFills(n) \/ PatroniChanges(n)
  <2>1. /\ pg' = [pg EXCEPT ![n] = pg'[n]]
        /\ UNCHANGED <<view, stray, epoch, founded, process, roster, born>>
    BY <1>5 DEF PatroniFills, PatroniChanges
  <2>2. pc[n] \notin {"fresh", "recover", "exec"}
    BY <1>5 DEF PatroniFills, PatroniChanges, EtcdUp, Unobserved
  <2>3. \A p \in Node : seen[n][p].st # "ok"
    BY <2>2, NoneInHand DEF OnceInv, FoundInv
  <2>4. \/ epoch[n] # 0 /\ pg[n].empty
        \/ ~pg[n].empty /\ Readable(pg'[n]) /\ \A m \in Node : seen[m][n].st # "ok"
    <3>1. CASE PatroniFills(n)
      BY <3>1 DEF PatroniFills, EtcdUp
    <3>2. CASE PatroniChanges(n)
      BY <1>0, <3>2 DEF PatroniChanges, PgDir, Unobserved, Undisturbed, TypeOK
    <3> QED
      BY <1>5, <3>1, <3>2
  <2>5. OnlyItsOwn(n)
    BY <1>0, <2>1, <2>3, <2>4 DEF OnlyItsOwn, OthersKeep, process, TypeOK
  <2>6. Keeps
    BY <1>0, <2>1, <2>4 DEF Keeps, Readable, TypeOK
  <2>7. Enrolled(n)'
    BY <1>0, <2>1 DEF Enrolled, Founding, process
  <2> QED
    BY <2>1, <2>5, <2>6, <2>7 DEF Blameless
<1>6. ASSUME NEW q \in Node, RemoveMember(q, n) PROVE Blameless(n)
  <2>1. view[q] = Node
    BY <1>6 DEF RemoveMember, EtcdUp, OnceInv, Enrolled
  <2> QED
    BY <1>6, <2>1 DEF RemoveMember
<1> QED
  BY <1>1, <1>2, <1>3, <1>4, <1>5, <1>6 DEF Environment

(* The one epoch lists every node that has data of it, so no etcd-start    *)
(* wipes its volume.                                                       *)
LEMMA StartBlameless ==
  ASSUME OnceInv, NEW n \in Node, Start(n)
  PROVE  Blameless(n)
<1>0. Enrolled(n) /\ TypeOK
  BY DEF OnceInv, FoundInv, IInv
<1>1. ASSUME NEW p \in Node, StartUnknown(n, p) PROVE FALSE
  <2>1. epoch[n] # 0 /\ epoch[p] # 0 /\ roster[epoch[p]][n] # "started"
    BY <1>1 DEF StartUnknown, DataPresent, EtcdUp
  <2>2. epoch[n] \in 0..born /\ epoch[p] \in 0..born /\ born \in {0, 1}
    BY <1>0 DEF TypeOK, OnceInv
  <2>3. epoch[n] = epoch[p]
    BY <2>1, <2>2
  <2> QED
    BY <1>0, <2>1, <2>3 DEF Enrolled
<1>2. CASE StartEmpty(n) \/ StartAlone(n) \/ \E p \in Node : StartKnown(n, p)
  <2>1. PICK to, action : to \in {"exec", "join"} /\ Begin(n, to, action)
    BY <1>2 DEF StartEmpty, StartAlone, StartKnown
  <2>2. /\ UNCHANGED <<stray, epoch, founded>>
        /\ \/ to = "join" /\ UNCHANGED plan
           \/ to = "exec" /\ plan' = [plan EXCEPT ![n] = "existing"]
    BY <1>0, <1>2, <2>1 DEF StartEmpty, StartAlone, StartKnown, Begin, TypeOK
  <2>3. /\ pc[n] = "down" /\ pc' = [pc EXCEPT ![n] = to]
        /\ cfg' = [cfg EXCEPT ![n] = view[n]] /\ run' = [run EXCEPT ![n] = action]
        /\ UNCHANGED <<disks, view, seen, roster, born>>
    BY <2>1, <2>2 DEF Begin, disks
  <2>4. OthersKeep(n)
    BY <1>0, <2>2, <2>3 DEF OthersKeep, disks, TypeOK
  <2>5. Enrolled(n)'
    <3>1. cfg'[n] = Node /\ pc'[n] = to /\ view'[n] = Node
      BY <1>0, <2>3 DEF Enrolled, TypeOK
    <3>2. ~Founding(n, "fresh")'
      BY <1>0, <2>2, <3>1 DEF Founding, TypeOK
    <3> QED
      BY <1>0, <2>1, <2>3, <3>1, <3>2 DEF Enrolled, disks
  <2> QED
    BY <2>3, <2>4, <2>5, QuietBlameless
<1> QED
  BY <1>1, <1>2 DEF Start

LEMMA DecideBlameless ==
  ASSUME OnceInv, NEW n \in Node, DecideOverride(n) \/ DecideFresh(n) \/ DecideRecover(n)
  PROVE  Blameless(n)
<1>0. Enrolled(n) /\ TypeOK
  BY DEF OnceInv, FoundInv, IInv
<1>1. PICK to, how : to \in PcType /\ Decide(n, to, how)
  BY DEF DecideOverride, DecideFresh, DecideRecover, PcType
<1>2. /\ OthersKeep(n) /\ UNCHANGED disks
      /\ \A p \in Node : seen'[n][p].st # "ok"
      /\ pc'[n] = to /\ plan'[n] = how
  BY <1>1, DecideFrame DEF OnceInv, FoundInv
<1>3. UNCHANGED <<view, roster, born, cfg, epoch>> /\ pc[n] = "join"
  BY <1>1 DEF Decide, NoPeerReachable, world, disks
<1>4. cfg[n] = Node /\ view[n] = Node
  BY <1>0, <1>3 DEF Enrolled
<1>5. pc'[n] = "fresh" \/ Founding(n, "fresh")' => IsCandidate(n, Node)
  <2>1. CASE DecideFresh(n)
    BY <1>4, <2>1 DEF DecideFresh, MayBeFresh
  <2>2. CASE DecideOverride(n) \/ DecideRecover(n)
    BY <1>0, <2>2 DEF DecideOverride, DecideRecover, Decide, Founding, TypeOK
  <2> QED
    BY <2>1, <2>2
<1>6. Enrolled(n)'
  BY <1>0, <1>3, <1>4, <1>5 DEF Enrolled
<1> QED
  BY <1>2, <1>3, <1>6, QuietBlameless

LEMMA JoinBlameless ==
  ASSUME OnceInv, NEW n \in Node, Join(n)
  PROVE  Blameless(n)
<1>0. Enrolled(n) /\ TypeOK /\ FitAt(n)
  BY DEF OnceInv, FoundInv, IInv
<1>1. CASE Reload(n)
  BY <1>0, <1>1 DEF Reload, Enrolled
<1>2. CASE GiveUp(n)
  BY <1>2, HaltBlameless DEF GiveUp, Exit
<1>3. CASE DecideOverride(n) \/ DecideFresh(n) \/ DecideRecover(n)
  BY <1>3, DecideBlameless
(* The peers list n anew, which has no data of their epoch.                *)
<1>4. ASSUME NEW p \in Node, JoinPeer(n, p) \/ JoinRefused(n, p) PROVE Blameless(n)
  <2>1. /\ pc[n] = "join" /\ cfg' = [cfg EXCEPT ![n] = view[n]]
        /\ UNCHANGED <<view, disks, seen, born>>
        /\ \/ UNCHANGED <<pc, plan>>
           \/ /\ pc' = [pc EXCEPT ![n] = "exec"]
              /\ plan' = [plan EXCEPT ![n] = "existing"]
    BY <1>4 DEF JoinPeer, JoinRefused
  <2>2. \A m \in Node \ {n} : run'[m] = run[m] /\ \A e \in Epoch : roster'[e][m] = roster[e][m]
    <3>1. roster' = roster \/ \E entry : roster' = [roster EXCEPT ![epoch[p]][n] = entry]
      BY <1>4 DEF JoinPeer, JoinRefused
    <3>2. \A m \in Node \ {n} : \A e \in Epoch : roster'[e][m] = roster[e][m]
      <4>1. roster \in [Epoch -> [Node -> {"absent", "added", "started"}]]
        BY <1>0 DEF TypeOK
      <4>2. ASSUME NEW i, NEW entry, roster' = [roster EXCEPT ![i][n] = entry],
                   NEW m \in Node \ {n}, NEW e \in Epoch
            PROVE  roster'[e][m] = roster[e][m]
        BY <4>1, <4>2
      <4> QED
        BY <3>1, <4>2
    <3>3. \A m \in Node \ {n} : run'[m] = run[m]
      BY <1>0, <1>4 DEF JoinPeer, JoinRefused, TypeOK
    <3> QED
      BY <3>2, <3>3
  <2>3. epoch[n] = 0 /\ \A x \in Node : seen[n][x].st # "ok"
    BY <1>0, <2>1, NoneInHand DEF FitAt, OnceInv, FoundInv
  <2>4. OnlyItsOwn(n)
    BY <1>0, <2>1, <2>2, <2>3 DEF OnlyItsOwn, OthersKeep, disks, TypeOK
  <2>5. Enrolled(n)'
    BY <1>0, <2>1, <2>3 DEF Enrolled, Founding, disks, TypeOK
  <2>6. Keeps
    BY <2>1 DEF Keeps, disks
  <2> QED
    BY <2>1, <2>4, <2>5, <2>6 DEF Blameless, disks
<1> QED
  BY <1>1, <1>2, <1>3, <1>4 DEF Join

(* The samples are the only state that a probe changes.                    *)
LEMMA ConfirmBlameless ==
  ASSUME OnceInv, NEW n \in Node, Confirm(n)
  PROVE  Blameless(n)
<1>0. Enrolled(n) /\ TypeOK
  BY DEF OnceInv, FoundInv, IInv
<1>1. pc[n] \in {"fresh", "recover"}
  BY DEF Confirm, FreshRound, RecoverRound, Probe, ProbeFails, Confirming
<1>2. ASSUME NEW auth, NEW sys, NextRound(n, auth, sys) PROVE Blameless(n)
  <2>1. UNCHANGED <<world, pc, cfg, plan>> /\ seen' = [seen EXCEPT ![n] = NoSamples]
    BY <1>2 DEF NextRound
  <2>2. OthersKeep(n)
    BY <1>0, <1>2 DEF NextRound, world, disks, OthersKeep, TypeOK
  <2>3. Enrolled(n)'
    BY <1>0, <2>1 DEF Enrolled, Founding, world, disks
  <2>4. \A p \in Node : seen'[n][p].st # "ok"
    BY <1>0, <2>1 DEF NoSamples, NoSample, TypeOK
  <2> QED
    BY <2>1, <2>2, <2>3, <2>4, QuietBlameless DEF world
<1>3. ASSUME NEW h \in ByEvidence, pc[n] = h, Confirmed(n, h) PROVE Blameless(n)
  <2>1. /\ OthersKeep(n) /\ pc'[n] = "exec" /\ plan'[n] = h
        /\ UNCHANGED <<pg, stray, epoch, founded, cfg, run, seen>>
    BY <1>3, ConfirmedFrame DEF OnceInv, FoundInv
  <2>2. UNCHANGED world
    BY <1>3 DEF Confirmed
  <2>3. Enrolled(n)'
    BY <1>0, <1>1, <1>3, <2>1, <2>2 DEF Enrolled, Founding, ByEvidence, world
  <2> QED
    BY <2>1, <2>2, <2>3, QuietBlameless DEF world
<1>4. ASSUME Exit(n), UNCHANGED <<world, faults>> PROVE Blameless(n)
  BY <1>1, <1>4, HaltBlameless DEF Exit
<1>5. CASE FreshRound(n)
  BY <1>2, <1>3, <1>4, <1>5 DEF FreshRound, ByEvidence
<1>6. CASE RecoverRound(n)
  BY <1>2, <1>3, <1>4, <1>6 DEF RecoverRound, ByEvidence
<1>7. ASSUME NEW p \in Node, Probe(n, p) \/ ProbeFails(n, p) PROVE Blameless(n)
  <2>1. UNCHANGED <<world, pc, cfg, run, plan>>
    BY <1>7 DEF Probe, ProbeFails
  <2>2. /\ OthersKeep(n) /\ seen'[n][p] \in {PeerSample(p), ErrSample}
        /\ \A x \in Node \ {p} : seen'[n][x] = seen[n][x]
    <3>1. CASE Probe(n, p)
      BY <3>1, AnswerFrame DEF Probe, OnceInv, FoundInv
    <3>2. CASE ProbeFails(n, p)
      BY <3>2, AnswerFrame DEF ProbeFails, OnceInv, FoundInv
    <3> QED
      BY <1>7, <3>1, <3>2
  <2>3. \A x \in Node : seen'[n][x].st = "ok" => seen'[n][x] \in {seen[n][x], PeerSample(x)}
    BY <2>2 DEF ErrSample
  <2>4. Enrolled(n)'
    BY <1>0, <2>1 DEF Enrolled, Founding, world, disks
  <2> QED
    BY <2>1, <2>2, <2>3, <2>4, QuietBlameless DEF world
<1> QED
  BY <1>5, <1>6, <1>7 DEF Confirm

LEMMA JoinEpochBlameless ==
  ASSUME OnceInv, NEW n \in Node, JoinEpoch(n)
  PROVE  Blameless(n)
<1>0. Enrolled(n) /\ TypeOK /\ FitAt(n) /\ run[n].target # 0
  BY DEF OnceInv, FoundInv, IInv, Sound, FoundersHold, JoinEpoch
<1> DEFINE e == run[n].target
<1>1. e \in Epoch
  BY <1>0, BoundAssumption DEF TypeOK, Locals, Epoch
<1>2. /\ OthersKeep(n) /\ Undecided(n)' /\ pc'[n] = "up" /\ epoch'[n] = e
  BY BecomeFrame DEF JoinEpoch, OnceInv, FoundInv
<1>3. /\ roster' = [roster EXCEPT ![e][n] = "started"]
      /\ UNCHANGED <<view, pg, founded, born>>
      /\ epoch[n] \in {0, e} /\ pc[n] = "exec"
  BY <1>0 DEF JoinEpoch, BecomeEtcd, FitAt
<1> HIDE DEF e
<1>4. roster'[e][n] = "started" /\ \A m \in Node \ {n} : \A i \in Epoch : roster'[i][m] = roster[i][m]
  BY <1>0, <1>1, <1>3 DEF TypeOK
<1>5. Enrolled(n)'
  BY <1>0, <1>2, <1>3, <1>4 DEF Enrolled, Founding
<1>6. OnlyItsOwn(n)
  BY <1>2, <1>3, <1>4 DEF OnlyItsOwn, Undecided
<1>7. Keeps
  BY <1>2, <1>3 DEF Keeps, OthersKeep
<1> QED
  BY <1>3, <1>5, <1>6, <1>7 DEF Blameless

-----------------------------------------------------------------------------
(* The one founding.                                                       *)

(* A recovery founder has a readable copy.                                 *)
LEMMA FounderReadable ==
  ASSUME IInv, NEW n \in Node, Founding(n, "recover")
  PROVE  Readable(pg[n])
<1>1. n \in Authorities(Evidence(n), Electors(n), cfg[n])
  BY DEF IInv, Sound, RecoverReady
<1>2. Evidence(n)[n].pg = pg[n]
  BY DEF Evidence, LocalSample, OkSample, IInv, TypeOK
<1> QED
  BY <1>1, <1>2 DEF Authorities, DataNodes, Consistent, Readable

(* Nobody founds by evidence over a founder that stands in the way.        *)
LEMMA FirstFounding ==
  ASSUME OnceInv, NEW n \in Node, NEW how \in ByEvidence, Founding(n, how)
  PROVE  born = 0
<1> SUFFICES ASSUME born # 0 PROVE FALSE
  OBVIOUS
<1>1. PICK x \in Node, h \in ByEvidence : StandsInWay(x, h)
  BY DEF OnceInv, FounderStays
<1>2. cfg[n] = Node /\ epoch[n] = 0 /\ (how = "fresh" => IsCandidate(n, Node))
  BY DEF OnceInv, FoundInv, FitAt, Enrolled, Founding, ByEvidence
<1>3. x # n
  BY <1>1, <1>2 DEF StandsInWay, Founder, ByEvidence, OnceInv, FoundInv, IInv, Sound, FoundersHold
<1>4. CASE Readable(pg[x])
  BY <1>1, <1>2, <1>3, <1>4, NeverForks DEF OnceInv, FoundInv, FoundingNeverForks, StandsInWay
<1>5. CASE IsCandidate(x, Node) /\ \A y \in Node : ~pg[y].empty => epoch[y] # 0
  <2>1. CASE how = "fresh"
    BY <1>2, <1>3, <1>5, <2>1, NodeAssumption DEF IsCandidate
  <2>2. CASE how = "recover"
    BY <1>2, <1>5, <2>2, FounderReadable DEF OnceInv, FoundInv, Readable
  <2> QED
    BY <2>1, <2>2 DEF ByEvidence
<1> QED
  BY <1>1, <1>4, <1>5 DEF StandsInWay

LEMMA FoundOnceStep ==
  ASSUME OnceInv, FoundInv', NEW n \in Node, FoundEpoch(n), ~Overridden
  PROVE  OnceInv'
<1>0. Enrolled(n) /\ TypeOK /\ FitAt(n)
  BY DEF OnceInv, FoundInv, IInv
<1>1. PICK how \in ByEvidence : Founding(n, how)
  BY DEF FoundEpoch, Founding, Overridden, ByEvidence
<1>2. born = 0
  BY <1>1, FirstFounding
<1>3. founded' = [founded EXCEPT ![n] = [view |-> Node, how |-> how]]
  BY <1>0, <1>1 DEF FoundEpoch, Founding, Enrolled
<1>4. /\ founded'[n] = [view |-> Node, how |-> how]
      /\ \A m \in Node \ {n} : founded'[m] = founded[m]
  BY <1>0, <1>3 DEF TypeOK
<1>5. born' = 1 /\ 1 \in Epoch
  BY <1>2, BoundAssumption DEF FoundEpoch, Epoch
<1>6. OthersKeep(n) /\ Undecided(n)' /\ pc'[n] = "up" /\ epoch'[n] = 1
  BY <1>2, <1>4, BecomeFrame DEF FoundEpoch, OnceInv, FoundInv
<1>7. roster' = [roster EXCEPT ![1][n] = "started"] /\ UNCHANGED <<view, pg>>
  BY <1>2 DEF FoundEpoch, BecomeEtcd
<1>8. roster'[1][n] = "started" /\ \A m \in Node \ {n} : \A i \in Epoch : roster'[i][m] = roster[i][m]
  BY <1>0, <1>5, <1>7 DEF TypeOK
<1>9. epoch[n] = 0
  BY <1>0, <1>1 DEF FitAt, Founding, ByEvidence
<1>10. OnlyItsOwn(n) /\ Keeps
  BY <1>6, <1>7, <1>8, <1>9 DEF OnlyItsOwn, Undecided, Keeps, OthersKeep
<1>11. Enrolled(n)'
  BY <1>0, <1>1, <1>6, <1>7, <1>8 DEF Enrolled, Founding
<1>12. StandsInWay(n, how)'
  <2>1. Founder(n, Node, how)'
    BY <1>4 DEF Founder
  <2>2. CASE how = "recover"
    BY <1>1, <1>7, <2>1, <2>2, FounderReadable DEF OnceInv, FoundInv, StandsInWay
  <2>3. CASE how = "fresh"
    <3>1. IsCandidate(n, Node) /\ pg[n].empty /\ FreshEvidence(seen[n], n, Node)
      BY <1>0, <1>1, <2>3
         DEF Enrolled, Founding, OnceInv, FoundInv, IInv, Sound, FreshReady
    <3>2. ASSUME NEW y \in Node, y # n, ~pg[y].empty PROVE epoch[y] # 0
      BY <3>1, <3>2 DEF FreshEvidence, OnceInv, SamplesCurrent
    <3>3. \A y \in Node : ~pg'[y].empty => epoch'[y] # 0
      BY <1>6, <1>7, <3>2 DEF OthersKeep
    <3> QED
      BY <2>1, <2>3, <3>1, <3>3 DEF StandsInWay
  <2> QED
    BY <2>2, <2>3 DEF ByEvidence
<1>13. (\A m \in Node : Enrolled(m)') /\ SamplesCurrent'
  BY <1>10, <1>11, EnrolledKept, SamplesKeptCurrent
<1>14. FounderStays'
  BY <1>12 DEF FounderStays
<1> QED
  BY <1>5, <1>13, <1>14 DEF OnceInv

-----------------------------------------------------------------------------
LEMMA InitOnceInv == Init => OnceInv
<1> SUFFICES ASSUME Init PROVE OnceInv
  OBVIOUS
<1>1. FoundInv
  BY InitIInv DEF Init, FoundInv, FitAt
<1> QED
  BY <1>1 DEF Init, OnceInv, Enrolled, Founding, SamplesCurrent, FounderStays, NoSamples, NoSample

LEMMA OnceInvStep ==
  ASSUME Undisturbed, OnceInv, ~Overridden, [Next]_vars
  PROVE  OnceInv'
<1>1. FoundInv'
  <2>1. IInv'
    BY EnvironmentKeeps, StartKeeps, JoinKeeps, ConfirmKeeps, ExecKeeps, StutterKeeps
       DEF Next, OnceInv, FoundInv
  <2>2. \A n \in Node : FitAt(n)'
    BY FoundInvStep DEF OnceInv
  <2> QED
    BY <2>1, <2>2 DEF FoundInv
<1>2. CASE UNCHANGED vars
  BY <1>1, <1>2 DEF vars, OnceInv, Enrolled, Founding, SamplesCurrent, FounderStays,
     StandsInWay, Founder
<1>3. ASSUME NEW n \in Node, Exec(n) PROVE OnceInv'
  <2>1. CASE FoundEpoch(n)
    BY <1>1, <2>1, FoundOnceStep
  <2>2. CASE JoinEpoch(n)
    BY <1>1, <2>2, JoinEpochBlameless, BlamelessKeeps
  <2>3. CASE JoinEvicted(n)
    <3>1. Blameless(n)
      BY <2>3, HaltBlameless DEF JoinEvicted, Exit
    <3> QED
      BY <1>1, <3>1, BlamelessKeeps
  <2> QED
    BY <1>3, <2>1, <2>2, <2>3 DEF Exec
<1> QED
  BY <1>1, <1>2, <1>3, EnvironmentBlameless, StartBlameless, JoinBlameless, ConfirmBlameless,
     BlamelessKeeps DEF Next

(***************************************************************************)
(* Never two epochs (etcd_start.go:520-523): while nobody overrides it and *)
(* no volume is lost, etcd-start founds at most one epoch on the one       *)
(* membership, whatever restarts, stops, unanswered probes and failovers   *)
(* there are.                                                              *)
(***************************************************************************)
THEOREM FoundsOnceHolds == Spec => FoundsOnce
<1> SUFFICES ASSUME Undisturbed PROVE Spec /\ []~Overridden => [](born <= 1)
  BY DEF FoundsOnce
<1>1. OnceInv /\ ~Overridden /\ [Next]_vars => OnceInv'
  BY OnceInvStep
<1>2. OnceInv => born <= 1
  BY DEF OnceInv
<1> QED
  BY InitOnceInv, <1>1, <1>2, PTL DEF Spec
=============================================================================
