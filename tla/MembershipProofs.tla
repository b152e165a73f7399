---------------------------- MODULE MembershipProofs ----------------------------
(***************************************************************************)
(* Type correctness of Membership, that a member that answers goes only    *)
(* after its absence from as many polls as asked for, and that no daemon   *)
(* removes a member it has not been told is gone, for every set of nodes,  *)
(* threshold and number of disturbances.                                   *)
(***************************************************************************)
EXTENDS Membership, FiniteSetTheorems, TLAPS

(* The stability count of a list counts polls that every node not in it    *)
(* has missed.                                                             *)
CountedAbsence ==
  \A d, n \in Node : n \notin last[d] => missed[d][n] >= count[d]

(* Ghosts in work and a member about to be removed are not in the list of  *)
(* the cycle, and that list is stable if the member answers.               *)
TargetsUnlisted ==
  \A d \in Node :
    /\ victim[d] # {} => phase[d] \in {"evict", "drop"}
    /\ \A m \in victim[d] : m.node \notin last[d]
    /\ phase[d] = "ghosts" => \A m \in list[d] : m.node \notin last[d]
    /\ phase[d] = "evict" => Stable(d)

IInv == TypeOK /\ CountedAbsence /\ TargetsUnlisted

(* The conjuncts of TypeOK by what they speak of.                          *)
ClusterType ==
  /\ flux \in (SUBSET Node) \ {{}}
  /\ members \subseteq Entry
  /\ place \in [Node -> {"none", "empty", "data"}]
  /\ pc \in [Node -> {"down", "exec", "up"}]
  /\ faults \in 0..MaxFaults
TrackerType ==
  /\ last \in [Node -> SUBSET Node]
  /\ count \in [Node -> 0..Stability]
  /\ missed \in [Node -> [Node -> 0..Stability]]
Phase == {"idle", "polled", "ghosts", "members", "evict", "drop"}
CycleType ==
  /\ phase \in [Node -> Phase]
  /\ list \in [Node -> SUBSET Entry]
  /\ todo \in [Node -> SUBSET Entry]
  /\ victim \in [Node -> SUBSET Entry]
  /\ \A d \in Node : todo[d] \subseteq list[d] /\ victim[d] \subseteq list[d]

-----------------------------------------------------------------------------
LEMMA AtMostType ==
  ASSUME NEW i \in Nat
  PROVE  AtMost(i, Stability) \in 0..Stability
  BY StabilityAssumption DEF AtMost

(* The types of a cycle after it has moved on.                             *)
LEMMA MoveType ==
  ASSUME CycleType, NEW d \in Node, NEW p \in Phase,
         NEW ms \in SUBSET Entry, NEW rest \in SUBSET ms, NEW v \in SUBSET ms,
         Goto(d, p), Keep(d, ms), Left(d, rest), Target(d, v)
  PROVE  CycleType'
<1>1. /\ phase' = [phase EXCEPT ![d] = p] /\ list' = [list EXCEPT ![d] = ms]
      /\ todo' = [todo EXCEPT ![d] = rest] /\ victim' = [victim EXCEPT ![d] = v]
  BY DEF Goto, Keep, Left, Target
<1>2. \A c \in Node : c # d => list'[c] = list[c] /\ todo'[c] = todo[c] /\ victim'[c] = victim[c]
  BY <1>1 DEF CycleType
<1>3. list'[d] = ms /\ todo'[d] = rest /\ victim'[d] = v
  BY <1>1 DEF CycleType
<1>4. \A c \in Node : todo'[c] \subseteq list'[c] /\ victim'[c] \subseteq list'[c]
  BY <1>2, <1>3 DEF CycleType
<1> QED
  BY <1>1, <1>4 DEF CycleType

LEMMA EndCycleType ==
  ASSUME CycleType, NEW d \in Node, EndCycle(d)
  PROVE  CycleType'
  BY MoveType, {} \in SUBSET Entry DEF EndCycle, Phase

LEMMA ProceedType ==
  ASSUME CycleType, NEW d \in Node, NEW ms \in SUBSET Entry, NEW rest \in SUBSET ms,
         Proceed(d, ms, rest)
  PROVE  CycleType'
<1>1. CASE rest = {}
  BY <1>1, EndCycleType DEF Proceed
<1>2. CASE rest # {}
  BY <1>2, MoveType DEF Proceed, Phase
<1> QED
  BY <1>1, <1>2

(* The loops work on entries of the list they begin with.                  *)
LEMMA BeginLoopsType ==
  ASSUME CycleType, ClusterType, NEW d \in Node, BeginLoops(d)
  PROVE  CycleType'
<1> DEFINE undesired == Undesired(d, members)
           promotable == Promotable(d, members)
           found == UNION {FindByClientIP(members, m.node) : m \in undesired}
<1>1. undesired \subseteq found
  BY DEF Undesired, FindByClientIP
<1>2. found \cup promotable \in SUBSET Entry
  BY DEF FindByClientIP, Promotable, ClusterType
<1>3. Proceed(d, found \cup promotable, undesired \cup promotable)
  BY DEF BeginLoops
<1> HIDE DEF undesired, promotable, found
<1> QED
  BY <1>1, <1>2, <1>3, ProceedType

LEMMA RemoveType ==
  ASSUME ClusterType, NEW m \in Entry
  PROVE  AfterRemove(m) \subseteq Entry
  BY DEF AfterRemove, ClusterType

LEMMA PromoteType ==
  ASSUME ClusterType, NEW m \in Entry
  PROVE  AfterPromote(m) \subseteq Entry
  BY DEF AfterPromote, ClusterType, Entry, Status

LEMMA CommandType ==
  ASSUME ClusterType, NEW d \in Node, NEW after \in SUBSET Entry, Command(d, after),
         UNCHANGED <<flux, place, pc, faults>>
  PROVE  ClusterType'
  BY DEF Command, ClusterType

Parts == ClusterType /\ TrackerType /\ CycleType

LEMMA TypeParts == TypeOK <=> Parts
<1>1. (\A d \in Node : todo[d] \cup victim[d] \subseteq list[d])
        <=> (\A d \in Node : todo[d] \subseteq list[d] /\ victim[d] \subseteq list[d])
  OBVIOUS
<1> QED
  BY <1>1 DEF TypeOK, Parts, ClusterType, TrackerType, CycleType, Phase

LEMMA InitHolds == Init => IInv
<1> SUFFICES ASSUME Init PROVE IInv
  OBVIOUS
<1>1. PICK f \in [Initial -> 1..Cardinality(Initial)] :
        members = {Voting(f[n], n) : n \in Initial}
  BY DEF Init
<1>2. members \subseteq Entry
  <2>1. SUFFICES ASSUME NEW n \in Initial PROVE Voting(f[n], n) \in Entry
    BY <1>1
  <2>2. Cardinality(Initial) \in Nat
    BY NodeAssumption, InitialAssumption, FS_Subset, FS_CardinalityType
  <2>3. f[n] \in Id
    BY <1>1, <2>2, BoundAssumption DEF Id
  <2> QED
    BY <2>3, InitialAssumption DEF Voting, Entry, Status
<1>3. ClusterType
  <2>1. flux = Initial /\ faults = 0
    BY DEF Init
  <2>3. Initial \subseteq Node /\ Initial # {} /\ MaxFaults \in Nat
    BY InitialAssumption, BoundAssumption
  <2>2. /\ place \in [Node -> {"none", "empty", "data"}]
        /\ pc \in [Node -> {"down", "exec", "up"}]
    BY DEF Init
  <2> QED
    BY <1>2, <2>1, <2>2, <2>3 DEF ClusterType
<1>4. TrackerType
  BY StabilityAssumption DEF Init, TrackerType
<1>5. CycleType
  BY DEF Init, CycleType, Phase
<1>6. CountedAbsence /\ TargetsUnlisted
  BY DEF Init, CountedAbsence, TargetsUnlisted
<1> QED
  BY <1>3, <1>4, <1>5, <1>6, TypeParts DEF IInv, Parts

-----------------------------------------------------------------------------
(* The daemon.                                                             *)

LEMMA PollType ==
  ASSUME Parts, NEW d \in Node, Poll(d)
  PROVE  Parts'
<1> USE DEF Parts
<1>1. ClusterType'
  BY DEF Poll, ClusterType
<1>2. TrackerType'
  <2>1. NextCount(d) \in 0..Stability
    BY AtMostType, StabilityAssumption DEF NextCount, TrackerType
  <2>2. \A n \in Node : AtMost(missed[d][n] + 1, Stability) \in 0..Stability
    BY AtMostType, StabilityAssumption DEF TrackerType
  <2>3. [n \in Node |-> IF n \in flux THEN 0 ELSE AtMost(missed[d][n] + 1, Stability)]
          \in [Node -> 0..Stability]
    BY <2>2, StabilityAssumption
  <2>4. flux \in SUBSET Node
    BY DEF ClusterType
  <2> QED
    BY <2>1, <2>3, <2>4 DEF Poll, TrackerType
<1>3. CycleType'
  BY DEF Poll, Goto, CycleType, Phase
<1> QED
  BY <1>1, <1>2, <1>3

LEMMA DaemonType ==
  ASSUME Parts, NEW d \in Node, Daemon(d)
  PROVE  Parts'
<1> USE DEF Parts
<1>0. ASSUME UNCHANGED tracker PROVE TrackerType'
  BY <1>0 DEF tracker, TrackerType
<1>c. ASSUME UNCHANGED <<flux, members, place, pc, faults>> PROVE ClusterType'
  BY <1>c DEF ClusterType
<1>1. CASE Poll(d)
  BY <1>1, PollType
<1>2. CASE ListMembers(d)
  <2>1. UNCHANGED <<flux, members, place, pc, tracker, faults>>
    BY <1>2 DEF ListMembers
  <2>2. CycleType'
    <3>1. CASE Serves(d) /\ Ghosts(d, members) # {}
      <4>1. Ghosts(d, members) \in SUBSET Entry
        BY DEF Ghosts, ClusterType
      <4>2. /\ Goto(d, "ghosts") /\ Keep(d, Ghosts(d, members))
            /\ Left(d, Ghosts(d, members)) /\ Target(d, {})
        BY <1>2, <3>1 DEF ListMembers
      <4> QED
        BY <4>1, <4>2, MoveType DEF Phase
    <3>2. CASE ~(Serves(d) /\ Ghosts(d, members) # {})
      BY <1>2, <3>2, BeginLoopsType, EndCycleType DEF ListMembers
    <3> QED
      BY <3>1, <3>2
  <2> QED
    BY <1>0, <1>c, <2>1, <2>2
<1>3. CASE RemoveGhost(d)
  <2>1. PICK m \in todo[d] : Command(d, AfterRemove(m)) /\ Left(d, todo[d] \ {m})
    BY <1>3 DEF RemoveGhost
  <2>2. UNCHANGED <<flux, place, pc, tracker, phase, list, victim, faults>>
    BY <1>3 DEF RemoveGhost
  <2>3. m \in Entry
    BY <2>1 DEF CycleType
  <2>4. ClusterType'
    BY <2>1, <2>2, <2>3, RemoveType, CommandType
  <2>5. CycleType'
    BY <2>1, <2>2 DEF CycleType, Left
  <2> QED
    BY <1>0, <2>2, <2>4, <2>5
<1>4. CASE ListAgain(d)
  <2>1. UNCHANGED <<flux, members, place, pc, tracker, faults>>
    BY <1>4 DEF ListAgain
  <2>2. CycleType'
    BY <1>4, BeginLoopsType, EndCycleType DEF ListAgain
  <2> QED
    BY <1>0, <1>c, <2>1, <2>2
<1>5. CASE Judge(d)
  <2>1. UNCHANGED <<flux, members, place, pc, tracker, faults>>
    BY <1>5 DEF Judge
  <2>2. PICK m \in todo[d] :
          IF ~MayGo(d, m.node)
            THEN Proceed(d, list[d], todo[d] \ {m})
            ELSE /\ \E f \in FindByClientIP(list[d], m.node) : Target(d, {f})
                 /\ Goto(d, IF Serves(m.node) THEN "evict" ELSE "drop")
                 /\ Left(d, todo[d] \ {m})
                 /\ UNCHANGED list
    BY <1>5 DEF Judge
  <2>3. list[d] \in SUBSET Entry /\ todo[d] \ {m} \in SUBSET list[d]
    BY DEF CycleType
  <2>4. CycleType'
    <3>1. CASE ~MayGo(d, m.node)
      BY <2>2, <2>3, <3>1, ProceedType
    <3>2. CASE MayGo(d, m.node)
      <4>1. PICK f \in FindByClientIP(list[d], m.node) : Target(d, {f})
        BY <2>2, <3>2
      <4>2. PICK p \in Phase : Goto(d, p)
        BY <2>2, <3>2 DEF Phase
      <4>3. Keep(d, list[d]) /\ Left(d, todo[d] \ {m})
        BY <2>2, <3>2 DEF Keep, CycleType
      <4>4. {f} \in SUBSET list[d]
        BY <4>1 DEF FindByClientIP
      <4> QED
        BY <2>3, <4>1, <4>2, <4>3, <4>4, MoveType
    <3> QED
      BY <3>1, <3>2
  <2> QED
    BY <1>0, <1>c, <2>1, <2>4
<1>6. CASE RemoveMember(d)
  <2>1. UNCHANGED <<flux, place, pc, tracker, faults>>
    BY <1>6 DEF RemoveMember
  <2>2. ClusterType'
    <3>1. PICK m \in victim[d] : Command(d, AfterRemove(m))
      BY <1>6 DEF RemoveMember
    <3>2. m \in Entry
      BY <3>1 DEF CycleType
    <3> QED
      BY <2>1, <3>1, <3>2, RemoveType, CommandType
  <2>3. CycleType'
    <3>1. list[d] \in SUBSET Entry /\ todo[d] \in SUBSET list[d]
      BY DEF CycleType
    <3> QED
      BY <1>6, <3>1, ProceedType DEF RemoveMember
  <2> QED
    BY <1>0, <2>1, <2>2, <2>3
<1>7. CASE Promote(d)
  <2>1. UNCHANGED <<flux, place, pc, tracker, faults>>
    BY <1>7 DEF Promote
  <2>2. PICK m \in todo[d] : /\ Command(d, AfterPromote(m))
                             /\ Proceed(d, list[d], todo[d] \ {m})
    BY <1>7 DEF Promote
  <2>3. m \in Entry /\ list[d] \in SUBSET Entry /\ todo[d] \ {m} \in SUBSET list[d]
    BY DEF CycleType
  <2>4. ClusterType'
    BY <2>1, <2>2, <2>3, PromoteType, CommandType
  <2>5. CycleType'
    BY <2>2, <2>3, ProceedType
  <2> QED
    BY <1>0, <2>1, <2>4, <2>5
<1> QED
  BY <1>1, <1>2, <1>3, <1>4, <1>5, <1>6, <1>7 DEF Daemon

-----------------------------------------------------------------------------
(* etcd-start, Flux and the disturbances.                                  *)

LEMMA EtcdStartType ==
  ASSUME Parts, NEW n \in Node, EtcdStart(n)
  PROVE  Parts'
<1> USE DEF Parts
<1>1. UNCHANGED <<tracker, cycle, flux, faults>>
  BY DEF EtcdStart, StartExisting, DropGhost, Register, Exec, Evicted
<1>2. TrackerType' /\ CycleType'
  BY <1>1 DEF tracker, cycle, TrackerType, CycleType
<1>3. /\ place' \in [Node -> {"none", "empty", "data"}]
      /\ pc' \in [Node -> {"down", "exec", "up"}]
  BY DEF EtcdStart, StartExisting, DropGhost, Register, Exec, Evicted, GotoStart, ClusterType
<1>4. members' \subseteq Entry
  <2>1. CASE StartExisting(n) \/ Evicted(n)
    BY <2>1 DEF StartExisting, Evicted, ClusterType
  <2>2. CASE Register(n)
    <3>1. \A i \in Id : Added(i, n) \in Entry
      BY DEF Added, Entry, Status
    <3> QED
      BY <2>2, <3>1 DEF Register, ClusterType
  <2>4. CASE DropGhost(n)
    BY <2>4 DEF DropGhost, ClusterType
  <2>3. CASE Exec(n)
    <3>1. \A m \in EntryOf(n) : [m EXCEPT !.status = "learner"] \in Entry
      BY DEF EntryOf, ClusterType, Entry, Status
    <3> QED
      BY <2>3, <3>1 DEF Exec, ClusterType
  <2> QED
    BY <2>1, <2>2, <2>3, <2>4 DEF EtcdStart
<1> QED
  BY <1>1, <1>2, <1>3, <1>4 DEF ClusterType

LEMMA FluxType ==
  ASSUME Parts,
         FluxChanges \/ \E n \in Node : EtcdExits(n) \/ Placed(n) \/ Killed(n)
  PROVE  Parts'
<1> USE DEF Parts
<1>1. CASE FluxChanges
  <2>1. flux' \in (SUBSET Node) \ {{}}
    <3>1. PICK n \in Roaming : flux' = IF n \in flux THEN flux \ {n} ELSE flux \cup {n}
      BY <1>1 DEF FluxChanges
    <3>2. flux' # {} /\ n \in Node
      BY <1>1, InitialAssumption DEF FluxChanges
    <3> QED
      BY <3>1, <3>2 DEF ClusterType
  <2>3. faults' \in 0..MaxFaults
    BY <1>1, BoundAssumption DEF FluxChanges, Disturb, ClusterType
  <2>2. UNCHANGED <<members, place, pc, tracker, cycle>>
    BY <1>1 DEF FluxChanges
  <2> QED
    BY <2>1, <2>2, <2>3 DEF tracker, cycle, ClusterType, TrackerType, CycleType
<1>2. ASSUME NEW n \in Node, EtcdExits(n) PROVE Parts'
  <2>1. pc' \in [Node -> {"down", "exec", "up"}] /\ faults' \in 0..MaxFaults
    BY <1>2, BoundAssumption DEF EtcdExits, GotoStart, Disturb, ClusterType
  <2>2. UNCHANGED <<flux, members, place, tracker, cycle>>
    BY <1>2 DEF EtcdExits
  <2> QED
    BY <2>1, <2>2 DEF tracker, cycle, ClusterType, TrackerType, CycleType
<1>3. ASSUME NEW n \in Node, Placed(n) PROVE Parts'
  BY <1>3 DEF Placed, tracker, cycle, ClusterType, TrackerType, CycleType
<1>4. ASSUME NEW n \in Node, Killed(n) PROVE Parts'
  <2>1. ClusterType'
    BY <1>4 DEF Killed, GotoStart, ClusterType
  <2>2. TrackerType'
    BY <1>4, StabilityAssumption DEF Killed, TrackerType
  <2>3. CycleType'
    BY <1>4, EndCycleType DEF Killed
  <2> QED
    BY <2>1, <2>2, <2>3
<1> QED
  BY <1>1, <1>2, <1>3, <1>4

LEMMA TypeKeeps == Parts /\ [Next]_vars => Parts'
<1>1. ASSUME Parts, UNCHANGED vars PROVE Parts'
  BY <1>1 DEF vars, tracker, cycle, Parts, ClusterType, TrackerType, CycleType
<1> QED
  BY <1>1, DaemonType, EtcdStartType, FluxType DEF Next

(* Every variable keeps its type, and what a daemon loops over or is about *)
(* to remove is in the member list of its cycle (runReconcile).            *)
THEOREM TypeCorrect == Spec => []TypeOK
<1>1. Init => Parts
  BY InitHolds, TypeParts DEF IInv
<1>2. Parts => TypeOK
  BY TypeParts
<1> QED
  BY <1>1, <1>2, TypeKeeps, PTL DEF Spec

-----------------------------------------------------------------------------
(* The safety gate.                                                        *)

LEMMA AtMostMonotone ==
  ASSUME NEW i \in Nat, NEW j \in Nat, i <= j
  PROVE  AtMost(i, Stability) <= AtMost(j, Stability)
  BY StabilityAssumption DEF AtMost

LEMMA PollCounts ==
  ASSUME Parts, CountedAbsence, NEW d \in Node, Poll(d)
  PROVE  CountedAbsence'
<1> USE DEF Parts
<1>1. /\ last' = [last EXCEPT ![d] = flux]
      /\ count' = [count EXCEPT ![d] = NextCount(d)]
      /\ missed' = [missed EXCEPT ![d] =
           [n \in Node |-> IF n \in flux THEN 0 ELSE AtMost(@[n] + 1, Stability)]]
  BY DEF Poll
<1>2. SUFFICES ASSUME NEW c \in Node, NEW n \in Node, n \notin last'[c]
               PROVE  missed'[c][n] >= count'[c]
  BY DEF CountedAbsence
<1>3. CASE c # d
  BY <1>1, <1>2, <1>3 DEF CountedAbsence, TrackerType
<1>4. CASE c = d
  <2>1. last'[d] = flux /\ count'[d] = NextCount(d)
    BY <1>1 DEF TrackerType
  <2>2. n \notin flux
    BY <1>2, <1>4, <2>1
  <2>3. missed'[d][n] = AtMost(missed[d][n] + 1, Stability)
    BY <1>1, <2>2 DEF TrackerType
  <2>4. missed[d][n] \in Nat /\ count[d] \in Nat
    BY StabilityAssumption DEF TrackerType
  <2>5. CASE flux = last[d]
    <3>1. count[d] + 1 <= missed[d][n] + 1
      BY <2>2, <2>4, <2>5 DEF CountedAbsence
    <3>2. AtMost(count[d] + 1, Stability) <= AtMost(missed[d][n] + 1, Stability)
      BY <2>4, <3>1, AtMostMonotone
    <3> QED
      BY <1>4, <2>1, <2>3, <2>4, <2>5, <3>2, AtMostType DEF NextCount
  <2>6. CASE flux # last[d]
    BY <1>4, <2>1, <2>3, <2>4, <2>6, StabilityAssumption DEF NextCount, AtMost
  <2> QED
    BY <2>5, <2>6
<1> QED
  BY <1>3, <1>4

LEMMA CountKeeps == Parts /\ CountedAbsence /\ [Next]_vars => CountedAbsence'
<1> SUFFICES ASSUME Parts, CountedAbsence, [Next]_vars PROVE CountedAbsence'
  OBVIOUS
<1>1. ASSUME UNCHANGED tracker PROVE CountedAbsence'
  BY <1>1 DEF tracker, CountedAbsence
<1>2. ASSUME NEW n \in Node, Killed(n) PROVE CountedAbsence'
  <2>1. /\ last' = [last EXCEPT ![n] = {}] /\ count' = [count EXCEPT ![n] = 0]
        /\ missed' = [missed EXCEPT ![n] = [x \in Node |-> 0]]
    BY <1>2 DEF Killed
  <2> QED
    BY <2>1 DEF CountedAbsence, Parts, TrackerType
<1>3. ASSUME NEW n \in Node, Poll(n) PROVE CountedAbsence'
  BY <1>3, PollCounts
<1>4. ASSUME NEW n \in Node,
             \/ ListMembers(n) \/ RemoveGhost(n) \/ ListAgain(n) \/ Judge(n)
             \/ RemoveMember(n) \/ Promote(n) \/ EtcdStart(n) \/ EtcdExits(n) \/ Placed(n)
      PROVE  UNCHANGED tracker
  BY <1>4 DEF ListMembers, RemoveGhost, ListAgain, Judge, RemoveMember, Promote, EtcdStart,
              StartExisting, DropGhost, Register, Exec, Evicted, EtcdExits, Placed
<1>5. FluxChanges \/ UNCHANGED vars => UNCHANGED tracker
  BY DEF FluxChanges, vars
<1> QED
  BY <1>1, <1>2, <1>3, <1>4, <1>5 DEF Next, Daemon

(* Nothing but the daemon's own steps touches its cycle, and between its   *)
(* judgement of a member and the removal it does not poll.                 *)
OthersStay(d) == \A c \in Node \ {d} : /\ victim'[c] = victim[c] /\ list'[c] = list[c]
                                       /\ last'[c] = last[c] /\ count'[c] = count[c]

LEMMA CycleOfOthers ==
  ASSUME Parts, NEW d \in Node, NEW ms, NEW v, Keep(d, ms), Target(d, v), UNCHANGED tracker
  PROVE  OthersStay(d) /\ victim'[d] = v /\ list'[d] = ms
  BY DEF Keep, Target, tracker, OthersStay, Parts, CycleType

LEMMA RestKeeps ==
  ASSUME Parts, TargetsUnlisted, NEW d \in Node, NEW p \in {"idle", "polled", "members"},
         Goto(d, p), victim'[d] = {}, OthersStay(d)
  PROVE  TargetsUnlisted'
<1>1. phase'[d] = p /\ \A c \in Node \ {d} : phase'[c] = phase[c]
  BY DEF Goto, Parts, CycleType
<1> QED
  BY <1>1 DEF TargetsUnlisted, Stable, OthersStay

LEMMA MoveKeeps ==
  ASSUME Parts, TargetsUnlisted, NEW d \in Node, NEW ms, NEW rest, UNCHANGED tracker,
         Proceed(d, ms, rest) \/ EndCycle(d)
  PROVE  TargetsUnlisted'
<1>1. PICK p \in {"idle", "members"} : Goto(d, p) /\ \E ks : Keep(d, ks)
  BY DEF Proceed, EndCycle
<1>2. Target(d, {})
  BY DEF Proceed, EndCycle
<1> QED
  BY <1>1, <1>2, CycleOfOthers, RestKeeps

LEMMA JudgeKeeps ==
  ASSUME Contains = {}, Parts, TargetsUnlisted, NEW d \in Node, Judge(d)
  PROVE  TargetsUnlisted'
<1>1. PICK m \in todo[d] :
        /\ m.node \notin last[d]
        /\ IF ~MayGo(d, m.node)
             THEN Proceed(d, list[d], todo[d] \ {m})
             ELSE /\ \E f \in FindByClientIP(list[d], m.node) : Target(d, {f})
                  /\ Goto(d, IF Serves(m.node) THEN "evict" ELSE "drop")
                  /\ UNCHANGED list
  BY DEF Judge
<1>2. UNCHANGED tracker
  BY DEF Judge
<1>3. CASE ~MayGo(d, m.node)
  BY <1>1, <1>2, <1>3, MoveKeeps
<1>4. CASE MayGo(d, m.node)
  <2>1. PICK f \in FindByClientIP(list[d], m.node) : Target(d, {f})
    BY <1>1, <1>4
  <2>2. f.node \notin last[d]
    BY <1>1, <2>1 DEF FindByClientIP
  <2>3. /\ victim'[d] = {f}
        /\ \A c \in Node \ {d} : victim'[c] = victim[c]
    BY <2>1 DEF Target, Parts, CycleType
  <2>4. /\ phase'[d] = IF Serves(m.node) THEN "evict" ELSE "drop"
        /\ \A c \in Node \ {d} : phase'[c] = phase[c]
    BY <1>1, <1>4 DEF Goto, Parts, CycleType
  <2>5. Serves(m.node) => Stable(d)
    BY <1>4 DEF MayGo
  <2>6. UNCHANGED <<list, last, count>>
    BY <1>1, <1>2, <1>4 DEF tracker
  <2> QED
    BY <2>2, <2>3, <2>4, <2>5, <2>6 DEF TargetsUnlisted, Stable
<1> QED
  BY <1>3, <1>4

LEMMA DaemonTargets ==
  ASSUME Contains = {}, Parts, TargetsUnlisted, NEW d \in Node, Daemon(d)
  PROVE  TargetsUnlisted'
<1>1. CASE Poll(d)
  <2>1. victim[d] = {} /\ UNCHANGED <<victim, list>> /\ Goto(d, "polled")
    BY <1>1 DEF Poll, TargetsUnlisted
  <2>2. OthersStay(d)
    BY <1>1, <2>1 DEF Poll, OthersStay, Parts, TrackerType
  <2> QED
    BY <2>1, <2>2, RestKeeps
<1>2. CASE ListMembers(d)
  <2>1. CASE Serves(d) /\ Ghosts(d, members) # {}
    <3>1. /\ Goto(d, "ghosts") /\ Keep(d, Ghosts(d, members)) /\ Target(d, {})
          /\ UNCHANGED tracker
      BY <1>2, <2>1 DEF ListMembers
    <3>2. OthersStay(d) /\ victim'[d] = {} /\ list'[d] = Ghosts(d, members)
      BY <3>1, CycleOfOthers
    <3>3. phase'[d] = "ghosts" /\ \A c \in Node \ {d} : phase'[c] = phase[c]
      BY <3>1 DEF Goto, Parts, CycleType
    <3>4. \A m \in list'[d] : m.node \notin last'[d]
      BY <3>1, <3>2 DEF Ghosts, tracker
    <3> QED
      BY <3>2, <3>3, <3>4 DEF TargetsUnlisted, OthersStay, Stable
  <2>2. CASE ~(Serves(d) /\ Ghosts(d, members) # {})
    BY <1>2, <2>2, MoveKeeps DEF ListMembers, BeginLoops
  <2> QED
    BY <2>1, <2>2
<1>3. CASE RemoveGhost(d)
  BY <1>3 DEF RemoveGhost, tracker, TargetsUnlisted, Stable
<1>4. CASE ListAgain(d)
  BY <1>4, MoveKeeps DEF ListAgain, BeginLoops
<1>5. CASE Judge(d)
  BY <1>5, JudgeKeeps
<1>6. CASE RemoveMember(d) \/ Promote(d)
  BY <1>6, MoveKeeps DEF RemoveMember, Promote
<1> QED
  BY <1>1, <1>2, <1>3, <1>4, <1>5, <1>6 DEF Daemon

LEMMA TargetsKeep ==
  ASSUME Contains = {}, Parts, TargetsUnlisted, [Next]_vars
  PROVE  TargetsUnlisted'
<1>1. ASSUME UNCHANGED <<tracker, cycle>> PROVE TargetsUnlisted'
  BY <1>1 DEF tracker, cycle, TargetsUnlisted, Stable
<1>2. ASSUME NEW n \in Node, Killed(n) PROVE TargetsUnlisted'
  <2>1. Goto(n, "idle") /\ Keep(n, {}) /\ Target(n, {})
    BY <1>2 DEF Killed, EndCycle
  <2>2. victim'[n] = {} /\ OthersStay(n)
    BY <1>2, <2>1 DEF Killed, Keep, Target, OthersStay, Parts, CycleType, TrackerType
  <2> QED
    BY <2>1, <2>2, RestKeeps
<1>3. ASSUME \/ FluxChanges \/ UNCHANGED vars
             \/ \E n \in Node : EtcdStart(n) \/ EtcdExits(n) \/ Placed(n)
      PROVE  UNCHANGED <<tracker, cycle>>
  BY <1>3 DEF FluxChanges, vars, EtcdStart, StartExisting, DropGhost, Register, Exec, Evicted,
              EtcdExits, Placed
<1> QED
  BY <1>1, <1>2, <1>3, DaemonTargets DEF Next

Safe == Parts /\ CountedAbsence /\ TargetsUnlisted

LEMMA SafeInductive ==
  ASSUME Contains = {}
  PROVE  (Init => Safe) /\ (Safe /\ [Next]_vars => Safe')
<1>1. Init => Safe
  BY InitHolds, TypeParts DEF IInv, Safe
<1>2. Safe /\ [Next]_vars => Safe'
  BY TypeKeeps, CountKeeps, TargetsKeep DEF Safe
<1> QED
  BY <1>1, <1>2

(* A member that answers is about to be removed only if its node was       *)
(* absent from as many polls in a row as the operator asked for, whatever  *)
(* several daemons, Flux and etcd-start do meanwhile (daemon.go:246), as   *)
(* long as no address is part of another.                                  *)
THEOREM EvictedAfterAbsenceHolds ==
  ASSUME Contains = {}
  PROVE  Spec => []EvictedAfterAbsence
<1>1. Safe => EvictedAfterAbsence
  <2>1. SUFFICES ASSUME Safe, NEW d \in Node, phase[d] = "evict", NEW m \in victim[d]
                 PROVE  missed[d][m.node] >= Stability
    BY DEF EvictedAfterAbsence
  <2>2. m.node \in Node
    BY <2>1 DEF Safe, Parts, CycleType, Entry
  <2>3. m.node \notin last[d] /\ count[d] >= Stability
    BY <2>1 DEF Safe, TargetsUnlisted, Stable
  <2>4. missed[d][m.node] >= count[d]
    BY <2>1, <2>2, <2>3 DEF Safe, CountedAbsence
  <2>5. missed[d][m.node] \in Nat /\ count[d] \in Nat
    BY <2>1, <2>2, StabilityAssumption DEF Safe, Parts, TrackerType
  <2> QED
    BY <2>3, <2>4, <2>5, StabilityAssumption
<1> QED
  BY <1>1, SafeInductive, PTL DEF Spec

-----------------------------------------------------------------------------
(* Whose an ID is.  etcd removes by ID, and a daemon asks for an entry as  *)
(* it was listed: what makes the two the same is that an ID, in the member *)
(* list or in any list that a daemon still works on, is that of one node.  *)

Known == members \cup UNION {list[d] : d \in Node}
OneNode == \A x, y \in Known : x.id = y.id => x.node = y.node

(* x is an entry that was known before, but for its status.                *)
WasKnown(x) == \E y \in Known : y.id = x.id /\ y.node = x.node

LEMMA OneNodeKept ==
  ASSUME OneNode, \A x \in Known' : WasKnown(x)
  PROVE  OneNode'
  BY DEF OneNode, WasKnown

LEMMA ListedFromMembers ==
  ASSUME Parts, NEW d \in Node, BeginLoops(d) \/ EndCycle(d)
  PROVE  \A c \in Node : list'[c] \subseteq members \cup list[c]
<1>1. PICK ms \in SUBSET members : Keep(d, ms)
  <2>1. CASE EndCycle(d)
    BY <2>1, {} \in SUBSET members DEF EndCycle
  <2>2. CASE BeginLoops(d)
    <3> DEFINE undesired == Undesired(d, members)
               promotable == Promotable(d, members)
               found == UNION {FindByClientIP(members, m.node) : m \in undesired}
    <3>1. found \cup promotable \in SUBSET members /\ {} \in SUBSET members
      BY DEF FindByClientIP, Promotable
    <3>2. Proceed(d, found \cup promotable, undesired \cup promotable)
      BY <2>2 DEF BeginLoops
    <3> HIDE DEF undesired, promotable, found
    <3> QED
      BY <3>1, <3>2 DEF Proceed, EndCycle
  <2> QED
    BY <2>1, <2>2
<1> QED
  BY <1>1 DEF Keep, Parts, CycleType

LEMMA ProceedLists ==
  ASSUME Parts, NEW d \in Node, NEW rest, Proceed(d, list[d], rest)
  PROVE  \A c \in Node : list'[c] \subseteq list[c]
<1>1. Keep(d, list[d]) \/ Keep(d, {})
  BY DEF Proceed, EndCycle
<1> QED
  BY <1>1 DEF Keep, Parts, CycleType

LEMMA DaemonKnows ==
  ASSUME Parts, NEW d \in Node, Daemon(d), NEW x \in Known'
  PROVE  WasKnown(x)
<1> USE DEF WasKnown, Known
<1>1. \A c \in Node : list'[c] \subseteq members \cup list[c]
  <2>1. CASE Poll(d) \/ RemoveGhost(d)
    BY <2>1 DEF Poll, RemoveGhost
  <2>2. CASE ListAgain(d)
    BY <2>2, ListedFromMembers DEF ListAgain
  <2>3. CASE ListMembers(d)
    <3>1. CASE Keep(d, Ghosts(d, members))
      BY <3>1 DEF Keep, Ghosts, Parts, CycleType
    <3> QED
      BY <2>3, <3>1, ListedFromMembers DEF ListMembers
  <2>4. CASE Judge(d)
    <3>1. CASE UNCHANGED list
      BY <3>1
    <3> QED
      BY <2>4, <3>1, ProceedLists DEF Judge
  <2>5. CASE RemoveMember(d) \/ Promote(d)
    BY <2>5, ProceedLists DEF RemoveMember, Promote
  <2> QED
    BY <2>1, <2>2, <2>3, <2>4, <2>5 DEF Daemon
<1>2. ASSUME NEW y \in members' PROVE \E z \in members : z.id = y.id /\ z.node = y.node
  <2>1. CASE Promote(d)
    <3>1. PICK v \in todo[d] : Command(d, AfterPromote(v))
      BY <2>1 DEF Promote
    <3>2. /\ [v EXCEPT !.status = "voter"].id = v.id
          /\ [v EXCEPT !.status = "voter"].node = v.node
      BY <3>1 DEF Parts, CycleType, Entry
    <3> QED
      BY <1>2, <3>1, <3>2 DEF Command, AfterPromote
  <2>2. CASE RemoveGhost(d) \/ RemoveMember(d)
    <3>1. members' \subseteq members
      BY <2>2 DEF RemoveGhost, RemoveMember, Command, AfterRemove
    <3> QED
      BY <1>2, <3>1
  <2>3. CASE UNCHANGED members
    BY <1>2, <2>3
  <2> QED
    BY <2>1, <2>2, <2>3 DEF Daemon, Poll, ListMembers, ListAgain, Judge
<1>3. CASE x \in members'
  BY <1>2, <1>3
<1>4. CASE \E c \in Node : x \in list'[c]
  BY <1>1, <1>4
<1> QED
  BY <1>3, <1>4

(* A registration takes an ID that nobody remembers.                       *)
LEMMA RegisterKnows ==
  ASSUME Parts, OneNode, NEW n \in Node, Register(n)
  PROVE  OneNode'
<1>1. UNCHANGED list
  BY DEF Register, cycle
<1>2. CASE UNCHANGED members
  BY <1>1, <1>2 DEF OneNode, Known
<1>3. CASE ~UNCHANGED members
  <2>1. PICK i \in NewIds : members' = members \cup {Added(i, n)}
    BY <1>3 DEF Register, IsLeastNewId
  <2>2. Known' = Known \cup {Added(i, n)}
    BY <1>1, <2>1 DEF Known
  <2>3. Added(i, n).id = i /\ \A x \in Known : x.id # i
    BY <2>1 DEF Added, NewIds, Known
  <2> QED
    BY <2>2, <2>3 DEF OneNode
<1> QED
  BY <1>2, <1>3

LEMMA StartKnows ==
  ASSUME Parts, NEW n \in Node, EtcdStart(n), ~Register(n), NEW x \in Known'
  PROVE  WasKnown(x)
<1>1. UNCHANGED list
  BY DEF EtcdStart, StartExisting, DropGhost, Exec, Evicted, cycle
<1>2. ASSUME NEW y \in members' PROVE \E z \in members : z.id = y.id /\ z.node = y.node
  <2>1. \A m \in EntryOf(n) : /\ [m EXCEPT !.status = "learner"].id = m.id
                              /\ [m EXCEPT !.status = "learner"].node = m.node
    BY DEF EntryOf, Parts, ClusterType, Entry
  <2>2. CASE y \in members
    BY <2>2
  <2>3. CASE y \notin members
    <3>1. Exec(n)
      BY <1>2, <2>3 DEF EtcdStart, StartExisting, DropGhost, Evicted
    <3>2. y \in {[m EXCEPT !.status = "learner"] : m \in EntryOf(n)}
      BY <1>2, <2>3, <3>1 DEF Exec
    <3>3. PICK m \in EntryOf(n) : y = [m EXCEPT !.status = "learner"]
      BY <3>2
    <3> QED
      BY <2>1, <3>3 DEF EntryOf
  <2> QED
    BY <2>2, <2>3
<1> QED
  BY <1>1, <1>2 DEF WasKnown, Known

LEMMA KnownKept ==
  ASSUME Parts, OneNode, [Next]_vars
  PROVE  OneNode'
<1>1. ASSUME NEW n \in Node, Daemon(n) PROVE OneNode'
  BY <1>1, DaemonKnows, OneNodeKept
<1>2. ASSUME NEW n \in Node, EtcdStart(n) PROVE OneNode'
  BY <1>2, RegisterKnows, StartKnows, OneNodeKept
<1>3. ASSUME NEW n \in Node, Killed(n) PROVE OneNode'
  <2>1. Known' \subseteq Known
    BY <1>3 DEF Killed, EndCycle, Keep, Known, Parts, CycleType
  <2> QED
    BY <2>1 DEF OneNode
<1>4. ASSUME \/ FluxChanges \/ UNCHANGED vars
             \/ \E n \in Node : EtcdExits(n) \/ Placed(n)
      PROVE  OneNode'
  <2>1. UNCHANGED <<members, list>>
    BY <1>4 DEF FluxChanges, vars, cycle, EtcdExits, Placed
  <2> QED
    BY <2>1 DEF OneNode, Known
<1> QED
  BY <1>1, <1>2, <1>3, <1>4 DEF Next

LEMMA KnownFirst == Init => OneNode
<1> SUFFICES ASSUME Init PROVE OneNode
  OBVIOUS
<1>1. PICK f \in [Initial -> 1..Cardinality(Initial)] :
        /\ \A a, b \in Initial : a # b => f[a] # f[b]
        /\ members = {Voting(f[n], n) : n \in Initial}
  BY DEF Init
<1>2. Known = members
  BY DEF Init, Known
<1> QED
  BY <1>1, <1>2 DEF OneNode, Voting

-----------------------------------------------------------------------------
(* What becomes of an entry.                                               *)

(* m has a successor in the next member list.                              *)
Stays(m) == \E x \in members' : x.id = m.id
Justified(m) ==
  \/ pc[m.node] = "down" /\ m.status = "added"
  \/ \E d \in Node : m.node \notin last[d] /\ m.id \in {x.id : x \in list[d]}

LEMMA DaemonRemoves ==
  ASSUME Safe, OneNode, NEW d \in Node, Daemon(d), NEW m \in members, ~Stays(m)
  PROVE  Justified(m)
<1> USE DEF Safe, Parts
<1>1. members' # members
  BY DEF Stays
<1>2. CASE RemoveGhost(d) \/ RemoveMember(d)
  <2>1. PICK v \in list[d] : Command(d, AfterRemove(v)) /\ v.node \notin last[d]
    <3>1. CASE RemoveGhost(d)
      <4>1. PICK v \in todo[d] : Command(d, AfterRemove(v))
        BY <3>1 DEF RemoveGhost
      <4>2. v \in list[d] /\ v.node \notin last[d]
        BY <3>1, <4>1 DEF RemoveGhost, CycleType, TargetsUnlisted
      <4> QED
        BY <4>1, <4>2
    <3>2. CASE RemoveMember(d)
      <4>1. PICK v \in victim[d] : Command(d, AfterRemove(v))
        BY <3>2 DEF RemoveMember
      <4>2. v \in list[d] /\ v.node \notin last[d]
        BY <4>1 DEF CycleType, TargetsUnlisted
      <4> QED
        BY <4>1, <4>2
    <3> QED
      BY <1>2, <3>1, <3>2
  <2>2. m.id = v.id
    BY <2>1 DEF Command, AfterRemove, Stays
  <2>3. m.node = v.node
    BY <2>1, <2>2 DEF OneNode, Known
  <2> QED
    BY <2>1, <2>2, <2>3 DEF Justified
<1>3. CASE Promote(d)
  <2>1. PICK v \in todo[d] : Command(d, AfterPromote(v))
    BY <1>3 DEF Promote
  <2>2. v \in Entry
    BY <2>1 DEF CycleType
  <2>3. [v EXCEPT !.status = "voter"].id = v.id
    BY <2>2 DEF Entry
  <2> QED
    BY <2>1, <2>3 DEF Command, AfterPromote, Stays
<1>4. CASE Poll(d) \/ ListMembers(d) \/ ListAgain(d) \/ Judge(d)
  BY <1>1, <1>4 DEF Poll, ListMembers, ListAgain, Judge
<1> QED
  BY <1>2, <1>3, <1>4 DEF Daemon

LEMMA StartRemoves ==
  ASSUME Safe, NEW n \in Node, EtcdStart(n), NEW m \in members, ~Stays(m)
  PROVE  Justified(m)
<1> USE DEF Safe, Parts
<1>1. CASE StartExisting(n) \/ Evicted(n)
  BY <1>1 DEF StartExisting, Evicted, Stays
<1>4. CASE Register(n)
  BY <1>4 DEF Register, Stays
<1>2. CASE DropGhost(n)
  <2>1. m \in EntryOf(n)
    BY <1>2 DEF DropGhost, Stays
  <2> QED
    BY <1>2, <2>1 DEF DropGhost, Unregistered, EntryOf, Started, Justified
<1>3. CASE Exec(n)
  <2>1. m \in EntryOf(n) => [m EXCEPT !.status = "learner"].id = m.id
    BY DEF ClusterType, Entry
  <2> QED
    BY <1>3, <2>1 DEF Exec, Stays
<1> QED
  BY <1>1, <1>2, <1>3, <1>4 DEF EtcdStart

(* An entry disappears only when its node registers anew, or by a daemon   *)
(* that has it, by its ID, in the list of its cycle and was told by Flux   *)
(* that the node is gone (daemon.go:205, 267), whatever has become of the  *)
(* entry since it was listed, as long as no address is part of another.    *)
THEOREM OnlyUndesiredRemovedHolds ==
  ASSUME Contains = {}
  PROVE  Spec => OnlyUndesiredRemoved
<1>1. ASSUME Safe, OneNode, [Next]_vars, NEW m \in members, ~Stays(m)
      PROVE  Justified(m)
  <2>1. ASSUME UNCHANGED members PROVE FALSE
    BY <1>1, <2>1 DEF Stays
  <2>2. ASSUME \/ FluxChanges \/ UNCHANGED vars
               \/ \E n \in Node : EtcdExits(n) \/ Placed(n) \/ Killed(n)
        PROVE  UNCHANGED members
    BY <2>2 DEF FluxChanges, vars, EtcdExits, Placed, Killed
  <2> QED
    BY <1>1, <2>1, <2>2, DaemonRemoves, StartRemoves DEF Next
<1>2. Safe /\ OneNode /\ [Next]_vars =>
        [\A m \in members : (\A x \in members' : x.id # m.id) =>
           \/ pc[m.node] = "down" /\ m.status = "added"
           \/ \E d \in Node : /\ m.node \notin last[d]
                              /\ m.id \in {x.id : x \in list[d]}]_vars
  BY <1>1 DEF Stays, Justified
<1>3. Safe /\ OneNode /\ [Next]_vars => (Safe /\ OneNode)'
  BY SafeInductive, KnownKept DEF Safe
<1>4. Init => Safe /\ OneNode
  BY SafeInductive, KnownFirst
<1> QED
  BY <1>2, <1>3, <1>4, PTL DEF Spec, OnlyUndesiredRemoved
=============================================================================
