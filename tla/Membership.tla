------------------------------ MODULE Membership ------------------------------
(***************************************************************************)
(* How the members of the etcd cluster follow the list of nodes that Flux  *)
(* publishes: the membership part of runReconcile                          *)
(* (cmd/flux-agent/daemon.go), which runs on every node on member lists    *)
(* that are seconds old, and etcd-start of the nodes that come and go,     *)
(* which register themselves as learners (tryJoinExistingWithLoader).      *)
(*                                                                         *)
(* One etcd cluster, in which no quorum is lost for good; its loss is the  *)
(* subject of Outage.  A node stands for its address.                      *)
(* External: etcd answers member calls on a voter while a quorum of voters *)
(* runs, has one learner at a time, adds a member only while all voters    *)
(* run, and refuses a removal that costs the quorum.  An etcd that has     *)
(* been removed exits.                                                     *)
(***************************************************************************)
EXTENDS Naturals, FiniteSets

CONSTANTS
  Node,          \* the nodes
  Contains,      \* <<a, b>>: the client address of a has that of b inside it
  Initial,       \* the nodes Flux lists to start with
  Roaming,       \* the nodes that Flux drops and lists again
  Stability,     \* DESIRED_STATE_STABILITY_CYCLES
  MaxId,         \* member IDs in use or remembered at a time: a bound for TLC
  Faults,        \* the kinds of disturbance that happen
  MaxFaults      \* how many disturbances happen: a bound for TLC

ASSUME NodeAssumption == IsFiniteSet(Node)
ASSUME ContainsAssumption == Contains \subseteq Node \X Node
ASSUME InitialAssumption == Initial \subseteq Node /\ Initial # {} /\ Roaming \subseteq Node
ASSUME StabilityAssumption == Stability \in Nat \ {0}
ASSUME BoundAssumption == MaxId \in Nat /\ Cardinality(Initial) <= MaxId /\ MaxFaults \in Nat

Id == 1..MaxId
Status == {"added", "learner", "voter"}
Entry == [id : Id, node : Node, status : Status]

VARIABLES
  flux,     \* the nodes the Flux API lists
  members,  \* the member entries of etcd; "added": not started, without a name
  place,    \* place[n]: n has no container, one with an empty disk, or with etcd data
  pc,       \* pc[n]: etcd-start runs ("down"), is about to exec members, etcd is up
  last,     \* last[d]: the list the daemon of d polled last (state tracker)
  count,    \* count[d]: in how many polls in a row, at most Stability
  phase,    \* phase[d]: where the daemon is in its cycle
  list,     \* list[d]: the member list it works on
  todo,     \* todo[d]: what its present loop has not come to
  victim,   \* victim[d]: the entries it is about to remove, at most one
  missed,   \* missed[d][n]: polls of d in a row without n (history variable)
  faults    \* how many disturbances have happened

cycle == <<phase, list, todo, victim>>
tracker == <<last, count, missed>>
vars == <<flux, members, place, pc, tracker, cycle, faults>>

-----------------------------------------------------------------------------
(* Mutant of AtMost: the bound is missed by one.                           *)
AtMostPlusOne(i, cap) == IF i > cap + 1 THEN cap + 1 ELSE i

AtMost(i, cap) == IF i > cap THEN cap ELSE i

EntryOf(n) == {m \in members : m.node = n}
Started(m) == m.status # "added"
Voters(ms) == {m \in ms : m.status = "voter"}
Up(ms) == {m \in ms : pc[m.node] = "up"}
QuorumOf(ms) == 2 * Cardinality(Up(Voters(ms))) > Cardinality(Voters(ms))
HasQuorum == QuorumOf(members)

(* n answers member calls.                                                 *)
Serves(n) == /\ pc[n] = "up"
             /\ n \in {m.node : m \in Voters(members)}
             /\ HasQuorum

(* What member remove does to the list, and promote.  Both go by the ID:   *)
(* an entry that was unstarted when it was listed is removed although it   *)
(* is that of a running learner by now, or of a voter.                     *)
Removable(m) == m.status = "voter" => QuorumOf(members \ {m}) /\ Voters(members \ {m}) # {}
AfterRemove(m) == members \ {x \in members : x.id = m.id /\ Removable(x)}
AfterPromote(m) == IF m \in members /\ pc[m.node] = "up"
                     THEN (members \ {m}) \cup {[m EXCEPT !.status = "voter"]}
                     ELSE members

Voting(i, n) == [id |-> i, node |-> n, status |-> "voter"]

Init ==
  /\ flux = Initial
  /\ \E f \in [Initial -> 1..Cardinality(Initial)] :
       /\ \A a, b \in Initial : a # b => f[a] # f[b]
       /\ members = {Voting(f[n], n) : n \in Initial}
  /\ place = [n \in Node |-> IF n \in Initial THEN "data" ELSE "none"]
  /\ pc = [n \in Node |-> IF n \in Initial THEN "up" ELSE "down"]
  /\ last = [d \in Node |-> {}]
  /\ count = [d \in Node |-> 0]
  /\ phase = [d \in Node |-> "idle"]
  /\ list = [d \in Node |-> {}]
  /\ todo = [d \in Node |-> {}]
  /\ victim = [d \in Node |-> {}]
  /\ missed = [d \in Node |-> [n \in Node |-> 0]]
  /\ faults = 0

-----------------------------------------------------------------------------
(* The daemon.                                                             *)

Goto(d, p) == phase' = [phase EXCEPT ![d] = p]
Keep(d, ms) == list' = [list EXCEPT ![d] = ms]
Left(d, ms) == todo' = [todo EXCEPT ![d] = ms]
Target(d, ms) == victim' = [victim EXCEPT ![d] = ms]
EndCycle(d) == Goto(d, "idle") /\ Keep(d, {}) /\ Left(d, {}) /\ Target(d, {})
Stable(d) == count[d] >= Stability

(* Mutant of NextCount: a list that differs does not start a new count.    *)
NextCountGoesOn(d) == AtMost(count[d] + 1, Stability)

(* updateStateTracker: the number of polls in a row with the same list.    *)
NextCount(d) == IF flux = last[d] THEN AtMost(count[d] + 1, Stability) ELSE 1

(* ListIPs has answered with a list; otherwise there is no cycle.          *)
Poll(d) ==
  /\ place[d] # "none" /\ phase[d] = "idle"
  /\ last' = [last EXCEPT ![d] = flux]
  /\ count' = [count EXCEPT ![d] = NextCount(d)]
  /\ missed' = [missed EXCEPT ![d] =
       [n \in Node |-> IF n \in flux THEN 0 ELSE AtMost(@[n] + 1, Stability)]]
  /\ Goto(d, "polled")
  /\ UNCHANGED <<flux, members, place, pc, list, todo, victim, faults>>

(* Mutant of Ghosts: unstarted members, whoever they belong to.            *)
GhostsOfAnybody(d, ms) == {m \in ms : ~Started(m)}

(* Unstarted members that are not desired.                                 *)
Ghosts(d, ms) == {m \in ms : ~Started(m) /\ m.node \notin last[d]}
(* Members with a client URL that are not desired: step 6 of the cycle.    *)
Undesired(d, ms) == {m \in ms : Started(m) /\ m.node \notin last[d]}
(* Learners with a name that are desired: step 7.                          *)
Promotable(d, ms) == {m \in ms : m.status = "learner" /\ m.node \in last[d]}

(* FindByClientIP returns the first entry, in an order nobody fixes, whose *)
(* client URL has the address of n inside it.                              *)
FindByClientIP(ms, n) ==
  {m \in ms : Started(m) /\ (m.node = n \/ <<m.node, n>> \in Contains)}

(* The rest of a cycle on the entries ms, of which rest is still to do.    *)
Proceed(d, ms, rest) ==
  IF rest = {} THEN EndCycle(d)
  ELSE Goto(d, "members") /\ Keep(d, ms) /\ Left(d, rest) /\ Target(d, {})

(* The loops after ghost cleanup begin on what they use of a fresh list.   *)
BeginLoops(d) ==
  LET undesired == Undesired(d, members)
      promotable == Promotable(d, members)
      found == UNION {FindByClientIP(members, m.node) : m \in undesired}
  IN Proceed(d, found \cup promotable, undesired \cup promotable)

(* The member list is read, and read again after the ghosts are removed;   *)
(* without an answer the cycle has nothing left to do.                     *)
ListMembers(d) ==
  /\ phase[d] = "polled"
  /\ LET ghosts == Ghosts(d, members)
     IN IF Serves(d) /\ ghosts # {}
          THEN Goto(d, "ghosts") /\ Keep(d, ghosts) /\ Left(d, ghosts) /\ Target(d, {})
          ELSE IF Serves(d) THEN BeginLoops(d) ELSE EndCycle(d)
  /\ UNCHANGED <<flux, members, place, pc, tracker, faults>>

(* An etcd command of d takes effect if its etcd serves.                   *)
Command(d, after) == members' = IF Serves(d) THEN after ELSE members

RemoveGhost(d) ==
  /\ phase[d] = "ghosts"
  /\ \E m \in todo[d] : Command(d, AfterRemove(m)) /\ Left(d, todo[d] \ {m})
  /\ UNCHANGED <<flux, place, pc, tracker, phase, list, victim, faults>>

ListAgain(d) ==
  /\ phase[d] = "ghosts" /\ todo[d] = {}
  /\ IF Serves(d) THEN BeginLoops(d) ELSE EndCycle(d)
  /\ UNCHANGED <<flux, members, place, pc, tracker, faults>>

(* Mutant of MayGo: a member is asked to answer before it may be removed.  *)
MayGoAnswering(d, n) == Serves(n) /\ Stable(d)

(* Who does not answer goes at once, who answers only if the list is       *)
(* stable.                                                                 *)
MayGo(d, n) == Serves(n) => Stable(d)

(* The loop over current members, up to the call of MemberRemove.          *)
Judge(d) ==
  /\ phase[d] = "members"
  /\ \E m \in todo[d] :
       /\ m.node \notin last[d]
       /\ IF ~MayGo(d, m.node)
            THEN Proceed(d, list[d], todo[d] \ {m})
            ELSE /\ \E f \in FindByClientIP(list[d], m.node) : Target(d, {f})
                 /\ Goto(d, IF Serves(m.node) THEN "evict" ELSE "drop")
                 /\ Left(d, todo[d] \ {m})
                 /\ UNCHANGED list
  /\ UNCHANGED <<flux, members, place, pc, tracker, faults>>

RemoveMember(d) ==
  /\ phase[d] \in {"evict", "drop"}
  /\ \E m \in victim[d] : Command(d, AfterRemove(m))
  /\ Proceed(d, list[d], todo[d])
  /\ UNCHANGED <<flux, place, pc, tracker, faults>>

Promote(d) ==
  /\ phase[d] = "members" /\ todo[d] \subseteq Promotable(d, list[d])
  /\ \E m \in todo[d] : /\ Command(d, AfterPromote(m))
                        /\ Proceed(d, list[d], todo[d] \ {m})
  /\ UNCHANGED <<flux, place, pc, tracker, faults>>

Daemon(d) ==
  \/ Poll(d)
  \/ ListMembers(d)
  \/ RemoveGhost(d)
  \/ ListAgain(d)
  \/ Judge(d)
  \/ RemoveMember(d)
  \/ Promote(d)

-----------------------------------------------------------------------------
(* etcd-start and etcd.                                                    *)

PeerServes(n) == \E p \in Node \ {n} : Serves(p)
GotoStart(n, p) == pc' = [pc EXCEPT ![n] = p]

(* A peer knows n by name, or none answers and n keeps the data it has.    *)
StartExisting(n) ==
  /\ place[n] # "none" /\ pc[n] = "down"
  /\ \E m \in EntryOf(n) : Started(m)
  /\ PeerServes(n) \/ place[n] = "data"
  /\ GotoStart(n, "up")
  /\ place' = [place EXCEPT ![n] = "data"]
  /\ UNCHANGED <<flux, members, tracker, cycle, faults>>

(* etcd takes one learner at a time, and none while a voter is down.       *)
Accepts(ms) == /\ Voters(ms) = Up(Voters(ms))
               /\ ms \subseteq Voters(ms)

(* The ID of a new entry is that of no other that anyone remembers.        *)
NewIds == Id \ {m.id : m \in members \cup UNION {list[d] : d \in Node}}
IsLeastNewId(i) == i \in NewIds /\ \A j \in NewIds : i <= j
Added(i, n) == [id |-> i, node |-> n, status |-> "added"]

(* No peer knows n by name.  A registration that was never used is removed *)
(* first; 2 s pass before n is added.                                      *)
Unregistered(n) ==
  /\ place[n] # "none" /\ pc[n] = "down" /\ PeerServes(n)
  /\ \A m \in EntryOf(n) : ~Started(m)

DropGhost(n) ==
  /\ Unregistered(n) /\ EntryOf(n) # {}
  /\ members' = members \ EntryOf(n)
  /\ place' = [place EXCEPT ![n] = "empty"]
  /\ UNCHANGED <<flux, pc, tracker, cycle, faults>>

(* Data is wiped and n is added; if etcd refuses, n tries again.           *)
Register(n) ==
  /\ Unregistered(n) /\ EntryOf(n) = {}
  /\ \/ /\ Accepts(members)
        /\ \E i \in Id : IsLeastNewId(i) /\ members' = members \cup {Added(i, n)}
        /\ GotoStart(n, "exec")
     \/ ~Accepts(members) /\ place[n] = "data" /\ UNCHANGED <<members, pc>>
  /\ place' = [place EXCEPT ![n] = "empty"]
  /\ UNCHANGED <<flux, tracker, cycle, faults>>

(* etcd starts under the entry, or exits because that has been removed.    *)
Exec(n) ==
  /\ pc[n] = "exec"
  /\ EntryOf(n) = {} \/ HasQuorum
  /\ IF EntryOf(n) # {}
       THEN /\ members' = (members \ EntryOf(n)) \cup
                            {[m EXCEPT !.status = "learner"] : m \in EntryOf(n)}
            /\ place' = [place EXCEPT ![n] = "data"]
            /\ GotoStart(n, "up")
       ELSE GotoStart(n, "down") /\ UNCHANGED <<members, place>>
  /\ UNCHANGED <<flux, tracker, cycle, faults>>

(* A member learns that it has been removed.                               *)
Evicted(n) ==
  /\ pc[n] = "up" /\ EntryOf(n) = {}
  /\ GotoStart(n, "down")
  /\ UNCHANGED <<flux, members, place, tracker, cycle, faults>>

EtcdStart(n) == StartExisting(n) \/ DropGhost(n) \/ Register(n) \/ Exec(n) \/ Evicted(n)

-----------------------------------------------------------------------------
(* Flux and the disturbances.                                              *)

Disturb(k) == k \in Faults /\ faults < MaxFaults /\ faults' = faults + 1

FluxChanges ==
  /\ Disturb("flux")
  /\ \E n \in Roaming : flux' = IF n \in flux THEN flux \ {n} ELSE flux \cup {n}
  /\ flux' # {}
  /\ UNCHANGED <<members, place, pc, tracker, cycle>>

EtcdExits(n) ==
  /\ Disturb("exit")
  /\ pc[n] # "down"
  /\ GotoStart(n, "down")
  /\ UNCHANGED <<flux, members, place, tracker, cycle>>

(* Flux runs the container of a listed node and ends that of another.      *)
Placed(n) ==
  /\ n \in flux /\ place[n] = "none"
  /\ place' = [place EXCEPT ![n] = "empty"]
  /\ UNCHANGED <<flux, members, pc, tracker, cycle, faults>>

Killed(n) ==
  /\ n \notin flux /\ place[n] # "none"
  /\ place' = [place EXCEPT ![n] = "none"]
  /\ GotoStart(n, "down")
  /\ last' = [last EXCEPT ![n] = {}]
  /\ count' = [count EXCEPT ![n] = 0]
  /\ missed' = [missed EXCEPT ![n] = [x \in Node |-> 0]]
  /\ EndCycle(n)
  /\ UNCHANGED <<flux, members, faults>>

Next ==
  \/ FluxChanges
  \/ \E n \in Node :
       \/ Daemon(n)
       \/ EtcdStart(n)
       \/ EtcdExits(n)
       \/ Placed(n)
       \/ Killed(n)

(* Daemon and etcd-start are loops that supervisord keeps alive; Flux acts *)
(* on its own list some day.                                               *)
Fairness == \A n \in Node :
  /\ WF_vars(Daemon(n))
  /\ WF_vars(EtcdStart(n))
  /\ WF_vars(Placed(n))
  /\ WF_vars(Killed(n))

Spec == Init /\ [][Next]_vars
LiveSpec == Spec /\ Fairness

-----------------------------------------------------------------------------
(* Every variable holds a value of its type, and an entry that a daemon    *)
(* remembers was a member once.                                            *)
TypeOK ==
  /\ flux \in (SUBSET Node) \ {{}}
  /\ members \subseteq Entry
  /\ place \in [Node -> {"none", "empty", "data"}]
  /\ pc \in [Node -> {"down", "exec", "up"}]
  /\ last \in [Node -> SUBSET Node]
  /\ count \in [Node -> 0..Stability]
  /\ phase \in [Node -> {"idle", "polled", "ghosts", "members", "evict", "drop"}]
  /\ {list, todo, victim} \subseteq [Node -> SUBSET Entry]
  /\ \A d \in Node : todo[d] \cup victim[d] \subseteq list[d]
  /\ missed \in [Node -> [Node -> 0..Stability]]
  /\ faults \in 0..MaxFaults

(* A member that answers is removed only after its node was absent from as *)
(* many polls in a row as the operator asked for, whatever else changed in *)
(* the list meanwhile: the "safety gate against transient API errors" of   *)
(* daemon.go:246.                                                          *)
EvictedAfterAbsence ==
  \A d \in Node : phase[d] = "evict" =>
    \A m \in victim[d] : missed[d][m.node] >= Stability

(* An entry disappears only if its node registers anew, or a daemon that   *)
(* has it in the list of its cycle was told by Flux that the node is gone. *)
(* A removal decided before hits the entry it was decided about, even if   *)
(* that is a running learner or a voter by now (daemon.go:205, 267), but   *)
(* never the entry under which a node has come back.                       *)
OnlyUndesiredRemoved ==
  [][\A m \in members : (\A x \in members' : x.id # m.id) =>
       \/ pc[m.node] = "down" /\ m.status = "added"
       \/ \E d \in Node : /\ m.node \notin last[d]
                          /\ m.id \in {x.id : x \in list[d]}]_vars

(* If the quorum is not lost for good, the voters are at last the nodes    *)
(* that Flux lists, with nobody else left in the member list.              *)
Settled == /\ Voters(members) = members
           /\ {m.node : m \in members} = flux
Converges == <>[]HasQuorum => <>[]Settled

=============================================================================
