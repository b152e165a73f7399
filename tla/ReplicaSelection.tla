--------------------------- MODULE ReplicaSelection -------------------------
(***************************************************************************)
(* The three loops by which evaluateRecoveryAuthority and                  *)
(* selectMostAdvancedReplica (cmd/flux-agent/bootstrap_identity.go) turn   *)
(* the evidence of one probe round into an authority: screen every         *)
(* sample, classify the copies by durable role, rank the replicas.  They   *)
(* are early-exit loops with running locals; what they are to compute is   *)
(* Authorities of module Evidence, which the protocol EpochBootstrap uses. *)
(*                                                                         *)
(* A loop visits its nodes in any order: the code has one (this node, then *)
(* its peers by address), and the result must not depend on it, because    *)
(* every node of the deployment runs the loops in an order of its own.     *)
(***************************************************************************)
EXTENDS Evidence

CONSTANTS
  Node,      \* this node and the peers it has results of
  View,      \* expectedView: the names in its ETCD_INITIAL_CLUSTER
  Samples    \* the results a probe may have

None == 0    \* no node: a nil pointer, and the answer "blocked"

ASSUME NodeAssumption == Node \subseteq Nat \ {0}
ASSUME SamplesAssumption ==
  Samples \subseteq [st : {"ok", "err"}, pg : PgState, etcdEmpty : BOOLEAN,
                     view : SUBSET Node]

VARIABLES
  ev,          \* ev[p]: the sample of p
  phase,       \* the loop that runs
  todo,        \* the nodes it has not visited yet
  data,        \* dataNodes
  first,       \* dataNodes[0]
  allEmpty,    \* allEtcdEmpty
  primary,     \* the durable primary found so far
  replicas,    \* the replicas found so far
  selected,    \* the replica ranked best so far
  answer       \* the authority, None if blocked

locals == <<data, first, allEmpty, primary, replicas, selected>>
vars == <<ev, phase, todo, locals, answer>>

Init ==
  /\ ev \in [Node -> Samples]
  /\ phase = "screen"
  /\ todo = Node
  /\ data = {}
  /\ first = None
  /\ allEmpty = TRUE
  /\ primary = None
  /\ replicas = {}
  /\ selected = None
  /\ answer = None

(* The function returns a: every later statement is skipped.               *)
Return(a) ==
  /\ phase' = "done"
  /\ answer' = a
  /\ UNCHANGED <<ev, todo, locals>>

(* The loop variable takes the value p.                                    *)
Visit(loop, p) ==
  /\ phase = loop
  /\ p \in todo
Advance(p) ==
  /\ todo' = todo \ {p}
  /\ UNCHANGED <<ev, phase, answer>>

(* A loop has visited all its nodes, and the next one starts on S.         *)
Through(loop) == phase = loop /\ todo = {}
Continue(loop, S) ==
  /\ phase' = loop
  /\ todo' = S
  /\ UNCHANGED <<ev, locals, answer>>

-----------------------------------------------------------------------------
Unusable(s) ==
  \/ s.st = "err"
  \/ s.view # View
  \/ s.pg.empty /\ s.pg # EmptyPg
  \/ ~s.pg.empty /\ s.pg.sys = 0

Screen(p) ==
  /\ Visit("screen", p)
  /\ ~Unusable(ev[p])
  /\ allEmpty' = (allEmpty /\ ev[p].etcdEmpty)
  /\ data' = IF ev[p].pg.empty THEN data ELSE data \cup {p}
  /\ first' = IF data = {} /\ ~ev[p].pg.empty THEN p ELSE first
  /\ Advance(p)
  /\ UNCHANGED <<primary, replicas, selected>>

ScreenBlocks(p) == Visit("screen", p) /\ Unusable(ev[p]) /\ Return(None)

(* No copy, the sole copy, or several of them with etcd state left.        *)
ScreenEnds ==
  /\ Through("screen")
  /\ \/ data = {} /\ Return(None)
     \/ \E a \in data : data = {a} /\ Return(a)
     \/ /\ data # {} /\ \A a \in data : data # {a}
        /\ IF allEmpty THEN Continue("classify", data) ELSE Return(None)

-----------------------------------------------------------------------------
Classify(p) ==
  /\ Visit("classify", p)
  /\ ev[p].pg.sys = ev[first].pg.sys
  /\ \/ /\ ev[p].pg.role = "primary" /\ primary = None
        /\ primary' = p
        /\ UNCHANGED replicas
     \/ /\ ev[p].pg.role = "replica"
        /\ replicas' = replicas \cup {p}
        /\ UNCHANGED primary
  /\ Advance(p)
  /\ UNCHANGED <<data, first, allEmpty, selected>>

(* Another database, a second durable primary, or an ambiguous role.       *)
ClassifyBlocks(p) ==
  /\ Visit("classify", p)
  /\ \/ ev[p].pg.sys # ev[first].pg.sys
     \/ ev[p].pg.role = "primary" /\ primary # None
     \/ ev[p].pg.role \notin {"primary", "replica"}
  /\ Return(None)

ClassifyEnds ==
  /\ Through("classify")
  /\ IF primary # None THEN Return(primary)
     ELSE IF replicas = {} THEN Return(None)
     ELSE Continue("rank", replicas)

-----------------------------------------------------------------------------
Comparable(d) ==
  /\ d.tl # 0 /\ d.lsn # 0
  /\ selected # None => d.tl = ev[selected].pg.tl

(* Mutant of Better: on a tie the node visited first stays.                *)
BetterFirstComeWins(p) ==
  selected = None \/ ev[p].pg.lsn > ev[selected].pg.lsn

Better(p) ==
  \/ selected = None
  \/ ev[p].pg.lsn > ev[selected].pg.lsn
  \/ ev[p].pg.lsn = ev[selected].pg.lsn /\ p < selected

Rank(p) ==
  /\ Visit("rank", p)
  /\ Comparable(ev[p].pg)
  /\ selected' = IF Better(p) THEN p ELSE selected
  /\ Advance(p)
  /\ UNCHANGED <<data, first, allEmpty, primary, replicas>>

RankBlocks(p) == Visit("rank", p) /\ ~Comparable(ev[p].pg) /\ Return(None)

RankEnds == Through("rank") /\ Return(selected)

-----------------------------------------------------------------------------
Next ==
  \/ ScreenEnds \/ ClassifyEnds \/ RankEnds
  \/ \E p \in Node :
       \/ Screen(p) \/ ScreenBlocks(p)
       \/ Classify(p) \/ ClassifyBlocks(p)
       \/ Rank(p) \/ RankBlocks(p)

Spec == Init /\ [][Next]_vars

(* Every local stays in its type.                                          *)
TypeOK ==
  /\ ev \in [Node -> Samples]
  /\ phase \in {"screen", "classify", "rank", "done"}
  /\ todo \subseteq Node
  /\ data \subseteq Node
  /\ first \in Node \cup {None}
  /\ allEmpty \in BOOLEAN
  /\ primary \in Node \cup {None}
  /\ replicas \subseteq data
  /\ selected \in replicas \cup {None}
  /\ answer \in Node \cup {None}

(***************************************************************************)
(* Whatever the order of the visits, the function answers with the one     *)
(* node that outranks every other copy in consistent evidence, and blocks  *)
(* exactly when there is none: no early exit hides an authority, and no    *)
(* node that exits later than another answers differently.                 *)
(***************************************************************************)
SelectionCorrect ==
  phase = "done" =>
    Authorities(ev, Node, View) = IF answer = None THEN {} ELSE {answer}
=============================================================================
