----------------------- MODULE ReplicaSelectionProofs -----------------------
(***************************************************************************)
(* The loops of ReplicaSelection compute Authorities of module Evidence,   *)
(* for every set of nodes, every view and every evidence.                  *)
(***************************************************************************)
EXTENDS ReplicaSelection, TLAPS

Seen == Node \ todo

(* What the screening loop has established about the nodes it has visited. *)
Screening == phase = "screen" =>
  /\ \A p \in Seen : ~Unusable(ev[p])
  /\ data = {p \in Seen : ~ev[p].pg.empty}
  /\ allEmpty <=> \A p \in Seen : ev[p].etcdEmpty
  /\ data # {} => first \in data
  /\ primary = None /\ replicas = {} /\ selected = None

(* What screening has left for the loops after it: several copies, in      *)
(* consistent evidence without any etcd state.                             *)
Contest ==
  /\ Consistent(ev, Node, View)
  /\ data = DataNodes(ev, Node)
  /\ \A p \in Node : ev[p].etcdEmpty
  /\ first \in data
  /\ \A a \in data : data # {a}
  /\ todo \subseteq data
  /\ \A p \in data \ todo : ev[p].pg.sys = ev[first].pg.sys

(* The copies visited are replicas, except for one primary.                *)
Classifying == phase = "classify" =>
  /\ Contest
  /\ selected = None
  /\ replicas = {p \in data \ todo : ev[p].pg.role = "replica"}
  /\ primary # None =>
       primary \in data \ todo /\ ev[primary].pg.role = "primary"
  /\ \A p \in data \ todo : p = primary \/ ev[p].pg.role = "replica"

(* All copies are replicas of one database, and the one selected outranks  *)
(* those visited.                                                          *)
Ranking == phase = "rank" =>
  /\ Contest
  /\ replicas = data
  /\ \A p \in data : ev[p].pg.role = "replica" /\ ev[p].pg.sys = ev[first].pg.sys
  /\ selected = None => todo = data
  /\ selected # None =>
       /\ selected \in data \ todo
       /\ ev[selected].pg.tl # 0 /\ ev[selected].pg.lsn # 0
       /\ \A b \in (data \ todo) \ {selected} :
            Outranks(selected, ev[selected].pg, b, ev[b].pg)

Inv ==
  /\ TypeOK
  /\ Screening
  /\ Classifying
  /\ Ranking
  /\ SelectionCorrect

-----------------------------------------------------------------------------
LEMMA SampleFacts ==
  ASSUME TypeOK, NEW p \in Node
  PROVE  /\ ev[p].st \in {"ok", "err"}
         /\ ev[p].pg.tl \in Nat /\ ev[p].pg.lsn \in Nat
         /\ ev[p].etcdEmpty \in BOOLEAN
         /\ ev[p].pg.empty \in BOOLEAN
         /\ p \in Nat /\ p # None
<1>1. ev[p] \in Samples
  BY DEF TypeOK
<1>2. /\ ev[p].st \in {"ok", "err"} /\ ev[p].pg \in PgState
      /\ ev[p].etcdEmpty \in BOOLEAN
  BY <1>1, SamplesAssumption
<1>3. p \in Nat /\ p # None
  BY NodeAssumption DEF None
<1> QED
  BY <1>2, <1>3 DEF PgState

(* A sample the screening rejects makes the evidence inconsistent.         *)
LEMMA UnusableMeansInconsistent ==
  ASSUME TypeOK
  PROVE  (\A p \in Node : ~Unusable(ev[p])) <=> Consistent(ev, Node, View)
<1>1. \A p \in Node : ~Unusable(ev[p]) <=>
        /\ ev[p].st = "ok" /\ ev[p].view = View
        /\ ev[p].pg.empty => ev[p].pg = EmptyPg
        /\ ~ev[p].pg.empty => ev[p].pg.sys # 0
  BY SampleFacts DEF Unusable
<1> QED
  BY <1>1 DEF Consistent

(* Of several copies none is an authority unless it outranks the others.   *)
LEMMA AuthorityOutranks ==
  ASSUME Contest, NEW a \in Authorities(ev, Node, View)
  PROVE  a \in data /\ \A b \in data \ {a} : Outranks(a, ev[a].pg, b, ev[b].pg)
  BY DEF Authorities, Contest

(* Only one node outranks all the others.                                  *)
LEMMA AuthorityUnique ==
  ASSUME TypeOK, Contest, NEW a \in data,
         \A b \in data \ {a} : Outranks(a, ev[a].pg, b, ev[b].pg)
  PROVE  Authorities(ev, Node, View) = {a}
<1>1. a \in Authorities(ev, Node, View)
  BY DEF Authorities, Contest
<1>2. ASSUME NEW c \in Authorities(ev, Node, View), c # a PROVE FALSE
  <2>1. c \in data /\ Outranks(c, ev[c].pg, a, ev[a].pg)
    BY <1>2, AuthorityOutranks
  <2>2. Outranks(a, ev[a].pg, c, ev[c].pg)
    BY <1>2, <2>1
  <2>3. a \in Node /\ c \in Node
    BY <2>1 DEF TypeOK
  <2> QED
    BY <2>1, <2>2, <2>3, SampleFacts DEF Outranks
<1> QED
  BY <1>1, <1>2

LEMMA InitInv == Init => Inv
<1> SUFFICES ASSUME Init PROVE Inv
  OBVIOUS
<1> USE DEF Init
<1>1. TypeOK
  BY DEF TypeOK
<1>2. Screening
  BY DEF Screening, Seen
<1> QED
  BY <1>1, <1>2 DEF Inv, Classifying, Ranking, SelectionCorrect

(* Leaving the function is all that ends an invariant but the answer's.    *)
LEMMA ReturnKeeps ==
  ASSUME Inv, NEW a \in Node \cup {None}, Return(a),
         Authorities(ev, Node, View) = IF a = None THEN {} ELSE {a}
  PROVE  Inv'
<1> USE DEF Return, locals
<1>1. TypeOK'
  BY DEF Inv, TypeOK
<1>2. SelectionCorrect'
  <2>1. ev' = ev /\ answer' = a
    OBVIOUS
  <2>2. Authorities(ev, Node, View)' = Authorities(ev, Node, View)
    BY <2>1
  <2> QED
    BY <2>1, <2>2 DEF SelectionCorrect
<1> QED
  BY <1>1, <1>2 DEF Inv, Screening, Classifying, Ranking

LEMMA ScreenKeeps ==
  ASSUME Inv, NEW p \in Node, Screen(p)
  PROVE  Inv'
<1> USE DEF Screen, Visit, Advance
<1>1. TypeOK'
  BY DEF Inv, TypeOK
<1>2. Seen' = Seen \cup {p}
  BY DEF Inv, TypeOK, Seen
<1>3. Screening'
  <2>1. Screening /\ phase = "screen" /\ ev' = ev
    BY DEF Inv
  <2>2. \A q \in Seen' : ~Unusable(ev[q])
    BY <1>2, <2>1 DEF Screening
  <2>3. data' = {q \in Seen' : ~ev[q].pg.empty}
    BY <1>2, <2>1 DEF Screening
  <2>4. allEmpty' <=> \A q \in Seen' : ev[q].etcdEmpty
    BY <1>2, <2>1 DEF Screening
  <2>5. data' # {} => first' \in data'
    BY <2>1 DEF Screening
  <2>6. \A q \in Seen' : ~Unusable(ev[q])'
    BY <2>1, <2>2 DEF Unusable
  <2> QED
    BY <2>1, <2>3, <2>4, <2>5, <2>6 DEF Screening
<1> QED
  BY <1>1, <1>3 DEF Inv, Classifying, Ranking, SelectionCorrect

LEMMA ScreenBlocksKeeps ==
  ASSUME Inv, NEW p \in Node, ScreenBlocks(p)
  PROVE  Inv'
<1>1. ~Consistent(ev, Node, View)
  BY UnusableMeansInconsistent DEF Inv, ScreenBlocks
<1>2. Authorities(ev, Node, View) = {}
  BY <1>1 DEF Authorities
<1> QED
  BY <1>2, ReturnKeeps DEF ScreenBlocks, None

LEMMA ScreenEndsKeeps ==
  ASSUME Inv, ScreenEnds
  PROVE  Inv'
<1>1. phase = "screen" /\ todo = {} /\ Seen = Node
  BY DEF ScreenEnds, Through, Seen
<1>2. Consistent(ev, Node, View) /\ data = DataNodes(ev, Node)
  BY <1>1, UnusableMeansInconsistent DEF Inv, Screening, DataNodes
<1>3. CASE data = {} /\ Return(None)
  BY <1>2, <1>3, ReturnKeeps DEF Authorities, None
<1>4. ASSUME NEW a \in data, data = {a}, Return(a) PROVE Inv'
  <2>1. a \in Node /\ a # None
    BY SampleFacts DEF Inv, TypeOK
  <2>2. Authorities(ev, Node, View) = {a}
    BY <1>2, <1>4 DEF Authorities
  <2> QED
    BY <1>4, <2>1, <2>2, ReturnKeeps
<1>5. ASSUME data # {}, \A a \in data : data # {a}, ~allEmpty, Return(None)
      PROVE Inv'
  <2>1. ~ \A p \in Node : ev[p].etcdEmpty
    BY <1>1, <1>5 DEF Inv, Screening
  <2>2. Authorities(ev, Node, View) = {}
    BY <1>2, <1>5, <2>1 DEF Authorities
  <2> QED
    BY <1>5, <2>2, ReturnKeeps DEF None
<1>6. ASSUME data # {}, \A a \in data : data # {a}, allEmpty,
             Continue("classify", data)
      PROVE Inv'
  <2> USE <1>6 DEF Continue, locals
  <2>1. TypeOK'
    BY DEF Inv, TypeOK
  <2>2. first \in data /\ \A p \in Node : ev[p].etcdEmpty
    BY <1>1 DEF Inv, Screening
  <2>3. Contest'
    BY <1>2, <2>2 DEF Contest, Consistent, DataNodes
  <2>4. Classifying'
    BY <1>1, <2>3 DEF Inv, Screening, Classifying, None
  <2> QED
    BY <2>1, <2>4 DEF Inv, Screening, Ranking, SelectionCorrect
<1> QED
  BY <1>3, <1>4, <1>5, <1>6 DEF ScreenEnds

LEMMA ClassifyKeeps ==
  ASSUME Inv, NEW p \in Node, Classify(p)
  PROVE  Inv'
<1> USE DEF Classify, Visit, Advance
<1>1. /\ phase = "classify" /\ Contest /\ p \in data /\ p \in todo
      /\ p # None /\ ev[p].pg.sys = ev[first].pg.sys
  BY SampleFacts DEF Inv, Classifying, Contest
<1>2. TypeOK'
  BY <1>1 DEF Inv, TypeOK
<1>3. data' \ todo' = (data \ todo) \cup {p}
  BY <1>1
<1>4. Contest'
  BY <1>1, <1>3 DEF Contest
<1>5. Classifying'
  <2>1. Classifying /\ data' = data /\ selected' = selected /\ ev' = ev
    BY DEF Inv
  <2>2. CASE ev[p].pg.role = "primary" /\ primary = None /\ primary' = p
             /\ UNCHANGED replicas
    <3>1. \A q \in data \ todo : ev[q].pg.role = "replica"
      BY <1>1, <2>1, <2>2, SampleFacts DEF Classifying, Inv, TypeOK
    <3>2. replicas = {q \in data \ todo : ev[q].pg.role = "replica"}
      BY <1>1, <2>1 DEF Classifying
    <3> QED
      BY <1>1, <1>3, <1>4, <2>1, <2>2, <3>1, <3>2 DEF Classifying
  <2>3. CASE ev[p].pg.role = "replica" /\ replicas' = replicas \cup {p}
             /\ UNCHANGED primary
    BY <1>1, <1>3, <1>4, <2>1, <2>3 DEF Classifying
  <2> QED
    BY <2>2, <2>3
<1> QED
  BY <1>1, <1>2, <1>5 DEF Inv, Screening, Ranking, SelectionCorrect

LEMMA ClassifyBlocksKeeps ==
  ASSUME Inv, NEW p \in Node, ClassifyBlocks(p)
  PROVE  Inv'
<1>1. TypeOK /\ Contest /\ Classifying /\ phase = "classify" /\ p \in data /\ p \in todo
  BY DEF Inv, Classifying, Contest, ClassifyBlocks, Visit
<1>2. ASSUME NEW a \in Authorities(ev, Node, View) PROVE FALSE
  <2>1. a \in data /\ \A b \in data \ {a} : Outranks(a, ev[a].pg, b, ev[b].pg)
    BY <1>1, <1>2, AuthorityOutranks
  <2>2. \A b \in data : ev[b].pg.sys = ev[a].pg.sys
    BY <2>1 DEF Outranks
  <2>3. CASE ev[p].pg.sys # ev[first].pg.sys
    BY <1>1, <2>2, <2>3 DEF Contest
  <2>4. CASE ev[p].pg.role = "primary" /\ primary # None
    BY <1>1, <2>1, <2>4 DEF Classifying, Outranks
  <2>5. CASE ev[p].pg.role \notin {"primary", "replica"}
    <3>1. PICK b \in data : b # a
      BY <1>1, <2>1 DEF Contest
    <3> QED
      BY <1>1, <2>1, <2>5, <3>1 DEF Outranks
  <2> QED
    BY <2>3, <2>4, <2>5 DEF ClassifyBlocks
<1> QED
  BY <1>2, ReturnKeeps DEF ClassifyBlocks, None

LEMMA ClassifyEndsKeeps ==
  ASSUME Inv, ClassifyEnds
  PROVE  Inv'
<1>1. /\ TypeOK /\ Contest /\ Classifying /\ phase = "classify" /\ todo = {}
      /\ data \subseteq Node
  BY DEF Inv, Classifying, ClassifyEnds, Through, TypeOK
<1>2. CASE primary # None /\ Return(primary)
  <2>1. primary \in data /\ ev[primary].pg.role = "primary"
    BY <1>1, <1>2 DEF Classifying
  <2>2. \A b \in data \ {primary} : Outranks(primary, ev[primary].pg, b, ev[b].pg)
    BY <1>1, <2>1 DEF Classifying, Contest, Outranks
  <2>3. Authorities(ev, Node, View) = {primary}
    BY <1>1, <2>1, <2>2, AuthorityUnique
  <2> QED
    BY <1>1, <1>2, <2>1, <2>3, ReturnKeeps
<1>3. CASE primary = None /\ replicas = {} /\ Return(None)
  BY <1>1, <1>3 DEF Classifying, Contest
<1>4. CASE primary = None /\ replicas # {} /\ Continue("rank", replicas)
  <2> USE <1>4 DEF Continue, locals
  <2>1. TypeOK'
    BY <1>1 DEF TypeOK
  <2>2. replicas = data /\ \A q \in data : ev[q].pg.role = "replica"
    BY <1>1, SampleFacts DEF Classifying
  <2>3. Contest' /\ \A q \in data : ev[q].pg.sys = ev[first].pg.sys
    BY <1>1, <2>2 DEF Contest
  <2>4. Ranking'
    BY <1>1, <2>2, <2>3 DEF Classifying, Ranking
  <2> QED
    BY <2>1, <2>4 DEF Inv, Screening, Classifying, SelectionCorrect
<1> QED
  BY <1>2, <1>3, <1>4 DEF ClassifyEnds

LEMMA RankKeeps ==
  ASSUME Inv, NEW p \in Node, Rank(p)
  PROVE  Inv'
<1> USE DEF Rank, Visit, Advance
<1>1. /\ TypeOK /\ Contest /\ Ranking /\ phase = "rank" /\ p \in data /\ p \in todo
      /\ data \subseteq Node
  BY DEF Inv, Ranking, Contest, TypeOK
<1>2. TypeOK'
  BY <1>1 DEF TypeOK, Ranking
<1>3. data' \ todo' = (data \ todo) \cup {p}
  BY <1>1
<1>4. Contest'
  BY <1>1, <1>3 DEF Contest, Ranking
<1>5. Ranking'
  <2>1. \A q \in data : /\ ev[q].pg.role = "replica" /\ ev[q].pg.sys = ev[first].pg.sys
                        /\ ev[q].pg.tl \in Nat /\ ev[q].pg.lsn \in Nat /\ q \in Nat
    BY <1>1, SampleFacts DEF Ranking
  <2>2. p # None /\ ev[p].pg.tl # 0 /\ ev[p].pg.lsn # 0
    BY SampleFacts, <1>1 DEF Comparable
  <2>3. CASE selected = None
    BY <1>1, <1>3, <1>4, <2>1, <2>2, <2>3 DEF Ranking, Better
  <2>4. CASE selected # None
    <3>1. /\ selected \in data \ todo /\ ev[p].pg.tl = ev[selected].pg.tl
          /\ ev[selected].pg.tl # 0 /\ ev[selected].pg.lsn # 0
          /\ \A b \in (data \ todo) \ {selected} :
               Outranks(selected, ev[selected].pg, b, ev[b].pg)
      BY <1>1, <2>4 DEF Ranking, Comparable
    <3>2. CASE Better(p)
      <4>1. selected' = p
        BY <3>2
      <4>2. Outranks(p, ev[p].pg, selected, ev[selected].pg)
        BY <1>1, <2>1, <2>2, <2>4, <3>1, <3>2 DEF Better, Outranks
      <4>3. \A b \in data \ todo : Outranks(p, ev[p].pg, b, ev[b].pg)
        BY <1>1, <2>1, <3>1, <4>2 DEF Outranks
      <4> QED
        BY <1>1, <1>3, <1>4, <2>1, <2>2, <4>1, <4>3 DEF Ranking
    <3>3. CASE ~Better(p)
      <4>1. selected' = selected
        BY <3>3
      <4>2. Outranks(selected, ev[selected].pg, p, ev[p].pg)
        BY <1>1, <2>1, <2>2, <3>1, <3>3 DEF Better, Outranks
      <4> QED
        BY <1>1, <1>3, <1>4, <2>1, <3>1, <4>1, <4>2 DEF Ranking
    <3> QED
      BY <3>2, <3>3
  <2> QED
    BY <2>3, <2>4
<1> QED
  BY <1>1, <1>2, <1>5 DEF Inv, Screening, Classifying, SelectionCorrect

LEMMA RankBlocksKeeps ==
  ASSUME Inv, NEW p \in Node, RankBlocks(p)
  PROVE  Inv'
<1>1. /\ TypeOK /\ Contest /\ Ranking /\ phase = "rank" /\ p \in data /\ p \in todo
      /\ ~Comparable(ev[p].pg)
  BY DEF Inv, Ranking, Contest, RankBlocks, Visit
<1>2. ASSUME NEW a \in Authorities(ev, Node, View) PROVE FALSE
  <2>1. a \in data /\ \A b \in data \ {a} : Outranks(a, ev[a].pg, b, ev[b].pg)
    BY <1>1, <1>2, AuthorityOutranks
  <2>2. PICK c \in data : c # a
    BY <1>1, <2>1 DEF Contest
  <2>3. \A b \in data \ {a} :
          /\ ev[b].pg.tl = ev[a].pg.tl /\ ev[b].pg.lsn # 0
          /\ ev[a].pg.tl # 0 /\ ev[a].pg.lsn # 0
    BY <1>1, <2>1 DEF Outranks, Ranking
  <2>4. \A b \in data : ev[b].pg.tl = ev[a].pg.tl /\ ev[b].pg.tl # 0 /\ ev[b].pg.lsn # 0
    BY <2>2, <2>3
  <2> QED
    BY <1>1, <2>4 DEF Comparable, Ranking
<1> QED
  BY <1>1, <1>2, ReturnKeeps DEF RankBlocks, None

LEMMA RankEndsKeeps ==
  ASSUME Inv, RankEnds
  PROVE  Inv'
<1>1. TypeOK /\ Contest /\ Ranking /\ phase = "rank" /\ todo = {} /\ data \subseteq Node
  BY DEF Inv, Ranking, RankEnds, Through, TypeOK
<1>2. /\ selected \in data
      /\ \A b \in data \ {selected} : Outranks(selected, ev[selected].pg, b, ev[b].pg)
  BY <1>1 DEF Ranking, Contest
<1>3. Authorities(ev, Node, View) = {selected}
  BY <1>1, <1>2, AuthorityUnique
<1>4. selected \in Node /\ selected # None
  BY <1>1, <1>2, SampleFacts
<1> QED
  BY <1>3, <1>4, ReturnKeeps DEF RankEnds

LEMMA StepKeeps == Inv /\ [Next]_vars => Inv'
<1> SUFFICES ASSUME Inv, [Next]_vars PROVE Inv'
  OBVIOUS
<1>1. CASE Next
  BY <1>1, ScreenKeeps, ScreenBlocksKeeps, ScreenEndsKeeps, ClassifyKeeps,
     ClassifyBlocksKeeps, ClassifyEndsKeeps, RankKeeps, RankBlocksKeeps,
     RankEndsKeeps DEF Next
<1>2. CASE UNCHANGED vars
  BY <1>2 DEF vars, locals, Inv, TypeOK, Screening, Seen, Unusable, Classifying,
     Contest, Ranking, SelectionCorrect, Consistent, DataNodes, Authorities
<1> QED
  BY <1>1, <1>2

(* The loops of evaluateRecoveryAuthority and selectMostAdvancedReplica    *)
(* compute the unique authority of the evidence, and block exactly when it *)
(* has none, in whatever order they visit the nodes.                       *)
THEOREM SelectionComputesAuthority == Spec => []SelectionCorrect
<1>1. Inv => SelectionCorrect
  BY DEF Inv
<1> QED
  BY <1>1, InitInv, StepKeeps, PTL DEF Spec
-----------------------------------------------------------------------------
(* Whatever a round has answered, for any view and any nodes asked, the     *)
(* policy of evaluateRecoveryAuthority names at most one of them: nodes     *)
(* that see the same cannot both found an epoch.                           *)
THEOREM AtMostOneAuthority ==
  ASSUME NEW answers, NEW S \in SUBSET Nat, NEW V,
         \A p \in S : answers[p].pg \in PgState,
         NEW a \in Authorities(answers, S, V), NEW b \in Authorities(answers, S, V)
  PROVE  a = b
<1> SUFFICES ASSUME a # b PROVE FALSE
  OBVIOUS
<1>1. a \in DataNodes(answers, S) /\ b \in DataNodes(answers, S)
  BY DEF Authorities
<1>2. /\ Outranks(a, answers[a].pg, b, answers[b].pg)
      /\ Outranks(b, answers[b].pg, a, answers[a].pg)
  BY <1>1 DEF Authorities
<1>3. /\ a \in Nat /\ b \in Nat
      /\ answers[a].pg.lsn \in Nat /\ answers[b].pg.lsn \in Nat
  BY <1>1 DEF DataNodes, PgState
<1> QED
  BY <1>2, <1>3 DEF Outranks
=============================================================================
