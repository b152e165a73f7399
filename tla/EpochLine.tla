------------------------------ MODULE EpochLine ------------------------------
(***************************************************************************)
(* What the handling of an etcd outage promises to PostgreSQL.  The etcd    *)
(* epochs of a deployment form a line.  A new one is founded by the one     *)
(* node whose copy of the data goes first, and only when no node has etcd   *)
(* data of any epoch left, or when that node has the only copy.  All other  *)
(* nodes get etcd data from one that has it, so while there are two copies  *)
(* no epoch that was left behind ever comes back.                           *)
(***************************************************************************)
EXTENDS Evidence

VARIABLES
  data,     \* what each node has of PostgreSQL
  current,  \* the epoch founded last
  holders,  \* the nodes with etcd data of that epoch
  stale     \* the nodes with etcd data of an earlier one

line == <<data, current, holders, stale>>

Copies == {n \in DOMAIN data : ~data[n].empty}

(* Whose copy goes first: who is the authority once all etcd data is lost. *)
Heirs == Authorities([p \in DOMAIN data |-> OkSample(data[p], TRUE, DOMAIN data)],
                     DOMAIN data, DOMAIN data)

Init == current = 1 /\ stale = {}

Found ==
  /\ current' = current + 1
  /\ \E a \in Heirs :
       /\ holders \cup stale = {} \/ Copies = {a}
       /\ holders' = {a}
       /\ stale' = (holders \cup stale) \ {a}

(* A node without etcd data gets that of a node that has it.               *)
Adopt ==
  /\ holders # {}
  /\ \E n \in holders' : n \notin holders \cup stale /\ holders' = holders \cup {n}
  /\ UNCHANGED <<current, stale>>

Revert ==
  /\ stale # {}
  /\ \E n \in stale' : n \notin holders \cup stale /\ stale' = stale \cup {n}
  /\ UNCHANGED <<current, holders>>

Lose ==
  /\ \E n \in holders \cup stale : holders' = holders \ {n} /\ stale' = stale \ {n}
  /\ UNCHANGED current

Next == (Found \/ Adopt \/ Revert \/ Lose) /\ UNCHANGED data

Spec == Init /\ [][Next]_line

(***************************************************************************)
(* While two nodes have copies of the data, all the etcd data there is      *)
(* belongs to one epoch, the last one.                                      *)
(***************************************************************************)
NoRelapse == stale # {} => \A a, b \in Copies : a = b
=============================================================================
