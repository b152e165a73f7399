--------------------------- MODULE AtomicFounding ---------------------------
(***************************************************************************)
(* What etcd-start promises: an epoch is founded as if its founder had      *)
(* looked at all expected members at one instant.  Here it does look, in    *)
(* the step that founds; there are no probes, rounds, samples or loaded     *)
(* views.  Disks change and get lost at any time, nodes join at any time.   *)
(***************************************************************************)
EXTENDS Evidence

CONSTANT
  AllowNew  \* the nodes on which the operator overrides all evidence

VARIABLES
  pg,       \* what each node has of PostgreSQL
  epoch,    \* the epoch of each node's etcd data, 0: none
  founded,  \* on which view and how a node has founded the epoch it has
  born      \* how many epochs have been founded

NotFounder == [view |-> {}, how |-> "none"]

Init ==
  /\ \A n \in DOMAIN pg : epoch[n] = 0 /\ founded[n] = NotFounder
  /\ born = 0

(* Nobody on the view has data that initdb would leave behind.             *)
NoData(V) == \A x \in V : ~Readable(pg[x])

(* n has the copy that goes first of those on the view.                    *)
HasBest(n, V) ==
  /\ Readable(pg[n])
  /\ \A x \in V \ {n} : Readable(pg[x]) => Outranks(n, pg[n], x, pg[x])

(* No other member has data and an epoch it has founded on this view.      *)
NoRival(n, V) ==
  \A x \in V \ {n} : \A h \in {"fresh", "recover"} :
    Readable(pg[x]) => founded[x] # [view |-> V, how |-> h]

Entitled(n, V, how) ==
  \/ how = "override" /\ n \in AllowNew
  \/ how = "fresh" /\ n \in V /\ NoData(V) /\ NoRival(n, V)
  \/ how = "recover" /\ HasBest(n, V) /\ (n \in V => NoRival(n, V))

Found(n) ==
  /\ epoch[n] = 0
  /\ Entitled(n, founded'[n].view, founded'[n].how)
  /\ founded' = [founded EXCEPT ![n] = founded'[n]]
  /\ born' = born + 1
  /\ epoch' = [epoch EXCEPT ![n] = born']
  /\ UNCHANGED pg

Join(n) ==
  /\ epoch[n] = 0
  /\ epoch'[n] \in 1..born
  /\ epoch' = [epoch EXCEPT ![n] = epoch'[n]]
  /\ UNCHANGED <<pg, founded, born>>

Lose(n) ==
  /\ epoch' = [epoch EXCEPT ![n] = 0]
  /\ founded' = [founded EXCEPT ![n] = NotFounder]
  /\ UNCHANGED <<pg, born>>

Change(n) ==
  /\ pg' = [pg EXCEPT ![n] = pg'[n]]
  /\ UNCHANGED <<epoch, founded, born>>

Next == \E n \in DOMAIN pg : Found(n) \/ Join(n) \/ Lose(n) \/ Change(n)

Spec == Init /\ [][Next]_<<pg, epoch, founded, born>>
=============================================================================
