------------------------------ MODULE Evidence ------------------------------
(***************************************************************************)
(* What a node may conclude from the identities its peers report.          *)
(* cmd/flux-agent/bootstrap_identity.go keeps this policy free of I/O      *)
(* ("pure so the safety policy can be exhaustively unit tested"); so does  *)
(* this module: constant operators over samples, shared by every module    *)
(* that founds or recovers an etcd epoch.                                  *)
(*                                                                         *)
(* Node names are naturals: the code orders names as strings and uses the  *)
(* order for nothing but "smallest".  An app name, scope or node name that *)
(* does not match, an HTTP error, and the fallback to Patroni's REST API   *)
(* (whose answer carries no membership view, so it can only block) are one *)
(* thing here: a sample whose status is "err".                             *)
(***************************************************************************)
EXTENDS Integers

(***************************************************************************)
(* PGDATA as the identity endpoint describes it.  sys = 0: the control     *)
(* file is unreadable; role = "": no global/ directory, or not readable;   *)
(* tl = 0 or lsn = 0: no readable durable WAL position.                    *)
(***************************************************************************)
EmptyPg == [empty |-> TRUE, sys |-> 0, role |-> "", tl |-> 0, lsn |-> 0]

PgState == [empty : BOOLEAN, sys : Nat, role : {"", "primary", "replica"},
            tl : Nat, lsn : Nat]

(* A directory that is not empty and belongs to no readable cluster: a     *)
(* base backup or an initdb that has not finished.                         *)
PartialPg == [empty |-> FALSE, sys |-> 0, role |-> "", tl |-> 0, lsn |-> 0]

(* A copy that counts as positive evidence.                                *)
Readable(d) == ~d.empty /\ d.sys # 0

NoSample == [st |-> "none", pg |-> EmptyPg, etcdEmpty |-> TRUE, view |-> {}]
ErrSample == [st |-> "err", pg |-> EmptyPg, etcdEmpty |-> TRUE, view |-> {}]
OkSample(d, fresh, view) ==
  [st |-> "ok", pg |-> d, etcdEmpty |-> fresh, view |-> view]

(* bootstrapCandidate(V) = n; false of every n when V is empty.            *)
IsCandidate(n, V) == n \in V /\ \A m \in V : n <= m

(* Mutant of FreshEvidence: a peer that does not answer counts as empty.   *)
FreshEvidenceTimeoutIsEmpty(s, n, V) ==
  \A p \in V \ {n} :
    s[p].st = "ok" => /\ s[p].pg.empty /\ s[p].pg.sys = 0
                      /\ s[p].etcdEmpty
                      /\ s[p].view = V

(***************************************************************************)
(* evaluateFreshPeerEvidence: s maps each peer to its sample.              *)
(***************************************************************************)
FreshEvidence(s, n, V) ==
  \A p \in V \ {n} :
    /\ s[p].st = "ok"
    /\ s[p].pg.empty /\ s[p].pg.sys = 0
    /\ s[p].etcdEmpty
    /\ s[p].view = V

DataNodes(ev, S) == {p \in S : ~ev[p].pg.empty}

(* Mutant of Consistent: nodes that do not answer are skipped.             *)
ConsistentSkipsSilent(ev, S, V) ==
  \A p \in S :
    ev[p].st = "ok" => /\ ev[p].view = V
                       /\ ev[p].pg.empty => ev[p].pg = EmptyPg
                       /\ ~ev[p].pg.empty => ev[p].pg.sys # 0

(* The checks every sample passes before any authority is looked for.      *)
Consistent(ev, S, V) ==
  \A p \in S :
    /\ ev[p].st = "ok"
    /\ ev[p].view = V
    /\ ev[p].pg.empty => ev[p].pg = EmptyPg
    /\ ~ev[p].pg.empty => ev[p].pg.sys # 0

(* Mutant of Outranks: the least advanced replica wins.                    *)
OutranksReversed(a, da, b, db) ==
  /\ da.sys = db.sys
  /\ db.role = "replica"
  /\ \/ da.role = "primary"
     \/ /\ da.role = "replica"
        /\ da.tl = db.tl /\ da.tl # 0 /\ da.lsn # 0 /\ db.lsn # 0
        /\ da.lsn < db.lsn \/ (da.lsn = db.lsn /\ a < b)

(* Mutant of Outranks: on a tie each of two replicas takes itself for the   *)
(* most advanced one.                                                      *)
OutranksTied(a, da, b, db) ==
  /\ da.sys = db.sys
  /\ db.role = "replica"
  /\ \/ da.role = "primary"
     \/ /\ da.role = "replica"
        /\ da.tl = db.tl /\ da.tl # 0 /\ da.lsn # 0 /\ db.lsn # 0
        /\ da.lsn >= db.lsn

(***************************************************************************)
(* a is preferred to b: the one durable primary among replicas, and among  *)
(* replicas of one timeline the larger WAL position, the smaller name on   *)
(* a tie.  The loop of selectMostAdvancedReplica computes the maximum of   *)
(* this relation (module ReplicaSelection).                                *)
(***************************************************************************)
Outranks(a, da, b, db) ==
  /\ da.sys = db.sys
  /\ db.role = "replica"
  /\ \/ da.role = "primary"
     \/ /\ da.role = "replica"
        /\ da.tl = db.tl /\ da.tl # 0 /\ da.lsn # 0 /\ db.lsn # 0
        /\ da.lsn > db.lsn \/ (da.lsn = db.lsn /\ a < b)

(* Mutant of Authorities: copies are compared although etcd state is left. *)
AuthoritiesNoEtcdCheck(ev, S, V) ==
  {a \in DataNodes(ev, S) :
     /\ Consistent(ev, S, V)
     /\ \A b \in DataNodes(ev, S) \ {a} : Outranks(a, ev[a].pg, b, ev[b].pg)}

(***************************************************************************)
(* evaluateRecoveryAuthority over the nodes S = {self} \cup V: the set of  *)
(* nodes it may return, which has at most one element.                     *)
(***************************************************************************)
Authorities(ev, S, V) ==
  {a \in DataNodes(ev, S) :
     /\ Consistent(ev, S, V)
     /\ \/ DataNodes(ev, S) = {a}
        \/ /\ \A p \in S : ev[p].etcdEmpty
           /\ \A b \in DataNodes(ev, S) \ {a} :
                Outranks(a, ev[a].pg, b, ev[b].pg)}
=============================================================================
