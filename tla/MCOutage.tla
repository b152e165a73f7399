------------------------------ MODULE MCOutage ------------------------------
(* Values for the constants of Outage that a .cfg cannot write.            *)
EXTENDS Outage

Copy(sys, role, tl, lsn) ==
  [empty |-> FALSE, sys |-> sys, role |-> role, tl |-> tl, lsn |-> lsn]

PrimaryCopy == Copy(7, "primary", 1, 2)
ReplicaCopy == Copy(7, "replica", 1, 2)

Disks(Pgs, Epochs) == [Node -> [pg : Pgs, epoch : Epochs]]

(* All etcd data is lost, and every node has a replica.                    *)
TotalLoss == Disks({ReplicaCopy}, {0})
(* The data and etcd of node 1 are what is left.                           *)
SoleSurvivor ==
  {[n \in Node |-> IF n = 1 THEN [pg |-> PrimaryCopy, epoch |-> 1]
                             ELSE [pg |-> EmptyPg, epoch |-> 0]]}
(* Everything runs.                                                        *)
Healthy == Disks({EmptyPg, PrimaryCopy}, {1})

MCLosses == TotalLoss \cup SoleSurvivor
=============================================================================
