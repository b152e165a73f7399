------------------------- MODULE MCReplicaSelection -------------------------
(* Values for the constants of ReplicaSelection that a .cfg cannot write.  *)
EXTENDS ReplicaSelection

Copy(sys, role, tl, lsn) ==
  [empty |-> FALSE, sys |-> sys, role |-> role, tl |-> tl, lsn |-> lsn]

(* Read while initdb creates the control file: empty, but with a system ID *)
TornPg == [EmptyPg EXCEPT !.sys = 7]

MCDisks ==
  {EmptyPg, TornPg, PartialPg,
   Copy(7, "primary", 1, 2), Copy(8, "primary", 1, 2),
   Copy(7, "replica", 1, 1), Copy(7, "replica", 1, 2), Copy(7, "replica", 2, 1),
   Copy(7, "replica", 0, 0), Copy(7, "", 0, 0)}

MCSamples ==
  {ErrSample, OkSample(EmptyPg, TRUE, {1})}
  \cup {OkSample(d, fresh, Node) : d \in MCDisks, fresh \in BOOLEAN}
=============================================================================
