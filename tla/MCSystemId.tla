----------------------------- MODULE MCSystemId -----------------------------
(* Values for the constants of SystemId that a .cfg cannot write.          *)
EXTENDS SystemId

(* Node 1 has a database, node 2 the same, another one or none.            *)
OneOrTwoDatabases == {pgs \in [Node -> 0..2] : pgs[1] = 1}
=============================================================================
