------------------------------ MODULE MCProxy ------------------------------
(* Constants for TLC: this node, two others, and lists with and without this node. *)
EXTENDS Proxy

MCLists == {{1, 2}, {1, 2, 3}, {2, 3}}
=============================================================================
