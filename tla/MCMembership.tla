---------------------------- MODULE MCMembership ----------------------------
(* Values for the constants of Membership that a .cfg cannot write.        *)
EXTENDS Membership

(* No address is part of another.                                          *)
Unalike == {}
(* The client address of 1 has that of 3 inside it, as 110.0.0.1:2379 has  *)
(* 10.0.0.1:2379.                                                          *)
OneContainsThree == {<<1, 3>>}
=============================================================================
