---------------------------- MODULE BackupStore ----------------------------
(***************************************************************************)
(* What the backup agent promises to whoever has to restore: a store of     *)
(* verified backups, numbered in the order in which they were made.  A      *)
(* backup appears at once and verified, it may take the place of one older  *)
(* backup, and old backups go one at a time, but never the last one made.   *)
(***************************************************************************)
EXTENDS Naturals

VARIABLES
  kept,     \* the numbers of the backups that are offered
  latest    \* the number of the last one made

Init == kept = {} /\ latest = 0

Make ==
  /\ latest' = latest + 1
  /\ \/ kept' = kept \cup {latest'}
     \/ \E old \in kept : kept' = (kept \ {old}) \cup {latest'}

Discard ==
  /\ \E old \in kept \ {latest} : kept' = kept \ {old}
  /\ UNCHANGED latest

Next == Make \/ Discard

Spec == Init /\ [][Next]_<<kept, latest>>
=============================================================================
