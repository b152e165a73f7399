------------------------------- MODULE Backup -------------------------------
(***************************************************************************)
(* The backup agent (cmd/flux-agent/backup.go): dump the database into a   *)
(* temporary file, verify it, rename it to its final name, prune.  The     *)
(* directory is a volume that outlives the process; the process may be     *)
(* killed between any two of its steps and is started again by             *)
(* supervisord.  A file is named after the second its dump began and aged  *)
(* by its modification time, both taken from a clock that an NTP client    *)
(* may set back.                                                           *)
(*                                                                         *)
(* External: pg_dumpall writes a whole dump, or a cut one, or fails; a     *)
(* call on the directory may fail.  pg_dump ends the part of each database *)
(* with the marker that verifyDump searches, so a dump is whole, or cut    *)
(* after the marker of some database, or cut before the first.  Whether    *)
(* this node is the primary decides only whether a cycle starts; it may be *)
(* asked at any time.                                                      *)
(***************************************************************************)
EXTENDS Naturals, FiniteSetsExt

CONSTANTS
  Retain,       \* BACKUP_RETENTION_COUNT, at least 1
  Cap,          \* BACKUP_MAX_TOTAL_BYTES, 0: unlimited
  Sizes,        \* how large a dump may be
  MaxDumps,     \* how many cycles begin: a bound for TLC
  Faults,       \* the kinds of failure that happen
  MaxFaults     \* how many of them: a bound for TLC

FaultKind == {"crash", "dump", "io", "clock"}

ASSUME RetainAssumption == Retain \in Nat \ {0}
ASSUME CapAssumption == Cap \in Nat /\ Sizes \subseteq Nat
ASSUME BoundAssumption == MaxDumps \in Nat /\ MaxFaults \in Nat
ASSUME FaultsAssumption == Faults \subseteq FaultKind

VARIABLES
  files,     \* the published backups in BACKUP_DIR
  tmps,      \* the names whose .tmp file is in BACKUP_DIR
  clock,     \* the wall clock
  pc,        \* the step of the backup cycle
  cur,       \* name of this cycle's file: its timestamp
  draft,     \* content and modification time of this cycle's .tmp file
  hidden,    \* files whose Info() failed when this cycle read the directory
  victims,   \* files the retention loop still has to remove
  latest,    \* number of the last backup published (history variable)
  clean,     \* the last cycle ended without a failure (history variable)
  steady,    \* the clock was never set back and no listing missed a file
             \* (history variable)
  dumps,     \* how many cycles have begun
  faults     \* how many failures have happened

dir == <<files, tmps>>
cycle == <<pc, cur, draft, hidden, victims>>
vars == <<dir, clock, cycle, latest, clean, steady, dumps, faults>>

Content == {"whole", "part", "stub"}
Marked == {"whole", "part"}
NoDraft == [content |-> "stub", size |-> 0, mod |-> 0]
Bytes(S) == MapThenSumSet(LAMBDA f : f.size, S)

Fault(k) == k \in Faults /\ faults < MaxFaults /\ faults' = faults + 1

(* The cycle is over, or the process is: its locals are gone.              *)
Rest(ok) ==
  /\ pc' = "idle"
  /\ cur' = 0
  /\ draft' = NoDraft
  /\ hidden' = {}
  /\ victims' = {}
  /\ clean' = ok

Init ==
  /\ files = {} /\ tmps = {}
  /\ clock = 1
  /\ pc = "idle" /\ cur = 0 /\ draft = NoDraft
  /\ hidden = {} /\ victims = {}
  /\ latest = 0
  /\ clean = FALSE
  /\ steady = TRUE
  /\ dumps = 0
  /\ faults = 0

-----------------------------------------------------------------------------
(* O_TRUNC: a .tmp file of that name starts over.                          *)
StartDump ==
  /\ pc = "idle"
  /\ dumps < MaxDumps
  /\ pc' = "dump"
  /\ cur' = clock
  /\ tmps' = tmps \cup {clock}
  /\ clean' = FALSE
  /\ dumps' = dumps + 1
  /\ UNCHANGED <<files, clock, draft, hidden, victims, latest, steady, faults>>

(* writeDump returns no error, whatever is in the file.  Time has passed.  *)
DumpEnds ==
  /\ pc = "dump"
  /\ pc' = "verify"
  /\ clock' = clock + 1
  /\ \E size \in Sizes, content \in Content :
       /\ draft' = [content |-> content, size |-> size, mod |-> clock + 1]
       /\ IF content = "whole" THEN UNCHANGED faults ELSE Fault("dump")
  /\ UNCHANGED <<dir, cur, hidden, victims, latest, clean, steady, dumps>>

(* A failed step removes the .tmp file and ends the cycle.                 *)
Discard ==
  /\ tmps' = tmps \ {cur}
  /\ Rest(FALSE)
  /\ UNCHANGED <<files, clock, latest, steady, dumps>>

DumpFails == pc = "dump" /\ Fault("dump") /\ Discard

(* Mutant of Verified: the exit status of pg_dumpall is trusted.           *)
Trusted == TRUE

(* verifyDump: a marker is somewhere in the stream.  The search ends there, *)
(* so what follows, or is missing after it, is not looked at.              *)
Verified == draft.content \in Marked

VerifyFails == pc = "verify" /\ ~Verified /\ Discard /\ UNCHANGED faults

RenameFails == pc = "verify" /\ Verified /\ Fault("io") /\ Discard

(* Rename is atomic, and replaces a file of the same name.                 *)
Publish ==
  /\ pc = "verify" /\ Verified
  /\ files' = {f \in files : f.name # cur}
              \cup {[name |-> cur, mod |-> draft.mod, size |-> draft.size,
                     content |-> draft.content, number |-> latest + 1]}
  /\ tmps' = tmps \ {cur}
  /\ latest' = latest + 1
  /\ pc' = "list"
  /\ UNCHANGED <<clock, cur, draft, hidden, victims, clean, steady, dumps, faults>>

-----------------------------------------------------------------------------
(* What this cycle knows of the directory: a file whose Info() fails is    *)
(* passed over, by the retention and by the size loop.                     *)
Listed == files \ hidden

(* pruneBackups reads the directory.                                       *)
ListFiles ==
  /\ pc = "list"
  /\ pc' = "sort"
  /\ \/ UNCHANGED <<hidden, steady, faults>>
     \/ Fault("io") /\ (\E f \in files : hidden' = {f}) /\ steady' = FALSE
  /\ UNCHANGED <<dir, clock, cur, draft, victims, latest, clean, dumps>>

(* Keep is what sorting by modification time leaves in front; the sort is  *)
(* not stable, so files of one time may be in either order.                *)
NewestByTime(Keep) ==
  /\ Keep \subseteq Listed
  /\ Cardinality(Keep) = IF Cardinality(Listed) < Retain
                           THEN Cardinality(Listed) ELSE Retain
  /\ \A k \in Keep, f \in Listed \ Keep : k.mod >= f.mod

(* Mutant of Victims: the file just made is not spared.                    *)
VictimsByTimeOnly(Keep) == Listed \ Keep
Victims(Keep) == {f \in Listed \ Keep : f.name # cur}

(* pruneBackups sorts what it has read, and begins to remove.              *)
Select ==
  /\ pc = "sort"
  /\ \E Keep \in SUBSET Listed : NewestByTime(Keep) /\ victims' = Victims(Keep)
  /\ pc' = "prune"
  /\ clean' = TRUE
  /\ UNCHANGED <<dir, clock, cur, draft, hidden, latest, steady, dumps, faults>>

ListFails ==
  /\ pc = "list"
  /\ Fault("io")
  /\ Rest(FALSE)
  /\ UNCHANGED <<dir, clock, latest, steady, dumps>>

(* The retention loop removes from the newest to the oldest; a file that   *)
(* cannot be removed is kept.                                              *)
Prune ==
  /\ pc = "prune"
  /\ \E f \in victims :
       /\ \A g \in victims : g.mod <= f.mod
       /\ victims' = victims \ {f}
       /\ \/ files' = files \ {f} /\ UNCHANGED <<clean, faults>>
          \/ Fault("io") /\ clean' = FALSE /\ UNCHANGED files
  /\ UNCHANGED <<tmps, clock, pc, cur, draft, hidden, latest, steady, dumps>>

PruneEnds ==
  /\ pc = "prune" /\ victims = {}
  /\ pc' = "cap"
  /\ UNCHANGED <<dir, clock, cur, draft, hidden, victims, latest, clean, steady, dumps, faults>>

(* Mutant of OverCap: the size loop stops one file too early.              *)
OverCapKeepsTwo == Cap > 0 /\ Cardinality(Listed) > 2 /\ Bytes(Listed) > Cap
OverCap == Cap > 0 /\ Cardinality(Listed) > 1 /\ Bytes(Listed) > Cap

Oldest(f) == f \in Listed /\ \A g \in Listed : f.mod <= g.mod

(* One iteration of the size loop.                                         *)
DropOldest ==
  /\ pc = "cap" /\ OverCap
  /\ \E f \in files :
       /\ Oldest(f) /\ f.name # cur
       /\ \/ files' = files \ {f} /\ UNCHANGED <<cycle, clean, faults>>
          \/ Fault("io") /\ Rest(FALSE) /\ UNCHANGED files
  /\ UNCHANGED <<tmps, clock, latest, steady, dumps>>

(* Under the cap, or the oldest file is the one just made.                 *)
CycleEnds ==
  /\ pc = "cap"
  /\ ~OverCap \/ \E f \in files : Oldest(f) /\ f.name = cur
  /\ Rest(clean)
  /\ UNCHANGED <<dir, clock, latest, steady, dumps, faults>>

-----------------------------------------------------------------------------
(* The container or the process is killed.                                 *)
Crash ==
  /\ pc # "idle"
  /\ Fault("crash")
  /\ Rest(FALSE)
  /\ UNCHANGED <<dir, clock, latest, steady, dumps>>

ClockSetBack ==
  /\ Fault("clock")
  /\ \E t \in 1..clock : t < clock /\ clock' = t
  /\ steady' = FALSE
  /\ UNCHANGED <<dir, cycle, latest, clean, dumps>>

Next ==
  \/ StartDump \/ DumpEnds \/ DumpFails \/ VerifyFails \/ RenameFails
  \/ Publish \/ ListFiles \/ ListFails \/ Select \/ Prune \/ PruneEnds \/ DropOldest \/ CycleEnds
  \/ Crash \/ ClockSetBack

Spec == Init /\ [][Next]_vars

-----------------------------------------------------------------------------
(***************************************************************************)
(* backup.go:48: "The just-made backup is never pruned".  Once a backup has *)
(* been published, the last one published is in the directory, and it is    *)
(* one that carried a marker: no failure, no crash between two steps, no    *)
(* retention, no file that a listing missed and no clock set back takes it  *)
(* away or puts an unverified file in its place.  It does not say that the  *)
(* backup is whole; verifyDump cannot tell.                                 *)
(***************************************************************************)
LatestKept ==
  latest > 0 => \E f \in files : f.number = latest /\ f.content \in Marked

(* The backups in the directory are the most recent ones, without a gap.   *)
MostRecent == \A f \in files : \A i \in f.number..latest :
                \E g \in files : g.number = i

(***************************************************************************)
(* README.md:173-174: after a cycle in which nothing failed, the directory *)
(* holds the most recent backups, no more than BACKUP_RETENTION_COUNT of   *)
(* them, and no more than the cap allows unless one is left; whatever      *)
(* earlier cycles left behind when they were cut short.  "Most recent"     *)
(* goes by the clock and by what a listing shows, so this is said of a     *)
(* clock that was never set back and of listings that missed no file.      *)
(***************************************************************************)
RetentionHolds ==
  steady /\ pc = "idle" /\ clean =>
    /\ MostRecent
    /\ Cardinality(files) <= Retain
    /\ Cap > 0 /\ Bytes(files) > Cap => Cardinality(files) = 1

(***************************************************************************)
(* The directory implements the abstract store of BackupStore: whatever    *)
(* fails, is killed or is set back, a backup appears by one rename after it *)
(* has passed the check (backup.go:115-142), nothing the check has not      *)
(* passed is ever offered, and files go one by one without the last made.   *)
(* What the store promises of a backup is what verifyDump establishes: the  *)
(* dump got as far as the end of one database.                              *)
(***************************************************************************)
Offered == {f.number : f \in {g \in files : g.content \in Marked}}

Store == INSTANCE BackupStore WITH kept <- Offered, latest <- latest

ImplementsStore == Store!Spec
=============================================================================
