---------------------------- MODULE BackupProofs ----------------------------
(***************************************************************************)
(* Proofs about Backup, for every retention, cap and kind of failure.      *)
(***************************************************************************)
EXTENDS Backup, FiniteSetTheorems, TLAPS

(* Between its publication and the end of the cycle, the backup just made  *)
(* is in the directory under its name, and is not to be removed.           *)
CurrentSafe == pc \in {"list", "sort", "prune", "cap"} =>
  /\ \E f \in files : f.name = cur /\ f.number = latest /\ f.content \in Marked
  /\ pc = "prune" => \A v \in victims : v.name # cur

IInv == latest \in Nat /\ LatestKept /\ CurrentSafe

(* A step that leaves the directory and ends the cycle keeps all.          *)
LEMMA RestKeeps ==
  ASSUME IInv, NEW ok, Rest(ok), UNCHANGED <<files, latest>>
  PROVE  IInv'
  BY DEF IInv, Rest, LatestKept, CurrentSafe

LEMMA PublishKeeps ==
  ASSUME IInv, Publish
  PROVE  IInv'
<1> DEFINE new == [name |-> cur, mod |-> draft.mod, size |-> draft.size,
                   content |-> draft.content, number |-> latest + 1]
<1>1. new \in files' /\ latest' = latest + 1 /\ cur' = cur /\ pc' = "list"
  BY DEF Publish
<1>2. new.name = cur /\ new.number = latest + 1 /\ new.content \in Marked
  BY DEF Publish, Verified
<1> HIDE DEF new
<1> QED
  BY <1>1, <1>2 DEF IInv, LatestKept, CurrentSafe

(* Whatever the loops remove is not the backup just made.                  *)
LEMMA RemoveKeeps ==
  ASSUME IInv, NEW f \in files, f.name # cur, pc \in {"prune", "cap"},
         files' = files \ {f}, UNCHANGED <<pc, cur, latest>>,
         victims' \subseteq victims
  PROVE  IInv'
<1>1. PICK g \in files : g.name = cur /\ g.number = latest /\ g.content \in Marked
  BY DEF IInv, CurrentSafe
<1>2. g \in files'
  BY <1>1
<1> QED
  BY <1>1, <1>2 DEF IInv, LatestKept, CurrentSafe

LEMMA PruneKeeps ==
  ASSUME IInv, Prune
  PROVE  IInv'
<1>1. PICK f \in victims : /\ victims' = victims \ {f}
                           /\ files' = files \ {f} \/ UNCHANGED files
  BY DEF Prune
<1>2. f.name # cur /\ UNCHANGED <<pc, cur, latest>> /\ pc = "prune"
  BY DEF Prune, IInv, CurrentSafe
<1>3. CASE f \in files /\ files' = files \ {f}
  BY <1>1, <1>2, <1>3, RemoveKeeps
<1>4. CASE UNCHANGED files
  BY <1>1, <1>2, <1>4 DEF IInv, LatestKept, CurrentSafe
<1> QED
  BY <1>1, <1>3, <1>4

LEMMA DropOldestKeeps ==
  ASSUME IInv, DropOldest
  PROVE  IInv'
<1>1. PICK f \in files :
        /\ f.name # cur
        /\ \/ files' = files \ {f} /\ UNCHANGED cycle
           \/ Rest(FALSE) /\ UNCHANGED files
  BY DEF DropOldest
<1>2. pc = "cap" /\ UNCHANGED latest
  BY DEF DropOldest
<1>3. CASE files' = files \ {f} /\ UNCHANGED cycle
  BY <1>1, <1>2, <1>3, RemoveKeeps DEF cycle
<1>4. CASE Rest(FALSE) /\ UNCHANGED files
  BY <1>2, <1>4, RestKeeps
<1> QED
  BY <1>1, <1>3, <1>4

LEMMA StepKeeps == IInv /\ [Next]_vars => IInv'
<1> SUFFICES ASSUME IInv, [Next]_vars PROVE IInv'
  OBVIOUS
<1> USE DEF IInv, LatestKept, CurrentSafe
<1>1. CASE StartDump
  BY <1>1 DEF StartDump
<1>2. CASE DumpEnds
  BY <1>2 DEF DumpEnds, dir
<1>3. CASE DumpFails \/ VerifyFails \/ RenameFails
  BY <1>3, RestKeeps DEF DumpFails, VerifyFails, RenameFails, Discard
<1>4. CASE Publish
  BY <1>4, PublishKeeps
<1>5. CASE ListFiles \/ Select
  BY <1>5 DEF ListFiles, Select, Victims, dir
<1>6. CASE ListFails \/ CycleEnds \/ Crash
  BY <1>6, RestKeeps DEF ListFails, CycleEnds, Crash, dir
<1>7. CASE Prune
  BY <1>7, PruneKeeps
<1>8. CASE PruneEnds
  BY <1>8 DEF PruneEnds, dir
<1>9. CASE DropOldest
  BY <1>9, DropOldestKeeps
<1>10. CASE ClockSetBack
  BY <1>10 DEF ClockSetBack, dir, cycle
<1>11. CASE UNCHANGED vars
  BY <1>11 DEF vars, dir, cycle
<1> QED
  BY <1>1, <1>2, <1>3, <1>4, <1>5, <1>6, <1>7, <1>8, <1>9, <1>10, <1>11 DEF Next

(* runBackupCycle never loses the last backup it has published, nor puts    *)
(* an unverified file in its place, whatever the retention settings, the    *)
(* sizes, the clock, and wherever it is killed or a call fails.             *)
THEOREM LatestKeptHolds == Spec => []LatestKept
<1>1. Init => IInv
  BY DEF Init, IInv, LatestKept, CurrentSafe
<1>2. IInv => LatestKept
  BY DEF IInv
<1> QED
  BY <1>1, <1>2, StepKeeps, PTL DEF Spec

-----------------------------------------------------------------------------
(***************************************************************************)
(* The refinement.  What the abstract steps need to know of the directory: *)
(* a number belongs to one file, a name too, and everything that was        *)
(* published carries the marker.                                            *)
(***************************************************************************)
Catalogued ==
  /\ \A f \in files : f.content \in Marked /\ f.number \in 1..latest
  /\ \A f, g \in files : f.number = g.number \/ f.name = g.name => f = g

StoreInv == IInv /\ Catalogued

LEMMA CataloguedKeeps ==
  ASSUME Catalogued, files' \subseteq files, UNCHANGED latest
  PROVE  Catalogued'
  BY DEF Catalogued

LEMMA PublishCatalogues ==
  ASSUME StoreInv, Publish
  PROVE  Catalogued'
<1> DEFINE new == [name |-> cur, mod |-> draft.mod, size |-> draft.size,
                   content |-> draft.content, number |-> latest + 1]
<1>1. files' = {f \in files : f.name # cur} \cup {new} /\ latest' = latest + 1
  BY DEF Publish
<1>2. new.name = cur /\ new.number = latest + 1
  OBVIOUS
<1>3. new.content \in Marked
  BY DEF Publish, Verified
<1> HIDE DEF new
<1> QED
  BY <1>1, <1>2, <1>3 DEF StoreInv, IInv, Catalogued

(* Every step but a publication leaves the directory or removes one file    *)
(* that is not the last one made.                                           *)
LEMMA OtherSteps ==
  ASSUME StoreInv, [Next]_vars, ~Publish
  PROVE  /\ UNCHANGED latest
         /\ \/ UNCHANGED files
            \/ \E f \in files : files' = files \ {f} /\ f.number # latest
<1>1. CASE Prune
  <2>1. PICK f \in victims : files' = files \ {f} \/ UNCHANGED files
    BY <1>1 DEF Prune
  <2>2. f.name # cur /\ UNCHANGED latest
    BY <1>1 DEF Prune, StoreInv, IInv, CurrentSafe
  <2>3. f \in files => f.number # latest
    BY <1>1, <2>2 DEF Prune, StoreInv, IInv, CurrentSafe, Catalogued
  <2>4. f \notin files /\ files' = files \ {f} => UNCHANGED files
    OBVIOUS
  <2> QED
    BY <2>1, <2>2, <2>3, <2>4
<1>2. CASE DropOldest
  <2>1. PICK f \in files : f.name # cur /\ (files' = files \ {f} \/ UNCHANGED files)
    BY <1>2 DEF DropOldest
  <2>2. f.number # latest
    BY <1>2, <2>1 DEF DropOldest, StoreInv, IInv, CurrentSafe, Catalogued
  <2> QED
    BY <1>2, <2>1, <2>2 DEF DropOldest
<1>3. CASE UNCHANGED <<files, latest>>
  BY <1>3
<1>4. Prune \/ DropOldest \/ UNCHANGED <<files, latest>>
  BY DEF Next, StartDump, DumpEnds, DumpFails, VerifyFails, RenameFails, Discard, ListFiles,
         Select, ListFails, PruneEnds, CycleEnds, Crash, ClockSetBack, vars, dir
<1> QED
  BY <1>1, <1>2, <1>3, <1>4

LEMMA StoreStep == StoreInv /\ [Next]_vars => StoreInv'
<1> SUFFICES ASSUME StoreInv, [Next]_vars PROVE StoreInv'
  OBVIOUS
<1>1. IInv'
  BY StepKeeps DEF StoreInv
<1>2. CASE Publish
  BY <1>1, <1>2, PublishCatalogues DEF StoreInv
<1>3. CASE ~Publish
  BY <1>1, <1>3, OtherSteps, CataloguedKeeps DEF StoreInv
<1> QED
  BY <1>2, <1>3

(* A publication makes a backup, which takes the place of the file of the   *)
(* same name, if there is one.                                              *)
LEMMA PublishMakes ==
  ASSUME StoreInv, Publish
  PROVE  Store!Make
<1> DEFINE new == [name |-> cur, mod |-> draft.mod, size |-> draft.size,
                   content |-> draft.content, number |-> latest + 1]
<1>1. files' = {f \in files : f.name # cur} \cup {new} /\ latest' = latest + 1
  BY DEF Publish
<1>2. new.number = latest + 1 /\ new.content \in Marked
  BY DEF Publish, Verified
<1> HIDE DEF new
<1>3. Offered = {f.number : f \in files}
  BY DEF Offered, StoreInv, Catalogued
<1>4. Offered' = {f.number : f \in files'}
  BY PublishCatalogues DEF Offered, Catalogued
<1>5. CASE \A f \in files : f.name # cur
  <2>1. Offered' = Offered \cup {latest'}
    BY <1>1, <1>2, <1>3, <1>4, <1>5
  <2> QED
    BY <1>1, <2>1 DEF Store!Make
<1>6. ASSUME NEW old \in files, old.name = cur PROVE Store!Make
  <2>1. \A f \in files : f.name # cur <=> f.number # old.number
    BY <1>6 DEF StoreInv, Catalogued
  <2>2. Offered' = (Offered \ {old.number}) \cup {latest'}
    BY <1>1, <1>2, <1>3, <1>4, <2>1
  <2>3. old.number \in Offered
    BY <1>3, <1>6
  <2> QED
    BY <1>1, <2>2, <2>3 DEF Store!Make
<1> QED
  BY <1>5, <1>6

LEMMA StoreSimulates ==
  ASSUME StoreInv, [Next]_vars
  PROVE  Store!Next \/ UNCHANGED <<Offered, latest>>
<1>1. CASE Publish
  BY <1>1, PublishMakes DEF Store!Next
<1>2. CASE UNCHANGED <<files, latest>>
  BY <1>2 DEF Offered
<1>3. ASSUME NEW f \in files, files' = files \ {f}, f.number # latest, UNCHANGED latest
      PROVE  Store!Next
  <2>1. \A g \in files : g # f <=> g.number # f.number
    BY DEF StoreInv, Catalogued
  <2>2. Offered = {g.number : g \in files}
    BY DEF Offered, StoreInv, Catalogued
  <2>3. Offered' = {g.number : g \in files'}
    BY <1>3 DEF Offered, StoreInv, Catalogued
  <2>4. Offered' = Offered \ {f.number}
    BY <1>3, <2>1, <2>2, <2>3
  <2>5. f.number \in Offered \ {latest}
    BY <1>3, <2>2
  <2> QED
    BY <1>3, <2>4, <2>5 DEF Store!Next, Store!Discard
<1> QED
  BY <1>1, <1>2, <1>3, OtherSteps

(* Whatever fails or is killed, the directory is a store of verified       *)
(* backups: they appear at once, go one at a time, and never the last.     *)
THEOREM ImplementsStoreHolds == Spec => ImplementsStore
<1>1. Init => StoreInv
  BY DEF Init, StoreInv, IInv, LatestKept, CurrentSafe, Catalogued
<1>2. Init => Store!Init
  BY DEF Init, Store!Init, Offered
<1>3. StoreInv /\ [Next]_vars => [Store!Next]_<<Offered, latest>>
  BY StoreSimulates
<1> QED
  BY <1>1, <1>2, <1>3, StoreStep, PTL DEF Spec, ImplementsStore, Store!Spec
-----------------------------------------------------------------------------
(***************************************************************************)
(* Retention, while the clock is never set back.  Dates then follow the     *)
(* numbers, so the files spared are the last ones made.  What has to hold   *)
(* between the steps, and across cycles that were cut short: a number that  *)
(* is missing above a file has been paid for, there are Retain newer files  *)
(* (what pruning removes out of order leaves gaps, and the size loop        *)
(* removes only the oldest file), so that a cycle which brings the          *)
(* directory down to Retain files closes every gap.                         *)
(***************************************************************************)
Dated ==
  /\ IsFiniteSet(files) /\ hidden = {}
  /\ clock \in Nat /\ cur \in Nat
  /\ \A f \in files : f.name \in Nat /\ f.mod \in Nat

InOrder ==
  /\ \A f \in files : f.name < clock /\ f.mod <= clock
  /\ \A f, g \in files : f.number < g.number => f.mod < g.mod
  /\ pc = "dump" => cur = clock
  /\ pc = "verify" => /\ cur < clock /\ draft.mod = clock
                      /\ \A f \in files : f.name < cur /\ f.mod < clock

Newer(S, i) == {f \in S : f.number > i}

GapsPaid ==
  \A f \in files, i \in 1..latest :
    f.number < i /\ (\A g \in files : g.number # i) => Cardinality(Newer(files, i)) >= Retain

Spared == files \ victims

VictimsPaid ==
  /\ victims \subseteq files
  /\ pc # "prune" => victims = {}
  /\ \A v \in victims : Cardinality(Newer(Spared, v.number)) >= Retain

CleanBounded == clean =>
  /\ pc \in {"prune", "cap", "idle"}
  /\ Cardinality(Spared) <= Retain
  /\ pc = "idle" /\ Cap > 0 /\ Bytes(files) > Cap => Cardinality(files) = 1

SteadyInv == Dated /\ InOrder /\ GapsPaid /\ VictimsPaid /\ CleanBounded

RetentionInv == StoreInv /\ (steady => SteadyInv)

LEMMA EnoughOf ==
  ASSUME NEW T, IsFiniteSet(T), NEW S \in SUBSET T, Cardinality(S) >= Retain
  PROVE  Cardinality(T) >= Retain
  BY FS_Subset, FS_CardinalityType, RetainAssumption

(* The file of this cycle is the newest by its date too.                   *)
LEMMA CurrentNewest ==
  ASSUME StoreInv, SteadyInv, pc \in {"list", "sort", "prune", "cap"}
  PROVE  \E c \in files : /\ c.name = cur
                          /\ \A f \in files : f.name = cur => f = c
                          /\ \A f \in files : f # c => f.mod < c.mod
<1>1. PICK c \in files : c.name = cur /\ c.number = latest
  BY DEF StoreInv, IInv, CurrentSafe
<1>2. \A f \in files : f # c => f.number < c.number
  BY <1>1 DEF StoreInv, IInv, Catalogued
<1> QED
  BY <1>1, <1>2 DEF StoreInv, Catalogued, SteadyInv, InOrder

(* A step that leaves the directory and ends the cycle in failure.         *)
LEMMA RestSteady ==
  ASSUME SteadyInv, Rest(FALSE), UNCHANGED <<files, latest, clock>>
  PROVE  SteadyInv'
<1>1. Dated' /\ InOrder' /\ CleanBounded'
  BY DEF SteadyInv, Rest, Dated, InOrder, CleanBounded
<1>2. GapsPaid' /\ VictimsPaid'
  BY DEF SteadyInv, Rest, GapsPaid, VictimsPaid, Newer
<1> QED
  BY <1>1, <1>2 DEF SteadyInv

LEMMA StartDumpSteady ==
  ASSUME SteadyInv, StartDump
  PROVE  SteadyInv'
<1>1. Dated' /\ InOrder' /\ CleanBounded'
  BY DEF SteadyInv, StartDump, Dated, InOrder, CleanBounded
<1>2. GapsPaid' /\ VictimsPaid'
  BY DEF SteadyInv, StartDump, GapsPaid, VictimsPaid, Newer, Spared
<1> QED
  BY <1>1, <1>2 DEF SteadyInv

LEMMA DumpEndsSteady ==
  ASSUME SteadyInv, DumpEnds
  PROVE  SteadyInv'
<1>1. /\ pc = "dump" /\ pc' = "verify" /\ clock' = clock + 1 /\ draft'.mod = clock + 1
      /\ UNCHANGED <<files, cur, hidden, victims, latest, clean>>
  BY DEF DumpEnds, dir
<1>2. Dated' /\ InOrder'
  BY <1>1 DEF SteadyInv, Dated, InOrder
<1>3. GapsPaid' /\ VictimsPaid' /\ CleanBounded'
  BY <1>1 DEF SteadyInv, GapsPaid, VictimsPaid, CleanBounded, Newer, Spared
<1> QED
  BY <1>2, <1>3 DEF SteadyInv

(* A publication adds a file newer than all: nothing is replaced.          *)
LEMMA PublishSteady ==
  ASSUME StoreInv, SteadyInv, Publish
  PROVE  SteadyInv'
<1> DEFINE new == [name |-> cur, mod |-> draft.mod, size |-> draft.size,
                   content |-> draft.content, number |-> latest + 1]
<1>1. /\ files' = {f \in files : f.name # cur} \cup {new}
      /\ pc = "verify" /\ pc' = "list" /\ latest' = latest + 1
      /\ UNCHANGED <<clock, cur, hidden, victims, clean>>
  BY DEF Publish
<1>2. new.name = cur /\ new.mod = draft.mod /\ new.number = latest + 1
  OBVIOUS
<1> HIDE DEF new
<1>3. new.name < clock /\ new.mod = clock /\ \A f \in files : f.name < cur /\ f.mod < new.mod
  BY <1>1, <1>2 DEF SteadyInv, InOrder
<1>4. files' = files \cup {new}
  BY <1>1, <1>3 DEF SteadyInv, Dated
<1>5. \A f \in files : f.number \in Nat /\ f.number < new.number
  BY <1>2 DEF StoreInv, IInv, Catalogued
<1>6. Dated'
  BY <1>1, <1>2, <1>3, <1>4, FS_AddElement DEF SteadyInv, Dated
<1>7. InOrder'
  BY <1>1, <1>2, <1>3, <1>4, <1>5 DEF SteadyInv, Dated, InOrder
<1>8. GapsPaid'
  <2> SUFFICES ASSUME NEW f \in files', NEW i \in 1..latest', f.number < i,
                      \A g \in files' : g.number # i
               PROVE  Cardinality(Newer(files, i)') >= Retain
    BY DEF GapsPaid, Newer
  <2>1. i # latest + 1 /\ latest \in Nat
    BY <1>2, <1>4 DEF StoreInv, IInv
  <2>2. i \in 1..latest
    BY <1>1, <2>1
  <2>3. f \in files
    BY <1>2, <1>4, <2>1, <2>2
  <2>4. Cardinality(Newer(files, i)) >= Retain
    BY <1>4, <2>2, <2>3 DEF SteadyInv, GapsPaid
  <2>5. Newer(files, i) \subseteq Newer(files, i)' /\ Newer(files, i)' \subseteq files'
    BY <1>4 DEF Newer
  <2>6. IsFiniteSet(Newer(files, i)')
    BY <1>6, <2>5, FS_Subset DEF Dated
  <2> QED
    BY <2>4, <2>5, <2>6, EnoughOf
<1>9. VictimsPaid' /\ CleanBounded'
  BY <1>1 DEF SteadyInv, VictimsPaid, CleanBounded
<1> QED
  BY <1>6, <1>7, <1>8, <1>9 DEF SteadyInv

(* A listing that misses nothing changes nothing.                          *)
LEMMA ListFilesSteady ==
  ASSUME SteadyInv, ListFiles, steady'
  PROVE  SteadyInv'
<1>1. /\ pc = "list" /\ pc' = "sort"
      /\ UNCHANGED <<files, clock, cur, draft, hidden, victims, latest, clean>>
  BY DEF ListFiles, dir
<1>2. Dated' /\ InOrder'
  BY <1>1 DEF SteadyInv, Dated, InOrder
<1>3. GapsPaid' /\ VictimsPaid' /\ CleanBounded'
  BY <1>1 DEF SteadyInv, GapsPaid, VictimsPaid, CleanBounded, Newer, Spared
<1> QED
  BY <1>2, <1>3 DEF SteadyInv

(* What sorting spares are the Retain newest files, or all: the file just   *)
(* made is among them, and nothing else is spared for its name.             *)
LEMMA SelectSteady ==
  ASSUME StoreInv, SteadyInv, Select
  PROVE  SteadyInv'
<1>1. /\ pc = "sort" /\ pc' = "prune" /\ Listed = files
      /\ UNCHANGED <<files, clock, cur, hidden, latest>>
  BY DEF Select, dir, Listed, SteadyInv, Dated
<1>2. PICK Keep \in SUBSET files : NewestByTime(Keep) /\ victims' = Victims(Keep)
  BY <1>1 DEF Select
<1>3. PICK c \in files : /\ c.name = cur
                         /\ \A f \in files : f.name = cur => f = c
                         /\ \A f \in files : f # c => f.mod < c.mod
  BY <1>1, CurrentNewest
<1>4. IsFiniteSet(Keep) /\ Cardinality(Keep) \in Nat /\ Cardinality(files) \in Nat
  BY FS_Subset, FS_CardinalityType DEF SteadyInv, Dated
<1>5. Cardinality(Keep) <= Retain
  BY <1>1, <1>2, <1>4, RetainAssumption DEF NewestByTime
<1>6. Keep # {}
  <2>1. Cardinality(files) # 0
    BY <1>3, FS_EmptySet DEF SteadyInv, Dated
  <2>2. Cardinality(Keep) # 0
    BY <1>1, <1>2, <1>4, <2>1, RetainAssumption DEF NewestByTime
  <2> QED
    BY <2>2, FS_EmptySet
<1>7. c \in Keep
  <2> SUFFICES ASSUME c \notin Keep PROVE FALSE
    OBVIOUS
  <2>1. PICK k \in Keep : TRUE
    BY <1>6
  <2>2. k.mod >= c.mod /\ k.mod < c.mod
    BY <1>1, <1>2, <1>3 DEF NewestByTime
  <2> QED
    BY <2>1, <2>2 DEF SteadyInv, Dated
<1>8. victims' = files \ Keep /\ Spared' = Keep
  BY <1>1, <1>2, <1>3, <1>7 DEF Victims, Spared
<1>9. Dated' /\ InOrder' /\ GapsPaid'
  BY <1>1 DEF SteadyInv, Dated, InOrder, GapsPaid, Newer
<1>10. ASSUME NEW v \in victims' PROVE Cardinality(Newer(Spared', v.number)) >= Retain
  <2>1. \A k \in Keep : k.number > v.number
    <3> SUFFICES ASSUME NEW k \in Keep PROVE k.number > v.number
      OBVIOUS
    <3>1. k.mod >= v.mod /\ k \in files /\ v \in files /\ k # v
      BY <1>1, <1>2, <1>8, <1>10 DEF NewestByTime
    <3>2. ~(k.number < v.number)
      BY <3>1 DEF SteadyInv, Dated, InOrder
    <3>3. k.number # v.number /\ k.number \in Nat /\ v.number \in Nat
      BY <3>1 DEF StoreInv, IInv, Catalogued
    <3> QED
      BY <3>2, <3>3
  <2>2. Newer(Spared', v.number) = Keep
    BY <1>8, <2>1 DEF Newer
  <2>3. Cardinality(Keep) = Retain
    <3>1. Keep # files
      BY <1>8, <1>10
    <3>2. Cardinality(Keep) # Cardinality(files)
      BY <3>1, FS_Subset DEF SteadyInv, Dated
    <3> QED
      BY <1>1, <1>2, <3>2 DEF NewestByTime
  <2> QED
    BY <2>2, <2>3, RetainAssumption
<1>11. VictimsPaid'
  BY <1>1, <1>8, <1>10 DEF VictimsPaid, Newer
<1>12. CleanBounded'
  BY <1>1, <1>5, <1>8 DEF CleanBounded
<1> QED
  BY <1>9, <1>11, <1>12 DEF SteadyInv

(* A victim goes: what is newer has been counted without the victims.      *)
LEMMA PruneSteady ==
  ASSUME StoreInv, SteadyInv, Prune
  PROVE  SteadyInv'
<1>1. PICK f \in victims :
        /\ victims' = victims \ {f}
        /\ \/ files' = files \ {f} /\ UNCHANGED clean
           \/ clean' = FALSE /\ UNCHANGED files
  BY DEF Prune
<1>2. pc = "prune" /\ UNCHANGED <<clock, pc, cur, hidden, latest>>
  BY DEF Prune
<1>3. files' \subseteq files /\ IsFiniteSet(files') /\ f \in files
  BY <1>1, FS_Subset DEF SteadyInv, Dated, VictimsPaid
<1>4. Spared \subseteq Spared' /\ Spared' \subseteq files'
  BY <1>1 DEF Spared
<1>5. Dated' /\ InOrder'
  BY <1>2, <1>3 DEF SteadyInv, Dated, InOrder
<1>6. GapsPaid'
  <2> SUFFICES ASSUME NEW g \in files', NEW i \in 1..latest', g.number < i,
                      \A h \in files' : h.number # i
               PROVE  Cardinality(Newer(files', i)) >= Retain
    BY DEF GapsPaid, Newer
  <2>1. IsFiniteSet(Newer(files', i))
    BY <1>3, FS_Subset DEF Newer
  <2>2. CASE f.number >= i
    <3>1. Newer(Spared, f.number) \subseteq Newer(files', i)
      <4> SUFFICES ASSUME NEW h \in Spared, h.number > f.number PROVE h.number > i
        BY <1>4 DEF Newer
      <4>1. h.number \in Nat /\ f.number \in Nat /\ i \in Nat
        BY <1>2, <1>3 DEF Spared, StoreInv, IInv, Catalogued
      <4> QED
        BY <2>2, <4>1
    <3>2. Cardinality(Newer(Spared, f.number)) >= Retain
      BY <1>1 DEF SteadyInv, VictimsPaid
    <3> QED
      BY <2>1, <3>1, <3>2, EnoughOf
  <2>3. CASE ~(f.number >= i)
    <3>1. f.number \in Nat /\ i \in Nat
      BY <1>2, <1>3 DEF StoreInv, IInv, Catalogued
    <3>2. \A h \in files : h.number # i
      BY <1>1, <2>3, <3>1
    <3>3. Cardinality(Newer(files, i)) >= Retain
      BY <1>2, <1>3, <3>2 DEF SteadyInv, GapsPaid
    <3>4. Newer(files, i) \subseteq Newer(files', i)
      BY <1>1, <2>3, <3>1 DEF Newer
    <3> QED
      BY <2>1, <3>3, <3>4, EnoughOf
  <2> QED
    BY <2>2, <2>3
<1>7. VictimsPaid'
  <2>1. victims' \subseteq files'
    BY <1>1 DEF SteadyInv, VictimsPaid
  <2>2. ASSUME NEW v \in victims' PROVE Cardinality(Newer(Spared', v.number)) >= Retain
    <3>1. Cardinality(Newer(Spared, v.number)) >= Retain
      BY <1>1, <2>2 DEF SteadyInv, VictimsPaid
    <3>2. Newer(Spared, v.number) \subseteq Newer(Spared', v.number)
      BY <1>4 DEF Newer
    <3>3. IsFiniteSet(Newer(Spared', v.number))
      BY <1>3, <1>4, FS_Subset DEF Newer
    <3> QED
      BY <3>1, <3>2, <3>3, EnoughOf
  <2> QED
    BY <1>2, <2>1, <2>2 DEF VictimsPaid, Newer
<1>8. CleanBounded'
  <2>1. clean' => files' = files \ {f} /\ clean
    BY <1>1
  <2>2. clean' => Spared' = Spared
    BY <1>1, <2>1 DEF Spared
  <2> QED
    BY <1>2, <2>1, <2>2 DEF SteadyInv, CleanBounded
<1> QED
  BY <1>5, <1>6, <1>7, <1>8 DEF SteadyInv

LEMMA PruneEndsSteady ==
  ASSUME SteadyInv, PruneEnds
  PROVE  SteadyInv'
<1>1. /\ pc = "prune" /\ pc' = "cap" /\ victims = {}
      /\ UNCHANGED <<files, clock, cur, draft, hidden, victims, latest, clean>>
  BY DEF PruneEnds, dir
<1>2. Dated' /\ InOrder'
  BY <1>1 DEF SteadyInv, Dated, InOrder
<1>3. GapsPaid' /\ VictimsPaid' /\ CleanBounded'
  BY <1>1 DEF SteadyInv, GapsPaid, VictimsPaid, CleanBounded, Newer, Spared
<1> QED
  BY <1>2, <1>3 DEF SteadyInv

(* The size loop removes the file with the lowest number: there is nothing  *)
(* under the gap it leaves.                                                 *)
LEMMA DropOldestSteady ==
  ASSUME StoreInv, SteadyInv, DropOldest
  PROVE  SteadyInv'
<1>1. PICK f \in files :
        /\ Oldest(f)
        /\ \/ files' = files \ {f} /\ UNCHANGED <<cycle, clean>>
           \/ Rest(FALSE) /\ UNCHANGED files
  BY DEF DropOldest
<1>2. pc = "cap" /\ UNCHANGED <<clock, latest>> /\ Listed = files
  BY DEF DropOldest, Listed, SteadyInv, Dated
<1>3. CASE Rest(FALSE) /\ UNCHANGED files
  BY <1>2, <1>3, RestSteady
<1>4. CASE files' = files \ {f} /\ UNCHANGED <<cycle, clean>>
  <2> USE <1>4
  <2>1. UNCHANGED <<pc, cur, draft, hidden, victims>> /\ victims = {}
    BY <1>2 DEF cycle, SteadyInv, VictimsPaid
  <2>2. IsFiniteSet(files') /\ Cardinality(files') <= Cardinality(files)
    BY FS_Subset DEF SteadyInv, Dated
  <2>3. Dated' /\ InOrder'
    BY <1>2, <2>1, <2>2 DEF SteadyInv, Dated, InOrder
  <2>4. GapsPaid'
    <3> SUFFICES ASSUME NEW g \in files', NEW i \in 1..latest', g.number < i,
                        \A h \in files' : h.number # i
                 PROVE  Cardinality(Newer(files', i)) >= Retain
      BY DEF GapsPaid, Newer
    <3>1. f.number < g.number
      <4>1. f # g /\ g \in files /\ ~(g.mod < f.mod)
        BY <1>1, <1>2 DEF Oldest, SteadyInv, Dated
      <4>2. ~(g.number < f.number)
        BY <4>1 DEF SteadyInv, InOrder
      <4>3. g.number # f.number /\ g.number \in Nat /\ f.number \in Nat
        BY <4>1 DEF StoreInv, IInv, Catalogued
      <4> QED
        BY <4>2, <4>3
    <3>2. f.number \in Nat /\ g.number \in Nat /\ i \in Nat
      BY <1>2 DEF StoreInv, IInv, Catalogued
    <3>3. \A h \in files : h.number # i
      BY <3>1, <3>2
    <3>4. Cardinality(Newer(files, i)) >= Retain
      BY <1>2, <3>3 DEF SteadyInv, GapsPaid
    <3>5. Newer(files', i) = Newer(files, i)
      BY <3>1, <3>2 DEF Newer
    <3> QED
      BY <3>4, <3>5
  <2>5. VictimsPaid'
    BY <1>2, <2>1 DEF VictimsPaid
  <2>6. CleanBounded'
    <3>1. Spared = files /\ Spared' = files'
      BY <2>1 DEF Spared
    <3>2. Cardinality(files) \in Nat /\ Cardinality(files') \in Nat
      BY <2>2, FS_CardinalityType DEF SteadyInv, Dated
    <3> QED
      BY <1>2, <2>1, <2>2, <3>1, <3>2, RetainAssumption DEF SteadyInv, CleanBounded
  <2> QED
    BY <2>3, <2>4, <2>5, <2>6 DEF SteadyInv
<1> QED
  BY <1>1, <1>3, <1>4

(* The size loop stops under the cap, or at the file just made, which is    *)
(* then alone.                                                              *)
LEMMA CycleEndsSteady ==
  ASSUME StoreInv, SteadyInv, CycleEnds
  PROVE  SteadyInv'
<1>1. pc = "cap" /\ Rest(clean) /\ UNCHANGED <<files, clock, latest>> /\ Listed = files
  BY DEF CycleEnds, dir, Listed, SteadyInv, Dated
<1>2. PICK c \in files : /\ c.name = cur
                         /\ \A f \in files : f.name = cur => f = c
                         /\ \A f \in files : f # c => f.mod < c.mod
  BY <1>1, CurrentNewest
<1>3. Cap > 0 /\ Bytes(files) > Cap => Cardinality(files) = 1
  <2> SUFFICES ASSUME Cap > 0, Bytes(files) > Cap PROVE Cardinality(files) = 1
    OBVIOUS
  <2>1. CASE ~OverCap
    <3>1. ~(Cardinality(files) > 1)
      BY <1>1, <2>1 DEF OverCap
    <3>2. Cardinality(files) \in Nat /\ Cardinality(files) # 0
      BY <1>2, FS_CardinalityType, FS_EmptySet DEF SteadyInv, Dated
    <3> QED
      BY <3>1, <3>2
  <2>2. ASSUME NEW f \in files, Oldest(f), f.name = cur PROVE Cardinality(files) = 1
    <3>1. files = {c}
      BY <1>1, <1>2, <2>2 DEF Oldest, SteadyInv, Dated
    <3> QED
      BY <3>1, FS_Singleton
  <2> QED
    BY <2>1, <2>2 DEF CycleEnds
<1>4. victims = {} /\ victims' = {} /\ Spared' = Spared
  BY <1>1 DEF Rest, SteadyInv, VictimsPaid, Spared
<1>5. Dated' /\ InOrder'
  BY <1>1 DEF SteadyInv, Rest, Dated, InOrder
<1>6. GapsPaid' /\ VictimsPaid'
  BY <1>1, <1>4 DEF SteadyInv, GapsPaid, VictimsPaid, Newer
<1>7. clean' = clean /\ pc' = "idle"
  BY <1>1 DEF Rest
<1>8. CleanBounded'
  BY <1>1, <1>3, <1>4, <1>7 DEF SteadyInv, CleanBounded
<1> QED
  BY <1>5, <1>6, <1>8 DEF SteadyInv

LEMMA SteadyStep ==
  ASSUME StoreInv, SteadyInv, [Next]_vars, steady'
  PROVE  SteadyInv'
<1>1. CASE StartDump
  BY <1>1, StartDumpSteady
<1>2. CASE DumpEnds
  BY <1>2, DumpEndsSteady
<1>3. CASE DumpFails \/ VerifyFails \/ RenameFails
  BY <1>3, RestSteady DEF DumpFails, VerifyFails, RenameFails, Discard
<1>4. CASE Publish
  BY <1>4, PublishSteady
<1>5. CASE ListFiles
  BY <1>5, ListFilesSteady
<1>13. CASE Select
  BY <1>13, SelectSteady
<1>6. CASE ListFails \/ Crash
  BY <1>6, RestSteady DEF ListFails, Crash, dir
<1>7. CASE Prune
  BY <1>7, PruneSteady
<1>8. CASE PruneEnds
  BY <1>8, PruneEndsSteady
<1>9. CASE DropOldest
  BY <1>9, DropOldestSteady
<1>10. CASE CycleEnds
  BY <1>10, CycleEndsSteady
<1>11. CASE ClockSetBack
  BY <1>11 DEF ClockSetBack
<1>12. CASE UNCHANGED vars
  <2>1. UNCHANGED <<files, clock, pc, cur, draft, hidden, victims, latest, clean>>
    BY <1>12 DEF vars, dir, cycle
  <2> QED
    BY <2>1 DEF SteadyInv, Dated, InOrder, GapsPaid, VictimsPaid, CleanBounded, Newer, Spared
<1> QED
  BY <1>1, <1>2, <1>3, <1>4, <1>5, <1>6, <1>7, <1>8, <1>9, <1>10, <1>11, <1>12, <1>13 DEF Next

(* With no more than Retain files there is no room for a gap.              *)
LEMMA NoGapLeft ==
  ASSUME StoreInv, SteadyInv, Cardinality(files) <= Retain
  PROVE  MostRecent
<1> SUFFICES ASSUME NEW f \in files, NEW i \in f.number..latest,
                    \A g \in files : g.number # i
             PROVE  FALSE
  BY DEF MostRecent
<1>1. f.number \in 1..latest /\ latest \in Nat
  BY DEF StoreInv, IInv, Catalogued
<1>2. i \in 1..latest /\ f.number < i
  BY <1>1
<1>3. Cardinality(Newer(files, i)) >= Retain
  BY <1>2 DEF SteadyInv, GapsPaid
<1>4. f \notin Newer(files, i) /\ Newer(files, i) \subseteq files
  BY <1>1, <1>2 DEF Newer
<1>5. IsFiniteSet(files) /\ IsFiniteSet(files \ {f})
  BY FS_RemoveElement DEF SteadyInv, Dated
<1>6. Cardinality(files \ {f}) = Cardinality(files) - 1
  BY FS_RemoveElement DEF SteadyInv, Dated
<1>7. Cardinality(files \ {f}) >= Retain
  BY <1>3, <1>4, <1>5, EnoughOf
<1> QED
  BY <1>5, <1>6, <1>7, FS_CardinalityType, RetainAssumption

(* After a cycle without a failure, under a clock that was never set back,  *)
(* the directory holds the most recent backups, as many as the retention    *)
(* and the size cap allow, whatever cut earlier cycles short and whatever   *)
(* the settings (pruneBackups).                                             *)
THEOREM RetentionHoldsAlways == Spec => []RetentionHolds
<1>1. Init => RetentionInv
  <2> SUFFICES ASSUME Init PROVE RetentionInv
    OBVIOUS
  <2>1. StoreInv
    BY DEF Init, StoreInv, IInv, LatestKept, CurrentSafe, Catalogued
  <2>2. Dated /\ InOrder /\ GapsPaid /\ VictimsPaid /\ CleanBounded
    BY FS_EmptySet DEF Init, Dated, InOrder, GapsPaid, VictimsPaid, CleanBounded
  <2> QED
    BY <2>1, <2>2 DEF RetentionInv, SteadyInv
<1>2. RetentionInv /\ [Next]_vars => RetentionInv'
  <2> SUFFICES ASSUME RetentionInv, [Next]_vars PROVE RetentionInv'
    OBVIOUS
  <2>1. StoreInv'
    BY StoreStep DEF RetentionInv
  <2>2. steady' => steady
    BY DEF Next, StartDump, DumpEnds, DumpFails, VerifyFails, RenameFails, Discard, Publish,
           ListFiles, Select, ListFails, Prune, PruneEnds, DropOldest, CycleEnds, Crash, ClockSetBack, vars
  <2> QED
    BY <2>1, <2>2, SteadyStep DEF RetentionInv
<1>3. RetentionInv => RetentionHolds
  <2> SUFFICES ASSUME RetentionInv, steady, pc = "idle", clean PROVE
                 /\ MostRecent
                 /\ Cardinality(files) <= Retain
                 /\ Cap > 0 /\ Bytes(files) > Cap => Cardinality(files) = 1
    BY DEF RetentionHolds
  <2>1. StoreInv /\ SteadyInv
    BY DEF RetentionInv
  <2>2. Spared = files
    BY <2>1 DEF SteadyInv, VictimsPaid, Spared
  <2>3. Cardinality(files) <= Retain
    BY <2>1, <2>2 DEF SteadyInv, CleanBounded
  <2> QED
    BY <2>1, <2>3, NoGapLeft DEF SteadyInv, CleanBounded
<1> QED
  BY <1>1, <1>2, <1>3, PTL DEF Spec
=============================================================================
