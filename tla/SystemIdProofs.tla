----------------------------- MODULE SystemIdProofs -----------------------------
(***************************************************************************)
(* Type correctness of SystemId, and that a PGDATA lost to a wipe, also to *)
(* one cut short, is always given up for a database another node still     *)
(* has, for every number of nodes, databases and disturbances, as long as  *)
(* no primary comes up in the middle of a check.                           *)
(***************************************************************************)
EXTENDS SystemId, TLAPS

(* Patroni answers with a database only, so that a node that loses its own *)
(* is not answering, and a finding belongs to a check.                     *)
Sane ==
  /\ \A n \in Node : Answers(n) => pg[n] \in Sys
  /\ \A n \in Node : found[n] # None => at[n] \in {"ask", "wipe"}
  /\ \A n \in Node : at[n] \in {"wipe", "start"} => role[n] = "stopped"

(* There is one primary at a time, and while anybody relies on one that it *)
(* has found, it is everybody's, it keeps its database, and no other leads.*)
OnePrimary ==
  \A p, q \in Node : role[p] = "primary" /\ role[q] = "primary" => p = q
FoundHolds ==
  \A n \in Node : found[n] # None =>
    /\ pg[found[n].node] = found[n].sys
    /\ \A p \in Node : role[p] = "primary" => p = found[n].node
    /\ \A m \in Node : found[m] # None => found[m].node = found[n].node

(* Who is about to wipe has found another node with the database it goes by*)
WipeReady ==
  \A n \in Node : at[n] = "wipe" =>
    found[n] # None /\ found[n].sys = seen[n] /\ found[n].node # n

TInv == TypeOK /\ Sane
IInv == TInv /\ OnePrimary /\ FoundHolds /\ WipeReady

USE DEF Answers, EndCheck

-----------------------------------------------------------------------------
LEMMA NoneIsNoFinding == None \notin [node : Node, sys : Sys]
  BY NodeAssumption DEF None

LEMMA SysType == Sys \subseteq Nat /\ 0 \notin Sys /\ Partial \notin Sys
  BY BoundAssumption DEF Sys, Partial

LEMMA PgDataType == Sys \subseteq PgData /\ 0 \in PgData /\ Partial \in PgData
  BY DEF PgData

LEMMA NewSysType == NewSys \subseteq Sys
  BY DEF NewSys

LEMMA InitDbCreates ==
  ASSUME NEW n \in Node, InitDb(n)
  PROVE  \E s \in Sys : init' = s /\ pg' = [pg EXCEPT ![n] = s]
<1> DEFINE s == CHOOSE x \in NewSys : TRUE
<1>1. s \in NewSys
  BY DEF InitDb
<1>2. init' = s /\ pg' = Set(pg, n, s)
  BY DEF InitDb
<1> QED
  BY <1>1, <1>2, NewSysType DEF Set

LEMMA ForgetType ==
  ASSUME NEW n \in Node, NEW place \in {"idle", "start"}, TypeOK, Forget(n, place)
  PROVE  /\ at' \in [Node -> {"idle", "clear", "read", "ask", "wipe", "start"}]
         /\ seen' \in [Node -> Sys \cup {0}]
         /\ ask' \in [Node -> SUBSET Node]
         /\ found' \in [Node -> {None} \cup [node : Node, sys : Sys]]
         /\ matched' \in [Node -> BOOLEAN]
         /\ at'[n] = place /\ \A m \in Node \ {n} : at'[m] = at[m]
  BY DEF TypeOK, Forget, Set

LEMMA DamagedType ==
  ASSUME NEW n \in Node, TypeOK, Damaged(n)
  PROVE  /\ pg' \in [Node -> PgData]
         /\ \A p \in Node \ {n} : pg'[p] = pg[p]
  BY PgDataType DEF TypeOK, Damaged, Set

LEMMA InitHolds == Init => IInv
<1> SUFFICES ASSUME Init PROVE IInv
  OBVIOUS
<1>1. pg \in [Node -> PgData] /\ init \in Sys \cup {0}
  BY InitialAssumption, PgDataType DEF Init
<1>2. TypeOK
  BY <1>1, BoundAssumption DEF Init, TypeOK
<1> QED
  BY <1>2 DEF Init, IInv, TInv, Sane, OnePrimary, FoundHolds, WipeReady

-----------------------------------------------------------------------------
(* Types.                                                                  *)

LEMMA DaemonType ==
  ASSUME TInv, NEW n \in Node, Daemon(n)
  PROVE  TypeOK'
<1> USE DEF TInv
<1>1. CASE CheckLeader(n)
  BY <1>1 DEF CheckLeader, TypeOK, Set, dcs
<1>2. CASE ClearLeader(n)
  BY <1>2 DEF ClearLeader, TypeOK, Set
<1>3. CASE ReadInitialize(n)
  <2>1. CASE init = 0
    BY <1>3, <2>1, ForgetType DEF ReadInitialize, TypeOK, Set, dcs
  <2>2. CASE init # 0
    BY <1>3, <2>2 DEF ReadInitialize, TypeOK, Set, dcs
  <2> QED
    BY <2>1, <2>2
<1>4. CASE Ask(n)
  <2>1. PICK p \in ask[n] :
          /\ ask' = [ask EXCEPT ![n] = @ \ {p}]
          /\ found' = IF role[p] = "primary" THEN Set(found, n, Info(p)) ELSE found
          /\ matched' = Set(matched, n, matched[n] \/ (Answers(p) /\ pg[p] = seen[n]))
    BY <1>4 DEF Ask
  <2>2. p \in Node
    BY <2>1 DEF TypeOK
  <2>3. role[p] = "primary" => Info(p) \in [node : Node, sys : Sys]
    BY <2>2 DEF Sane, Info, TypeOK
  <2>4. found' \in [Node -> {None} \cup [node : Node, sys : Sys]]
    BY <2>1, <2>3 DEF TypeOK, Set
  <2>5. matched' \in [Node -> BOOLEAN]
    BY <2>1, <2>2 DEF TypeOK, Set, Answers
  <2>6. ask' \in [Node -> SUBSET Node]
    BY <2>1 DEF TypeOK
  <2> QED
    BY <1>4, <2>4, <2>5, <2>6 DEF Ask, TypeOK, dcs
<1>5. CASE SetInitialize(n)
  BY <1>5, SysType, NoneIsNoFinding DEF SetInitialize, KeyIsStale, TypeOK, Set
<1>6. CASE StopPatroni(n)
  BY <1>6 DEF StopPatroni, TypeOK, Set, dcs
<1>7. CASE KeepData(n)
  BY <1>7, ForgetType DEF KeepData, TypeOK, Set, Asked, dcs
<1>8. CASE Wipe(n)
  BY <1>8, PgDataType, ForgetType DEF Wipe, TypeOK, Set, dcs
<1>9. CASE StartPatroni(n)
  BY <1>9, ForgetType DEF StartPatroni, TypeOK, Set, dcs
<1> QED
  BY <1>1, <1>2, <1>3, <1>4, <1>5, <1>6, <1>7, <1>8, <1>9 DEF Daemon

LEMMA PatroniType ==
  ASSUME TInv, NEW n \in Node, Patroni(n) \/ TakesLead(n) \/ InitDb(n)
  PROVE  TypeOK'
<1> USE DEF TInv, Run
<1>1. CASE PatroniStarts(n)
  BY <1>1 DEF PatroniStarts, TypeOK, Set, dcs, check
<1>2. CASE Clones(n)
  <2>1. PICK p \in Node : role[p] = "primary" /\ pg' = Set(pg, n, pg[p])
    BY <1>2 DEF Clones
  <2>2. pg' \in [Node -> PgData]
    BY <2>1 DEF TypeOK, Set
  <2> QED
    BY <1>2, <2>2 DEF Clones, TypeOK, dcs, check
<1>3. CASE MismatchExits(n)
  <2>1. role' = [role EXCEPT ![n] = "off"] /\ UNCHANGED <<dcs, pg, check, faults>>
    BY <1>3 DEF MismatchExits, Set
  <2> QED
    BY <2>1 DEF TypeOK, dcs, check
<1>4. CASE Demotes(n)
  <2>1. role' = [role EXCEPT ![n] = "replica"] /\ UNCHANGED <<dcs, pg, check, faults>>
    BY <1>4 DEF Demotes, Set
  <2> QED
    BY <2>1 DEF TypeOK, dcs, check
<1>5. CASE TakesLead(n)
  <2>1. /\ role' = [role EXCEPT ![n] = "primary"] /\ UNCHANGED <<pg, check, faults>>
        /\ leader' = n /\ init' = pg[n] /\ pg[n] \in Sys
    BY <1>5 DEF TakesLead, Set, Sane
  <2> QED
    BY <2>1 DEF TypeOK, check
<1>6. CASE InitDb(n)
  <2>1. PICK s \in Sys : init' = s /\ pg' = [pg EXCEPT ![n] = s]
    BY <1>6, InitDbCreates
  <2>2. /\ leader' = n /\ role' = Set(role, n, "primary")
        /\ UNCHANGED <<check, faults>>
    BY <1>6 DEF InitDb
  <2> QED
    BY <2>1, <2>2, PgDataType DEF TypeOK, Set, check
<1> QED
  BY <1>1, <1>2, <1>3, <1>4, <1>5, <1>6 DEF Patroni

LEMMA DisturbanceType ==
  ASSUME TInv,
         \/ LockExpires \/ KeysLost
         \/ \E n \in Node : WipeFails(n) \/ DaemonDies(n) \/ CooldownEnds(n)
                            \/ PatroniExits(n) \/ Recovered(n)
  PROVE  TypeOK'
<1> USE DEF TInv, Disturb
<1> USE BoundAssumption
<1>1. CASE LockExpires
  BY <1>1 DEF LockExpires, TypeOK, check
<1>2. CASE KeysLost
  BY <1>2 DEF KeysLost, TypeOK, check
<1>3. ASSUME NEW n \in Node, WipeFails(n) PROVE TypeOK'
  BY <1>3, ForgetType, DamagedType DEF WipeFails, TypeOK, Set, dcs
<1>4. ASSUME NEW n \in Node, CooldownEnds(n) PROVE TypeOK'
  BY <1>4 DEF CooldownEnds, TypeOK, Set, dcs
<1>5. ASSUME NEW n \in Node, PatroniExits(n) PROVE TypeOK'
  BY <1>5 DEF PatroniExits, Answers, TypeOK, Run, Set, dcs, check
<1>6. ASSUME NEW n \in Node, Recovered(n) PROVE TypeOK'
  BY <1>6 DEF Recovered, TypeOK, check
<1>7. ASSUME NEW n \in Node, DaemonDies(n) PROVE TypeOK'
  <2>1. pg' \in [Node -> PgData]
    BY <1>7, DamagedType DEF DaemonDies, TypeOK
  <2> QED
    BY <1>7, <2>1, ForgetType DEF DaemonDies, TypeOK, dcs
<1> QED
  BY <1>1, <1>2, <1>3, <1>4, <1>5, <1>6, <1>7

LEMMA TypeKeeps == TInv /\ [Next]_vars => TypeOK'
<1>1. ASSUME TInv, UNCHANGED vars PROVE TypeOK'
  BY <1>1 DEF TInv, TypeOK, vars, dcs, check
<1> QED
  BY <1>1, DaemonType, PatroniType, DisturbanceType DEF Next

-----------------------------------------------------------------------------
(* Who is about to wipe, and whom it relies on.                            *)

(* The facts FoundHolds rests on survive what changes neither databases    *)
(* nor findings and makes nobody primary.                                  *)
Calm == /\ UNCHANGED <<pg, found>>
        /\ \A p \in Node : role'[p] = "primary" => role[p] = "primary"
        /\ \A p \in Node : Answers(p)' => Answers(p) \/ pg[p] \in Sys
        /\ \A p \in Node : role[p] = "stopped" => role'[p] = "stopped"

LEMMA CalmKeeps ==
  ASSUME IInv, Calm
  PROVE  OnePrimary' /\ FoundHolds' /\ (\A n \in Node : Answers(n) => pg[n] \in Sys)'
<1>1. \A n \in Node : found[n] # None => found[n].node \in Node
  BY DEF IInv, TInv, TypeOK
<1> QED
  BY <1>1 DEF IInv, TInv, Sane, OnePrimary, FoundHolds, Calm

(* Whoever is about to wipe is nobody's primary.                           *)
LEMMA WiperNotFound ==
  ASSUME IInv, NEW n \in Node, at[n] = "wipe"
  PROVE  /\ found[n] # None /\ found[n].sys = seen[n]
         /\ found[n].node \in Node \ {n}
         /\ \A m \in Node : found[m] # None => found[m].node # n
  BY DEF IInv, TInv, TypeOK, FoundHolds, WipeReady

(* The end of a check, also in the middle of a wipe, and of the wipe.      *)
LEMMA ForgetKeeps ==
  ASSUME IInv, NEW n \in Node, NEW place \in {"idle", "start"}, Forget(n, place),
         \A p \in Node \ {n} : pg'[p] = pg[p],
         at[n] = "wipe" \/ pg' = pg,
         place = "start" => role'[n] = "stopped",
         \A p \in Node : Answers(p)' => Answers(p),
         \A p \in Node : role'[p] = "primary" => role[p] = "primary",
         \A p \in Node \ {n} : role[p] = "stopped" => role'[p] = "stopped"
  PROVE  (Sane /\ OnePrimary /\ FoundHolds /\ WipeReady)'
<1>1. /\ at' = [at EXCEPT ![n] = place] /\ seen' = [seen EXCEPT ![n] = 0]
      /\ found' = [found EXCEPT ![n] = None]
  BY DEF Forget, Set
<1>2. \A m \in Node : found'[m] # None => m # n /\ found'[m] = found[m] /\ at'[m] = at[m]
  BY <1>1 DEF IInv, TInv, TypeOK
<1>3. \A m \in Node : m # n => at'[m] = at[m] /\ found'[m] = found[m] /\ seen'[m] = seen[m]
  BY <1>1 DEF IInv, TInv, TypeOK
<1>4. at'[n] = place
  BY <1>1 DEF IInv, TInv, TypeOK
<1>5. \A m \in Node : found[m] # None =>
        found[m].node \in Node /\ pg'[found[m].node] = pg[found[m].node]
  BY WiperNotFound DEF IInv, TInv, TypeOK
<1>6. \A p \in Node : Answers(p)' => pg'[p] \in Sys
  BY DEF IInv, TInv, Sane
<1>7. Sane'
  BY <1>2, <1>3, <1>4, <1>6 DEF IInv, TInv, Sane
<1>8. FoundHolds'
  BY <1>2, <1>5 DEF IInv, FoundHolds
<1> QED
  BY <1>3, <1>4, <1>7, <1>8 DEF IInv, OnePrimary, WipeReady

LEMMA DaemonKeeps ==
  ASSUME IInv, NEW n \in Node, Daemon(n)
  PROVE  (Sane /\ OnePrimary /\ FoundHolds /\ WipeReady)'
<1> DEFINE Goal == (Sane /\ OnePrimary /\ FoundHolds /\ WipeReady)'
<1>t. TypeOK
  BY DEF IInv, TInv
<1>1. CASE CheckLeader(n)
  <2>1. Calm
    BY <1>1 DEF CheckLeader, Calm
  <2> QED
    BY <1>1, <1>t, <2>1, CalmKeeps DEF CheckLeader, IInv, TInv, TypeOK, Sane, WipeReady, Set
<1>2. CASE ClearLeader(n)
  <2>1. Calm
    BY <1>2 DEF ClearLeader, Calm
  <2> QED
    BY <1>2, <1>t, <2>1, CalmKeeps DEF ClearLeader, IInv, TInv, TypeOK, Sane, WipeReady, Set
<1>3. CASE ReadInitialize(n)
  <2>1. CASE init = 0
    BY <1>3, <2>1, ForgetKeeps DEF ReadInitialize
  <2>2. CASE init # 0
    <3>1. Calm
      BY <1>3, <2>2 DEF ReadInitialize, Calm
    <3> QED
      BY <1>3, <1>t, <2>2, <3>1, CalmKeeps
      DEF ReadInitialize, IInv, TInv, TypeOK, Sane, WipeReady, Set
  <2> QED
    BY <2>1, <2>2
<1>4. CASE Ask(n)
  <2>1. PICK p \in ask[n] :
          found' = IF role[p] = "primary" THEN Set(found, n, Info(p)) ELSE found
    BY <1>4 DEF Ask
  <2>2. p \in Node
    BY <1>t, <2>1 DEF TypeOK
  <2>3. UNCHANGED <<pg, role, at, seen>> /\ at[n] = "ask"
    BY <1>4 DEF Ask
  <2>4. CASE role[p] # "primary"
    <3>1. Calm
      BY <2>1, <2>3, <2>4 DEF Calm
    <3> QED
      BY <2>3, <3>1, CalmKeeps DEF Calm, IInv, TInv, Sane, WipeReady
  <2>5. CASE role[p] = "primary"
    <3>1. /\ found' = [found EXCEPT ![n] = Info(p)]
          /\ Info(p).node = p /\ Info(p).sys = pg[p] /\ Info(p) # None
      BY <2>1, <2>2, <2>5, NodeAssumption DEF Set, Info, None
    <3>2. \A m \in Node : found'[m] # None =>
            /\ found'[m].node = p /\ found'[m].sys = pg[p]
      <4>1. TAKE m \in Node
      <4>2. CASE m = n
        BY <1>t, <3>1, <4>2 DEF TypeOK
      <4>3. CASE m # n
        BY <1>t, <2>2, <2>5, <3>1, <4>3 DEF TypeOK, IInv, FoundHolds
      <4> QED
        BY <4>2, <4>3
    <3>3. \A q \in Node : role'[q] = "primary" => q = p
      BY <2>2, <2>3, <2>5 DEF IInv, OnePrimary
    <3>4. Sane'
      BY <1>t, <2>3, <3>1 DEF IInv, TInv, Sane, TypeOK
    <3>5. WipeReady'
      BY <1>t, <2>3, <3>1 DEF IInv, WipeReady, TypeOK
    <3> QED
      BY <2>3, <3>2, <3>3, <3>4, <3>5 DEF OnePrimary, FoundHolds
  <2> QED
    BY <2>4, <2>5
<1>5. CASE SetInitialize(n)
  <2>1. Calm
    BY <1>5 DEF SetInitialize, Calm
  <2> QED
    BY <1>5, <1>t, <2>1, CalmKeeps
    DEF SetInitialize, Asked, IInv, TInv, TypeOK, Sane, WipeReady, Set
<1>6. CASE StopPatroni(n)
  <2>1. Calm
    BY <1>6, <1>t DEF StopPatroni, Calm, Set, TypeOK
  <2>2. WipeReady' /\ Sane'
    BY <1>6, <1>t, <2>1, CalmKeeps
    DEF StopPatroni, Asked, DataIsStale, Confirmed, IInv, TInv, TypeOK, Sane, WipeReady, Set
  <2> QED
    BY <2>1, <2>2, CalmKeeps
<1>7. CASE KeepData(n)
  BY <1>7, ForgetKeeps DEF KeepData
<1>8. CASE Wipe(n)
  <2>1. /\ pg' = [pg EXCEPT ![n] = 0] /\ Forget(n, "start")
        /\ role' = role /\ at[n] = "wipe"
    BY <1>8 DEF Wipe, Set
  <2>2. /\ role[n] = "stopped"
        /\ \A p \in Node \ {n} : pg'[p] = pg[p]
    BY <1>t, <2>1 DEF TypeOK, IInv, TInv, Sane
  <2> QED
    BY <2>1, <2>2, ForgetKeeps
<1>9. CASE StartPatroni(n)
  <2>1. role' = [role EXCEPT ![n] = "off"] /\ EndCheck(n) /\ UNCHANGED pg
    BY <1>9 DEF StartPatroni, Set
  <2> QED
    BY <1>t, <2>1, ForgetKeeps DEF TypeOK
<1> QED
  BY <1>1, <1>2, <1>3, <1>4, <1>5, <1>6, <1>7, <1>8, <1>9 DEF Daemon

LEMMA PatroniKeeps ==
  ASSUME IInv, Timely, NEW n \in Node, Patroni(n) \/ TakesLead(n) \/ InitDb(n)
  PROVE  (Sane /\ OnePrimary /\ FoundHolds /\ WipeReady)'
<1> USE DEF Run, check
<1>t. TypeOK
  BY DEF IInv, TInv
<1>1. CASE PatroniStarts(n) \/ MismatchExits(n) \/ Demotes(n)
  <2>1. Calm /\ UNCHANGED check
    BY <1>1, <1>t DEF PatroniStarts, MismatchExits, Demotes, Calm, Set, TypeOK
  <2> QED
    BY <2>1, CalmKeeps DEF Calm, IInv, TInv, Sane, WipeReady
<1>2. CASE Clones(n)
  <2>1. PICK p \in Node : role[p] = "primary" /\ pg' = [pg EXCEPT ![n] = pg[p]]
    BY <1>2 DEF Clones, Set
  <2>2. pg[n] = 0 /\ UNCHANGED <<role, check>>
    BY <1>2 DEF Clones
  <2>3. \A m \in Node : m # n => pg'[m] = pg[m]
    BY <1>t, <2>1 DEF TypeOK
  <2>4. pg[p] \in Sys /\ p # n /\ role[n] = "off"
    BY <1>2, <2>1, <2>2, SysType DEF Clones, IInv, TInv, Sane
  <2>5. \A m \in Node : found[m] # None => found[m].node \in Node /\ found[m].sys \in Sys
    BY <1>t DEF TypeOK
  <2>6. \A m \in Node : found[m] # None => found[m].node # n
    BY <2>2, <2>5, SysType DEF IInv, FoundHolds
  <2>7. FoundHolds'
    BY <2>2, <2>3, <2>5, <2>6 DEF IInv, FoundHolds
  <2> QED
    BY <2>2, <2>3, <2>4, <2>7 DEF IInv, TInv, Sane, OnePrimary, WipeReady
<1>3. CASE TakesLead(n) \/ InitDb(n)
  <2>1. \A m \in Node : found[m] = None
    BY <1>3 DEF TakesLead, InitDb, MayLead, Undecided
  <2>2. \A p \in Node : role[p] # "primary"
    BY <1>3 DEF TakesLead, InitDb, MayLead
  <2>3. role' = [role EXCEPT ![n] = "primary"] /\ UNCHANGED check
    BY <1>3 DEF TakesLead, InitDb, Set
  <2>4. \A p \in Node : role'[p] = "primary" => p = n
    BY <1>t, <2>2, <2>3 DEF TypeOK
  <2>5. pg'[n] \in Sys /\ role[n] # "stopped"
    <3>1. CASE TakesLead(n)
      BY <1>t, <3>1 DEF TakesLead, IInv, TInv, Sane, TypeOK
    <3>2. CASE InitDb(n)
      <4>1. PICK s \in Sys : pg' = [pg EXCEPT ![n] = s]
        BY <3>2, InitDbCreates
      <4> QED
        BY <1>t, <3>2, <4>1 DEF InitDb, TypeOK
    <3> QED
      BY <1>3, <3>1, <3>2
  <2>6. \A p \in Node : p # n => role'[p] = role[p] /\ pg'[p] = pg[p]
    <3>1. pg' = pg \/ \E s \in Sys : pg' = [pg EXCEPT ![n] = s]
      BY <1>3, InitDbCreates DEF TakesLead
    <3> QED
      BY <1>t, <2>3, <3>1 DEF TypeOK
  <2> QED
    BY <2>1, <2>3, <2>4, <2>5, <2>6 DEF IInv, TInv, Sane, OnePrimary, FoundHolds, WipeReady
<1> QED
  BY <1>1, <1>2, <1>3 DEF Patroni

LEMMA DisturbanceKeeps ==
  ASSUME IInv,
         \/ LockExpires \/ KeysLost
         \/ \E n \in Node : WipeFails(n) \/ DaemonDies(n) \/ CooldownEnds(n)
                            \/ PatroniExits(n) \/ Recovered(n)
  PROVE  (Sane /\ OnePrimary /\ FoundHolds /\ WipeReady)'
<1>t. TypeOK
  BY DEF IInv, TInv
<1>1. ASSUME Calm, UNCHANGED <<at, seen>>
      PROVE  (Sane /\ OnePrimary /\ FoundHolds /\ WipeReady)'
  BY <1>1, CalmKeeps DEF Calm, IInv, TInv, Sane, WipeReady
<1>2. CASE LockExpires \/ KeysLost
  BY <1>1, <1>2 DEF LockExpires, KeysLost, Calm, check
<1>3. ASSUME NEW n \in Node, WipeFails(n)
      PROVE  (Sane /\ OnePrimary /\ FoundHolds /\ WipeReady)'
  BY <1>3, <1>t, ForgetKeeps, DamagedType DEF WipeFails
<1>4. ASSUME NEW n \in Node, CooldownEnds(n) \/ Recovered(n)
      PROVE  (Sane /\ OnePrimary /\ FoundHolds /\ WipeReady)'
  BY <1>1, <1>4 DEF CooldownEnds, Recovered, Calm, check
<1>5. ASSUME NEW n \in Node, PatroniExits(n)
      PROVE  (Sane /\ OnePrimary /\ FoundHolds /\ WipeReady)'
  <2>1. Calm /\ UNCHANGED <<at, seen>>
    BY <1>5, <1>t DEF PatroniExits, Run, Set, Calm, check, TypeOK
  <2> QED
    BY <1>1, <2>1
<1>6. ASSUME NEW n \in Node, DaemonDies(n)
      PROVE  (Sane /\ OnePrimary /\ FoundHolds /\ WipeReady)'
  <2>1. at[n] = "wipe" \/ pg' = pg
    BY <1>6 DEF DaemonDies
  <2>2. \A p \in Node \ {n} : pg'[p] = pg[p]
    BY <1>6, <1>t, DamagedType DEF DaemonDies
  <2> QED
    BY <1>6, <2>1, <2>2, ForgetKeeps DEF DaemonDies
<1> QED
  BY <1>2, <1>3, <1>4, <1>5, <1>6

LEMMA StepKeeps == ASSUME Timely PROVE IInv /\ [Next]_vars => IInv'
<1> SUFFICES ASSUME IInv, [Next]_vars PROVE IInv'
  OBVIOUS
<1>1. TypeOK'
  BY TypeKeeps DEF IInv
<1>2. CASE UNCHANGED vars
  <2>1. Calm /\ UNCHANGED <<at, seen>>
    BY <1>2 DEF vars, check, Calm
  <2> QED
    BY <1>1, <2>1, CalmKeeps DEF Calm, IInv, TInv, Sane, WipeReady
<1>3. CASE Next
  BY <1>1, <1>3, DaemonKeeps, PatroniKeeps, DisturbanceKeeps DEF Next, IInv, TInv
<1> QED
  BY <1>2, <1>3

(* Every variable keeps its type, and Patroni is stopped only while its    *)
(* node is being wiped or after that has failed (checkPatroniSystemID).    *)
THEOREM TypeCorrect == ASSUME Timely PROVE Spec => []TypeOK
<1>1. IInv => TypeOK
  BY DEF IInv, TInv
<1> QED
  BY <1>1, InitHolds, StepKeeps, PTL DEF Spec

(* A step that takes the database from a node is its wipe.                 *)
LEMMA WipeStep ==
  ASSUME IInv, [Next]_vars, NEW n \in Node, pg[n] \in Sys, pg'[n] \notin Sys
  PROVE  at[n] = "wipe" /\ \A p \in Node \ {n} : pg'[p] = pg[p]
<1>t. TypeOK
  BY DEF IInv, TInv
<1>1. pg' # pg /\ Next
  BY DEF vars
<1>2. \A m \in Node : ~Clones(m)
  <2>1. SUFFICES ASSUME NEW m \in Node, Clones(m) PROVE FALSE
    OBVIOUS
  <2>2. PICK p \in Node : role[p] = "primary" /\ pg' = [pg EXCEPT ![m] = pg[p]]
    BY <2>1 DEF Clones, Set
  <2> QED
    BY <1>t, <2>2 DEF TypeOK, IInv, TInv, Sane
<1>3. \A m \in Node : ~InitDb(m)
  <2>1. SUFFICES ASSUME NEW m \in Node, InitDb(m) PROVE FALSE
    OBVIOUS
  <2>2. PICK s \in Sys : pg' = [pg EXCEPT ![m] = s]
    BY <2>1, InitDbCreates
  <2> QED
    BY <1>t, <2>2 DEF TypeOK
<1>4. PICK m \in Node : Wipe(m) \/ WipeFails(m) \/ DaemonDies(m)
  BY <1>1, <1>2, <1>3
  DEF Next, Daemon, Patroni, LockExpires, KeysLost, CheckLeader, ClearLeader,
      ReadInitialize, Ask, SetInitialize, StopPatroni, KeepData, StartPatroni,
      CooldownEnds, PatroniStarts, MismatchExits, Demotes, TakesLead, PatroniExits,
      Recovered
<1>5. at[m] = "wipe" /\ \A p \in Node \ {m} : pg'[p] = pg[p]
  BY <1>1, <1>4, <1>t, DamagedType DEF Wipe, WipeFails, DaemonDies, Set, TypeOK
<1>6. m = n
  BY <1>5
<1> QED
  BY <1>5, <1>6

(* Whoever loses its database to a wipe, complete or cut short, does so    *)
(* for one that another node has at that moment, however many daemons      *)
(* check, wipe, die and override /initialize at once (guard 1 of           *)
(* checkPatroniSystemID).                                                  *)
THEOREM WipeKeepsAuthorityHolds == ASSUME Timely PROVE Spec => WipeKeepsAuthority
<1>1. IInv /\ [Next]_vars =>
        [\A n \in Node : pg[n] \in Sys /\ pg'[n] \notin Sys =>
           \E m \in Node \ {n} : pg'[m] = seen[n]]_vars
  <2>1. SUFFICES ASSUME IInv, [Next]_vars, NEW n \in Node,
                        pg[n] \in Sys, pg'[n] \notin Sys
                 PROVE  \E m \in Node \ {n} : pg'[m] = seen[n]
    OBVIOUS
  <2>2. at[n] = "wipe" /\ \A p \in Node \ {n} : pg'[p] = pg[p]
    BY <2>1, WipeStep
  <2>3. /\ found[n] # None /\ found[n].sys = seen[n]
        /\ found[n].node \in Node \ {n}
    BY <2>1, <2>2, WiperNotFound
  <2> QED
    BY <2>1, <2>2, <2>3 DEF IInv, FoundHolds
<1> QED
  BY <1>1, InitHolds, StepKeeps, PTL DEF Spec, WipeKeepsAuthority
=============================================================================
