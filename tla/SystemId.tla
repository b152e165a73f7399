------------------------------- MODULE SystemId -------------------------------
(***************************************************************************)
(* Which database a deployment belongs to, and who gives up the data of    *)
(* another one: checkStalePatroniLeader and checkPatroniSystemID           *)
(* (cmd/flux-agent/daemon.go).  The daemons of all nodes read /initialize  *)
(* and /leader of the DCS, ask every node's Patroni who it is, one after   *)
(* the other, and then overwrite /initialize or wipe their own PGDATA, on  *)
(* answers that may be stale by then.                                      *)
(*                                                                         *)
(* etcd serves all the time and all nodes are desired.  A database is its  *)
(* system ID, PGDATA the ID it has, 0 when it is empty, or Partial when a  *)
(* wipe that went wrong has left files in it but no readable global.       *)
(* External: Patroni runs with the data /initialize names, exits when that *)
(* changes, clones an empty PGDATA from the primary, creates a database    *)
(* where there is none, and leads with the leader key only.                *)
(***************************************************************************)
EXTENDS Naturals, FiniteSets

CONSTANTS
  Node,        \* the nodes: positive naturals, in the order of their addresses
  Initial,     \* the PGDATA to start with
  MaxSys,      \* how many databases there get to be at a time: a bound for TLC
  AllowWipe,   \* nodes with ALLOW_PG_DATA_WIPE=true
  Timely,      \* no primary comes up during a check: see Undecided
  Faults,      \* the kinds of disturbance that happen
  MaxFaults    \* how many of them: a bound for TLC

Sys == 1..MaxSys
Partial == MaxSys + 1
PgData == Sys \cup {0, Partial}
None == [node |-> 0, sys |-> 0]

ASSUME NodeAssumption == Node \subseteq Nat \ {0} /\ IsFiniteSet(Node)
ASSUME BoundAssumption == MaxSys \in Nat /\ MaxFaults \in Nat
ASSUME InitialAssumption == Initial \subseteq [Node -> Sys \cup {0}]
ASSUME SettingAssumption == AllowWipe \subseteq Node /\ Timely \in BOOLEAN

VARIABLES
  init,     \* /initialize, 0: no such key
  leader,   \* /leader, 0: no such key
  pg,       \* pg[n]: the database in PGDATA of n
  role,     \* role[n]: what Patroni of n runs as; "off": it does not answer
  at,       \* at[n]: where the daemon of n is in its check
  seen,     \* seen[n]: etcdSysID, the value of /initialize it goes by
  ask,      \* ask[n]: the nodes it has yet to ask
  found,    \* found[n]: the primary it has found, and its database
  matched,  \* matched[n]: somebody runs the database seen[n]
  cooling,  \* cooling[n]: the cooldown of wipes runs
  faults    \* how many disturbances have happened

dcs == <<init, leader>>
check == <<at, seen, ask, found, matched, cooling>>
vars == <<dcs, pg, role, check, faults>>

-----------------------------------------------------------------------------
Answers(p) == role[p] \in {"primary", "replica"}
Info(p) == [node |-> p, sys |-> pg[p]]
Set(f, n, v) == [f EXCEPT ![n] = v]

Init ==
  /\ pg \in Initial
  /\ init \in {pg[n] : n \in Node} \cup {0}
  /\ leader = 0
  /\ role = [n \in Node |-> "off"]
  /\ at = [n \in Node |-> "idle"]
  /\ seen = [n \in Node |-> 0]
  /\ ask = [n \in Node |-> {}]
  /\ found = [n \in Node |-> None]
  /\ matched = [n \in Node |-> FALSE]
  /\ cooling = [n \in Node |-> FALSE]
  /\ faults = 0

-----------------------------------------------------------------------------
(* The daemon.                                                             *)

(* What the check has found out is forgotten.                              *)
Forget(n, place) ==
  /\ at' = Set(at, n, place) /\ seen' = Set(seen, n, 0) /\ ask' = Set(ask, n, {})
  /\ found' = Set(found, n, None) /\ matched' = Set(matched, n, FALSE)

EndCheck(n) == Forget(n, "idle")

(* checkStalePatroniLeader, up to the removal of the key.                  *)
StaleLeader(n) == pg[n] # 0 /\ leader \notin {0, n} /\ ~Answers(leader)

CheckLeader(n) ==
  /\ at[n] = "idle" /\ StaleLeader(n)
  /\ at' = Set(at, n, "clear")
  /\ UNCHANGED <<dcs, pg, role, seen, ask, found, matched, cooling, faults>>

(* Whoever has become leader since loses the key, too.                     *)
ClearLeader(n) ==
  /\ at[n] = "clear"
  /\ leader' = 0
  /\ at' = Set(at, n, "read")
  /\ UNCHANGED <<init, pg, role, seen, ask, found, matched, cooling, faults>>

ReadInitialize(n) ==
  /\ \/ at[n] = "read"
     \/ at[n] = "idle" /\ (~StaleLeader(n) \/ pg[n] = Partial)
  /\ IF init = 0
       THEN EndCheck(n)
       ELSE /\ at' = Set(at, n, "ask") /\ seen' = Set(seen, n, init)
            /\ ask' = Set(ask, n, Node)
            /\ UNCHANGED <<found, matched>>
  /\ UNCHANGED <<dcs, pg, role, cooling, faults>>

(* GetInfo of the next node: it answers with its role and database, or not *)
(* at all.  The last primary found counts.                                 *)
Ask(n) ==
  /\ at[n] = "ask"
  /\ \E p \in ask[n] :
       /\ \A q \in ask[n] : p <= q
       /\ ask' = [ask EXCEPT ![n] = @ \ {p}]
       /\ found' = IF role[p] = "primary"
                     THEN Set(found, n, Info(p)) ELSE found
       /\ matched' = Set(matched, n, matched[n] \/ (Answers(p) /\ pg[p] = seen[n]))
  /\ UNCHANGED <<dcs, pg, role, at, seen, cooling, faults>>

Asked(n) == at[n] = "ask" /\ ask[n] = {}

(* Case 1: /initialize names a database that nobody runs.                  *)
KeyIsStale(n) == found[n] # None /\ found[n].sys # seen[n] /\ ~matched[n]

SetInitialize(n) ==
  /\ Asked(n) /\ KeyIsStale(n)
  /\ init' = found[n].sys
  /\ seen' = Set(seen, n, found[n].sys)
  /\ matched' = Set(matched, n, TRUE)
  /\ UNCHANGED <<leader, pg, role, at, ask, found, cooling, faults>>

(* Mutant of Confirmed: a replica that runs the database is enough.        *)
ConfirmedByAnyMember(n) == matched[n]

(* Case 2: a primary runs the database of /initialize.                     *)
Confirmed(n) == found[n] # None /\ found[n].sys = seen[n]

(* Mutant of DataIsStale: a node whose Patroni cannot run is left alone.   *)
DataIsStaleIfRunning(n) ==
  Answers(n) /\ Confirmed(n) /\ n # found[n].node /\ pg[n] \in Sys \ {seen[n]}

DataIsStale(n) ==
  Confirmed(n) /\ n # found[n].node /\ pg[n] \in Sys \ {seen[n]}

(* supervisorctl stop patroni.                                             *)
StopPatroni(n) ==
  /\ Asked(n) /\ ~KeyIsStale(n)
  /\ DataIsStale(n) /\ n \in AllowWipe /\ ~cooling[n]
  /\ cooling' = Set(cooling, n, TRUE)
  /\ role' = Set(role, n, "stopped")
  /\ at' = Set(at, n, "wipe")
  /\ UNCHANGED <<dcs, pg, seen, ask, found, matched, faults>>

KeepData(n) ==
  /\ Asked(n) /\ ~KeyIsStale(n)
  /\ DataIsStale(n) => n \notin AllowWipe \/ cooling[n]
  /\ EndCheck(n)
  /\ UNCHANGED <<dcs, pg, role, cooling, faults>>

Wipe(n) ==
  /\ at[n] = "wipe"
  /\ pg' = Set(pg, n, 0)
  /\ Forget(n, "start")
  /\ UNCHANGED <<dcs, role, cooling, faults>>

(* Mutant of StartPatroni: it is not started again.                        *)
StartNothing(n) ==
  /\ at[n] = "start"
  /\ EndCheck(n)
  /\ UNCHANGED <<dcs, pg, role, cooling, faults>>

(* supervisorctl start patroni: the only place that starts it again.       *)
StartPatroni(n) ==
  /\ at[n] = "start"
  /\ role' = Set(role, n, "off")
  /\ EndCheck(n)
  /\ UNCHANGED <<dcs, pg, cooling, faults>>

Disturb(k) == k \in Faults /\ faults < MaxFaults /\ faults' = faults + 1

(* What a wipe that does not end has done: entries go one by one, in the   *)
(* order of their names, base before global.                               *)
Damaged(n) == \E left \in {pg[n], Partial} : pg' = Set(pg, n, left)

(* wipeDir returns at the first entry it cannot remove, and Patroni is not *)
(* started again.                                                          *)
WipeFails(n) ==
  /\ at[n] = "wipe" /\ Disturb("wipe")
  /\ Damaged(n)
  /\ EndCheck(n)
  /\ UNCHANGED <<dcs, role, cooling>>

(* The daemon is killed; supervisord starts another, which knows nothing   *)
(* of a wipe in work.  The cooldown is a file.                             *)
DaemonDies(n) ==
  /\ at[n] # "idle" /\ Disturb("daemon")
  /\ IF at[n] = "wipe" THEN Damaged(n) ELSE UNCHANGED pg
  /\ EndCheck(n)
  /\ UNCHANGED <<dcs, role, cooling>>

CooldownEnds(n) ==
  /\ cooling[n]
  /\ cooling' = Set(cooling, n, FALSE)
  /\ UNCHANGED <<dcs, pg, role, at, seen, ask, found, matched, faults>>

Daemon(n) ==
  \/ CheckLeader(n)
  \/ ClearLeader(n)
  \/ ReadInitialize(n)
  \/ Ask(n)
  \/ SetInitialize(n)
  \/ StopPatroni(n)
  \/ KeepData(n)
  \/ Wipe(n)
  \/ StartPatroni(n)

-----------------------------------------------------------------------------
(* Patroni and the DCS.                                                    *)

Run(n, r) == role' = Set(role, n, r)

(* A start of Patroni takes 20 s and a failover the 30 s of the leader     *)
(* lock, a check at most 5 s for each node that does not answer.  If       *)
(* Timely, no node becomes primary while one is still relied upon.         *)
Undecided == \E n \in Node : found[n] # None
MayLead == (Timely => ~Undecided) /\ \A p \in Node : role[p] # "primary"

PatroniStarts(n) ==
  /\ role[n] = "off" /\ pg[n] \in Sys /\ init \in {0, pg[n]}
  /\ Run(n, "replica")
  /\ UNCHANGED <<dcs, pg, check, faults>>

TakesLead(n) ==
  /\ role[n] = "replica" /\ leader = 0 /\ init \in {0, pg[n]} /\ MayLead
  /\ leader' = n
  /\ init' = pg[n]
  /\ Run(n, "primary")
  /\ UNCHANGED <<pg, check, faults>>

(* A database that nobody has or speaks of.                                *)
NewSys == Sys \ ({pg[n] : n \in Node} \cup {seen[n] : n \in Node}
                 \cup {found[n].sys : n \in Node} \cup {init})
InitDb(n) ==
  /\ role[n] = "off" /\ pg[n] = 0 /\ init = 0 /\ leader = 0 /\ MayLead
  /\ NewSys # {}
  /\ LET s == CHOOSE x \in NewSys : TRUE
     IN init' = s /\ pg' = Set(pg, n, s)
  /\ leader' = n
  /\ Run(n, "primary")
  /\ UNCHANGED <<check, faults>>

Clones(n) ==
  /\ role[n] = "off" /\ pg[n] = 0
  /\ \E p \in Node : role[p] = "primary" /\ pg' = Set(pg, n, pg[p])
  /\ UNCHANGED <<dcs, role, check, faults>>

MismatchExits(n) ==
  /\ Answers(n) /\ init \notin {0, pg[n]}
  /\ Run(n, "off")
  /\ UNCHANGED <<dcs, pg, check, faults>>

Demotes(n) ==
  /\ role[n] = "primary" /\ leader # n
  /\ Run(n, "replica")
  /\ UNCHANGED <<dcs, pg, check, faults>>

LockExpires ==
  /\ leader # 0 /\ role[leader] # "primary"
  /\ leader' = 0
  /\ UNCHANGED <<init, pg, role, check, faults>>

Patroni(n) ==
  \/ PatroniStarts(n)
  \/ Clones(n)
  \/ MismatchExits(n)
  \/ Demotes(n)

PatroniExits(n) ==
  /\ Answers(n) /\ Disturb("exit")
  /\ Run(n, "off")
  /\ UNCHANGED <<dcs, pg, check>>

(* A new epoch of etcd has no keys of Patroni.                             *)
KeysLost ==
  /\ Disturb("keys")
  /\ init' = 0 /\ leader' = 0
  /\ UNCHANGED <<pg, role, check>>

(* A recovery, on n, makes n's database that of the deployment.            *)
Recovered(n) ==
  /\ pg[n] \in Sys /\ Disturb("recovery")
  /\ init' = pg[n] /\ leader' = 0
  /\ UNCHANGED <<pg, role, check>>

Next ==
  \/ LockExpires
  \/ KeysLost
  \/ \E n \in Node :
       \/ Daemon(n)
       \/ WipeFails(n)
       \/ DaemonDies(n)
       \/ CooldownEnds(n)
       \/ Patroni(n)
       \/ TakesLead(n)
       \/ InitDb(n)
       \/ PatroniExits(n)
       \/ Recovered(n)

(* The daemon runs for ever, time passes, and Patroni does what it does    *)
(* once the DCS says so; who leads is left open.                           *)
Fairness ==
  /\ WF_vars(LockExpires)
  /\ \A n \in Node : /\ WF_vars(Daemon(n))
                     /\ WF_vars(CooldownEnds(n))
                     /\ WF_vars(Patroni(n))

Spec == Init /\ [][Next]_vars
LiveSpec == Spec /\ Fairness

-----------------------------------------------------------------------------
(* Every variable holds a value of its type, and Patroni is stopped only   *)
(* while its node is being wiped, or after that was cut short.             *)
TypeOK ==
  /\ init \in Sys \cup {0}
  /\ leader \in Node \cup {0}
  /\ pg \in [Node -> PgData]
  /\ role \in [Node -> {"off", "stopped", "replica", "primary"}]
  /\ at \in [Node -> {"idle", "clear", "read", "ask", "wipe", "start"}]
  /\ seen \in [Node -> Sys \cup {0}]
  /\ ask \in [Node -> SUBSET Node]
  /\ found \in [Node -> {None} \cup [node : Node, sys : Sys]]
  /\ matched \in [Node -> BOOLEAN]
  /\ cooling \in [Node -> BOOLEAN]
  /\ faults \in 0..MaxFaults
  /\ \A n \in Node : role[n] = "stopped" => at[n] \in {"wipe", "start"} \/ faults > 0

(* Whoever loses its database to a wipe, complete or cut short, does so    *)
(* for one that another node still has at that moment, however many nodes  *)
(* wipe and override /initialize at the same time: guard 1 of              *)
(* checkPatroniSystemID (daemon.go:732).                                   *)
WipeKeepsAuthority ==
  [][\A n \in Node : pg[n] \in Sys /\ pg'[n] \notin Sys =>
       \E m \in Node \ {n} : pg'[m] = seen[n]]_vars

(* A primary that stays settles it: at last /initialize names its database *)
(* and every node runs it (case 1, then case 2 with                        *)
(* ALLOW_PG_DATA_WIPE=true), but for the nodes the code gives up: a wipe   *)
(* that failed, or a daemon that was killed, between the stop and the      *)
(* start of Patroni (daemon.go:771-776) leaves it stopped, and as the      *)
(* PGDATA left is no longer found stale, nothing ever tries again.  A node *)
(* whose PGDATA still is of another database is not given up.              *)
Runs(n, p) == pg[n] = pg[p] /\ Answers(n)
GivenUp(n, p) == role[n] = "stopped" /\ pg[n] \in {0, Partial, pg[p]}
Agrees(p) == init = pg[p] /\ \A n \in Node : Runs(n, p) \/ GivenUp(n, p)
Heals == \A p \in Node : <>[](role[p] = "primary") => <>[]Agrees(p)

=============================================================================
