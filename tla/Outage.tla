------------------------------- MODULE Outage -------------------------------
(***************************************************************************)
(* How a deployment gets out of an etcd outage: the daemon of each node    *)
(* (runReconcile and handleEtcdUnreachable, cmd/flux-agent/daemon.go)      *)
(* counts the cycles without etcd or without a quorum, asks all the nodes  *)
(* for an authority, and then drives etcd-start of its own node with a     *)
(* flag file and a restart: the authority forces a new epoch, the others   *)
(* drop their etcd data and join.  Daemon, etcd-start and etcd of a node   *)
(* share files under /tmp and run concurrently; so do the nodes.           *)
(*                                                                         *)
(* The membership view is Node on all nodes, stable, and PGDATA stays what *)
(* it is: what changes of either do to the evidence is the subject of      *)
(* EpochBootstrap, whose confirmation in rounds is one step here.  Nodes   *)
(* fresh enough for AUTO_BOOTSTRAP_IF_FRESH and the operator's override    *)
(* are left to it too.  External: etcd serves a client when its node is a  *)
(* voter of an epoch with a quorum of voters up; the network works.        *)
(***************************************************************************)
EXTENDS Evidence, FiniteSets

CONSTANTS
  Node,          \* the nodes: naturals, in the order of their names
  Initial,       \* the disks to start with: pg, and epoch 1, or 0 if it is lost
  DeadRec,       \* nodes with DEAD_CLUSTER_RECOVERY=true
  DownCycles,    \* ETCD_UNAVAILABLE_RECOVERY_CYCLES
  Stability,     \* DESIRED_STATE_STABILITY_CYCLES
  Timely,        \* delays are as long as they are meant to be: see Starting
  Faults,        \* the kinds of disturbance that happen
  MaxFaults,     \* how many of them: a bound for TLC
  MaxEpoch       \* how many epochs there get to be: a bound for TLC

Epoch == 1..MaxEpoch
FaultKind == {"exit", "lose", "daemon"}

ASSUME NodeAssumption == Node \subseteq Nat /\ IsFiniteSet(Node)
ASSUME InitialAssumption ==
  Initial \subseteq [Node -> [pg : PgState, epoch : {0, 1}]]
ASSUME ThresholdAssumption == DownCycles \in Nat /\ Stability \in Nat
ASSUME TimelyAssumption == Timely \in BOOLEAN
ASSUME BoundAssumption == MaxEpoch \in Nat \ {0} /\ MaxFaults \in Nat

VARIABLES
  pg,        \* pg[n]: the content of PGDATA
  epoch,     \* epoch[n]: the epoch of n's etcd data, 0: none
  roster,    \* roster[e][n]: n's entry in the member list of e
  pc,        \* pc[n]: where etcd-start of n is; "up": it has become etcd
  target,    \* target[n]: the epoch it is about to run, 0: a new one
  flag,      \* flag[n]: /tmp/force-new-cluster exists
  downs,     \* downs[n]: /tmp/etcd-unavailable-count
  noquorum,  \* noquorum[n]: /tmp/etcd-no-quorum-count
  cooling,   \* cooling[n]: the cooldowns that run: "etcd", "force"
  daemon,    \* daemon[n]: where the daemon is in its cycle
  born,      \* how many epochs have been created
  faults     \* how many disturbances have happened

etcd == <<epoch, roster, pc, target, born>>
counters == <<downs, noquorum, cooling>>
vars == <<pg, etcd, flag, counters, daemon, faults>>

-----------------------------------------------------------------------------
Member(e) == {m \in Node : roster[e][m] # "absent"}
Voter(e) == {m \in Node : roster[e][m] = "voter"}
Running(e) == {m \in Node : pc[m] = "up" /\ epoch[m] = e}
HasQuorum(e) ==
  e # 0 /\ 2 * Cardinality(Voter(e) \cap Running(e)) > Cardinality(Voter(e))

(* p answers a member list; a learner rejects the call.                    *)
Serves(p) ==
  /\ pc[p] = "up" /\ epoch[p] # 0
  /\ p \in Voter(epoch[p]) /\ HasQuorum(epoch[p])

(* FindByName: a member that has not started has no name yet.              *)
Knows(p, n) == roster[epoch[p]][n] \in {"learner", "voter"}
ServingPeers(n) == {p \in Node \ {n} : Serves(p)}

(* What the authenticated identities of all nodes say at this moment.      *)
Identities == [p \in Node |-> OkSample(pg[p], epoch[p] = 0, Node)]
Authority(a) == a \in Authorities(Identities, Node, Node)
PgDir(n) == ~pg[n].empty

Disturb(k) == k \in Faults /\ faults < MaxFaults /\ faults' = faults + 1

Init ==
  /\ \E disks \in Initial : /\ pg = [n \in Node |-> disks[n].pg]
                           /\ epoch = [n \in Node |-> disks[n].epoch]
  /\ roster = [e \in Epoch |-> [n \in Node |-> IF e = 1 THEN "voter" ELSE "absent"]]
  /\ pc = [n \in Node |-> IF epoch[n] = 0 THEN "down" ELSE "up"]
  /\ target = [n \in Node |-> 0]
  /\ flag = [n \in Node |-> FALSE]
  /\ downs = [n \in Node |-> 0]
  /\ noquorum = [n \in Node |-> 0]
  /\ cooling = [n \in Node |-> {}]
  /\ daemon = [n \in Node |-> "idle"]
  /\ born = 1
  /\ faults = 0

-----------------------------------------------------------------------------
(* etcd-start.                                                             *)

Goto(n, place) == pc' = [pc EXCEPT ![n] = place]
RunEpoch(n, e) == Goto(n, "exec") /\ target' = [target EXCEPT ![n] = e]
Wipe(n) == epoch' = [epoch EXCEPT ![n] = 0]
Consume(n) == flag' = [flag EXCEPT ![n] = FALSE]

(* Data present: the first peer that answers decides, or nobody answers.   *)
StartPresent(n) ==
  /\ pc[n] = "down" /\ epoch[n] # 0
  /\ \/ /\ ServingPeers(n) = {} \/ \E p \in ServingPeers(n) : Knows(p, n)
        /\ RunEpoch(n, epoch[n])
        /\ UNCHANGED epoch
     \/ /\ \E p \in ServingPeers(n) : ~Knows(p, n)
        /\ Wipe(n)
        /\ Goto(n, "rejoin")
        /\ UNCHANGED target
  /\ UNCHANGED <<pg, roster, born, flag, counters, daemon, faults>>

MayRecover(n) == n \in DeadRec /\ PgDir(n) /\ epoch[n] = 0

(* consumeEmptyDCSRecoveryHint, or straight to peer discovery.             *)
StartEmpty(n) ==
  /\ pc[n] = "down" /\ epoch[n] = 0
  /\ IF MayRecover(n) /\ flag[n]
       THEN /\ Consume(n)
            /\ IF Authority(n) THEN RunEpoch(n, 0)
                               ELSE Goto(n, "join") /\ UNCHANGED target
       ELSE Goto(n, "join") /\ UNCHANGED <<target, flag>>
  /\ UNCHANGED <<pg, epoch, roster, born, counters, daemon, faults>>

Joining(n) == pc[n] \in {"join", "refused", "rejoin"}

(* Etcd admits one learner at a time.                                      *)
Full(p, n) == ~(Member(epoch[p]) \ {n} \subseteq Voter(epoch[p]))

(* An attempt of tryJoinExisting that reaches p.                           *)
JoinPeer(n, p) ==
  /\ Joining(n)
  /\ p \in ServingPeers(n)
  /\ LET e == epoch[p]
     IN IF Knows(p, n) /\ pc[n] # "rejoin"
          THEN RunEpoch(n, e) /\ UNCHANGED roster
          ELSE IF ~Full(p, n)
            THEN RunEpoch(n, e) /\ roster' = [roster EXCEPT ![e][n] = "added"]
            ELSE /\ roster' = [roster EXCEPT ![e][n] = "absent"]
                 /\ pc' = [pc EXCEPT ![n] = IF @ = "join" THEN "refused" ELSE @]
                 /\ UNCHANGED target
  /\ UNCHANGED <<pg, epoch, born, flag, counters, daemon, faults>>

(* The attempts are used up: bootstrap, or exit and be started again.  A   *)
(* peer that came up after the last attempt is not noticed; if Timely, it  *)
(* came up before.                                                         *)
JoinFails(n) ==
  /\ Joining(n)
  /\ Timely => \A p \in ServingPeers(n) : Full(p, n)
  /\ IF pc[n] = "join" /\ MayRecover(n) /\ Authority(n)
       THEN RunEpoch(n, 0)
       ELSE Goto(n, "down") /\ UNCHANGED target
  /\ UNCHANGED <<pg, epoch, roster, born, flag, counters, daemon, faults>>

(* A new epoch with n as its only member.                                  *)
Create(n) ==
  /\ born < MaxEpoch
  /\ born' = born + 1
  /\ epoch' = [epoch EXCEPT ![n] = born + 1]
  /\ roster' = [roster EXCEPT ![born + 1][n] = "voter"]
  /\ Goto(n, "up")

(* Mutant of Forces: the flag is consumed and nothing else.                *)
ForcesNothing(n) == FALSE
(* Mutant of Forces: any start on existing data forces, flag or not.       *)
ForcesUnasked(n) == target[n] # 0 /\ epoch[n] = target[n]
(* --force-new-cluster has an effect on existing data only.                *)
Forces(n) == flag[n] /\ target[n] # 0 /\ epoch[n] = target[n]

(* The flag is consumed whatever etcd is started for, and etcd runs.  Its  *)
(* entry is in the member list: nobody but n itself ever takes it out.     *)
Exec(n) ==
  /\ pc[n] = "exec"
  /\ IF target[n] = 0 \/ Forces(n)
       THEN Create(n)
       ELSE /\ IF epoch[n] = target[n] \/ HasQuorum(target[n])
                 THEN /\ epoch' = [epoch EXCEPT ![n] = target[n]]
                      /\ roster' = [roster EXCEPT ![target[n]][n] =
                                      IF @ = "added" THEN "learner" ELSE @]
                      /\ Goto(n, "up")
                 ELSE Goto(n, "down") /\ UNCHANGED <<epoch, roster>>
            /\ UNCHANGED born
  /\ Consume(n)
  /\ target' = [target EXCEPT ![n] = 0]
  /\ cooling' = [cooling EXCEPT ![n] = @ \cup {"etcd"}]
  /\ UNCHANGED <<pg, downs, noquorum, daemon, faults>>

-----------------------------------------------------------------------------
(* The daemon.  A cycle is one step, except that a confirmation and the    *)
(* wait for a forced etcd last tens of seconds, and the world goes on.     *)

(* Mutant of AtMost: the counter goes one beyond the threshold.            *)
AtMostPlusOne(k, bound) == IF k <= bound THEN k ELSE bound + 1
AtMost(k, bound) == IF k < bound THEN k ELSE bound

(* supervisorctl restart etcd: whatever etcd-start was doing is forgotten. *)
Restart(n) == Goto(n, "down") /\ target' = [target EXCEPT ![n] = 0]
Cool(n, k) == cooling' = [cooling EXCEPT ![n] = @ \cup {k}]

Strangers(n) == {p \in ServingPeers(n) : ~Knows(p, n)}
Friends(n) == ServingPeers(n) \ Strangers(n)
(* Mutant of Outvoted: no vote counts as a lost one.                       *)
OutvotedByNobody(n) == Cardinality(Strangers(n)) >= Cardinality(Friends(n))
Outvoted(n) == Cardinality(Strangers(n)) > Cardinality(Friends(n))

(* wipeDir("/var/lib/etcd"), and a restart; postponed while etcd settles.  *)
WipeAndRestart(n) ==
  /\ "etcd" \notin cooling[n]
  /\ Wipe(n) /\ Restart(n) /\ Cool(n, "etcd")
RestartOnly(n) ==
  /\ "etcd" \notin cooling[n]
  /\ Restart(n) /\ Cool(n, "etcd")
  /\ UNCHANGED epoch
Settling(n) == "etcd" \in cooling[n] /\ UNCHANGED <<epoch, pc, target, cooling>>
LeaveEtcd == UNCHANGED <<epoch, pc, target, cooling>>

(* handleEtcdUnreachable, up to the confirmation.                          *)
CycleDown(n) ==
  /\ daemon[n] = "idle"
  /\ pc[n] # "up" \/ ~HasQuorum(epoch[n])
  /\ LET count == AtMost(downs[n] + 1, DownCycles)
         counted == downs' = [downs EXCEPT ![n] = count]
         reset == downs' = [downs EXCEPT ![n] = 0]
         confirm == n \in DeadRec /\ ServingPeers(n) = {}
     IN \/ count < DownCycles /\ counted /\ LeaveEtcd /\ UNCHANGED daemon
        \/ /\ count = DownCycles /\ confirm
           /\ daemon' = [daemon EXCEPT ![n] = "authority"]
           /\ counted /\ LeaveEtcd
        \/ /\ count = DownCycles /\ ~confirm
           /\ \/ Outvoted(n) /\ WipeAndRestart(n) /\ reset
              \/ ~Outvoted(n) /\ Friends(n) # {} /\ RestartOnly(n) /\ reset
              \/ ServingPeers(n) # {} /\ Settling(n) /\ counted
              \/ ServingPeers(n) = {} /\ LeaveEtcd /\ counted
           /\ UNCHANGED daemon
  /\ UNCHANGED <<pg, roster, born, flag, noquorum, faults>>

(* The process is there (/health 200 or 503), but a write fails.           *)
CycleNoQuorum(n) ==
  /\ daemon[n] = "idle"
  /\ pc[n] = "up" /\ ~Serves(n)
  /\ downs' = [downs EXCEPT ![n] = 0]
  /\ LET count == AtMost(noquorum[n] + 1, Stability)
     IN /\ noquorum' = [noquorum EXCEPT ![n] = count]
        /\ daemon' = IF count = Stability /\ PgDir(n)
                       THEN [daemon EXCEPT ![n] = "survivor"] ELSE daemon
  /\ UNCHANGED <<pg, etcd, flag, cooling, faults>>

(* A single-member etcd, and a peer whose etcd has more members.           *)
SplitBrain(n) ==
  /\ Cardinality(Node) > 1 /\ Cardinality(Member(epoch[n])) <= 1
  /\ \E p \in ServingPeers(n) :
       Cardinality(Member(epoch[p])) > Cardinality(Member(epoch[n]))

(* Learners that run are promoted to voters.                               *)
Promote(n) ==
  roster' = [roster EXCEPT ![epoch[n]] =
    [m \in Node |-> IF @[m] = "learner" /\ m \in Running(epoch[n])
                      THEN "voter" ELSE @[m]]]

(* Write quorum: reconcile the members.                                    *)
CycleHealthy(n) ==
  /\ daemon[n] = "idle"
  /\ Serves(n)
  /\ downs' = [downs EXCEPT ![n] = 0]
  /\ noquorum' = [noquorum EXCEPT ![n] = 0]
  /\ \/ /\ SplitBrain(n)
        /\ RestartOnly(n) \/ Settling(n)
        /\ UNCHANGED roster
     \/ /\ ~SplitBrain(n) /\ Outvoted(n)
        /\ WipeAndRestart(n) \/ Settling(n)
        /\ UNCHANGED roster
     \/ /\ ~SplitBrain(n) /\ ~Outvoted(n)
        /\ Promote(n)
        /\ LeaveEtcd
  /\ UNCHANGED <<pg, born, flag, daemon, faults>>

(* triggerForceNewCluster, up to the restart.                              *)
Trigger(n) ==
  /\ flag' = [flag EXCEPT ![n] = TRUE]
  /\ noquorum' = [noquorum EXCEPT ![n] = 0]
  /\ Cool(n, "force")
  /\ daemon' = [daemon EXCEPT ![n] = "restart"]
  /\ UNCHANGED <<downs, epoch, pc, target>>

(* The answer is in.  Nothing that was measured before is looked at again. *)
ConfirmEnds(n) ==
  /\ daemon[n] \in {"authority", "survivor"}
  /\ \/ /\ Authority(n) /\ "force" \notin cooling[n]
        /\ Trigger(n)
     \/ /\ daemon[n] = "authority"
        /\ \E a \in Node \ {n} : Authority(a)
        /\ WipeAndRestart(n)
        /\ downs' = [downs EXCEPT ![n] = 0]
        /\ daemon' = [daemon EXCEPT ![n] = "idle"]
        /\ UNCHANGED <<flag, noquorum>>
     \/ /\ \/ Authority(n) /\ "force" \in cooling[n]
           \/ ~ \E a \in Node : Authority(a)
           \/ ~Authority(n) /\ (daemon[n] = "survivor" \/ "etcd" \in cooling[n])
        /\ daemon' = [daemon EXCEPT ![n] = "idle"]
        /\ UNCHANGED <<flag, epoch, pc, target, counters>>
  /\ UNCHANGED <<pg, roster, born, faults>>

(* An etcd-start that reached its end just before has taken the flag.      *)
ForcedRestart(n) ==
  /\ daemon[n] = "restart"
  /\ Restart(n)
  /\ daemon' = [daemon EXCEPT ![n] = "wait"]
  /\ UNCHANGED <<pg, epoch, roster, born, flag, counters, faults>>

(* Etcd answers again: the Patroni keys of what was there before are       *)
(* removed from it, and the system ID of the authority is put in.          *)
CleanKeys(n) ==
  /\ daemon[n] = "wait"
  /\ Serves(n)
  /\ daemon' = [daemon EXCEPT ![n] = "idle"]
  /\ UNCHANGED <<pg, etcd, flag, counters, faults>>

WaitFails(n) ==
  /\ daemon[n] = "wait"
  /\ ~Serves(n)
  /\ daemon' = [daemon EXCEPT ![n] = "idle"]
  /\ UNCHANGED <<pg, etcd, flag, counters, faults>>

(* The daemon is amid a cycle, or etcd-start has no reason to wait: if     *)
(* Timely, that takes less than a cooldown does.                           *)
Starting(n) ==
  \/ flag[n] \/ daemon[n] # "idle"
  \/ pc[n] \in {"down", "exec"}
  \/ Joining(n) /\ ServingPeers(n) # {}

(* FNF_COOLDOWN_SECS, 300, or the 90 seconds of an etcd restart.           *)
CooldownEnds(n, k) ==
  /\ k \in cooling[n]
  /\ Timely => ~Starting(n)
  /\ cooling' = [cooling EXCEPT ![n] = @ \ {k}]
  /\ UNCHANGED <<pg, etcd, flag, downs, noquorum, daemon, faults>>

-----------------------------------------------------------------------------
(* Disturbances.                                                           *)

EtcdExit(n) ==
  /\ pc[n] = "up"
  /\ Disturb("exit")
  /\ Goto(n, "down")
  /\ UNCHANGED <<pg, epoch, roster, target, born, flag, counters, daemon>>

(* The container is replaced: /var/lib/etcd and /tmp are gone.             *)
LoseEtcd(n) ==
  /\ Disturb("lose")
  /\ Wipe(n) /\ Restart(n) /\ Consume(n)
  /\ downs' = [downs EXCEPT ![n] = 0]
  /\ noquorum' = [noquorum EXCEPT ![n] = 0]
  /\ cooling' = [cooling EXCEPT ![n] = {}]
  /\ daemon' = [daemon EXCEPT ![n] = "idle"]
  /\ UNCHANGED <<pg, roster, born>>

DaemonExit(n) ==
  /\ daemon[n] # "idle"
  /\ Disturb("daemon")
  /\ daemon' = [daemon EXCEPT ![n] = "idle"]
  /\ UNCHANGED <<pg, etcd, flag, counters>>

Start(n) == StartPresent(n) \/ StartEmpty(n)
Join(n) == \E p \in Node : JoinPeer(n, p)
Cycle(n) == CycleDown(n) \/ CycleNoQuorum(n) \/ CycleHealthy(n)
Settle(n) == ConfirmEnds(n) \/ ForcedRestart(n) \/ CleanKeys(n) \/ WaitFails(n)
Disturbance(n) == EtcdExit(n) \/ LoseEtcd(n) \/ DaemonExit(n)

Next ==
  \E n \in Node :
    \/ Start(n) \/ Join(n) \/ JoinFails(n) \/ Exec(n)
    \/ Cycle(n) \/ Settle(n) \/ \E k \in {"etcd", "force"} : CooldownEnds(n, k)
    \/ Disturbance(n)

Spec == Init /\ [][Next]_vars

(***************************************************************************)
(* supervisord restarts etcd-start and the daemon, which go on.  Cooldowns *)
(* are times: one that may end again and again ends (strong fairness).     *)
(***************************************************************************)
Fairness ==
  \A n \in Node :
    /\ WF_vars(Start(n)) /\ WF_vars(JoinFails(n)) /\ WF_vars(Exec(n))
    /\ WF_vars(Join(n)) /\ WF_vars(Cycle(n)) /\ WF_vars(Settle(n))
    /\ \A k \in {"etcd", "force"} : SF_vars(CooldownEnds(n, k))

FairSpec == Spec /\ Fairness

-----------------------------------------------------------------------------
TypeOK ==
  /\ pg \in [Node -> PgState]
  /\ epoch \in [Node -> 0..born]
  /\ roster \in [Epoch -> [Node -> {"absent", "added", "learner", "voter"}]]
  /\ pc \in [Node -> {"down", "join", "refused", "rejoin", "exec", "up"}]
  /\ target \in [Node -> 0..born]
  /\ flag \in [Node -> BOOLEAN]
  /\ downs \in [Node -> 0..DownCycles]
  /\ noquorum \in [Node -> 0..Stability]
  /\ cooling \in [Node -> SUBSET {"etcd", "force"}]
  /\ daemon \in [Node -> {"idle", "authority", "survivor", "restart", "wait"}]
  /\ born \in Epoch
  /\ faults \in 0..MaxFaults

DataEpochs ==
  {e \in 1..born : \E n \in Node : Serves(n) /\ epoch[n] = e /\ Readable(pg[n])}

(***************************************************************************)
(* Two epochs never serve nodes with PostgreSQL data at the same time:     *)
(* Patroni would have a leader in each.  Neither the force-new flag left   *)
(* to whichever start comes next, nor the wipe of the other nodes, nor a   *)
(* confirmation that the world has overtaken brings this about.            *)
(***************************************************************************)
OneDataEpoch == Cardinality(DataEpochs) <= 1

(***************************************************************************)
(* The etcd data of all nodes implements the line of epochs of EpochLine:  *)
(* whatever the daemons confirm late, whichever flag or start is left over *)
(* from before, a new epoch is founded by the node whose copy goes first,  *)
(* and while there are two copies only over the loss of all etcd data      *)
(* (bootstrap_identity.go:318-331), and no epoch left behind comes back.   *)
(***************************************************************************)
Holders == {n \in Node : epoch[n] = born}
Stale == {n \in Node : epoch[n] \notin {0, born}}

Line == INSTANCE EpochLine WITH
  data <- pg, current <- born, holders <- Holders, stale <- Stale

ImplementsLine == Line!Spec

(***************************************************************************)
(* daemon.go:965: a node drops only etcd data that is "empty/obsolete".    *)
(* Each node decides that alone and on old answers; still they never talk  *)
(* each other out of the last etcd data of the epoch, which would let an   *)
(* election pick one of several copies of PostgreSQL: while there are two, *)
(* only a disturbance takes the last of it.                                *)
(***************************************************************************)
Contested == \E a, b \in Node : a # b /\ PgDir(a) /\ PgDir(b)

LastEtcdDataKept ==
  [][Contested /\ Holders # {} /\ Holders' = {} => faults' # faults]_vars

(***************************************************************************)
(* etcd_start.go:231: a force-new flag must never "later apply to an etcd  *)
(* cluster that another node recovered": etcd is not forced into a new     *)
(* epoch while the epoch of its data serves other nodes.                   *)
(***************************************************************************)
ForceOnlyDeadEpoch ==
  [][\A n \in Node : Exec(n) /\ Forces(n) =>
       \A p \in ServingPeers(n) : epoch[p] # epoch[n]]_vars

(***************************************************************************)
(* daemon.go:945-958, etcd_start.go:116-134: when the evidence names an    *)
(* authority that may recover, and nothing is disturbed any more, the      *)
(* nodes end up as voters of one epoch and stay there: no node waits for a *)
(* flag, a learner slot, a cooldown or a peer that itself waits for that   *)
(* node, and no confirmation that comes late tears the new epoch down for  *)
(* ever.                                                                   *)
(***************************************************************************)
Recoverable == faults = MaxFaults /\ \E a \in DeadRec : Authority(a)
OneEpochServes == \E e \in 1..born : \A n \in Node : Serves(n) /\ epoch[n] = e
OutageEnds == [](Recoverable => <>[]OneEpochServes)
=============================================================================
