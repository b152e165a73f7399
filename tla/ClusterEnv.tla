----------------------------- MODULE ClusterEnv -----------------------------
(***************************************************************************)
(* /etc/cluster_env of one container: init writes it before anything else  *)
(* runs, the daemon rewrites it in place when the list that Flux reports    *)
(* changes, and etcd-start, the proxy, the backup agent and the daemon's    *)
(* next incarnation read it at any moment.                                  *)
(*                                                                         *)
(* A configuration keeps the two settings that the properties tell apart:   *)
(* whether MY_NAME and MY_IP are known, and the nodes of ETCD_HOSTS.  The   *)
(* file is a sequence of at most one configuration: os.WriteFile truncates  *)
(* it and then writes its few kilobytes with one call, which a reader sees  *)
(* whole or not at all.                                                     *)
(***************************************************************************)
EXTENDS Naturals, Sequences

CONSTANTS
    Node,           \* the addresses
    Me,             \* the address of this container
    Lists,          \* what Flux may report
    MaxFaults       \* bound on the disturbances

ASSUME EnvAssumption ==
    /\ Me \in Node
    /\ Lists \subseteq (SUBSET Node) \ {{}}
    /\ Lists # {}
    /\ MaxFaults \in Nat

VARIABLES
    listed,     \* what Flux reports
    file,       \* the contents of cluster_env
    daemon,     \* "down", "idle" or "writing"
    mem,        \* the configuration the daemon works with
    faults      \* disturbances so far (bound)

envVars == <<listed, file, daemon, mem, faults>>

Config == [me : BOOLEAN, hosts : SUBSET Node]

-----------------------------------------------------------------------------
(***************************************************************************)
(* config.go.                                                              *)
(***************************************************************************)

\* A process without cluster_env knows neither itself nor the others: the
\* environment of the container names neither.
FromEnv == [me |-> FALSE, hosts |-> {}]

\* The lines of the file override the settings, and a truncated file is read
\* without an error.
LoadClusterEnv(cfg) == IF file = << >> THEN cfg ELSE file[1]

\* What init persists: the list with this node, or this node alone when Flux
\* does not answer for a minute.
InitialFile(list) == << [me |-> TRUE, hosts |-> list \cup {Me}] >>

Disturbed == faults < MaxFaults /\ faults' = faults + 1

-----------------------------------------------------------------------------
EnvInit ==
    /\ listed \in Lists
    /\ \E list \in {listed, {}} : file = InitialFile(list)
    /\ daemon = "down"
    /\ mem = FromEnv
    /\ faults = 0

DaemonStarts ==
    /\ daemon = "down"
    /\ daemon' = "idle"
    /\ mem' = LoadClusterEnv(FromEnv)
    /\ UNCHANGED <<listed, file, faults>>

\* Mutant: only added nodes count as a change.
NodesAdded == ~ (listed \subseteq mem.hosts)

\* The topology the daemon works with is not the one that Flux reports.
Outdated == mem.hosts # listed

\* updateClusterEnv: the daemon's own configuration changes first, then the
\* file is truncated.
Truncate ==
    /\ daemon = "idle"
    /\ Outdated
    /\ mem' = [mem EXCEPT !.hosts = listed]
    /\ file' = << >>
    /\ daemon' = "writing"
    /\ UNCHANGED <<listed, faults>>

WriteClusterEnv ==
    /\ daemon = "writing"
    /\ file' = <<mem>>
    /\ daemon' = "idle"
    /\ UNCHANGED <<listed, mem, faults>>

\* os.WriteFile fails before the file is open: the old contents stay.
OpenFails ==
    /\ Disturbed
    /\ daemon = "idle"
    /\ Outdated
    /\ mem' = [mem EXCEPT !.hosts = listed]
    /\ UNCHANGED <<listed, file, daemon>>

\* It fails after: the file stays empty.  Either error is logged, and the
\* daemon goes on as if the file had the new topology.
WriteFails ==
    /\ Disturbed
    /\ daemon = "writing"
    /\ daemon' = "idle"
    /\ UNCHANGED <<listed, file, mem>>

DaemonKilled ==
    /\ Disturbed
    /\ daemon # "down"
    /\ daemon' = "down"
    /\ mem' = FromEnv
    /\ UNCHANGED <<listed, file>>

FluxChanges ==
    /\ Disturbed
    /\ listed' \in Lists \ {listed}
    /\ UNCHANGED <<file, daemon, mem>>

\* Every process dies, and init runs before any of them starts again.
ContainerRestarts ==
    /\ Disturbed
    /\ \E list \in {listed, {}} : file' = InitialFile(list)
    /\ daemon' = "down"
    /\ mem' = FromEnv
    /\ UNCHANGED listed

EnvStep ==
    \/ DaemonStarts \/ Truncate \/ WriteClusterEnv \/ OpenFails \/ WriteFails
    \/ DaemonKilled \/ FluxChanges

\* No failed write is the last one: the file is again and again what the
\* daemon takes it for.
WritesRecover == []<>(file = <<mem>>)

EnvFairness == WF_envVars(DaemonStarts) /\ WF_envVars(Truncate) /\ WF_envVars(WriteClusterEnv)

EnvTypeOK ==
    /\ listed \in Lists
    /\ file = << >> \/ \E c \in Config : file = <<c>>
    /\ daemon \in {"down", "idle", "writing"}
    /\ mem \in Config
    /\ faults \in 0..MaxFaults
=============================================================================
