------------------------------- MODULE Proxy -------------------------------
(***************************************************************************)
(* The proxy of one container (cmd/flux-agent/proxy.go) over the file of    *)
(* ClusterEnv: it looks for the Patroni primary among the nodes of          *)
(* ETCD_HOSTS, sends new connections to the last one it saw, and answers    *)
(* identity probes.                                                        *)
(*                                                                         *)
(* A probe round asks all candidates at once; a node decides its answer     *)
(* when it is asked and the round learns it later, so the primary may move  *)
(* in between.  Patroni's leader lock is external: one node at most answers *)
(* /primary with 200 at a time.  This node may be unable to reach itself by *)
(* its public address (Hairpin).                                            *)
(***************************************************************************)
EXTENDS ClusterEnv

CONSTANTS
    None,       \* no address
    Hairpin     \* can the node reach its own public address

ASSUME ProxyAssumption == None \notin Node /\ Hairpin \in BOOLEAN

VARIABLES
    leader,     \* the node whose Patroni answers /primary with 200
    proxy,      \* "down", "idle" or "probing"
    snap,       \* the configuration loaded when the proxy started
    probeCfg,   \* the copy reloaded for the current round
    waiting,    \* candidates whose answer has not been decided
    claims,     \* candidates that answered "primary", not recorded yet
    found,      \* the last claim recorded in this round
    primaryIP,  \* where new connections go
    pending,    \* the address handed to a connection that is being set up
    led         \* history: the nodes that have led since the round began

proxyVars == <<proxy, snap, probeCfg, waiting, claims, found, primaryIP, pending>>
vars == <<envVars, proxyVars, leader, led>>

-----------------------------------------------------------------------------
\* The nodes of a set with at most one address that is no node.
Known(n) == {n} \ {None}

\* What a reader in the proxy has now, for a probe round and for an identity
\* answer alike: the file over the snapshot of the start.
Reloaded == LoadClusterEnv(snap)

\* ETCD_HOSTS without the ports.
candidateIPs(cfg) == cfg.hosts

\* A node that knows its own address asks itself by localhost.
Reaches(cfg, ip) == ip # Me \/ cfg.me \/ Hairpin

\* Mutant: any answer of a Patroni counts (/health for /primary).
AnyPatroniAnswers(ip) == ip \in Node

\* CheckRole: /primary is answered with 200.
IsPrimary(ip) == ip = leader

\* Mutant: the first primary found is kept.
FirstPrimaryOnly == IF primaryIP = None THEN found ELSE primaryIP

\* What a round leaves: the last primary that was found, or what was known.
NewPrimary == IF found = None THEN primaryIP ELSE found

-----------------------------------------------------------------------------
Init ==
    /\ EnvInit
    /\ leader \in Node \cup {None}
    /\ proxy = "down" /\ snap = FromEnv /\ probeCfg = FromEnv
    /\ waiting = {} /\ claims = {}
    /\ found = None /\ primaryIP = None /\ pending = None
    /\ led = {}

ProxyStarts ==
    /\ proxy = "down"
    /\ proxy' = "idle"
    /\ snap' = Reloaded
    /\ UNCHANGED <<envVars, probeCfg, waiting, claims, found, primaryIP, pending, leader, led>>

\* The round ends at once, with the warning of the next tick to come.
NoCandidates ==
    /\ proxy = "idle"
    /\ candidateIPs(Reloaded) = {}
    /\ UNCHANGED vars

StartRound ==
    /\ proxy = "idle"
    /\ candidateIPs(Reloaded) # {}
    /\ proxy' = "probing"
    /\ probeCfg' = Reloaded
    /\ waiting' = candidateIPs(Reloaded)
    /\ led' = Known(leader)
    /\ UNCHANGED <<envVars, snap, claims, found, primaryIP, pending, leader>>

Answers(ip) ==
    /\ ip \in waiting
    /\ Reaches(probeCfg, ip)
    /\ waiting' = waiting \ {ip}
    /\ claims' = IF IsPrimary(ip) THEN claims \cup {ip} ELSE claims
    /\ UNCHANGED <<envVars, proxy, snap, probeCfg, found, primaryIP, pending, leader, led>>

\* The timeout of the round, or no connection.  A primary that can be reached
\* stays silent as a disturbance only.
Silent(ip) ==
    /\ ip \in waiting
    /\ \/ (~IsPrimary(ip) \/ ~Reaches(probeCfg, ip)) /\ UNCHANGED faults
       \/ Disturbed
    /\ waiting' = waiting \ {ip}
    /\ UNCHANGED <<listed, file, daemon, mem, proxy, snap, probeCfg, claims, found, primaryIP,
                   pending, leader, led>>

Record(ip) ==
    /\ ip \in claims
    /\ claims' = claims \ {ip}
    /\ found' = ip
    /\ UNCHANGED <<envVars, proxy, snap, probeCfg, waiting, primaryIP, pending, leader, led>>

\* Mutant: the round does not wait for nodes that have not answered.
ClaimsRecorded == claims = {}

\* wg.Wait returns.
AllAnswered == waiting = {} /\ claims = {}

EndRound ==
    /\ proxy = "probing"
    /\ AllAnswered
    /\ proxy' = "idle"
    /\ primaryIP' = NewPrimary
    /\ found' = None
    /\ probeCfg' = FromEnv
    /\ UNCHANGED <<envVars, snap, waiting, claims, pending, leader, led>>

\* The acceptor reads the address, then the connection waits up to five
\* seconds for the client's first bytes.
Accept ==
    /\ proxy # "down"
    /\ primaryIP # None /\ pending = None
    /\ pending' = primaryIP
    /\ UNCHANGED <<envVars, proxy, snap, probeCfg, waiting, claims, found, primaryIP, leader, led>>

\* Mutant: a connection for this node is dialed at its public address.
ByPublicAddress(ip) == ip # Me \/ Hairpin

\* The address a connection for ip is dialed at leads to ip.  The startup
\* snapshot decides whether this is the node itself, to be dialed by localhost.
DialReaches(ip) == Reaches(snap, ip)

\* Forwarded, closed by the node, or an identity probe after all.
Dial ==
    /\ pending # None /\ DialReaches(pending)
    /\ pending' = None
    /\ UNCHANGED <<envVars, proxy, snap, probeCfg, waiting, claims, found, primaryIP, leader, led>>

\* No way to the node: the client's connection is closed.
DialFails ==
    /\ pending # None /\ ~DialReaches(pending)
    /\ pending' = None
    /\ UNCHANGED <<envVars, proxy, snap, probeCfg, waiting, claims, found, primaryIP, leader, led>>

ProxyDies ==
    /\ proxy' = "down"
    /\ snap' = FromEnv /\ probeCfg' = FromEnv
    /\ waiting' = {} /\ claims' = {}
    /\ found' = None /\ primaryIP' = None /\ pending' = None

ProxyKilled ==
    /\ Disturbed
    /\ proxy # "down"
    /\ ProxyDies
    /\ UNCHANGED <<listed, file, daemon, mem, leader, led>>

\* A failover, a demotion or an election.
LeaderChanges ==
    /\ Disturbed
    /\ leader' \in (Node \cup {None}) \ {leader}
    /\ led' = led \cup Known(leader')
    /\ UNCHANGED <<listed, file, daemon, mem, proxyVars>>

Next ==
    \/ EnvStep /\ UNCHANGED <<proxyVars, leader, led>>
    \/ ContainerRestarts /\ ProxyDies /\ UNCHANGED <<leader, led>>
    \/ ProxyStarts \/ NoCandidates \/ StartRound \/ EndRound \/ Accept \/ Dial \/ DialFails
    \/ ProxyKilled \/ LeaderChanges
    \/ \E ip \in Node : Answers(ip) \/ Silent(ip) \/ Record(ip)

\* supervisord restarts the daemon and the proxy, both loop on a timer, and a
\* request is answered or times out.  Nothing is assumed of clients.
Fairness ==
    /\ EnvFairness
    /\ WF_vars(ProxyStarts) /\ WF_vars(StartRound) /\ WF_vars(EndRound) /\ WF_vars(Dial \/ DialFails)
    /\ \A ip \in Node : WF_vars(Answers(ip) \/ Silent(ip)) /\ WF_vars(Record(ip))

Spec == Init /\ [][Next]_vars /\ Fairness

-----------------------------------------------------------------------------
\* Types, and between two rounds nothing of a round is left: a goroutine never
\* outlives the round whose result it belongs to (proxy.go:143).
TypeOK ==
    /\ EnvTypeOK
    /\ proxy \in {"down", "idle", "probing"}
    /\ {snap, probeCfg} \subseteq Config
    /\ waiting \subseteq probeCfg.hosts /\ claims \subseteq probeCfg.hosts
    /\ {leader, found, primaryIP, pending} \subseteq Node \cup {None}
    /\ led \subseteq Node
    /\ proxy # "probing" => waiting = {} /\ claims = {} /\ found = None

\* New connections are directed only to a node that has been the primary since
\* the round that found it began, however late its answer arrives and however
\* often the role moves meanwhile (probePrimary).
RetargetsToPrimary ==
    [][primaryIP' \in Known(primaryIP) \cup {None} \cup led]_vars

\* The proxy has not been started in the moment cluster_env was truncated: such
\* a proxy does not know MY_IP until it is started again.
StartedWhole == proxy # "down" => snap # FromEnv

\* A primary that stays, that Flux lists and that the proxy can ask, in the end
\* is where every new connection is sent, whatever restarts, failovers, list
\* changes and silences came before, unless a failed write is the daemon's last
\* one (runProxy, updateClusterEnv).  No connection fails for the address it is
\* dialed at any more, provided the proxy has not been started on a truncated
\* file: one that has goes by it as long as it runs, and dials a local primary
\* by the public address (proxy.go:267-272), which a round that reads the file
\* again does not need, and which proxy.go:246-247 says is avoided.
FollowsPrimary ==
    \A n \in Node :
        /\ <>[](leader = n /\ n \in listed /\ Reaches(Reloaded, n))
        /\ WritesRecover
        => /\ <>[](primaryIP = n /\ pending \in {n, None})
           /\ <>[]StartedWhole => <>[][~DialFails]_vars

\* A list that stays is in the end what the proxy probes and puts into its
\* identity answers, and what etcd-start reads at its next start; no reader is
\* left with an old list (daemon.go:95-99, proxy.go:287-290).  The premise
\* excludes what a failed write ends in, an empty file or the old list: the
\* daemon does not repeat it.
ViewSettles ==
    \A list \in Lists :
        <>[](listed = list) /\ WritesRecover
            => <>[](Reloaded.hosts = list /\ LoadClusterEnv(FromEnv).hosts = list)
=============================================================================
