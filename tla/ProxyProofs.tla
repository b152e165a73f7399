---------------------------- MODULE ProxyProofs ----------------------------
(***************************************************************************)
(* Type correctness of Proxy, and that new connections are only directed   *)
(* to nodes that led since the round began, for every set of nodes, every   *)
(* list and every number of disturbances.                                   *)
(***************************************************************************)
EXTENDS Proxy, TLAPS

\* Every claim on its way, and the one recorded last, came from a node that
\* has led since the round began, and so has the present leader.
ClaimsLed ==
    /\ claims \subseteq led /\ Known(found) \subseteq led
    /\ proxy = "probing" => Known(leader) \subseteq led

IInv == TypeOK /\ ClaimsLed

-----------------------------------------------------------------------------
LEMMA EnvConfig == FromEnv \in Config
  BY DEF FromEnv, Config

\* Whatever the file holds, what a reader makes of a configuration is one.
LEMMA LoadType == ASSUME NEW cfg \in Config, EnvTypeOK
                  PROVE  LoadClusterEnv(cfg) \in Config
  <1>1. CASE file = << >>
    BY <1>1 DEF LoadClusterEnv
  <1>2. CASE \E c \in Config : file = <<c>>
    <2>1. PICK c \in Config : file = <<c>>
      BY <1>2
    <2>. QED  BY <2>1 DEF LoadClusterEnv
  <1>. QED  BY <1>1, <1>2 DEF EnvTypeOK

LEMMA InitialFileType == ASSUME NEW list \in SUBSET Node
                         PROVE  \E c \in Config : InitialFile(list) = <<c>>
  BY EnvAssumption DEF InitialFile, Config

\* Every step of the daemon and of Flux keeps the types of ClusterEnv.
LEMMA EnvStepType == EnvTypeOK /\ EnvStep => EnvTypeOK'
<1>. SUFFICES ASSUME EnvTypeOK, EnvStep PROVE EnvTypeOK'
  OBVIOUS
<1>. USE EnvAssumption, EnvConfig
<1>1. CASE DaemonStarts
  BY <1>1, LoadType DEF DaemonStarts, EnvTypeOK
<1>2. CASE Truncate
  BY <1>2 DEF Truncate, EnvTypeOK, Config
<1>3. CASE WriteClusterEnv
  BY <1>3 DEF WriteClusterEnv, EnvTypeOK
<1>4. CASE OpenFails \/ WriteFails
  BY <1>4 DEF OpenFails, WriteFails, Disturbed, EnvTypeOK, Config
<1>5. CASE DaemonKilled
  BY <1>5 DEF DaemonKilled, Disturbed, EnvTypeOK
<1>6. CASE FluxChanges
  BY <1>6 DEF FluxChanges, Disturbed, EnvTypeOK
<1>. QED  BY <1>1, <1>2, <1>3, <1>4, <1>5, <1>6 DEF EnvStep

LEMMA RestartType == EnvTypeOK /\ ContainerRestarts => EnvTypeOK'
<1>. SUFFICES ASSUME EnvTypeOK, ContainerRestarts PROVE EnvTypeOK'
  OBVIOUS
<1>1. PICK list \in {listed, {}} : file' = InitialFile(list)
  BY DEF ContainerRestarts
<1>2. list \in SUBSET Node
  BY EnvAssumption DEF EnvTypeOK
<1>. QED
  BY <1>1, <1>2, InitialFileType, EnvConfig, EnvAssumption DEF ContainerRestarts, Disturbed, EnvTypeOK

-----------------------------------------------------------------------------
LEMMA InitInvariant == Init => IInv
<1>. SUFFICES ASSUME Init PROVE IInv
  OBVIOUS
<1>1. PICK list \in {listed, {}} : file = InitialFile(list)
  BY DEF Init, EnvInit
<1>2. list \in SUBSET Node
  BY EnvAssumption DEF Init, EnvInit
<1>3. EnvTypeOK
  BY <1>1, <1>2, InitialFileType, EnvConfig, EnvAssumption DEF Init, EnvInit, EnvTypeOK
<1>. QED
  BY <1>3, EnvConfig DEF Init, IInv, TypeOK, ClaimsLed, Known, FromEnv
-----------------------------------------------------------------------------
(***************************************************************************)
(* One step per action.                                                    *)
(***************************************************************************)
LEMMA ProxyDiesInvariant ==
  IInv /\ ProxyDies /\ EnvTypeOK' /\ UNCHANGED <<leader, led>> => IInv'
<1>. SUFFICES ASSUME IInv, ProxyDies, EnvTypeOK', UNCHANGED <<leader, led>> PROVE IInv'
  OBVIOUS
<1>. QED
  BY EnvConfig DEF ProxyDies, IInv, TypeOK, ClaimsLed, Known, FromEnv

LEMMA StepInvariant == IInv /\ [Next]_vars => IInv'
<1>. SUFFICES ASSUME IInv, [Next]_vars PROVE IInv'
  OBVIOUS
<1>. USE ProxyAssumption DEF IInv, TypeOK
<1>r. Reloaded \in Config
  BY LoadType DEF Reloaded
<1>1. CASE EnvStep /\ UNCHANGED <<proxyVars, leader, led>>
  <2>1. EnvTypeOK'
    BY <1>1, EnvStepType
  <2>. QED  BY <1>1, <2>1 DEF proxyVars, ClaimsLed, Known
<1>2. CASE ContainerRestarts /\ ProxyDies /\ UNCHANGED <<leader, led>>
  BY <1>2, RestartType, ProxyDiesInvariant
<1>3. CASE ProxyStarts
  BY <1>3, <1>r DEF ProxyStarts, envVars, EnvTypeOK, ClaimsLed, Known
<1>4. CASE NoCandidates
  BY <1>4 DEF NoCandidates, vars, envVars, proxyVars, EnvTypeOK, ClaimsLed, Known
<1>5. CASE StartRound
  BY <1>5, <1>r DEF StartRound, candidateIPs, envVars, EnvTypeOK, Config, ClaimsLed, Known
<1>6. CASE EndRound
  BY <1>6, EnvConfig DEF EndRound, AllAnswered, NewPrimary, envVars, EnvTypeOK, FromEnv, ClaimsLed, Known
<1>7. CASE Accept
  BY <1>7 DEF Accept, envVars, EnvTypeOK, ClaimsLed, Known
<1>8. CASE Dial \/ DialFails
  BY <1>8 DEF Dial, DialFails, envVars, EnvTypeOK, ClaimsLed, Known
<1>9. CASE ProxyKilled
  <2>1. EnvTypeOK'
    BY <1>9, EnvAssumption DEF ProxyKilled, Disturbed, EnvTypeOK
  <2>. QED  BY <1>9, <2>1, ProxyDiesInvariant DEF ProxyKilled
<1>10. CASE LeaderChanges
  <2>1. EnvTypeOK'
    BY <1>10, EnvAssumption DEF LeaderChanges, Disturbed, EnvTypeOK
  <2>. QED  BY <1>10, <2>1 DEF LeaderChanges, proxyVars, ClaimsLed, Known
<1>11. ASSUME NEW ip \in Node, Answers(ip) PROVE IInv'
  BY <1>11 DEF Answers, IsPrimary, envVars, EnvTypeOK, ClaimsLed, Known
<1>12. ASSUME NEW ip \in Node, Silent(ip) PROVE IInv'
  <2>1. EnvTypeOK'
    BY <1>12, EnvAssumption DEF Silent, Disturbed, EnvTypeOK
  <2>. QED  BY <1>12, <2>1 DEF Silent, ClaimsLed, Known
<1>13. ASSUME NEW ip \in Node, Record(ip) PROVE IInv'
  BY <1>13 DEF Record, envVars, EnvTypeOK, ClaimsLed, Known
<1>14. CASE UNCHANGED vars
  BY <1>14 DEF vars, envVars, proxyVars, EnvTypeOK, ClaimsLed, Known
<1>. QED
  BY <1>1, <1>2, <1>3, <1>4, <1>5, <1>6, <1>7, <1>8, <1>9, <1>10, <1>11, <1>12, <1>13, <1>14 DEF Next

-----------------------------------------------------------------------------
\* Spec keeps every variable in its type, and no goroutine of a probe round
\* outlives it.
THEOREM TypeCorrect == Spec => []TypeOK
<1>1. IInv => TypeOK
  BY DEF IInv
<1>. QED  BY <1>1, InitInvariant, StepInvariant, PTL DEF Spec

THEOREM Inductive == Spec => []IInv
  BY InitInvariant, StepInvariant, PTL DEF Spec

\* New connections are directed only to a node that has been the primary since
\* the round that found it began.
THEOREM RetargetsToPrimaryHolds == Spec => RetargetsToPrimary
<1>. DEFINE Retarget == primaryIP' \in Known(primaryIP) \cup {None} \cup led
<1>1. IInv /\ [Next]_vars => [Retarget]_vars
  <2>. SUFFICES ASSUME IInv, Next PROVE Retarget
    BY DEF Retarget
  <2>1. CASE EndRound
    BY <2>1 DEF EndRound, NewPrimary, IInv, ClaimsLed, Known
  <2>2. CASE primaryIP' \in {primaryIP, None}
    BY <2>2 DEF Known
  <2>3. primaryIP' \in {primaryIP, None} \/ EndRound
    BY DEF Next, proxyVars, ProxyDies, ProxyStarts, NoCandidates, StartRound, Accept, Dial, DialFails,
           ProxyKilled, LeaderChanges, Answers, Silent, Record, vars
  <2>. QED  BY <2>1, <2>2, <2>3
<1>. QED
  BY <1>1, Inductive, PTL DEF RetargetsToPrimary, Spec
=============================================================================
