------------------------- MODULE SharedConfig_proofs -------------------------
(***************************************************************************)
(* The shared configuration stays consistent, for any settings, any number *)
(* of specs and any number of changes of the ConfigMap.                    *)
(***************************************************************************)
EXTENDS SharedConfig, TLAPS

Typed ==
  /\ cfg \in [Fields -> Sources]
  /\ version \in Sources \ {NoValue}
  /\ keys \subseteq Fields

\* Four credentials are four of one source.
Uniform ==
  HasRHOBSAccess => \E s \in Sources \ {NoValue} : \A f \in Fields : cfg[f] = s

\* Nothing excuses a metrics URL that belongs to another probe URL.
NoExcuse == "metrics" \notin given /\ ~misled /\ ("probe" \in given => Fields \subseteq given)

\* Then the metrics URL is the probe URL's, and it was derived when there were
\* four credentials, which nobody replaces.
Derived ==
  NoExcuse => /\ metrics = cfg["probe"]
              /\ metrics # NoValue => HasRHOBSAccess

\* A spec works with a copy of what it found.
Copied ==
  InBody => /\ \E s \in Sources \ {NoValue} : \A f \in Fields : rhobs[f] = s
            /\ NoExcuse => rhobs["metrics"] = rhobs["probe"]

\* An RHOBS spec asks the management cluster only when nobody has had
\* credentials before.
Asking ==
  /\ served => HasRHOBSAccess
  /\ kind = "rhobs" /\ pc \in {"resolveMC", "credentials", "topology", "namespaces", "load"}
       => ~served
  /\ pc = "load" => kind = "rhobs"

IInv == Typed /\ Uniform /\ Derived /\ Copied /\ Asking
-----------------------------------------------------------------------------

\* The environment and the first ConfigMap are sources other than none.
LEMMA SourcesFacts ==
  /\ NoValue \in Sources /\ FromEnv \in Sources /\ FirstMap \in Sources
  /\ FromEnv # NoValue /\ FirstMap # NoValue
  /\ "probe" \in Fields
  BY ConfigAssumption DEF NoValue, FromEnv, FirstMap, Sources, Fields

\* Whatever a spec does to the shared configuration, four credentials stay four
\* of one source and the metrics URL stays with its probe URL.
THEOREM Invariance == Spec => []IInv
<1>1. Init => IInv
  <2> SUFFICES ASSUME Init PROVE IInv
    OBVIOUS
  <2>1. Typed
    BY SourcesFacts DEF Init, Load, Typed
  <2>2. Uniform
    BY SourcesFacts DEF Init, Load, Uniform, HasRHOBSAccess
  <2>3. Derived
    BY SourcesFacts DEF Init, Load, Derived, NoExcuse, HasRHOBSAccess
  <2>4. Copied
    BY DEF Init, Copied, InBody
  <2>5. Asking
    BY DEF Init, Asking
  <2> QED BY <2>1, <2>2, <2>3, <2>4, <2>5 DEF IInv
<1>2. IInv /\ [Next]_vars => IInv'
  <2> SUFFICES ASSUME IInv, Next \/ UNCHANGED vars PROVE IInv'
    OBVIOUS
  <2> USE DEF IInv
  <2>1. ASSUME UNCHANGED <<given, version, keys, cfg, metrics, misled>>
        PROVE  Typed' /\ Uniform' /\ Derived'
    BY <2>1 DEF Typed, Uniform, Derived, NoExcuse, HasRHOBSAccess
  <2>2. ASSUME UNCHANGED shared, UNCHANGED <<misled, served>>,
               pc' \notin {"resolveMC", "credentials", "topology", "namespaces", "load"},
               pc' \in {"token", "query"} => pc \in {"token", "query"} /\ rhobs' = rhobs
        PROVE  IInv'
    <3>1. Typed' /\ Uniform' /\ Derived'
      BY <2>1, <2>2 DEF shared, mcVars
    <3>2. Copied'
      BY <2>2 DEF Copied, InBody, NoExcuse, shared
    <3>3. Asking'
      BY <2>2 DEF Asking, HasRHOBSAccess, shared
    <3> QED BY <3>1, <3>2, <3>3, Zenon
  <2>3. ASSUME NEW v, End(v) PROVE IInv'
    BY <2>2, <2>3 DEF End
  <2>4. ASSUME NEW k \in {"rhobs", "mc"}, Start(k) PROVE IInv'
    <3>1. Typed' /\ Uniform' /\ Derived'
      BY <2>1, <2>4 DEF Start, shared, mcVars
    <3>2. Copied'
      BY <2>4 DEF Start, InitMCClients, Copied, InBody
    <3>3. Asking'
      BY <2>4 DEF Start, InitMCClients, Asking, HasRHOBSAccess, shared
    <3> QED BY <3>1, <3>2, <3>3, Zenon
  <2>5. CASE ExternalID
    <3>1. Typed' /\ Uniform' /\ Derived'
      BY <2>1, <2>5 DEF ExternalID, shared, mcVars
    <3>2. CASE HasRHOBSAccess /\ NewRHOBSConfig(cfg, metrics)
      <4>1. \A f \in Fields : rhobs'[f] = cfg[f]
        BY <3>2 DEF NewRHOBSConfig, Fields
      <4>2. rhobs'["metrics"] = metrics
        BY <3>2 DEF NewRHOBSConfig
      <4>3. NoExcuse' => NoExcuse
        BY <2>5 DEF ExternalID, shared, NoExcuse
      <4>4. Copied'
        BY <3>2, <4>1, <4>2, <4>3, SourcesFacts DEF Copied, Uniform, Derived
      <4>5. Asking'
        BY <2>5, <3>2 DEF ExternalID, NewRHOBSConfig, Asking, HasRHOBSAccess, shared
      <4> QED BY <3>1, <4>4, <4>5
    <3>3. CASE ~HasRHOBSAccess /\ InitMCClients /\ UNCHANGED <<body, served>>
      <4>1. Copied'
        BY <3>3 DEF InitMCClients, Copied, InBody
      <4>2. Asking'
        BY <2>5, <3>3 DEF ExternalID, InitMCClients, Asking, HasRHOBSAccess, shared
      <4> QED BY <3>1, <4>1, <4>2
    <3> QED BY <2>5, <3>2, <3>3 DEF ExternalID
  <2>6. CASE ExternalIDFails \/ InitFails \/ Check \/ LoadFails
    BY <2>3, <2>6 DEF ExternalIDFails, InitFails, Check, LoadFails
  <2>7. ASSUME pc \in {"resolveMC", "credentials", "topology", "namespaces"},
               pc' \in {"credentials", "topology", "namespaces", InitDone},
               UNCHANGED <<shared, kind, served, misled>>
        PROVE  IInv'
    <3>1. Typed' /\ Uniform' /\ Derived'
      BY <2>1, <2>7 DEF shared, mcVars
    <3>2. Copied'
      BY <2>7 DEF Copied, InBody, InitDone
    <3>3. Asking'
      BY <2>7 DEF Asking, HasRHOBSAccess, shared, InitDone
    <3> QED BY <3>1, <3>2, <3>3, Zenon
  <2>8. CASE ResolveManagementClusterID
    BY <2>6, <2>7, <2>8 DEF ResolveManagementClusterID
  <2>9. CASE GetCredentials
    BY <2>7, <2>9 DEF GetCredentials
  <2>10. CASE GetCredentialsFails
    BY <2>2, <2>10 DEF GetCredentialsFails
  <2>11. CASE Topology
    BY <2>7, <2>11 DEF Topology
  <2>12. CASE ResolveHCPNamespaces
    BY <2>7, <2>12 DEF ResolveHCPNamespaces
  <2>13. CASE LoadRHOBSCredentialsFromMC
    <3>1. /\ cfg' = IF HasRHOBSAccess THEN cfg ELSE LoadedConfig
          /\ HasRHOBSAccess => metrics' = metrics
          /\ ~HasRHOBSAccess => DeriveMetrics
          /\ UNCHANGED <<given, version, keys, kind>>
      BY <2>13 DEF LoadRHOBSCredentialsFromMC, mcVars
    <3>2. Typed'
      BY <3>1, SourcesFacts DEF Typed, LoadedConfig, MapValue
    <3>3. Uniform'
      BY <3>1 DEF Typed, Uniform, HasRHOBSAccess, LoadedConfig, MapValue
    <3>4. CASE HasRHOBSAccess' /\ NewRHOBSConfig(cfg', metrics') /\ UNCHANGED <<verdict, misled>>
      <4>1. Derived'
        <5>1. NoExcuse' => NoExcuse
          BY <3>1, <3>4 DEF NoExcuse
        <5> QED BY <3>1, <3>4, <5>1, SourcesFacts
                DEF Derived, DeriveMetrics, HasRHOBSAccess
      <4>2. (\A f \in Fields : rhobs'[f] = cfg'[f]) /\ rhobs'["metrics"] = metrics'
        BY <3>4 DEF NewRHOBSConfig, Fields
      <4>3. Copied'
        BY <3>3, <3>4, <4>1, <4>2, SourcesFacts DEF Copied, Uniform, Derived
      <4>4. Asking'
        BY <3>4 DEF NewRHOBSConfig, Asking
      <4> QED BY <3>2, <3>3, <4>1, <4>3, <4>4
    <3>5. CASE /\ ~HasRHOBSAccess' /\ pc' = "over" /\ misled' = TRUE
               /\ UNCHANGED <<body, served>>
      <4>1. Derived'
        BY <3>5, Zenon DEF Derived, NoExcuse
      <4>2. Copied'
        BY <3>5 DEF Copied, InBody
      <4>3. Asking'
        BY <3>1, <3>5 DEF Asking, HasRHOBSAccess
      <4> QED BY <3>2, <3>3, <4>1, <4>2, <4>3
    <3> QED BY <2>13, <3>4, <3>5 DEF LoadRHOBSCredentialsFromMC
  <2>14. CASE TokenRetry \/ Token
    BY <2>2, <2>14 DEF TokenRetry, Token, body
  <2>15. ASSUME pc \in {"token", "query"}, NextProbe PROVE IInv'
    BY <2>2, <2>3, <2>15 DEF NextProbe
  <2>16. CASE TokenFails \/ Query
    BY <2>3, <2>15, <2>16 DEF TokenFails, Query
  <2>17. CASE MapChanges
    <3>1. Typed'
      BY <2>17, ConfigAssumption DEF MapChanges, Typed, Sources, NoValue, FirstMap
    <3>2. Uniform' /\ Derived'
      BY <2>17 DEF MapChanges, Uniform, Derived, NoExcuse, HasRHOBSAccess
    <3>3. Copied'
      BY <2>17 DEF MapChanges, Copied, InBody, NoExcuse, body
    <3>4. Asking'
      BY <2>17 DEF MapChanges, Asking, HasRHOBSAccess
    <3> QED BY <3>1, <3>2, <3>3, <3>4
  <2>18. CASE UNCHANGED vars
    <3>1. UNCHANGED shared /\ UNCHANGED <<misled, served, kind, pc, rhobs>>
      BY <2>18 DEF vars, shared, body
    <3>2. Typed' /\ Uniform' /\ Derived'
      BY <2>1, <3>1 DEF shared, mcVars
    <3>3. Copied'
      BY <3>1 DEF Copied, InBody, NoExcuse, shared
    <3>4. Asking'
      BY <3>1 DEF Asking, HasRHOBSAccess, shared
    <3> QED BY <3>2, <3>3, <3>4
  <2> QED
    BY <2>4, <2>5, <2>6, <2>8, <2>9, <2>10, <2>11, <2>12, <2>13, <2>14, <2>16, <2>17, <2>18
       DEF Next, SpecStep
<1> QED BY <1>1, <1>2, PTL DEF Spec

\* The credentials of a spec belong together, for any settings.
THEOREM OneSourceHolds == Spec => []OneSource
<1>1. IInv => OneSource
  BY DEF IInv, Copied, OneSource
<1> QED BY <1>1, Invariance, PTL

\* The metrics URL of a spec is its probe URL's, unless a probe URL came without
\* the other credentials.
THEOREM MetricsFollowProbeHolds == Spec => []MetricsFollowProbe
<1>1. IInv => MetricsFollowProbe
  BY DEF IInv, Copied, NoExcuse, MetricsFollowProbe
<1> QED BY <1>1, Invariance, PTL

\* No RHOBS spec is skipped once a spec has had its credentials.
THEOREM NoSkipOnceServedHolds == Spec => NoSkipOnceServed
<1>1. IInv /\ [Next]_vars =>
        [served /\ kind = "rhobs" /\ pc # "over" /\ pc' = "over" => verdict' # "skipped"]_vars
  <2> SUFFICES ASSUME IInv, Next, served, kind = "rhobs", pc # "over", pc' = "over"
               PROVE  verdict' # "skipped"
    OBVIOUS
  <2>1. /\ pc \notin {"resolveMC", "credentials", "topology", "namespaces", "load"}
    BY DEF IInv, Asking
  <2>2. CASE pc = "external"
    BY <2>1, <2>2 DEF Next, SpecStep, ExternalID, InitMCClients, NewRHOBSConfig, ExternalIDFails,
       End, ResolveManagementClusterID, GetCredentials, GetCredentialsFails, Topology,
       ResolveHCPNamespaces, Check, LoadRHOBSCredentialsFromMC, LoadFails, TokenRetry,
       TokenFails, Token, Query, MapChanges, Start
  <2>3. CASE pc # "external"
    BY <2>1, <2>3 DEF Next, SpecStep, ExternalID, ExternalIDFails,
       End, ResolveManagementClusterID, GetCredentials, GetCredentialsFails, Topology,
       ResolveHCPNamespaces, Check, LoadRHOBSCredentialsFromMC, LoadFails, TokenRetry,
       TokenFails, Token, Query, NextProbe, MapChanges, Start
  <2> QED BY <2>2, <2>3
<1> QED BY <1>1, Invariance, PTL DEF Spec, NoSkipOnceServed

\* The type invariant of the shared configuration and its specs; among others,
\* getOIDCAccessToken never makes more attempts than it has delays for.
THEOREM TypeCorrect == Spec => []TypeOK
<1> USE DEF vars, shared, body, mcVars, tcVars
<1>n. MaxSpecs \in Nat /\ MaxVersions \in Nat /\ MaxAttempts \in Nat
  BY ConfigAssumption
<1>0. 0 \in 0 .. MaxAttempts - 1 /\ FirstMap .. FirstMap + MaxVersions \subseteq Sources
  BY ConfigAssumption DEF FirstMap, Sources
<1>1. Init => TypeOK
  <2> SUFFICES ASSUME Init PROVE TypeOK
    OBVIOUS
  <2>1. version \in FirstMap .. FirstMap + MaxVersions /\ specs \in 0 .. MaxSpecs
    <3>1. version = FirstMap /\ specs = 0
      BY Zenon DEF Init
    <3> QED BY <1>n, <3>1 DEF FirstMap
  <2>2. cfg \in [Fields -> Sources] /\ metrics \in Sources
    BY SourcesFacts DEF Init, Load
  <2>3. rhobs \in [Fields \cup {"metrics"} -> Sources]
    BY SourcesFacts DEF Init, NoRhobs
  <2> QED BY <1>0, <2>1, <2>2, <2>3 DEF Init, TypeOK
<1>2. TypeOK /\ [Next]_vars => TypeOK'
  <2> SUFFICES ASSUME TypeOK, [Next]_vars PROVE TypeOK'
    OBVIOUS
  <2> USE DEF TypeOK
  <2>1. CASE ExternalID
    BY <2>1, <1>0 DEF ExternalID, NewRHOBSConfig, InitMCClients
  <2>2. CASE ExternalIDFails \/ ResolveManagementClusterID \/ LoadFails \/ Check
    BY <2>2 DEF ExternalIDFails, ResolveManagementClusterID, LoadFails, Check, InitFails, End
  <2>3. CASE GetCredentials \/ GetCredentialsFails
    BY <2>3 DEF GetCredentials, GetCredentialsFails, InitDone
  <2>4. CASE Topology
    BY <2>4 DEF Topology, InitDone
  <2>5. CASE ResolveHCPNamespaces
    <3>1. ns' \in BOOLEAN
      BY <2>5, Zenon DEF ResolveHCPNamespaces
    <3> QED BY <2>5, <3>1 DEF ResolveHCPNamespaces, InitDone
  <2>6. CASE LoadRHOBSCredentialsFromMC
    <3>1. cfg' \in [Fields -> Sources]
      BY <2>6, <1>0, SourcesFacts DEF LoadRHOBSCredentialsFromMC, LoadedConfig, MapValue
    <3>2. metrics' \in Sources
      BY <2>6, <3>1, SourcesFacts DEF LoadRHOBSCredentialsFromMC, DeriveMetrics
    <3> QED BY <2>6, <1>0, <3>1, <3>2 DEF LoadRHOBSCredentialsFromMC, NewRHOBSConfig
  <2>7. CASE TokenFails \/ Query
    <3>1. CASE End("failed") \/ End("passed")
      BY <3>1 DEF End
    <3>2. CASE NextProbe
      BY <1>0, <3>2 DEF NextProbe, End
    <3> QED BY <2>7, <3>1, <3>2 DEF TokenFails, Query
  <2>8. CASE TokenRetry \/ Token
    <3>1. attempt' \in 0 .. MaxAttempts - 1
      <4>1. attempt' = attempt \/ (attempt + 1 < MaxAttempts /\ attempt' = attempt + 1)
        BY <2>8, Zenon DEF TokenRetry, Token
      <4>2. attempt \in 0 .. MaxAttempts - 1
        BY Zenon
      <4> HIDE DEF TypeOK
      <4> QED BY <1>n, <4>1, <4>2
    <3> QED BY <2>8, <3>1 DEF TokenRetry, Token
  <2>9. CASE MapChanges
    <3>1. version' \in FirstMap .. FirstMap + MaxVersions
      <4>1. version < FirstMap + MaxVersions /\ version' = version + 1
        BY <2>9, Zenon DEF MapChanges
      <4>2. version \in FirstMap .. FirstMap + MaxVersions
        BY Zenon
      <4> HIDE DEF TypeOK
      <4> QED BY <1>n, <4>1, <4>2 DEF FirstMap
    <3>2. keys' \subseteq Fields
      BY <2>9, Zenon DEF MapChanges
    <3>3. /\ UNCHANGED <<given, real, cfg, metrics, specs, kind, pc>>
          /\ UNCHANGED <<tcVars, body, verdict, served, misled>>
      BY <2>9, Zenon DEF MapChanges
    <3>4. /\ given' \in Inputs /\ real' \in Topologies /\ cfg' \in [Fields -> Sources]
          /\ metrics' \in Sources /\ specs' \in 0 .. MaxSpecs
      BY <3>3
    <3>5. /\ rhobs' \in [Fields \cup {"metrics"} -> Sources] /\ attempt' \in 0 .. MaxAttempts - 1
          /\ clients' \subseteq {"kube", "dynamic"} /\ topology' \in Topologies \cup {""}
          /\ ns' \in BOOLEAN /\ private' \in BOOLEAN /\ served' \in BOOLEAN /\ misled' \in BOOLEAN
      BY <3>3
    <3>6. /\ kind' = kind /\ pc' = pc /\ verdict' = verdict
      BY <3>3
    <3> QED BY <3>1, <3>2, <3>4, <3>5, <3>6
  <2>10. ASSUME NEW k \in {"rhobs", "mc"}, Start(k) PROVE TypeOK'
    <3>1. specs' \in 0 .. MaxSpecs
      <4>1. specs < MaxSpecs /\ specs' = specs + 1
        BY <2>10, Zenon DEF Start
      <4>2. specs \in 0 .. MaxSpecs
        BY Zenon
      <4> HIDE DEF TypeOK
      <4> QED BY <1>n, <4>1, <4>2
    <3>2. rhobs' \in [Fields \cup {"metrics"} -> Sources]
      BY <2>10, SourcesFacts DEF Start, NoRhobs
    <3> QED BY <1>0, <2>10, <3>1, <3>2 DEF Start, InitMCClients
  <2>11. CASE UNCHANGED vars
    <3>1. /\ UNCHANGED <<given, real, version, keys, cfg, metrics, specs, kind, pc>>
          /\ UNCHANGED <<clients, topology, ns, rhobs, attempt, private, verdict, served, misled>>
      BY <2>11
    <3>2. /\ given' \in Inputs /\ real' \in Topologies /\ cfg' \in [Fields -> Sources]
          /\ version' \in FirstMap .. FirstMap + MaxVersions /\ keys' \subseteq Fields
          /\ metrics' \in Sources /\ specs' \in 0 .. MaxSpecs
      BY <3>1
    <3>3. /\ rhobs' \in [Fields \cup {"metrics"} -> Sources] /\ attempt' \in 0 .. MaxAttempts - 1
          /\ clients' \subseteq {"kube", "dynamic"} /\ topology' \in Topologies \cup {""}
          /\ ns' \in BOOLEAN /\ private' \in BOOLEAN /\ served' \in BOOLEAN /\ misled' \in BOOLEAN
      BY <3>1
    <3>4. /\ kind' = kind /\ pc' = pc /\ verdict' = verdict
      BY <3>1
    <3> QED BY <3>2, <3>3, <3>4
  <2> QED
    BY <2>1, <2>2, <2>3, <2>4, <2>5, <2>6, <2>7, <2>8, <2>9, <2>10, <2>11 DEF Next, SpecStep
<1>3. QED
  BY <1>1, <1>2, PTL DEF Spec
=============================================================================
