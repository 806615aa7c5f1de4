---------------------------- MODULE SharedConfig ----------------------------
(***************************************************************************)
(* The configuration that all specs of a process share (pkg/config, made   *)
(* once in BeforeSuite) and the test context each spec makes for itself    *)
(* (pkg/framework/context.go).  The RHOBS specs write to the shared part:  *)
(* LoadRHOBSCredentialsFromMC puts the credentials of the management       *)
(* cluster's ConfigMap there, where later specs find them, while the       *)
(* ConfigMap goes on changing.                                             *)
(*                                                                         *)
(* A credential is represented by where it comes from: the environment or  *)
(* a version of the ConfigMap.  A spec is "rhobs" (synthetic monitoring)   *)
(* or "mc" (management cluster health).                                    *)
(***************************************************************************)
EXTENDS Naturals

CONSTANTS
  Inputs,       \* the combinations of settings considered
  Topologies,   \* the clusters considered: "hcp", "classic", "osd-gcp"
  MaxSpecs,     \* bound: specs in the process
  MaxVersions,  \* bound: changes of the ConfigMap
  MaxAttempts   \* len(delays) + 1 in getOIDCAccessToken

Fields == {"probe", "id", "secret", "issuer"}
Settings == Fields \cup {"metrics", "clusterID", "topology", "mc"}

ASSUME ConfigAssumption ==
  /\ Inputs \subseteq SUBSET Settings
  /\ Topologies \subseteq {"hcp", "classic", "osd-gcp"}
  /\ MaxSpecs \in Nat /\ MaxVersions \in Nat /\ MaxAttempts \in Nat \ {0}

\* Where a value comes from; greater numbers are versions of the ConfigMap.
NoValue == 0
FromEnv == 1
FirstMap == 2
Sources == 0 .. FirstMap + MaxVersions

VARIABLES
  given,     \* settings present in the environment or the YAML file
  real,      \* OCM: the topology of the cluster
  version,   \* management cluster: the version of the ConfigMap
  keys,      \* management cluster: the keys it has
  cfg,       \* the four RHOBS credentials of the shared Config
  metrics,   \* its RHOBSMetricsAPIURL, or the probe URL that one derives from
  specs,     \* how many specs have been started
  kind,      \* the spec that runs
  pc,        \* where it is
  clients,   \* its test context: the clients of the management cluster
  topology,  \* its test context: the topology it has found
  ns,        \* its test context: hcpNamespaces is set
  rhobs,     \* its RHOBSConfig
  attempt,   \* attempts of getOIDCAccessToken
  private,   \* it asks for the private probe
  verdict,   \* how it ended
  served,    \* history: a spec has had credentials
  misled     \* history: a ConfigMap without all the keys was read

mcVars == <<version, keys>>
tcVars == <<clients, topology, ns>>
vars == <<given, real, mcVars, cfg, metrics, specs, kind, pc, tcVars, rhobs, attempt,
          private, verdict, served, misled>>

TypeOK ==
  /\ given \in Inputs
  /\ real \in Topologies
  /\ version \in FirstMap .. FirstMap + MaxVersions
  /\ keys \subseteq Fields
  /\ cfg \in [Fields -> Sources]
  /\ metrics \in Sources
  /\ specs \in 0 .. MaxSpecs
  /\ kind \in {"rhobs", "mc"}
  /\ pc \in {"over", "external", "resolveMC", "credentials", "topology", "namespaces",
             "load", "token", "query", "check"}
  /\ clients \subseteq {"kube", "dynamic"}
  /\ topology \in Topologies \cup {""}
  /\ ns \in BOOLEAN
  /\ rhobs \in [Fields \cup {"metrics"} -> Sources]
  /\ attempt \in 0 .. MaxAttempts - 1
  /\ private \in BOOLEAN
  /\ verdict \in {"none", "passed", "failed", "skipped"}
  /\ served \in BOOLEAN
  /\ misled \in BOOLEAN

NoRhobs == [f \in Fields \cup {"metrics"} |-> NoValue]

\* config.Load, and a process in which no spec has run yet.
Load ==
  /\ cfg = [f \in Fields |-> IF f \in given THEN FromEnv ELSE NoValue]
  /\ metrics = IF {"metrics", "probe"} \cap given # {} THEN FromEnv ELSE NoValue

Init ==
  /\ given \in Inputs /\ real \in Topologies
  /\ version = FirstMap /\ keys \in SUBSET Fields
  /\ Load
  /\ specs = 0 /\ kind = "mc" /\ pc = "over"
  /\ clients = {} /\ topology = "" /\ ns = FALSE
  /\ rhobs = NoRhobs /\ attempt = 0 /\ private = FALSE
  /\ verdict = "none" /\ served = FALSE /\ misled = FALSE

-----------------------------------------------------------------------------
(* Control flow of a spec.                                                 *)

shared == <<given, real, mcVars, cfg, metrics>>
body == <<rhobs, attempt, private>>

End(v) ==
  /\ pc' = "over" /\ verdict' = v
  /\ UNCHANGED <<shared, specs, kind, tcVars, body, served, misled>>

HasRHOBSAccess == \A f \in Fields : cfg[f] # NoValue

\* NewRHOBSConfig copies the shared configuration; the spec's body begins.
NewRHOBSConfig(c, m) ==
  /\ pc' = "token" /\ attempt' = 0 /\ private' = FALSE /\ served' = TRUE
  /\ rhobs' = [f \in Fields \cup {"metrics"} |-> IF f = "metrics" THEN m ELSE c[f]]

\* InitMCClients looks the management cluster up unless one is given.
InitMCClients == pc' = IF "mc" \in given THEN "credentials" ELSE "resolveMC"

\* BeforeEach up to the first call, with a new test context.
Start(k) ==
  /\ pc = "over" /\ specs < MaxSpecs
  /\ specs' = specs + 1 /\ kind' = k
  /\ clients' = {} /\ topology' = "" /\ ns' = FALSE
  /\ rhobs' = NoRhobs /\ attempt' = 0 /\ private' = FALSE
  /\ \/ k = "rhobs" /\ "clusterID" \in given /\ pc' = "external" /\ verdict' = "none"
     \/ k = "mc" /\ "mc" \in given /\ InitMCClients /\ verdict' = "none"
     \/ /\ (IF k = "rhobs" THEN "clusterID" ELSE "mc") \notin given
        /\ pc' = "over" /\ verdict' = "skipped"
  /\ UNCHANGED <<shared, served, misled>>

\* Mutant: the management cluster is asked whatever is known already.
ExternalIDAlwaysLoads ==
  /\ pc = "external" /\ InitMCClients
  /\ UNCHANGED <<shared, specs, kind, tcVars, body, verdict, served, misled>>

\* The cluster's external ID; then the credentials if they are known.
ExternalID ==
  /\ pc = "external"
  /\ \/ HasRHOBSAccess /\ NewRHOBSConfig(cfg, metrics)
     \/ ~HasRHOBSAccess /\ InitMCClients /\ UNCHANGED <<body, served>>
  /\ UNCHANGED <<shared, specs, kind, tcVars, verdict, misled>>

ExternalIDFails == pc = "external" /\ End("failed")

-----------------------------------------------------------------------------
(* InitMCClients                                                           *)

\* An error: the RHOBS specs are skipped, the others fail.
InitFails == End(IF kind = "rhobs" THEN "skipped" ELSE "failed")

ResolveManagementClusterID ==
  /\ pc = "resolveMC"
  /\ \/ /\ pc' = "credentials"
        /\ UNCHANGED <<shared, specs, kind, tcVars, body, verdict, served, misled>>
     \/ InitFails

InitDone == IF kind = "rhobs" THEN "load" ELSE "check"

\* The kubeconfig, the clients, and whether the topology has to be known.
GetCredentials ==
  /\ pc = "credentials"
  /\ clients' = {"kube", "dynamic"}
  /\ pc' = IF "clusterID" \in given THEN "topology" ELSE InitDone
  /\ UNCHANGED <<shared, specs, kind, topology, ns, body, verdict, served, misled>>

\* The first client may be set when the second cannot be made.
GetCredentialsFails ==
  /\ pc = "credentials"
  /\ pc' = "over" /\ verdict' = IF kind = "rhobs" THEN "skipped" ELSE "failed"
  /\ clients' \in {{}, {"kube"}}
  /\ UNCHANGED <<shared, specs, kind, topology, ns, body, served, misled>>

\* Topology: configured (rightly), or detected, or unknown when OCM does not
\* answer.
Topology ==
  /\ pc = "topology"
  /\ \E t \in IF "topology" \in given THEN {real} ELSE {real, ""} :
       topology' = t /\ pc' = IF t = "hcp" THEN "namespaces" ELSE InitDone
  /\ UNCHANGED <<shared, specs, kind, clients, ns, body, verdict, served, misled>>

\* ResolveHCPNamespaces finds a HostedCluster; that it does not is no error.
ResolveHCPNamespaces ==
  /\ pc = "namespaces" /\ pc' = InitDone
  /\ ns' \in {real = "hcp", FALSE}
  /\ UNCHANGED <<shared, specs, kind, clients, topology, body, verdict, served, misled>>

\* The management cluster spec needs the namespaces and then checks.
Check ==
  /\ pc = "check"
  /\ \/ ns /\ End("passed")
     \/ End("failed")

-----------------------------------------------------------------------------
(* LoadRHOBSCredentialsFromMC                                              *)

\* What the keys of the ConfigMap give; a missing key gives the empty string.
MapValue(f) == IF f \in keys THEN version ELSE NoValue

\* Mutant: what is there already is not overridden.
MergedConfig == [f \in Fields |-> IF cfg[f] # NoValue THEN cfg[f] ELSE MapValue(f)]

LoadedConfig == [f \in Fields |-> MapValue(f)]

\* Mutant: the URL is derived before the new probe URL is stored.
DeriveMetricsEarly == metrics' = IF metrics = NoValue THEN cfg["probe"] ELSE metrics

\* The metrics URL is derived once, from the probe URL just stored.
DeriveMetrics == metrics' = IF metrics = NoValue THEN cfg'["probe"] ELSE metrics

\* Credentials that are set are kept, all others are replaced.
LoadRHOBSCredentialsFromMC ==
  /\ pc = "load"
  /\ IF HasRHOBSAccess THEN UNCHANGED <<cfg, metrics>>
                       ELSE cfg' = LoadedConfig /\ DeriveMetrics
  /\ \/ HasRHOBSAccess' /\ NewRHOBSConfig(cfg', metrics') /\ UNCHANGED <<verdict, misled>>
     \/ /\ ~HasRHOBSAccess' /\ pc' = "over" /\ verdict' = "skipped" /\ misled' = TRUE
        /\ UNCHANGED <<body, served>>
  /\ UNCHANGED <<given, real, mcVars, specs, kind, tcVars>>

LoadFails == pc = "load" /\ ~HasRHOBSAccess /\ End("skipped")

-----------------------------------------------------------------------------
(* The spec's body: VerifyRHOBSProbeExists, for a public and then for a    *)
(* private probe, each with a token of its own.                            *)

NextProbe ==
  \/ /\ ~private /\ private' = TRUE /\ attempt' = 0 /\ pc' = "token"
     /\ UNCHANGED <<shared, specs, kind, tcVars, rhobs, verdict, served, misled>>
  \/ private /\ End("failed")

\* Mutant: the delays are gone through again and again.
TokenRetryForEver ==
  /\ pc = "token" /\ attempt' = (attempt + 1) % MaxAttempts
  /\ UNCHANGED <<shared, specs, kind, pc, tcVars, rhobs, private, verdict, served, misled>>

\* No connection or a status of 500 and more: again after a delay.
TokenRetry ==
  /\ pc = "token" /\ attempt + 1 < MaxAttempts
  /\ attempt' = attempt + 1
  /\ UNCHANGED <<shared, specs, kind, pc, tcVars, rhobs, private, verdict, served, misled>>

\* Any other refusal at once, or the last attempt.
TokenFails == pc = "token" /\ NextProbe

Token ==
  /\ pc = "token" /\ pc' = "query"
  /\ UNCHANGED <<shared, specs, kind, tcVars, body, verdict, served, misled>>

Query == pc = "query" /\ (End("passed") \/ NextProbe)

SpecStep ==
  \/ ExternalID \/ ExternalIDFails \/ ResolveManagementClusterID \/ GetCredentials
  \/ GetCredentialsFails \/ Topology \/ ResolveHCPNamespaces \/ Check
  \/ LoadRHOBSCredentialsFromMC \/ LoadFails
  \/ TokenRetry \/ TokenFails \/ Token \/ Query

\* The route monitor operator's ConfigMap is rewritten.
MapChanges ==
  /\ version < FirstMap + MaxVersions /\ version' = version + 1
  /\ keys' \in SUBSET Fields
  /\ UNCHANGED <<given, real, cfg, metrics, specs, kind, pc, tcVars, body, verdict,
                 served, misled>>

Next == SpecStep \/ MapChanges \/ \E k \in {"rhobs", "mc"} : Start(k)

Spec == Init /\ [][Next]_vars

\* A started spec keeps running.
FairSpec == Spec /\ WF_vars(SpecStep)

-----------------------------------------------------------------------------
(* Properties                                                              *)

InBody == pc \in {"token", "query"}

\* The credentials a spec works with belong together: all come from the
\* environment or all from one version of the ConfigMap, whatever specs before
\* it have left in the shared configuration.
OneSource == InBody => \E s \in Sources \ {NoValue} : \A f \in Fields : rhobs[f] = s

\* "Auto-derive metrics API URL from probe API URL if not explicitly set": the
\* two URLs of a spec belong together, except where the first probe URL came
\* with credentials missing, in the environment or in a ConfigMap.
MetricsFollowProbe ==
  InBody /\ "metrics" \notin given /\ rhobs["metrics"] # rhobs["probe"] =>
    misled \/ ("probe" \in given /\ ~(Fields \subseteq given))

\* Once one spec has had its credentials no other RHOBS spec is skipped, be the
\* management cluster out of reach or the ConfigMap broken by then.
NoSkipOnceServed ==
  [][served /\ kind = "rhobs" /\ pc # "over" /\ pc' = "over" => verdict' # "skipped"]_vars

\* Every started spec ends, however often the token endpoint fails.
SpecsEnd == pc # "over" ~> pc = "over"
=============================================================================
