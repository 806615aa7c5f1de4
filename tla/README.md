# TLA+ models of rosa-e2e

rosa-e2e is an end-to-end test suite for ROSA clusters (HCP and Classic).  Most of
its code asks a cluster or a cloud API one question and compares the answer.  The
parts that can go wrong in ways a test of the test suite would hardly find are the
ones that *change* something and have to put it back: clusters, VPCs, namespaces,
keys, OIDC configs and artifact files, made by processes that are interrupted, over
calls that fail, time out or answer too late, in accounts that others use as well.
These parts are modelled first, together with the goroutine fan-out that every
aggregated check runs through.  The checks themselves come after them: what they say
of every answer they can get, and what becomes of it when the cluster changes while
they look or when specs that share the configuration run in another order.

Contents: [inventory](#1-inventory), [modules and code](#2-modules-and-code),
[runs](#3-runs), [bounds](#4-bounds), [fairness](#5-fairness),
[proofs](#6-proofs), [disagreements](#7-where-code-and-documentation-disagree),
[not modelled](#8-not-modelled), [plan](#9-plan).

## 1. Inventory

| Component | State it keeps | Operations | What is hard | What makes it correct |
|---|---|---|---|---|
| VPC cleanup cascade, `pkg/framework/vpc_cleanup.go` | none between calls; listings, the current resource, counters and collected errors within a call; the VPC itself in EC2 | list, detach, wait, delete with retry (interfaces); list, revoke, delete (groups); list, delete (subnets) | every listing is stale when it is used; EC2 detaches asynchronously; retry limits; groups that reference each other; cancelled contexts | the cascade order, nil means empty, an error names the blockers, repeated calls succeed in the end |
| Verifier runner, `pkg/verifiers/verifier.go` | WaitGroup, channel, error list | spawn, verify, send, done, wait, close, drain | goroutine interleavings, a channel at its capacity, closing before the last send | no send blocks or panics, no error is lost, it returns |
| Provisioning scripts, `scripts/provision-e2e-cluster.sh`, `scripts/deprovision-e2e-cluster.sh` | shell variables; the env file in `SHARED_DIR`; stack, key, OIDC config, roles and cluster in AWS and OCM | one rosa, aws or ocm command each | `set -e` ends a script anywhere, `\|\| true` hides failures, reruns, several runs in one organisation adopt each other's OIDC configs | nothing goes from under a live cluster, a recorded run is cleaned completely, adopted configs are kept |
| Test namespace, workload and storage helpers, `pkg/framework/{namespace,workload,storage}.go` | objects on the cluster under test; the cleanups a spec has registered | create namespace, wait for the ServiceAccount, create storage class, claim, pod, deployment, service, wait, delete | the namespace of an earlier execution is still terminating, two jobs run one spec, answers are lost, helpers fail halfway | what is left has a failure behind it; every execution ends |
| Cluster lifecycle specs, `pkg/framework/ocm.go`, `test/e2e/cluster_lifecycle_test.go` | the cluster ID registered with DeferCleanup; the cluster in OCM | create, wait for ready, verify, delete, delete again in the cleanup | the response to the create is lost, the ticker races the timeout, the process is killed, the cluster changes on its own | no orphaned cluster; a spec ends |
| Failure diagnostics, `pkg/reporting/mc_diagnostics.go` | the snapshot, a word on the completeness of each part, the file | four reads with deadlines, cut to size, write | deadlines inside deadlines, cutting what was already cut, failures while writing | what is called complete is complete, the file fits the limit, failures stay visible, no half-written file |
| Upgrade helpers and specs, `pkg/framework/upgrade.go`, `test/e2e/upgrade_test.go` | upgrade policies and versions in OCM, which outlive the job | schedule, wait for the version, verify | specs depend on each other and run in any order; the wait compares the version only; a policy stays with OCM when its spec has given up | a spec that passes means an upgraded unit; no upgrade runs behind the specs' back; the Sippy signal means an upgrade; the job ends |
| Version and shard resolution, `pkg/framework/ocm.go` | the shard in the shared configuration | find version, find shard | preferences and fallbacks when a lookup fails | the choice obeys the request whenever an answer is available |
| Configuration and test context, `pkg/config`, `pkg/framework/context.go`, `hcp.go` | one configuration per process, with the RHOBS credentials and the AWS region that specs write to it; per spec its clients, topology and namespaces | Load, Init*Clients, Topology, LoadRHOBSCredentialsFromMC, token with retries, ResolveHCPNamespaces | specs find what earlier specs left in the shared part; the ConfigMap it came from changes; a failed lookup is repeated | credentials of a spec belong together; what one spec could load, later ones have; the hosted cluster is ours |
| Specs on the AWS account, `test/e2e/{iam_validation,infrastructure_tags,customer_features,kms}_test.go`, `pkg/verifiers/{kms,tags}.go` | the region in the shared configuration | set the region, make clients, resolve identifiers, verify | the order of the specs decides which region is looked at | a verdict does not depend on what ran before, or exactly as stated |
| Health verifiers, `pkg/verifiers/*.go` | none | one listing, one comparison | absent, repeated, unknown and malformed conditions; errors that are dropped; order | what their comments promise |
| Observation verifiers, `pkg/verifiers/{revision,oauth_readiness,cloudtrail}.go` | what was seen at the start, a deadline, a page | compare over time or over pages | changes between two looks, two deadlines, page limits | no change during the observation goes unseen, and how much may |
| RHOBS, FIPS, role and external auth verifiers, `pkg/verifiers/{rhobs,fips,ocm_role,external_auth}.go` | none | one to three requests, a comparison | requests that fail or see different states, zero baselines, series that overwrite each other | a green verdict has evidence behind it |
| Sippy reporting, `pkg/reporting/sippy.go`, `test/e2e/sippy_signals.go` | none | convert a report | which spec counts for which signal | a signal is green exactly when no spec of its area failed |
| Dependabot auto-merge, `.github/workflows/dependabot-auto-merge.yml` | none | poll checks, enable auto-merge | late checks, a wait that runs out | nothing is merged over a failed check |
| Feature specs, runner scripts, CI definitions | none | sequences of the above | | |

How they interact.  A spec calls helpers of `pkg/framework`, which change OCM, AWS
or the cluster and hand back a cleanup; the spec registers it with Ginkgo's
DeferCleanup, which runs the cleanups in reverse order when the spec ends, however
it ends.  Specs then run verifiers, several at a time through `RunVerifiers`.  When
a management cluster spec fails, a cleanup writes the failure diagnostics.  The
scripts make and remove the cluster that a suite of specs runs against; they share
nothing but the env file.  `CleanupVPCResources` is called for the VPC that a removed
cluster leaves behind, while the uninstaller may still be at work in it.  At the end of
a suite the reports of its specs become the Sippy signals.

The hazards are listed with their lines in `PROJECT.json`.

## 2. Modules and code

| Module | Models | Notes |
|---|---|---|
| `VpcCleanup` | `CleanupVPCResources` and EC2 as it uses it | one action per EC2 call with the control flow up to the next one |
| `MCVpcCleanup` | | the VPCs TLC checks |
| `VpcCleanup_proofs` | | proofs |
| `VerifierJoin` | what `RunVerifiers` promises | abstract: verdicts and one report |
| `RunVerifiers` | `RunVerifiers` | goroutines, WaitGroup, channel; implements `VerifierJoin` |
| `Provisioning` | both provisioning scripts | one action per command |
| `MCProvisioning` | | the directories of the runs and how often each is provisioned |
| `Provisioning_proofs` | | proofs |
| `TestWorkload` | namespace, workload and storage helpers and the specs on top | executions that share one namespace |
| `TestWorkload_proofs` | | proofs |
| `ClusterLifecycle` | OCM helpers and the lifecycle specs | executions one after the other |
| `ClusterLifecycle_proofs` | | proofs |
| `FailureDiagnostics` | `WriteMCFailureDiagnostics` | objects are counted, the output has a length |
| `MCFailureDiagnostics` | | object sizes |
| `FailureDiagnostics_proofs` | | proofs |
| `SharedConfig` | the RHOBS part of `pkg/config`, `pkg/framework/context.go` and `pkg/verifiers/rhobs.go`, and the management cluster clients | specs one after the other in one process |
| `MCSharedConfig` | | the settings TLC checks |
| `SharedConfig_proofs` | | proofs |
| `Upgrade` | `pkg/framework/upgrade.go`, the upgrade specs, the upgrade signal | jobs one after the other on one cluster, OCM carrying out policies |
| `MCUpgrade` | | the label filters of the jobs |
| `Upgrade_proofs` | | proofs |
| `Rollouts` | `VerifyDeploymentRevisionsStable` | two snapshots, controllers between them |
| `OAuthReadiness` | `VerifyOAuthServerReadiness` | two waits on a clock |
| `CloudTrail` | `VerifyNoAccessDenied` | a log of pages |
| `ClusterVerdicts` | the health, managed operator, HCP namespace, hub and FIPS verifiers | operators from an answer to a verdict |
| `ServiceVerdicts` | shard choice, `ResolveHCPNamespaces`, cardinality gate, recording rules, OCM role, external auth providers, Sippy signals | operators from an answer to a verdict |
| `AccountSpecs` | the CloudTrail, tag, encryption, key and KMS storage specs | specs of one process in any order |
| `Verifiers` | | composition of the six modules above |
| `MCVerifiers` | | events and accounts |
| `Verifiers_proofs` | | proofs about `RunVerifiers`, its refinement among them, and about `Verifiers` |

**VpcCleanup.**  `eni`, `groups`, `rules`, `subnets` are EC2's; the other variables
are the locals of one call.  `unlisted` is what the paginator has still to return,
`batch` the slice it filled, `work` what the loop over the slice has not visited.
`seenAttached` and `seenRules` are the fields of the listed structs that are used
later, when they may be out of date.  `tries` counts both the polls of
`waitForENIAvailable` and the attempts of `deleteENIWithRetry`; they never overlap.
`ENICreated`, `ENIChanged`, `GroupChanged`, `SubnetDeleted` are the other owners of
the account, `DetachCompletes` is EC2.  A call may fail for reasons of its own until
`Settle`, and fails for certain once its context is cancelled.  `late` remembers what
was created after the listing of its kind had begun, which the code cannot know
of.  `CallAgain` starts the next call.

**RunVerifiers.**  `main` is the calling goroutine, `task[v]` the goroutine of each
verifier.  `Send` is enabled only when the buffered channel has room, as in Go; a
send on a closed channel is a panic, which `SendNeverBlocks` excludes.

**Provisioning.**  Stack and cluster carry the name of the run, so there is one of each
per run and a second is refused.  The key, the OIDC config and the operator roles get a new
identifier whenever the provision script makes them; they are named by the attempt
`<<run, try>>` and accumulate in the sets `keys`, `oidc`, `roles` when a run is provisioned
again.  `info[r]` holds the shell variables of the script that is running, `env[d]` the env
file; both describe one attempt, and a teardown schedules the key of that attempt and of
no other.  `made[r]` is the try that created the cluster, whose roles `rosa describe` finds.
`Abort` is the end of a script by `set -e` or by an interrupt; commands followed by
`|| true` fail into `swallowed`.  `Refused` is a command that fails because of the state it
meets, not by chance.  `untracked` is history: attempts that ended before they were recorded,
whose record was overwritten by a later one, or whose teardown ignored a failure.
`AdoptOidc` is the choice of the organisation's first managed config, whoever made it.  A
script may be started again after it has ended.

**TestWorkload.**  `owed[e]` is the set of cleanups that execution `e` has registered.
A create whose answer is lost is an action of its own (`CreateNSLost`,
`CreateClassLost`, the second disjunct of `DeployNSFail`); `lost`, `unowned` and
`undeleted` record who failed how.  The controllers create the default
ServiceAccount, make deployments available and claims bound, and take a terminating
namespace apart piece by piece.

**ClusterLifecycle.**  `WaitForClusterReady` is a `select` between a ticker (`Tick`) and
a timeout (`WaitTimeout`); a poll that fails is skipped, as by `continue`.  OCM moves
clusters on its own (`OcmStep`).  `Kill` ends the process anywhere; the next
execution knows nothing of its cluster.

**FailureDiagnostics.**  `held` is what existed when a read was answered, `got` what is in
the snapshot, `word` the ReadStatus.  The length of the output is the sum of the
objects and of the status words, whose lengths are the real ones, so that a cut that
changes "complete" to "truncated" makes the output one byte longer, as it does in
the code.

**SharedConfig.**  A credential is represented by its source: nothing, the environment,
or a version of the ConfigMap.  `given` is the set of settings the process was started
with; `cfg` and `metrics` are the fields of the one `Config`, which outlive a spec;
`clients`, `topology` and `ns` belong to the test context that every spec makes anew,
and `rhobs` is the copy `NewRHOBSConfig` takes.  `metrics` holds the source of the probe
URL it was derived from.  `MapChanges` is the operator that writes the ConfigMap,
which may drop keys.  `served` and `misled` are history: a spec has had credentials, an
incomplete ConfigMap was read.  A configured topology is taken to be right.  The body
of an RHOBS spec is that of "should have probe created for cluster", with its token
retries; a management cluster spec stands for its setup and one check.

**Upgrade.**  A version is the target version or not, per unit (the cluster's control
plane, or its first node pool).  `env` is what the job was started with.  `pending` and
`running` are OCM's: a policy waits for its `nextRun`, then the unit is being upgraded,
then it has the version or OCM has given up.  They outlive the job.  `Take` is Ginkgo's
choice of a container; `SkipUnsure` is a topology lookup that failed, which the code
takes for another topology.  `ScheduleLost` is a policy OCM has taken although the spec
saw an error.  `Interrupt` is the timeout of the suite, an hour by default and shorter than
the waits of the specs, or a SIGINT: Ginkgo fails the running spec, skips all specs that have
not run (`cut` remembers them) and still writes the reports; `Kill` writes none.
`abandoned` are units with a policy that nobody can be sure to have waited
for: the wait was cut short, the answer was lost, or the policy was redundant when it was
added and the version matched before it came into effect.

**Rollouts, OAuthReadiness, CloudTrail.**  Revisions are numbers, `Bare` is a deployment
that has no annotation yet, `Absent` one that is not there.  The clock of
`OAuthReadiness` advances by the duration of a request (up to `ListTime`, `RequestTime`)
and by the poll interval; the deadline is looked at before a poll, as in the loop.
`CloudTrail` has one event per page, which is all that the page limit tells apart.

**ClusterVerdicts, ServiceVerdicts.**  A behaviour is one question: any answer within the
bounds, and what the code makes of it (`said`, `told`).  The properties are stated over
the answer alone, in the words of the comments, and do not use the operator they check.
A list or a Get that fails is an error of the verifier and not a further case, except
where the code goes on after it.  The ClusterOperators of an answer come with any set of
excluded ones (`EXCLUDE_CLUSTER_OPERATORS`).  The cardinality gate has two pairs of sums, the
head series and the remote-write rate, now and two hours ago, and the series of each metric;
`NoValue` is an empty or unreadable answer, which ends the verifier for a sum and is passed
over in a list.

**AccountSpecs.**  `region` is `cfg.AWSRegion`, which outlives a spec, `clients` the region
the clients of the running spec were made for.  `account` is drawn once: whether the
configured region is the cluster's, its volumes, its key, the volume behind a test claim,
and whether there is a denial in CloudTrail.  `set` and `ahead` are history: a KMS spec has
set the region, and the other specs that began when none had.  What the KMS storage spec does
on the cluster is in `TestWorkload`; here it is a third spec that sets the region.

**Verifiers.**  The six run side by side without sharing state, so one of them runs in a
behaviour; their interleavings with each other are those of `RunVerifiers`.

Definitions whose comment begins with `Mutant:` are not part of any
specification.  Each is a plausible slip in the definition that follows it; putting
it in that definition's place makes TLC report the property it is paired with in
`PROJECT.json`, which shows that the property depends on that code.

## 3. Runs

`tlc -workers 2 -config <cfg> <module>`

| Run | Module, cfg | Checks | Result |
|---|---|---|---|
| `vpc_cleanup` | `MCVpcCleanup`, `VpcCleanup.cfg` | `CascadeOrder`, `CleanAfterSuccess`, `BlockersNamed`, `Converges`, `Returns` | holds, 161,000 states |
| `vpc_default_rules` | `MCVpcCleanup`, `VpcCleanup_default.cfg` | `Converges` | violated, see 7.1 |
| `run_verifiers` | `RunVerifiers`, `RunVerifiers.cfg` | `SendNeverBlocks`, `EveryFailureReported`, `Joins`, `ImplementsJoin` | holds |
| `provisioning` | `MCProvisioning`, `Provisioning.cfg` | `NothingUnderALiveCluster`, `AdoptedConfigsKept` | holds, 2,180,000 states |
| `provisioning_rerun` | `MCProvisioning`, `Provisioning_rerun.cfg` | `RecordedRunIsCleaned`, `KeyOutlivesCluster`, `TeardownEnds` | holds, 212,000 states |
| `test_workload` | `TestWorkload`, `TestWorkload.cfg` | `LeakNeedsAFailure`, `SpecsEnd` | holds, 7,800 states |
| `cluster_lifecycle` | `ClusterLifecycle`, `ClusterLifecycle.cfg` | `NoOrphan`, `SpecEnds` | holds, 273,000 states |
| `failure_diagnostics` | `MCFailureDiagnostics`, `FailureDiagnostics.cfg` | `TypeOK`, `CompleteMeansAll`, `FitsTheLimit`, `NoPartialFile`, `FailuresStayVisible`, `Ends` | holds, 74,000 states |
| `shared_config` | `MCSharedConfig`, `SharedConfig.cfg` | `OneSource`, `MetricsFollowProbe`, `NoSkipOnceServed`, `SpecsEnd` | holds, 203,000 states |
| `upgrade` | `MCUpgrade`, `Upgrade.cfg` | `TypeOK`, `PassedMeansUpgraded`, `NoUpgradeBehindTheSpecs`, `SignalMeansUpgrade`, `JobEnds` | holds, 697,000 states |
| `upgrade_order` | `MCUpgrade`, `Upgrade_order.cfg` | `PostChecksAfterUpgrade` | violated, see 7.2 |
| `verifiers` | `MCVerifiers`, `Verifiers.cfg` | `VerifiersTypeOK`, `RolloutsVerdict`, `OAuthTiming`, `NoDenialUnseen`, `ClusterVerdictsSound`, `ServiceVerdictsSound`, `AccountVerdicts` | holds, 1,830,000 states |

All type invariants are proved; those of `FailureDiagnostics`, `Upgrade` and `Verifiers`
are checked by their runs as well.  Properties of `verifiers` whose name ends in `Verdict`, `Verdicts`,
`Sound` or `Timing` are conjunctions of named parts, each with a comment of its own.

What they show:

- **VPC cleanup.**  Whatever the rest of the account does to interfaces, groups,
  rules and subnets between two calls of the cascade, a phase starts only when the
  ones before it have removed everything their listings could see.  A nil result
  really means no interface and no subnet: the subnet phase catches interfaces that
  appeared late, because EC2 refuses to delete their subnet.  Groups created during
  the group phase can survive a nil result; this is the exact extent of it.  An
  error of the group or subnet phase names every listed resource that is still
  there.  Once the account is quiet, repeated calls stop failing, including after a
  detach wait that gave up too early.
- **Verifier runner.**  The channel's capacity is exactly what is needed when all
  verifiers fail; one less deadlocks.
- **Provisioning.**  Because the failure of `rosa delete cluster` is not ignored, no
  later command of a teardown meets a cluster that was not asked to go, through
  reruns and through the teardown of the other run.  The two `*_CREATED` flags keep
  teardowns away from adopted configs.  A teardown from an env file that ignored no
  failure leaves no cluster, no stack, no roles of the cluster and not the key that the file
  records.  What it can leave is what the file does not know of: keys, configs and roles of
  attempts under the same name that ended before the file was written, whose file a later
  attempt overwrote, or whose teardown ignored a failure.  `RecordedRunIsCleaned` states that
  there is nothing else.  A teardown without an env file knows nothing of stack and key, see 7.3.
- **Test workload.**  Executions that share a namespace delete each other's
  objects, and a spec may fail for that, but they never make each other forget a
  cleanup.
- **Cluster lifecycle.**  From the moment the ID is known every path ends with a
  delete; the window between OCM's creation and the arrival of its answer is the only
  one in which the code itself can lose a cluster.
- **Failure diagnostics.**  The words about completeness survive every combination of
  short pages, failed reads and cuts.
- **Shared configuration.**  Credentials are never mixed from two sources, because
  loading replaces all four of them, and once a spec has had them no later RHOBS spec
  depends on the management cluster.  The metrics URL is derived when it is empty and
  then never again; it therefore can belong to a probe URL that has been replaced.
  `MetricsFollowProbe` states the exact extent: only when the environment had the probe
  URL without the other credentials, or an incomplete ConfigMap was read before.
- **Upgrade.**  A spec that passes means a unit at the target version, whatever polls fail
  and however the wait ends.  It does not mean that the policy of the spec was carried
  out: a unit that had the version already passes at once and the policy stays.  This,
  waits that were cut short and lost answers are all the ways an upgrade can run that no
  spec waits for.  The signal "upgrade should work" is green without an upgrade only when no
  upgrade spec of the cluster's topology was selected, or when one was skipped, because a
  lookup of the topology failed or because the suite was interrupted or timed out before it
  began: skipped specs do not count, and the post-upgrade checks alone turn the signal green.
- **Rollouts.**  A rollout of a deployment that was there at the start goes unseen only if
  the deployment was deleted as well.  What is reported need not be a fight between
  controllers: a deployment that was new at the first snapshot and then got its first
  annotation is reported too.
- **OAuth readiness.**  The call may take twice the timeout and a poll more, and the
  pods may have been unready for a whole timeout when it passes.
- **CloudTrail.**  A denial is missed only behind the last page that is read; the one known
  denial is excused for its role only.
- **Health verdicts.**  On objects whose conditions are not listed twice, the loops for
  cluster operators, hosted clusters, node pools, nodes and deployments agree with their
  comments, Unknown and absent conditions included.  The exceptions are exact: operators
  named in `EXCLUDE_CLUSTER_OPERATORS` are not looked at, and a list of nothing else passes; VPC
  endpoints depend on the order of two conditions, unanswered FIPS packages pass, pools
  that report no machines are skipped, deployments scaled to zero count as healthy.
- **Shard, hosted cluster, RHOBS, roles, external auth, signals.**  Each choice or
  verdict is stated with its exact extent: a non-dedicated shard behind an unreadable one,
  another cluster of the same name, a user role that counts as an OCM role, a provider that is
  checked half.  The cardinality gate passes exactly when all five queries were answered, neither the head series
  nor the remote-write rate grew beyond the limit, and no metric is above its own; the
  exceptions are a baseline of 0 and series that overwrite each other.
- **Specs on the AWS account.**  The KMS specs give the same verdict in every order.  The
  CloudTrail spec and the tag spec do not: with an `AWS_REGION` other than the cluster's
  they look at the wrong region unless a KMS spec has run before them.

## 4. Bounds

| Bound | Value | Why it is enough |
|---|---|---|
| interfaces, groups, subnets | 1, 2 and the default one, 1 | one interface goes through all its states under the loop; two groups are the smallest cycle; more interfaces repeat the loop body.  The safety properties are proved for any number |
| `EniDeleteMaxRetries` | 2 (5 in the code) | there is a first, a middle and a last attempt |
| `MaxPolls` | 2 | polls within a timeout: a poll that fails, one that succeeds after it, and the end of the wait |
| `Verifiers` | 3 | one running while one sends and one leaves; proved for any finite number |
| `Runs` | 2, of which one fails (`Shaky`) | adoption of a config and interference need two; when both fail the state space does not fit; proved for any number, all of which may fail |
| `MaxTries` | 1 and 2 with two runs, 2 with one | a second attempt under a name meets what the first one left or recorded; proved for any number |
| `Execs` | 2 | one that meets the leftovers of another; proved for any number |
| `Kinds` | "workload", "kms" | the plain storage spec is the KMS spec without its class and its volume check |
| `Clusters` | 3 | a cluster lost, one left by a kill and one more execution; proved for any number |
| `DiagnosticLimit`, `MaxItems`, `DiagnosticMaxBytes` | 2, 3, 48 | lists below, at and above the limit; outputs from 31 to 74 bytes, so below, exactly at, and above the size limit, and a HostedCluster that alone is too large; proved for any limits and sizes |
| `MaxSpecs`, `MaxVersions` | 3, 1 | a spec that meets an incomplete ConfigMap, one that loads the rewritten one, one that finds what is there; proved for any number |
| `MaxAttempts` | 4 | as in the code |
| `Inputs` | all, none or only the probe URL of the credentials, each with four sets of the other settings | one for every branch of `Load`, `HasRHOBSAccess` and `InitMCClients`; proved for every set |
| `MaxJobs`, `MaxPolicies` | 2, 2 | a job that leaves a policy behind and one that meets it; two policies for one unit are needed for the redundant one; proved for any number |
| `Selections` | the filter of each platform, all specs, the post-upgrade checks alone | what label filters of the upgrade jobs can select; proved for every set of selections |
| `Deployments`, `MaxRevision` | 2, 3 | one that changes while one stays; first annotation, a rollout, a further one; proved for any number |
| `Timeout`, `PodPoll`, `EndpointPoll`, `ListTime`, `RequestTime` | 4, 3, 2, 1, 2 | intervals that do not divide the timeout, and requests that end after the deadline; proved for any times |
| `Events`, `MaxLog`, `MaxPages` | 7, 4, 3 | each kind of event on the last page that is read and on the one after it; proved for any log and any limit |
| `MaxConditions`, `MaxObjects` | 2, 2 | a type listed twice, two accepted types in both orders, a good object beside a bad one; proved for lists of any length |
| `MaxItems`, `MaxSeries`, `MaxDeltaPct` | 3, 3, 50 | an unreadable item between two others; growth below, at and above the limit; proved for answers of any length and any limit |
| `MaxTopk`, `MaxSeriesPerMetric` | 2 (10 in the code), 2 | a series that hides one of its name; counts below, at and above the limit; proved for any |
| `Accounts` | 10 accounts, each with every choice of region, lookup and denial | no volume, no tagged one, a sound root volume alone or beside each kind, each kind of key, a test volume without the cluster's key; proved for every set of accounts |
| `Topologies` (`SharedConfig`) | "hcp", "classic" | "osd-gcp" takes the same branch as "classic" |

`quiet` (VPC cleanup, provisioning) is the point in time after which calls no longer
fail by chance.  It may never come; only the liveness properties refer to it.

No symmetry sets are used: the constants are told apart by what they are mapped to,
or liveness is checked.

## 5. Fairness

- `VpcCleanup`: weak fairness of the call (a goroutine that can run does) and of
  `DetachCompletes` (a detach that EC2 has begun ends).  The rest of the account is
  free to do nothing or to act for ever.
- `RunVerifiers`: weak fairness of the caller and of every goroutine's own steps.  A
  `Verify` need not return; `Joins` assumes that all have.
- `Provisioning`: weak fairness of started scripts and of CloudFormation and OCM
  finishing what they began.  Nobody has to start a script.
- `TestWorkload`: weak fairness of every started execution and of the namespace
  controller; claims may stay unbound and deployments unavailable.
- `ClusterLifecycle`: weak fairness of the spec and of time; strong fairness of
  `WaitTimeout`, because `select` chooses at random among the cases that are ready, so
  a case that is ready in every round is chosen at last.  OCM need not do anything.
- `FailureDiagnostics`: weak fairness of the function; its reads carry deadlines.
- `SharedConfig`: weak fairness of the spec that runs, whose calls carry deadlines.
  Nobody has to start another spec, and the ConfigMap need not change.
- `Upgrade`: weak fairness of the job and of time, strong fairness of `WaitTimeout` for the
  same reason as in `ClusterLifecycle`.  OCM is not obliged to carry out a policy, and
  nobody has to start another job.
- `Verifiers` states safety only: its loops are bounded by pages and deadlines, and the
  bounds are what is checked.

## 6. Proofs

`tlapm <module>` checks each `*_proofs` module completely.  All theorems hold for
every value of the constants that satisfies the named assumption of the module.

| Theorem | Statement |
|---|---|
| `TypeCorrect` in each module, `Verifiers_proofs!VerifiersTypeCorrect` | the type invariant |
| `VpcCleanup_proofs!CascadeOrderHolds`, `CleanAfterSuccessHolds`, `BlockersNamedHolds` | the three safety properties, any VPC |
| `Verifiers_proofs!SendNeverBlocksHolds`, `EveryFailureReportedHolds` | any finite set of verifiers |
| `Verifiers_proofs!Refinement` | `RunVerifiers` implements `VerifierJoin` |
| `Provisioning_proofs!AdoptedConfigsKeptHolds` | any number of runs, with shared directories too |
| `Provisioning_proofs!LiveClusterKeepsAll` | `NothingUnderALiveCluster`, any number of runs with a directory each |
| `Provisioning_proofs!RecordedRunIsCleanedHolds`, `KeyOutlivesClusterHolds` | the same; the second is an action property |
| `TestWorkload_proofs!LeakNeedsAFailureHolds` | any number of executions and polls |
| `ClusterLifecycle_proofs!NoOrphanHolds` | any number of executions |
| `SharedConfig_proofs!OneSourceHolds`, `MetricsFollowProbeHolds`, `NoSkipOnceServedHolds` | any settings, specs, versions and attempts; the last is an action property |
| `Upgrade_proofs!PassedMeansUpgradedHolds`, `NoUpgradeBehindTheSpecsHolds`, `SignalMeansUpgradeHolds` | any selections, jobs and policies |
| `FailureDiagnostics_proofs!CompleteMeansAllHolds`, `FitsTheLimitHolds`, `NoPartialFileHolds`, `FailuresStayVisibleHolds` | any limits and sizes; the last is an action property |
| `Verifiers_proofs!RolloutsVerdictHolds` | any deployments, rollouts and annotations |
| `Verifiers_proofs!OAuthTimingHolds` | any timeout, intervals and times of a request |
| `Verifiers_proofs!NoDenialUnseenHolds` | any log and any number of pages |
| `Verifiers_proofs!AccountVerdictsHolds` | any volumes, any order of the specs |
| `Verifiers_proofs!ClusterVerdictsHold`, `ServiceVerdictsHold` | answers of any length |

The arguments:

- **VpcCleanup.**  The properties speak of the end of a phase; the invariant says, at
  every point of it, where the resources that still exist are: not listed yet
  (`unlisted`), not visited yet (`work`), in the error (`errs`), or `late`
  (`ENIsCovered`, `SGsCovered`, `SubnetsCovered`, `Named`).  The subnet phase needs
  `Integrity` as well, EC2's guarantee that an interface is in a subnet that exists:
  from it follows that no subnet means no interface.
- **RunVerifiers.**  `Counting` relates the WaitGroup to the goroutines that have not
  left, and the channel and the error list together to the goroutines that have sent;
  `Phases` says what the caller's position implies about the goroutines.  Both are
  cardinality arguments over a finite set (`FiniteParts`); that a sender always
  finds room is then that a set without the sender is smaller than the whole.  The
  refinement maps `report` to the joined error once the function has returned;
  every other step but `VerifyReturns` is a stuttering step.
- **Provisioning.**  `OwnInv`: what variables or an env file call created is that of the
  attempt they describe.  This survives two runs that overwrite each other's env
  file, because a file is written and read as a whole (`Loaded`).  `LiveInv`: with a directory
  of its own a script always describes its own run, and past `rosa delete cluster`
  the cluster is on its way out.  `RecordInv` is what `RecordedRunIsCleaned` needs: attempts
  are numbered, and the file describes an earlier one than the one in progress (`Numbers`);
  the `*_CREATED` flags are set for whatever exists of the attempt (`Flags`); every key and
  config is untracked, in the variables or in the file (`Tracked`), which is what makes
  the last conjunct of the property true; a teardown that has ignored no failure so far has
  seen the end of the cluster (`Uninstall`) and behind each command its resource is gone
  (`Achieved`).  The roles are named by no file: that those of an earlier cluster are not
  still there when the next one is made follows from the stack, which outlives them
  (`RolesHeld`).  `NoFileAssumption` says that no env file at all is not an env file.
  `OwnDirs` is an assumption of the three theorems on teardowns of own runs; with a
  shared directory they are false, since the sourced env file overrides `CLUSTER_NAME`.
- **TestWorkload.**  `Answered`: for an existing namespace, and for an existing class,
  there is an execution that will come to a cleanup or to a recorded failure
  (`Holds`), or such a failure has happened.  An execution in `createNS` counts from its
  second poll on, when the first may have made the namespace.
- **ClusterLifecycle.**  `Owned`: a live cluster is excused by the history or is the one
  the running spec has registered.
- **SharedConfig.**  `Uniform`: when all four credentials are there, they have one
  source.  `Derived`: while no incomplete source has been seen, the metrics URL is the
  probe URL's, and it was derived when all four were there, which nobody replaces.
  `Copied`: the same of the copy a spec works with.  `Asking`: a spec on its way to the
  management cluster has found credentials missing, so none has been served.
- **Upgrade.**  `Waited`: only a spec that upgrades waits, and it leaves its wait for the
  verification with its unit at the target version; a unit never loses it.  `OnePolicy`:
  while a spec waits for a unit that is not abandoned, OCM has one policy for it in all,
  waiting, being carried out or done with; therefore a unit that has reached the version
  has no policy left.  `Skipped`: what a skipped spec of the cluster's own topology was
  skipped for, `unsure` or `cut`; without it a green signal could hide any spec that never
  began.
- **FailureDiagnostics.**  `Parts`: a read that has not ended, or has failed, left nothing in
  the snapshot, so that cutting has nothing to cut there.  `Complete` holds between any
  two steps, not only for the file.  `Fitted`: from the last measurement to the write
  nothing is added; cutting changes words as well as objects, and only the measurement
  after the last cut counts.  `Files`: which step of the write leaves what behind.
- **Verifiers.**  A step of the composition is a step or a stutter of each part
  (`Composition`), so each part has an invariant of its own.  `Drift`: the revision of a
  deployment that stays only grows, and stays when nobody touches it.  `Clock`: how far
  the clock may be past the deadline at each point of the two waits.  `Pages`: what is known
  of the pages that were read, and that the verifier stops only where no page is left that
  it may read.  `RegionKept`: the shared region is the cluster's exactly when it was
  configured so or a KMS spec has set it, the clients of a spec are made for it, and a spec is
  in `ahead` exactly when none had set it at its start.
- **Verdicts.**  These properties relate an answer and what the loop makes of it; there is
  one lemma per verifier (`...Asked`, `NamespaceResolved`).  The loops that stop at the first
  match need the least index with a property (`Least`; `Greatest` for the map that keeps the
  last series of a name): that every nonempty set of naturals has one is the
  well-foundedness of `<`, which the library proves.  `EndpointAgrees`, `HostedAgrees`,
  `ShardFound`, `Growth`, `SumGate` and `VectorGate` are what the loops compute in terms of the
  answer alone.

Only model-checked: the liveness properties (`Converges`, `Returns`, `Joins`,
`TeardownEnds`, `SpecsEnd`, `SpecEnds`, `Ends`, `JobEnds`).  They need fairness and
`ENABLED`, which this version of the prover does not support.

## 7. Where code and documentation disagree

1. `vpc_default_rules`.  `vpc_cleanup.go` leaves the default security group out of the
   listing, so its rules are never revoked.  A rule of the default group that
   references another group keeps that group undeletable and every call fails in the
   group phase.  The comment at line 203 says the revoke loop breaks "cross-SG
   reference cycles".
2. `upgrade_order`.  The post-upgrade verification is a container of its own that never
   looks at the version.  Ginkgo orders top-level containers at random and neither the
   Makefile nor `run-e2e.sh` passes a seed, so "Verifying ClusterOperators are healthy
   after upgrade" (`upgrade_test.go:122`) can pass before the upgrade.

Further disagreements, each of which is the exception that a property above states:

3. `RecordedRunIsCleaned`.  The env file is the last thing the provision script writes, and a
   key is known to nobody but the env file.  After a run that ended between `create-key` and
   there, a teardown by name deletes the cluster, skips stack and key, and prints "Cleanup
   complete"; the comment on `KMS_ENABLED` (`provision-e2e-cluster.sh:33-34`) says the key is
   "deleted by deprovision-e2e-cluster.sh", and `docs/local-testing.md:324` promises both.  A
   further attempt under the same name makes another key, and its env file names only that.
4. `KeyOutlivesCluster`.  `rosa logs uninstall --watch || true` is the only wait for
   the uninstall.  When it ends early and the stack cannot be deleted, the key is
   scheduled for deletion under a cluster that is still there; the comment at
   `deprovision-e2e-cluster.sh:167` says this must not be.
5. `LeakNeedsAFailure`.  `DeployTestWorkload` returns a nil cleanup with every error after
   it has created the namespace; README.md:355 promises that each test cleans up.
6. `UnhealthyPackagesReported`.  `fips.go:182` drops the error of a package that could not
   be asked for; "Packages that exist but are unhealthy cause an error".
7. `NodesRunFIPS`.  The comment speaks of an Updated pool; the condition Updated is not
   read, the machine counts are.
8. `ShardChoice`.  "Fall back to first available" (`ocm.go`) looks at the first item only,
   whether or not it has a shard.
9. `OAuthBounded`.  "or the provided timeout expires": each of the two waits has its own.
10. `EndpointVerdict`.  "have an available condition with status True": not if another one
    that is not true is listed before it.
11. `NamespaceVerdict`.  "expected replicas > 0": deployments scaled to zero pass, also when
    all of them are.
12. `RoleLinkage`.  A user role "must not satisfy the linkage check"; the ARN of one has the
    resource `role/...` like that of an OCM role, and satisfies it.
13. `TagsVerdict`.  "all EBS volumes owned by the cluster have the expected tags": the tag
    that is expected is the one the volumes are filtered by, so a volume without it is
    never seen.
14. `DenialsMissedOnlyAstray`.  README.md:168 gives us-east-1 as the default of
    `AWS_REGION`, `config.go:95` has us-east-2; the specs that do not ask OCM for the
    region depend on it.
15. `SignalMeansUpgrade`.  `sippy_signals.go:54` ignores skipped specs.  The waits of the
    upgrade specs are 60 and 90 minutes, neither the Makefile nor `run-e2e.sh` passes
    `--timeout`, and Ginkgo's default is one hour: when it ends the suite between the
    post-upgrade checks and the upgrade, "upgrade should work" is green.

## 8. Not modelled

- The legacy branch of the deprovision script for a VPC without a stack
  (lines 104-150): the provision script never makes such a VPC.
- The contents of create requests, names, messages and the layout of the JUnit file.
- The choice of the version: the first item of a search that OCM orders.
- Verifiers that only count (`VerifyNodeCount`, `VerifyMachinePoolsExist`,
  `VerifyRMORouteMonitors`), and the clients of the service and the hosted cluster, which
  are made like those of the management cluster.
- The remaining feature specs: sequences of one-shot checks.
- `run-e2e.sh` and `create-external-auth-provider.sh`: arguments around single commands.
- The Dependabot workflow: a shell loop against GitHub in which no code of the suite
  takes part.
- CI definitions, bot prompts and labels: data.

## 9. Plan

Done in this order, by what a mistake costs: VPC cleanup, verifier runner,
provisioning scripts, cluster lifecycle, test workload, failure diagnostics, shared
configuration, upgrade, observation verifiers, verdicts, specs on the AWS account.

The proofs followed the same order, the last ones being those of `Upgrade`,
`FailureDiagnostics`, the teardown in `Provisioning` and the verifiers.  Every invariant
and every action property that a passing run checks is now proved.

Next:

1. The safety half of the liveness properties: the numbers that bound the retries, polls
   and attempts of a wait strictly grow, as action properties.
2. What the two disagreements of section 7 that are runs leave of the properties that they violate:
   the condition on the default group's rules under which a listed group can be deleted, and
   the order of the containers under which the post-upgrade checks are what they say.
3. `OwnDirs` weakened to runs whose lifetimes overlap.
