--------------------------- MODULE ServiceVerdicts ---------------------------
(***************************************************************************)
(* What the framework and the verifiers make of the answers of OCM, of the *)
(* management cluster and of RHOBS, and of the report of the suite: which  *)
(* shard, which hosted cluster, which verdict and which signals.  A        *)
(* behavior puts one question.                                             *)
(***************************************************************************)
EXTENDS Integers, SequencesExt

CONSTANTS
  MaxItems,    \* bound: items of an answer
  MaxTopk,     \* the k of topk(k, ...): at most as many series are returned
  MaxSeries,   \* bound: value of a metric
  MaxDeltaPct, \* maxDeltaPct of VerifyCardinalityThreshold
  MaxSeriesPerMetric \* maxSeriesPerMetric of the same

ASSUME ServiceVerdictsAssumption ==
  /\ MaxItems \in Nat /\ MaxTopk \in Nat /\ MaxSeries \in Nat
  /\ MaxDeltaPct \in Nat /\ MaxSeriesPerMetric \in Nat

VARIABLE told \* the question, what was answered, and what the code makes of it

Items(S) == BoundedSeq(S, MaxItems)

-----------------------------------------------------------------------------
(* resolveProvisionShard                                                   *)

\* A service cluster: its shard, or "", and what the Get of the shard says.
ServiceClusters == [id : {"", "s1", "s2"}, topology : {"dedicated", "other", "error"}]

\* An answer: the service clusters of a status, or an error.
ShardAnswers(n) == [ok : {TRUE}, items : BoundedSeq(ServiceClusters, n)]
                     \cup {[ok |-> FALSE, items |-> <<>>]}

\* Mutant: a shard is taken whatever its topology is.
TakeFirst(c) == c.id # ""

\* The loop stops at a dedicated shard, and at one whose topology it cannot read.
TakeShard(c) == c.id # "" /\ c.topology # "other"

\* "Fall back to first available": the first item, or nothing.
Fallback(items) == IF items = <<>> THEN "" ELSE items[1].id

\* findShardForSector; an error and "" are treated alike by its caller.
FindShard(answer) ==
  LET i == SelectInSeq(answer.items, TakeShard)
  IN  IF i # 0 THEN answer.items[i].id ELSE Fallback(answer.items)

ResolveProvisionShard(ready, maintenance) ==
  IF FindShard(ready) # "" THEN FindShard(ready) ELSE FindShard(maintenance)

-----------------------------------------------------------------------------
(* ResolveHCPNamespaces                                                    *)

\* A HostedCluster: its name is that of our cluster, its namespace ends with our ID.
HostedClusters == [named : BOOLEAN, ours : BOOLEAN]

\* What is known of our cluster; an ID of eight characters or less is not used.
Known == [name : BOOLEAN, id : BOOLEAN]

\* Mutant: the ID is only looked at when the name is not known.
MatchesNameFirst(k, c) == IF k.name THEN c.named ELSE k.id /\ c.ours

\* name == clusterName || containsID(namespace, clusterID)
Matches(k, c) == (k.name /\ c.named) \/ (k.id /\ c.ours)

\* The index of the HostedCluster, or 0.
ResolveHCPNamespaces(k, list) == SelectInSeq(list, LAMBDA c : Matches(k, c))

-----------------------------------------------------------------------------
(* RHOBS                                                                   *)

\* Mutant: the change is taken relative to what is measured now.
DeltaOfCurrent(current, baseline) ==
  baseline > 0 => (current - baseline) * 100 <= MaxDeltaPct * current

\* deltaPct <= maxDeltaPct; without a baseline the change is 0.
DeltaPassed(current, baseline) ==
  baseline > 0 => (current - baseline) * 100 <= MaxDeltaPct * baseline

\* What cannot be read as a number.
NoValue == -1
Values == {NoValue} \cup 0..MaxSeries

\* The queries for a sum, now and two hours ago; extractScalarValue has an error for
\* an empty answer as for a malformed one.
Sums == [current : Values, baseline : Values]
Measured(sum) == sum.current # NoValue /\ sum.baseline # NoValue

\* extractVectorValues passes over what it cannot read and keys the series by
\* __name__, "" when there is none; of two with one key the later one stays.
Series == [name : {"", "m1", "m2"}, count : Values]
Vector(list) ==
  [n \in {list[i].name : i \in {j \in DOMAIN list : list[j].count # NoValue}} |->
     list[SelectLastInSeq(list, LAMBDA e : e.name = n /\ e.count # NoValue)].count]

\* Mutant: the growth of the head series is reported for the remote-write rate.
CardinalityOneDelta(head, rw, answered, list) ==
  /\ Measured(head) /\ Measured(rw) /\ answered
  /\ DeltaPassed(head.current, head.baseline)
  /\ \A n \in DOMAIN Vector(list) : Vector(list)[n] <= MaxSeriesPerMetric

\* VerifyCardinalityThreshold, and the spec that wants no error and every result
\* Passed: the head series, the remote-write rate, the series of each metric.
CardinalityPassed(head, rw, answered, list) ==
  /\ Measured(head) /\ Measured(rw) /\ answered
  /\ DeltaPassed(head.current, head.baseline)
  /\ DeltaPassed(rw.current, rw.baseline)
  /\ \A n \in DOMAIN Vector(list) : Vector(list)[n] <= MaxSeriesPerMetric

\* The answer to a query: an error (no status "success" included), none, or some.
Queries == {"error", "empty", "data"}

\* Mutant: a failed query for the probe data is taken for missing data.
NoProbeDataOrError(probe) == probe # "data"

NoProbeData(probe) == probe = "empty"

RuleVerdict(probe, rule) ==
  CASE rule = "error" -> "queryFailed"
    [] rule = "data"  -> "ok"
    [] rule = "empty" -> IF NoProbeData(probe) THEN "notIngested" ELSE "ruleBroken"

\* VerifyRecordingRules: probe_success, then the two rules in turn.
VerifyRecordingRules(probe, active, blackbox) ==
  IF RuleVerdict(probe, active) # "ok" THEN RuleVerdict(probe, active)
  ELSE RuleVerdict(probe, blackbox)

-----------------------------------------------------------------------------
(* The OCM role and the external auth providers.                           *)

\* An entry of the label sts_ocm_role.  The ARN of a user role is that of a role.
Entries == [arn : {"ocmRole", "userRole", "user", "malformed"}, account : {"ours", "other"}]

\* Mutant: every well-formed ARN counts.
AnyARN(list) == {list[i].account : i \in {j \in DOMAIN list : list[j].arn # "malformed"}}

\* The accounts of GetLinkedOCMRoleARNs: service iam, resource role/...
LinkedAccounts(list) ==
  {list[i].account : i \in {j \in DOMAIN list : list[j].arn \in {"ocmRole", "userRole"}}}

\* A provider; answers: its issuer has a discovery document and keys.  One that is
\* edited counts as another.
Providers == [issuer : {"none", "http", "https"}, audiences : BOOLEAN, failed : BOOLEAN,
              answers : BOOLEAN]

\* validateExternalAuthProvider
Valid(p) == p.issuer = "https" /\ p.audiences /\ ~p.failed

\* The issuer is there and probeOIDCIssuer returns nil.
Probed(p) == p.issuer # "none" /\ p.answers

\* Mutant: the providers of the first listing are probed.
ExternalAuthOneListing(enabled, still, listed, later) ==
  IF ~enabled THEN "skipped"
  ELSE IF /\ still /\ listed # {} /\ \A p \in listed : Valid(p) /\ Probed(p)
       THEN "passed" ELSE "failed"

\* ExternalAuthEnabled, VerifyExternalAuthProviders, VerifyExternalAuthIssuerReachable:
\* the setting is read twice, and the providers are listed twice.
ExternalAuth(enabled, still, listed, later) ==
  IF ~enabled THEN "skipped"
  ELSE IF /\ still /\ listed # {} /\ \A p \in listed : Valid(p)
          /\ later # {} /\ \A p \in later : Probed(p)
       THEN "passed" ELSE "failed"

-----------------------------------------------------------------------------
(* Sippy                                                                   *)

\* An It of the report, with the areas that matter among its labels.
Its == [state : {"passed", "failed", "skipped"}, areas : SUBSET {"infra", "upgrade"}]

OfArea(its, area) ==
  {its[i].state : i \in {j \in DOMAIN its : its[j].state # "skipped" /\ area \in its[j].areas}}

\* Mutant: the specs are looked at although BeforeSuite failed.
SignalsOfSpecs(ready, its) ==
  [s \in {"install", "infra"} \cup {a \in {"upgrade"} : OfArea(its, a) # {}} |->
     IF s = "install" THEN ready ELSE "failed" \notin OfArea(its, s)]

\* analyzeSuiteReport and the cases of WriteSippyJUnit; ready: BeforeSuite passed.
Signals(ready, its) ==
  [s \in {"install", "infra"} \cup {a \in {"upgrade"} : ready /\ OfArea(its, a) # {}} |->
     ready /\ (s # "install" => "failed" \notin OfArea(its, s))]

-----------------------------------------------------------------------------
(* One question.                                                           *)

NothingTold == [what |-> "nothing"]

Tell(what, in, out) == told' = [what |-> what, in |-> in, out |-> out]

ServiceVerdictsInit == told = NothingTold

AskShard ==
  \E ready \in ShardAnswers(MaxItems), maintenance \in ShardAnswers(1) :
    Tell("shard", <<ready.items, maintenance.items>>, ResolveProvisionShard(ready, maintenance))

AskNamespace ==
  \E k \in Known, list \in Items(HostedClusters) :
    Tell("namespace", [known |-> k, list |-> list], ResolveHCPNamespaces(k, list))

AskCardinality ==
  \E head, rw \in Sums, answered \in BOOLEAN, list \in BoundedSeq(Series, MaxTopk) :
    Tell("cardinality", [head |-> head, rw |-> rw, answered |-> answered, list |-> list],
         CardinalityPassed(head, rw, answered, list))

AskRules ==
  \E probe, active, blackbox \in Queries :
    Tell("rules", [probe |-> probe, rules |-> {active, blackbox}],
         VerifyRecordingRules(probe, active, blackbox))

\* VerifyOCMRoleLinked and VerifyOCMRoleLinkedForAccount; a label that is absent
\* is an empty one.
AskRole ==
  \E list \in Items(Entries) :
    Tell("role", list, [linked |-> LinkedAccounts(list) # {}, ours |-> "ours" \in LinkedAccounts(list)])

AskExternalAuth ==
  \E a, b \in Providers, enabled, still \in BOOLEAN : \E listed, later \in SUBSET {a, b} :
    Tell("auth", [enabled |-> enabled, still |-> still, listed |-> listed, later |-> later],
         ExternalAuth(enabled, still, listed, later))

\* After a failed BeforeSuite Ginkgo skips every spec.
AskSignals ==
  \E ready \in BOOLEAN, its \in Items(Its) :
    /\ ready \/ \A i \in DOMAIN its : its[i].state = "skipped"
    /\ Tell("signals", [ready |-> ready, its |-> its], Signals(ready, its))

ServiceVerdictsNext ==
  /\ told = NothingTold
  /\ AskShard \/ AskNamespace \/ AskCardinality \/ AskRules
     \/ AskRole \/ AskExternalAuth \/ AskSignals

ServiceVerdictsSpec == ServiceVerdictsInit /\ [][ServiceVerdictsNext]_told

-----------------------------------------------------------------------------
(* Properties                                                              *)

\* What the service clusters of a status offer: shards, dedicated ones, and ones whose
\* topology cannot be read; and whether findShardForSector gives one.
Offered(items) == {i \in DOMAIN items : items[i].id # ""}
Dedicated(items) == {i \in Offered(items) : items[i].topology = "dedicated"}
Unreadable(items) == {i \in Offered(items) : items[i].topology = "error"}
Gives(items) == 1 \in Offered(items) \/ Dedicated(items) \cup Unreadable(items) # {}

\* A shard that is not dedicated is used only when no dedicated one is listed with
\* its status before the first shard that cannot be read; one under maintenance only
\* when the ready ones give none; and none is found only when every status either
\* has no shard at all, or starts with an item that has none and offers no dedicated one.
ShardChoice ==
  told.what = "shard" =>
    LET items == told.in[IF Gives(told.in[1]) THEN 1 ELSE 2]
    IN  /\ told.out # "" <=> Gives(told.in[1]) \/ Gives(told.in[2])
        /\ told.out # "" => \E i \in Offered(items) :
             /\ items[i].id = told.out
             /\ \/ i \in Dedicated(items)
                \/ i \in Unreadable(items) /\ \A j \in Dedicated(items) : i < j
                \/ Dedicated(items) \cup Unreadable(items) = {}

\* The hosted cluster that is taken is ours unless another one bears our cluster's
\* name and is listed before ours, or our ID cannot be used; it is not missed when
\* it is listed under an ID that can be used.
RightHostedCluster ==
  told.what = "namespace" =>
    LET list == told.in.list  k == told.in.known  i == told.out
    IN  IF i = 0 THEN \A j \in DOMAIN list : list[j].ours => ~k.id
        ELSE list[i].ours \/
             (k.name /\ list[i].named /\ \A j \in 1..i : list[j].ours => ~k.id)

\* "TSDB head series and remote-write sample rate have not increased by more than
\* maxDeltaPct ... no single metric exceeds maxSeriesPerMetric": the gate passes
\* exactly when all five queries were answered, neither of the two grew beyond the
\* limit (one that was 0 may grow as it likes), and every metric above its limit is
\* hidden by a later series of its name: series without a name hide each other.
CardinalityGate ==
  told.what = "cardinality" =>
    LET q == told.in
        grew(sum) == sum.baseline > 0 /\ sum.current * 100 > (100 + MaxDeltaPct) * sum.baseline
        hidden(i) == \E j \in DOMAIN q.list : /\ j > i /\ q.list[j].name = q.list[i].name
                                              /\ q.list[j].count # NoValue
    IN  told.out <=>
          /\ q.answered
          /\ \A sum \in {q.head, q.rw} :
               sum.current \in Nat /\ sum.baseline \in Nat /\ ~grew(sum)
          /\ \A i \in DOMAIN q.list : q.list[i].count > MaxSeriesPerMetric => hidden(i)

\* "helps distinguish": missing probe data is blamed only when the query for it
\* was answered and empty, a rule only when data was there or nobody knows.
DiagnosisNeedsEvidence ==
  told.what = "rules" =>
    /\ told.out = "notIngested" => told.in.probe = "empty"
    /\ told.out = "ruleBroken" => told.in.probe # "empty"
    /\ told.out = "ok" <=> told.in.rules = {"data"}

\* A linked role for our account implies one for the organisation.  The account
\* counts as linked exactly when the label has a role of it; the comment says that a
\* user role "must not satisfy the linkage check", and only then it may be one.
RoleLinkage ==
  told.what = "role" =>
    LET has(arn, account) == \E i \in DOMAIN told.in :
                               told.in[i].arn = arn /\ told.in[i].account = account
    IN  /\ has("ocmRole", "ours") => told.out.ours
        /\ told.out.ours => told.out.linked /\ (has("ocmRole", "ours") \/ has("userRole", "ours"))
        /\ told.out.linked /\ ~told.out.ours => has("ocmRole", "other") \/ has("userRole", "other")

\* "Validating the external auth provider configuration", then "Probing the
\* configured OIDC issuer": when the spec passes, every provider that was there for
\* both listings is well-formed and its issuer answers; one that came or went in
\* between had one of the two checks.  It passes whenever nothing changes and all is well.
ProvidersChecked ==
  told.what = "auth" =>
    LET q == told.in
    IN  /\ told.out = "passed" =>
             /\ \A p \in q.listed : p.issuer = "https" /\ ~p.failed
             /\ \A p \in q.later : p.answers
             /\ q.listed # {} /\ q.later # {}
        /\ q.enabled /\ q.still /\ q.listed = q.later =>
             (told.out = "passed" <=> q.listed # {} /\ \A p \in q.listed : Valid(p) /\ p.answers)

\* A signal is green exactly when no spec of its area failed, also when all of them
\* were skipped; a failed BeforeSuite leaves none green, and nothing is said of
\* upgrades unless a spec about them ran.
SignalsFollowSpecs ==
  told.what = "signals" =>
    LET q == told.in
        in(area, states) == \E i \in DOMAIN q.its :
                              area \in q.its[i].areas /\ q.its[i].state \in states
    IN  /\ told.out.install <=> q.ready
        /\ ~q.ready => \A s \in DOMAIN told.out : ~told.out[s]
        /\ q.ready => \A s \in DOMAIN told.out \ {"install"} : told.out[s] <=> ~in(s, {"failed"})
        /\ "upgrade" \in DOMAIN told.out <=> in("upgrade", {"passed", "failed"})

\* What is made of the answers of OCM, of the management cluster, of RHOBS and of
\* the suite is what the callers rely on.
ServiceVerdictsSound ==
  /\ ShardChoice /\ RightHostedCluster /\ CardinalityGate /\ DiagnosisNeedsEvidence
  /\ RoleLinkage /\ ProvidersChecked /\ SignalsFollowSpecs
=============================================================================
