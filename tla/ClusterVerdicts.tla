--------------------------- MODULE ClusterVerdicts ---------------------------
(***************************************************************************)
(* What the verifiers of pkg/verifiers say about the objects of a cluster: *)
(* each is an operator from what the API answered to the verdict, TRUE for *)
(* a nil error.  A behavior puts one question to one verifier.             *)
(*                                                                         *)
(* Conditions are a sequence as in status.conditions, or Missing.  A       *)
(* condition that is not a map is Junk.                                    *)
(***************************************************************************)
EXTENDS Naturals, SequencesExt

CONSTANTS
  MaxConditions, \* bound: conditions of an object
  MaxObjects     \* bound: objects of a list

ASSUME ClusterVerdictsAssumption == MaxConditions \in Nat /\ MaxObjects \in Nat

VARIABLE said \* the question, what the API answered, and the verdict

Junk == [type |-> "junk", status |-> "junk"]
Missing == <<[type |-> "missing", status |-> "missing"]>>
Statuses == {"True", "False", "Unknown"}

Conditions(types) ==
  {Missing} \cup BoundedSeq([type : types, status : Statuses] \cup {Junk}, MaxConditions)

Lists(S) == BoundedSeq(S, MaxObjects)

\* A condition of this type and status is listed.
Has(cs, type, status) == \E i \in DOMAIN cs : cs[i].type = type /\ cs[i].status = status
All(cs, type, status) == \A i \in DOMAIN cs : cs[i].type = type => cs[i].status = status
Mentions(cs, type) == \E i \in DOMAIN cs : cs[i].type = type
HasJunk(cs) == \E i \in DOMAIN cs : cs[i] = Junk

\* A verifier that lists objects fails when there is none, and when one fails.
EachOf(list, Healthy(_)) == list # <<>> /\ \A i \in DOMAIN list : Healthy(list[i])

-----------------------------------------------------------------------------
(* Available and Degraded.                                                 *)

\* Mutant: a condition that is not there counts as False.
LenientOperator(cs) ==
  cs # Missing /\ ~HasJunk(cs) /\ Has(cs, "Available", "True") /\ ~Has(cs, "Degraded", "True")

\* The loop of VerifyClusterOperatorsHealthy, on getConditions.
ClusterOperatorHealthy(cs) ==
  cs # Missing /\ ~HasJunk(cs) /\ Has(cs, "Available", "True") /\ Has(cs, "Degraded", "False")

\* Mutant: break instead of continue at an operator that is excluded.
OperatorsUpToExcluded(list, excluded) ==
  /\ list # <<>>
  /\ \A i \in DOMAIN list : (\A j \in 1..i : j \notin excluded) => ClusterOperatorHealthy(list[i])

\* VerifyClusterOperatorsHealthy: the operators of EXCLUDE_CLUSTER_OPERATORS, which one
\* of its three callers passes on, are skipped; names are unique in a list.
ClusterOperatorsHealthy(list, excluded) ==
  list # <<>> /\ \A i \in DOMAIN list \ excluded : ClusterOperatorHealthy(list[i])

\* verifyConditions, of VerifyHostedClusterHealthy
HostedClusterHealthy(cs) ==
  /\ cs # Missing
  /\ Mentions(cs, "Available") /\ All(cs, "Available", "True")
  /\ Mentions(cs, "Degraded") /\ All(cs, "Degraded", "False")

\* VerifyNodePoolHealthy
NodePoolHealthy(cs) ==
  cs # Missing /\ ~HasJunk(cs) /\ Has(cs, "Ready", "True") /\ Has(cs, "AllNodesHealthy", "True")

\* verifyDeploymentInNamespace, VerifyAuditWebhook, VerifyDeploymentAvailable and
\* verifyAllNodesReady look for one condition that is True.
OneTrue(cs, type) == cs # Missing /\ Has(cs, type, "True")

\* Mutant: a deployment without ready replicas is left out, whatever was wanted.
NamespaceHealthyIfReady(list) ==
  list # <<>> /\ \A i \in DOMAIN list : list[i].ready > 0 => list[i].available

\* VerifyHCPNamespaceHealthy: a deployment scaled to 0 is skipped.
HCPNamespaceHealthy(list) ==
  EachOf(list, LAMBDA d : d.replicas = 0 \/ d.available)

\* VerifyACMHub, VerifyMCE: one object in the phase is enough; one without a phase,
\* or with one that is not a string, is passed over.
OneInPhase(list, phase) == \E i \in DOMAIN list : list[i] = phase

-----------------------------------------------------------------------------
(* VerifyAVOVpcEndpoints                                                   *)

Relevant(c) == c.type \in {"AWSVpcEndpointReady", "Available"}

\* Mutant: any relevant condition that is true settles it.
EndpointAnyTrue(cs) ==
  cs # Missing /\ \E i \in DOMAIN cs : Relevant(cs[i]) /\ cs[i].status = "True"

\* The loop stops at the first relevant condition that is true; the ones before
\* it were held against the endpoint.
EndpointAvailable(cs) ==
  /\ cs # Missing
  /\ LET i == SelectInSeq(cs, Relevant) IN i # 0 /\ cs[i].status = "True"

-----------------------------------------------------------------------------
(* FIPS                                                                    *)

\* A Get of a package or a deployment: what there is, and whether it is answered.
Answers == [is : {"absent", "bare", "available", "unavailable"}, answered : BOOLEAN]

\* Mutant: an object without conditions is no error.
LaxErr(a) == ~a.answered \/ a.is = "unavailable"

\* verifyOperatorDeploymentHealthy, VerifyClusterPackageHealthy: (found, err)
Found(a) == a.answered /\ a.is # "absent"
Err(a) == ~a.answered \/ a.is \in {"bare", "unavailable"}

\* VerifyFIPSClusterPackagesHealthy: if !found { continue }
PackagesHealthy(list) == \A i \in DOMAIN list : ~Found(list[i]) \/ ~Err(list[i])

\* VerifyFIPSOperatorsHealthy: every err counts.
OperatorsHealthy(list) == \A i \in DOMAIN list : ~Err(list[i])

\* A pool: its rendered config, the one each machine runs (0: one that is listed no
\* more), whether its status is there yet, and whether all its machines are ready
\* and it is not degraded.
Configs == 1..2
Pools == [target : Configs, runs : BoundedSeq({0} \cup Configs, 2),
          reports : BOOLEAN, sound : BOOLEAN]

\* Mutant: one machine that is updated is enough.
PoolUpdating(p) ==
  p.reports /\ p.runs # <<>> =>
    p.sound /\ \E i \in DOMAIN p.runs : p.runs[i] = p.target

\* verifyMachineConfigPoolsUpdated: machineCount 0, or absent, is skipped; the
\* condition Updated is not read.
PoolUpdated(p) ==
  p.reports /\ p.runs # <<>> =>
    p.sound /\ \A i \in DOMAIN p.runs : p.runs[i] = p.target

\* VerifyNodeFIPSEnabled: all rendered configs, then all pools.
NodeFIPSEnabled(rendered, pools) ==
  EachOf(rendered, LAMBDA fips : fips) /\ EachOf(pools, PoolUpdated)

-----------------------------------------------------------------------------
(* One question.                                                           *)

NothingSaid == [what |-> "nothing"]

Say(what, in, out) ==
  said' = [what |-> what, in |-> in, out |-> out]

ClusterVerdictsInit == said = NothingSaid

\* What every condition verifier says of the same objects.
AskConditions ==
  \E list \in Lists(Conditions({"Available", "Degraded", "Ready", "AllNodesHealthy"})) :
    \E excluded \in SUBSET DOMAIN list :
      Say("conditions", [list |-> list, excluded |-> excluded],
          [operators   |-> ClusterOperatorsHealthy(list, excluded),
           hosted      |-> EachOf(list, HostedClusterHealthy),
           pools       |-> EachOf(list, NodePoolHealthy),
           nodes       |-> EachOf(list, LAMBDA cs : OneTrue(cs, "Ready")),
           deployments |-> EachOf(list, LAMBDA cs : OneTrue(cs, "Available"))])

AskEndpoints ==
  \E list \in Lists(Conditions({"AWSVpcEndpointReady", "Available"})) :
    Say("endpoints", list, EachOf(list, EndpointAvailable))

AskPackages ==
  \E list \in Lists(Answers) :
    Say("packages", list, [packages |-> PackagesHealthy(list), operators |-> OperatorsHealthy(list)])

AskNodeFIPS ==
  \E rendered \in [Configs -> BOOLEAN], pools \in Lists(Pools) :
    Say("fips", [rendered |-> rendered, pools |-> pools], NodeFIPSEnabled(rendered, pools))

AskNamespaceHealth ==
  \E list \in Lists([replicas : 0..1, ready : 0..1, available : BOOLEAN]) :
    Say("namespace", list, HCPNamespaceHealthy(list))

AskHubs ==
  \E hubs, engines \in Lists({"Running", "Available", "other", "absent"}) :
    Say("hubs", [hubs |-> hubs, engines |-> engines],
        [hub |-> OneInPhase(hubs, "Running"), engine |-> OneInPhase(engines, "Available")])

ClusterVerdictsNext ==
  /\ said = NothingSaid
  /\ AskNamespaceHealth \/ AskHubs \/ AskConditions \/ AskEndpoints \/ AskPackages \/ AskNodeFIPS

ClusterVerdictsSpec == ClusterVerdictsInit /\ [][ClusterVerdictsNext]_said

-----------------------------------------------------------------------------
(* Properties                                                              *)

\* What the comments of the verifiers promise of every object.
Promise ==
  [operators   |-> {<<"Available", "True">>, <<"Degraded", "False">>},
   hosted      |-> {<<"Available", "True">>, <<"Degraded", "False">>},
   pools       |-> {<<"Ready", "True">>, <<"AllNodesHealthy", "True">>},
   nodes       |-> {<<"Ready", "True">>},
   deployments |-> {<<"Available", "True">>}]

WellFormed(cs) ==
  /\ cs # Missing /\ ~HasJunk(cs)
  /\ \A i, j \in DOMAIN cs : cs[i].type = cs[j].type => i = j

\* A verifier passes only when there are objects and each has the conditions its
\* comment names, whatever else is listed; and when no type is listed twice it
\* passes exactly then, so that the two loops that stand for "Available=True and
\* Degraded=False" agree, Unknown and absent conditions included.  Nothing is asked
\* of a ClusterOperator that is excluded, and nothing but that one is let off: a
\* list of excluded operators alone passes, an empty one does not.
HealthAsPromised ==
  said.what = "conditions" =>
    \A v \in DOMAIN Promise :
      LET list == said.in.list
          asked == DOMAIN list \ (IF v = "operators" THEN said.in.excluded ELSE {})
          kept == /\ list # <<>>
                  /\ \A i \in asked : /\ list[i] # Missing
                                       /\ \A p \in Promise[v] : Has(list[i], p[1], p[2])
      IN  /\ said.out[v] => kept
          /\ (\A i \in asked : WellFormed(list[i])) => (said.out[v] <=> kept)

\* An endpoint with "an available condition with status True" is refused exactly
\* when a condition of the other accepted type is not true and is listed before it;
\* no endpoint is accepted without one: the verdict depends on the order.
EndpointVerdict ==
  said.what = "endpoints" =>
    LET true(cs, i) == Relevant(cs[i]) /\ cs[i].status = "True"
        some(cs) == \E i \in DOMAIN cs : true(cs, i)
        late(cs) == \E i \in DOMAIN cs :
                      Relevant(cs[i]) /\ ~true(cs, i) /\ \A j \in 1..i : ~true(cs, j)
    IN  said.out <=> EachOf(said.in, LAMBDA cs : some(cs) /\ ~late(cs))

\* "Packages that exist but are unhealthy cause an error", unless the request for
\* them failed: that error is dropped with the packages that are not found, while
\* the check of the operators reports it.
UnhealthyPackagesReported ==
  said.what = "packages" =>
    LET sick == {i \in DOMAIN said.in : said.in[i].is \in {"bare", "unavailable"}}
    IN  /\ said.out.packages <=> \A i \in sick : ~said.in[i].answered
        /\ said.out.operators <=> sick = {} /\ \A i \in DOMAIN said.in : said.in[i].answered

\* "an Updated pool with a FIPS-enabled rendered config guarantees kernel-level
\* fips_enabled=1": every machine runs a FIPS config, although Updated is not read,
\* unless its pool does not report its machines.
NodesRunFIPS ==
  said.what = "fips" /\ said.out =>
    \A i \in DOMAIN said.in.pools : LET p == said.in.pools[i] IN
      p.reports => \A m \in DOMAIN p.runs : p.runs[m] # 0 /\ said.in.rendered[p.runs[m]]

\* "all deployments in the HCP namespace ... are healthy (Available=True and expected
\* replicas > 0)": an unavailable deployment passes exactly when it is scaled to 0, so
\* a namespace in which everything is scaled to 0 passes; an empty one does not.
NamespaceVerdict ==
  said.what = "namespace" =>
    LET down == {i \in DOMAIN said.in : ~said.in[i].available}
    IN  said.out <=> said.in # <<>> /\ \A i \in down : said.in[i].replicas = 0

\* A hub that runs is found behind any number of broken ones, and an engine that
\* is available never passes for a hub.
HubVerdict ==
  said.what = "hubs" =>
    /\ said.out.hub <=> "Running" \in Range(said.in.hubs)
    /\ said.out.engine <=> "Available" \in Range(said.in.engines)

\* The verdicts on the objects of a cluster are what the comments of the verifiers
\* promise, or differ from it exactly as the parts say.
ClusterVerdictsSound ==
  /\ HealthAsPromised /\ EndpointVerdict /\ UnhealthyPackagesReported /\ NodesRunFIPS
  /\ NamespaceVerdict /\ HubVerdict
=============================================================================
