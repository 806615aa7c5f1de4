------------------------------ MODULE Upgrade ------------------------------
(***************************************************************************)
(* The upgrade specs (test/e2e/upgrade_test.go) on the OCM helpers of      *)
(* pkg/framework/upgrade.go, and the upgrade signal that the suite reports *)
(* to Sippy.  Every spec is a top-level container of its own, which Ginkgo *)
(* runs in an order it draws anew for every job.  The cluster outlives the *)
(* job: a later job meets the versions and the policies an earlier left.   *)
(*                                                                         *)
(* A version is the target version or not.  The two post-upgrade specs     *)
(* differ in what they look at, not in when: "post" stands for each.       *)
(***************************************************************************)
EXTENDS Naturals

CONSTANTS
  Selections,  \* the sets of specs the label filters of the jobs select
  MaxJobs,     \* bound: jobs on one cluster
  MaxPolicies, \* bound: policies OCM holds for one unit
  None

Specs == {"cp", "np", "classic", "gcp", "post"}
Topologies == {"hcp", "classic", "osd-gcp"}
Units == {"cluster", "pool"}

ASSUME UpgradeAssumption ==
  /\ Selections \subseteq SUBSET Specs
  /\ MaxJobs \in Nat \ {0} /\ MaxPolicies \in Nat
  /\ None \notin Specs

\* What the Add of an upgrade spec is for.
Unit(s) == IF s = "np" THEN "pool" ELSE "cluster"

\* if !tc.IsClassic() { Skip }, if !tc.IsOSDGCP() { Skip }; the others ask nothing.
Requires(s) ==
  CASE s = "classic" -> {"classic"} [] s = "gcp" -> {"osd-gcp"} [] OTHER -> Topologies

\* OCM has the endpoint of the Add for these: ControlPlane() and NodePools() are
\* those of a hosted cluster, UpgradePolicies() that of the others.
HasEndpoint(s, t) == s \in {"cp", "np"} <=> t = "hcp"

VARIABLES
  env,      \* topo: what the cluster is; configured: CLUSTER_ID and
            \* UPGRADE_TARGET_VERSION are set; override: CLUSTER_TOPOLOGY is
  selected, \* the specs of this job
  job,      \* number of the job
  pc, cur,  \* where the job is, and the spec that runs
  result,   \* how the specs of this job ended
  signal,   \* "upgrade should work" in junit-rosa-e2e-sippy.xml
  seen,     \* what the last poll returned
  expired,  \* the timeout of the wait is over
  atTarget, \* OCM: the units whose version is the target version
  pending,  \* OCM: number of policies that wait for their nextRun, per unit
  running,  \* OCM: units that are upgraded right now
  unsure,   \* history: specs of this job skipped because a lookup failed
  cut,      \* history: specs of this job skipped because the suite was interrupted
  early,    \* history: a post-upgrade spec of this job passed before the upgrade
  abandoned \* history: units nobody can be sure to have waited for

ocm == <<atTarget, pending, running>>
hist == <<unsure, cut, early, abandoned>>
vars == <<env, selected, job, pc, cur, result, signal, seen, expired, ocm, hist>>

TypeOK ==
  /\ env \in [topo : Topologies, configured : BOOLEAN, override : BOOLEAN]
  /\ selected \in Selections /\ job \in 1..MaxJobs
  /\ pc \in {"suite", "begin", "list", "schedule", "wait", "polled", "verify", "done"}
  /\ cur \in Specs \cup {None} /\ (cur = None <=> pc \in {"suite", "done"})
  /\ result \in [Specs -> {"unrun", "skipped", "passed", "failed"}]
  /\ signal \in {"unwritten", "absent", "passed", "failed"}
  /\ seen \in {"nothing", "apiError", "old", "target"} /\ expired \in BOOLEAN
  /\ atTarget \subseteq Units /\ running \subseteq Units
  /\ pending \in [Units -> 0..MaxPolicies]
  /\ unsure \subseteq Specs /\ cut \subseteq Specs
  /\ early \in BOOLEAN /\ abandoned \subseteq Units

Unrun == [s \in Specs |-> "unrun"]

Init ==
  /\ env \in [topo : Topologies, configured : BOOLEAN, override : BOOLEAN]
  /\ selected \in Selections /\ job = 1 /\ pc = "suite" /\ cur = None
  /\ result = Unrun /\ signal = "unwritten" /\ seen = "nothing" /\ expired = FALSE
  /\ atTarget = {} /\ pending = [u \in Units |-> 0] /\ running = {}
  /\ unsure = {} /\ cut = {} /\ early = FALSE /\ abandoned = {}

Goto(from, to) ==
  /\ pc = from /\ pc' = to
  /\ UNCHANGED <<env, selected, job, cur, result, signal>>

\* Mutant: what the spec left behind is not reset.
EndDirty(from, r) ==
  /\ pc = from /\ pc' = "suite"
  /\ result' = [result EXCEPT ![cur] = r]
  /\ UNCHANGED <<env, selected, job, signal, cur, seen, expired>>

\* The spec that runs ends.
End(from, r) ==
  /\ pc = from /\ pc' = "suite" /\ cur' = None
  /\ result' = [result EXCEPT ![cur] = r] /\ seen' = "nothing" /\ expired' = FALSE
  /\ UNCHANGED <<env, selected, job, signal>>

Abandon(us) == abandoned' = abandoned \cup us

-----------------------------------------------------------------------------
(* The specs.                                                              *)

\* Ginkgo takes any container that has not run.
Take(s) ==
  /\ pc = "suite" /\ s \in selected /\ result[s] = "unrun"
  /\ pc' = "begin" /\ cur' = s
  /\ UNCHANGED <<env, selected, job, result, signal, seen, expired, ocm, hist>>

Begin ==
  /\ env.configured /\ env.topo \in Requires(cur)
  /\ Goto("begin", CASE cur = "post" -> "verify" [] cur = "np" -> "list"
                     [] OTHER -> "schedule")
  /\ UNCHANGED <<seen, expired, ocm, hist>>

SkipSpec ==
  /\ ~env.configured \/ env.topo \notin Requires(cur)
  /\ End("begin", "skipped") /\ UNCHANGED <<ocm, hist>>

\* Topology: DetectClusterTopology fails and the topology is "", which is none.
SkipUnsure ==
  /\ env.configured /\ ~env.override /\ Requires(cur) # Topologies
  /\ End("begin", "skipped") /\ unsure' = unsure \cup {cur}
  /\ UNCHANGED <<ocm, cut, early, abandoned>>

List == Goto("list", "schedule") /\ UNCHANGED <<seen, expired, ocm, hist>>

\* The node pools cannot be listed, there is none, or OCM refuses the policy.
RequestFails ==
  /\ \E p \in {"list", "schedule"} : End(p, "failed")
  /\ UNCHANGED <<ocm, hist>>

\* Mutant: a request is sent once more to be on the safe side.
AcceptedTwice ==
  /\ HasEndpoint(cur, env.topo) /\ pending[Unit(cur)] + 1 < MaxPolicies
  /\ pending' = [pending EXCEPT ![Unit(cur)] = @ + 2]
  /\ UNCHANGED <<atTarget, running>>

Accepted ==
  /\ HasEndpoint(cur, env.topo) /\ pending[Unit(cur)] < MaxPolicies
  /\ pending' = [pending EXCEPT ![Unit(cur)] = @ + 1]
  /\ UNCHANGED <<atTarget, running>>

\* A unit that is upgraded already, or will be by an older policy, need not wait
\* for the policy that is added now.
Redundant(u) == u \in atTarget \cup running \/ pending[u] > 0

\* InitiateControlPlaneUpgrade, InitiateClusterUpgrade, InitiateNodePoolUpgrade
Schedule ==
  /\ Goto("schedule", "wait") /\ Accepted
  /\ Abandon({u \in {Unit(cur)} : Redundant(u)})
  /\ UNCHANGED <<seen, expired, unsure, cut, early>>

\* OCM takes the policy and the response does not arrive: the spec fails.
ScheduleLost ==
  /\ End("schedule", "failed") /\ Accepted
  /\ Abandon({Unit(cur)})
  /\ UNCHANGED <<unsure, cut, early>>

\* The ticker of WaitForUpgradeComplete, or a poll of Eventually.
Tick ==
  /\ Goto("wait", "polled")
  /\ seen' \in {"apiError", IF Unit(cur) \in atTarget THEN "target" ELSE "old"}
  /\ UNCHANGED <<expired, ocm, hist>>

\* if currentVersion == targetVersion { return nil }
PolledTarget ==
  /\ seen = "target" /\ Goto("polled", "verify")
  /\ UNCHANGED <<seen, expired, ocm, hist>>

PolledOther ==
  /\ seen \in {"old", "apiError"} /\ Goto("polled", "wait")
  /\ UNCHANGED <<seen, expired, ocm, hist>>

\* Mutant: the deadline is looked at only when the last poll got an answer.
WaitTimeoutAnswered ==
  /\ expired /\ seen # "apiError" /\ End("wait", "failed")
  /\ Abandon({Unit(cur)}) /\ UNCHANGED <<ocm, unsure, cut, early>>

\* Mutant: the wait returns nil when the time is up.
WaitTimeoutIgnored ==
  /\ expired /\ Goto("wait", "verify")
  /\ Abandon({Unit(cur)}) /\ UNCHANGED <<seen, expired, ocm, unsure, cut, early>>

\* The policy stays with OCM: nothing removes it.
WaitTimeout ==
  /\ expired /\ End("wait", "failed")
  /\ Abandon({Unit(cur)}) /\ UNCHANGED <<ocm, unsure, cut, early>>

\* VerifyClusterReady, the nodes are ready; the checks of the post-upgrade specs.
VerifyPasses ==
  /\ End("verify", "passed")
  /\ early' = (early \/ (cur = "post" /\ "cluster" \notin atTarget))
  /\ UNCHANGED <<ocm, unsure, cut, abandoned>>

VerifyFails == End("verify", "failed") /\ UNCHANGED <<ocm, hist>>

SpecStep ==
  \/ \E s \in Specs : Take(s)
  \/ Begin \/ SkipSpec \/ SkipUnsure \/ List \/ RequestFails
  \/ Schedule \/ ScheduleLost \/ Tick \/ PolledTarget \/ PolledOther
  \/ VerifyPasses \/ VerifyFails

-----------------------------------------------------------------------------
(* The job.                                                                *)

Ran == {s \in selected : result[s] \notin {"unrun", "skipped"}}

\* Mutant: one spec that passed is enough.
AnyPassed ==
  IF Ran = {} THEN "absent"
  ELSE IF \A s \in Ran : result[s] = "failed" THEN "failed" ELSE "passed"

\* analyzeSuiteReport and WriteSippyJUnit, as far as "upgrade should work" goes.
UpgradeSignal ==
  IF Ran = {} THEN "absent"
  ELSE IF \E s \in Ran : result[s] = "failed" THEN "failed" ELSE "passed"

Report ==
  /\ pc = "suite" /\ \A s \in selected : result[s] # "unrun"
  /\ pc' = "done" /\ signal' = UpgradeSignal
  /\ UNCHANGED <<env, selected, job, cur, result, seen, expired, ocm, hist>>

\* The suite's timeout, an hour unless --timeout says otherwise, or a first
\* SIGINT: Ginkgo fails the spec that runs, skips every spec that has not run and
\* goes on to the reports.  A request that is under way may still reach OCM.
Interrupt ==
  /\ pc # "done" /\ pc' = "suite" /\ cur' = None /\ seen' = "nothing" /\ expired' = FALSE
  /\ LET rest == {s \in selected : result[s] = "unrun"} \ {cur} IN
       /\ result' = [s \in Specs |-> IF s = cur THEN "failed"
                                      ELSE IF s \in rest THEN "skipped" ELSE result[s]]
       /\ cut' = cut \cup rest
  /\ \/ Abandon(IF pc \in {"wait", "polled"} THEN {Unit(cur)} ELSE {}) /\ UNCHANGED ocm
     \/ pc = "schedule" /\ Accepted /\ Abandon({Unit(cur)})
  /\ UNCHANGED <<env, selected, job, signal, unsure, early>>

\* The process is killed: no signals are written.
Kill ==
  /\ pc # "done" /\ pc' = "done" /\ cur' = None /\ seen' = "nothing" /\ expired' = FALSE
  /\ Abandon({Unit(s) : s \in {cur} \ {None, "post"}})
  /\ UNCHANGED <<env, selected, job, result, signal, ocm, unsure, cut, early>>

\* The next job on the same cluster.
Start ==
  /\ pc = "done" /\ job < MaxJobs /\ job' = job + 1 /\ pc' = "suite"
  /\ selected' \in Selections /\ result' = Unrun /\ signal' = "unwritten"
  /\ unsure' = {} /\ cut' = {} /\ early' = FALSE
  /\ UNCHANGED <<env, cur, seen, expired, ocm, abandoned>>

-----------------------------------------------------------------------------
(* OCM and the clock.                                                      *)

Deadline ==
  /\ pc \in {"wait", "polled"} /\ ~expired /\ expired' = TRUE
  /\ UNCHANGED <<env, selected, job, pc, cur, result, signal, seen, ocm, hist>>

\* nextRun of a policy comes.
UpgradeStarts(u) ==
  /\ pending[u] > 0 /\ u \notin running
  /\ pending' = [pending EXCEPT ![u] = @ - 1] /\ running' = running \cup {u}
  /\ UNCHANGED <<env, selected, job, pc, cur, result, signal, seen, expired, atTarget, hist>>

\* The upgrade succeeds, or OCM gives it up.
UpgradeEnds(u) ==
  /\ u \in running /\ running' = running \ {u}
  /\ atTarget' \in {atTarget, atTarget \cup {u}}
  /\ UNCHANGED <<env, selected, job, pc, cur, result, signal, seen, expired, pending, hist>>

Next ==
  \/ SpecStep \/ WaitTimeout \/ Interrupt \/ Report \/ Kill \/ Start
  \/ Deadline \/ \E u \in Units : UpgradeStarts(u) \/ UpgradeEnds(u)

Spec == Init /\ [][Next]_vars

\* The test process runs and time passes; select chooses among ready cases at
\* random, so a case that is ready again and again is chosen at last.  OCM is
\* not obliged to carry out a policy.
FairSpec ==
  /\ Spec
  /\ WF_vars(SpecStep) /\ WF_vars(Report) /\ WF_vars(Deadline) /\ SF_vars(WaitTimeout)

-----------------------------------------------------------------------------
(* Properties                                                              *)

\* A job that runs the specs of the cluster's own topology.
Upgrading == {s \in selected \ {"post"} : env.topo \in Requires(s) /\ HasEndpoint(s, env.topo)}

\* A spec passes only when the unit it is about has the target version, however
\* often polls fail and however the wait ends.
PassedMeansUpgraded ==
  \A s \in Specs \ {"post"} : result[s] = "passed" => Unit(s) \in atTarget

\* No upgrade runs or is about to run that no spec waits for, unless a response
\* was lost, a wait was cut short or the policy was redundant when it was added
\* (upgrade.go compares the version and never looks at the policy).
NoUpgradeBehindTheSpecs ==
  \A u \in Units :
    u \in running \/ pending[u] > 0 =>
      \/ u \in abandoned
      \/ pc \in {"wait", "polled"} /\ Unit(cur) = u

\* With the signal "passed" the unit of every upgrade spec that was selected and fits
\* the topology has the target version, unless that spec was skipped, after a failed
\* lookup or by an interrupt of the suite: the post-upgrade checks alone, which may
\* run first, make the signal "passed".
SignalMeansUpgrade ==
  signal = "passed" => \A s \in Upgrading : Unit(s) \in atTarget \/ s \in unsure \cup cut

\* The titles of the post-upgrade specs: they look at an upgraded cluster when the
\* job upgrades it ("after upgrade", upgrade_test.go:122).
PostChecksAfterUpgrade ==
  early =>
    \A s \in Upgrading : Unit(s) = "cluster" => result[s] \in {"failed", "skipped"}

\* A job ends although polls may fail for ever and OCM may never carry out a policy.
JobEnds == pc = "suite" ~> pc = "done"
=============================================================================
