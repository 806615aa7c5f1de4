-------------------------- MODULE ClusterLifecycle --------------------------
(***************************************************************************)
(* The full lifecycle specs (test/e2e/cluster_lifecycle_test.go) on the    *)
(* OCM helpers of pkg/framework/ocm.go: create a cluster, wait until it is *)
(* ready, verify it, delete it, and delete it once more in DeferCleanup.   *)
(* The HCP and the Classic spec differ in what they ask OCM for, not in    *)
(* what they do.  OCM works on the cluster on its own meanwhile.           *)
(***************************************************************************)
CONSTANTS
  Clusters,  \* identifiers OCM will give out, one per execution of the spec
  None

ASSUME LifecycleAssumption == None \notin Clusters

VARIABLES
  ocm,       \* OCM: the state of every cluster
  pc,        \* where the spec is
  id,        \* clusterID, registered with DeferCleanup, or None
  seen,      \* what the last poll of WaitForClusterReady returned
  expired,   \* the timeout of WaitForClusterReady is over
  verdict,   \* how the spec ended
  unacked,   \* history: created, but the response to Add was lost
  undeleted, \* history: the cleanup's delete failed
  killed     \* history: the test process died before the cleanup

hist == <<unacked, undeleted, killed>>
vars == <<ocm, pc, id, seen, expired, verdict, hist>>

Live == {"installing", "ready", "error"}
States == Live \cup {"none", "uninstalling", "gone"}

TypeOK ==
  /\ ocm \in [Clusters -> States]
  /\ pc \in {"idle", "create", "select", "polled", "verifyReady", "verify",
             "delete", "verifyDeleting", "cleanup", "done"}
  /\ id \in Clusters \cup {None}
  /\ pc \notin {"idle", "create", "done"} => id \in Clusters /\ ocm[id] # "none"
  /\ seen \in Live \cup {"none", "uninstalling", "apiError"}
  /\ expired \in BOOLEAN
  /\ verdict \in {"none", "passed", "failed"}
  /\ unacked \subseteq Clusters
  /\ undeleted \subseteq Clusters
  /\ killed \subseteq Clusters

Init ==
  /\ ocm = [c \in Clusters |-> "none"]
  /\ pc = "idle" /\ id = None /\ seen = "none" /\ expired = FALSE
  /\ verdict = "none"
  /\ unacked = {} /\ undeleted = {} /\ killed = {}

Goto(from, to) == pc = from /\ pc' = to

\* Expect fails; what was registered with DeferCleanup runs.
Fail(from) ==
  /\ pc = from
  /\ pc' = IF id = None THEN "done" ELSE "cleanup"
  /\ verdict' = "failed"
  /\ UNCHANGED <<ocm, id, seen, expired, hist>>

-----------------------------------------------------------------------------
(* The spec.                                                               *)

\* The spec is executed, for the first time or in a later job.
Start ==
  /\ pc \in {"idle", "done"} /\ \E c \in Clusters : ocm[c] = "none"
  /\ pc' = "create" /\ id' = None /\ seen' = "none" /\ expired' = FALSE
  /\ verdict' = "none"
  /\ UNCHANGED <<ocm, hist>>

\* CreateRosaHCPCluster, CreateRosaClassicCluster: the version and the shard are
\* resolved, then Add is sent.
Create(c) ==
  /\ ocm[c] = "none" /\ ocm' = [ocm EXCEPT ![c] = "installing"]
  /\ Goto("create", "select") /\ id' = c
  /\ UNCHANGED <<seen, expired, verdict, hist>>

\* Nothing was created: a lookup failed or OCM rejected the request.
CreateFail == Fail("create")

\* OCM created the cluster and the response did not arrive.
CreateLost(c) ==
  /\ ocm[c] = "none" /\ ocm' = [ocm EXCEPT ![c] = "installing"]
  /\ Goto("create", "done") /\ verdict' = "failed"
  /\ unacked' = unacked \cup {c}
  /\ UNCHANGED <<id, seen, expired, undeleted, killed>>

\* select: the ticker fired; Get is answered, or fails.
Tick ==
  /\ Goto("select", "polled")
  /\ seen' \in {"apiError"} \cup (IF ocm[id] = "gone" THEN {} ELSE {ocm[id]})
  /\ UNCHANGED <<ocm, id, expired, verdict, hist>>

\* The switch on the state that was read, which may not be the state any more.
PolledReady ==
  /\ seen = "ready" /\ Goto("polled", "verifyReady")
  /\ UNCHANGED <<ocm, id, seen, expired, verdict, hist>>

PolledBad == seen \in {"error", "uninstalling"} /\ Fail("polled")

PolledOther ==
  /\ seen \in {"installing", "apiError"} /\ Goto("polled", "select")
  /\ UNCHANGED <<ocm, id, seen, expired, verdict, hist>>

\* Mutant: the deadline is only looked at when the last poll got an answer.
WaitTimeoutAnswered == expired /\ seen # "apiError" /\ Fail("select")

\* select: ctx is done.  When the ticker has fired as well Go picks either.
WaitTimeout == expired /\ Fail("select")

\* VerifyClusterReady
VerifyReady ==
  /\ Goto("verifyReady", "verify") /\ ocm[id] = "ready"
  /\ UNCHANGED <<ocm, id, seen, expired, verdict, hist>>

VerifyReadyFail == Fail("verifyReady")

\* GetClusterCredentials, NewKubeClient, RunVerifiers: the cluster is healthy.
Verify ==
  /\ Goto("verify", "delete") /\ ocm[id] # "gone"
  /\ UNCHANGED <<ocm, id, seen, expired, verdict, hist>>

VerifyFail == Fail("verify")

\* DeleteCluster: OCM accepts the request.
Accepted ==
  /\ ocm[id] # "gone"
  /\ ocm' = [ocm EXCEPT ![id] = "uninstalling"]

Delete ==
  /\ Goto("delete", "verifyDeleting") /\ Accepted
  /\ UNCHANGED <<id, seen, expired, verdict, hist>>

DeleteFail == Fail("delete")

\* VerifyClusterDeleting; the cleanup runs after a success too.
VerifyDeleting ==
  /\ Goto("verifyDeleting", "cleanup") /\ ocm[id] = "uninstalling"
  /\ verdict' = "passed"
  /\ UNCHANGED <<ocm, id, seen, expired, hist>>

VerifyDeletingFail == Fail("verifyDeleting")

\* Ginkgo interrupts a spec and runs its cleanups.
Interrupt ==
  \E p \in {"select", "polled", "verify"} : Fail(p)

\* Mutant: the cleanup is registered after the wait for the cluster.
CleanupOnlyReady ==
  /\ Goto("cleanup", "done")
  /\ IF seen = "ready" /\ ocm[id] # "gone" THEN Accepted ELSE UNCHANGED ocm
  /\ UNCHANGED <<id, seen, expired, verdict, hist>>

\* DeferCleanup: DeleteCluster once more.  A failure is written to the log.
Cleanup ==
  /\ Goto("cleanup", "done")
  /\ \/ Accepted /\ UNCHANGED undeleted
     \/ undeleted' = undeleted \cup {id} /\ UNCHANGED ocm
  /\ UNCHANGED <<id, seen, expired, verdict, unacked, killed>>

\* The process is killed: no cleanup.
Kill ==
  /\ pc \notin {"idle", "done"}
  /\ pc' = "done" /\ verdict' = "failed"
  /\ killed' = IF id = None THEN killed ELSE killed \cup {id}
  /\ UNCHANGED <<ocm, id, seen, expired, unacked, undeleted>>

SpecStep ==
  \/ (\E c \in Clusters : Create(c) \/ CreateLost(c)) \/ CreateFail
  \/ Tick \/ PolledReady \/ PolledBad \/ PolledOther
  \/ VerifyReady \/ VerifyReadyFail \/ Verify \/ VerifyFail
  \/ Delete \/ DeleteFail \/ VerifyDeleting \/ VerifyDeletingFail \/ Cleanup

-----------------------------------------------------------------------------
(* OCM and the clock.                                                      *)

Deadline ==
  /\ pc \in {"select", "polled"} /\ ~expired /\ expired' = TRUE
  /\ UNCHANGED <<ocm, pc, id, seen, verdict, hist>>

\* An installation ends, a cluster breaks, somebody else deletes it, an
\* uninstallation ends.
OcmStep(c) ==
  /\ \E s \in CASE ocm[c] = "installing"   -> {"ready", "error", "uninstalling"}
                [] ocm[c] = "ready"        -> {"error", "uninstalling"}
                [] ocm[c] = "error"        -> {"uninstalling"}
                [] ocm[c] = "uninstalling" -> {"gone"}
                [] OTHER                   -> {} :
       ocm' = [ocm EXCEPT ![c] = s]
  /\ UNCHANGED <<pc, id, seen, expired, verdict, hist>>

Next ==
  \/ Start \/ SpecStep \/ WaitTimeout \/ Interrupt \/ Kill
  \/ Deadline \/ \E c \in Clusters : OcmStep(c)

Spec == Init /\ [][Next]_vars

\* Go runs the spec and time passes; select chooses among ready cases at
\* random, so a case that is ready again and again is chosen at last.  OCM is
\* not obliged to do anything.
FairSpec ==
  /\ Spec
  /\ WF_vars(SpecStep) /\ WF_vars(Deadline) /\ SF_vars(WaitTimeout)

-----------------------------------------------------------------------------
(* Properties                                                              *)

\* A cluster outlives the spec that created it only when OCM lost or refused a
\* request or the process was killed: every path out of the spec from the moment
\* clusterID is known, the double delete of a passed spec included, ends with
\* a delete of that cluster.
NoOrphan ==
  pc = "done" =>
    \A c \in Clusters : ocm[c] \in Live => c \in unacked \cup undeleted \cup killed

\* A started spec ends although polls may fail for ever, the cluster may never
\* become ready and every tick of the ticker competes with the timeout.
SpecEnds == pc = "create" ~> pc = "done"
=============================================================================
