---------------------------- MODULE TestWorkload ----------------------------
(***************************************************************************)
(* The helpers that put objects on the cluster under test and the specs    *)
(* that use them: CreateTestNamespace (pkg/framework/namespace.go),        *)
(* DeployTestWorkload (workload.go), CreateKMSStorageClass, CreateTestPVC  *)
(* and CreateTestPodWithPVC (storage.go).  Every spec has a namespace name *)
(* and object names of its own, fixed in its text, so executions of one    *)
(* spec, one after the other or from two jobs at once, meet there.         *)
(*                                                                         *)
(* The spec is kind: "workload" uses DeployTestWorkload, "storage" the     *)
(* storage helpers and "kms" the storage class as well.  DeferCleanup is   *)
(* modelled by the set of cleanups an execution owes.                      *)
(***************************************************************************)
EXTENDS Naturals

CONSTANTS
  Execs,     \* executions of the spec
  Kinds,     \* the specs considered: "workload", "storage", "kms"
  MaxPolls   \* polls that fit in the timeout of a wait

ASSUME WorkloadAssumption ==
  /\ Kinds \subseteq {"workload", "storage", "kms"}
  /\ MaxPolls \in Nat \ {0}

VARIABLES
  kind,      \* the spec that is executed
  ns,        \* API server: the namespace
  account,   \* API server: its default ServiceAccount exists
  objects,   \* API server: the objects in it
  class,     \* API server: the storage class exists
  ready,     \* controllers: the deployment is available, the claim is bound
  pc,        \* where each execution is
  polls,     \* polls done in its current wait
  owed,      \* the cleanups it has registered
  verdict,   \* how its spec ended
  unowned,   \* history: executions that failed inside a helper which had made
             \* something and returned no cleanup
  lost,      \* history: executions that failed on a create which may have been
             \* carried out
  undeleted  \* history: executions with a cleanup that failed

api == <<ns, account, objects, class, ready>>
hist == <<unowned, lost, undeleted>>
vars == <<kind, api, pc, polls, owed, verdict, hist>>

Places ==
  {"idle", "createNS", "waitAccount", "class", "pvc", "pod", "waitBound", "volume",
   "deployNS", "deployment", "service", "waitAvailable", "check", "cleanup", "done"}

TypeOK ==
  /\ kind \in Kinds
  /\ ns \in {"absent", "active", "terminating"}
  /\ account \in BOOLEAN
  /\ objects \subseteq {"deployment", "service", "pvc", "pod"}
  /\ class \in BOOLEAN
  /\ ready \subseteq {"deployment", "pvc"}
  /\ pc \in [Execs -> Places]
  /\ polls \in [Execs -> 0 .. MaxPolls]
  /\ owed \in [Execs -> SUBSET {"ns", "class"}]
  /\ verdict \in [Execs -> {"none", "passed", "failed"}]
  /\ unowned \subseteq Execs
  /\ lost \subseteq Execs
  /\ undeleted \subseteq Execs

Init ==
  /\ kind \in Kinds
  /\ ns = "absent" /\ account = FALSE /\ objects = {} /\ class = FALSE /\ ready = {}
  /\ pc = [e \in Execs |-> "idle"]
  /\ polls = [e \in Execs |-> 0]
  /\ owed = [e \in Execs |-> {}]
  /\ verdict = [e \in Execs |-> "none"]
  /\ unowned = {} /\ lost = {} /\ undeleted = {}

-----------------------------------------------------------------------------
(* Control flow of a spec.                                                 *)

Goto(e, from, to) ==
  /\ pc[e] = from
  /\ pc' = [pc EXCEPT ![e] = to]
  /\ polls' = [polls EXCEPT ![e] = 0]
  /\ UNCHANGED kind

\* Expect fails: the rest of the spec is skipped and the cleanups run.
FailAt(e, from) ==
  /\ Goto(e, from, "cleanup")
  /\ verdict' = [verdict EXCEPT ![e] = "failed"]
  /\ UNCHANGED owed

\* Mutant: the timeout of a wait starts anew in every round.
PollAfresh(e, at) ==
  /\ pc[e] = at /\ UNCHANGED vars

\* One more round of a poll that has rounds left.
PollAgain(e, at) ==
  /\ pc[e] = at /\ polls[e] < MaxPolls
  /\ polls' = [polls EXCEPT ![e] = @ + 1]
  /\ UNCHANGED <<kind, api, pc, owed, verdict, hist>>

Start(e) ==
  /\ Goto(e, "idle", IF kind = "workload" THEN "deployNS" ELSE "createNS")
  /\ UNCHANGED <<api, owed, verdict, hist>>

-----------------------------------------------------------------------------
(* CreateTestNamespace                                                     *)

\* AlreadyExists, which a terminating namespace answers too, is success.
CreateNS(e) ==
  /\ Goto(e, "createNS", "waitAccount")
  /\ ns' = IF ns = "absent" THEN "active" ELSE ns
  /\ UNCHANGED <<account, objects, class, ready, owed, verdict, hist>>

CreateNSRetry(e) == PollAgain(e, "createNS")

\* The namespace was made, the answer was lost, and the poll goes on.
CreateNSLost(e) ==
  /\ pc[e] = "createNS" /\ polls[e] < MaxPolls /\ ns = "absent"
  /\ ns' = "active" /\ polls' = [polls EXCEPT ![e] = @ + 1]
  /\ UNCHANGED <<kind, account, objects, class, ready, pc, owed, verdict, hist>>

\* A non-transient error at once, any other when the two minutes are over.  By
\* then an earlier round may have made the namespace.
CreateNSFail(e) ==
  /\ FailAt(e, "createNS")
  /\ lost' = IF polls[e] > 0 THEN lost \cup {e} ELSE lost
  /\ UNCHANGED <<api, unowned, undeleted>>

\* Mutant: the spec does not register the cleanup it was handed.
AccountFoundNotDeferred(e) ==
  /\ account
  /\ Goto(e, "waitAccount", IF kind = "kms" THEN "class" ELSE "pvc")
  /\ UNCHANGED <<api, owed, verdict, hist>>

\* Only now is the cleanup handed to the spec, which registers it.
AccountFound(e) ==
  /\ account
  /\ Goto(e, "waitAccount", IF kind = "kms" THEN "class" ELSE "pvc")
  /\ owed' = [owed EXCEPT ![e] = @ \cup {"ns"}]
  /\ UNCHANGED <<api, verdict, hist>>

AccountRetry(e) == PollAgain(e, "waitAccount")

AccountTimeout(e) ==
  /\ FailAt(e, "waitAccount") /\ polls[e] > 0
  /\ unowned' = unowned \cup {e}
  /\ UNCHANGED <<api, lost, undeleted>>

-----------------------------------------------------------------------------
(* CreateKMSStorageClass, CreateTestPVC, CreateTestPodWithPVC              *)

CreateKMSStorageClass(e) ==
  /\ ~class
  /\ Goto(e, "class", "pvc")
  /\ class' = TRUE
  /\ owed' = [owed EXCEPT ![e] = @ \cup {"class"}]
  /\ UNCHANGED <<ns, account, objects, ready, verdict, hist>>

\* An object is created in an active namespace that has none of its name.
Create(e, o, next) ==
  /\ ns = "active" /\ o \notin objects
  /\ Goto(e, o, next)
  /\ objects' = objects \cup {o}
  /\ UNCHANGED <<ns, account, class, ready, owed, verdict, hist>>

CreateTestPVC(e) == Create(e, "pvc", "pod")
CreateTestPodWithPVC(e) == account /\ Create(e, "pod", "waitBound")

\* The create is refused, or fails for reasons of its own.
CreateFail(e) ==
  /\ \E at \in {"class", "pvc", "pod"} : FailAt(e, at)
  /\ UNCHANGED <<api, hist>>

\* The storage class was made and the answer was lost: no cleanup.
CreateClassLost(e) ==
  /\ ~class /\ FailAt(e, "class")
  /\ class' = TRUE /\ lost' = lost \cup {e}
  /\ UNCHANGED <<ns, account, objects, ready, unowned, undeleted>>

\* Eventually(VerifyPVCBound)
Bound(e) ==
  /\ "pvc" \in ready
  /\ Goto(e, "waitBound", IF kind = "kms" THEN "volume" ELSE "cleanup")
  /\ verdict' = IF kind = "kms" THEN verdict ELSE [verdict EXCEPT ![e] = "passed"]
  /\ UNCHANGED <<api, owed, hist>>

BoundRetry(e) == PollAgain(e, "waitBound")

BoundTimeout(e) ==
  /\ FailAt(e, "waitBound") /\ polls[e] > 0
  /\ UNCHANGED <<api, hist>>

\* GetPVCVolumeID is repeated until the claim names its volume; then the key of
\* the volume is compared once.
VolumeRetry(e) == PollAgain(e, "volume")

VolumeChecked(e) ==
  /\ \/ /\ "pvc" \in ready /\ Goto(e, "volume", "cleanup")
        /\ verdict' = [verdict EXCEPT ![e] = "passed"] /\ UNCHANGED owed
     \/ FailAt(e, "volume") /\ (polls[e] > 0 \/ "pvc" \in ready)
  /\ UNCHANGED <<api, hist>>

-----------------------------------------------------------------------------
(* DeployTestWorkload                                                      *)

\* One attempt; AlreadyExists is success.
DeployNS(e) ==
  /\ Goto(e, "deployNS", "deployment")
  /\ ns' = IF ns = "absent" THEN "active" ELSE ns
  /\ UNCHANGED <<account, objects, class, ready, owed, verdict, hist>>

\* The attempt failed, or only its answer was lost.
DeployNSFail(e) ==
  /\ FailAt(e, "deployNS")
  /\ \/ UNCHANGED <<ns, lost>>
     \/ ns = "absent" /\ ns' = "active" /\ lost' = lost \cup {e}
  /\ UNCHANGED <<account, objects, class, ready, unowned, undeleted>>

CreateDeployment(e) == Create(e, "deployment", "service")
CreateService(e) == Create(e, "service", "waitAvailable")

\* Any error from here on returns a nil cleanup.
DeployFail(e) ==
  /\ \/ \E at \in {"deployment", "service"} : FailAt(e, at)
     \/ FailAt(e, "waitAvailable") /\ (polls[e] > 0 \/ "deployment" \notin objects)
  /\ unowned' = unowned \cup {e}
  /\ UNCHANGED <<api, lost, undeleted>>

Available(e) ==
  /\ "deployment" \in ready
  /\ Goto(e, "waitAvailable", "check")
  /\ owed' = [owed EXCEPT ![e] = @ \cup {"ns"}]
  /\ UNCHANGED <<api, verdict, hist>>

AvailableRetry(e) == "deployment" \in objects /\ PollAgain(e, "waitAvailable")

\* VerifyDeploymentAvailable reads the deployment once more.
Check(e) ==
  /\ \/ /\ "deployment" \in ready /\ Goto(e, "check", "cleanup")
        /\ verdict' = [verdict EXCEPT ![e] = "passed"] /\ UNCHANGED owed
     \/ FailAt(e, "check")
  /\ UNCHANGED <<api, hist>>

-----------------------------------------------------------------------------
(* Cleanups, last registered first.                                        *)

\* The storage class goes first; NotFound is an error like any other.
DeleteClass(e) ==
  /\ pc[e] = "cleanup" /\ "class" \in owed[e]
  /\ owed' = [owed EXCEPT ![e] = @ \ {"class"}]
  /\ \/ class /\ class' = FALSE /\ UNCHANGED <<verdict, undeleted>>
     \/ /\ verdict' = [verdict EXCEPT ![e] = "failed"]
        /\ undeleted' = undeleted \cup {e} /\ UNCHANGED class
  /\ UNCHANGED <<kind, ns, account, objects, ready, pc, polls, unowned, lost>>

\* A failed delete fails the spec, except in DeployTestWorkload's cleanup.
DeleteNS(e) ==
  /\ pc[e] = "cleanup" /\ owed[e] = {"ns"}
  /\ owed' = [owed EXCEPT ![e] = {}]
  /\ \/ /\ ns' = IF ns = "active" THEN "terminating" ELSE ns
        /\ UNCHANGED <<verdict, undeleted>>
     \/ /\ undeleted' = undeleted \cup {e}
        /\ verdict' = IF kind = "workload" THEN verdict
                      ELSE [verdict EXCEPT ![e] = "failed"]
        /\ UNCHANGED ns
  /\ UNCHANGED <<kind, account, objects, class, ready, pc, polls, unowned, lost>>

CleanupDone(e) ==
  /\ owed[e] = {}
  /\ Goto(e, "cleanup", "done")
  /\ UNCHANGED <<api, owed, verdict, hist>>

SpecStep(e) ==
  \/ CreateNS(e) \/ CreateNSRetry(e) \/ CreateNSLost(e) \/ CreateNSFail(e)
  \/ AccountFound(e) \/ AccountRetry(e) \/ AccountTimeout(e)
  \/ CreateKMSStorageClass(e) \/ CreateTestPVC(e) \/ CreateTestPodWithPVC(e)
  \/ CreateFail(e) \/ CreateClassLost(e) \/ Bound(e) \/ BoundRetry(e)
  \/ BoundTimeout(e) \/ VolumeRetry(e) \/ VolumeChecked(e)
  \/ DeployNS(e) \/ DeployNSFail(e) \/ CreateDeployment(e) \/ CreateService(e)
  \/ DeployFail(e) \/ Available(e) \/ AvailableRetry(e) \/ Check(e)
  \/ DeleteClass(e) \/ DeleteNS(e) \/ CleanupDone(e)

-----------------------------------------------------------------------------
(* The controllers of the cluster.                                         *)

AccountCreated ==
  /\ ns = "active" /\ ~account /\ account' = TRUE
  /\ UNCHANGED <<kind, ns, objects, class, ready, pc, polls, owed, verdict, hist>>

\* A deployment becomes available once its pods are admitted; a claim is bound,
\* possibly never.
BecomesReady ==
  /\ ns = "active" /\ account
  /\ \E o \in (objects \cap {"deployment", "pvc"}) \ ready : ready' = ready \cup {o}
  /\ UNCHANGED <<kind, ns, account, objects, class, pc, polls, owed, verdict, hist>>

\* The content of a terminating namespace goes piece by piece, then itself.
Terminates ==
  /\ ns = "terminating"
  /\ \/ \E o \in objects : /\ objects' = objects \ {o} /\ ready' = ready \ {o}
                           /\ UNCHANGED <<ns, account>>
     \/ account /\ account' = FALSE /\ UNCHANGED <<ns, objects, ready>>
     \/ /\ objects = {} /\ ~account
        /\ ns' = "absent" /\ UNCHANGED <<account, objects, ready>>
  /\ UNCHANGED <<kind, class, pc, polls, owed, verdict, hist>>

Controllers == AccountCreated \/ BecomesReady \/ Terminates

Next == Controllers \/ \E e \in Execs : Start(e) \/ SpecStep(e)

Spec == Init /\ [][Next]_vars

\* A started spec keeps running; the namespace controller does its work.
FairSpec ==
  /\ Spec /\ WF_vars(Terminates)
  /\ \A e \in Execs : WF_vars(SpecStep(e))

-----------------------------------------------------------------------------
(* Properties                                                              *)

Over == \A e \in Execs : pc[e] = "done"

\* When all executions are over, a namespace or a storage class is only left
\* where a delete failed, the answer to a create was lost, or a helper failed
\* after it had made the namespace: executions that share them do not make each
\* other forget a cleanup.
LeakNeedsAFailure ==
  Over => /\ ns = "active" => unowned \cup lost \cup undeleted # {}
          /\ class => lost \cup undeleted # {}

\* Every started execution comes to its end, whatever the API server answers.
SpecsEnd == \A e \in Execs : pc[e] # "idle" ~> pc[e] = "done"
=============================================================================
