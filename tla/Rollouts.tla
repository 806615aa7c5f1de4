------------------------------ MODULE Rollouts ------------------------------
(***************************************************************************)
(* VerifyDeploymentRevisionsStable (pkg/verifiers/revision.go): two        *)
(* snapshots of the revision annotations of all deployments, and whatever  *)
(* the controllers do to the deployments between them.                     *)
(***************************************************************************)
EXTENDS Naturals

CONSTANTS
  Deployments,
  MaxRevision \* bound: revisions of a deployment

ASSUME RolloutsAssumption == MaxRevision \in Nat \ {0}

\* The annotation of a deployment that is not there, and of one the deployment
\* controller has not annotated yet ("").
Absent == 0
Bare == 1
Revisions == Absent..(MaxRevision + 1)

VARIABLES
  revPc,     \* where the verifier is
  revision,  \* the cluster: the annotation of every deployment
  initial,   \* the first snapshot
  changed,   \* the deployments the error names
  rolled,    \* history: rolled out since the first snapshot
  annotated, \* history: annotated for the first time since
  deleted    \* history: deleted since

rolloutsHist == <<rolled, annotated, deleted>>
rolloutsVars == <<revPc, revision, initial, changed, rolloutsHist>>

RolloutsTypeOK ==
  /\ revPc \in {"start", "first", "observe", "second", "passed", "failed"}
  /\ revision \in [Deployments -> Revisions] /\ initial \in [Deployments -> Revisions]
  /\ changed \subseteq Deployments /\ rolled \subseteq Deployments
  /\ annotated \subseteq Deployments /\ deleted \subseteq Deployments

Nowhere == [d \in Deployments |-> Absent]

RolloutsInit ==
  /\ revPc = "start" /\ revision = Nowhere /\ initial = Nowhere /\ changed = {}
  /\ rolled = {} /\ annotated = {} /\ deleted = {}

\* The verifier is called on some cluster.
RolloutsBegin ==
  /\ revPc = "start" /\ revPc' = "first"
  /\ revision' \in [Deployments -> Revisions]
  /\ UNCHANGED <<initial, changed, rolloutsHist>>

\* snapshotDeploymentRevisions
TakeInitial ==
  /\ revPc = "first" /\ initial' = revision
  /\ revPc' = IF initial' = Nowhere THEN "passed" ELSE "observe"
  /\ UNCHANGED <<revision, changed, rolloutsHist>>

\* A list fails or ctx is done.
ObservationFails ==
  /\ revPc \in {"first", "observe", "second"} /\ revPc' = "failed"
  /\ UNCHANGED <<revision, initial, changed, rolloutsHist>>

\* time.After(observationPeriod)
PeriodOver ==
  /\ revPc = "observe" /\ revPc' = "second"
  /\ UNCHANGED <<revision, initial, changed, rolloutsHist>>

\* Mutant: deployments without an annotation are left out.
ChangedAnnotated(old, new) ==
  {d \in Deployments : old[d] > Bare /\ new[d] > Bare /\ old[d] # new[d]}

\* Mutant: a deployment that is not in both snapshots has changed as well.
ChangedOrGone(old, new) ==
  {d \in Deployments : old[d] # new[d]}

\* if finalRev, ok := final[ref]; ok && initialRev != finalRev
Changed(old, new) ==
  {d \in Deployments : old[d] # Absent /\ new[d] # Absent /\ old[d] # new[d]}

TakeFinal ==
  /\ revPc = "second" /\ changed' = Changed(initial, revision)
  /\ revPc' = IF changed' = {} THEN "passed" ELSE "failed"
  /\ UNCHANGED <<revision, initial, rolloutsHist>>

-----------------------------------------------------------------------------
(* The controllers.                                                        *)

Observed == revPc \in {"observe", "second"}
Note(set, d) == IF Observed THEN set \cup {d} ELSE set

\* A rollout, rollbacks included, takes the next revision.
RollOut(d) ==
  /\ revision[d] \in (Bare + 1)..MaxRevision
  /\ revision' = [revision EXCEPT ![d] = @ + 1] /\ rolled' = Note(rolled, d)
  /\ UNCHANGED <<revPc, initial, changed, annotated, deleted>>

CreateDeployment(d) ==
  /\ revision[d] = Absent /\ revision' = [revision EXCEPT ![d] = Bare]
  /\ UNCHANGED <<revPc, initial, changed, rolloutsHist>>

Annotate(d) ==
  /\ revision[d] = Bare /\ revision' = [revision EXCEPT ![d] = Bare + 1]
  /\ annotated' = Note(annotated, d)
  /\ UNCHANGED <<revPc, initial, changed, rolled, deleted>>

DeleteDeployment(d) ==
  /\ revision[d] # Absent /\ revision' = [revision EXCEPT ![d] = Absent]
  /\ deleted' = Note(deleted, d)
  /\ UNCHANGED <<revPc, initial, changed, rolled, annotated>>

RolloutsNext ==
  \/ RolloutsBegin \/ TakeInitial \/ ObservationFails \/ PeriodOver \/ TakeFinal
  \/ /\ revPc \in {"first", "observe", "second"}
     /\ \E d \in Deployments : \/ RollOut(d) \/ Annotate(d)
                               \/ CreateDeployment(d) \/ DeleteDeployment(d)

RolloutsSpec == RolloutsInit /\ [][RolloutsNext]_rolloutsVars

-----------------------------------------------------------------------------
(* Properties                                                              *)

\* "no deployment revisions change during the observation period": a deployment
\* of the first snapshot that was rolled out passes unnoticed only when it was
\* deleted as well.
NoUnseenRollout ==
  revPc = "passed" =>
    \A d \in rolled : initial[d] # Absent => d \in deleted

\* A deployment is named only when a controller touched it between the
\* snapshots; it need not be a fight: a deployment that was new at the first
\* snapshot gets its first annotation, one that is recreated starts again.
NoFalseAlarm ==
  \A d \in changed : initial[d] # Absent /\ d \in rolled \cup annotated \cup deleted

\* The verdict on the rollouts of the observation: none is missed, none is invented,
\* but for the two exceptions.
RolloutsVerdict == NoUnseenRollout /\ NoFalseAlarm
=============================================================================
