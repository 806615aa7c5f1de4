----------------------- MODULE ClusterLifecycle_proofs -----------------------
(***************************************************************************)
(* The lifecycle specs leave no orphan, for any number of executions.      *)
(***************************************************************************)
EXTENDS ClusterLifecycle, TLAPS

Running == pc \notin {"idle", "create", "done"}

\* A live cluster is either excused by the history or the one the running spec
\* has registered with DeferCleanup.
Owned ==
  \A c \in Clusters :
    ocm[c] \in Live =>
      \/ c \in unacked \cup undeleted \cup killed
      \/ Running /\ c = id

\* Nothing is registered before the cluster is created.
IInv == TypeOK /\ Owned /\ (pc = "create" => id = None)

\* Every path through a lifecycle spec, failed creates, lost responses, timeouts
\* and interrupts included, keeps types right and every live cluster owned.
THEOREM Invariance == Spec => []IInv
<1>1. Init => IInv
  BY DEF Init, IInv, TypeOK, Owned, Running, States, Live
<1>2. IInv /\ [Next]_vars => IInv'
  <2> SUFFICES ASSUME IInv, [Next]_vars PROVE IInv'
    OBVIOUS
  <2> USE LifecycleAssumption DEF IInv, TypeOK, Owned, Running, States, Live, hist
  <2>1. CASE Start
    BY <2>1 DEF Start
  <2>2. ASSUME NEW c \in Clusters, Create(c) PROVE IInv'
    BY <2>2 DEF Create, Goto
  <2>3. ASSUME NEW c \in Clusters, CreateLost(c) PROVE IInv'
    BY <2>3 DEF CreateLost, Goto
  <2>4. ASSUME NEW p \in {"select", "polled", "verifyReady", "verify", "delete", "verifyDeleting"},
               Fail(p)
        PROVE IInv'
    BY <2>4 DEF Fail
  <2>5. CASE CreateFail
    BY <2>5 DEF CreateFail, Fail
  <2>6. CASE Tick
    BY <2>6 DEF Tick, Goto
  <2>7. CASE PolledReady \/ PolledOther \/ VerifyReady \/ Verify
    BY <2>7 DEF PolledReady, PolledOther, VerifyReady, Verify, Goto
  <2>8. CASE PolledBad \/ WaitTimeout \/ VerifyReadyFail \/ VerifyFail \/ DeleteFail
             \/ VerifyDeletingFail \/ Interrupt
    BY <2>8, <2>4 DEF PolledBad, WaitTimeout, VerifyReadyFail, VerifyFail, DeleteFail,
                      VerifyDeletingFail, Interrupt
  <2>9. CASE Delete
    BY <2>9 DEF Delete, Accepted, Goto
  <2>10. CASE VerifyDeleting
    BY <2>10 DEF VerifyDeleting, Goto
  <2>11. CASE Cleanup
    BY <2>11 DEF Cleanup, Accepted, Goto
  <2>12. CASE Kill
    BY <2>12 DEF Kill
  <2>13. CASE Deadline
    <3>1. expired' \in BOOLEAN
      BY <2>13, Zenon DEF Deadline
    <3>2. QED
      BY <2>13, <3>1 DEF Deadline
  <2>14. ASSUME NEW c \in Clusters, OcmStep(c) PROVE IInv'
    <3>1. PICK s \in {"ready", "error", "uninstalling", "gone"} :
            /\ ocm[c] \in Live \cup {"uninstalling"}
            /\ s \in Live => ocm[c] \in Live
            /\ ocm' = [ocm EXCEPT ![c] = s]
      BY <2>14 DEF OcmStep
    <3>2. QED
      BY <2>14, <3>1 DEF OcmStep
  <2>15. CASE UNCHANGED vars
    BY <2>15 DEF vars
  <2>16. QED
    BY <2>1, <2>2, <2>3, <2>5, <2>6, <2>7, <2>8, <2>9, <2>10, <2>11, <2>12, <2>13,
       <2>14, <2>15 DEF Next, SpecStep
<1>3. QED
  BY <1>1, <1>2, PTL DEF Spec

\* A cluster that outlives its spec does so for a lost or refused request or a
\* killed process only.
THEOREM NoOrphanHolds == Spec => []NoOrphan
<1>1. IInv => NoOrphan
  BY DEF IInv, Owned, Running, NoOrphan
<1>2. QED
  BY Invariance, <1>1, PTL

\* The type invariant of a lifecycle spec and its clusters.
THEOREM TypeCorrect == Spec => []TypeOK
<1>1. IInv => TypeOK
  BY DEF IInv
<1>2. QED
  BY <1>1, Invariance, PTL
=============================================================================
