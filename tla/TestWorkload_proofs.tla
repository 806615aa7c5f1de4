------------------------- MODULE TestWorkload_proofs -------------------------
(***************************************************************************)
(* No cleanup is forgotten, for any number of executions of a spec and any *)
(* number of polls.                                                        *)
(***************************************************************************)
EXTENDS TestWorkload, TLAPS

\* An execution that has made the namespace, or has been told that it exists,
\* and has not yet been through its cleanup.
Holds(e) ==
  \/ pc[e] \in {"waitAccount", "deployment", "service", "waitAvailable"}
  \/ pc[e] = "createNS" /\ polls[e] > 0
  \/ "ns" \in owed[e]

\* Somebody answers for a namespace and for a storage class that exist.
Answered ==
  /\ ns = "active" => \/ unowned \cup lost \cup undeleted # {}
                      \/ \E e \in Execs : Holds(e)
  /\ class => \/ lost \cup undeleted # {}
              \/ \E e \in Execs : "class" \in owed[e]

\* Nobody is done who still owes a cleanup.
OwedFirst == \A e \in Execs : pc[e] = "done" => owed[e] = {}

IInv == TypeOK /\ Answered /\ OwedFirst
-----------------------------------------------------------------------------

\* TypeOK in two parts, the flags of the API server and everything else.
Flags == account \in BOOLEAN /\ class \in BOOLEAN
Typed ==
  /\ kind \in Kinds
  /\ ns \in {"absent", "active", "terminating"}
  /\ objects \subseteq {"deployment", "service", "pvc", "pod"}
  /\ ready \subseteq {"deployment", "pvc"}
  /\ pc \in [Execs -> Places]
  /\ polls \in [Execs -> 0 .. MaxPolls]
  /\ owed \in [Execs -> SUBSET {"ns", "class"}]
  /\ verdict \in [Execs -> {"none", "passed", "failed"}]
  /\ unowned \subseteq Execs
  /\ lost \subseteq Execs
  /\ undeleted \subseteq Execs

\* No helper and no controller makes a flag of the API server anything but a flag.
LEMMA FlagsTyped == Spec => []Flags
<1>1. Init => Flags
  BY Zenon DEF Init, Flags
<1>2. Flags /\ [Next]_vars => Flags'
  <2> SUFFICES ASSUME Flags, [Next]_vars PROVE Flags'
    OBVIOUS
  <2> USE DEF Flags
  <2>1. CASE UNCHANGED vars
    BY <2>1, Zenon DEF vars, api
  <2>2. CASE Controllers
    BY <2>2, Zenon DEF Controllers, AccountCreated, BecomesReady, Terminates
  <2>3. ASSUME NEW e \in Execs, Start(e) PROVE Flags'
    BY <2>3, Zenon DEF Start, api
  <2>4. ASSUME NEW e \in Execs, SpecStep(e) PROVE Flags'
    BY <2>4, ZenonT(60) DEF SpecStep, CreateNS, CreateNSLost, CreateNSFail,
       CreateNSRetry, AccountRetry, BoundRetry, VolumeRetry, AvailableRetry, PollAgain,
       AccountFound, AccountTimeout, CreateKMSStorageClass, CreateClassLost, CreateFail,
       CreateTestPVC, CreateTestPodWithPVC, Create, Bound, BoundTimeout, VolumeChecked,
       DeployNS, DeployNSFail, CreateDeployment, CreateService, DeployFail, Available,
       Check, DeleteClass, DeleteNS, CleanupDone, api
  <2> QED BY <2>1, <2>2, <2>3, <2>4 DEF Next
<1> QED BY <1>1, <1>2, PTL DEF Spec

\* Going to a place of the spec and resetting the poll counter keeps the types.
LEMMA GotoTyped ==
  ASSUME Typed, NEW e \in Execs, NEW from, NEW to \in Places, Goto(e, from, to)
  PROVE  /\ pc' \in [Execs -> Places] /\ polls' \in [Execs -> 0 .. MaxPolls]
         /\ kind' \in Kinds
  BY WorkloadAssumption DEF Typed, Goto

\* A failing Expect goes to the cleanups and leaves them as they are.
LEMMA FailTyped ==
  ASSUME Typed, NEW e \in Execs, NEW from, FailAt(e, from)
  PROVE  /\ pc' \in [Execs -> Places] /\ polls' \in [Execs -> 0 .. MaxPolls] /\ kind' \in Kinds
         /\ verdict' \in [Execs -> {"none", "passed", "failed"}]
         /\ owed' = owed
<1>1. Goto(e, from, "cleanup") /\ "cleanup" \in Places
  BY DEF FailAt, Places
<1>2. verdict' \in [Execs -> {"none", "passed", "failed"}] /\ owed' = owed
  BY DEF FailAt, Typed
<1> QED BY <1>1, <1>2, GotoTyped

\* A poll that has rounds left counts one more.
LEMMA PollTyped ==
  ASSUME Typed, NEW e \in Execs, NEW at, PollAgain(e, at)
  PROVE  Typed'
<1>1. polls' \in [Execs -> 0 .. MaxPolls]
  BY WorkloadAssumption DEF Typed, PollAgain
<1> QED BY <1>1 DEF Typed, PollAgain, api, hist

\* The objects helpers create: one more object, nothing else.
LEMMA CreateTyped ==
  ASSUME Typed, NEW e \in Execs, NEW o \in {"deployment", "service", "pvc", "pod"},
         NEW next \in Places, Create(e, o, next)
  PROVE  Typed'
<1>1. pc' \in [Execs -> Places] /\ polls' \in [Execs -> 0 .. MaxPolls] /\ kind' \in Kinds
  BY GotoTyped DEF Create
<1> QED BY <1>1 DEF Typed, Create, hist

\* All other variables stay in their types, action by action.
LEMMA RestTyped == Spec => []Typed
<1>1. Init => Typed
  BY WorkloadAssumption DEF Init, Typed, Places
<1>2. Typed /\ [Next]_vars => Typed'
  <2> SUFFICES ASSUME Typed, Next \/ UNCHANGED vars PROVE Typed'
    OBVIOUS
  <2>1. CASE UNCHANGED vars
    BY <2>1 DEF Typed, vars, api, hist
  <2>2. CASE Controllers
    BY <2>2 DEF Typed, Controllers, AccountCreated, BecomesReady, Terminates, hist
  <2>3. ASSUME NEW e \in Execs, Start(e) PROVE Typed'
    <3>1. PICK to \in Places : Goto(e, "idle", to)
      BY <2>3 DEF Start, Places
    <3> QED BY <2>3, <3>1, GotoTyped DEF Typed, Start, api, hist
  <2>4. ASSUME NEW e \in Execs, SpecStep(e) PROVE Typed'
    <3>1. CASE CreateNS(e)
      <4>1. Goto(e, "createNS", "waitAccount") /\ "waitAccount" \in Places
        BY <3>1 DEF CreateNS, Places
      <4> QED BY <3>1, <4>1, GotoTyped DEF Typed, CreateNS, hist
    <3>2. CASE CreateNSLost(e)
      <4>1. polls' \in [Execs -> 0 .. MaxPolls]
        BY <3>2, WorkloadAssumption DEF Typed, CreateNSLost
      <4> QED BY <3>2, <4>1 DEF Typed, CreateNSLost, hist
    <3>3. CASE CreateNSFail(e)
      BY <3>3, FailTyped DEF Typed, CreateNSFail, api
    <3>4. CASE CreateNSRetry(e) \/ AccountRetry(e) \/ BoundRetry(e) \/ VolumeRetry(e)
               \/ AvailableRetry(e)
      BY <3>4, PollTyped DEF CreateNSRetry, AccountRetry, BoundRetry, VolumeRetry,
                             AvailableRetry
    <3>5. CASE AccountFound(e)
      <4>1. PICK to \in Places : Goto(e, "waitAccount", to)
        BY <3>5 DEF AccountFound, Places
      <4> QED BY <3>5, <4>1, GotoTyped DEF Typed, AccountFound, api, hist
    <3>6. CASE AccountTimeout(e)
      BY <3>6, FailTyped DEF Typed, AccountTimeout, api
    <3>7. CASE CreateKMSStorageClass(e)
      <4>1. Goto(e, "class", "pvc") /\ "pvc" \in Places
        BY <3>7 DEF CreateKMSStorageClass, Places
      <4> QED BY <3>7, <4>1, GotoTyped DEF Typed, CreateKMSStorageClass, hist
    <3>8. CASE CreateClassLost(e)
      BY <3>8, FailTyped DEF Typed, CreateClassLost
    <3>9. CASE CreateFail(e)
      BY <3>9, FailTyped DEF Typed, CreateFail, api, hist
    <3>10. CASE CreateTestPVC(e) \/ CreateTestPodWithPVC(e) \/ CreateDeployment(e)
                \/ CreateService(e)
      <4>1. PICK o \in {"deployment", "service", "pvc", "pod"}, to \in Places :
              Create(e, o, to)
        BY <3>10 DEF CreateTestPVC, CreateTestPodWithPVC, CreateDeployment,
                     CreateService, Places
      <4> QED BY <4>1, CreateTyped
    <3>11. CASE Bound(e)
      <4>1. PICK to \in Places : Goto(e, "waitBound", to)
        BY <3>11 DEF Bound, Places
      <4> QED BY <3>11, <4>1, GotoTyped DEF Typed, Bound, api, hist
    <3>12. CASE BoundTimeout(e)
      BY <3>12, FailTyped DEF Typed, BoundTimeout, api, hist
    <3>13. CASE VolumeChecked(e)
      <4>1. "cleanup" \in Places
        BY DEF Places
      <4> QED BY <3>13, <4>1, GotoTyped, FailTyped DEF Typed, VolumeChecked, api, hist
    <3>14. CASE DeployNS(e)
      <4>1. Goto(e, "deployNS", "deployment") /\ "deployment" \in Places
        BY <3>14 DEF DeployNS, Places
      <4> QED BY <3>14, <4>1, GotoTyped DEF Typed, DeployNS, hist
    <3>15. CASE DeployNSFail(e)
      BY <3>15, FailTyped DEF Typed, DeployNSFail
    <3>16. CASE DeployFail(e)
      BY <3>16, FailTyped DEF Typed, DeployFail, api
    <3>17. CASE Available(e)
      <4>1. Goto(e, "waitAvailable", "check") /\ "check" \in Places
        BY <3>17 DEF Available, Places
      <4> QED BY <3>17, <4>1, GotoTyped DEF Typed, Available, api, hist
    <3>18. CASE Check(e)
      <4>1. "cleanup" \in Places
        BY DEF Places
      <4> QED BY <3>18, <4>1, GotoTyped, FailTyped DEF Typed, Check, api, hist
    <3>19. CASE DeleteClass(e)
      BY <3>19 DEF Typed, DeleteClass
    <3>20. CASE DeleteNS(e)
      BY <3>20 DEF Typed, DeleteNS
    <3>21. CASE CleanupDone(e)
      <4>1. Goto(e, "cleanup", "done") /\ "done" \in Places
        BY <3>21 DEF CleanupDone, Places
      <4> QED BY <3>21, <4>1, GotoTyped DEF Typed, CleanupDone, api, hist
    <3> QED
      BY <2>4, <3>1, <3>2, <3>3, <3>4, <3>5, <3>6, <3>7, <3>8, <3>9, <3>10, <3>11,
         <3>12, <3>13, <3>14, <3>15, <3>16, <3>17, <3>18, <3>19, <3>20, <3>21
         DEF SpecStep
  <2> QED BY <2>1, <2>2, <2>3, <2>4 DEF Next
<1> QED BY <1>1, <1>2, PTL DEF Spec

\* The type invariant of the specs and their helpers.
THEOREM TypeCorrect == Spec => []TypeOK
<1>1. Flags /\ Typed <=> TypeOK
  BY DEF Flags, Typed, TypeOK
<1> QED BY <1>1, FlagsTyped, RestTyped, PTL

\* Every step keeps somebody answering for what exists: a step that ends an
\* execution's claim on the namespace or the class ends with a cleanup owed, with
\* the deletion, or with the failure in the history.
THEOREM Invariance == Spec => []IInv
<1>1. Init => Answered /\ OwedFirst
  BY DEF Init, Answered, OwedFirst
<1>2. ASSUME Typed, Answered, OwedFirst, Next \/ UNCHANGED vars
      PROVE  Answered' /\ OwedFirst'
  <2> DEFINE Inv == Answered /\ OwedFirst
  <2>0. /\ pc \in [Execs -> Places] /\ polls \in [Execs -> Nat]
        /\ owed \in [Execs -> SUBSET {"ns", "class"}]
    BY <1>2, WorkloadAssumption DEF Typed
  <2> USE DEF Answered, OwedFirst, Holds
  <2>1. CASE UNCHANGED vars
    BY <1>2, <2>1 DEF vars, api, hist
  <2>2. CASE Controllers
    BY <1>2, <2>2 DEF Controllers, AccountCreated, BecomesReady, Terminates, hist
  <2>3. ASSUME NEW e \in Execs, Start(e) PROVE Inv'
    BY <1>2, <2>0, <2>3 DEF Start, Goto, api, hist
  <2>4. ASSUME NEW e \in Execs, SpecStep(e) PROVE Inv'
    <3>1. CASE CreateNS(e)
      BY <1>2, <2>0, <3>1 DEF CreateNS, Goto, hist
    <3>2. CASE CreateNSLost(e)
      BY <1>2, <2>0, <3>2 DEF CreateNSLost, hist
    <3>3. CASE CreateNSFail(e)
      BY <1>2, <2>0, <3>3 DEF CreateNSFail, FailAt, Goto, api
    <3>4. CASE CreateNSRetry(e)
      BY <1>2, <2>0, <3>4 DEF CreateNSRetry, PollAgain, api, hist
    <3>5. CASE AccountRetry(e)
      BY <1>2, <2>0, <3>5 DEF AccountRetry, PollAgain, api, hist
    <3>6. CASE BoundRetry(e)
      BY <1>2, <2>0, <3>6 DEF BoundRetry, PollAgain, api, hist
    <3>7. CASE VolumeRetry(e)
      BY <1>2, <2>0, <3>7 DEF VolumeRetry, PollAgain, api, hist
    <3>8. CASE AvailableRetry(e)
      BY <1>2, <2>0, <3>8 DEF AvailableRetry, PollAgain, api, hist
    <3>9. CASE AccountFound(e)
      BY <1>2, <2>0, <3>9 DEF AccountFound, Goto, api, hist
    <3>10. CASE AccountTimeout(e)
      BY <1>2, <2>0, <3>10 DEF AccountTimeout, FailAt, Goto, api
    <3>11. CASE CreateKMSStorageClass(e)
      BY <1>2, <2>0, <3>11 DEF CreateKMSStorageClass, Goto, hist
    <3>12. CASE CreateClassLost(e)
      BY <1>2, <2>0, <3>12 DEF CreateClassLost, FailAt, Goto
    <3>13. CASE CreateFail(e)
      BY <1>2, <2>0, <3>13 DEF CreateFail, FailAt, Goto, api, hist
    <3>14. CASE CreateTestPVC(e)
      BY <1>2, <2>0, <3>14 DEF CreateTestPVC, Create, Goto, hist
    <3>15. CASE CreateTestPodWithPVC(e)
      BY <1>2, <2>0, <3>15 DEF CreateTestPodWithPVC, Create, Goto, hist
    <3>16. CASE Bound(e)
      BY <1>2, <2>0, <3>16 DEF Bound, Goto, api, hist
    <3>17. CASE BoundTimeout(e)
      BY <1>2, <2>0, <3>17 DEF BoundTimeout, FailAt, Goto, api, hist
    <3>18. CASE VolumeChecked(e)
      BY <1>2, <2>0, <3>18 DEF VolumeChecked, FailAt, Goto, api, hist
    <3>19. CASE DeployNS(e)
      BY <1>2, <2>0, <3>19 DEF DeployNS, Goto, hist
    <3>20. CASE DeployNSFail(e)
      BY <1>2, <2>0, <3>20 DEF DeployNSFail, FailAt, Goto
    <3>21. CASE CreateDeployment(e)
      BY <1>2, <2>0, <3>21 DEF CreateDeployment, Create, Goto, hist
    <3>22. CASE CreateService(e)
      BY <1>2, <2>0, <3>22 DEF CreateService, Create, Goto, hist
    <3>23. CASE DeployFail(e)
      BY <1>2, <2>0, <3>23 DEF DeployFail, FailAt, Goto, api
    <3>24. CASE Available(e)
      BY <1>2, <2>0, <3>24 DEF Available, Goto, api, hist
    <3>25. CASE Check(e)
      BY <1>2, <2>0, <3>25 DEF Check, FailAt, Goto, api, hist
    <3>26. CASE DeleteClass(e)
      BY <1>2, <2>0, <3>26 DEF DeleteClass
    <3>27. CASE DeleteNS(e)
      BY <1>2, <2>0, <3>27 DEF DeleteNS
    <3>28. CASE CleanupDone(e)
      BY <1>2, <2>0, <3>28 DEF CleanupDone, Goto, api, hist
    <3> QED
      BY <2>4, <3>1, <3>2, <3>3, <3>4, <3>5, <3>6, <3>7, <3>8, <3>9, <3>10,
         <3>11, <3>12, <3>13, <3>14, <3>15, <3>16, <3>17, <3>18, <3>19, <3>20,
         <3>21, <3>22, <3>23, <3>24, <3>25, <3>26, <3>27, <3>28
         DEF SpecStep
  <2> QED BY <1>2, <2>1, <2>2, <2>3, <2>4 DEF Next
<1>3. IInv <=> TypeOK /\ Answered /\ OwedFirst
  BY DEF IInv
<1> QED BY <1>1, <1>2, <1>3, RestTyped, TypeCorrect, PTL DEF Spec

\* When all executions are over, what is left has a failure behind it.
THEOREM LeakNeedsAFailureHolds == Spec => []LeakNeedsAFailure
<1>1. IInv => LeakNeedsAFailure
  BY DEF IInv, TypeOK, Answered, OwedFirst, Holds, LeakNeedsAFailure, Over
<1> QED BY <1>1, Invariance, PTL
=============================================================================
