-------------------------- MODULE VpcCleanup_proofs --------------------------
(***************************************************************************)
(* TLAPS proofs about CleanupVPCResources for every VPC: any set of        *)
(* interfaces, groups, rules and subnets, any number of retries and polls. *)
(***************************************************************************)
EXTENDS VpcCleanup, TLAPS

ENIPhase == {"enis", "waitENI", "deleteENI"}
SGPhase == {"listSGs", "revoke", "deleteSGs"}
SubnetPhase == {"listSubnets", "deleteSubnets"}
ListPhase == {"listENIs", "listSGs", "listSubnets"}

\* Every interface is in a subnet that exists: EC2 keeps it so.
Integrity == \A e \in ENIs : eni[e] # "absent" => SubnetOf[e] \in subnets

\* What the interface phase has still to deal with.
ENIsCovered ==
  /\ pc = "listENIs" => Present \subseteq work \cup unlisted \cup late
  /\ pc \in ENIPhase => Present \subseteq work \cup late
  /\ pc \in SGPhase \cup SubnetPhase => Present \subseteq late

\* What the group phase has still to deal with.
SGsCovered ==
  /\ pc = "listSGs" => groups \ {Default} \subseteq work \cup unlisted \cup late
  /\ pc = "revoke" => groups \ {Default} \subseteq batch \cup late
  /\ pc = "deleteSGs" => groups \ {Default} \subseteq work \cup errs \cup late
  /\ pc \in SubnetPhase => groups \ {Default} \subseteq late

\* What the subnet phase has still to deal with.
SubnetsCovered ==
  /\ pc = "listSubnets" => subnets \subseteq work \cup unlisted
  /\ pc = "deleteSubnets" => subnets \subseteq work \cup errs

Succeeded ==
  /\ pc # "done" => result = "none"
  /\ result = "nil" => /\ pc = "done" /\ subnets = {}
                       /\ groups \ {Default} \subseteq late

\* Of the listed resources, those that exist are still to be visited or named.
Named ==
  /\ pc = "deleteSGs" => batch \cap groups \subseteq work \cup errs
  /\ pc = "deleteSubnets" => batch \cap subnets \subseteq work \cup errs
  /\ BlockersNamed

IInv ==
  /\ Integrity
  /\ pc \in ListPhase => work = batch
  /\ ENIsCovered /\ SGsCovered /\ SubnetsCovered /\ Succeeded /\ Named
-----------------------------------------------------------------------------

\* The bound of the counter is at least both limits.
LEMMA TriesBound ==
  /\ Max2(EniDeleteMaxRetries, MaxPolls) \in Nat
  /\ MaxPolls <= Max2(EniDeleteMaxRetries, MaxPolls)
  /\ EniDeleteMaxRetries <= Max2(EniDeleteMaxRetries, MaxPolls)
  BY VpcAssumption DEF Max2

\* Every step of the call and of the rest of the account keeps the variables
\* of CleanupVPCResources and of EC2 in their types.
THEOREM TypeCorrect == Spec => []TypeOK
<1>1. Init => TypeOK
  <2> SUFFICES ASSUME Init PROVE TypeOK
    OBVIOUS
  <2>1. quiet \in BOOLEAN /\ cancelled \in BOOLEAN
    BY Zenon DEF Init
  <2>2. eni \in [ENIs -> {"absent", "attached", "detaching", "available"}]
    BY DEF Init
  <2>3. tries \in 0 .. Max2(EniDeleteMaxRetries, MaxPolls)
    BY TriesBound DEF Init, Idle
  <2> QED
    BY <2>1, <2>2, <2>3 DEF Init, Idle, TypeOK, Present
<1>2. TypeOK /\ [Next]_vars => TypeOK'
  <2> SUFFICES ASSUME TypeOK, [Next]_vars PROVE TypeOK'
    OBVIOUS
  <2> USE VpcAssumption, TriesBound DEF TypeOK, ec2Vars, envVars, callVars
  <2>1. CASE ListENIPage BY <2>1 DEF ListENIPage, Page, Present
  <2>2. CASE ListENIFail BY <2>2 DEF ListENIFail, Return
  <2>3. CASE ENIsDone BY <2>3 DEF ENIsDone, StartListing
  <2>4. ASSUME NEW e \in ENIs, DetachENI(e) PROVE TypeOK'
    BY <2>4 DEF DetachENI
  <2>5. ASSUME NEW e \in ENIs, DetachENIFail(e) PROVE TypeOK'
    BY <2>5 DEF DetachENIFail, Return
  <2>6. ASSUME NEW e \in ENIs, SkipDetach(e) PROVE TypeOK'
    BY <2>6 DEF SkipDetach
  <2>7. CASE WaitENIReady BY <2>7 DEF WaitENIReady
  <2>8. CASE WaitENIPoll BY <2>8 DEF WaitENIPoll
  <2>9. CASE WaitENIFail BY <2>9 DEF WaitENIFail, Return
  <2>10. CASE DeleteENI BY <2>10 DEF DeleteENI
  <2>11. CASE DeleteENIRetry BY <2>11 DEF DeleteENIRetry, Return
  <2>12. CASE DeleteENIGiveUp BY <2>12 DEF DeleteENIGiveUp, Return
  <2>13. CASE ListSGPage BY <2>13 DEF ListSGPage, Page
  <2>14. CASE ListSGFail BY <2>14 DEF ListSGFail, Return
  <2>15. ASSUME NEW g \in Groups, RevokeIngress(g) PROVE TypeOK'
    BY <2>15 DEF RevokeIngress, Revoke
  <2>16. CASE RevokeEgress BY <2>16 DEF RevokeEgress, Revoke
  <2>17. CASE RevokesDone BY <2>17 DEF RevokesDone
  <2>18. ASSUME NEW g \in Groups, DeleteSG(g) PROVE TypeOK'
    BY <2>18 DEF DeleteSG, RulesWithout
  <2>19. ASSUME NEW g \in Groups, DeleteSGFail(g) PROVE TypeOK'
    BY <2>19 DEF DeleteSGFail
  <2>20. CASE SGsDone BY <2>20 DEF SGsDone, StartListing, Return
  <2>21. CASE ListSubnetPage BY <2>21 DEF ListSubnetPage, Page
  <2>22. CASE ListSubnetFail BY <2>22 DEF ListSubnetFail, Return
  <2>23. ASSUME NEW s \in Subnets, DeleteSubnet(s) PROVE TypeOK'
    BY <2>23 DEF DeleteSubnet
  <2>24. ASSUME NEW s \in Subnets, DeleteSubnetFail(s) PROVE TypeOK'
    BY <2>24 DEF DeleteSubnetFail
  <2>25. CASE SubnetsDone BY <2>25 DEF SubnetsDone, Return
  <2>26. CASE CallAgain
    <3>1. cancelled' \in BOOLEAN
      BY <2>26, Zenon DEF CallAgain
    <3>2. tries' \in 0 .. Max2(EniDeleteMaxRetries, MaxPolls)
      BY <2>26 DEF CallAgain
    <3> QED BY <2>26, <3>1, <3>2 DEF CallAgain, Present
  <2>27. ASSUME NEW e \in ENIs, DetachCompletes(e) PROVE TypeOK'
    BY <2>27 DEF DetachCompletes, EnvUnchanged
  <2>28. ASSUME NEW e \in ENIs, ENICreated(e) PROVE TypeOK'
    BY <2>28 DEF ENICreated, EnvUnchanged
  <2>29. ASSUME NEW e \in ENIs, ENIChanged(e) PROVE TypeOK'
    BY <2>29 DEF ENIChanged, EnvUnchanged
  <2>30. ASSUME NEW g \in Groups, GroupChanged(g) PROVE TypeOK'
    BY <2>30 DEF GroupChanged, EnvUnchanged, RulesWithout
  <2>31. ASSUME NEW s \in Subnets, SubnetDeleted(s) PROVE TypeOK'
    BY <2>31 DEF SubnetDeleted, EnvUnchanged
  <2>32. CASE Cancel BY <2>32 DEF Cancel
  <2>33. CASE Settle BY <2>33 DEF Settle
  <2>34. CASE UNCHANGED vars BY <2>34 DEF vars
  <2> QED
    BY <2>1, <2>2, <2>3, <2>4, <2>5, <2>6, <2>7, <2>8, <2>9, <2>10, <2>11,
       <2>12, <2>13, <2>14, <2>15, <2>16, <2>17, <2>18, <2>19, <2>20, <2>21,
       <2>22, <2>23, <2>24, <2>25, <2>26, <2>27, <2>28, <2>29, <2>30, <2>31,
       <2>32, <2>33, <2>34 DEF Next, Cleanup, Environment
<1>3. QED
  BY <1>1, <1>2, PTL DEF Spec

\* The inductive invariant: each phase of CleanupVPCResources accounts for
\* every resource of its kind that was there when it listed them.
THEOREM Invariance == Spec => []IInv
<1>1. Init => IInv
  BY VpcAssumption DEF Init, Idle, IInv, Integrity, ENIsCovered, SGsCovered,
     SubnetsCovered, Succeeded, Named, BlockersNamed, Present, ListPhase,
     ENIPhase, SGPhase, SubnetPhase
<1>2. TypeOK /\ IInv /\ [Next]_vars => IInv'
  <2> SUFFICES ASSUME TypeOK, IInv, [Next]_vars PROVE IInv'
    OBVIOUS
  <2> USE VpcAssumption DEF TypeOK, IInv, Integrity, ENIsCovered, SGsCovered,
          SubnetsCovered, Succeeded, Named, BlockersNamed, Present, ListPhase,
          ENIPhase, SGPhase, SubnetPhase, ec2Vars, envVars, callVars
  <2>1. CASE ListENIPage BY <2>1 DEF ListENIPage, Page
  <2>2. CASE ListENIFail BY <2>2 DEF ListENIFail, Return
  <2>3. CASE ENIsDone BY <2>3 DEF ENIsDone, StartListing
  <2>4. ASSUME NEW e \in ENIs, DetachENI(e) PROVE IInv'
    BY <2>4 DEF DetachENI
  <2>5. ASSUME NEW e \in ENIs, DetachENIFail(e) PROVE IInv'
    BY <2>5 DEF DetachENIFail, Return
  <2>6. ASSUME NEW e \in ENIs, SkipDetach(e) PROVE IInv'
    BY <2>6 DEF SkipDetach
  <2>7. CASE WaitENIReady BY <2>7 DEF WaitENIReady
  <2>8. CASE WaitENIPoll BY <2>8 DEF WaitENIPoll
  <2>9. CASE WaitENIFail BY <2>9 DEF WaitENIFail, Return
  <2>10. CASE DeleteENI BY <2>10 DEF DeleteENI
  <2>11. CASE DeleteENIRetry BY <2>11 DEF DeleteENIRetry, Return
  <2>12. CASE DeleteENIGiveUp BY <2>12 DEF DeleteENIGiveUp, Return
  <2>13. CASE ListSGPage BY <2>13 DEF ListSGPage, Page
  <2>14. CASE ListSGFail BY <2>14 DEF ListSGFail, Return
  <2>15. ASSUME NEW g \in Groups, RevokeIngress(g) PROVE IInv'
    BY <2>15 DEF RevokeIngress, Revoke
  <2>16. CASE RevokeEgress BY <2>16 DEF RevokeEgress, Revoke
  <2>17. CASE RevokesDone BY <2>17 DEF RevokesDone
  <2>18. ASSUME NEW g \in Groups, DeleteSG(g) PROVE IInv'
    BY <2>18 DEF DeleteSG
  <2>19. ASSUME NEW g \in Groups, DeleteSGFail(g) PROVE IInv'
    BY <2>19 DEF DeleteSGFail
  <2>20. CASE SGsDone BY <2>20 DEF SGsDone, StartListing, Return
  <2>21. CASE ListSubnetPage BY <2>21 DEF ListSubnetPage, Page
  <2>22. CASE ListSubnetFail BY <2>22 DEF ListSubnetFail, Return
  <2>23. ASSUME NEW s \in Subnets, DeleteSubnet(s) PROVE IInv'
    BY <2>23 DEF DeleteSubnet, SubnetInUse
  <2>24. ASSUME NEW s \in Subnets, DeleteSubnetFail(s) PROVE IInv'
    BY <2>24 DEF DeleteSubnetFail
  <2>25. CASE SubnetsDone BY <2>25 DEF SubnetsDone, Return
  <2>26. CASE CallAgain BY <2>26 DEF CallAgain
  <2>27. ASSUME NEW e \in ENIs, DetachCompletes(e) PROVE IInv'
    BY <2>27 DEF DetachCompletes, EnvUnchanged
  <2>28. ASSUME NEW e \in ENIs, ENICreated(e) PROVE IInv'
    BY <2>28 DEF ENICreated, EnvUnchanged
  <2>29. ASSUME NEW e \in ENIs, ENIChanged(e) PROVE IInv'
    BY <2>29 DEF ENIChanged, EnvUnchanged
  <2>30. ASSUME NEW g \in Groups, GroupChanged(g) PROVE IInv'
    BY <2>30 DEF GroupChanged, EnvUnchanged, BeforeSGListing
  <2>31. ASSUME NEW s \in Subnets, SubnetDeleted(s) PROVE IInv'
    BY <2>31 DEF SubnetDeleted, EnvUnchanged, SubnetInUse
  <2>32. CASE Cancel BY <2>32 DEF Cancel
  <2>33. CASE Settle BY <2>33 DEF Settle
  <2>34. CASE UNCHANGED vars BY <2>34 DEF vars
  <2> QED
    BY <2>1, <2>2, <2>3, <2>4, <2>5, <2>6, <2>7, <2>8, <2>9, <2>10, <2>11,
       <2>12, <2>13, <2>14, <2>15, <2>16, <2>17, <2>18, <2>19, <2>20, <2>21,
       <2>22, <2>23, <2>24, <2>25, <2>26, <2>27, <2>28, <2>29, <2>30, <2>31,
       <2>32, <2>33, <2>34 DEF Next, Cleanup, Environment
<1>3. QED
  BY <1>1, <1>2, TypeCorrect, PTL DEF Spec

\* Deletion order: when CleanupVPCResources starts on the groups (the subnets)
\* every interface (group) that was there when it listed them is gone.
THEOREM CascadeOrderHolds == Spec => []CascadeOrder
<1>1. IInv => CascadeOrder
  BY DEF IInv, ENIsCovered, SGsCovered, CascadeOrder, SGPhase, SubnetPhase
<1>2. QED
  BY <1>1, Invariance, PTL

\* A nil return of CleanupVPCResources means an empty VPC: no subnet, hence no
\* interface, and no group but the default one and those created too late.
THEOREM CleanAfterSuccessHolds == Spec => []CleanAfterSuccess
<1>1. TypeOK /\ IInv => CleanAfterSuccess
  BY VpcAssumption DEF TypeOK, IInv, Integrity, Succeeded, CleanAfterSuccess, Present
<1>2. QED
  BY <1>1, TypeCorrect, Invariance, PTL

\* The error of a failed group or subnet phase of CleanupVPCResources names
\* every listed resource that is still there.
THEOREM BlockersNamedHolds == Spec => []BlockersNamed
<1>1. IInv => BlockersNamed
  BY DEF IInv, Named
<1>2. QED
  BY <1>1, Invariance, PTL
=============================================================================
