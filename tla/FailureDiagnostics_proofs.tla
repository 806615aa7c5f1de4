---------------------- MODULE FailureDiagnostics_proofs ----------------------
(***************************************************************************)
(* What a written snapshot says is true, for every limit, every size of an *)
(* object and every number of objects.                                     *)
(***************************************************************************)
EXTENDS FailureDiagnostics, Integers, TLAPS

\* The resources whose read has not ended.
Unread ==
  CASE pc \in {"start", "deployments"} -> Resources
    [] pc = "replicaSets" -> {"replicaSets", "pods", "hostedCluster"}
    [] pc = "pods" -> {"pods", "hostedCluster"}
    [] pc = "hostedCluster" -> {"hostedCluster"}
    [] OTHER -> {}

\* What has not been read left nothing in the snapshot, and what could not be read
\* has no objects in it.
Parts ==
  /\ \A k \in Unread : got[k] = 0 /\ word[k] = "none" /\ k \notin deep
  /\ \A k \in Kinds : word[k] \in Failures => got[k] = 0

\* What is called complete is complete at every step, not only in the file.
Complete ==
  \A k \in Resources : word[k] = "complete" => got[k] = held[k] /\ k \notin deep

\* There is a file only while it is written and after that, and only nil or an
\* os.Remove that failed leaves one at the end.
Files ==
  /\ file # "none" => pc \in {"write", "done"}
  /\ result # "none" => pc = "done"
  /\ result = "nil" <=> file = "written"
  /\ NoPartialFile

\* Once the snapshot fits, nothing is added to it.
Fitted == pc \in {"open", "write"} \/ file = "written" => Output + 1 <= DiagnosticMaxBytes

IInv == TypeOK /\ Parts /\ Complete /\ Files /\ Fitted
-----------------------------------------------------------------------------

\* The length of the output is a number.
LEMMA OutputIsInt == TypeOK => Output \in Int
<1> SUFFICES ASSUME TypeOK PROVE Output \in Int
  OBVIOUS
<1>1. ASSUME NEW k \in Resources PROVE Bytes(k) \in Int
  <2>1. got[k] \in Int /\ ItemBytes[k] \in Int /\ WordBytes(word[k]) \in Int
    BY DiagnosticsAssumption DEF TypeOK, WordBytes
  <2>2. QED
    BY <2>1 DEF Bytes
<1>2. QED
  BY <1>1, DiagnosticsAssumption DEF Output, Resources, Kinds

\* A step that changes neither objects nor words leaves the length alone.
LEMMA OutputUnchanged == UNCHANGED <<got, word>> => Output' = Output
  BY DEF Output, Bytes, WordBytes

\* The reads, the cuts and the write keep the invariant.
THEOREM Invariance == Spec => []IInv
<1>1. Init => IInv
  <2> SUFFICES ASSUME Init PROVE IInv
    OBVIOUS
  <2>1. usable \in BOOLEAN /\ expired \in BOOLEAN /\ stuck \in BOOLEAN
    BY Zenon DEF Init
  <2>2. TypeOK
    BY <2>1, DiagnosticsAssumption DEF Init, TypeOK
  <2>3. Parts /\ Complete
    BY DEF Init, Parts, Unread, Complete, Failures, Resources, Kinds
  <2>4. Files /\ Fitted
    BY DEF Init, Files, NoPartialFile, Fitted
  <2>5. QED
    BY <2>2, <2>3, <2>4 DEF IInv
<1>2. IInv /\ [Next]_vars => IInv'
  <2> SUFFICES ASSUME IInv, [Next]_vars PROVE IInv'
    OBVIOUS
  <2> USE DiagnosticsAssumption DEF IInv, TypeOK, Resources, Kinds
  <2>1. (usable \in BOOLEAN /\ expired \in BOOLEAN /\ stuck \in BOOLEAN)'
    BY Zenon DEF Next, Code, Start, Fail, List, GetHostedCluster, ReadFails, Shrink,
       GiveUp, Fits, Open, WriteDiagnosticFile, Expire, vars
  <2>2. CASE Start
    BY <2>1, <2>2, OutputUnchanged
       DEF Start, Fail, Parts, Unread, Complete, Files, NoPartialFile, Fitted, Failures
  <2>3. ASSUME NEW k \in Resources, List(k) PROVE IInv'
    <3>1. k \in Kinds /\ pc = k /\ pc' = After[k]
      BY <2>3 DEF List
    <3> DEFINE Answer(n, d, m) ==
                 /\ held' = [held EXCEPT ![k] = n]
                 /\ deep' = deep \cup (IF m > 0 /\ k # "replicaSets" THEN d ELSE {})
                 /\ got' = [got EXCEPT ![k] = m]
                 /\ word' = [word EXCEPT ![k] =
                               IF m < n \/ k \in deep' THEN "truncated" ELSE "complete"]
    <3>2. PICK n \in 0 .. MaxItems, d \in {{}, {k}} :
            \E m \in 0 .. Least(n, DiagnosticLimit) : Answer(n, d, m)
      BY <2>3 DEF List
    <3>3. PICK m \in 0 .. DiagnosticLimit : m <= n /\ Answer(n, d, m)
      <4>1. \A m \in 0 .. Least(n, DiagnosticLimit) : m \in 0 .. DiagnosticLimit /\ m <= n
        BY DEF Least
      <4> HIDE DEF Answer
      <4>2. QED
        BY <3>2, <4>1
    <3>4. TypeOK'
      BY <2>1, <2>3, <3>1, <3>3 DEF List, After, Words
    <3>5. Parts'
      BY <3>1, <3>3 DEF Parts, Unread, After, Failures
    <3>6. Complete'
      BY <3>1, <3>3 DEF Complete
    <3>7. Files' /\ Fitted'
      BY <2>3, <3>1 DEF List, Files, NoPartialFile, Fitted, After
    <3>8. QED
      BY <3>4, <3>5, <3>6, <3>7
  <2>4. CASE GetHostedCluster
    <3>1. PICK w \in {"complete", "truncated", "read-failed"} :
            /\ word' = [word EXCEPT !["hostedCluster"] = w]
            /\ deep' = IF w = "truncated" THEN deep \cup {"hostedCluster"} ELSE deep
      BY <2>4 DEF GetHostedCluster
    <3>2. pc = "hostedCluster" /\ pc' = "fit"
      BY <2>4 DEF GetHostedCluster, After
    <3>3. TypeOK'
      BY <2>1, <2>4, <3>1, <3>2 DEF GetHostedCluster, Words, Failures
    <3>4. Parts' /\ Complete'
      BY <2>4, <3>1, <3>2 DEF GetHostedCluster, Parts, Unread, Complete
    <3>5. Files' /\ Fitted'
      BY <2>4, <3>2 DEF GetHostedCluster, Files, NoPartialFile, Fitted
    <3>6. QED
      BY <3>3, <3>4, <3>5
  <2>5. ASSUME NEW k \in Resources, ReadFails(k) PROVE IInv'
    <3>1. PICK w \in Failures : word' = [word EXCEPT ![k] = w]
      BY <2>5 DEF ReadFails, Failures
    <3>2. pc = k /\ pc' = After[k] /\ got[k] = 0
      BY <2>5 DEF ReadFails, Parts, Unread
    <3>3. TypeOK'
      BY <2>1, <2>5, <3>1, <3>2 DEF ReadFails, After, Words
    <3>4. Parts' /\ Complete'
      BY <2>5, <3>1, <3>2 DEF ReadFails, Parts, Unread, Complete, After, Failures
    <3>5. Files' /\ Fitted'
      BY <2>5, <3>2 DEF ReadFails, Files, NoPartialFile, Fitted, After
    <3>6. QED
      BY <3>3, <3>4, <3>5
  <2>6. CASE Shrink
    <3>1. PICK k \in Kinds : got[k] > 0 /\ Drop(k)
      BY <2>6 DEF Shrink
    <3>2. pc = "fit" /\ UNCHANGED <<pc, held, deep, file, result>>
      BY <2>6 DEF Shrink
    <3>3. TypeOK'
      BY <2>1, <3>1, <3>2 DEF Drop, Words
    <3>4. Parts' /\ Complete'
      BY <3>1, <3>2 DEF Drop, Parts, Unread, Complete, Failures
    <3>5. Files' /\ Fitted'
      BY <2>6, <3>2 DEF Shrink, Files, NoPartialFile, Fitted
    <3>6. QED
      BY <3>3, <3>4, <3>5
  <2>7. CASE GiveUp
    BY <2>1, <2>7, OutputUnchanged
       DEF GiveUp, Fail, Parts, Unread, Complete, Files, NoPartialFile, Fitted
  <2>8. CASE Fits
    BY <2>1, <2>8, OutputUnchanged, OutputIsInt
       DEF Fits, TooLarge, Parts, Unread, Complete, Files, NoPartialFile, Fitted
  <2>9. CASE Open
    BY <2>1, <2>9, OutputUnchanged
       DEF Open, Fail, Parts, Unread, Complete, Files, NoPartialFile, Fitted
  <2>10. CASE WriteDiagnosticFile
    BY <2>1, <2>10, OutputUnchanged
       DEF WriteDiagnosticFile, Parts, Unread, Complete, Files, NoPartialFile, Fitted
  <2>11. CASE Expire
    BY <2>1, <2>11, OutputUnchanged
       DEF Expire, Parts, Unread, Complete, Files, NoPartialFile, Fitted
  <2>12. CASE UNCHANGED vars
    BY <2>1, <2>12, OutputUnchanged
       DEF vars, Parts, Unread, Complete, Files, NoPartialFile, Fitted
  <2>13. QED
    BY <2>2, <2>3, <2>4, <2>5, <2>6, <2>7, <2>8, <2>9, <2>10, <2>11, <2>12 DEF Next, Code
<1>3. QED
  BY <1>1, <1>2, PTL DEF Spec

\* The type invariant of the snapshot and its file.
THEOREM TypeCorrect == Spec => []TypeOK
<1>1. IInv => TypeOK
  BY DEF IInv
<1>2. QED
  BY <1>1, Invariance, PTL

\* What a written snapshot calls complete is complete.
THEOREM CompleteMeansAllHolds == Spec => []CompleteMeansAll
<1>1. IInv => CompleteMeansAll
  BY DEF IInv, Complete, CompleteMeansAll
<1>2. QED
  BY <1>1, Invariance, PTL

\* A file that was written respects diagnosticMaxBytes with its newline.
THEOREM FitsTheLimitHolds == Spec => []FitsTheLimit
<1>1. IInv => FitsTheLimit
  BY DEF IInv, Fitted, FitsTheLimit
<1>2. QED
  BY <1>1, Invariance, PTL

\* An error leaves a file behind only when os.Remove failed.
THEOREM NoPartialFileHolds == Spec => []NoPartialFile
<1>1. IInv => NoPartialFile
  BY DEF IInv, Files
<1>2. QED
  BY <1>1, Invariance, PTL

\* No later step rewrites the word of a read that failed.
THEOREM FailuresStayVisibleHolds == Spec => FailuresStayVisible
<1> DEFINE Stay == \A k \in Resources : word[k] \in Failures => word'[k] = word[k]
<1>1. IInv /\ [Next]_vars => [Stay]_vars
  <2> SUFFICES ASSUME IInv, Next, NEW k \in Resources, word[k] \in Failures
               PROVE  word'[k] = word[k]
    OBVIOUS
  <2>1. k \notin Unread
    BY DEF IInv, Parts, Failures
  <2>2. ASSUME NEW j \in Resources, List(j) \/ ReadFails(j) PROVE word'[k] = word[k]
    <3>1. j # k
      BY <2>1, <2>2 DEF List, ReadFails, Unread, Resources, Kinds
    <3>2. QED
      BY <2>2, <3>1 DEF List, ReadFails, IInv, TypeOK
  <2>3. CASE GetHostedCluster
    <3>1. k # "hostedCluster"
      BY <2>1, <2>3 DEF GetHostedCluster, Unread
    <3>2. QED
      BY <2>3, <3>1 DEF GetHostedCluster, IInv, TypeOK
  <2>4. CASE Shrink
    <3>1. PICK j \in Kinds : got[j] > 0 /\ Drop(j)
      BY <2>4 DEF Shrink, Kinds
    <3>2. j # k
      BY <3>1 DEF IInv, Parts
    <3>3. QED
      BY <3>1, <3>2 DEF Drop, IInv, TypeOK
  <2>5. CASE Start \/ GiveUp \/ Fits \/ Open \/ WriteDiagnosticFile \/ Expire
    BY <2>5 DEF Start, Fail, GiveUp, Fits, Open, WriteDiagnosticFile, Expire
  <2>6. QED
    BY <2>2, <2>3, <2>4, <2>5 DEF Next, Code
<1>2. QED
  BY <1>1, Invariance, PTL DEF Spec, FailuresStayVisible
=============================================================================
