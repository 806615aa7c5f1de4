-------------------------- MODULE Verifiers_proofs --------------------------
(***************************************************************************)
(* TLAPS proofs about pkg/verifiers: RunVerifiers for any finite set of    *)
(* verifiers, then what the verifiers it runs conclude, for any bounds.    *)
(***************************************************************************)
EXTENDS RunVerifiers, Verifiers, FiniteSetTheorems, WellFoundedInduction, TLAPS

-----------------------------------------------------------------------------
(* RunVerifiers.                                                           *)

RangeOf(s) == {s[i] : i \in 1 .. Len(s)}

\* Goroutines that wg counts, and those whose error went into the channel.
Live == {v \in Verifiers : task[v] \in {"running", "sending", "leaving"}}
Sent == {v \in Verifiers : verdict[v] = "failed" /\ task[v] \in {"leaving", "exited"}}

\* The verdict follows from where the goroutine is.
Stages ==
  \A v \in Verifiers :
    /\ verdict[v] = "pending" <=> task[v] \in {"unborn", "running"}
    /\ task[v] = "sending" => verdict[v] = "failed"

Counting ==
  /\ wg = Cardinality(Live)
  /\ Len(errs) + Len(errCh) = Cardinality(Sent)
  /\ RangeOf(errs) \cup RangeOf(errCh) = Sent

Phases ==
  /\ main # "spawn" => \A v \in Verifiers : task[v] # "unborn"
  /\ closed => \A v \in Verifiers : task[v] = "exited"
  /\ closed <=> main \in {"drain", "returned"}
  /\ main = "returned" => errCh = <<>>

IInv == TypeOK /\ Stages /\ Counting /\ Phases

-----------------------------------------------------------------------------

\* Sending an error adds its verifier to what the channel holds.
LEMMA RangeAppend ==
  ASSUME NEW S, NEW s \in Seq(S), NEW x \in S
  PROVE  /\ Append(s, x) \in Seq(S) /\ Len(Append(s, x)) = Len(s) + 1
         /\ RangeOf(Append(s, x)) = RangeOf(s) \cup {x}
<1>1. Append(s, x) \in Seq(S) /\ Len(Append(s, x)) = Len(s) + 1
  OBVIOUS
<1>2. \A i \in 1 .. Len(s) : Append(s, x)[i] = s[i]
  OBVIOUS
<1>3. Append(s, x)[Len(s) + 1] = x
  OBVIOUS
<1>4. Len(s) \in Nat
  OBVIOUS
<1>5. 1 .. Len(Append(s, x)) = (1 .. Len(s)) \cup {Len(s) + 1}
  BY <1>1, <1>4
<1> QED
  BY <1>1, <1>2, <1>3, <1>5, Zenon DEF RangeOf

\* Receiving takes one verifier off the channel.
LEMMA RangeTail ==
  ASSUME NEW S, NEW s \in Seq(S), s # <<>>
  PROVE  /\ Head(s) \in S /\ Tail(s) \in Seq(S) /\ Len(Tail(s)) = Len(s) - 1
         /\ RangeOf(s) = {Head(s)} \cup RangeOf(Tail(s))
<1>1. Head(s) \in S /\ Tail(s) \in Seq(S) /\ Len(Tail(s)) = Len(s) - 1
  OBVIOUS
<1>2. Len(s) \in Nat /\ Len(s) >= 1 /\ Head(s) = s[1]
  OBVIOUS
<1>3. \A i \in 1 .. Len(Tail(s)) : Tail(s)[i] = s[i + 1]
  OBVIOUS
<1>4. ASSUME NEW i \in 1 .. Len(s)
      PROVE  s[i] \in {Head(s)} \cup RangeOf(Tail(s))
  <2>1. CASE i = 1
    BY <2>1, <1>2
  <2>2. CASE i # 1
    <3>1. i - 1 \in 1 .. Len(Tail(s)) /\ s[i] = Tail(s)[i - 1]
      BY <2>2, <1>1, <1>2, <1>3
    <3> QED BY <3>1 DEF RangeOf
  <2> QED BY <2>1, <2>2
<1>5. ASSUME NEW j \in 1 .. Len(Tail(s)) PROVE Tail(s)[j] \in RangeOf(s)
  <2>1. j + 1 \in 1 .. Len(s) /\ Tail(s)[j] = s[j + 1]
    BY <1>1, <1>2, <1>3
  <2> QED BY <2>1 DEF RangeOf
<1>6. Head(s) \in RangeOf(s)
  BY <1>2 DEF RangeOf
<1> QED
  BY <1>1, <1>4, <1>5, <1>6, Zenon DEF RangeOf

\* The goroutines are finitely many, and so are those counted.
LEMMA FiniteParts ==
  /\ IsFiniteSet(Live) /\ IsFiniteSet(Sent)
  /\ Cardinality(Live) \in Nat /\ Cardinality(Sent) \in Nat
<1>1. Live \in SUBSET Verifiers /\ Sent \in SUBSET Verifiers
  BY DEF Live, Sent
<1> QED
  BY <1>1, VerifiersAssumption, FS_Subset, FS_CardinalityType

-----------------------------------------------------------------------------

\* The inductive invariant: the counter is the number of live goroutines and
\* the channel together with the errors received holds the failures sent.
THEOREM Invariance == Spec => []IInv
<1>1. Init => IInv
  <2> SUFFICES ASSUME Init PROVE IInv
    OBVIOUS
  <2>1. TypeOK
    <3>1. closed \in BOOLEAN BY Zenon DEF Init
    <3> QED BY <3>1 DEF Init, TypeOK
  <2>2. Live = {} /\ Sent = {}
    BY DEF Init, Live, Sent
  <2>3. RangeOf(errs) = {} /\ RangeOf(errCh) = {} /\ Len(errs) = 0 /\ Len(errCh) = 0
    BY DEF Init, RangeOf
  <2>4. Counting
    BY <2>2, <2>3, FS_EmptySet DEF Init, Counting
  <2>5. Stages /\ Phases
    BY DEF Init, Stages, Phases
  <2> QED BY <2>1, <2>4, <2>5 DEF IInv
<1>2. IInv /\ [Next]_vars => IInv'
  <2> SUFFICES ASSUME IInv, [Next]_vars PROVE IInv'
    OBVIOUS
  <2> USE DEF IInv
  <2>1. ASSUME NEW v \in Verifiers, Spawn(v) PROVE IInv'
    <3>1. Live' = Live \cup {v} /\ v \notin Live /\ Sent' = Sent
      BY <2>1 DEF Spawn, Live, Sent, TypeOK
    <3>2. Cardinality(Live') = Cardinality(Live) + 1
      BY <3>1, FiniteParts, FS_AddElement
    <3>3. Counting'
      BY <2>1, <3>1, <3>2 DEF Spawn, Counting, RangeOf
    <3>4. TypeOK' /\ Stages' /\ Phases'
      BY <2>1 DEF Spawn, TypeOK, Stages, Phases
    <3> QED BY <3>3, <3>4
  <2>2. CASE LoopDone
    BY <2>2 DEF LoopDone, TypeOK, Stages, Counting, Phases, Live, Sent, RangeOf
  <2>3. CASE WaitAndClose
    <3>1. Live = {}
      BY <2>3, FiniteParts, FS_EmptySet DEF WaitAndClose, Counting
    <3>2. \A v \in Verifiers : task[v] = "exited"
      BY <2>3, <3>1 DEF WaitAndClose, Live, Phases, TypeOK
    <3>3. TypeOK'
      <4>1. closed' \in BOOLEAN BY <2>3, Zenon DEF WaitAndClose
      <4> QED BY <2>3, <4>1 DEF WaitAndClose, TypeOK
    <3>4. Stages' /\ Counting'
      BY <2>3 DEF WaitAndClose, Stages, Counting, Live, Sent, RangeOf
    <3>5. Phases'
      BY <2>3, <3>2 DEF WaitAndClose, Phases
    <3> QED BY <3>3, <3>4, <3>5
  <2>4. CASE Receive
    <3>1. errCh \in Seq(Verifiers) /\ errCh # <<>> /\ errs \in Seq(Verifiers)
      BY <2>4 DEF Receive, TypeOK
    <3>2. /\ Head(errCh) \in Verifiers /\ errCh' \in Seq(Verifiers)
          /\ Len(errCh') = Len(errCh) - 1
          /\ RangeOf(errCh) = {Head(errCh)} \cup RangeOf(errCh')
      BY <2>4, <3>1, RangeTail DEF Receive
    <3>3. /\ errs' \in Seq(Verifiers) /\ Len(errs') = Len(errs) + 1
          /\ RangeOf(errs') = RangeOf(errs) \cup {Head(errCh)}
      BY <2>4, <3>1, <3>2, RangeAppend DEF Receive
    <3>4. Live' = Live /\ Sent' = Sent
      BY <2>4 DEF Receive, Live, Sent
    <3>5. Len(errCh) \in Nat /\ Len(errs) \in Nat
      BY <3>1
    <3>6. Counting'
      <4>1. Len(errs') + Len(errCh') = Len(errs) + Len(errCh)
        BY <3>2, <3>3, <3>5
      <4>2. RangeOf(errs') \cup RangeOf(errCh') = RangeOf(errs) \cup RangeOf(errCh)
        BY <3>2, <3>3, Zenon
      <4>3. wg' = wg
        BY <2>4 DEF Receive
      <4> QED BY <4>1, <4>2, <4>3, <3>4, FiniteParts DEF Counting
    <3>7. TypeOK' /\ Stages' /\ Phases'
      BY <2>4, <3>2, <3>3 DEF Receive, TypeOK, Stages, Phases
    <3> QED BY <3>6, <3>7
  <2>5. CASE Return
    BY <2>5 DEF Return, TypeOK, Stages, Counting, Phases, Live, Sent, RangeOf
  <2>6. ASSUME NEW v \in Verifiers, VerifyReturns(v) PROVE IInv'
    <3>1. Live' = Live /\ ~closed
      BY <2>6 DEF VerifyReturns, Live, TypeOK, Phases
    <3>2. CASE verdict' = [verdict EXCEPT ![v] = "failed"] /\
               task' = [task EXCEPT ![v] = "sending"]
      <4>1. Sent' = Sent
        BY <2>6, <3>2 DEF VerifyReturns, Sent, TypeOK, Stages
      <4> QED
        BY <2>6, <3>1, <3>2, <4>1
        DEF VerifyReturns, TypeOK, Stages, Counting, Phases, RangeOf
    <3>3. CASE verdict' = [verdict EXCEPT ![v] = "ok"] /\
               task' = [task EXCEPT ![v] = "leaving"]
      <4>1. Sent' = Sent
        BY <2>6, <3>3 DEF VerifyReturns, Sent, TypeOK, Stages
      <4> QED
        BY <2>6, <3>1, <3>3, <4>1
        DEF VerifyReturns, TypeOK, Stages, Counting, Phases, RangeOf
    <3> QED BY <2>6, <3>2, <3>3 DEF VerifyReturns
  <2>7. ASSUME NEW v \in Verifiers, Send(v) PROVE IInv'
    <3>1. /\ errCh' \in Seq(Verifiers) /\ Len(errCh') = Len(errCh) + 1
          /\ RangeOf(errCh') = RangeOf(errCh) \cup {v}
      BY <2>7, RangeAppend DEF Send, TypeOK
    <3>2. Live' = Live /\ Sent' = Sent \cup {v} /\ v \notin Sent
      BY <2>7 DEF Send, Live, Sent, TypeOK, Stages
    <3>3. Cardinality(Sent') = Cardinality(Sent) + 1
      BY <3>2, FiniteParts, FS_AddElement
    <3>4. Len(errCh) \in Nat /\ Len(errs) \in Nat
      BY DEF TypeOK
    <3>5. Counting'
      <4>1. wg' = wg /\ errs' = errs
        BY <2>7 DEF Send
      <4>2. Len(errs') + Len(errCh') = Cardinality(Sent')
        BY <3>1, <3>3, <3>4, <4>1, FiniteParts DEF Counting
      <4>3. RangeOf(errs') \cup RangeOf(errCh') = Sent'
        BY <3>1, <3>2, <4>1, Zenon DEF Counting
      <4> QED BY <3>2, <4>1, <4>2, <4>3 DEF Counting
    <3>6. TypeOK' /\ Stages' /\ Phases'
      BY <2>7, <3>1 DEF Send, TypeOK, Stages, Phases
    <3> QED BY <3>5, <3>6
  <2>8. ASSUME NEW v \in Verifiers, Leave(v) PROVE IInv'
    <3>1. Live' = Live \ {v} /\ v \in Live /\ Sent' = Sent
      BY <2>8 DEF Leave, Live, Sent, TypeOK
    <3>2. Cardinality(Live') = Cardinality(Live) - 1 /\ Cardinality(Live') \in Nat
      <4>1. IsFiniteSet(Live \ {v}) /\ Cardinality(Live \ {v}) = Cardinality(Live) - 1
        BY <3>1, FiniteParts, FS_RemoveElement
      <4> QED BY <3>1, <4>1, FS_CardinalityType
    <3>3. wg' = Cardinality(Live') /\ wg' \in Nat
      BY <2>8, <3>2 DEF Leave, Counting
    <3>4. Counting'
      BY <2>8, <3>1, <3>3 DEF Leave, Counting, RangeOf
    <3>5. TypeOK' /\ Stages' /\ Phases'
      BY <2>8, <3>3 DEF Leave, TypeOK, Stages, Phases
    <3> QED BY <3>4, <3>5
  <2>9. CASE UNCHANGED vars
    BY <2>9 DEF vars, TypeOK, Stages, Counting, Phases, Live, Sent, RangeOf
  <2> QED
    BY <2>1, <2>2, <2>3, <2>4, <2>5, <2>6, <2>7, <2>8, <2>9 DEF Next, Code
<1>3. QED
  BY <1>1, <1>2, PTL DEF Spec

\* In RunVerifiers no goroutine ever blocks on the error channel or sends on
\* a closed one, however many verifiers there are and however many fail.
THEOREM SendNeverBlocksHolds == Spec => []SendNeverBlocks
<1>1. IInv => SendNeverBlocks
  <2> SUFFICES ASSUME IInv, NEW v \in Verifiers, task[v] = "sending"
               PROVE  Len(errCh) < Capacity /\ ~closed
    BY DEF SendNeverBlocks
  <2>1. Sent \in SUBSET Verifiers /\ Sent # Verifiers
    BY DEF Sent
  <2>2. Cardinality(Sent) <= Capacity /\ Cardinality(Sent) # Capacity
    BY <2>1, VerifiersAssumption, FS_Subset DEF Capacity
  <2>3. Capacity \in Nat
    BY VerifiersAssumption, FS_CardinalityType DEF Capacity
  <2>4. Len(errCh) \in Nat /\ Len(errs) \in Nat
    BY DEF IInv, TypeOK
  <2>5. Len(errCh) < Capacity
    BY <2>2, <2>3, <2>4, FiniteParts DEF IInv, Counting
  <2>6. ~closed
    BY DEF IInv, Phases
  <2> QED BY <2>5, <2>6
<1>2. QED
  BY <1>1, Invariance, PTL

\* What RunVerifiers returns is exactly the set of failed verifiers, each once.
THEOREM EveryFailureReportedHolds == Spec => []EveryFailureReported
<1>1. IInv => EveryFailureReported
  <2> SUFFICES ASSUME IInv, main = "returned" PROVE EveryFailureReported
    BY DEF EveryFailureReported
  <2>1. errCh = <<>> /\ \A v \in Verifiers : task[v] = "exited"
    BY DEF IInv, Phases
  <2>2. \A v \in Verifiers : verdict[v] # "pending"
    BY <2>1 DEF IInv, Stages
  <2>3. RangeOf(errCh) = {} /\ Len(errCh) = 0
    BY <2>1 DEF RangeOf
  <2>4. Sent = {v \in Verifiers : verdict[v] = "failed"}
    BY <2>1 DEF Sent
  <2>5. Reported = Sent
    BY <2>3 DEF IInv, Counting, RangeOf, Reported
  <2>6. Len(errs) = Cardinality(Sent)
    BY <2>3 DEF IInv, Counting, TypeOK
  <2> QED BY <2>2, <2>4, <2>5, <2>6 DEF EveryFailureReported
<1>2. QED
  BY <1>1, Invariance, PTL

\* RunVerifiers implements VerifierJoin: a returning Verify is a decision, the
\* return of RunVerifiers is the join, and every other step is invisible.
THEOREM Refinement == Spec => ImplementsJoin
<1>1. Init => Abstract!JoinInit
  BY DEF Init, Abstract!JoinInit
<1>2. IInv /\ [Next]_vars => [Abstract!JoinNext]_(Abstract!joinVars)
  <2> SUFFICES ASSUME IInv, [Next]_vars
               PROVE  [Abstract!JoinNext]_(Abstract!joinVars)
    OBVIOUS
  <2> USE DEF IInv, Abstract!joinVars
  <2>1. ASSUME NEW v \in Verifiers, VerifyReturns(v)
        PROVE  Abstract!JoinNext
    <3>1. verdict[v] = "pending" /\ main # "returned"
      BY <2>1 DEF VerifyReturns, Stages, Phases
    <3>2. Abstract!Decide(v)
      BY <2>1, <3>1 DEF VerifyReturns, Abstract!Decide
    <3> QED BY <3>2 DEF Abstract!JoinNext
  <2>2. CASE Return
    <3>1. errCh = <<>> /\ \A v \in Verifiers : task[v] = "exited"
      BY <2>2 DEF Return, Phases
    <3>2. \A v \in Verifiers : verdict[v] # "pending"
      BY <3>1 DEF Stages
    <3>3. RangeOf(errCh) = {}
      BY <3>1 DEF RangeOf
    <3>4. Reported = {v \in Verifiers : verdict[v] = "failed"}
      BY <3>1, <3>3 DEF Counting, RangeOf, Reported, Sent
    <3>5. Reported' = Reported
      BY <2>2 DEF Return, Reported
    <3> QED
      BY <2>2, <3>2, <3>4, <3>5 DEF Return, Abstract!Join, Abstract!JoinNext
  <2>3. ASSUME NEW v \in Verifiers, Spawn(v) \/ Send(v) \/ Leave(v)
        PROVE  UNCHANGED Abstract!joinVars
    BY <2>3 DEF Spawn, Send, Leave, Reported
  <2>4. CASE LoopDone \/ WaitAndClose \/ Receive
    BY <2>4 DEF LoopDone, WaitAndClose, Receive
  <2>5. CASE UNCHANGED vars
    BY <2>5 DEF vars, Reported
  <2> QED
    BY <2>1, <2>2, <2>3, <2>4, <2>5 DEF Next, Code
<1>3. QED
  BY <1>1, <1>2, Invariance, PTL DEF Spec, ImplementsJoin, Abstract!JoinSpec

\* The type invariant of RunVerifiers: the counter of the wait group never goes below
\* zero, which would panic, for any finite set of verifiers.
THEOREM TypeCorrect == Spec => []TypeOK
<1>1. IInv => TypeOK
  BY DEF IInv
<1>2. QED
  BY <1>1, Invariance, PTL

-----------------------------------------------------------------------------
(* The verifiers side by side.                                             *)

\* A step of the composition is a step, or none, of every verifier.
LEMMA Composition ==
  ASSUME [VerifiersNext]_verifiersVars
  PROVE  /\ [RolloutsNext]_rolloutsVars /\ [OAuthNext]_oauthVars
         /\ [CloudTrailNext]_trailVars /\ [ClusterVerdictsNext]_said
         /\ [ServiceVerdictsNext]_told /\ [AccountNext]_acctVars
BY DEF VerifiersNext, verifiersVars

-----------------------------------------------------------------------------
(* The snapshots of the deployment revisions.                              *)

\* Nothing is noted before the first snapshot and no deployment is named before
\* the second.
Unobserved ==
  /\ revPc \in {"start", "first"} => rolled = {} /\ annotated = {} /\ deleted = {}
  /\ revPc \in {"start", "first", "observe", "second"} => changed = {}

\* A deployment of the first snapshot: while it is not deleted its revision only
\* grows, with every rollout, and while nobody touches it it stays.
Drift ==
  Observed => \A d \in Deployments : initial[d] # Absent =>
    /\ d \notin deleted => revision[d] >= initial[d]
    /\ d \notin deleted /\ d \in rolled => revision[d] > initial[d]
    /\ d \notin rolled \cup annotated \cup deleted => revision[d] = initial[d]

RolloutsInv == RolloutsTypeOK /\ Unobserved /\ Drift /\ RolloutsVerdict

\* Controllers and snapshots keep the invariant.
LEMMA RolloutsStep ==
  ASSUME RolloutsInv, [RolloutsNext]_rolloutsVars
  PROVE  RolloutsInv'
<1> USE RolloutsAssumption DEF RolloutsInv, Revisions, Absent, Bare, rolloutsHist
<1>1. CASE RolloutsBegin
  BY <1>1 DEF RolloutsBegin, RolloutsTypeOK, Unobserved, Drift, Observed, RolloutsVerdict,
     NoUnseenRollout, NoFalseAlarm
<1>2. CASE TakeInitial
  BY <1>2 DEF TakeInitial, RolloutsTypeOK, Unobserved, Drift, Observed, RolloutsVerdict,
     NoUnseenRollout, NoFalseAlarm
<1>3. CASE ObservationFails \/ PeriodOver
  BY <1>3 DEF ObservationFails, PeriodOver, RolloutsTypeOK, Unobserved, Drift, Observed,
     RolloutsVerdict, NoUnseenRollout, NoFalseAlarm
<1>4. CASE TakeFinal
  <2>1. RolloutsTypeOK' /\ Unobserved' /\ Drift'
    BY <1>4 DEF TakeFinal, Changed, RolloutsTypeOK, Unobserved, Drift, Observed
  <2>2. NoUnseenRollout'
    BY <1>4 DEF TakeFinal, Changed, RolloutsTypeOK, Drift, Observed, NoUnseenRollout
  <2>3. NoFalseAlarm'
    BY <1>4 DEF TakeFinal, Changed, RolloutsTypeOK, Drift, Observed, NoFalseAlarm
  <2> QED BY <2>1, <2>2, <2>3 DEF RolloutsVerdict
<1>5. ASSUME NEW d \in Deployments, revPc \in {"first", "observe", "second"},
             RollOut(d) \/ Annotate(d) \/ CreateDeployment(d) \/ DeleteDeployment(d)
      PROVE  RolloutsInv'
  <2> USE DEF RollOut, Annotate, CreateDeployment, DeleteDeployment, Note
  <2>1. RolloutsTypeOK'
    BY <1>5 DEF RolloutsTypeOK
  <2>2. Unobserved'
    BY <1>5 DEF Unobserved, Observed
  <2>3. Drift'
    BY <1>5 DEF RolloutsTypeOK, Drift, Observed
  <2>4. RolloutsVerdict'
    BY <1>5 DEF Unobserved, RolloutsVerdict, NoUnseenRollout, NoFalseAlarm
  <2> QED BY <2>1, <2>2, <2>3, <2>4
<1>6. CASE UNCHANGED rolloutsVars
  BY <1>6 DEF rolloutsVars, RolloutsTypeOK, Unobserved, Drift, Observed, RolloutsVerdict,
     NoUnseenRollout, NoFalseAlarm
<1> QED BY <1>1, <1>2, <1>3, <1>4, <1>5, <1>6 DEF RolloutsNext

-----------------------------------------------------------------------------
(* The two waits of VerifyOAuthServerReadiness.                            *)

\* Where the clock may be while a wait is under way, after it and when the call is over.
Clock ==
  /\ oauthPc = "start" => now = 0
  /\ oauthPc = "pods" => deadline = Timeout /\ now <= deadline + ListTime + PodPoll
  /\ oauthPc \in {"endpoint", "passed"} =>
       /\ deadline <= 2 * Timeout + ListTime
       /\ deadline <= podsAt + Timeout + ListTime
       /\ now <= deadline + RequestTime + EndpointPoll
       /\ oauthPc = "passed" => now <= deadline + RequestTime

OAuthInv == OAuthTypeOK /\ Clock /\ OAuthTiming

\* The arithmetic of a wait: t is the timeout, l, r and e what a poll may take, k what
\* one took, n the clock, d the deadline and p an earlier time.
LEMMA WaitBegins ==
  ASSUME NEW t \in Nat, NEW l \in Nat, NEW k \in Nat, NEW n \in Nat, NEW p \in Nat, k <= l
  PROVE  /\ n <= p => (n + k) + t <= p + t + l
         /\ n <= t => (n + k) + t <= 2 * t + l
OBVIOUS

\* The same for the poll that is the last one.
LEMMA WaitBounds ==
  ASSUME NEW t \in Nat, NEW l \in Nat, NEW r \in Nat, NEW e \in Nat,
         NEW n \in Nat, NEW d \in Nat, NEW p \in Nat
  PROVE  /\ n <= (n + t) + r + e
         /\ d <= 2 * t + l /\ n <= d + r => n <= 2 * t + l + r
         /\ d <= 2 * t + l /\ n <= d + r + e => n <= 2 * t + l + r + e
         /\ d <= p + t + l /\ n <= d + r => n - p <= l + t + r
OBVIOUS

\* Every poll keeps the clock within the bounds of its wait.
LEMMA OAuthStep ==
  ASSUME OAuthInv, [OAuthNext]_oauthVars
  PROVE  OAuthInv'
<1>1. OAuthTypeOK' /\ Clock'
  <2> USE OAuthAssumption DEF OAuthInv, OAuthTypeOK, Clock
  <2>1. CASE OAuthBegin BY <2>1 DEF OAuthBegin
  <2>2. CASE PastDeadline \/ OAuthError BY <2>2 DEF PastDeadline, OAuthError
  <2>3. CASE PodsNotReady BY <2>3 DEF PodsNotReady
  <2>4. CASE PodsReady
    <3>1. PICK t \in 0..ListTime : now' = now + t /\ podsAt' \in now..now'
      BY <2>4 DEF PodsReady
    <3>2. /\ oauthPc' = "endpoint" /\ now <= Timeout /\ deadline' = now' + Timeout
          /\ now \in Nat /\ t \in Nat /\ t <= ListTime
      BY <2>4 DEF PodsReady
    <3>3. now' \in Nat /\ deadline' \in Nat /\ podsAt' \in Nat /\ now <= podsAt'
      BY <3>1, <3>2
    <3>4. deadline' = (now + t) + Timeout
      BY <3>1, <3>2
    <3>5. deadline' <= podsAt' + Timeout + ListTime /\ deadline' <= 2 * Timeout + ListTime
      <4>1. now \in Nat /\ t \in Nat /\ t <= ListTime /\ now <= Timeout /\ now <= podsAt'
        BY <3>2, <3>3
      <4>2. /\ (now + t) + Timeout <= podsAt' + Timeout + ListTime
            /\ (now + t) + Timeout <= 2 * Timeout + ListTime
        BY <3>3, <4>1, WaitBegins
      <4> QED BY <3>4, <4>2, Zenon
    <3>6. now' <= (now' + Timeout) + RequestTime + EndpointPoll
      BY <3>3, WaitBounds, Zenon
    <3> QED BY <3>2, <3>3, <3>5, <3>6
  <2>5. CASE NotServing BY <2>5 DEF NotServing
  <2>6. CASE Serving BY <2>6 DEF Serving
  <2>7. CASE UNCHANGED oauthVars BY <2>7 DEF oauthVars
  <2> QED BY <2>1, <2>2, <2>3, <2>4, <2>5, <2>6, <2>7 DEF OAuthNext
<1>2. now' \in Nat /\ deadline' \in Nat /\ podsAt' \in Nat
  BY <1>1 DEF OAuthTypeOK
<1>3. CASE oauthPc' = "passed"
  <2>1. /\ deadline' <= 2 * Timeout + ListTime /\ deadline' <= podsAt' + Timeout + ListTime
        /\ now' <= deadline' + RequestTime /\ now' <= deadline' + RequestTime + EndpointPoll
    BY <1>1, <1>3 DEF Clock
  <2>2. /\ now' <= 2 * Timeout + ListTime + RequestTime
        /\ now' <= 2 * Timeout + ListTime + RequestTime + EndpointPoll
        /\ now' - podsAt' <= ListTime + Timeout + RequestTime
    BY <1>2, <2>1, OAuthAssumption, WaitBounds, Zenon
  <2> QED BY <1>1, <2>2 DEF OAuthInv, OAuthTiming, OAuthBounded, ReadinessIsRecent
<1>4. CASE oauthPc' = "endpoint"
  <2>1. deadline' <= 2 * Timeout + ListTime /\ now' <= deadline' + RequestTime + EndpointPoll
    BY <1>1, <1>4 DEF Clock
  <2>2. now' <= 2 * Timeout + ListTime + RequestTime + EndpointPoll
    BY <1>2, <2>1, OAuthAssumption, WaitBounds, Zenon
  <2> QED BY <1>1, <1>4, <2>2 DEF OAuthInv, OAuthTiming, OAuthBounded, ReadinessIsRecent
<1>5. CASE oauthPc' \in {"start", "pods"}
  <2>1. now' = 0 \/ now' <= Timeout + ListTime + PodPoll
    BY <1>1, <1>5 DEF Clock
  <2>2. now' <= Timeout + ListTime + PodPoll
    <3>1. 0 <= Timeout + ListTime + PodPoll BY OAuthAssumption
    <3> QED BY <2>1, <3>1
  <2> QED BY <1>1, <1>5, <2>2 DEF OAuthInv, OAuthTiming, OAuthBounded, ReadinessIsRecent
<1>6. CASE oauthPc' = "failed"
  <2>1. now' = now
    BY <1>6 DEF OAuthNext, OAuthBegin, PastDeadline, OAuthError, PodsNotReady, PodsReady,
       NotServing, Serving, oauthVars
  <2> QED BY <1>1, <1>6, <2>1 DEF OAuthInv, OAuthTiming, OAuthBounded, ReadinessIsRecent
<1> QED BY <1>1, <1>3, <1>4, <1>5, <1>6 DEF OAuthTypeOK

-----------------------------------------------------------------------------
(* The pages of CloudTrail.                                                *)

\* Another page is read only when there is one and it may be; the denials on the
\* pages that were read are known; the verifier passes when no page is left that it
\* may read.
Pages ==
  /\ trailPc = "start" => page = 0 /\ denied = {}
  /\ trailPc = "lookup" => page < Len(log) /\ page < MaxPages
  /\ denied = {i \in 1..page : IsDenied(log[i])}
  /\ trailPc = "passed" => denied = {} /\ (page = Len(log) \/ page = MaxPages)

TrailInv == CloudTrailTypeOK /\ Pages

\* Reading a page keeps the account of the pages.
LEMMA TrailStep ==
  ASSUME TrailInv, [CloudTrailNext]_trailVars
  PROVE  TrailInv'
<1> USE CloudTrailAssumption DEF TrailInv
<1>1. CASE CloudTrailBegin
  <2>1. PICK n \in 1..MaxLog : log' \in [1..n -> Events]
    BY <1>1 DEF CloudTrailBegin
  <2>2. log' \in Seq(Events) /\ Len(log') = n
    BY <2>1
  <2>3. page = 0 /\ denied = {} /\ page' = 0 /\ denied' = {} /\ trailPc' = "lookup"
    BY <1>1 DEF CloudTrailBegin, Pages
  <2> QED BY <2>2, <2>3 DEF CloudTrailTypeOK, Pages
<1>2. CASE Lookup
  <2>1. /\ page \in Nat /\ page' = page + 1 /\ log' = log /\ Len(log) \in Nat
        /\ page' <= Len(log) /\ page' <= MaxPages
    BY <1>2 DEF Lookup, CloudTrailTypeOK, Pages
  <2>2. denied' = {i \in 1..page' : IsDenied(log'[i])}
    <3>1. denied' = denied \cup {i \in {page'} : IsDenied(log[i])}
      BY <1>2 DEF Lookup
    <3>2. 1..page' = (1..page) \cup {page'}
      BY <2>1
    <3>3. denied = {i \in 1..page : IsDenied(log[i])}
      BY DEF Pages
    <3> QED BY <2>1, <3>1, <3>2, <3>3, Zenon
  <2>3. CloudTrailTypeOK'
    BY <1>2, <2>1, <2>2 DEF Lookup, CloudTrailTypeOK
  <2>4. Pages'
    BY <1>2, <2>1, <2>2 DEF Lookup, Pages
  <2> QED BY <2>3, <2>4
<1>3. CASE LookupFails
  BY <1>3 DEF LookupFails, CloudTrailTypeOK, Pages
<1>4. CASE UNCHANGED trailVars
  BY <1>4 DEF trailVars, CloudTrailTypeOK, Pages
<1> QED BY <1>1, <1>2, <1>3, <1>4 DEF CloudTrailNext

-----------------------------------------------------------------------------
(* The specs on the AWS account.                                           *)

\* What an account may hold, and which spec is where.
Course ==
  /\ account.volumes \subseteq Volumes /\ account.key \in Keys
  /\ acctPc = "start" => ~set /\ \A s \in AccountSpecs : outcome[s] = "unrun"
  /\ acctPc \in {"start", "suite"} => acctCur = "none"
  /\ acctPc = "query" => acctCur \in KmsSpecs
  /\ acctPc \in {"init", "tag", "verify"} => acctCur \in AccountSpecs
  /\ acctPc = "prefix" => acctCur \in {"iam", "key"}

Running == acctPc \in {"init", "prefix", "tag", "verify"}

\* cfg.AWSRegion is the region of the cluster exactly when it was configured so or a
\* KMS spec has set it; for a spec that runs that is what it was when the spec began,
\* or the spec has set it; and the clients of the spec are made for it.
RegionKept ==
  /\ region = "cluster" <=> account.home \/ set
  /\ \A s \in ahead : outcome[s] # "unrun" \/ acctCur = s
  /\ Running /\ acctCur \in KmsSpecs => region = "cluster"
  /\ Running /\ acctCur \notin KmsSpecs => (acctCur \in ahead <=> ~set)
  /\ acctPc \in {"prefix", "tag", "verify"} => clients = region
  /\ acctPc = "verify" /\ acctCur \in {"tags", "ebs"} => tag \/ acctCur \in excused

AccountInv == AccountTypeOK /\ Course /\ RegionKept /\ AccountVerdicts

\* Every step of a spec keeps the region it was called for, and its verdict is right.
LEMMA AccountStep ==
  ASSUME AccountInv, [AccountNext]_acctVars
  PROVE  AccountInv'
<1> USE DEF AccountInv, acctHist
<1>1. CASE AccountBegin
  <2>1. account'.volumes \subseteq Volumes /\ account'.key \in Keys
    BY <1>1, AccountAssumption DEF AccountBegin
  <2>2. region' = IF account'.home THEN "cluster" ELSE "configured"
    BY <1>1 DEF AccountBegin
  <2>3. ~set
    BY <1>1 DEF AccountBegin, Course
  <2>4. AccountTypeOK'
    BY <1>1, <2>2 DEF AccountBegin, AccountTypeOK
  <2>5. Course' /\ RegionKept'
    BY <1>1, <2>1, <2>2, <2>3 DEF AccountBegin, Course, RegionKept, Running
  <2>6. AccountVerdicts'
    BY <1>1 DEF AccountBegin, Course, AccountSpecs, KmsSpecs, AccountVerdicts,
       DenialsMissedOnlyAstray, TagsVerdict, EncryptionVerdict
  <2> QED BY <2>4, <2>5, <2>6
<1>2. ASSUME NEW s \in AccountSpecs, TakeSpec(s) PROVE AccountInv'
  <2>1. AccountTypeOK'
    BY <1>2 DEF TakeSpec, AccountTypeOK
  <2>0. s # "none" /\ s \notin ahead
    BY <1>2 DEF TakeSpec, Course, RegionKept, AccountSpecs, KmsSpecs
  <2>2. Course' /\ RegionKept'
    BY <1>2, <2>0 DEF TakeSpec, Course, RegionKept, Running, AccountTypeOK, AccountSpecs
  <2>3. \A r \in AccountSpecs : outcome[r] # "unrun" => (r \in ahead' <=> r \in ahead)
    BY <1>2 DEF TakeSpec, AccountTypeOK
  <2>4. AccountVerdicts'
    BY <1>2, <2>3 DEF TakeSpec, AccountSpecs, KmsSpecs, AccountVerdicts, TaggedVolumes, Astray,
       DenialsMissedOnlyAstray, TagsVerdict, EncryptionVerdict
  <2> QED BY <2>1, <2>2, <2>4
<1>3. ASSUME QueryCluster \/ InitAWSClients \/ ResolveOperatorRolePrefix \/ ResolveTag
               \/ ResolveTagUnsure
      PROVE  AccountInv'
  <2> USE DEF QueryCluster, InitAWSClients, AfterInit, ResolveOperatorRolePrefix, ResolveTag,
              ResolveTagUnsure, SpecGoto
  <2>1. tag' \in BOOLEAN
    BY <1>3, Zenon DEF AccountTypeOK
  <2>2. AccountTypeOK'
    BY <1>3, <2>1 DEF AccountTypeOK, Course, AccountSpecs
  <2>3. Course'
    BY <1>3 DEF Course, AccountSpecs, KmsSpecs
  <2>4. RegionKept'
    BY <1>3 DEF Course, RegionKept, Running, AccountSpecs, KmsSpecs
  <2>5. AccountVerdicts'
    BY <1>3 DEF AccountVerdicts, TaggedVolumes, Astray,
       DenialsMissedOnlyAstray, TagsVerdict, EncryptionVerdict
  <2> QED BY <2>2, <2>3, <2>4, <2>5
<1>4. ASSUME NEW p \in {"query", "init", "prefix", "tag", "verify"},
             NEW v \in {"skipped", "passed", "failed"}, SpecEnd(p, v),
             excused' = excused \/ excused' = excused \cup {acctCur}
      PROVE  /\ AccountTypeOK' /\ Course' /\ RegionKept'
             /\ acctCur \in AccountSpecs /\ outcome' = [outcome EXCEPT ![acctCur] = v]
  <2>1. acctCur \in AccountSpecs
    BY <1>4 DEF SpecEnd, Course, AccountSpecs, KmsSpecs
  <2>2. tag' \in BOOLEAN
    BY <1>4, Zenon DEF SpecEnd
  <2>3. AccountTypeOK'
    BY <1>4, <2>1, <2>2 DEF SpecEnd, AccountTypeOK
  <2>4. \A s \in ahead : outcome'[s] # "unrun"
    BY <1>4, <2>1 DEF SpecEnd, RegionKept, AccountTypeOK
  <2>5. Course' /\ RegionKept'
    BY <1>4, <2>4 DEF SpecEnd, Course, RegionKept, Running
  <2> QED BY <1>4, <2>1, <2>3, <2>5 DEF SpecEnd
<1>5. CASE SkipAccountSpec
  <2>1. PICK p \in {"query", "init"} : SpecEnd(p, "skipped")
    BY <1>5 DEF SkipAccountSpec
  <2>2. excused' = excused
    BY <1>5 DEF SkipAccountSpec
  <2>3. /\ AccountTypeOK' /\ Course' /\ RegionKept' /\ acctCur \in AccountSpecs
        /\ outcome' = [outcome EXCEPT ![acctCur] = "skipped"]
    BY <1>4, <2>1, <2>2
  <2>4. AccountVerdicts'
    BY <2>1, <2>2, <2>3 DEF SpecEnd, AccountTypeOK, AccountSpecs, KmsSpecs, AccountVerdicts,
       TaggedVolumes, Astray, DenialsMissedOnlyAstray, TagsVerdict, EncryptionVerdict
  <2> QED BY <2>3, <2>4
<1>6. CASE SpecFails
  <2>1. PICK p \in {"query", "prefix", "tag", "verify"} : SpecEnd(p, "failed")
    BY <1>6 DEF SpecFails
  <2>2. excused' = excused \cup {acctCur}
    BY <1>6 DEF SpecFails
  <2>3. /\ AccountTypeOK' /\ Course' /\ RegionKept' /\ acctCur \in AccountSpecs
        /\ outcome' = [outcome EXCEPT ![acctCur] = "failed"]
    BY <1>4, <2>1, <2>2
  <2>4. AccountVerdicts'
    BY <2>1, <2>2, <2>3 DEF SpecEnd, AccountTypeOK, AccountSpecs, KmsSpecs, AccountVerdicts,
       TaggedVolumes, Astray, DenialsMissedOnlyAstray, TagsVerdict, EncryptionVerdict
  <2> QED BY <2>3, <2>4
<1>7. CASE Verify
  <2>1. SpecEnd("verify", IF Verdict THEN "passed" ELSE "failed") /\ excused' = excused
    BY <1>7 DEF Verify
  <2>2. /\ AccountTypeOK' /\ Course' /\ RegionKept' /\ acctCur \in AccountSpecs
        /\ outcome' = [outcome EXCEPT ![acctCur] = IF Verdict THEN "passed" ELSE "failed"]
    BY <1>4, <2>1
  <2>3. /\ acctPc = "verify" /\ clients = region /\ account' = account /\ ahead' = ahead
        /\ \A s \in AccountSpecs \ {acctCur} : outcome'[s] = outcome[s]
        /\ outcome'[acctCur] = IF Verdict THEN "passed" ELSE "failed"
    BY <2>1, <2>2 DEF SpecEnd, RegionKept, AccountTypeOK
  <2>4. clients # "cluster" => acctCur \notin KmsSpecs /\ Astray(acctCur)
    BY <2>3 DEF RegionKept, Running, Astray
  <2>5. clients = "cluster" /\ acctCur \notin KmsSpecs => ~Astray(acctCur)
    BY <2>2, <2>3 DEF RegionKept, Running, Astray
  <2>6. acctCur \in {"tags", "ebs"} => tag \/ acctCur \in excused
    BY <2>3 DEF RegionKept
  <2>7. DenialsMissedOnlyAstray'
    <3>1. CASE acctCur = "iam"
      <4>1. Verdict <=> NoAccessDenied
        BY <3>1 DEF Verdict
      <4> QED
        BY <2>3, <2>4, <3>1, <4>1 DEF DenialsMissedOnlyAstray, Astray, NoAccessDenied
    <3>2. CASE acctCur # "iam"
      BY <2>3, <3>2 DEF AccountVerdicts, DenialsMissedOnlyAstray, Astray, AccountSpecs
    <3> QED BY <3>1, <3>2
  <2>8. TagsVerdict'
    <3>1. Described \subseteq TaggedVolumes /\ (clients = "cluster" /\ tag => Described = TaggedVolumes)
      BY DEF Described, TaggedVolumes
    <3>2. Described # {} => clients = "cluster" /\ tag
      BY DEF Described
    <3>3. VolumesTagged <=> Described # {}
      BY DEF VolumesTagged, Described
    <3>4. TaggedVolumes' = TaggedVolumes
      BY <2>3 DEF TaggedVolumes
    <3>5. CASE acctCur = "tags"
      <4>1. Verdict <=> VolumesTagged
        BY <3>5 DEF Verdict
      <4> QED
        BY <2>1, <2>3, <2>4, <2>5, <2>6, <3>1, <3>2, <3>3, <3>4, <3>5, <4>1
        DEF TagsVerdict, Astray, KmsSpecs
    <3>6. CASE acctCur # "tags"
      BY <2>1, <2>3, <3>4, <3>6 DEF AccountVerdicts, TagsVerdict, Astray, AccountSpecs
    <3> QED BY <3>5, <3>6
  <2>9. EncryptionVerdict'
    <3>1. TaggedVolumes' = TaggedVolumes /\ TaggedVolumes \subseteq Volumes
      BY <2>3 DEF TaggedVolumes, Course
    <3>2. CASE acctCur = "ebs"
      <4>1. clients = "cluster"
        BY <2>4, <3>2 DEF KmsSpecs
      <4>2. tag => Described = TaggedVolumes
        BY <4>1 DEF Described, TaggedVolumes
      <4>3. ~tag => Described = {}
        BY DEF Described
      <4>4. Verdict <=> VolumesEncrypted
        BY <3>2 DEF Verdict
      <4>5. \A v \in Volumes : (v.key # "none" /\ (v.root => v.key = "cluster")) <=>
                                 (v.key = "cluster" \/ (v.key = "other" /\ ~v.root))
        BY DEF Volumes
      <4> QED
        BY <2>1, <2>3, <2>6, <3>1, <3>2, <4>2, <4>3, <4>4, <4>5
        DEF AccountVerdicts, EncryptionVerdict, VolumesEncrypted, AccountSpecs, KmsSpecs
    <3>3. CASE acctCur = "key"
      <4>1. Verdict <=> account.key # "bad"
        BY <3>3 DEF Verdict, KeyHealthy, Course, Keys
      <4> QED
        BY <2>1, <2>3, <3>1, <3>3, <4>1 DEF AccountVerdicts, EncryptionVerdict, AccountSpecs, KmsSpecs
    <3>4. CASE acctCur = "storage"
      <4>1. Verdict <=> account.pv
        BY <2>4, <3>4 DEF Verdict, PVEncrypted, KmsSpecs
      <4> QED
        BY <2>1, <2>3, <3>1, <3>4, <4>1 DEF AccountVerdicts, EncryptionVerdict, AccountSpecs, KmsSpecs
    <3>5. CASE acctCur \notin {"ebs", "key", "storage"}
      BY <2>1, <2>3, <3>1, <3>5 DEF AccountVerdicts, EncryptionVerdict, AccountSpecs, KmsSpecs
    <3> QED BY <3>2, <3>3, <3>4, <3>5
  <2> QED BY <2>2, <2>7, <2>8, <2>9 DEF AccountVerdicts
<1>8. CASE UNCHANGED acctVars
  BY <1>8 DEF acctVars, AccountTypeOK, Course, RegionKept, Running, AccountVerdicts,
     TaggedVolumes, Astray, DenialsMissedOnlyAstray, TagsVerdict, EncryptionVerdict
<1> QED BY <1>1, <1>2, <1>3, <1>5, <1>6, <1>7, <1>8 DEF AccountNext

-----------------------------------------------------------------------------
(* What the verifiers and the specs on the account say.                    *)

RunsInv == RolloutsInv /\ OAuthInv /\ TrailInv /\ AccountInv

\* The inductive invariants of the verifiers that keep state while they run, in the
\* composition of pkg/verifiers: each is kept by its own steps.
THEOREM RunsInvariance == VerifiersSpec => []RunsInv
<1>1. VerifiersInit => RolloutsInv
  BY RolloutsAssumption DEF VerifiersInit, RolloutsInit, RolloutsInv, RolloutsTypeOK, Unobserved,
     Drift, Observed, RolloutsVerdict, NoUnseenRollout, NoFalseAlarm, Nowhere, Revisions, Absent
<1>2. VerifiersInit => OAuthInv
  BY OAuthAssumption DEF VerifiersInit, OAuthInit, OAuthInv, OAuthTypeOK, Clock,
     OAuthTiming, OAuthBounded, ReadinessIsRecent
<1>3. VerifiersInit => TrailInv
  BY CloudTrailAssumption DEF VerifiersInit, CloudTrailInit, TrailInv, CloudTrailTypeOK, Pages
<1>4. VerifiersInit => AccountInv
  <2> SUFFICES ASSUME AccountInit PROVE AccountInv
    BY DEF VerifiersInit
  <2>1. tag \in BOOLEAN
    BY Zenon DEF AccountInit
  <2>2. ~account.home /\ account.volumes = {} /\ account.key = "bad" /\ ~account.denied
    BY DEF AccountInit, NoAccount
  <2>3. AccountTypeOK
    BY <2>1, <2>2 DEF AccountInit, AccountTypeOK
  <2>4. Course /\ RegionKept
    BY <2>2 DEF AccountInit, Course, RegionKept, Running, Keys
  <2>5. AccountVerdicts
    BY <2>2 DEF AccountInit, AccountSpecs, KmsSpecs, AccountVerdicts,
       DenialsMissedOnlyAstray, TagsVerdict, EncryptionVerdict
  <2> QED BY <2>3, <2>4, <2>5 DEF AccountInv
<1>5. RunsInv /\ [VerifiersNext]_verifiersVars => RunsInv'
  BY Composition, RolloutsStep, OAuthStep, TrailStep, AccountStep DEF RunsInv
<1>6. QED
  BY <1>1, <1>2, <1>3, <1>4, <1>5, PTL DEF VerifiersSpec, RunsInv

\* The type invariant of the verifiers: among others, VerifyNoAccessDenied never reads
\* more than maxPages pages, whatever maxPages and the log are.
THEOREM VerifiersTypeCorrect == VerifiersSpec => []VerifiersTypeOK
<1>1. RunsInv => VerifiersTypeOK
  BY DEF RunsInv, RolloutsInv, OAuthInv, TrailInv, AccountInv, VerifiersTypeOK
<1>2. QED
  BY <1>1, RunsInvariance, PTL

\* VerifyDeploymentRevisionsStable misses no rollout of a deployment that stays and
\* names none that nobody touched, for any deployments and any number of rollouts.
THEOREM RolloutsVerdictHolds == VerifiersSpec => []RolloutsVerdict
<1>1. RunsInv => RolloutsVerdict
  BY DEF RunsInv, RolloutsInv
<1>2. QED
  BY <1>1, RunsInvariance, PTL

\* VerifyOAuthServerReadiness is over one poll after twice its timeout, and what it saw
\* of the pods is at most one wait old, for any timeout, poll interval and request time.
THEOREM OAuthTimingHolds == VerifiersSpec => []OAuthTiming
<1>1. RunsInv => OAuthTiming
  BY DEF RunsInv, OAuthInv
<1>2. QED
  BY <1>1, RunsInvariance, PTL

\* VerifyNoAccessDenied overlooks a denial only beyond the last page it may read, for
\* any log and any limit.
THEOREM NoDenialUnseenHolds == VerifiersSpec => []NoDenialUnseen
<1>1. TrailInv => NoDenialUnseen
  <2> SUFFICES ASSUME TrailInv, trailPc = "passed", NEW i \in 1..Len(log),
                      log[i].complete, log[i].matches, log[i].denial, i <= MaxPages
               PROVE  /\ log[i].action = "DeleteListener"
                      /\ "Installer-Role" \in {log[i].arn, log[i].issuer}
    BY CloudTrailAssumption DEF NoDenialUnseen, TrailInv, CloudTrailTypeOK
  <2>1. i \in 1..page
    BY CloudTrailAssumption DEF TrailInv, CloudTrailTypeOK, Pages
  <2>2. ~IsDenied(log[i])
    BY <2>1 DEF TrailInv, Pages
  <2> QED BY <2>2 DEF IsDenied, IsKnownDenial, CallerARN
<1>2. QED
  BY <1>1, RunsInvariance, PTL DEF RunsInv

\* The verdicts of the specs on the AWS account are right in whatever order they run,
\* but for a spec that is astray and for volumes without the tag, for any volumes.
THEOREM AccountVerdictsHolds == VerifiersSpec => []AccountVerdicts
<1>1. RunsInv => AccountVerdicts
  BY DEF RunsInv, AccountInv
<1>2. QED
  BY <1>1, RunsInvariance, PTL

-----------------------------------------------------------------------------
(* The verdicts on the objects of a cluster.                               *)

\* A set of naturals that is not empty has a least element.
LEMMA Least ==
  ASSUME NEW T \in SUBSET Nat, T # {}
  PROVE  Min(T) \in T /\ \A y \in T : Min(T) <= y
<1> DEFINE R == OpToRel(<, Nat)
<1>1. IsWellFoundedOn(R, Nat)
  BY NatLessThanWellFounded, Zenon
<1> HIDE DEF R
<1>2. PICK x \in T : \A y \in T : ~ (<<y, x>> \in R)
  BY <1>1, WFMin
<1>3. ASSUME NEW y \in T PROVE x <= y
  <2>1. ~(y < x)
    BY <1>2, Zenon DEF R, OpToRel
  <2> QED BY <2>1
<1> QED BY <1>3, Zenon DEF Min

\* What a list of at most n elements of S is.
LEMMA Bounded ==
  ASSUME NEW S, NEW n \in Nat, NEW list \in BoundedSeq(S, n)
  PROVE  list \in Seq(S) /\ DOMAIN list = 1..Len(list) /\ Len(list) \in Nat
<1>1. PICK m \in 0..n : list \in [1..m -> S]
  BY Zenon DEF BoundedSeq, SeqOf
<1> QED BY <1>1

\* VerifyHCPNamespaceHealthy
LEMMA NamespaceAsked == AskNamespaceHealth => ClusterVerdictsSound'
<1> SUFFICES ASSUME NEW list, Say("namespace", list, HCPNamespaceHealthy(list))
             PROVE  ClusterVerdictsSound'
  BY DEF AskNamespaceHealth
<1>1. said'.what = "namespace" /\ said'.in = list /\ said'.out = HCPNamespaceHealthy(list)
  BY DEF Say
<1>2. NamespaceVerdict'
  BY <1>1 DEF NamespaceVerdict, HCPNamespaceHealthy, EachOf
<1> QED
  BY <1>1, <1>2 DEF ClusterVerdictsSound, HealthAsPromised, EndpointVerdict,
     UnhealthyPackagesReported, NodesRunFIPS, HubVerdict

\* VerifyACMHub and VerifyMCE
LEMMA HubsAsked == AskHubs => ClusterVerdictsSound'
<1> SUFFICES ASSUME NEW hubs, NEW engines,
                    Say("hubs", [hubs |-> hubs, engines |-> engines],
                        [hub |-> OneInPhase(hubs, "Running"), engine |-> OneInPhase(engines, "Available")])
             PROVE  ClusterVerdictsSound'
  BY DEF AskHubs
<1>1. /\ said'.what = "hubs" /\ said'.in.hubs = hubs /\ said'.in.engines = engines
      /\ said'.out.hub = OneInPhase(hubs, "Running")
      /\ said'.out.engine = OneInPhase(engines, "Available")
  BY DEF Say
<1>2. HubVerdict'
  BY <1>1 DEF HubVerdict, OneInPhase, Range
<1> QED
  BY <1>1, <1>2 DEF ClusterVerdictsSound, HealthAsPromised, EndpointVerdict,
     UnhealthyPackagesReported, NodesRunFIPS, NamespaceVerdict

\* VerifyFIPSClusterPackagesHealthy and VerifyFIPSOperatorsHealthy
LEMMA PackagesAsked == AskPackages => ClusterVerdictsSound'
<1> SUFFICES ASSUME NEW list \in Lists(Answers),
                    Say("packages", list, [packages |-> PackagesHealthy(list),
                                           operators |-> OperatorsHealthy(list)])
             PROVE  ClusterVerdictsSound'
  BY DEF AskPackages
<1>1. /\ said'.what = "packages" /\ said'.in = list
      /\ said'.out.packages = PackagesHealthy(list)
      /\ said'.out.operators = OperatorsHealthy(list)
  BY DEF Say
<1>2. \A i \in DOMAIN list : list[i] \in Answers
  BY ClusterVerdictsAssumption, Bounded DEF Lists
<1>3. UnhealthyPackagesReported'
  BY <1>1, <1>2 DEF UnhealthyPackagesReported, PackagesHealthy, OperatorsHealthy, Found, Err, Answers
<1> QED
  BY <1>1, <1>3 DEF ClusterVerdictsSound, HealthAsPromised, EndpointVerdict,
     HubVerdict, NodesRunFIPS, NamespaceVerdict

\* VerifyNodeFIPSEnabled: a rendered config with FIPS is what every machine runs.
LEMMA NodeFIPSAsked == AskNodeFIPS => ClusterVerdictsSound'
<1> SUFFICES ASSUME NEW rendered \in [Configs -> BOOLEAN], NEW pools \in Lists(Pools),
                    Say("fips", [rendered |-> rendered, pools |-> pools],
                        NodeFIPSEnabled(rendered, pools))
             PROVE  ClusterVerdictsSound'
  BY DEF AskNodeFIPS
<1>1. /\ said'.what = "fips" /\ said'.in.rendered = rendered /\ said'.in.pools = pools
      /\ said'.out = NodeFIPSEnabled(rendered, pools)
  BY DEF Say
<1>2. \A i \in DOMAIN pools : pools[i] \in Pools
  BY ClusterVerdictsAssumption, Bounded DEF Lists
<1>3. \A i \in DOMAIN pools : pools[i].target \in Configs
  <2>1. \A p \in Pools : p.target \in Configs
    BY Zenon DEF Pools
  <2> QED BY <1>2, <2>1
<1>4. NodesRunFIPS'
  <2> SUFFICES ASSUME NodeFIPSEnabled(rendered, pools), NEW i \in DOMAIN pools, pools[i].reports,
                      NEW m \in DOMAIN pools[i].runs
               PROVE  pools[i].runs[m] # 0 /\ rendered[pools[i].runs[m]]
    BY <1>1 DEF NodesRunFIPS
  <2>1. \A c \in Configs : rendered[c]
    BY DEF NodeFIPSEnabled, EachOf
  <2>2. PoolUpdated(pools[i])
    BY DEF NodeFIPSEnabled, EachOf
  <2>3. pools[i].runs # <<>>
    OBVIOUS
  <2>4. pools[i].runs[m] = pools[i].target
    BY <2>2, <2>3 DEF PoolUpdated
  <2> QED BY <1>3, <2>1, <2>4 DEF Configs
<1> QED
  BY <1>1, <1>4 DEF ClusterVerdictsSound, HealthAsPromised, EndpointVerdict,
     HubVerdict, UnhealthyPackagesReported, NamespaceVerdict

\* What the comment of verifier v promises of an object with the conditions cs.
Good(v, cs) == cs # Missing /\ \A p \in Promise[v] : Has(cs, p[1], p[2])

\* What the comments promise, written out.
LEMMA GoodMeans ==
  ASSUME NEW cs
  PROVE  /\ \A v \in {"operators", "hosted"} : Good(v, cs) <=>
              cs # Missing /\ Has(cs, "Available", "True") /\ Has(cs, "Degraded", "False")
         /\ Good("pools", cs) <=>
              cs # Missing /\ Has(cs, "Ready", "True") /\ Has(cs, "AllNodesHealthy", "True")
         /\ Good("nodes", cs) <=> cs # Missing /\ Has(cs, "Ready", "True")
         /\ Good("deployments", cs) <=> cs # Missing /\ Has(cs, "Available", "True")
<1>1. /\ \A v \in {"operators", "hosted"} :
             Promise[v] = {<<"Available", "True">>, <<"Degraded", "False">>}
      /\ Promise["pools"] = {<<"Ready", "True">>, <<"AllNodesHealthy", "True">>}
      /\ Promise["nodes"] = {<<"Ready", "True">>}
      /\ Promise["deployments"] = {<<"Available", "True">>}
  BY DEF Promise
<1>2. \A a, b, c, d : (\A p \in {<<a, b>>, <<c, d>>} : Has(cs, p[1], p[2])) <=>
                       Has(cs, a, b) /\ Has(cs, c, d)
  OBVIOUS
<1>3. \A a, b : (\A p \in {<<a, b>>} : Has(cs, p[1], p[2])) <=> Has(cs, a, b)
  OBVIOUS
<1>4. ASSUME NEW v \in {"operators", "hosted"}
      PROVE  Good(v, cs) <=>
               cs # Missing /\ Has(cs, "Available", "True") /\ Has(cs, "Degraded", "False")
  <2>1. Promise[v] = {<<"Available", "True">>, <<"Degraded", "False">>}
    BY <1>1
  <2> QED BY <1>2, <2>1 DEF Good
<1>5. Good("pools", cs) <=>
        cs # Missing /\ Has(cs, "Ready", "True") /\ Has(cs, "AllNodesHealthy", "True")
  BY <1>1, <1>2 DEF Good
<1>6. /\ Good("nodes", cs) <=> cs # Missing /\ Has(cs, "Ready", "True")
      /\ Good("deployments", cs) <=> cs # Missing /\ Has(cs, "Available", "True")
  BY <1>1, <1>3 DEF Good
<1> QED BY <1>4, <1>5, <1>6, Zenon

\* The loop of VerifyHostedClusterHealthy asks of every condition of a type what the
\* others ask of one: when no type is listed twice that is the same.
LEMMA HostedAgrees ==
  ASSUME NEW cs
  PROVE  /\ HostedClusterHealthy(cs) => Good("hosted", cs)
         /\ WellFormed(cs) => (HostedClusterHealthy(cs) <=> Good("hosted", cs))
<1>1. HostedClusterHealthy(cs) => Good("hosted", cs)
  BY GoodMeans DEF HostedClusterHealthy, Mentions, All, Has
<1>2. ASSUME WellFormed(cs), Good("hosted", cs) PROVE HostedClusterHealthy(cs)
  <2>1. cs # Missing /\ Has(cs, "Available", "True") /\ Has(cs, "Degraded", "False")
    BY <1>2, GoodMeans
  <2>2. \A i, j \in DOMAIN cs : cs[i].type = cs[j].type => i = j
    BY <1>2 DEF WellFormed
  <2>3. Mentions(cs, "Available") /\ All(cs, "Available", "True")
    BY <2>1, <2>2 DEF Mentions, All, Has
  <2>4. Mentions(cs, "Degraded") /\ All(cs, "Degraded", "False")
    BY <2>1, <2>2 DEF Mentions, All, Has
  <2> QED BY <2>1, <2>3, <2>4 DEF HostedClusterHealthy
<1> QED BY <1>1, <1>2

\* The verifiers of conditions keep what their comments promise.
LEMMA ConditionsAsked == AskConditions => ClusterVerdictsSound'
<1> SUFFICES
      ASSUME NEW list, NEW excluded,
             Say("conditions", [list |-> list, excluded |-> excluded],
                 [operators   |-> ClusterOperatorsHealthy(list, excluded),
                  hosted      |-> EachOf(list, HostedClusterHealthy),
                  pools       |-> EachOf(list, NodePoolHealthy),
                  nodes       |-> EachOf(list, LAMBDA cs : OneTrue(cs, "Ready")),
                  deployments |-> EachOf(list, LAMBDA cs : OneTrue(cs, "Available"))])
      PROVE  ClusterVerdictsSound'
  BY DEF AskConditions
<1>1. /\ said'.what = "conditions" /\ said'.in.list = list /\ said'.in.excluded = excluded
      /\ said'.out["operators"] = ClusterOperatorsHealthy(list, excluded)
      /\ said'.out["hosted"] = EachOf(list, HostedClusterHealthy)
      /\ said'.out["pools"] = EachOf(list, NodePoolHealthy)
      /\ said'.out["nodes"] = EachOf(list, LAMBDA cs : OneTrue(cs, "Ready"))
      /\ said'.out["deployments"] = EachOf(list, LAMBDA cs : OneTrue(cs, "Available"))
  BY DEF Say
<1> DEFINE asked(v) == DOMAIN list \ (IF v = "operators" THEN excluded ELSE {})
           kept(v) == list # <<>> /\ \A i \in asked(v) : Good(v, list[i])
<1>2. ASSUME NEW v \in DOMAIN Promise
      PROVE  /\ said'.out[v] => kept(v)
             /\ (\A i \in asked(v) : WellFormed(list[i])) => (said'.out[v] <=> kept(v))
  <2>1. CASE v = "operators"
    BY <1>1, <2>1, GoodMeans DEF ClusterOperatorsHealthy, ClusterOperatorHealthy, WellFormed
  <2>2. CASE v = "hosted"
    BY <1>1, <2>2, HostedAgrees DEF EachOf
  <2>3. CASE v = "pools"
    BY <1>1, <2>3, GoodMeans DEF EachOf, NodePoolHealthy, WellFormed
  <2>4. CASE v = "nodes"
    BY <1>1, <2>4, GoodMeans DEF EachOf, OneTrue
  <2>5. CASE v = "deployments"
    BY <1>1, <2>5, GoodMeans DEF EachOf, OneTrue
  <2> QED BY <2>1, <2>2, <2>3, <2>4, <2>5 DEF Promise
<1>3. HealthAsPromised'
  BY <1>1, <1>2 DEF HealthAsPromised, Good
<1> QED
  BY <1>1, <1>3 DEF ClusterVerdictsSound, UnhealthyPackagesReported, EndpointVerdict,
     HubVerdict, NodesRunFIPS, NamespaceVerdict

\* The first relevant condition decides: an endpoint is accepted exactly when some
\* relevant condition is true and none that is not is listed before all of these.
LEMMA EndpointAgrees ==
  ASSUME NEW cs, DOMAIN cs = 1..Len(cs), Len(cs) \in Nat, cs # Missing
  PROVE  EndpointAvailable(cs) <=>
           /\ \E i \in DOMAIN cs : Relevant(cs[i]) /\ cs[i].status = "True"
           /\ ~\E i \in DOMAIN cs :
                 /\ Relevant(cs[i]) /\ ~(Relevant(cs[i]) /\ cs[i].status = "True")
                 /\ \A j \in 1..i : ~(Relevant(cs[j]) /\ cs[j].status = "True")
<1> DEFINE I == {i \in 1..Len(cs) : Relevant(cs[i])}
<1>1. SelectInSeq(cs, Relevant) = IF I # {} THEN Min(I) ELSE 0
  BY DEF SelectInSeq
<1>2. CASE I = {}
  BY <1>1, <1>2 DEF EndpointAvailable
<1>3. CASE I # {}
  <2>1. I \in SUBSET Nat
    OBVIOUS
  <2>2. Min(I) \in I /\ \A y \in I : Min(I) <= y
    BY <1>3, <2>1, Least
  <2> DEFINE m == Min(I)
  <2>3. m \in 1..Len(cs) /\ Relevant(cs[m]) /\ m # 0 /\ m \in Nat
    BY <2>2
  <2>4. \A i \in 1..Len(cs) : Relevant(cs[i]) => m <= i
    BY <2>2
  <2>5. EndpointAvailable(cs) <=> cs[m].status = "True"
    BY <1>1, <1>3, <2>3 DEF EndpointAvailable
  <2> HIDE DEF m, I
  <2>6. CASE cs[m].status = "True"
    <3>1. ASSUME NEW i \in 1..Len(cs), Relevant(cs[i]),
                 \A j \in 1..i : ~(Relevant(cs[j]) /\ cs[j].status = "True")
          PROVE  FALSE
      <4>1. m \in 1..i
        BY <2>3, <2>4, <3>1
      <4> QED BY <2>3, <2>6, <3>1, <4>1
    <3> QED BY <2>3, <2>5, <2>6, <3>1
  <2>7. CASE cs[m].status # "True"
    <3>1. \A j \in 1..m : ~(Relevant(cs[j]) /\ cs[j].status = "True")
      BY <2>3, <2>4, <2>7
    <3> QED BY <2>3, <2>5, <2>7, <3>1
  <2> QED BY <2>6, <2>7
<1> QED BY <1>2, <1>3

\* VerifyAVOVpcEndpoints
LEMMA EndpointsAsked == AskEndpoints => ClusterVerdictsSound'
<1> SUFFICES ASSUME NEW list \in Lists(Conditions({"AWSVpcEndpointReady", "Available"})),
                    Say("endpoints", list, EachOf(list, EndpointAvailable))
             PROVE  ClusterVerdictsSound'
  BY DEF AskEndpoints
<1>1. /\ said'.what = "endpoints" /\ said'.in = list
      /\ said'.out = EachOf(list, EndpointAvailable)
  BY DEF Say
<1>2. ASSUME NEW i \in DOMAIN list
      PROVE  EndpointAvailable(list[i]) <=>
               /\ \E k \in DOMAIN list[i] : Relevant(list[i][k]) /\ list[i][k].status = "True"
               /\ ~\E k \in DOMAIN list[i] :
                     /\ Relevant(list[i][k]) /\ ~(Relevant(list[i][k]) /\ list[i][k].status = "True")
                     /\ \A j \in 1..k : ~(Relevant(list[i][j]) /\ list[i][j].status = "True")
  <2>1. list[i] \in Conditions({"AWSVpcEndpointReady", "Available"})
    BY ClusterVerdictsAssumption, Bounded DEF Lists
  <2>2. CASE list[i] = Missing
    BY <2>2 DEF Missing, EndpointAvailable, Relevant
  <2>3. CASE list[i] # Missing
    <3>1. DOMAIN list[i] = 1..Len(list[i]) /\ Len(list[i]) \in Nat
      BY <2>1, <2>3, ClusterVerdictsAssumption, Bounded DEF Conditions
    <3> QED BY <2>3, <3>1, EndpointAgrees
  <2> QED BY <2>2, <2>3
<1>3. EndpointVerdict'
  BY <1>1, <1>2 DEF EndpointVerdict, EachOf
<1> QED
  BY <1>1, <1>3 DEF ClusterVerdictsSound, UnhealthyPackagesReported, HealthAsPromised,
     HubVerdict, NodesRunFIPS, NamespaceVerdict

\* What the verifiers of the objects of a cluster say is what their comments promise,
\* or differs from it exactly as the parts of ClusterVerdictsSound say, for lists of
\* objects and of conditions of any length.
THEOREM ClusterVerdictsHold == VerifiersSpec => []ClusterVerdictsSound
<1>1. VerifiersInit => ClusterVerdictsSound
  BY DEF VerifiersInit, ClusterVerdictsInit, NothingSaid, ClusterVerdictsSound, HealthAsPromised,
     EndpointVerdict, UnhealthyPackagesReported, NodesRunFIPS, NamespaceVerdict, HubVerdict
<1>2. ClusterVerdictsSound /\ [VerifiersNext]_verifiersVars => ClusterVerdictsSound'
  <2> SUFFICES ASSUME ClusterVerdictsSound, [ClusterVerdictsNext]_said PROVE ClusterVerdictsSound'
    BY Composition
  <2>1. CASE ClusterVerdictsNext
    BY <2>1, NamespaceAsked, HubsAsked, ConditionsAsked, EndpointsAsked, PackagesAsked, NodeFIPSAsked
    DEF ClusterVerdictsNext
  <2>2. CASE UNCHANGED said
    <3>1. HealthAsPromised'
      BY <2>2, Zenon DEF ClusterVerdictsSound, HealthAsPromised, EachOf
    <3>2. EndpointVerdict'
      BY <2>2 DEF ClusterVerdictsSound, EndpointVerdict, EachOf
    <3>3. UnhealthyPackagesReported' /\ NodesRunFIPS' /\ NamespaceVerdict' /\ HubVerdict'
      BY <2>2 DEF ClusterVerdictsSound, UnhealthyPackagesReported, NodesRunFIPS,
         NamespaceVerdict, HubVerdict
    <3> QED BY <3>1, <3>2, <3>3 DEF ClusterVerdictsSound
  <2> QED BY <2>1, <2>2
<1>3. QED
  BY <1>1, <1>2, PTL DEF VerifiersSpec

-----------------------------------------------------------------------------
(* The verdicts on what the services answer.                               *)

\* A set of numbers up to n that is not empty has a greatest element.
LEMMA Greatest ==
  ASSUME NEW n \in Nat, NEW T \in SUBSET (1..n), T # {}
  PROVE  Max(T) \in T /\ \A y \in T : y <= Max(T)
<1> DEFINE D == {n - y : y \in T}
<1>1. D \in SUBSET Nat /\ D # {}
  <2>1. \A y \in T : n - y \in Nat
    OBVIOUS
  <2> QED BY <2>1
<1>2. Min(D) \in D /\ \A y \in D : Min(D) <= y
  BY <1>1, Least
<1>3. PICK x \in T : Min(D) = n - x
  BY <1>2
<1>4. \A y \in T : x >= y
  <2> SUFFICES ASSUME NEW y \in T PROVE x >= y
    OBVIOUS
  <2>1. n - y \in D
    OBVIOUS
  <2>2. n - x <= n - y
    BY <1>2, <1>3, <2>1
  <2>3. x \in Int /\ y \in Int
    OBVIOUS
  <2> QED BY <2>2, <2>3
<1>5. Max(T) \in T /\ \A y \in T : Max(T) >= y
  BY <1>4, Zenon DEF Max
<1> QED BY <1>5

\* findShardForSector gives a shard exactly when one is offered as Gives says, and which.
LEMMA ShardFound ==
  ASSUME NEW answer, NEW items \in Seq(ServiceClusters), answer.items = items
  PROVE  /\ FindShard(answer) # "" <=> Gives(items)
         /\ FindShard(answer) # "" => \E i \in Offered(items) :
              /\ items[i].id = FindShard(answer)
              /\ \/ i \in Dedicated(items)
                 \/ i \in Unreadable(items) /\ \A j \in Dedicated(items) : i < j
                 \/ Dedicated(items) \cup Unreadable(items) = {}
<1> DEFINE I == {i \in 1..Len(items) : TakeShard(items[i])}
<1>1. FindShard(answer) = IF I # {} /\ Min(I) # 0 THEN items[Min(I)].id ELSE Fallback(items)
  <2>1. SelectInSeq(items, TakeShard) = IF I # {} THEN Min(I) ELSE 0
    BY DEF SelectInSeq
  <2> QED BY <2>1 DEF FindShard
<1>2. DOMAIN items = 1..Len(items) /\ Len(items) \in Nat
  OBVIOUS
<1>3. I = Dedicated(items) \cup Unreadable(items) /\ I \subseteq Offered(items)
  <2>1. \A i \in DOMAIN items : items[i].topology \in {"dedicated", "other", "error"}
    <3>1. \A c \in ServiceClusters : c.topology \in {"dedicated", "other", "error"}
      BY DEF ServiceClusters
    <3> QED BY <1>2, <3>1
  <2> QED BY <1>2, <2>1 DEF TakeShard, Dedicated, Unreadable, Offered
<1>4. CASE I = {}
  <2>1. FindShard(answer) = IF items = <<>> THEN "" ELSE items[1].id
    BY <1>1, <1>4 DEF Fallback
  <2>2. CASE items = <<>>
    <3>1. Offered(items) = {}
      BY <2>2 DEF Offered
    <3> QED BY <2>1, <2>2, <3>1 DEF Gives, Dedicated, Unreadable
  <2>3. CASE items # <<>>
    <3>1. 1 \in DOMAIN items
      BY <1>2, <2>3
    <3>2. FindShard(answer) # "" <=> 1 \in Offered(items)
      BY <2>1, <2>3, <3>1 DEF Offered
    <3> QED BY <1>3, <1>4, <2>1, <2>3, <3>2 DEF Gives
  <2> QED BY <2>2, <2>3
<1>5. CASE I # {}
  <2>1. Min(I) \in I /\ \A y \in I : Min(I) <= y
    <3>1. I \in SUBSET Nat
      BY <1>2
    <3> QED BY <1>5, <3>1, Least
  <2> DEFINE m == Min(I)
  <2>2. m \in Offered(items) /\ m \in Nat /\ m # 0
    BY <1>2, <1>3, <2>1
  <2>3. FindShard(answer) = items[m].id /\ items[m].id # ""
    BY <1>1, <1>5, <2>2 DEF Offered
  <2>4. m \in Unreadable(items) => \A j \in Dedicated(items) : m < j
    <3> SUFFICES ASSUME m \in Unreadable(items), NEW j \in Dedicated(items) PROVE m < j
      OBVIOUS
    <3>1. m # j
      BY DEF Unreadable, Dedicated
    <3>2. m <= j /\ j \in Nat
      BY <1>2, <1>3, <2>1
    <3> QED BY <2>2, <3>1, <3>2
  <2>5. m \in Dedicated(items) \/ m \in Unreadable(items)
    BY <1>3, <2>1
  <2> HIDE DEF m, I
  <2> QED BY <1>3, <1>5, <2>2, <2>3, <2>4, <2>5 DEF Gives
<1> QED BY <1>4, <1>5

\* resolveProvisionShard
LEMMA ShardAsked == AskShard => ServiceVerdictsSound'
<1> SUFFICES ASSUME NEW ready \in ShardAnswers(MaxItems), NEW maintenance \in ShardAnswers(1),
                    Tell("shard", <<ready.items, maintenance.items>>,
                         ResolveProvisionShard(ready, maintenance))
             PROVE  ServiceVerdictsSound'
  BY DEF AskShard
<1>1. /\ told'.what = "shard" /\ told'.in[1] = ready.items /\ told'.in[2] = maintenance.items
      /\ told'.out = ResolveProvisionShard(ready, maintenance)
  BY DEF Tell
<1>2. ASSUME NEW n \in Nat, NEW a \in ShardAnswers(n) PROVE a.items \in Seq(ServiceClusters)
  <2>1. a.items \in BoundedSeq(ServiceClusters, n) \/ a.items = <<>>
    <3>1. CASE a \in [ok : {TRUE}, items : BoundedSeq(ServiceClusters, n)]
      BY <3>1, Zenon
    <3>2. CASE a = [ok |-> FALSE, items |-> <<>>]
      BY <3>2
    <3> QED BY <3>1, <3>2, Zenon DEF ShardAnswers
  <2>2. <<>> \in Seq(ServiceClusters)
    OBVIOUS
  <2> QED BY <2>1, <2>2, Bounded
<1>3. ready.items \in Seq(ServiceClusters) /\ maintenance.items \in Seq(ServiceClusters)
  BY <1>2, ServiceVerdictsAssumption
<1>4. ShardChoice'
  <2> DEFINE Chosen(items) ==
        \E i \in Offered(items) :
          /\ items[i].id = told'.out
          /\ \/ i \in Dedicated(items)
             \/ i \in Unreadable(items) /\ \A j \in Dedicated(items) : i < j
             \/ Dedicated(items) \cup Unreadable(items) = {}
  <2>1. told'.out # "" <=> Gives(told'.in[1]) \/ Gives(told'.in[2])
    BY <1>1, <1>3, ShardFound DEF ResolveProvisionShard
  <2>2. Gives(told'.in[1]) => Chosen(told'.in[1])
    BY <1>1, <1>3, ShardFound DEF ResolveProvisionShard
  <2>3. ~Gives(told'.in[1]) /\ Gives(told'.in[2]) => Chosen(told'.in[2])
    BY <1>1, <1>3, ShardFound DEF ResolveProvisionShard
  <2>4. CASE Gives(told'.in[1])
    BY <2>1, <2>2, <2>4 DEF ShardChoice
  <2>5. CASE ~Gives(told'.in[1])
    BY <2>1, <2>3, <2>5 DEF ShardChoice
  <2> QED BY <2>4, <2>5
<1> QED
  BY <1>1, <1>4 DEF ServiceVerdictsSound, RightHostedCluster, CardinalityGate,
     DiagnosisNeedsEvidence, RoleLinkage, ProvidersChecked, SignalsFollowSpecs

\* ResolveHCPNamespaces: the first match is ours, or bears our name and comes before ours.
LEMMA NamespaceResolved == AskNamespace => ServiceVerdictsSound'
<1> SUFFICES ASSUME NEW k \in Known, NEW list \in Items(HostedClusters),
                    Tell("namespace", [known |-> k, list |-> list], ResolveHCPNamespaces(k, list))
             PROVE  ServiceVerdictsSound'
  BY DEF AskNamespace
<1> DEFINE I == {i \in 1..Len(list) : Matches(k, list[i])}
           i == ResolveHCPNamespaces(k, list)
<1>1. /\ told'.what = "namespace" /\ told'.in.known = k /\ told'.in.list = list
      /\ told'.out = i
  BY DEF Tell
<1>2. i = IF I # {} THEN Min(I) ELSE 0
  BY DEF ResolveHCPNamespaces, SelectInSeq
<1>3. DOMAIN list = 1..Len(list) /\ Len(list) \in Nat
  BY ServiceVerdictsAssumption, Bounded DEF Items
<1> HIDE DEF i
<1>4. ASSUME I = {} PROVE RightHostedCluster'
  <2>1. i = 0
    BY <1>2, <1>4
  <2>2. \A j \in DOMAIN list : list[j].ours => ~k.id
    BY <1>3, <1>4 DEF Matches
  <2> QED BY <1>1, <2>1, <2>2 DEF RightHostedCluster
<1>5. ASSUME I # {} PROVE RightHostedCluster'
  <2>1. i \in I /\ \A y \in I : i <= y
    <3>1. I \in SUBSET Nat
      BY <1>3
    <3> QED BY <1>2, <1>5, <3>1, Least
  <2>2. i \in Nat /\ i # 0 /\ Matches(k, list[i])
    BY <1>3, <2>1
  <2>3. ASSUME ~list[i].ours, NEW j \in 1..i, list[j].ours PROVE ~k.id
    <3>1. j # i /\ j < i /\ j \in 1..Len(list)
      BY <1>3, <2>1, <2>3
    <3>2. ~Matches(k, list[j])
      BY <2>1, <2>2, <3>1
    <3> QED BY <2>3, <3>2 DEF Matches
  <2>4. ~list[i].ours => k.name /\ list[i].named
    BY <2>2 DEF Matches
  <2> QED BY <1>1, <2>2, <2>3, <2>4 DEF RightHostedCluster
<1>6. RightHostedCluster'
  BY <1>4, <1>5
<1> QED
  BY <1>1, <1>6 DEF ServiceVerdictsSound, ShardChoice, CardinalityGate,
     DiagnosisNeedsEvidence, RoleLinkage, ProvidersChecked, SignalsFollowSpecs

\* A change of at most p percent of what there was.
LEMMA Growth ==
  ASSUME NEW c \in Nat, NEW b \in Nat, NEW p \in Nat
  PROVE  (c - b) * 100 <= p * b <=> c * 100 <= (100 + p) * b
<1>1. (100 + p) * b = 100 * b + p * b
  OBVIOUS
<1>2. (c - b) * 100 = c * 100 - 100 * b
  OBVIOUS
<1>3. p * b \in Int /\ c * 100 \in Int /\ 100 * b \in Int
  OBVIOUS
<1> QED BY <1>1, <1>2, <1>3

\* What the gate asks of the head series and of the remote-write rate.
LEMMA SumGate ==
  ASSUME NEW sum \in Sums
  PROVE  Measured(sum) /\ DeltaPassed(sum.current, sum.baseline) <=>
           /\ sum.current \in Nat /\ sum.baseline \in Nat
           /\ ~(sum.baseline > 0 /\ sum.current * 100 > (100 + MaxDeltaPct) * sum.baseline)
<1> DEFINE c == sum.current
           b == sum.baseline
<1>1. c \in Values /\ b \in Values
  BY DEF Sums
<1>2. Measured(sum) <=> c \in Nat /\ b \in Nat
  BY <1>1, ServiceVerdictsAssumption DEF Measured, Values, NoValue
<1> HIDE DEF c, b
<1>3. ASSUME c \in Nat, b \in Nat
      PROVE  DeltaPassed(c, b) <=> ~(b > 0 /\ c * 100 > (100 + MaxDeltaPct) * b)
  <2>1. (c - b) * 100 <= MaxDeltaPct * b <=> c * 100 <= (100 + MaxDeltaPct) * b
    BY <1>3, Growth, ServiceVerdictsAssumption
  <2>2. c * 100 \in Int /\ (100 + MaxDeltaPct) * b \in Int
    BY <1>3, ServiceVerdictsAssumption
  <2> QED BY <2>1, <2>2 DEF DeltaPassed
<1> QED BY <1>2, <1>3 DEF c, b

\* Of the series of a name that can be read the last one counts.
LEMMA VectorGate ==
  ASSUME NEW list \in BoundedSeq(Series, MaxTopk)
  PROVE  (\A n \in DOMAIN Vector(list) : Vector(list)[n] <= MaxSeriesPerMetric) <=>
           \A i \in DOMAIN list : list[i].count > MaxSeriesPerMetric =>
             \E j \in DOMAIN list : /\ j > i /\ list[j].name = list[i].name
                                    /\ list[j].count # NoValue
<1>1. list \in Seq(Series) /\ DOMAIN list = 1..Len(list) /\ Len(list) \in Nat
  BY ServiceVerdictsAssumption, Bounded
<1>2. \A j \in DOMAIN list : list[j].count \in Int
  <2>1. \A e \in Series : e.count \in Values
    BY DEF Series
  <2>2. \A v \in Values : v \in Int
    BY ServiceVerdictsAssumption DEF Values, NoValue
  <2> QED BY <1>1, <2>1, <2>2
<1> DEFINE I(n) == {j \in 1..Len(list) : list[j].name = n /\ list[j].count # NoValue}
<1>3. /\ DOMAIN Vector(list) = {list[i].name : i \in {j \in DOMAIN list : list[j].count # NoValue}}
      /\ \A n \in DOMAIN Vector(list) :
           Vector(list)[n] = list[SelectLastInSeq(list, LAMBDA e : e.name = n /\ e.count # NoValue)].count
  BY DEF Vector
<1>4. ASSUME NEW i \in DOMAIN list, list[i].count # NoValue
      PROVE  LET n == list[i].name
             IN  /\ n \in DOMAIN Vector(list) /\ Max(I(n)) \in I(n) /\ i <= Max(I(n))
                 /\ Vector(list)[n] = list[Max(I(n))].count
                 /\ \A j \in I(n) : j <= Max(I(n))
  <2> DEFINE n == list[i].name
  <2>1. n \in DOMAIN Vector(list)
    BY <1>3, <1>4
  <2>2. I(n) \in SUBSET (1..Len(list)) /\ i \in I(n)
    BY <1>1, <1>4
  <2>3. SelectLastInSeq(list, LAMBDA e : e.name = n /\ e.count # NoValue) = Max(I(n))
    BY <2>2 DEF SelectLastInSeq
  <2>4. Max(I(n)) \in I(n) /\ \A j \in I(n) : j <= Max(I(n))
    BY <1>1, <2>2, Greatest
  <2>5. Vector(list)[n] = list[Max(I(n))].count
    BY <1>3, <2>1, <2>3
  <2> HIDE DEF I
  <2> QED BY <2>1, <2>2, <2>4, <2>5
<1>5. ASSUME \A n \in DOMAIN Vector(list) : Vector(list)[n] <= MaxSeriesPerMetric,
             NEW i \in DOMAIN list, list[i].count > MaxSeriesPerMetric
      PROVE  \E j \in DOMAIN list : /\ j > i /\ list[j].name = list[i].name
                                    /\ list[j].count # NoValue
  <2> DEFINE m == Max(I(list[i].name))
  <2>1. list[i].count # NoValue
    BY <1>2, <1>5, ServiceVerdictsAssumption DEF NoValue
  <2>2. m \in I(list[i].name) /\ i <= m /\ list[m].count <= MaxSeriesPerMetric
    BY <1>4, <1>5, <2>1
  <2> HIDE DEF m
  <2>3. m \in DOMAIN list /\ list[m].name = list[i].name /\ list[m].count # NoValue
    BY <1>1, <2>2
  <2>4. m # i
    BY <1>2, <1>5, <2>2, ServiceVerdictsAssumption
  <2>5. m > i
    BY <1>1, <2>2, <2>3, <2>4
  <2> QED BY <2>3, <2>5
<1>6. ASSUME \A i \in DOMAIN list : list[i].count > MaxSeriesPerMetric =>
               \E j \in DOMAIN list : /\ j > i /\ list[j].name = list[i].name
                                      /\ list[j].count # NoValue,
             NEW n \in DOMAIN Vector(list)
      PROVE  Vector(list)[n] <= MaxSeriesPerMetric
  <2>1. PICK i \in DOMAIN list : list[i].name = n /\ list[i].count # NoValue
    BY <1>3, <1>6
  <2> DEFINE m == Max(I(n))
  <2>2. m \in I(n) /\ Vector(list)[n] = list[m].count /\ \A j \in I(n) : j <= m
    BY <1>4, <2>1
  <2> HIDE DEF m
  <2>3. m \in DOMAIN list /\ list[m].name = n
    BY <1>1, <2>2
  <2>4. ASSUME NEW j \in DOMAIN list, j > m, list[j].name = n, list[j].count # NoValue PROVE FALSE
    <3>1. j \in I(n)
      BY <1>1, <2>4
    <3> QED BY <1>1, <2>2, <2>3, <2>4, <3>1
  <2>5. ~(list[m].count > MaxSeriesPerMetric)
    BY <1>6, <2>3, <2>4
  <2> QED BY <1>2, <2>2, <2>3, <2>5, ServiceVerdictsAssumption
<1> HIDE DEF I
<1> QED BY <1>5, <1>6

\* VerifyCardinalityThreshold
LEMMA CardinalityAsked == AskCardinality => ServiceVerdictsSound'
<1> SUFFICES ASSUME NEW head \in Sums, NEW rw \in Sums, NEW answered \in BOOLEAN,
                    NEW list \in BoundedSeq(Series, MaxTopk),
                    Tell("cardinality",
                         [head |-> head, rw |-> rw, answered |-> answered, list |-> list],
                         CardinalityPassed(head, rw, answered, list))
             PROVE  ServiceVerdictsSound'
  BY Zenon DEF AskCardinality
<1>1. /\ told'.what = "cardinality"
      /\ told'.out = CardinalityPassed(head, rw, answered, list)
      /\ told'.in.head = head /\ told'.in.rw = rw
      /\ told'.in.answered = answered /\ told'.in.list = list
  BY DEF Tell
<1>2. CardinalityGate'
  BY <1>1, SumGate, VectorGate, Zenon DEF CardinalityGate, CardinalityPassed
<1> QED
  BY <1>1, <1>2 DEF ServiceVerdictsSound, ShardChoice, RightHostedCluster,
     DiagnosisNeedsEvidence, RoleLinkage, ProvidersChecked, SignalsFollowSpecs

\* VerifyRecordingRules
LEMMA RulesAsked == AskRules => ServiceVerdictsSound'
<1> SUFFICES ASSUME NEW probe \in Queries, NEW active \in Queries, NEW blackbox \in Queries,
                    Tell("rules", [probe |-> probe, rules |-> {active, blackbox}],
                         VerifyRecordingRules(probe, active, blackbox))
             PROVE  ServiceVerdictsSound'
  BY DEF AskRules
<1>1. /\ told'.what = "rules" /\ told'.in.probe = probe /\ told'.in.rules = {active, blackbox}
      /\ told'.out = VerifyRecordingRules(probe, active, blackbox)
  BY DEF Tell
<1>2. ASSUME NEW rule \in Queries
      PROVE  /\ RuleVerdict(probe, rule) = "ok" <=> rule = "data"
             /\ RuleVerdict(probe, rule) = "notIngested" => probe = "empty"
             /\ RuleVerdict(probe, rule) = "ruleBroken" => probe # "empty"
  BY DEF RuleVerdict, NoProbeData, Queries
<1>3. DiagnosisNeedsEvidence'
  BY <1>1, <1>2 DEF DiagnosisNeedsEvidence, VerifyRecordingRules
<1> QED
  BY <1>1, <1>3 DEF ServiceVerdictsSound, ShardChoice, RightHostedCluster, CardinalityGate,
     RoleLinkage, ProvidersChecked, SignalsFollowSpecs

\* VerifyOCMRoleLinked and VerifyOCMRoleLinkedForAccount
LEMMA RoleAsked == AskRole => ServiceVerdictsSound'
<1> SUFFICES ASSUME NEW list \in Items(Entries),
                    Tell("role", list, [linked |-> LinkedAccounts(list) # {},
                                        ours |-> "ours" \in LinkedAccounts(list)])
             PROVE  ServiceVerdictsSound'
  BY DEF AskRole
<1>1. /\ told'.what = "role" /\ told'.in = list
      /\ told'.out.linked <=> LinkedAccounts(list) # {}
      /\ told'.out.ours <=> "ours" \in LinkedAccounts(list)
  BY DEF Tell
<1>2. \A i \in DOMAIN list : list[i].account \in {"ours", "other"}
  <2>1. \A e \in Entries : e.account \in {"ours", "other"}
    BY DEF Entries
  <2> QED BY <2>1, ServiceVerdictsAssumption, Bounded DEF Items
<1>3. RoleLinkage'
  BY <1>1, <1>2 DEF RoleLinkage, LinkedAccounts
<1> QED
  BY <1>1, <1>3 DEF ServiceVerdictsSound, ShardChoice, RightHostedCluster, CardinalityGate,
     DiagnosisNeedsEvidence, ProvidersChecked, SignalsFollowSpecs

\* The two listings of the external auth providers.
LEMMA ExternalAuthAsked == AskExternalAuth => ServiceVerdictsSound'
<1> SUFFICES ASSUME NEW enabled \in BOOLEAN, NEW still \in BOOLEAN, NEW listed, NEW later,
                    Tell("auth", [enabled |-> enabled, still |-> still, listed |-> listed,
                                  later |-> later],
                         ExternalAuth(enabled, still, listed, later))
             PROVE  ServiceVerdictsSound'
  BY DEF AskExternalAuth
<1>1. /\ told'.what = "auth" /\ told'.in.enabled = enabled /\ told'.in.still = still
      /\ told'.in.listed = listed /\ told'.in.later = later
      /\ told'.out = ExternalAuth(enabled, still, listed, later)
  BY DEF Tell
<1>2. ProvidersChecked'
  BY <1>1 DEF ProvidersChecked, ExternalAuth, Valid, Probed
<1> QED
  BY <1>1, <1>2 DEF ServiceVerdictsSound, ShardChoice, RightHostedCluster, CardinalityGate,
     DiagnosisNeedsEvidence, RoleLinkage, SignalsFollowSpecs

\* WriteSippyJUnit
LEMMA SignalsAsked == AskSignals => ServiceVerdictsSound'
<1> SUFFICES ASSUME NEW ready \in BOOLEAN, NEW its \in Items(Its),
                    ready \/ \A i \in DOMAIN its : its[i].state = "skipped",
                    Tell("signals", [ready |-> ready, its |-> its], Signals(ready, its))
             PROVE  ServiceVerdictsSound'
  BY DEF AskSignals
<1>1. /\ told'.what = "signals" /\ told'.in.ready = ready /\ told'.in.its = its
      /\ told'.out = Signals(ready, its)
  BY DEF Tell
<1>2. /\ DOMAIN Signals(ready, its) =
           {"install", "infra"} \cup {a \in {"upgrade"} : ready /\ OfArea(its, a) # {}}
      /\ \A s \in DOMAIN Signals(ready, its) : Signals(ready, its)[s] <=>
           ready /\ (s # "install" => "failed" \notin OfArea(its, s))
  BY DEF Signals
<1>3. \A i \in DOMAIN its : its[i].state \in {"passed", "failed", "skipped"}
  <2>1. \A e \in Its : e.state \in {"passed", "failed", "skipped"}
    BY DEF Its
  <2> QED BY <2>1, ServiceVerdictsAssumption, Bounded DEF Items
<1>4. \A a : "failed" \in OfArea(its, a) <=>
               \E i \in DOMAIN its : a \in its[i].areas /\ its[i].state \in {"failed"}
  BY DEF OfArea
<1>5. \A a : OfArea(its, a) # {} <=>
               \E i \in DOMAIN its : a \in its[i].areas /\ its[i].state \in {"passed", "failed"}
  BY <1>3 DEF OfArea
<1>6. SignalsFollowSpecs'
  BY <1>1, <1>2, <1>4, <1>5 DEF SignalsFollowSpecs
<1> QED
  BY <1>1, <1>6 DEF ServiceVerdictsSound, ShardChoice, RightHostedCluster, CardinalityGate,
     DiagnosisNeedsEvidence, RoleLinkage, ProvidersChecked

\* What is made of the answers of OCM, of the management cluster, of RHOBS and of the
\* suite is what the callers rely on, for answers of any length.
THEOREM ServiceVerdictsHold == VerifiersSpec => []ServiceVerdictsSound
<1>1. VerifiersInit => ServiceVerdictsSound
  <2>1. VerifiersInit => told.what = "nothing"
    BY DEF VerifiersInit, ServiceVerdictsInit, NothingTold
  <2> QED
    BY <2>1 DEF ServiceVerdictsSound, ShardChoice, RightHostedCluster, CardinalityGate,
       DiagnosisNeedsEvidence, RoleLinkage, ProvidersChecked, SignalsFollowSpecs
<1>2. ServiceVerdictsSound /\ [VerifiersNext]_verifiersVars => ServiceVerdictsSound'
  <2> SUFFICES ASSUME ServiceVerdictsSound, [ServiceVerdictsNext]_told PROVE ServiceVerdictsSound'
    BY Composition
  <2>1. CASE ServiceVerdictsNext
    BY <2>1, ShardAsked, NamespaceResolved, CardinalityAsked, RulesAsked, RoleAsked,
       ExternalAuthAsked, SignalsAsked
    DEF ServiceVerdictsNext
  <2>2. CASE UNCHANGED told
    <3>1. ShardChoice'
      BY <2>2 DEF ServiceVerdictsSound, ShardChoice
    <3>2. RightHostedCluster' /\ CardinalityGate'
      BY <2>2 DEF ServiceVerdictsSound, RightHostedCluster, CardinalityGate
    <3>3. DiagnosisNeedsEvidence' /\ RoleLinkage' /\ ProvidersChecked' /\ SignalsFollowSpecs'
      BY <2>2 DEF ServiceVerdictsSound, DiagnosisNeedsEvidence, RoleLinkage, ProvidersChecked,
         SignalsFollowSpecs
    <3> QED BY <3>1, <3>2, <3>3 DEF ServiceVerdictsSound
  <2> QED BY <2>1, <2>2
<1>3. QED
  BY <1>1, <1>2, PTL DEF VerifiersSpec
=============================================================================
