---------------------------- MODULE RunVerifiers ----------------------------
(***************************************************************************)
(* RunVerifiers (pkg/verifiers/verifier.go): one goroutine per verifier,   *)
(* a WaitGroup, and a channel with one slot per verifier that is closed    *)
(* and drained after wg.Wait.                                              *)
(***************************************************************************)
EXTENDS Naturals, Sequences, FiniteSets

CONSTANTS
  Verifiers,  \* the verifiers passed in
  NoReport

ASSUME VerifiersAssumption ==
  /\ IsFiniteSet(Verifiers)
  /\ \A S \in SUBSET Verifiers : S # NoReport

VARIABLES
  main,     \* the calling goroutine: "spawn", "wait", "drain", "returned"
  task,     \* the goroutine of each verifier
  verdict,  \* what each Verify returned
  wg,       \* the WaitGroup's counter
  errCh,    \* the channel's buffer
  closed,   \* close(errCh) was called
  errs      \* errors received so far

vars == <<main, task, verdict, wg, errCh, closed, errs>>

\* Mutant: the goroutines are expected to fail one short of all.
CapacityOneShort == Cardinality(Verifiers) - 1

\* make(chan error, len(verifiers))
Capacity == Cardinality(Verifiers)

TypeOK ==
  /\ main \in {"spawn", "wait", "drain", "returned"}
  /\ task \in [Verifiers -> {"unborn", "running", "sending", "leaving", "exited"}]
  /\ verdict \in [Verifiers -> {"pending", "ok", "failed"}]
  /\ wg \in Nat
  /\ errCh \in Seq(Verifiers)
  /\ closed \in BOOLEAN
  /\ errs \in Seq(Verifiers)

Init ==
  /\ main = "spawn"
  /\ task = [v \in Verifiers |-> "unborn"]
  /\ verdict = [v \in Verifiers |-> "pending"]
  /\ wg = 0
  /\ errCh = <<>> /\ closed = FALSE /\ errs = <<>>

-----------------------------------------------------------------------------
(* The calling goroutine.  Verifiers are independent and interchangeable,  *)
(* so the loop takes them in any order.                                    *)

\* wg.Add(1), then the go statement.
Spawn(v) ==
  /\ main = "spawn" /\ task[v] = "unborn"
  /\ wg' = wg + 1
  /\ task' = [task EXCEPT ![v] = "running"]
  /\ UNCHANGED <<main, verdict, errCh, closed, errs>>

LoopDone ==
  /\ main = "spawn" /\ \A v \in Verifiers : task[v] # "unborn"
  /\ main' = "wait"
  /\ UNCHANGED <<task, verdict, wg, errCh, closed, errs>>

\* Mutant: the channel is closed without waiting for the goroutines.
CloseWithoutWait ==
  /\ main = "wait"
  /\ main' = "drain" /\ closed' = TRUE
  /\ UNCHANGED <<task, verdict, wg, errCh, errs>>

\* wg.Wait returns when the counter is zero; then the channel is closed.
WaitAndClose ==
  /\ main = "wait" /\ wg = 0
  /\ main' = "drain" /\ closed' = TRUE
  /\ UNCHANGED <<task, verdict, wg, errCh, errs>>

\* for err := range errCh
Receive ==
  /\ main = "drain" /\ errCh # <<>>
  /\ errs' = Append(errs, Head(errCh)) /\ errCh' = Tail(errCh)
  /\ UNCHANGED <<main, task, verdict, wg, closed>>

\* Mutant: the first error ends the range.
ReturnFirst ==
  /\ main = "drain" /\ closed /\ (errCh = <<>> \/ errs # <<>>)
  /\ main' = "returned"
  /\ UNCHANGED <<task, verdict, wg, errCh, closed, errs>>

\* The range ends when the channel is closed and empty; errors.Join.
Return ==
  /\ main = "drain" /\ closed /\ errCh = <<>>
  /\ main' = "returned"
  /\ UNCHANGED <<task, verdict, wg, errCh, closed, errs>>

-----------------------------------------------------------------------------
(* The goroutine of verifier v.                                            *)

VerifyReturns(v) ==
  /\ task[v] = "running"
  /\ \/ /\ verdict' = [verdict EXCEPT ![v] = "ok"]
        /\ task' = [task EXCEPT ![v] = "leaving"]
     \/ /\ verdict' = [verdict EXCEPT ![v] = "failed"]
        /\ task' = [task EXCEPT ![v] = "sending"]
  /\ UNCHANGED <<main, wg, errCh, closed, errs>>

\* errCh <- err blocks while the buffer is full; on a closed channel it panics.
Send(v) ==
  /\ task[v] = "sending" /\ Len(errCh) < Capacity /\ ~closed
  /\ errCh' = Append(errCh, v)
  /\ task' = [task EXCEPT ![v] = "leaving"]
  /\ UNCHANGED <<main, verdict, wg, closed, errs>>

\* Mutant: wg.Done is only reached when Verify succeeds.
LeaveOnSuccess(v) ==
  /\ task[v] = "leaving"
  /\ wg' = IF verdict[v] = "ok" THEN wg - 1 ELSE wg
  /\ task' = [task EXCEPT ![v] = "exited"]
  /\ UNCHANGED <<main, verdict, errCh, closed, errs>>

\* defer wg.Done()
Leave(v) ==
  /\ task[v] = "leaving"
  /\ wg' = wg - 1
  /\ task' = [task EXCEPT ![v] = "exited"]
  /\ UNCHANGED <<main, verdict, errCh, closed, errs>>

Code ==
  \/ LoopDone \/ WaitAndClose \/ Receive \/ Return
  \/ \E v \in Verifiers : Spawn(v) \/ Send(v) \/ Leave(v)

Next == Code \/ \E v \in Verifiers : VerifyReturns(v)

Spec == Init /\ [][Next]_vars

\* Go schedules every runnable goroutine; nothing obliges a Verify to return.
FairSpec ==
  /\ Spec
  /\ WF_vars(LoopDone \/ WaitAndClose \/ Receive \/ Return)
  /\ \A v \in Verifiers : WF_vars(Spawn(v)) /\ WF_vars(Send(v)) /\ WF_vars(Leave(v))

-----------------------------------------------------------------------------
(* Properties                                                              *)

\* A goroutine that has an error to report always finds room in the channel
\* and never finds it closed: nobody waits on wg.Wait for a goroutine that
\* waits for the drain, and no send panics.
SendNeverBlocks ==
  \A v \in Verifiers : task[v] = "sending" => Len(errCh) < Capacity /\ ~closed

Reported == {errs[i] : i \in 1 .. Len(errs)}

\* When RunVerifiers returns every verifier has been waited for and the joined
\* error holds one error per failed verifier, none lost and none twice.
EveryFailureReported ==
  main = "returned" =>
    /\ \A v \in Verifiers : verdict[v] # "pending"
    /\ Reported = {v \in Verifiers : verdict[v] = "failed"}
    /\ Len(errs) = Cardinality(Reported)

\* Once all verifiers have returned RunVerifiers returns.
Joins == (\A v \in Verifiers : verdict[v] # "pending") ~> main = "returned"

\* RunVerifiers implements VerifierJoin: the report appears when the function
\* returns, and it is the content of the joined error.
Abstract == INSTANCE VerifierJoin WITH
  report <- IF main = "returned" THEN Reported ELSE NoReport

ImplementsJoin == Abstract!JoinSpec
=============================================================================
