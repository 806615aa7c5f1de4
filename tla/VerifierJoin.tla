---------------------------- MODULE VerifierJoin ----------------------------
(***************************************************************************)
(* What RunVerifiers (pkg/verifiers/verifier.go) promises its callers: it  *)
(* waits for the verdict of every verifier and then reports, once, exactly *)
(* the ones that failed.  No channel, no goroutine, no counter.            *)
(***************************************************************************)
CONSTANTS
  Verifiers,  \* the verifiers passed in
  NoReport    \* RunVerifiers has not returned

VARIABLES
  verdict,    \* what each Verify returned
  report      \* the set of verifiers in the joined error

joinVars == <<verdict, report>>

JoinInit ==
  /\ verdict = [v \in Verifiers |-> "pending"]
  /\ report = NoReport

Decide(v) ==
  /\ verdict[v] = "pending"
  /\ \E r \in {"ok", "failed"} : verdict' = [verdict EXCEPT ![v] = r]
  /\ UNCHANGED report

Join ==
  /\ report = NoReport
  /\ \A v \in Verifiers : verdict[v] # "pending"
  /\ report' = {v \in Verifiers : verdict[v] = "failed"}
  /\ UNCHANGED verdict

JoinNext == (\E v \in Verifiers : Decide(v)) \/ Join

JoinSpec == JoinInit /\ [][JoinNext]_joinVars
=============================================================================
