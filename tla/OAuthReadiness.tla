--------------------------- MODULE OAuthReadiness ---------------------------
(***************************************************************************)
(* VerifyOAuthServerReadiness (pkg/verifiers/oauth_readiness.go): wait for *)
(* the pods, then for the endpoint, each until the clock is past a         *)
(* deadline of its own.  The cluster may answer every poll as it likes.    *)
(***************************************************************************)
EXTENDS Naturals

CONSTANTS
  Timeout,      \* the caller's timeout, in steps of the clock
  PodPoll,      \* pollInterval of the pods
  EndpointPoll, \* pollInterval of the endpoint
  ListTime,     \* bound: time a list of the pods may take
  RequestTime   \* Timeout of the HTTP client

ASSUME OAuthAssumption ==
  /\ Timeout \in Nat /\ PodPoll \in Nat /\ EndpointPoll \in Nat
  /\ ListTime \in Nat /\ RequestTime \in Nat

VARIABLES
  oauthPc,  \* which condition is waited for
  now,      \* the clock, since the call
  deadline, \* of the wait that is under way
  podsAt    \* when the list that was found ready was taken

oauthVars == <<oauthPc, now, deadline, podsAt>>

OAuthTypeOK ==
  /\ oauthPc \in {"start", "pods", "endpoint", "passed", "failed"}
  /\ now \in Nat /\ deadline \in Nat /\ podsAt \in Nat

OAuthInit == oauthPc = "start" /\ now = 0 /\ deadline = 0 /\ podsAt = 0

OAuthBegin ==
  /\ oauthPc = "start" /\ oauthPc' = "pods" /\ deadline' = now + Timeout
  /\ UNCHANGED <<now, podsAt>>

\* time.Now().After(deadline) at the head of a loop, an error of the list, and
\* ctx.Done() during a pause.
PastDeadline ==
  /\ oauthPc \in {"pods", "endpoint"} /\ now > deadline /\ oauthPc' = "failed"
  /\ UNCHANGED <<now, deadline, podsAt>>

OAuthError ==
  /\ oauthPc \in {"pods", "endpoint"} /\ oauthPc' = "failed"
  /\ UNCHANGED <<now, deadline, podsAt>>

\* Mutant: the deadline is set inside the loop.
PodsNotReadyRestarts ==
  /\ oauthPc = "pods" /\ now <= deadline
  /\ \E t \in 0..ListTime : now' = now + t + PodPoll
  /\ deadline' = now' + Timeout
  /\ UNCHANGED <<oauthPc, podsAt>>

\* There are no pods, a pod has no container or one that is not ready.
PodsNotReady ==
  /\ oauthPc = "pods" /\ now <= deadline
  /\ \E t \in 0..ListTime : now' = now + t + PodPoll
  /\ UNCHANGED <<oauthPc, deadline, podsAt>>

\* waitForOAuthPodReadiness returns; waitForOAuthWellKnownEndpoint sets a new deadline.
PodsReady ==
  /\ oauthPc = "pods" /\ now <= deadline /\ oauthPc' = "endpoint"
  /\ \E t \in 0..ListTime : now' = now + t /\ podsAt' \in now..now'
  /\ deadline' = now' + Timeout

\* Mutant: a failed request starts the wait anew.
NotServingRestarts ==
  /\ oauthPc = "endpoint" /\ now <= deadline
  /\ \E t \in 0..RequestTime : now' = now + t + EndpointPoll
  /\ deadline' = now' + Timeout
  /\ UNCHANGED <<oauthPc, podsAt>>

\* The request fails or its status is not 200.
NotServing ==
  /\ oauthPc = "endpoint" /\ now <= deadline
  /\ \E t \in 0..RequestTime : now' = now + t + EndpointPoll
  /\ UNCHANGED <<oauthPc, deadline, podsAt>>

Serving ==
  /\ oauthPc = "endpoint" /\ now <= deadline /\ oauthPc' = "passed"
  /\ \E t \in 0..RequestTime : now' = now + t
  /\ UNCHANGED <<deadline, podsAt>>

OAuthNext ==
  \/ OAuthBegin \/ PastDeadline \/ OAuthError
  \/ PodsNotReady \/ PodsReady \/ NotServing \/ Serving

OAuthSpec == OAuthInit /\ [][OAuthNext]_oauthVars

-----------------------------------------------------------------------------
(* Properties                                                              *)

\* The call is over at most one poll after twice the timeout (the comment says
\* "or the provided timeout expires"): each wait has a deadline of its own, and a
\* poll that starts at the deadline is still made.
OAuthBounded ==
  /\ oauthPc = "passed" => now <= 2 * Timeout + ListTime + RequestTime
  /\ now <= Timeout + ListTime + PodPoll \/
     now <= 2 * Timeout + ListTime + RequestTime + EndpointPoll

\* When the verifier passes, the pods were ready no longer ago than one timeout
\* and the two requests: they are not looked at again while the endpoint is
\* waited for.
ReadinessIsRecent ==
  oauthPc = "passed" => now - podsAt <= ListTime + Timeout + RequestTime

\* The two waits of VerifyOAuthServerReadiness, one after the other: how long they
\* take, and how old the first answer is when the second one comes.
OAuthTiming == OAuthBounded /\ ReadinessIsRecent
=============================================================================
