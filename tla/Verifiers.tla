------------------------------ MODULE Verifiers ------------------------------
(***************************************************************************)
(* The verifiers a spec passes to RunVerifiers, and the specs on the AWS   *)
(* account, side by side.  They share no state with each other, so one     *)
(* that runs is enough: RunVerifiers has their interleavings.              *)
(***************************************************************************)
EXTENDS Rollouts, OAuthReadiness, CloudTrail, ClusterVerdicts, ServiceVerdicts, AccountSpecs

VARIABLE verifier \* which of them is called

verifiersVars == <<rolloutsVars, oauthVars, trailVars, said, told, acctVars, verifier>>

VerifiersInit ==
  /\ verifier \in {"rollouts", "oauth", "trail", "cluster", "service", "account"}
  /\ RolloutsInit /\ OAuthInit /\ CloudTrailInit
  /\ ClusterVerdictsInit /\ ServiceVerdictsInit /\ AccountInit

\* One verifier takes a step and leaves what belongs to the others alone.
VerifiersNext ==
  /\ UNCHANGED verifier
  /\ \/ /\ verifier = "rollouts" /\ RolloutsNext
        /\ UNCHANGED <<oauthVars, trailVars, said, told, acctVars>>
     \/ /\ verifier = "oauth" /\ OAuthNext
        /\ UNCHANGED <<rolloutsVars, trailVars, said, told, acctVars>>
     \/ /\ verifier = "trail" /\ CloudTrailNext
        /\ UNCHANGED <<rolloutsVars, oauthVars, said, told, acctVars>>
     \/ /\ verifier = "cluster" /\ ClusterVerdictsNext
        /\ UNCHANGED <<rolloutsVars, oauthVars, trailVars, told, acctVars>>
     \/ /\ verifier = "service" /\ ServiceVerdictsNext
        /\ UNCHANGED <<rolloutsVars, oauthVars, trailVars, said, acctVars>>
     \/ /\ verifier = "account" /\ AccountNext
        /\ UNCHANGED <<rolloutsVars, oauthVars, trailVars, said, told>>

VerifiersSpec == VerifiersInit /\ [][VerifiersNext]_verifiersVars

-----------------------------------------------------------------------------
(* Properties                                                              *)

\* The type invariant of all that keeps state while it runs; among others,
\* VerifyNoAccessDenied never reads more than maxPages pages.
VerifiersTypeOK == RolloutsTypeOK /\ OAuthTypeOK /\ CloudTrailTypeOK /\ AccountTypeOK
=============================================================================
