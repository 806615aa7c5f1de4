----------------------------- MODULE CloudTrail -----------------------------
(***************************************************************************)
(* VerifyNoAccessDenied (pkg/verifiers/cloudtrail.go): the events of the   *)
(* lookback window are read page by page, and at most MaxPages of them.    *)
(* An event says whether it can be read, whether it mentions the filter,   *)
(* whether it is a denial, its action and its caller.                      *)
(***************************************************************************)
EXTENDS Naturals, Sequences

CONSTANTS
  Events,   \* the events an account may have
  MaxLog,   \* bound: pages of the window
  MaxPages  \* maxPages

Event == [complete : BOOLEAN, matches : BOOLEAN, denial : BOOLEAN,
          action : {"DeleteListener", "other"},
          arn : {"none", "Installer-Role", "other"},
          issuer : {"none", "Installer-Role", "other"}]

ASSUME CloudTrailAssumption ==
  Events \subseteq Event /\ MaxLog \in Nat /\ MaxPages \in Nat \ {0}

VARIABLES
  trailPc, \* where the verifier is
  log,     \* the pages of the window, newest first, an event each
  page,    \* pages read
  denied   \* deniedEvents, by the page they are on

trailVars == <<trailPc, log, page, denied>>

CloudTrailTypeOK ==
  /\ trailPc \in {"start", "lookup", "passed", "failed"}
  /\ log \in Seq(Events) /\ page \in 0..MaxPages /\ page <= Len(log)
  /\ denied \subseteq 1..Len(log)

CloudTrailInit == trailPc = "start" /\ log = <<>> /\ page = 0 /\ denied = {}

\* There is always a first page.
CloudTrailBegin ==
  /\ trailPc = "start" /\ trailPc' = "lookup"
  /\ \E n \in 1..MaxLog : log' \in [1..n -> Events]
  /\ UNCHANGED <<page, denied>>

\* callerARNFromEvent
CallerARN(e) == IF e.arn # "none" THEN e.arn ELSE e.issuer

\* Mutant: the role is not looked at.
IsKnownAction(e) == e.action = "DeleteListener"

\* isKnownDenial: OCPBUGS-69881 only
IsKnownDenial(e) == e.action = "DeleteListener" /\ CallerARN(e) = "Installer-Role"

IsDenied(e) == e.complete /\ e.matches /\ e.denial /\ ~IsKnownDenial(e)

LookupFails ==
  /\ trailPc = "lookup" /\ trailPc' = "failed"
  /\ UNCHANGED <<log, page, denied>>

\* Mutant: the last page is not read.
LookupShort ==
  /\ trailPc = "lookup" /\ page' = page + 1
  /\ denied' = denied \cup {i \in {page'} : IsDenied(log[i])}
  /\ trailPc' = IF page' < Len(log) /\ page' + 1 < MaxPages THEN "lookup"
                ELSE IF denied' = {} THEN "passed" ELSE "failed"
  /\ UNCHANGED log

\* Mutant: maxPages is dropped.
LookupUnbounded ==
  /\ trailPc = "lookup" /\ page' = page + 1
  /\ denied' = denied \cup {i \in {page'} : IsDenied(log[i])}
  /\ trailPc' = IF page' < Len(log) THEN "lookup"
                ELSE IF denied' = {} THEN "passed" ELSE "failed"
  /\ UNCHANGED log

\* LookupEvents; the loop ends without a token or after maxPages.
Lookup ==
  /\ trailPc = "lookup" /\ page' = page + 1
  /\ denied' = denied \cup {i \in {page'} : IsDenied(log[i])}
  /\ trailPc' = IF page' < Len(log) /\ page' < MaxPages THEN "lookup"
                ELSE IF denied' = {} THEN "passed" ELSE "failed"
  /\ UNCHANGED log

CloudTrailNext == CloudTrailBegin \/ Lookup \/ LookupFails

CloudTrailSpec == CloudTrailInit /\ [][CloudTrailNext]_trailVars

-----------------------------------------------------------------------------
(* Properties                                                              *)

\* A denial that is not the known bug of the installer role passes unnoticed only
\* beyond the last page that is read; nothing says that there were more pages.
NoDenialUnseen ==
  trailPc = "passed" =>
    \A i \in 1..Len(log) :
      log[i].complete /\ log[i].matches /\ log[i].denial =>
        \/ i > MaxPages
        \/ log[i].action = "DeleteListener" /\ "Installer-Role" \in {log[i].arn, log[i].issuer}
=============================================================================
