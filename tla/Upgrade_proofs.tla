--------------------------- MODULE Upgrade_proofs ---------------------------
(***************************************************************************)
(* What the upgrade specs and their signal mean, for any selection of      *)
(* specs, any number of jobs on one cluster and any number of policies.    *)
(***************************************************************************)
EXTENDS Upgrade, TLAPS

\* The type invariant of the job, its specs and OCM.
THEOREM TypeCorrect == Spec => []TypeOK
<1>1. Init => TypeOK
  <2> SUFFICES ASSUME Init PROVE TypeOK
    OBVIOUS
  <2>1. expired \in BOOLEAN /\ early \in BOOLEAN
    BY Zenon DEF Init
  <2>2. 1 \in 1..MaxJobs
    BY UpgradeAssumption
  <2>3. QED
    BY <2>1, <2>2, UpgradeAssumption DEF Init, TypeOK, Unrun, Units
<1>2. TypeOK /\ [Next]_vars => TypeOK'
  <2> SUFFICES ASSUME TypeOK, [Next]_vars PROVE TypeOK'
    OBVIOUS
  <2> USE UpgradeAssumption DEF TypeOK, Unit, Units, ocm, hist
  <2> DEFINE Booleans == expired \in BOOLEAN /\ early \in BOOLEAN
  <2>1. Booleans'
    BY Zenon DEF Next, SpecStep, Take, Begin, SkipSpec, SkipUnsure, List, RequestFails,
       Schedule, ScheduleLost, Tick, PolledTarget, PolledOther, VerifyPasses, VerifyFails, WaitTimeout,
       Interrupt, Report, Kill, Start, Deadline, UpgradeStarts, UpgradeEnds, End, vars
  <2> HIDE DEF Booleans
  <2>2. ASSUME NEW s \in Specs, Take(s) PROVE TypeOK'
    BY <2>1, <2>2 DEF Take, Booleans
  <2>3. CASE Begin \/ List \/ Tick \/ PolledTarget \/ PolledOther
    BY <2>1, <2>3 DEF Begin, List, Tick, PolledTarget, PolledOther, Goto, Booleans
  <2>4. ASSUME NEW p \in {"begin", "list", "schedule", "wait", "polled", "verify"},
               NEW r \in {"skipped", "passed", "failed"}, End(p, r)
        PROVE /\ pc' = "suite" /\ cur' = None
              /\ result' \in [Specs -> {"unrun", "skipped", "passed", "failed"}]
              /\ seen' = "nothing" /\ UNCHANGED <<env, selected, job, signal>>
    BY <2>4 DEF End
  <2>5. CASE SkipSpec \/ SkipUnsure
    BY <2>1, <2>4, <2>5 DEF SkipSpec, SkipUnsure, Booleans, End
  <2>6. CASE RequestFails \/ VerifyPasses \/ VerifyFails
    BY <2>1, <2>4, <2>6 DEF RequestFails, VerifyPasses, VerifyFails, Booleans
  <2>7. CASE Schedule
    <3>1. pending' \in [Units -> 0..MaxPolicies] /\ UNCHANGED <<atTarget, running>>
      BY <2>7 DEF Schedule, Accepted
    <3>2. abandoned' \subseteq Units
      BY <2>7 DEF Schedule, Abandon
    <3>3. QED
      BY <2>1, <2>7, <3>1, <3>2 DEF Schedule, Goto, Booleans
  <2>8. CASE ScheduleLost
    BY <2>1, <2>4, <2>8 DEF ScheduleLost, Accepted, Abandon, Booleans
  <2>9. CASE WaitTimeout
    BY <2>1, <2>4, <2>9 DEF WaitTimeout, Abandon, Booleans
  <2>10. CASE Interrupt
    <3>1. pending' \in [Units -> 0..MaxPolicies] /\ UNCHANGED <<atTarget, running>>
      BY <2>10 DEF Interrupt, Accepted
    <3>2. abandoned' \subseteq Units
      BY <2>10 DEF Interrupt, Abandon
    <3>3. /\ result' \in [Specs -> {"unrun", "skipped", "passed", "failed"}]
          /\ cut' \subseteq Specs
      BY <2>10 DEF Interrupt
    <3>4. QED
      BY <2>1, <2>10, <3>1, <3>2, <3>3 DEF Interrupt, Booleans
  <2>11. CASE Report
    BY <2>1, <2>11 DEF Report, UpgradeSignal, Booleans
  <2>12. CASE Kill
    BY <2>1, <2>12 DEF Kill, Abandon, Booleans
  <2>13. CASE Start
    BY <2>1, <2>13 DEF Start, Unrun, Booleans
  <2>14. CASE Deadline
    BY <2>1, <2>14 DEF Deadline, Booleans
  <2>15. ASSUME NEW u \in Units, UpgradeStarts(u) \/ UpgradeEnds(u) PROVE TypeOK'
    <3>1. pending' \in [Units -> 0..MaxPolicies]
      BY <2>15 DEF UpgradeStarts, UpgradeEnds
    <3>2. QED
      BY <2>1, <2>15, <3>1 DEF UpgradeStarts, UpgradeEnds, Booleans
  <2>16. CASE UNCHANGED vars
    BY <2>16 DEF vars
  <2>17. QED
    BY <2>2, <2>3, <2>5, <2>6, <2>7, <2>8, <2>9, <2>10, <2>11, <2>12, <2>13, <2>14, <2>15,
       <2>16
       DEF Next, SpecStep
<1>3. QED
  BY <1>1, <1>2, PTL DEF Spec

-----------------------------------------------------------------------------
(* What a passed spec means.                                               *)

\* A wait is that of a spec that upgrades, and such a spec gets past its wait only
\* with the target version; the poll that says so was right and stays right.
Waited ==
  /\ pc \in {"list", "schedule", "wait", "polled"} => cur # "post"
  /\ pc = "polled" /\ seen = "target" => Unit(cur) \in atTarget
  /\ pc = "verify" /\ cur # "post" => Unit(cur) \in atTarget

UpgradedInv == Waited /\ PassedMeansUpgraded

\* The invariant behind a passed upgrade spec.
THEOREM UpgradedInvariance == Spec => []UpgradedInv
<1>1. Init => UpgradedInv
  BY DEF Init, UpgradedInv, Waited, PassedMeansUpgraded, Unrun
<1>2. TypeOK /\ UpgradedInv /\ [Next]_vars => UpgradedInv'
  <2> SUFFICES ASSUME TypeOK, UpgradedInv, [Next]_vars PROVE UpgradedInv'
    OBVIOUS
  <2> USE UpgradeAssumption
      DEF TypeOK, UpgradedInv, Waited, PassedMeansUpgraded, Unit, ocm, hist
  <2>1. ASSUME NEW s \in Specs, Take(s) PROVE UpgradedInv'
    BY <2>1 DEF Take
  <2>2. CASE Begin \/ List
    BY <2>2 DEF Begin, List, Goto
  <2>3. CASE SkipSpec \/ SkipUnsure
    BY <2>3 DEF SkipSpec, SkipUnsure, End
  <2>4. CASE RequestFails
    BY <2>4 DEF RequestFails, End
  <2>5. CASE Schedule
    BY <2>5 DEF Schedule, Goto, Accepted
  <2>6. CASE ScheduleLost
    BY <2>6 DEF ScheduleLost, End, Accepted
  <2>7. CASE Tick
    BY <2>7 DEF Tick, Goto
  <2>8. CASE PolledTarget \/ PolledOther
    BY <2>8 DEF PolledTarget, PolledOther, Goto
  <2>9. CASE VerifyPasses \/ VerifyFails
    BY <2>9 DEF VerifyPasses, VerifyFails, End
  <2>10. CASE WaitTimeout
    BY <2>10 DEF WaitTimeout, End
  <2>11. CASE Interrupt
    BY <2>11 DEF Interrupt, Accepted
  <2>12. CASE Report
    BY <2>12 DEF Report
  <2>13. CASE Kill
    BY <2>13 DEF Kill
  <2>14. CASE Start \/ Deadline
    BY <2>14 DEF Start, Unrun, Deadline
  <2>15. ASSUME NEW u \in Units, UpgradeStarts(u) PROVE UpgradedInv'
    BY <2>15 DEF UpgradeStarts
  <2>16. ASSUME NEW u \in Units, UpgradeEnds(u) PROVE UpgradedInv'
    BY <2>16 DEF UpgradeEnds
  <2>17. CASE UNCHANGED vars
    BY <2>17 DEF vars
  <2>18. QED
    BY <2>1, <2>2, <2>3, <2>4, <2>5, <2>6, <2>7, <2>8, <2>9, <2>10, <2>11, <2>12,
       <2>13, <2>14, <2>15, <2>16, <2>17 DEF Next, SpecStep
<1>3. QED
  BY <1>1, <1>2, TypeCorrect, PTL DEF Spec

\* An upgrade spec passes only when its unit has the target version.
THEOREM PassedMeansUpgradedHolds == Spec => []PassedMeansUpgraded
<1>1. UpgradedInv => PassedMeansUpgraded
  BY DEF UpgradedInv
<1>2. QED
  BY <1>1, UpgradedInvariance, PTL

-----------------------------------------------------------------------------
(* The policies OCM holds.                                                 *)

\* While a spec waits for a unit that nobody has abandoned, OCM has at most the one
\* policy of that spec: it waits for its nextRun, is carried out, or is done with.
OnePolicy ==
  pc \in {"wait", "polled"} /\ Unit(cur) \notin abandoned =>
    /\ pending[Unit(cur)] <= 1
    /\ pending[Unit(cur)] > 0 => Unit(cur) \notin running
    /\ Unit(cur) \in atTarget => pending[Unit(cur)] = 0 /\ Unit(cur) \notin running

PolicyInv == OnePolicy /\ NoUpgradeBehindTheSpecs

\* No upgrade runs or is about to run that no spec waits for, but for the exceptions.
THEOREM NoUpgradeBehindTheSpecsHolds == Spec => []NoUpgradeBehindTheSpecs
<1>1. Init => PolicyInv
  BY DEF Init, PolicyInv, OnePolicy, NoUpgradeBehindTheSpecs, Units
<1>2. TypeOK /\ Waited /\ PolicyInv /\ [Next]_vars => PolicyInv'
  <2> SUFFICES ASSUME TypeOK, Waited, PolicyInv, [Next]_vars PROVE PolicyInv'
    OBVIOUS
  <2> USE UpgradeAssumption
      DEF TypeOK, PolicyInv, Waited, OnePolicy, NoUpgradeBehindTheSpecs, Unit, Units, ocm, hist
  <2>1. ASSUME NEW s \in Specs, Take(s) PROVE PolicyInv'
    BY <2>1 DEF Take
  <2>2. CASE Begin \/ List
    BY <2>2 DEF Begin, List, Goto
  <2>3. CASE SkipSpec \/ SkipUnsure
    BY <2>3 DEF SkipSpec, SkipUnsure, End
  <2>4. CASE RequestFails
    BY <2>4 DEF RequestFails, End
  <2>5. CASE Schedule
    BY <2>5 DEF Schedule, Goto, Accepted, Abandon, Redundant
  <2>6. CASE ScheduleLost
    BY <2>6 DEF ScheduleLost, End, Accepted, Abandon
  <2>7. CASE Tick
    BY <2>7 DEF Tick, Goto
  <2>8. CASE PolledTarget \/ PolledOther
    BY <2>8 DEF PolledTarget, PolledOther, Goto
  <2>9. CASE VerifyPasses \/ VerifyFails
    BY <2>9 DEF VerifyPasses, VerifyFails, End
  <2>10. CASE WaitTimeout
    BY <2>10 DEF WaitTimeout, End, Abandon
  <2>11. CASE Interrupt
    BY <2>11 DEF Interrupt, Accepted, Abandon
  <2>12. CASE Report
    BY <2>12 DEF Report
  <2>13. CASE Kill
    BY <2>13 DEF Kill, Abandon
  <2>14. CASE Start \/ Deadline
    BY <2>14 DEF Start, Deadline
  <2>15. ASSUME NEW u \in Units, UpgradeStarts(u) PROVE PolicyInv'
    BY <2>15 DEF UpgradeStarts
  <2>16. ASSUME NEW u \in Units, UpgradeEnds(u) PROVE PolicyInv'
    BY <2>16 DEF UpgradeEnds
  <2>17. CASE UNCHANGED vars
    BY <2>17 DEF vars
  <2>18. QED
    BY <2>1, <2>2, <2>3, <2>4, <2>5, <2>6, <2>7, <2>8, <2>9, <2>10, <2>11, <2>12,
       <2>13, <2>14, <2>15, <2>16, <2>17 DEF Next, SpecStep
<1>3. UpgradedInv => Waited
  BY DEF UpgradedInv
<1>4. PolicyInv => NoUpgradeBehindTheSpecs
  BY DEF PolicyInv
<1>5. QED
  BY <1>1, <1>2, <1>3, <1>4, TypeCorrect, UpgradedInvariance, PTL DEF Spec

-----------------------------------------------------------------------------
(* The signal.                                                             *)

\* Why a spec was skipped, and that nothing passes unless the job is configured.
Skipped ==
  /\ pc \in {"list", "schedule", "wait", "polled", "verify"} => env.configured
  /\ \A s \in Specs :
       /\ result[s] = "passed" => env.configured
       /\ result[s] = "skipped" /\ env.topo \in Requires(s) =>
            ~env.configured \/ s \in unsure \cup cut

\* The signal is written at the end of the job.
Written == signal # "unwritten" => pc = "done"

SignalInv == Skipped /\ Written /\ SignalMeansUpgrade

\* The signal "passed" stands for an upgraded cluster, but for the exceptions.
THEOREM SignalMeansUpgradeHolds == Spec => []SignalMeansUpgrade
<1>1. Init => SignalInv
  BY DEF Init, SignalInv, Skipped, Written, SignalMeansUpgrade, Unrun
<1>2. TypeOK /\ PassedMeansUpgraded /\ SignalInv /\ [Next]_vars => SignalInv'
  <2> SUFFICES ASSUME TypeOK, PassedMeansUpgraded, SignalInv, [Next]_vars PROVE SignalInv'
    OBVIOUS
  <2> USE UpgradeAssumption
      DEF TypeOK, SignalInv, Skipped, Written, SignalMeansUpgrade, Upgrading, ocm, hist
  <2>1. ASSUME NEW s \in Specs, Take(s) PROVE SignalInv'
    BY <2>1 DEF Take
  <2>2. CASE Begin \/ List
    BY <2>2 DEF Begin, List, Goto
  <2>3. CASE SkipSpec \/ SkipUnsure
    BY <2>3 DEF SkipSpec, SkipUnsure, End
  <2>4. CASE RequestFails
    BY <2>4 DEF RequestFails, End
  <2>5. CASE Schedule
    BY <2>5 DEF Schedule, Goto, Accepted
  <2>6. CASE ScheduleLost
    BY <2>6 DEF ScheduleLost, End, Accepted
  <2>7. CASE Tick
    BY <2>7 DEF Tick, Goto
  <2>8. CASE PolledTarget \/ PolledOther
    BY <2>8 DEF PolledTarget, PolledOther, Goto
  <2>9. CASE VerifyPasses \/ VerifyFails
    BY <2>9 DEF VerifyPasses, VerifyFails, End
  <2>10. CASE WaitTimeout
    BY <2>10 DEF WaitTimeout, End
  <2>11. CASE Interrupt
    BY <2>11 DEF Interrupt, Accepted
  <2>12. CASE Report
    <3>1. Skipped' /\ Written'
      BY <2>12 DEF Report
    <3>2. ASSUME signal' = "passed", NEW s \in Upgrading
          PROVE  Unit(s) \in atTarget \/ s \in unsure \cup cut
      <4>1. /\ s \in Specs \ {"post"} /\ s \in selected /\ env.topo \in Requires(s)
            /\ result[s] \notin {"unrun", "failed"}
        BY <2>12, <3>2 DEF Report, UpgradeSignal, Ran
      <4>2. PICK q \in Specs : result[q] = "passed"
        BY <2>12, <3>2 DEF Report, UpgradeSignal, Ran
      <4>3. CASE result[s] = "skipped"
        BY <4>1, <4>2, <4>3
      <4>4. CASE result[s] = "passed"
        BY <4>1, <4>4 DEF PassedMeansUpgraded
      <4>5. QED
        BY <4>1, <4>3, <4>4
    <3>3. QED
      BY <2>12, <3>1, <3>2 DEF Report
  <2>13. CASE Kill
    BY <2>13 DEF Kill
  <2>14. CASE Start \/ Deadline
    BY <2>14 DEF Start, Unrun, Deadline
  <2>15. ASSUME NEW u \in Units, UpgradeStarts(u) PROVE SignalInv'
    BY <2>15 DEF UpgradeStarts
  <2>16. ASSUME NEW u \in Units, UpgradeEnds(u) PROVE SignalInv'
    BY <2>16 DEF UpgradeEnds
  <2>17. CASE UNCHANGED vars
    BY <2>17 DEF vars
  <2>18. QED
    BY <2>1, <2>2, <2>3, <2>4, <2>5, <2>6, <2>7, <2>8, <2>9, <2>10, <2>11, <2>12,
       <2>13, <2>14, <2>15, <2>16, <2>17 DEF Next, SpecStep
<1>3. UpgradedInv => PassedMeansUpgraded
  BY DEF UpgradedInv
<1>4. SignalInv => SignalMeansUpgrade
  BY DEF SignalInv
<1>5. QED
  BY <1>1, <1>2, <1>3, <1>4, TypeCorrect, UpgradedInvariance, PTL DEF Spec
=============================================================================
