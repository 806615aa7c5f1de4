----------------------------- MODULE VpcCleanup -----------------------------
(***************************************************************************)
(* CleanupVPCResources (pkg/framework/vpc_cleanup.go): the cascade that    *)
(* empties a VPC, network interfaces (ENIs) first, then the non-default    *)
(* security groups, then the subnets.  The function keeps no state between *)
(* calls; within a call it works through listings that EC2, the cluster    *)
(* uninstaller and other owners of the account make stale underneath it.   *)
(*                                                                         *)
(* One action is one EC2 call of the code together with the control flow   *)
(* up to the next call.  Identifiers are members of CONSTANT sets; a rule  *)
(* is <<direction, group, referenced group>>, and a rule of a group on     *)
(* itself stands for every rule that references no other group (CIDRs).    *)
(***************************************************************************)
EXTENDS Naturals

CONSTANTS
  ENIs,                \* network interface identifiers
  Groups,              \* security group identifiers, Default among them
  Default,             \* the group named "default"
  Subnets,             \* subnet identifiers
  SubnetOf, GroupOf,   \* where each interface lives and the group it uses
  Rules,               \* the rules that may exist in this VPC
  None,                \* no current resource
  EniDeleteMaxRetries, \* eniDeleteMaxRetries
  MaxPolls             \* polls that fit in eniDetachTimeout

Dirs == {"ingress", "egress"}

ASSUME VpcAssumption ==
  /\ Default \in Groups
  /\ SubnetOf \in [ENIs -> Subnets]
  /\ GroupOf \in [ENIs -> Groups]
  /\ Rules \subseteq Dirs \X Groups \X Groups
  /\ None \notin ENIs \cup Groups \cup Subnets
  /\ EniDeleteMaxRetries \in Nat \ {0}
  /\ MaxPolls \in Nat \ {0}

VARIABLES
  eni,       \* EC2: the state of every interface
  groups,    \* EC2: the security groups that exist
  rules,     \* EC2: the rules that exist
  subnets,   \* EC2: the subnets that exist
  quiet,     \* environment: nobody else touches the VPC and no call fails spuriously
  cancelled, \* ctx of the call is done
  pc,        \* where the call is
  unlisted,  \* what the paginator has still to return
  batch,     \* what the current listing returned (enis, sgs, subnets)
  work,      \* what the current loop over batch has still to visit
  seenAttached, \* interfaces whose listing showed an attachment
  seenRules, \* the permissions the listing of groups showed
  current,   \* the loop variable, between two calls of one iteration
  tries,     \* polls done in waitForENIAvailable, attempts in deleteENIWithRetry
  errs,      \* resources named in the collected error
  result,    \* "none" while running, "nil", or the phase whose error is returned
  late       \* history: resources created after their kind's listing started

ec2Vars == <<eni, groups, rules, subnets>>
envVars == <<quiet, cancelled>>
callVars == <<pc, unlisted, batch, work, seenAttached, seenRules, current,
              tries, errs, result>>
vars == <<ec2Vars, envVars, callVars, late>>

Max2(a, b) == IF a > b THEN a ELSE b

TypeOK ==
  /\ eni \in [ENIs -> {"absent", "attached", "detaching", "available"}]
  /\ groups \subseteq Groups
  /\ rules \subseteq Rules
  /\ subnets \subseteq Subnets
  /\ quiet \in BOOLEAN
  /\ cancelled \in BOOLEAN
  /\ pc \in {"listENIs", "enis", "waitENI", "deleteENI", "listSGs", "revoke",
             "deleteSGs", "listSubnets", "deleteSubnets", "done"}
  /\ unlisted \subseteq ENIs \cup Groups \cup Subnets
  /\ batch \subseteq ENIs \cup Groups \cup Subnets
  /\ work \subseteq batch
  /\ seenAttached \subseteq ENIs
  /\ seenRules \subseteq Rules
  /\ current \in ENIs \cup Groups \cup {None}
  /\ pc \in {"waitENI", "deleteENI"} => current \in ENIs
  /\ tries \in 0 .. Max2(EniDeleteMaxRetries, MaxPolls)
  /\ errs \subseteq ENIs \cup Groups \cup Subnets
  /\ result \in {"none", "nil", "enis", "sgs", "subnets"}
  /\ late \subseteq ENIs \cup Groups

-----------------------------------------------------------------------------
(* EC2 as the code uses it.                                                *)

Present == {e \in ENIs : eni[e] # "absent"}

\* DeleteSecurityGroup answers DependencyViolation while an interface uses the
\* group or a rule of another group references it.
GroupInUse(g) ==
  \/ \E e \in Present : GroupOf[e] = g
  \/ \E r \in rules : r[3] = g /\ r[2] # g

\* DeleteSubnet answers DependencyViolation while an interface is in it.
SubnetInUse(s) == \E e \in Present : SubnetOf[e] = s

RulesWithout(g) == {r \in rules : r[2] # g}

\* A call can fail for reasons of its own (throttling, permissions, network)
\* until the environment is quiet, and always does once ctx is done.
MayFail == cancelled \/ ~quiet
MaySucceed == ~cancelled

-----------------------------------------------------------------------------
(* Control flow shared by the phases.                                      *)

Idle ==
  /\ pc = "listENIs"
  /\ unlisted = Present
  /\ batch = {} /\ work = {}
  /\ seenAttached = {} /\ seenRules = {}
  /\ current = None /\ tries = 0
  /\ errs = {} /\ result = "none"

Init ==
  /\ eni \in [ENIs -> {"absent", "attached", "available"}]
  /\ groups \in {G \in SUBSET Groups : Default \in G}
  /\ rules \in SUBSET {r \in Rules : r[2] \in groups /\ r[3] \in groups}
  /\ subnets = Subnets
  /\ \A e \in Present : GroupOf[e] \in groups
  /\ quiet = FALSE /\ cancelled = FALSE
  /\ late = {}
  /\ Idle

\* The call returns the error of phase p naming the resources in E.
Return(p, E) ==
  /\ pc' = "done" /\ result' = p /\ errs' = E
  /\ current' = None /\ tries' = 0
  /\ UNCHANGED <<unlisted, batch, work, seenAttached, seenRules>>

\* The call moves on to listing the next kind of resource.
StartListing(p, existing) ==
  /\ pc' = p /\ unlisted' = existing
  /\ batch' = {} /\ work' = {} /\ errs' = {}
  /\ current' = None /\ tries' = 0
  /\ UNCHANGED <<seenAttached, seenRules, result>>

\* Mutant: only the first page of a listing is read.
PageFirstOnly(P, existing, next) ==
  /\ batch' = batch \cup P /\ work' = batch'
  /\ unlisted' = unlisted \ P
  /\ pc' = next
  /\ UNCHANGED <<current, tries, errs, result>>

\* NextPage returned P, a page of what exists now.  Everything that existed
\* when the listing started and still does has been returned by the last page.
Page(P, existing, next) ==
  /\ batch' = batch \cup P /\ work' = batch'
  /\ unlisted' = unlisted \ P
  /\ \/ UNCHANGED pc
     \/ unlisted' \cap existing = {} /\ pc' = next
  /\ UNCHANGED <<current, tries, errs, result>>

-----------------------------------------------------------------------------
(* cleanupENIs                                                             *)

ListENIPage ==
  /\ pc = "listENIs" /\ MaySucceed
  /\ \E P \in SUBSET (Present \ batch) :
       /\ Page(P, Present, "enis")
       /\ seenAttached' = seenAttached \cup
                            {e \in P : eni[e] \in {"attached", "detaching"}}
  /\ UNCHANGED <<ec2Vars, envVars, seenRules, late>>

ListENIFail ==
  /\ pc = "listENIs" /\ MayFail
  /\ Return("enis", {})
  /\ UNCHANGED <<ec2Vars, envVars, late>>

\* Force-detach of an attachment the listing showed.  EC2 refuses when the
\* attachment is gone by now, and may refuse one that is being detached.
DetachENI(e) ==
  /\ pc = "enis" /\ e \in work \cap seenAttached
  /\ eni[e] \in {"attached", "detaching"} /\ MaySucceed
  /\ eni' = [eni EXCEPT ![e] = "detaching"]
  /\ pc' = "waitENI" /\ current' = e /\ tries' = 0
  /\ UNCHANGED <<groups, rules, subnets, envVars, unlisted, batch, work,
                 seenAttached, seenRules, errs, result, late>>

DetachENIFail(e) ==
  /\ pc = "enis" /\ e \in work \cap seenAttached
  /\ MayFail \/ eni[e] # "attached"
  /\ Return("enis", {e})
  /\ UNCHANGED <<ec2Vars, envVars, late>>

\* The listing showed no attachment: straight to the delete.
SkipDetach(e) ==
  /\ pc = "enis" /\ e \in work \ seenAttached
  /\ pc' = "deleteENI" /\ current' = e /\ tries' = 0
  /\ UNCHANGED <<ec2Vars, envVars, unlisted, batch, work, seenAttached,
                 seenRules, errs, result, late>>

ENIsDone ==
  /\ pc = "enis" /\ work = {}
  /\ StartListing("listSGs", groups)
  /\ UNCHANGED <<ec2Vars, envVars, late>>

-----------------------------------------------------------------------------
(* waitForENIAvailable                                                     *)

\* DescribeNetworkInterfaces shows the interface available, or no longer there.
WaitENIReady ==
  /\ pc = "waitENI" /\ MaySucceed /\ tries < MaxPolls
  /\ eni[current] \in {"available", "absent"}
  /\ pc' = "deleteENI" /\ tries' = 0
  /\ UNCHANGED <<ec2Vars, envVars, unlisted, batch, work, seenAttached,
                 seenRules, current, errs, result, late>>

\* Mutant: the deadline is computed anew in every round.
WaitENIPollMovingDeadline ==
  /\ pc = "waitENI" /\ MaySucceed
  /\ eni[current] \in {"attached", "detaching"}
  /\ UNCHANGED vars

\* Not yet: sleep eniDetachPollInterval and go round again.
WaitENIPoll ==
  /\ pc = "waitENI" /\ MaySucceed /\ tries < MaxPolls
  /\ eni[current] \in {"attached", "detaching"}
  /\ tries' = tries + 1
  /\ UNCHANGED <<ec2Vars, envVars, pc, unlisted, batch, work, seenAttached,
                 seenRules, current, errs, result, late>>

\* The deadline has passed at the head of a later round, a describe failed, or
\* ctx was done in the sleep.
WaitENIFail ==
  /\ pc = "waitENI"
  /\ tries > 0 \/ MayFail
  /\ Return("enis", {current})
  /\ UNCHANGED <<ec2Vars, envVars, late>>

-----------------------------------------------------------------------------
(* deleteENIWithRetry                                                      *)

DeleteENI ==
  /\ pc = "deleteENI" /\ MaySucceed
  /\ eni[current] \in {"available", "absent"}
  /\ eni' = [eni EXCEPT ![current] = "absent"]
  /\ pc' = "enis" /\ work' = work \ {current}
  /\ current' = None /\ tries' = 0
  /\ UNCHANGED <<groups, rules, subnets, envVars, unlisted, batch,
                 seenAttached, seenRules, errs, result, late>>

DeleteENIFailed ==
  \/ MayFail
  \/ eni[current] \in {"attached", "detaching"}

DeleteENIRetry ==
  /\ pc = "deleteENI" /\ DeleteENIFailed
  /\ tries < EniDeleteMaxRetries - 1
  /\ \/ /\ tries' = tries + 1
        /\ UNCHANGED <<pc, unlisted, batch, work, seenAttached, seenRules,
                       current, errs, result>>
     \/ cancelled /\ Return("enis", {current})
  /\ UNCHANGED <<ec2Vars, envVars, late>>

DeleteENIGiveUp ==
  /\ pc = "deleteENI" /\ DeleteENIFailed
  /\ tries = EniDeleteMaxRetries - 1
  /\ Return("enis", {current})
  /\ UNCHANGED <<ec2Vars, envVars, late>>

-----------------------------------------------------------------------------
(* cleanupSecurityGroups                                                   *)

ListSGPage ==
  /\ pc = "listSGs" /\ MaySucceed
  /\ \E P \in SUBSET (groups \ (batch \cup {Default})) :
       /\ Page(P, groups \ {Default}, "revoke")
       /\ seenRules' = seenRules \cup {r \in rules : r[2] \in P}
  /\ UNCHANGED <<ec2Vars, envVars, seenAttached, late>>

ListSGFail ==
  /\ pc = "listSGs" /\ MayFail
  /\ Return("sgs", {})
  /\ UNCHANGED <<ec2Vars, envVars, late>>

Permissions(d, g) == {r \in seenRules : r[1] = d /\ r[2] = g}

\* Mutant: the groups are deleted with their rules in place.
RevokeNothing(d, g) == UNCHANGED <<rules, errs>>

\* One Revoke call of group g in direction d with the permissions the listing
\* showed; none is made when it showed none.  An error is only collected.
Revoke(d, g) ==
  \/ /\ Permissions(d, g) = {}
     /\ UNCHANGED <<rules, errs>>
  \/ /\ Permissions(d, g) # {} /\ MaySucceed /\ Permissions(d, g) \subseteq rules
     /\ rules' = rules \ Permissions(d, g)
     /\ UNCHANGED errs
  \/ /\ Permissions(d, g) # {}
     /\ MayFail \/ ~(Permissions(d, g) \subseteq rules)
     /\ errs' = errs \cup {g}
     /\ UNCHANGED rules

RevokeIngress(g) ==
  /\ pc = "revoke" /\ current = None /\ g \in work
  /\ Revoke("ingress", g)
  /\ current' = g
  /\ UNCHANGED <<eni, groups, subnets, envVars, pc, unlisted, batch, work,
                 seenAttached, seenRules, tries, result, late>>

RevokeEgress ==
  /\ pc = "revoke" /\ current # None
  /\ Revoke("egress", current)
  /\ current' = None /\ work' = work \ {current}
  /\ UNCHANGED <<eni, groups, subnets, envVars, pc, unlisted, batch,
                 seenAttached, seenRules, tries, result, late>>

\* The second loop runs over the same listing.
RevokesDone ==
  /\ pc = "revoke" /\ work = {}
  /\ pc' = "deleteSGs" /\ work' = batch
  /\ UNCHANGED <<ec2Vars, envVars, unlisted, batch, seenAttached, seenRules,
                 current, tries, errs, result, late>>

\* DeleteSecurityGroup; deleting a group deletes its rules.
DeleteSG(g) ==
  /\ pc = "deleteSGs" /\ g \in work
  /\ MaySucceed /\ g \in groups /\ ~GroupInUse(g)
  /\ groups' = groups \ {g} /\ rules' = RulesWithout(g)
  /\ work' = work \ {g}
  /\ UNCHANGED <<eni, subnets, envVars, pc, unlisted, batch, seenAttached,
                 seenRules, current, tries, errs, result, late>>

\* Mutant: the error of one group replaces the one of the group before.
DeleteSGFailOverwrites(g) ==
  /\ pc = "deleteSGs" /\ g \in work
  /\ MayFail \/ g \notin groups \/ GroupInUse(g)
  /\ errs' = {g} /\ work' = work \ {g}
  /\ UNCHANGED <<ec2Vars, envVars, pc, unlisted, batch, seenAttached,
                 seenRules, current, tries, result, late>>

\* Any error is collected, InvalidGroup.NotFound too, and the loop continues.
DeleteSGFail(g) ==
  /\ pc = "deleteSGs" /\ g \in work
  /\ MayFail \/ g \notin groups \/ GroupInUse(g)
  /\ errs' = errs \cup {g} /\ work' = work \ {g}
  /\ UNCHANGED <<ec2Vars, envVars, pc, unlisted, batch, seenAttached,
                 seenRules, current, tries, result, late>>

SGsDone ==
  /\ pc = "deleteSGs" /\ work = {}
  /\ \/ errs = {} /\ StartListing("listSubnets", subnets)
     \/ errs # {} /\ Return("sgs", errs)
  /\ UNCHANGED <<ec2Vars, envVars, late>>

-----------------------------------------------------------------------------
(* cleanupSubnets                                                          *)

ListSubnetPage ==
  /\ pc = "listSubnets" /\ MaySucceed
  /\ \E P \in SUBSET (subnets \ batch) : Page(P, subnets, "deleteSubnets")
  /\ UNCHANGED <<ec2Vars, envVars, seenAttached, seenRules, late>>

ListSubnetFail ==
  /\ pc = "listSubnets" /\ MayFail
  /\ Return("subnets", {})
  /\ UNCHANGED <<ec2Vars, envVars, late>>

DeleteSubnet(s) ==
  /\ pc = "deleteSubnets" /\ s \in work
  /\ MaySucceed /\ s \in subnets /\ ~SubnetInUse(s)
  /\ subnets' = subnets \ {s} /\ work' = work \ {s}
  /\ UNCHANGED <<eni, groups, rules, envVars, pc, unlisted, batch,
                 seenAttached, seenRules, current, tries, errs, result, late>>

DeleteSubnetFail(s) ==
  /\ pc = "deleteSubnets" /\ s \in work
  /\ MayFail \/ s \notin subnets \/ SubnetInUse(s)
  /\ errs' = errs \cup {s} /\ work' = work \ {s}
  /\ UNCHANGED <<ec2Vars, envVars, pc, unlisted, batch, seenAttached,
                 seenRules, current, tries, result, late>>

\* Mutant: the collected subnet errors are logged and nil is returned.
SubnetsDoneIgnoringErrors ==
  /\ pc = "deleteSubnets" /\ work = {}
  /\ Return("nil", errs)
  /\ UNCHANGED <<ec2Vars, envVars, late>>

SubnetsDone ==
  /\ pc = "deleteSubnets" /\ work = {}
  /\ Return(IF errs = {} THEN "nil" ELSE "subnets", errs)
  /\ UNCHANGED <<ec2Vars, envVars, late>>

\* CleanupVPCResources is called again, with a fresh ctx and no memory.
CallAgain ==
  /\ pc = "done"
  /\ pc' = "listENIs" /\ unlisted' = Present
  /\ batch' = {} /\ work' = {} /\ seenAttached' = {} /\ seenRules' = {}
  /\ current' = None /\ tries' = 0 /\ errs' = {} /\ result' = "none"
  /\ late' = {} /\ cancelled' = FALSE
  /\ UNCHANGED <<ec2Vars, quiet>>

Cleanup ==
  \/ ListENIPage \/ ListENIFail \/ ENIsDone
  \/ \E e \in ENIs : DetachENI(e) \/ DetachENIFail(e) \/ SkipDetach(e)
  \/ WaitENIReady \/ WaitENIPoll \/ WaitENIFail
  \/ DeleteENI \/ DeleteENIRetry \/ DeleteENIGiveUp
  \/ ListSGPage \/ ListSGFail \/ RevokeEgress \/ RevokesDone \/ SGsDone
  \/ \E g \in Groups : RevokeIngress(g) \/ DeleteSG(g) \/ DeleteSGFail(g)
  \/ ListSubnetPage \/ ListSubnetFail \/ SubnetsDone
  \/ \E s \in Subnets : DeleteSubnet(s) \/ DeleteSubnetFail(s)
  \/ CallAgain

-----------------------------------------------------------------------------
(* The rest of the account.  Identifiers are never reused: a new resource  *)
(* takes one the call does not remember.                                   *)

EnvUnchanged == UNCHANGED <<envVars, callVars>>

\* EC2 finishes a detach.
DetachCompletes(e) ==
  /\ eni[e] = "detaching"
  /\ eni' = [eni EXCEPT ![e] = "available"]
  /\ UNCHANGED <<groups, rules, subnets, late>> /\ EnvUnchanged

\* An instance, endpoint or load balancer creates an interface.
ENICreated(e) ==
  /\ ~quiet /\ eni[e] = "absent" /\ e \notin batch
  /\ SubnetOf[e] \in subnets /\ GroupOf[e] \in groups
  /\ \E st \in {"attached", "available"} : eni' = [eni EXCEPT ![e] = st]
  /\ late' = late \cup {e}
  /\ UNCHANGED <<groups, rules, subnets>> /\ EnvUnchanged

\* Its owner attaches it, or deletes it.
ENIChanged(e) ==
  /\ ~quiet
  /\ \/ eni[e] = "available" /\ eni' = [eni EXCEPT ![e] = "attached"]
     \/ eni[e] # "absent" /\ eni' = [eni EXCEPT ![e] = "absent"]
  /\ UNCHANGED <<groups, rules, subnets, late>> /\ EnvUnchanged

BeforeSGListing == {"listENIs", "enis", "waitENI", "deleteENI"}

\* A controller or the uninstaller creates or deletes a group, adds a rule.
GroupChanged(g) ==
  /\ ~quiet /\ g # Default
  /\ \/ /\ g \notin groups /\ g \notin batch
        /\ groups' = groups \cup {g}
        /\ late' = IF pc \in BeforeSGListing THEN late ELSE late \cup {g}
        /\ UNCHANGED rules
     \/ /\ g \in groups /\ ~GroupInUse(g)
        /\ groups' = groups \ {g} /\ rules' = RulesWithout(g)
        /\ UNCHANGED late
     \/ /\ g \in groups
        /\ \E r \in Rules : /\ r[2] = g /\ r[3] \in groups
                           /\ rules' = rules \cup {r}
        /\ UNCHANGED <<groups, late>>
  /\ UNCHANGED <<eni, subnets>> /\ EnvUnchanged

\* Somebody else deletes a subnet (the CloudFormation stack's deletion).
SubnetDeleted(s) ==
  /\ ~quiet /\ s \in subnets /\ ~SubnetInUse(s)
  /\ subnets' = subnets \ {s}
  /\ UNCHANGED <<eni, groups, rules, late>> /\ EnvUnchanged

\* The caller's ctx is cancelled or reaches its deadline.
Cancel ==
  /\ ~quiet /\ ~cancelled /\ pc # "done"
  /\ cancelled' = TRUE
  /\ UNCHANGED <<ec2Vars, quiet, callVars, late>>

Settle ==
  /\ ~quiet /\ quiet' = TRUE
  /\ UNCHANGED <<ec2Vars, cancelled, callVars, late>>

Environment ==
  \/ \E e \in ENIs : DetachCompletes(e) \/ ENICreated(e) \/ ENIChanged(e)
  \/ \E g \in Groups : GroupChanged(g)
  \/ \E s \in Subnets : SubnetDeleted(s)
  \/ Cancel \/ Settle

Next == Cleanup \/ Environment

Spec == Init /\ [][Next]_vars

\* The call runs to its end and is repeated; EC2 finishes what it started.
FairSpec ==
  /\ Spec
  /\ WF_vars(Cleanup)
  /\ \A e \in ENIs : WF_vars(DetachCompletes(e))

-----------------------------------------------------------------------------
(* Properties                                                              *)

\* "Deletion order: ENIs, security groups, subnets": a phase starts only when
\* the phases before it have emptied the VPC of all that was there when they
\* listed it, whatever happened to the resources in between.
CascadeOrder ==
  /\ pc \in {"listSGs", "revoke", "deleteSGs", "listSubnets", "deleteSubnets"}
       => Present \subseteq late
  /\ pc \in {"listSubnets", "deleteSubnets"} => groups \ {Default} \subseteq late

\* When CleanupVPCResources returns nil there is no interface and no subnet
\* left, including the interfaces that appeared behind its back, and every
\* remaining non-default group was created after the groups were listed.
CleanAfterSuccess ==
  result = "nil" =>
    /\ Present = {} /\ subnets = {}
    /\ groups \ {Default} \subseteq late

\* "Returns a hard error identifying blocking resources": when the groups or
\* the subnets were listed and the phase fails, the error names every listed
\* resource that is still there, whichever call on it failed.
BlockersNamed ==
  /\ result = "sgs" /\ errs # {} => batch \cap groups \subseteq errs
  /\ result = "subnets" /\ errs # {} => batch \cap subnets \subseteq errs

\* Once the account is quiet, repeating the call gets past every partial
\* failure, retry exhaustion and stale listing: eventually no call fails any
\* more.  Cross-references between groups do not get in the way.
Converges == quiet ~> [](result \in {"none", "nil"})

\* Every call comes to an end: the detach wait and the delete retries are
\* bounded and no listing is read for ever.
Returns == []<>(pc = "done")
=============================================================================
