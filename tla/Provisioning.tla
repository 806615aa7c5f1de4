---------------------------- MODULE Provisioning ----------------------------
(***************************************************************************)
(* scripts/provision-e2e-cluster.sh and scripts/deprovision-e2e-cluster.sh *)
(* run by several people or jobs against one AWS account and one OCM       *)
(* organisation.  A run is named by its CLUSTER_NAME; its stack and        *)
(* cluster carry that name.  The KMS key, the OIDC config and the operator *)
(* roles get a new identifier each time the script creates them, so they   *)
(* are named by the attempt <<run, try>> that created them.  One action is *)
(* one rosa, aws or ocm command; under "set -e" a failing command ends the *)
(* script (Abort), unless the command is followed by "|| true", and then   *)
(* the failure is remembered in swallowed.  The only thing the two scripts *)
(* share is the env file, which describes one attempt.                     *)
(***************************************************************************)
EXTENDS Naturals

CONSTANTS
  Runs,      \* cluster names, one per provisioning
  Dirs,      \* values of SHARED_DIR
  DirOf,     \* the SHARED_DIR of each run
  WantsKey,  \* runs with KMS_ENABLED=true and no KMS_KEY_ARN
  Given,     \* runs with OIDC_CONFIG_ID set to Org
  Shaky,     \* runs whose commands fail and whose scripts are interrupted
  MaxTries,  \* bound on how often each run is provisioned
  Org,       \* a managed OIDC config that no run created
  NoFile     \* there is no env file

ASSUME ProvisioningAssumption ==
  /\ DirOf \in [Runs -> Dirs]
  /\ WantsKey \subseteq Runs
  /\ Given \subseteq Runs
  /\ Shaky \subseteq Runs
  /\ MaxTries \in [Runs -> Nat]
  /\ Org \notin Runs \X Nat

VARIABLES
  pc,        \* the command each run is at
  tries,     \* how often each run has been provisioned
  info,      \* the shell variables of its script
  env,       \* the env file of every directory
  oidc,      \* managed OIDC configs
  stack,     \* the CloudFormation stack of each run
  leftover,  \* runs with a vpce-private-router group left in their VPC
  keys,      \* KMS keys that are not scheduled for deletion
  granted,   \* keys whose policy names the operator roles
  cluster,   \* the cluster of each run
  made,      \* the try that created it
  uses,      \* its OIDC config
  roles,     \* operator roles
  quiet,     \* from here on no command fails for reasons of its own
  swallowed, \* history: runs whose present teardown ignored a failure
  untracked  \* history: attempts that no teardown can be sure to find

cloud == <<oidc, stack, leftover, keys, granted, cluster, made, uses, roles>>
hist == <<swallowed, untracked>>
vars == <<pc, tries, info, env, cloud, quiet, hist>>

ProvisionSteps == {"listOidc", "createOidc", "createStack", "waitStack",
                   "createKey", "createCluster", "grant", "save"}
TeardownSteps == {"deleteCluster", "watch", "deleteRoles", "deleteGroups",
                  "deleteStack", "waitDelete", "deleteOidc",
                  "scheduleKey", "rm"}
\* No script of the run is running.
Resting == {"idle", "provisioned", "aborted", "cleaned"}

Attempts == Runs \X Nat
Configs == Attempts \cup {Org}

\* The shell variables that matter: which attempt's resources they name,
\* whether they came from an env file, the try in OPERATOR_ROLE_PREFIX (0 when
\* it is empty), OIDC_CONFIG_ID and the two *_CREATED flags.
Info == [name : Runs, try : Nat, file : BOOLEAN, prefix : Nat, oidc : Configs,
         oidcCreated : BOOLEAN, keyCreated : BOOLEAN]

ASSUME NoFileAssumption == NoFile \notin Info

Blank(r) == [name |-> r, try |-> 0, file |-> FALSE, prefix |-> 0, oidc |-> Org,
             oidcCreated |-> FALSE, keyCreated |-> FALSE]

\* The attempt that shell variables describe: the one whose key they name.
Attempt(x) == <<x.name, x.try>>

\* The attempt that created the cluster of run n, with its key and its roles.
Maker(n) == <<n, made[n]>>

TypeOK ==
  /\ pc \in [Runs -> ProvisionSteps \cup TeardownSteps \cup Resting]
  /\ tries \in [Runs -> Nat]
  /\ info \in [Runs -> Info]
  /\ env \in [Dirs -> Info \cup {NoFile}]
  /\ oidc \subseteq Configs
  /\ stack \in [Runs -> {"none", "creating", "complete", "failed", "deleting"}]
  /\ leftover \subseteq Runs
  /\ keys \subseteq Attempts /\ granted \subseteq Attempts
  /\ cluster \in [Runs -> {"none", "present", "uninstalling"}]
  /\ made \in [Runs -> Nat]
  /\ uses \in [Runs -> Configs]
  /\ roles \subseteq Attempts
  /\ quiet \in BOOLEAN
  /\ swallowed \subseteq Runs
  /\ untracked \subseteq Attempts

Init ==
  /\ pc = [r \in Runs |-> "idle"]
  /\ tries = [r \in Runs |-> 0]
  /\ info = [r \in Runs |-> Blank(r)]
  /\ env = [d \in Dirs |-> NoFile]
  /\ oidc \in SUBSET {Org} /\ (Given # {} => Org \in oidc)
  /\ stack = [r \in Runs |-> "none"]
  /\ leftover = {}
  /\ keys = {} /\ granted = {}
  /\ cluster = [r \in Runs |-> "none"]
  /\ made = [r \in Runs |-> 0]
  /\ uses = [r \in Runs |-> Org]
  /\ roles = {}
  /\ quiet = FALSE
  /\ swallowed = {} /\ untracked = {}

MayFail(r) == r \in Shaky /\ ~quiet

Step(r, from, to) == pc[r] = from /\ pc' = [pc EXCEPT ![r] = to]

-----------------------------------------------------------------------------
(* provision-e2e-cluster.sh                                                *)

\* Started, or started again whatever came of the last time.  Prerequisites
\* and account roles are created when absent and never removed.
Provision(r) ==
  /\ pc[r] \in Resting /\ tries[r] < MaxTries[r]
  /\ pc' = [pc EXCEPT ![r] = "listOidc"]
  /\ tries' = [tries EXCEPT ![r] = @ + 1]
  /\ info' = [info EXCEPT ![r] = [Blank(r) EXCEPT !.try = tries[r] + 1]]
  /\ UNCHANGED <<env, cloud, quiet, hist>>

\* A given OIDC_CONFIG_ID is used as it is; otherwise any managed config there
\* is gets adopted, one of an earlier attempt of the same run included.
AdoptOidc(r) ==
  /\ Step(r, "listOidc", "createStack")
  /\ \E c \in IF r \in Given THEN {Org} ELSE oidc : info' = [info EXCEPT ![r].oidc = c]
  /\ UNCHANGED <<tries, env, cloud, quiet, hist>>

NoOidc(r) ==
  /\ r \notin Given /\ oidc = {}
  /\ Step(r, "listOidc", "createOidc")
  /\ UNCHANGED <<tries, info, env, cloud, quiet, hist>>

CreateOidc(r) ==
  /\ Step(r, "createOidc", "createStack")
  /\ oidc' = oidc \cup {Attempt(info[r])}
  /\ info' = [info EXCEPT ![r].oidc = Attempt(info[r]), ![r].oidcCreated = TRUE]
  /\ UNCHANGED <<tries, env, stack, leftover, keys, granted, cluster, made, uses, roles,
                 quiet, hist>>

\* rosa create network, refused while a stack of that name exists.
CreateStack(r) ==
  /\ stack[r] = "none"
  /\ Step(r, "createStack", "waitStack")
  /\ stack' = [stack EXCEPT ![r] = "creating"]
  /\ UNCHANGED <<tries, info, env, oidc, leftover, keys, granted, cluster, made, uses,
                 roles, quiet, hist>>

\* stack-create-complete, then the outputs and the provision shard are read.
WaitStack(r) ==
  /\ stack[r] = "complete"
  /\ Step(r, "waitStack", "createKey")
  /\ UNCHANGED <<tries, info, env, cloud, quiet, hist>>

\* aws kms create-key makes another key every time.
CreateKey(r) ==
  /\ Step(r, "createKey", "createCluster")
  /\ IF r \in WantsKey
       THEN /\ keys' = keys \cup {Attempt(info[r])}
            /\ info' = [info EXCEPT ![r].keyCreated = TRUE]
       ELSE UNCHANGED <<keys, info>>
  /\ UNCHANGED <<tries, env, oidc, stack, leftover, granted, cluster, made, uses, roles,
                 quiet, hist>>

\* rosa create cluster --mode auto creates the record, then the operator roles
\* under a new random prefix and the OIDC provider; it may fail in between.
CreateCluster(r) ==
  /\ stack[r] = "complete" /\ info[r].oidc \in oidc /\ cluster[r] = "none"
  /\ cluster' = [cluster EXCEPT ![r] = "present"]
  /\ made' = [made EXCEPT ![r] = info[r].try]
  /\ uses' = [uses EXCEPT ![r] = info[r].oidc]
  /\ \/ /\ Step(r, "createCluster", "grant")
        /\ roles' = roles \cup {Attempt(info[r])}
        /\ UNCHANGED <<info, untracked>>
     \/ /\ MayFail(r) /\ Step(r, "createCluster", "aborted")
        /\ info' = [info EXCEPT ![r] = Blank(r)]
        /\ untracked' = untracked \cup {Attempt(info[r])}
        /\ UNCHANGED roles
  /\ UNCHANGED <<tries, env, oidc, stack, leftover, keys, granted, quiet, swallowed>>

\* The operator roles are added to the policy of a key this attempt created.
Grant(r) ==
  /\ Step(r, "grant", "save")
  /\ granted' = IF info[r].keyCreated THEN granted \cup {Attempt(info[r])} ELSE granted
  /\ UNCHANGED <<tries, info, env, oidc, stack, leftover, keys, cluster, made, uses,
                 roles, quiet, hist>>

\* The attempt an env file describes, if there is a file.
Recorded(d) == IF env[d] = NoFile THEN {} ELSE {Attempt(env[d])}

\* Mutant: the env file does not say KMS_KEY_CREATED.
SaveWithoutKey(r) ==
  /\ Step(r, "save", "provisioned")
  /\ env' = [env EXCEPT ![DirOf[r]] = [info[r] EXCEPT !.file = TRUE, !.keyCreated = FALSE]]
  /\ untracked' = untracked \cup Recorded(DirOf[r])
  /\ info' = [info EXCEPT ![r] = Blank(r)]
  /\ UNCHANGED <<tries, cloud, quiet, swallowed>>

\* The env file is the last thing written, over whatever was there: the attempt
\* that an earlier file described is recorded nowhere from then on.
Save(r) ==
  /\ Step(r, "save", "provisioned")
  /\ env' = [env EXCEPT ![DirOf[r]] = [info[r] EXCEPT !.file = TRUE]]
  /\ untracked' = untracked \cup Recorded(DirOf[r])
  /\ info' = [info EXCEPT ![r] = Blank(r)]
  /\ UNCHANGED <<tries, cloud, quiet, swallowed>>

ProvisionStep(r) ==
  \/ AdoptOidc(r) \/ NoOidc(r) \/ CreateOidc(r) \/ CreateStack(r)
  \/ WaitStack(r) \/ CreateKey(r) \/ CreateCluster(r) \/ Grant(r) \/ Save(r)

-----------------------------------------------------------------------------
(* deprovision-e2e-cluster.sh.  Without an env file only CLUSTER_NAME,     *)
(* which the caller sets, is known.                                        *)

Load(r) == IF env[DirOf[r]] = NoFile THEN Blank(r) ELSE env[DirOf[r]]

\* A command under "|| true" of run r: it works or its failure is ignored.
Ignored(r) == MayFail(r) /\ swallowed' = swallowed \cup {r}

\* The operator role prefix is read off the cluster while it is still there.
Deprovision(r) ==
  /\ pc[r] \in Resting \ {"idle"}
  /\ pc' = [pc EXCEPT ![r] = "deleteCluster"]
  /\ LET n == Load(r).name IN
     \/ /\ info' = [info EXCEPT ![r] = [Load(r) EXCEPT
                      !.prefix = IF cluster[n] # "none" THEN made[n] ELSE 0]]
        /\ swallowed' = swallowed \ {r}
     \/ /\ MayFail(r) /\ info' = [info EXCEPT ![r] = Load(r)]
        /\ swallowed' = swallowed \cup {r}
  /\ UNCHANGED <<tries, env, cloud, quiet, untracked>>

\* Mutant: rosa delete cluster || true
DeleteClusterIgnored(r) ==
  /\ Step(r, "deleteCluster", "watch")
  /\ \/ /\ cluster[info[r].name] # "none"
        /\ cluster' = [cluster EXCEPT ![info[r].name] = "uninstalling"]
     \/ MayFail(r) /\ UNCHANGED cluster
  /\ UNCHANGED <<tries, info, env, oidc, stack, leftover, keys, granted, made, uses, roles,
                 quiet, hist>>

\* Mutant: the key goes first.
DeleteClusterKeyFirst(r) ==
  /\ cluster[info[r].name] # "none"
  /\ Step(r, "deleteCluster", "scheduleKey")
  /\ cluster' = [cluster EXCEPT ![info[r].name] = "uninstalling"]
  /\ UNCHANGED <<tries, info, env, oidc, stack, leftover, keys, granted, made, uses, roles,
                 quiet, hist>>

\* rosa delete cluster: an error when there is no such cluster.
DeleteCluster(r) ==
  /\ cluster[info[r].name] # "none"
  /\ Step(r, "deleteCluster", "watch")
  /\ cluster' = [cluster EXCEPT ![info[r].name] = "uninstalling"]
  /\ UNCHANGED <<tries, info, env, oidc, stack, leftover, keys, granted, made, uses, roles,
                 quiet, hist>>

\* Mutant: the watch ends in an error when the cluster is gone, and counts.
WatchNotIgnored(r) ==
  /\ \/ cluster[info[r].name] = "none" /\ Step(r, "watch", "deleteRoles")
     \/ Step(r, "watch", "aborted")
  /\ UNCHANGED <<tries, info, env, cloud, quiet, hist>>

\* rosa logs uninstall --watch || true
Watch(r) ==
  /\ Step(r, "watch", "deleteRoles")
  /\ \/ cluster[info[r].name] = "none" /\ UNCHANGED swallowed
     \/ Ignored(r)
  /\ UNCHANGED <<tries, info, env, cloud, quiet, untracked>>

\* The roles that "rosa delete operator-roles" finds: those under the prefix;
\* without a prefix those of the cluster with the recorded id, while it exists.
RolesFound(x) ==
  IF x.prefix # 0 THEN {<<x.name, x.prefix>>}
  ELSE IF x.file /\ cluster[x.name] # "none" /\ Attempt(x) = Maker(x.name)
  THEN {Attempt(x)} ELSE {}

\* Mutant: the roles are looked up by the cluster of the env file.
RolesByCluster(x) ==
  IF x.file /\ cluster[x.name] # "none" /\ Attempt(x) = Maker(x.name)
  THEN {Attempt(x)} ELSE {}

\* The OIDC provider goes with them; no command looks at it again.
DeleteRoles(r) ==
  /\ Step(r, "deleteRoles", IF info[r].file THEN "deleteGroups" ELSE "deleteOidc")
  /\ \/ roles' = roles \ RolesFound(info[r]) /\ UNCHANGED swallowed
     \/ Ignored(r) /\ UNCHANGED roles
  /\ UNCHANGED <<tries, info, env, oidc, stack, leftover, keys, granted, cluster, made,
                 uses, quiet, untracked>>

\* The workaround for groups the uninstaller left; while the
\* cluster is uninstalling there is none to delete yet.
DeleteGroups(r) ==
  /\ Step(r, "deleteGroups", "deleteStack")
  /\ \/ /\ cluster[info[r].name] = "none"
        /\ leftover' = leftover \ {info[r].name} /\ UNCHANGED swallowed
     \/ cluster[info[r].name] # "none" /\ UNCHANGED <<leftover, swallowed>>
     \/ Ignored(r) /\ UNCHANGED leftover
  /\ UNCHANGED <<tries, info, env, oidc, stack, keys, granted, cluster, made, uses, roles,
                 quiet, untracked>>

DeleteStack(r) ==
  /\ Step(r, "deleteStack", "waitDelete")
  /\ LET n == info[r].name IN
     \/ /\ stack' = [stack EXCEPT ![n] = IF @ = "none" THEN @ ELSE "deleting"]
        /\ UNCHANGED swallowed
     \/ Ignored(r) /\ UNCHANGED stack
  /\ UNCHANGED <<tries, info, env, oidc, leftover, keys, granted, cluster, made, uses,
                 roles, quiet, untracked>>

\* The wait ends, or is given up; a stack that is still there only gets a
\* warning.
WaitDelete(r) ==
  /\ Step(r, "waitDelete", "deleteOidc")
  /\ LET n == info[r].name IN
     \/ stack[n] = "none" /\ UNCHANGED swallowed
     \/ stack[n] = "failed" /\ swallowed' = swallowed \cup {r}
     \/ Ignored(r)
  /\ UNCHANGED <<tries, info, env, cloud, quiet, untracked>>

\* rosa deletes a config that is there and that no cluster uses.
Deletable(c) == c \in oidc /\ \A n \in Runs : cluster[n] # "none" => uses[n] # c

\* Mutant: OIDC_CONFIG_CREATED is not looked at.
DeleteAnyOidc(r) ==
  /\ Step(r, "deleteOidc", "scheduleKey")
  /\ oidc' = IF Deletable(info[r].oidc) THEN oidc \ {info[r].oidc} ELSE oidc
  /\ UNCHANGED <<tries, info, env, stack, leftover, keys, granted, cluster, made, uses,
                 roles, quiet, hist>>

\* Only a config that the recorded attempt created; an error is ignored.
DeleteOidc(r) ==
  /\ Step(r, "deleteOidc", "scheduleKey")
  /\ \/ /\ info[r].oidcCreated /\ Deletable(info[r].oidc)
        /\ oidc' = oidc \ {info[r].oidc} /\ UNCHANGED swallowed
     \/ /\ info[r].oidcCreated /\ ~Deletable(info[r].oidc)
        /\ swallowed' = swallowed \cup {r} /\ UNCHANGED oidc
     \/ ~info[r].oidcCreated /\ UNCHANGED <<oidc, swallowed>>
     \/ info[r].oidcCreated /\ Ignored(r) /\ UNCHANGED oidc
  /\ UNCHANGED <<tries, info, env, stack, leftover, keys, granted, cluster, made, uses,
                 roles, quiet, untracked>>

\* Only the key whose ARN is recorded, when the script created it; scheduling a
\* key twice is an error, and ignored.
ScheduleKey(r) ==
  /\ Step(r, "scheduleKey", "rm")
  /\ LET k == Attempt(info[r]) IN
     \/ /\ info[r].keyCreated /\ k \in keys
        /\ keys' = keys \ {k} /\ UNCHANGED swallowed
     \/ /\ info[r].keyCreated /\ k \notin keys
        /\ swallowed' = swallowed \cup {r} /\ UNCHANGED keys
     \/ ~info[r].keyCreated /\ UNCHANGED <<keys, swallowed>>
     \/ info[r].keyCreated /\ Ignored(r) /\ UNCHANGED keys
  /\ UNCHANGED <<tries, info, env, oidc, stack, leftover, granted, cluster, made, uses,
                 roles, quiet, untracked>>

\* What nobody can be sure to find once the script of run r is over: an attempt
\* that was not recorded, and what a teardown worked on when it ignored a failure.
LosesTrack(r) ==
  IF pc[r] \in ProvisionSteps THEN {Attempt(info[r])}
  ELSE IF r \in swallowed THEN {Attempt(info[r]), Maker(info[r].name)} ELSE {}

\* rm -f of the env file, whatever the commands before it achieved.
RemoveFile(r) ==
  /\ Step(r, "rm", "cleaned")
  /\ env' = [env EXCEPT ![DirOf[r]] = NoFile]
  /\ untracked' = untracked \cup LosesTrack(r)
  /\ UNCHANGED <<tries, info, cloud, quiet, swallowed>>

TeardownStep(r) ==
  \/ DeleteCluster(r) \/ Watch(r) \/ DeleteRoles(r) \/ DeleteGroups(r)
  \/ DeleteStack(r) \/ WaitDelete(r) \/ DeleteOidc(r)
  \/ ScheduleKey(r) \/ RemoveFile(r)

-----------------------------------------------------------------------------
(* What a command runs into, and the services behind the commands.         *)

\* A command that cannot succeed, for the state of the account it meets.
Refused(r) ==
  \/ pc[r] = "createStack" /\ stack[r] # "none"
  \/ pc[r] = "waitStack" /\ stack[r] \in {"failed", "deleting", "none"}
  \/ pc[r] = "createCluster" /\ (\/ stack[r] # "complete"
                                 \/ info[r].oidc \notin oidc
                                 \/ cluster[r] # "none")
  \/ pc[r] = "deleteCluster" /\ cluster[info[r].name] = "none"

\* "set -e": the script ends where it is; also an interrupt or a lost machine.
Abort(r) ==
  /\ pc[r] \in ProvisionSteps \cup TeardownSteps
  /\ MayFail(r) \/ Refused(r)
  /\ pc' = [pc EXCEPT ![r] = "aborted"]
  /\ info' = [info EXCEPT ![r] = Blank(r)]
  /\ untracked' = untracked \cup LosesTrack(r)
  /\ swallowed' = swallowed \ {r}
  /\ UNCHANGED <<tries, env, cloud, quiet>>

\* CloudFormation finishes creating or deleting a stack.  A stack cannot be
\* deleted under a cluster's network interfaces or a leftover group.
StackSettles(r) ==
  /\ \/ stack[r] = "creating"
        /\ \E s \in {"complete"} \cup (IF MayFail(r) THEN {"failed"} ELSE {}) :
             stack' = [stack EXCEPT ![r] = s]
     \/ stack[r] = "deleting" /\ cluster[r] = "none" /\ r \notin leftover
        /\ stack' = [stack EXCEPT ![r] = "none"]
     \/ stack[r] = "deleting" /\ (cluster[r] # "none" \/ r \in leftover)
        /\ stack' = [stack EXCEPT ![r] = "failed"]
  /\ UNCHANGED <<pc, tries, info, env, oidc, leftover, keys, granted, cluster, made, uses,
                 roles, quiet, hist>>

\* The uninstaller is done; it may leave a group behind (OCPBUGS-74960).
Uninstalled(r) ==
  /\ cluster[r] = "uninstalling"
  /\ cluster' = [cluster EXCEPT ![r] = "none"]
  /\ leftover' \in {leftover, leftover \cup {r}}
  /\ UNCHANGED <<pc, tries, info, env, oidc, stack, keys, granted, made, uses, roles,
                 quiet, hist>>

Settle ==
  /\ ~quiet /\ quiet' = TRUE
  /\ UNCHANGED <<pc, tries, info, env, cloud, hist>>

Next ==
  \/ \E r \in Runs : \/ Provision(r) \/ ProvisionStep(r)
                     \/ Deprovision(r) \/ TeardownStep(r)
                     \/ Abort(r) \/ StackSettles(r) \/ Uninstalled(r)
  \/ Settle

Spec == Init /\ [][Next]_vars

\* A started script keeps running and the services finish what they started;
\* nobody has to start a script.
FairSpec ==
  /\ Spec
  /\ \A r \in Runs : /\ WF_vars(ProvisionStep(r)) /\ WF_vars(TeardownStep(r))
                     /\ WF_vars(StackSettles(r)) /\ WF_vars(Uninstalled(r))

-----------------------------------------------------------------------------
(* Properties                                                              *)

\* "rosa delete cluster" comes first and its failure ends the teardown: as long
\* as a cluster has not been asked to go, its network, its key and its OIDC
\* config stay, through reruns, interrupts and the teardowns of other runs.
NothingUnderALiveCluster ==
  \A r \in Runs : cluster[r] = "present" =>
    /\ stack[r] = "complete" /\ uses[r] \in oidc
    /\ r \in WantsKey => Maker(r) \in keys

\* "not ours to delete": a managed OIDC config goes only by a teardown that
\* works with the variables of the attempt that created it.
AdoptedConfigsKept ==
  [][\A c \in oidc \ oidc' :
       \E r \in Runs : pc[r] = "deleteOidc" /\ Attempt(info[r]) = c]_vars

\* When a teardown that works from an env file ends and ignored no failure, the
\* cluster, its roles, the stack and the recorded key are gone; any other key, role
\* or OIDC config made for that name belongs to an attempt that ended before it was
\* recorded, whose record was overwritten, or whose own teardown ignored a failure.
RecordedRunIsCleaned ==
  \A r \in Runs :
    pc[r] = "cleaned" /\ r \notin swallowed /\ info[r].file =>
      LET n == info[r].name IN
      /\ cluster[n] = "none" /\ stack[n] = "none" /\ Maker(n) \notin roles
      /\ Attempt(info[r]) \notin keys
      /\ \A t \in 1..tries[n] : <<n, t>> \in keys \cup roles \cup oidc =>
                                <<n, t>> \in untracked

\* "the key must no longer be in use by the cluster, so this runs after cluster
\* deletion": it does unless the teardown went on although the watch of the uninstall
\* had ended early and the stack could not be deleted, of which it only warns.
KeyOutlivesCluster ==
  [][\A n \in Runs : Maker(n) \in keys \ keys' =>
       \/ cluster[n] = "none"
       \/ /\ stack[n] # "none"
          /\ \E r \in swallowed : pc[r] = "scheduleKey" /\ info[r].name = n]_vars

\* A teardown that finds its cluster comes to its end once commands work.
TeardownEnds ==
  \A r \in Runs :
    (quiet /\ pc[r] = "deleteCluster" /\ cluster[info[r].name] = "present")
       ~> pc[r] = "cleaned"
=============================================================================
