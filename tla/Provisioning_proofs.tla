------------------------- MODULE Provisioning_proofs -------------------------
(***************************************************************************)
(* The teardown order and the ownership of OIDC configs, for any number of *)
(* runs in one account, each of which may fail and start again at will.    *)
(***************************************************************************)
EXTENDS Provisioning, TLAPS

\* A config that the variables of a script, or an env file, call created is the
\* one of the attempt they describe.
CreatedIsOwn ==
  /\ \A r \in Runs : info[r].oidcCreated => info[r].oidc = Attempt(info[r])
  /\ \A d \in Dirs : env[d] # NoFile =>
                       (env[d].oidcCreated => env[d].oidc = Attempt(env[d]))

\* A script that provisions describes its own run and claims no config before
\* it has created one.
ProvisionsOwn ==
  \A r \in Runs :
    /\ pc[r] \in ProvisionSteps => info[r].name = r
    /\ pc[r] \in {"listOidc", "createOidc"} => ~info[r].oidcCreated

OwnInv == TypeOK /\ CreatedIsOwn /\ ProvisionsOwn
-----------------------------------------------------------------------------

\* What a script starts from is well typed and claims nothing.
LEMMA BlankIsInfo ==
  \A r \in Runs :
    /\ Blank(r) \in Info /\ Blank(r).name = r /\ Blank(r).try = 0
    /\ ~Blank(r).oidcCreated /\ ~Blank(r).keyCreated /\ ~Blank(r).file
  BY DEF Blank, Info, Configs

\* What a provisioning starts from is that and the number of the try.
LEMMA BlankTry ==
  ASSUME NEW r \in Runs, NEW t \in Nat
  PROVE  LET y == [Blank(r) EXCEPT !.try = t]
         IN  /\ y \in Info /\ y.name = r /\ y.try = t
             /\ ~y.oidcCreated /\ ~y.keyCreated /\ ~y.file
  BY DEF Blank, Info, Configs

\* The attempt that shell variables describe.
LEMMA AttemptIs ==
  \A x \in Info : Attempt(x) = <<x.name, x.try>> /\ Attempt(x) \in Attempts
  BY DEF Attempt, Attempts, Info

\* Assigning OIDC_CONFIG_ID leaves the other shell variables alone.
LEMMA AssignOidc ==
  \A x \in Info, c \in Configs :
    LET y == [x EXCEPT !.oidc = c]
    IN  /\ y \in Info /\ y.name = x.name /\ y.try = x.try /\ y.oidc = c
        /\ y.file = x.file /\ y.prefix = x.prefix
        /\ y.oidcCreated = x.oidcCreated /\ y.keyCreated = x.keyCreated
  BY DEF Info

\* OIDC_CONFIG_ID of a new config and OIDC_CONFIG_CREATED=true.
LEMMA AssignNewOidc ==
  \A x \in Info, c \in Configs :
    LET y == [x EXCEPT !.oidc = c, !.oidcCreated = TRUE]
    IN  /\ y \in Info /\ y.name = x.name /\ y.try = x.try /\ y.oidc = c
        /\ y.file = x.file /\ y.prefix = x.prefix
        /\ y.oidcCreated /\ y.keyCreated = x.keyCreated
  BY DEF Info

\* KMS_KEY_CREATED=true changes no other variable.
LEMMA AssignKey ==
  \A x \in Info :
    LET y == [x EXCEPT !.keyCreated = TRUE]
    IN  /\ y \in Info /\ y.name = x.name /\ y.try = x.try /\ y.oidc = x.oidc
        /\ y.file = x.file /\ y.prefix = x.prefix
        /\ y.oidcCreated = x.oidcCreated /\ y.keyCreated
  BY DEF Info

\* What the env file holds is what the script knew.
LEMMA AssignFile ==
  \A x \in Info :
    LET y == [x EXCEPT !.file = TRUE]
    IN  /\ y \in Info /\ y.name = x.name /\ y.try = x.try /\ y.oidc = x.oidc
        /\ y.file
        /\ y.oidcCreated = x.oidcCreated /\ y.keyCreated = x.keyCreated
  BY DEF Info

\* OPERATOR_ROLE_PREFIX changes no other variable.
LEMMA AssignPrefix ==
  \A x \in Info, p \in Nat :
    LET y == [x EXCEPT !.prefix = p]
    IN  /\ y \in Info /\ y.name = x.name /\ y.try = x.try /\ y.oidc = x.oidc
        /\ y.file = x.file
        /\ y.oidcCreated = x.oidcCreated /\ y.keyCreated = x.keyCreated
        /\ y.prefix = p
  BY DEF Info

\* What a teardown starts from is what the env file says, or nothing but the name;
\* unless the lookup of the prefix was ignored, the prefix is that of the cluster's
\* roles when the cluster is there.
LEMMA Loaded ==
  ASSUME NEW r \in Runs, Load(r) \in Info, made \in [Runs -> Nat], Deprovision(r)
  PROVE  \E y \in Info :
           /\ y.name = Load(r).name /\ y.try = Load(r).try /\ y.oidc = Load(r).oidc
           /\ y.file = Load(r).file
           /\ y.oidcCreated = Load(r).oidcCreated /\ y.keyCreated = Load(r).keyCreated
           /\ info' = [info EXCEPT ![r] = y]
           /\ \/ r \in swallowed'
              \/ cluster[y.name] # "none" => y.prefix = made[y.name]
<1> DEFINE n == Load(r).name
           p == IF cluster[n] # "none" THEN made[n] ELSE 0
           y == [Load(r) EXCEPT !.prefix = p]
<1>1. CASE info' = [info EXCEPT ![r] = y]
  <2>0. n \in Runs
    BY DEF Info
  <2>1. p \in Nat
    BY <2>0
  <2>2. cluster[n] # "none" => p = made[n]
    OBVIOUS
  <2> HIDE DEF p
  <2>3. /\ y \in Info /\ y.name = n /\ y.try = Load(r).try /\ y.oidc = Load(r).oidc
        /\ y.file = Load(r).file
        /\ y.oidcCreated = Load(r).oidcCreated /\ y.keyCreated = Load(r).keyCreated
        /\ y.prefix = p
    BY <2>1, AssignPrefix, Zenon
  <2> HIDE DEF y, n
  <2>4. QED
    BY <1>1, <2>2, <2>3 DEF n
<1>2. CASE info' = [info EXCEPT ![r] = Load(r)] /\ r \in swallowed'
  BY <1>2
<1>3. QED
  BY <1>1, <1>2 DEF Deprovision

\* The variables of a new try.
LEMMA NewTry ==
  ASSUME NEW r \in Runs, TypeOK, Provision(r)
  PROVE  \E y \in Info : /\ y.name = r /\ y.try = tries[r] + 1
                         /\ ~y.file /\ ~y.oidcCreated /\ ~y.keyCreated
                         /\ info' = [info EXCEPT ![r] = y]
<1> DEFINE y == [Blank(r) EXCEPT !.try = tries[r] + 1]
<1>1. tries[r] + 1 \in Nat
  BY DEF TypeOK
<1>2. /\ y \in Info /\ y.name = r /\ y.try = tries[r] + 1
      /\ ~y.file /\ ~y.oidcCreated /\ ~y.keyCreated
  BY <1>1, BlankTry, Zenon
<1>3. info' = [info EXCEPT ![r] = y]
  BY DEF Provision
<1> HIDE DEF y
<1>4. QED
  BY <1>2, <1>3

\* The variables after "rosa create oidc-config".
LEMMA NewOidc ==
  ASSUME NEW r \in Runs, TypeOK, CreateOidc(r)
  PROVE  \E y \in Info : /\ y.name = info[r].name /\ y.try = info[r].try
                         /\ y.oidc = Attempt(y) /\ y.oidcCreated
                         /\ y.file = info[r].file /\ y.keyCreated = info[r].keyCreated
                         /\ info' = [info EXCEPT ![r] = y]
                         /\ oidc' = oidc \cup {<<info[r].name, info[r].try>>}
<1> DEFINE c == Attempt(info[r])
           y == [info[r] EXCEPT !.oidc = c, !.oidcCreated = TRUE]
<1>1. info[r] \in Info
  BY DEF TypeOK
<1>2. c \in Configs /\ c = <<info[r].name, info[r].try>>
  BY <1>1, AttemptIs DEF Configs
<1>3. info' = [info EXCEPT ![r] = y] /\ oidc' = oidc \cup {c}
  BY DEF CreateOidc
<1> HIDE DEF c
<1>4. /\ y \in Info /\ y.name = info[r].name /\ y.try = info[r].try /\ y.oidc = c
      /\ y.file = info[r].file /\ y.oidcCreated /\ y.keyCreated = info[r].keyCreated
  BY <1>1, <1>2, AssignNewOidc, Zenon
<1> HIDE DEF y
<1>5. QED
  BY <1>2, <1>3, <1>4 DEF Attempt

\* New variables of one script leave those of the others, and the files, alone.
LEMMA OwnStep ==
  ASSUME OwnInv, NEW r \in Runs, NEW y \in Info, NEW l,
         info' = [info EXCEPT ![r] = y], pc' = [pc EXCEPT ![r] = l], UNCHANGED env,
         y.oidcCreated => y.oidc = Attempt(y),
         l \in ProvisionSteps => y.name = r,
         l \in {"listOidc", "createOidc"} => ~y.oidcCreated
  PROVE  info' \in [Runs -> Info] /\ CreatedIsOwn' /\ ProvisionsOwn'
  BY DEF OwnInv, TypeOK, CreatedIsOwn, ProvisionsOwn, Attempt

\* Every command and every service step keeps the shell variables, the env files
\* and the account in their types, and the *_CREATED flags truthful.
THEOREM Ownership == Spec => []OwnInv
<1>1. Init => OwnInv
  <2> SUFFICES ASSUME Init PROVE OwnInv
    OBVIOUS
  <2>1. quiet \in BOOLEAN
    BY Zenon DEF Init
  <2>2. QED
    BY <2>1, BlankIsInfo DEF Init, OwnInv, TypeOK, CreatedIsOwn, ProvisionsOwn,
      ProvisionSteps, Configs, Resting
<1>2. OwnInv /\ [Next]_vars => OwnInv'
  <2> SUFFICES ASSUME OwnInv, [Next]_vars PROVE OwnInv'
    OBVIOUS
  <2> USE ProvisioningAssumption
      DEF OwnInv, TypeOK, CreatedIsOwn, ProvisionsOwn, cloud, hist, Step, Resting
  <2>a. \A r \in Runs : /\ LosesTrack(r) \subseteq Attempts /\ Maker(r) \in Attempts
                        /\ Attempt(info[r]) \in Attempts /\ Attempt(info[r]) \in Configs
    BY AttemptIs DEF LosesTrack, Maker, Attempts, Info, Configs
  <2>1. ASSUME NEW r \in Runs, Provision(r) PROVE OwnInv'
    <3>1. tries[r] + 1 \in Nat
      OBVIOUS
    <3>2. PICK y \in Info : y.name = r /\ ~y.oidcCreated /\ info' = [info EXCEPT ![r] = y]
      BY <2>1, NewTry
    <3>4. TypeOK'
      BY <2>1, <3>1, <3>2 DEF Provision, ProvisionSteps
    <3>5. CreatedIsOwn' /\ ProvisionsOwn'
      <4>1. pc' = [pc EXCEPT ![r] = "listOidc"] /\ UNCHANGED env
        BY <2>1 DEF Provision
      <4>2. QED
        BY <3>2, <4>1, OwnStep DEF ProvisionSteps
    <3>6. QED
      BY <3>4, <3>5
  <2>2. ASSUME NEW r \in Runs, AdoptOidc(r) PROVE OwnInv'
    <3>1. PICK c \in Configs : info' = [info EXCEPT ![r] = [info[r] EXCEPT !.oidc = c]]
      BY <2>2 DEF AdoptOidc, Configs
    <3>2. info'[r] \in Info /\ info'[r].name = r /\ ~info'[r].oidcCreated
      BY <2>2, <3>1, AssignOidc DEF AdoptOidc, ProvisionSteps
    <3>3. QED
      BY <2>2, <3>1, <3>2 DEF AdoptOidc, ProvisionSteps
  <2>3. ASSUME NEW r \in Runs, NoOidc(r) \/ WaitStack(r) PROVE OwnInv'
    BY <2>3 DEF NoOidc, WaitStack, ProvisionSteps
  <2>4. ASSUME NEW r \in Runs, CreateOidc(r) PROVE OwnInv'
    <3>1. PICK y \in Info : /\ y.name = info[r].name
                           /\ y.oidc = Attempt(y) /\ info' = [info EXCEPT ![r] = y]
      BY <2>4, NewOidc
    <3>2. info[r].name = r
      BY <2>4 DEF CreateOidc, ProvisionSteps
    <3>5. TypeOK'
      <4>1. oidc' \subseteq Configs /\ info' \in [Runs -> Info]
        <5>1. Attempt(info[r]) \in Configs /\ oidc' = oidc \cup {Attempt(info[r])}
          BY <2>4, <2>a DEF CreateOidc
        <5>2. QED
          BY <3>1, <5>1
      <4>2. QED
        BY <2>4, <4>1 DEF CreateOidc, ProvisionSteps
    <3>6. CreatedIsOwn' /\ ProvisionsOwn'
      <4>1. pc' = [pc EXCEPT ![r] = "createStack"] /\ UNCHANGED env
        BY <2>4 DEF CreateOidc
      <4>2. QED
        BY <3>1, <3>2, <4>1, OwnStep
    <3>7. QED
      BY <3>5, <3>6
  <2>5. ASSUME NEW r \in Runs, CreateStack(r) PROVE OwnInv'
    BY <2>5 DEF CreateStack, ProvisionSteps
  <2>6. ASSUME NEW r \in Runs, CreateKey(r) PROVE OwnInv'
    <3> DEFINE y == [info[r] EXCEPT !.keyCreated = TRUE]
    <3>1. info' \in {info, [info EXCEPT ![r] = y]}
      BY <2>6 DEF CreateKey
    <3>2. info[r] \in Info /\ info[r].name = r
      BY <2>6 DEF CreateKey, ProvisionSteps
    <3>3. /\ y \in Info /\ y.name = info[r].name /\ y.try = info[r].try
          /\ y.oidc = info[r].oidc /\ y.oidcCreated = info[r].oidcCreated
      BY <3>2, AssignKey, Zenon
    <3> HIDE DEF y
    <3>4. Attempt(y) = Attempt(info[r])
      BY <3>3 DEF Attempt
    <3>5. TypeOK'
      BY <2>6, <2>a, <3>1, <3>3 DEF CreateKey, ProvisionSteps
    <3>6. CreatedIsOwn' /\ ProvisionsOwn'
      BY <2>6, <3>1, <3>2, <3>3, <3>4, OwnStep DEF CreateKey, ProvisionSteps
    <3>7. QED
      BY <3>5, <3>6
  <2>7. ASSUME NEW r \in Runs, CreateCluster(r) PROVE OwnInv'
    <3>1. info[r].try \in Nat /\ info[r].oidc \in Configs
      BY DEF Info
    <3>2. PICK y \in {info[r], Blank(r)} : info' = [info EXCEPT ![r] = y]
      BY <2>7 DEF CreateCluster
    <3>3. y \in Info /\ y.name = r /\ (y.oidcCreated => y.oidc = Attempt(y))
      BY <2>7, <3>2, BlankIsInfo DEF CreateCluster, ProvisionSteps
    <3>4. TypeOK'
      BY <2>7, <2>a, <3>1, <3>2, <3>3 DEF CreateCluster, ProvisionSteps
    <3>5. CreatedIsOwn' /\ ProvisionsOwn'
      BY <2>7, <3>2, <3>3, OwnStep DEF CreateCluster, ProvisionSteps
    <3>6. QED
      BY <3>4, <3>5
  <2>8. ASSUME NEW r \in Runs, Grant(r) PROVE OwnInv'
    <3>1. TypeOK'
      BY <2>8, <2>a DEF Grant, ProvisionSteps
    <3>2. CreatedIsOwn' /\ ProvisionsOwn'
      BY <2>8 DEF Grant, ProvisionSteps, Attempt
    <3>3. QED
      BY <3>1, <3>2
  <2>9. ASSUME NEW r \in Runs, Save(r) PROVE OwnInv'
    <3> DEFINE y == [info[r] EXCEPT !.file = TRUE]
    <3>1. env' = [env EXCEPT ![DirOf[r]] = y] /\ info' = [info EXCEPT ![r] = Blank(r)]
      BY <2>9 DEF Save
    <3>2. /\ y \in Info /\ y.name = info[r].name /\ y.try = info[r].try
          /\ y.oidc = info[r].oidc /\ y.oidcCreated = info[r].oidcCreated
      BY AssignFile, Zenon
    <3> HIDE DEF y
    <3>3. Attempt(y) = Attempt(info[r])
      BY <3>2 DEF Attempt
    <3>4. Recorded(DirOf[r]) \subseteq Attempts
      BY AttemptIs DEF Recorded
    <3>5. TypeOK'
      <4>1. DirOf[r] \in Dirs /\ Blank(r) \in Info
        BY BlankIsInfo
      <4>2. env' \in [Dirs -> Info \cup {NoFile}] /\ info' \in [Runs -> Info]
        BY <3>1, <3>2, <4>1
      <4>3. QED
        BY <2>9, <3>4, <4>2 DEF Save, ProvisionSteps
    <3>6. CreatedIsOwn' /\ ProvisionsOwn'
      BY <2>9, <3>1, <3>2, BlankIsInfo DEF Save, ProvisionSteps, Attempt
    <3>7. QED
      BY <3>5, <3>6
  <2>10. ASSUME NEW r \in Runs, Deprovision(r) PROVE OwnInv'
    <3>1. /\ Load(r) \in Info
          /\ Load(r).oidcCreated => Load(r).oidc = Attempt(Load(r))
      BY BlankIsInfo DEF Load
    <3>2. PICK y \in Info :
            /\ y.name = Load(r).name /\ y.try = Load(r).try /\ y.oidc = Load(r).oidc
            /\ y.oidcCreated = Load(r).oidcCreated
            /\ info' = [info EXCEPT ![r] = y]
      BY <2>10, <3>1, Loaded
    <3>3. Attempt(y) = Attempt(Load(r))
      BY <3>2 DEF Attempt
    <3>4. QED
      BY <2>10, <3>1, <3>2, <3>3 DEF Deprovision, ProvisionSteps, TeardownSteps
  <2>11. ASSUME NEW r \in Runs, DeleteCluster(r) PROVE OwnInv'
    BY <2>11 DEF DeleteCluster, ProvisionSteps, TeardownSteps
  <2>12. ASSUME NEW r \in Runs, Watch(r) \/ WaitDelete(r) PROVE OwnInv'
    BY <2>12 DEF Watch, WaitDelete, Ignored, ProvisionSteps, TeardownSteps
  <2>13. ASSUME NEW r \in Runs, DeleteRoles(r) \/ DeleteGroups(r) PROVE OwnInv'
    BY <2>13 DEF DeleteRoles, DeleteGroups, Ignored, ProvisionSteps, TeardownSteps
  <2>14. ASSUME NEW r \in Runs, DeleteStack(r) PROVE OwnInv'
    BY <2>14 DEF DeleteStack, Ignored, ProvisionSteps, TeardownSteps
  <2>15. ASSUME NEW r \in Runs, DeleteOidc(r) \/ ScheduleKey(r) PROVE OwnInv'
    BY <2>15 DEF DeleteOidc, ScheduleKey, Ignored, ProvisionSteps, TeardownSteps
  <2>16. ASSUME NEW r \in Runs, RemoveFile(r) PROVE OwnInv'
    BY <2>16, <2>a DEF RemoveFile, ProvisionSteps
  <2>17. ASSUME NEW r \in Runs, Abort(r) PROVE OwnInv'
    BY <2>17, <2>a, BlankIsInfo DEF Abort, ProvisionSteps
  <2>18. ASSUME NEW r \in Runs, StackSettles(r) \/ Uninstalled(r) PROVE OwnInv'
    BY <2>18 DEF StackSettles, Uninstalled
  <2>19. CASE Settle
    <3>1. quiet' \in BOOLEAN
      BY <2>19, Zenon DEF Settle
    <3>2. QED
      BY <2>19, <3>1 DEF Settle
  <2>20. CASE UNCHANGED vars
    BY <2>20 DEF vars
  <2>21. QED
    BY <2>1, <2>2, <2>3, <2>4, <2>5, <2>6, <2>7, <2>8, <2>9, <2>10, <2>11, <2>12,
       <2>13, <2>14, <2>15, <2>16, <2>17, <2>18, <2>19, <2>20
       DEF Next, ProvisionStep, TeardownStep
<1>3. QED
  BY <1>1, <1>2, PTL DEF Spec

\* The teardowns of this project delete no managed OIDC config but those that
\* the attempts they work for created, even when runs share an env file.
THEOREM AdoptedConfigsKeptHolds == Spec => AdoptedConfigsKept
<1> DEFINE Kept == \A c \in oidc \ oidc' :
                     \E r \in Runs : pc[r] = "deleteOidc" /\ Attempt(info[r]) = c
<1>1. OwnInv /\ [Next]_vars => [Kept]_vars
  <2> SUFFICES ASSUME OwnInv, Next PROVE Kept
    OBVIOUS
  <2>1. ASSUME NEW r \in Runs, DeleteOidc(r) PROVE Kept
    <3>1. info[r].oidcCreated => info[r].oidc = Attempt(info[r])
      BY DEF OwnInv, CreatedIsOwn
    <3>2. oidc' = oidc \/ (info[r].oidcCreated /\ oidc' = oidc \ {info[r].oidc})
      BY <2>1 DEF DeleteOidc
    <3>3. pc[r] = "deleteOidc"
      BY <2>1 DEF DeleteOidc, Step
    <3>4. QED
      BY <3>1, <3>2, <3>3
  <2>2. ASSUME NEW r \in Runs, CreateOidc(r) PROVE Kept
    BY <2>2 DEF CreateOidc
  <2>3. CASE UNCHANGED oidc
    BY <2>3
  <2>4. ASSUME NEW r \in Runs,
               \/ Provision(r) \/ AdoptOidc(r) \/ NoOidc(r) \/ CreateStack(r)
               \/ WaitStack(r) \/ CreateKey(r) \/ CreateCluster(r) \/ Grant(r) \/ Save(r)
        PROVE UNCHANGED oidc
    BY <2>4 DEF Provision, AdoptOidc, NoOidc, CreateStack, WaitStack, CreateKey,
                CreateCluster, Grant, Save, cloud
  <2>5. ASSUME NEW r \in Runs,
               \/ Deprovision(r) \/ DeleteCluster(r) \/ Watch(r) \/ DeleteRoles(r)
               \/ DeleteGroups(r) \/ DeleteStack(r) \/ WaitDelete(r) \/ ScheduleKey(r)
               \/ RemoveFile(r) \/ Abort(r) \/ StackSettles(r) \/ Uninstalled(r) \/ Settle
        PROVE UNCHANGED oidc
    BY <2>5 DEF Deprovision, DeleteCluster, Watch, DeleteRoles, DeleteGroups, DeleteStack,
                WaitDelete, ScheduleKey, RemoveFile, Abort, StackSettles, Uninstalled,
                Settle, cloud
  <2>6. CASE Settle
    BY <2>3, <2>6 DEF Settle, cloud
  <2>7. QED
    BY <2>1, <2>2, <2>3, <2>4, <2>5, <2>6 DEF Next, ProvisionStep, TeardownStep
<1>2. QED
  BY Ownership, <1>1, PTL DEF Spec, AdoptedConfigsKept

-----------------------------------------------------------------------------
(* Runs that do not share a SHARED_DIR.                                    *)

OwnDirs == \A r, q \in Runs : DirOf[r] = DirOf[q] => r = q

\* The variables of a script, and its env file, describe its own run.
OwnNames ==
  \A r \in Runs :
    /\ info[r].name = r
    /\ env[DirOf[r]] # NoFile => env[DirOf[r]].name = r

\* Past "rosa delete cluster" the cluster of the run is on its way out, and a
\* cluster is created with a key that is not on its way out.
Order ==
  \A r \in Runs :
    /\ pc[r] \in TeardownSteps \ {"deleteCluster"} => cluster[r] # "present"
    /\ pc[r] = "createCluster" /\ r \in WantsKey => <<r, info[r].try>> \in keys

LiveInv == OwnNames /\ Order /\ NothingUnderALiveCluster

\* With a directory of its own a script describes its own run at every step.
THEOREM LiveInvariance == ASSUME OwnDirs PROVE Spec => [](OwnInv /\ LiveInv)
<1>1. Init => LiveInv
  BY BlankIsInfo, ProvisioningAssumption
     DEF Init, LiveInv, OwnNames, Order, NothingUnderALiveCluster, TeardownSteps
<1>2. OwnInv /\ LiveInv /\ [Next]_vars => LiveInv'
  <2> SUFFICES ASSUME OwnInv, LiveInv, [Next]_vars PROVE LiveInv'
    OBVIOUS
  <2>a. TypeOK
    BY DEF OwnInv
  <2> USE <2>a, ProvisioningAssumption DEF LiveInv, OwnNames, Order,
          NothingUnderALiveCluster, cloud, hist, Step, TypeOK, Maker
  <2>b. \A r \in Runs : Attempt(info[r]) = <<r, info[r].try>>
    BY DEF Attempt
  <2>1. ASSUME NEW r \in Runs, Provision(r) PROVE LiveInv'
    <3>3. PICK y \in Info : y.name = r /\ info' = [info EXCEPT ![r] = y]
      BY <2>1, NewTry
    <3>4. pc' = [pc EXCEPT ![r] = "listOidc"] /\ UNCHANGED <<env, cloud>>
      BY <2>1 DEF Provision
    <3>5. QED
      BY <3>3, <3>4 DEF TeardownSteps
  <2>2. ASSUME NEW r \in Runs, AdoptOidc(r) PROVE LiveInv'
    <3>1. PICK c \in Configs : info' = [info EXCEPT ![r] = [info[r] EXCEPT !.oidc = c]]
      BY <2>2 DEF AdoptOidc, Configs
    <3>2. info'[r].name = r /\ \A q \in Runs : q # r => info'[q] = info[q]
      BY <3>1, AssignOidc
    <3>3. QED
      BY <2>2, <3>2 DEF AdoptOidc, TeardownSteps
  <2>3. ASSUME NEW r \in Runs, NoOidc(r) \/ WaitStack(r) PROVE LiveInv'
    BY <2>3 DEF NoOidc, WaitStack, TeardownSteps
  <2>4. ASSUME NEW r \in Runs, CreateOidc(r) PROVE LiveInv'
    <3>1. info[r] \in Info
      OBVIOUS
    <3>2. info'[r].name = r /\ \A q \in Runs : q # r => info'[q] = info[q]
      BY <2>4, <3>1 DEF CreateOidc, Info
    <3>3. QED
      BY <2>4, <3>2 DEF CreateOidc, TeardownSteps
  <2>5. ASSUME NEW r \in Runs, CreateStack(r) PROVE LiveInv'
    BY <2>5 DEF CreateStack, TeardownSteps
  <2>6. ASSUME NEW r \in Runs, CreateKey(r) PROVE LiveInv'
    <3> DEFINE y == [info[r] EXCEPT !.keyCreated = TRUE]
    <3>1. y.name = info[r].name /\ y.try = info[r].try
      BY AssignKey
    <3>5. info' \in {info, [info EXCEPT ![r] = y]}
      BY <2>6 DEF CreateKey
    <3> HIDE DEF y
    <3>2. /\ info'[r].name = r /\ info'[r].try = info[r].try
          /\ \A q \in Runs : q # r => info'[q] = info[q]
      BY <3>1, <3>5
    <3>3. keys \subseteq keys' /\ (r \in WantsKey => <<r, info[r].try>> \in keys')
      BY <2>6, <2>b DEF CreateKey
    <3>4. QED
      BY <2>6, <3>2, <3>3 DEF CreateKey, TeardownSteps
  <2>7. ASSUME NEW r \in Runs, CreateCluster(r) PROVE LiveInv'
    <3>1. /\ info'[r] \in {info[r], Blank(r)}
          /\ \A q \in Runs : q # r => info'[q] = info[q]
      BY <2>7 DEF CreateCluster
    <3>2. /\ made'[r] = info[r].try /\ \A q \in Runs : q # r => made'[q] = made[q]
      BY <2>7 DEF CreateCluster
    <3>3. QED
      BY <2>7, <3>1, <3>2, BlankIsInfo DEF CreateCluster, TeardownSteps
  <2>8. ASSUME NEW r \in Runs, Grant(r) PROVE LiveInv'
    BY <2>8 DEF Grant, TeardownSteps
  <2>9. ASSUME NEW r \in Runs, Save(r) PROVE LiveInv'
    <3>1. env'[DirOf[r]].name = r
      BY <2>9, AssignFile DEF Save
    <3>2. \A q \in Runs : q # r => env'[DirOf[q]] = env[DirOf[q]]
      BY <2>9, OwnDirs DEF Save, OwnDirs
    <3>3. QED
      BY <2>9, <3>1, <3>2, BlankIsInfo DEF Save, TeardownSteps
  <2>10. ASSUME NEW r \in Runs, Deprovision(r) PROVE LiveInv'
    <3>1. Load(r) \in Info /\ Load(r).name = r
      BY BlankIsInfo DEF Load
    <3>2. PICK y \in Info : y.name = Load(r).name /\ info' = [info EXCEPT ![r] = y]
      BY <2>10, <3>1, Loaded
    <3>3. QED
      BY <2>10, <3>1, <3>2 DEF Deprovision, TeardownSteps
  <2>11. ASSUME NEW r \in Runs, DeleteCluster(r) PROVE LiveInv'
    BY <2>11 DEF DeleteCluster, TeardownSteps
  <2>12. ASSUME NEW r \in Runs, Watch(r) \/ WaitDelete(r) PROVE LiveInv'
    BY <2>12 DEF Watch, WaitDelete, TeardownSteps
  <2>13. ASSUME NEW r \in Runs, DeleteRoles(r) \/ DeleteGroups(r) PROVE LiveInv'
    BY <2>13 DEF DeleteRoles, DeleteGroups, TeardownSteps
  <2>14. ASSUME NEW r \in Runs, DeleteStack(r) PROVE LiveInv'
    <3>1. cluster[r] # "present" /\ \A q \in Runs : q # r => stack'[q] = stack[q]
      <4>1. info[r].name = r /\ pc[r] = "deleteStack"
        BY <2>14 DEF DeleteStack
      <4>2. cluster[r] # "present"
        BY <4>1 DEF TeardownSteps
      <4>3. \/ stack' = stack
            \/ stack' = [stack EXCEPT ![r] = IF stack[r] = "none" THEN stack[r]
                                             ELSE "deleting"]
        BY <2>14, <4>1 DEF DeleteStack
      <4>4. QED
        BY <4>2, <4>3
    <3>2. /\ pc[r] = "deleteStack" /\ pc' = [pc EXCEPT ![r] = "waitDelete"]
          /\ UNCHANGED <<info, env, oidc, keys, cluster, made, uses>>
      BY <2>14 DEF DeleteStack
    <3>3. QED
      BY <3>1, <3>2 DEF TeardownSteps
  <2>15. ASSUME NEW r \in Runs, DeleteOidc(r) PROVE LiveInv'
    <3>1. \A c \in oidc \ oidc' : \A n \in Runs : cluster[n] # "none" => uses[n] # c
      BY <2>15 DEF DeleteOidc, Deletable
    <3>2. QED
      BY <2>15, <3>1 DEF DeleteOidc, TeardownSteps
  <2>16. ASSUME NEW r \in Runs, ScheduleKey(r) PROVE LiveInv'
    <3>1. \A q \in Runs, t \in Nat : q # r /\ <<q, t>> \in keys => <<q, t>> \in keys'
      BY <2>16, <2>b DEF ScheduleKey
    <3>2. \A q \in Runs : info[q].try \in Nat /\ made[q] \in Nat
      BY DEF Info
    <3>3. QED
      BY <2>16, <3>1, <3>2 DEF ScheduleKey, TeardownSteps
  <2>17. ASSUME NEW r \in Runs, RemoveFile(r) PROVE LiveInv'
    BY <2>17 DEF RemoveFile, TeardownSteps
  <2>18. ASSUME NEW r \in Runs, Abort(r) PROVE LiveInv'
    BY <2>18, BlankIsInfo DEF Abort, TeardownSteps
  <2>19. ASSUME NEW r \in Runs, StackSettles(r) \/ Uninstalled(r) PROVE LiveInv'
    BY <2>19 DEF StackSettles, Uninstalled
  <2>20. CASE Settle \/ UNCHANGED vars
    BY <2>20 DEF Settle, vars
  <2>21. QED
    BY <2>1, <2>2, <2>3, <2>4, <2>5, <2>6, <2>7, <2>8, <2>9, <2>10, <2>11, <2>12,
       <2>13, <2>14, <2>15, <2>16, <2>17, <2>18, <2>19, <2>20
       DEF Next, ProvisionStep, TeardownStep
<1>3. QED
  BY <1>1, <1>2, Ownership, PTL DEF Spec

\* With a directory of its own for every run, no interleaving of provisioning,
\* teardown, failure and rerun takes the network, the key or the OIDC config from
\* under a cluster that nobody asked to delete.
THEOREM LiveClusterKeepsAll == ASSUME OwnDirs PROVE Spec => []NothingUnderALiveCluster
<1>1. LiveInv => NothingUnderALiveCluster
  BY DEF LiveInv
<1>2. QED
  BY <1>1, LiveInvariance, PTL

-----------------------------------------------------------------------------
(* What a teardown leaves, for runs that do not share a SHARED_DIR.        *)

PastWatch == {"deleteRoles", "deleteGroups", "deleteStack", "waitDelete", "deleteOidc",
              "scheduleKey", "rm", "cleaned"}

File(r) == env[DirOf[r]]

\* A cluster stands on its stack, and a teardown that has ignored no failure so far
\* has seen the end of the cluster before it goes past the watch.
Uninstall(r) ==
  /\ cluster[r] # "none" => stack[r] # "none"
  /\ pc[r] \in PastWatch /\ r \notin swallowed => cluster[r] = "none"

\* Tries are counted: what exists was made by a try that has begun, and the file
\* describes an earlier try than the one in progress.
Numbers(r) ==
  /\ \A t \in Nat : <<r, t>> \in keys \/ <<r, t>> \in roles \/ <<r, t>> \in oidc =>
                      t # 0 /\ t <= tries[r]
  /\ pc[r] \in ProvisionSteps => info[r].try = tries[r] /\ tries[r] # 0
  /\ File(r) # NoFile =>
       /\ File(r).try <= tries[r]
       /\ pc[r] \in ProvisionSteps => File(r).try # tries[r]

\* The *_CREATED flags are set for what exists, in the variables and in the file.
Flags(r) ==
  /\ <<r, info[r].try>> \in keys => info[r].keyCreated
  /\ <<r, info[r].try>> \in oidc => info[r].oidcCreated
  /\ File(r) # NoFile =>
       /\ <<r, File(r).try>> \in keys => File(r).keyCreated
       /\ <<r, File(r).try>> \in oidc => File(r).oidcCreated

\* A teardown works with what the file says, and the file goes at its end.
FileKept(r) ==
  /\ File(r) # NoFile => File(r).file
  /\ pc[r] \in TeardownSteps =>
       /\ info[r].file <=> File(r) # NoFile
       /\ info[r].file => File(r).try = info[r].try
  /\ pc[r] = "cleaned" => File(r) = NoFile

\* A key or a config is recorded, or about to be; roles are those of the cluster.
Tracked(r) ==
  \A t \in Nat :
    /\ <<r, t>> \in keys \/ <<r, t>> \in oidc =>
         \/ <<r, t>> \in untracked
         \/ pc[r] \in ProvisionSteps /\ t = info[r].try
         \/ File(r) # NoFile /\ File(r).try = t
    /\ <<r, t>> \in roles => <<r, t>> \in untracked \/ t = made[r]

\* The roles of a cluster are there no longer when its stack goes, unless a teardown
\* ignored that it could not delete them.
RolesHeld(r) ==
  <<r, made[r]>> \in roles =>
    \/ <<r, made[r]>> \in untracked
    \/ pc[r] \in TeardownSteps /\ r \in swallowed
    \/ /\ stack[r] \notin {"none", "deleting"}
       /\ pc[r] \notin {"waitStack", "createKey", "createCluster"}

\* A teardown that has ignored no failure so far knows the prefix of the roles as soon
\* as it has found the cluster, and past each of its commands the resource of that
\* command is gone.
Achieved(r) ==
  r \notin swallowed =>
    /\ \/ pc[r] = "deleteCluster" /\ cluster[r] # "none"
       \/ pc[r] \in {"watch", "deleteRoles"}
       => info[r].prefix = made[r]
    /\ pc[r] \in PastWatch \ {"deleteRoles"} => <<r, made[r]>> \notin roles
    /\ info[r].file /\ pc[r] \in {"deleteOidc", "scheduleKey", "rm", "cleaned"} =>
         stack[r] = "none"
    /\ info[r].oidcCreated /\ pc[r] \in {"scheduleKey", "rm", "cleaned"} =>
         <<r, info[r].try>> \notin oidc
    /\ info[r].keyCreated /\ pc[r] \in {"rm", "cleaned"} => <<r, info[r].try>> \notin keys

RecordOf(r) ==
  /\ Uninstall(r) /\ Numbers(r) /\ Flags(r) /\ FileKept(r)
  /\ Tracked(r) /\ RolesHeld(r) /\ Achieved(r)

RecordInv == \A r \in Runs : RecordOf(r)

\* A step that has nothing to do with run q.
Untouched(q) ==
  /\ pc'[q] = pc[q] /\ tries'[q] = tries[q] /\ info'[q] = info[q]
  /\ env'[DirOf[q]] = env[DirOf[q]] /\ stack'[q] = stack[q]
  /\ cluster'[q] = cluster[q] /\ made'[q] = made[q]
  /\ q \in swallowed' <=> q \in swallowed
  /\ \A t \in Nat : /\ <<q, t>> \in keys' <=> <<q, t>> \in keys
                    /\ <<q, t>> \in roles' <=> <<q, t>> \in roles
                    /\ <<q, t>> \in oidc' <=> <<q, t>> \in oidc
                    /\ <<q, t>> \in untracked => <<q, t>> \in untracked'

\* Such a step keeps the record of run q.
LEMMA UntouchedKeeps ==
  ASSUME NEW q \in Runs, TypeOK, info[q].try \in Nat, File(q) # NoFile => File(q).try \in Nat,
         RecordOf(q), Untouched(q)
  PROVE  RecordOf(q)'
<1> USE DEF Untouched, RecordOf, File
<1>0. made[q] \in Nat
  BY DEF TypeOK
<1>1. Uninstall(q)' /\ FileKept(q)'
  BY DEF Uninstall, FileKept
<1>2. Numbers(q)' /\ Flags(q)'
  BY DEF Numbers, Flags
<1>3. Tracked(q)'
  BY DEF Tracked
<1>4. RolesHeld(q)' /\ Achieved(q)'
  BY <1>0 DEF RolesHeld, Achieved
<1>5. QED
  BY <1>1, <1>2, <1>3, <1>4

\* Every command keeps the record of what a teardown has achieved.
THEOREM RecordInvariance == ASSUME OwnDirs PROVE Spec => []RecordInv
<1>1. Init => RecordInv
  <2> SUFFICES ASSUME Init, NEW r \in Runs PROVE RecordOf(r)
    BY DEF RecordInv
  <2>1. /\ pc[r] = "idle" /\ cluster[r] = "none" /\ File(r) = NoFile
        /\ ~info[r].file /\ made[r] = 0 /\ info[r].try = 0
    BY BlankIsInfo, ProvisioningAssumption DEF Init, File
  <2>2. \A t \in Nat : <<r, t>> \notin keys /\ <<r, t>> \notin roles /\ <<r, t>> \notin oidc
    BY ProvisioningAssumption DEF Init
  <2>3. QED
    BY <2>1, <2>2 DEF RecordOf, Uninstall, Numbers, Flags, FileKept, Tracked, RolesHeld,
       Achieved, PastWatch, ProvisionSteps, TeardownSteps
<1>2. OwnInv /\ LiveInv /\ RecordInv /\ [Next]_vars => RecordInv'
  <2> SUFFICES ASSUME OwnInv, LiveInv, RecordInv, [Next]_vars PROVE RecordInv'
    OBVIOUS
  <2>a. TypeOK
    BY DEF OwnInv
  <2>b. \A r \in Runs :
          /\ info[r] \in Info /\ info[r].name = r /\ info[r].try \in Nat /\ made[r] \in Nat
          /\ Attempt(info[r]) = <<r, info[r].try>>
          /\ info[r].oidcCreated => info[r].oidc = <<r, info[r].try>>
          /\ File(r) # NoFile =>
               /\ File(r) \in Info /\ File(r).name = r /\ File(r).try \in Nat
               /\ Attempt(File(r)) = <<r, File(r).try>>
    BY ProvisioningAssumption
       DEF OwnInv, TypeOK, LiveInv, OwnNames, Attempt, Info, CreatedIsOwn, File
  <2>c. ASSUME NEW r \in Runs, \A q \in Runs : q # r => Untouched(q), RecordOf(r)'
        PROVE  RecordInv'
    <3>1. \A q \in Runs : q # r => RecordOf(q)'
      BY <2>a, <2>b, <2>c, UntouchedKeeps DEF RecordInv
    <3>2. QED
      BY <2>c, <3>1 DEF RecordInv
  <2>d. \A r \in Runs : RecordOf(r) /\ DirOf[r] \in Dirs
    BY ProvisioningAssumption DEF RecordInv
  <2>e. \A r, q \in Runs : q # r => DirOf[q] # DirOf[r]
    BY OwnDirs DEF OwnDirs
  <2> USE DEF cloud, hist, Step, Maker
  <2>1. ASSUME NEW r \in Runs, Provision(r) PROVE RecordInv'
    <3>1. /\ pc[r] \in Resting /\ pc'[r] = "listOidc"
          /\ info'[r].try = tries[r] + 1 /\ tries'[r] = tries[r] + 1 /\ tries[r] \in Nat
          /\ ~info'[r].file /\ ~info'[r].oidcCreated /\ ~info'[r].keyCreated
          /\ env'[DirOf[r]] = env[DirOf[r]]
          /\ UNCHANGED <<cloud, hist>>
      <4>1. PICK y \in Info : /\ y.name = r /\ y.try = tries[r] + 1
                              /\ ~y.oidcCreated /\ ~y.keyCreated /\ ~y.file
                              /\ info' = [info EXCEPT ![r] = y]
        BY <2>1, <2>a, NewTry
      <4>2. info'[r] = y
        BY <2>a, <4>1 DEF TypeOK
      <4>3. /\ pc[r] \in Resting /\ pc'[r] = "listOidc"
            /\ tries'[r] = tries[r] + 1 /\ tries[r] \in Nat
            /\ env'[DirOf[r]] = env[DirOf[r]]
            /\ UNCHANGED <<cloud, hist>>
        BY <2>1, <2>a DEF Provision, TypeOK
      <4>4. QED
        BY <4>1, <4>2, <4>3
    <3>2. \A q \in Runs : q # r => Untouched(q)
      BY <2>1, <2>a, <2>b, <2>d, <2>e DEF Provision, TypeOK, Untouched
    <3>3. RecordOf(r)'
      <4>0. RecordOf(r) /\ info[r].try \in Nat /\ made[r] \in Nat
        BY <2>b, <2>d
      <4> USE <4>0 DEF RecordOf, File, PastWatch, ProvisionSteps, TeardownSteps, Resting
      <4>1. Uninstall(r)' /\ FileKept(r)'
        BY <3>1 DEF Uninstall, FileKept
      <4>2. Numbers(r)'
        <5>0. tries[r] \in Nat /\ tries'[r] = tries[r] + 1
          BY <3>1
        <5>1. ASSUME NEW t \in Nat, <<r, t>> \in keys \/ <<r, t>> \in roles \/ <<r, t>> \in oidc
              PROVE  t # 0 /\ t <= tries'[r]
          <6>1. t # 0 /\ t <= tries[r]
            BY <5>1 DEF Numbers
          <6>2. QED
            BY <5>0, <6>1
        <5>2. File(r) # NoFile => File(r).try <= tries'[r] /\ File(r).try # tries'[r]
          <6>1. SUFFICES ASSUME File(r) # NoFile PROVE File(r).try <= tries'[r] /\ File(r).try # tries'[r]
            OBVIOUS
          <6>2. File(r).try \in Nat /\ File(r).try <= tries[r]
            BY <2>b, <6>1 DEF Numbers
          <6>3. QED
            BY <5>0, <6>2
        <5>3. QED
          BY <3>1, <5>0, <5>1, <5>2 DEF Numbers
      <4>3. Flags(r)'
        BY <3>1 DEF Numbers, Flags, FileKept
      <4>4. Tracked(r)'
        BY <3>1 DEF Numbers, Flags, FileKept, Tracked, RolesHeld, Achieved
      <4>5. RolesHeld(r)'
        BY <3>1 DEF Numbers, Achieved, RolesHeld
      <4>6. Achieved(r)'
        BY <3>1 DEF Numbers, Uninstall, Achieved
      <4>7. QED
        BY <4>1, <4>2, <4>3, <4>4, <4>5, <4>6
    <3>4. QED
      BY <2>c, <3>2, <3>3
  <2>2. ASSUME NEW r \in Runs, AdoptOidc(r) PROVE RecordInv'
    <3>1. /\ pc[r] = "listOidc" /\ pc'[r] = "createStack"
          /\ info'[r].try = info[r].try /\ info'[r].file = info[r].file
          /\ info'[r].oidcCreated = info[r].oidcCreated /\ info'[r].keyCreated = info[r].keyCreated
          /\ tries'[r] = tries[r]
          /\ env'[DirOf[r]] = env[DirOf[r]]
          /\ UNCHANGED <<cloud, hist>>
      BY <2>2, <2>a, <2>b, <2>d, AssignOidc DEF AdoptOidc, TypeOK, File, Configs
    <3>2. \A q \in Runs : q # r => Untouched(q)
      BY <2>2, <2>a, <2>b, <2>d, <2>e DEF AdoptOidc, TypeOK, Untouched, Configs
    <3>3. RecordOf(r)'
      <4>0. RecordOf(r) /\ info[r].try \in Nat /\ made[r] \in Nat
        BY <2>b, <2>d
      <4> USE <4>0 DEF RecordOf, File, PastWatch, ProvisionSteps, TeardownSteps, Resting
      <4>1. Uninstall(r)' /\ FileKept(r)'
        BY <3>1 DEF Uninstall, FileKept
      <4>2. Numbers(r)'
        BY <3>1 DEF Numbers
      <4>3. Flags(r)'
        BY <3>1 DEF Numbers, Flags, FileKept
      <4>4. Tracked(r)'
        BY <3>1 DEF Numbers, Flags, FileKept, Tracked, RolesHeld, Achieved
      <4>5. RolesHeld(r)'
        BY <3>1 DEF Numbers, Achieved, RolesHeld
      <4>6. Achieved(r)'
        BY <3>1 DEF Numbers, Uninstall, Achieved
      <4>7. QED
        BY <4>1, <4>2, <4>3, <4>4, <4>5, <4>6
    <3>4. QED
      BY <2>c, <3>2, <3>3
  <2>3. ASSUME NEW r \in Runs, NoOidc(r) PROVE RecordInv'
    <3>1. /\ pc[r] = "listOidc" /\ pc'[r] = "createOidc"
          /\ info'[r] = info[r] /\ tries'[r] = tries[r]
          /\ env'[DirOf[r]] = env[DirOf[r]]
          /\ UNCHANGED <<cloud, hist>>
      BY <2>3, <2>a, <2>b, <2>d DEF NoOidc, TypeOK, File
    <3>2. \A q \in Runs : q # r => Untouched(q)
      BY <2>3, <2>a, <2>b, <2>d, <2>e DEF NoOidc, TypeOK, Untouched
    <3>3. RecordOf(r)'
      <4>0. RecordOf(r) /\ info[r].try \in Nat /\ made[r] \in Nat
        BY <2>b, <2>d
      <4> USE <4>0 DEF RecordOf, File, PastWatch, ProvisionSteps, TeardownSteps, Resting
      <4>1. Uninstall(r)' /\ FileKept(r)'
        BY <3>1 DEF Uninstall, FileKept
      <4>2. Numbers(r)'
        BY <3>1 DEF Numbers
      <4>3. Flags(r)'
        BY <3>1 DEF Numbers, Flags, FileKept
      <4>4. Tracked(r)'
        BY <3>1 DEF Numbers, Flags, FileKept, Tracked, RolesHeld, Achieved
      <4>5. RolesHeld(r)'
        BY <3>1 DEF Numbers, Achieved, RolesHeld
      <4>6. Achieved(r)'
        BY <3>1 DEF Numbers, Uninstall, Achieved
      <4>7. QED
        BY <4>1, <4>2, <4>3, <4>4, <4>5, <4>6
    <3>4. QED
      BY <2>c, <3>2, <3>3
  <2>4. ASSUME NEW r \in Runs, CreateOidc(r) PROVE RecordInv'
    <3>1. /\ pc[r] = "createOidc" /\ pc'[r] = "createStack"
          /\ info'[r].try = info[r].try /\ info'[r].file = info[r].file
          /\ info'[r].oidcCreated /\ info'[r].keyCreated = info[r].keyCreated
          /\ oidc' = oidc \cup {<<r, info[r].try>>}
          /\ tries'[r] = tries[r]
          /\ env'[DirOf[r]] = env[DirOf[r]]
          /\ UNCHANGED <<stack, keys, cluster, made, roles, hist>>
      <4>0. Attempt(info[r]) = <<r, info[r].try>>
        BY <2>b
      <4>1. PICK y \in Info : /\ y.try = info[r].try /\ y.file = info[r].file
                              /\ y.oidcCreated /\ y.keyCreated = info[r].keyCreated
                              /\ info' = [info EXCEPT ![r] = y]
        BY <2>4, <2>a, NewOidc
      <4>2. info'[r] = y
        BY <2>a, <4>1 DEF TypeOK
      <4>3. /\ pc[r] = "createOidc" /\ pc'[r] = "createStack"
            /\ oidc' = oidc \cup {<<r, info[r].try>>}
            /\ tries'[r] = tries[r] /\ env'[DirOf[r]] = env[DirOf[r]]
            /\ UNCHANGED <<stack, keys, cluster, made, roles, hist>>
        BY <2>4, <2>a, <4>0 DEF CreateOidc, TypeOK
      <4>4. QED
        BY <4>1, <4>2, <4>3
    <3>2. \A q \in Runs : q # r => Untouched(q)
      BY <2>4, <2>a, <2>b, <2>d, <2>e DEF CreateOidc, TypeOK, Untouched
    <3>3. RecordOf(r)'
      <4>0. RecordOf(r) /\ info[r].try \in Nat /\ made[r] \in Nat
        BY <2>b, <2>d
      <4> USE <4>0 DEF RecordOf, File, PastWatch, ProvisionSteps, TeardownSteps, Resting
      <4>1. Uninstall(r)' /\ FileKept(r)'
        BY <3>1 DEF Uninstall, FileKept
      <4>2. Numbers(r)'
        BY <3>1 DEF Numbers
      <4>3. Flags(r)'
        BY <3>1 DEF Numbers, Flags, FileKept
      <4>4. Tracked(r)'
        BY <3>1 DEF Numbers, Flags, FileKept, Tracked, RolesHeld, Achieved
      <4>5. RolesHeld(r)'
        BY <3>1 DEF Numbers, Achieved, RolesHeld
      <4>6. Achieved(r)'
        BY <3>1 DEF Numbers, Uninstall, Achieved
      <4>7. QED
        BY <4>1, <4>2, <4>3, <4>4, <4>5, <4>6
    <3>4. QED
      BY <2>c, <3>2, <3>3
  <2>5. ASSUME NEW r \in Runs, CreateStack(r) PROVE RecordInv'
    <3>1. /\ pc[r] = "createStack" /\ pc'[r] = "waitStack"
          /\ stack[r] = "none" /\ stack'[r] = "creating"
          /\ info'[r] = info[r] /\ tries'[r] = tries[r]
          /\ env'[DirOf[r]] = env[DirOf[r]]
          /\ UNCHANGED <<oidc, keys, cluster, made, roles, hist>>
      BY <2>5, <2>a, <2>b, <2>d DEF CreateStack, TypeOK, File
    <3>2. \A q \in Runs : q # r => Untouched(q)
      BY <2>5, <2>a, <2>b, <2>d, <2>e DEF CreateStack, TypeOK, Untouched
    <3>3. RecordOf(r)'
      <4>0. RecordOf(r) /\ info[r].try \in Nat /\ made[r] \in Nat
        BY <2>b, <2>d
      <4> USE <4>0 DEF RecordOf, File, PastWatch, ProvisionSteps, TeardownSteps, Resting
      <4>1. Uninstall(r)' /\ FileKept(r)'
        BY <3>1 DEF Uninstall, FileKept
      <4>2. Numbers(r)'
        BY <3>1 DEF Numbers
      <4>3. Flags(r)'
        BY <3>1 DEF Numbers, Flags, FileKept
      <4>4. Tracked(r)'
        BY <3>1 DEF Numbers, Flags, FileKept, Tracked, RolesHeld, Achieved
      <4>5. RolesHeld(r)'
        BY <3>1 DEF Numbers, Achieved, RolesHeld
      <4>6. Achieved(r)'
        BY <3>1 DEF Numbers, Uninstall, Achieved
      <4>7. QED
        BY <4>1, <4>2, <4>3, <4>4, <4>5, <4>6
    <3>4. QED
      BY <2>c, <3>2, <3>3
  <2>6. ASSUME NEW r \in Runs, WaitStack(r) PROVE RecordInv'
    <3>1. /\ pc[r] = "waitStack" /\ pc'[r] = "createKey"
          /\ info'[r] = info[r] /\ tries'[r] = tries[r]
          /\ env'[DirOf[r]] = env[DirOf[r]]
          /\ UNCHANGED <<cloud, hist>>
      BY <2>6, <2>a, <2>b, <2>d DEF WaitStack, TypeOK, File
    <3>2. \A q \in Runs : q # r => Untouched(q)
      BY <2>6, <2>a, <2>b, <2>d, <2>e DEF WaitStack, TypeOK, Untouched
    <3>3. RecordOf(r)'
      <4>0. RecordOf(r) /\ info[r].try \in Nat /\ made[r] \in Nat
        BY <2>b, <2>d
      <4> USE <4>0 DEF RecordOf, File, PastWatch, ProvisionSteps, TeardownSteps, Resting
      <4>1. Uninstall(r)' /\ FileKept(r)'
        BY <3>1 DEF Uninstall, FileKept
      <4>2. Numbers(r)'
        BY <3>1 DEF Numbers
      <4>3. Flags(r)'
        BY <3>1 DEF Numbers, Flags, FileKept
      <4>4. Tracked(r)'
        BY <3>1 DEF Numbers, Flags, FileKept, Tracked, RolesHeld, Achieved
      <4>5. RolesHeld(r)'
        BY <3>1 DEF Numbers, Achieved, RolesHeld
      <4>6. Achieved(r)'
        BY <3>1 DEF Numbers, Uninstall, Achieved
      <4>7. QED
        BY <4>1, <4>2, <4>3, <4>4, <4>5, <4>6
    <3>4. QED
      BY <2>c, <3>2, <3>3
  <2>7. ASSUME NEW r \in Runs, CreateKey(r) PROVE RecordInv'
    <3>1. /\ pc[r] = "createKey" /\ pc'[r] = "createCluster"
          /\ info'[r].try = info[r].try /\ info'[r].file = info[r].file
          /\ info'[r].oidcCreated = info[r].oidcCreated
          /\ \/ info'[r] = info[r] /\ keys' = keys
             \/ info'[r].keyCreated /\ keys' = keys \cup {<<r, info[r].try>>}
          /\ tries'[r] = tries[r]
          /\ env'[DirOf[r]] = env[DirOf[r]]
          /\ UNCHANGED <<oidc, stack, cluster, made, roles, hist>>
      <4> DEFINE y == [info[r] EXCEPT !.keyCreated = TRUE]
      <4>0. info[r] \in Info /\ Attempt(info[r]) = <<r, info[r].try>>
        BY <2>b
      <4>1. /\ y \in Info /\ y.try = info[r].try /\ y.file = info[r].file
            /\ y.oidcCreated = info[r].oidcCreated /\ y.keyCreated
        BY <4>0, AssignKey, Zenon
      <4>2. \/ info' = info /\ keys' = keys
            \/ info' = [info EXCEPT ![r] = y] /\ keys' = keys \cup {<<r, info[r].try>>}
        BY <2>7, <2>a, <4>0 DEF CreateKey, TypeOK
      <4> HIDE DEF y
      <4>3. \/ info'[r] = info[r] /\ keys' = keys
            \/ info'[r] = y /\ keys' = keys \cup {<<r, info[r].try>>}
        BY <2>a, <4>2 DEF TypeOK
      <4>4. /\ pc[r] = "createKey" /\ pc'[r] = "createCluster"
            /\ tries'[r] = tries[r] /\ env'[DirOf[r]] = env[DirOf[r]]
            /\ UNCHANGED <<oidc, stack, cluster, made, roles, hist>>
        BY <2>7, <2>a DEF CreateKey, TypeOK
      <4>5. QED
        BY <4>1, <4>3, <4>4
    <3>2. \A q \in Runs : q # r => Untouched(q)
      BY <2>7, <2>a, <2>b, <2>d, <2>e DEF CreateKey, TypeOK, Untouched
    <3>3. RecordOf(r)'
      <4>0. RecordOf(r) /\ info[r].try \in Nat /\ made[r] \in Nat
        BY <2>b, <2>d
      <4> USE <4>0 DEF RecordOf, File, PastWatch, ProvisionSteps, TeardownSteps, Resting
      <4>1. Uninstall(r)' /\ FileKept(r)'
        BY <3>1 DEF Uninstall, FileKept
      <4>2. Numbers(r)'
        BY <3>1 DEF Numbers
      <4>3. Flags(r)'
        BY <3>1 DEF Numbers, Flags, FileKept
      <4>4. Tracked(r)'
        BY <3>1 DEF Numbers, Flags, FileKept, Tracked, RolesHeld, Achieved
      <4>5. RolesHeld(r)'
        BY <3>1 DEF Numbers, Achieved, RolesHeld
      <4>6. Achieved(r)'
        BY <3>1 DEF Numbers, Uninstall, Achieved
      <4>7. QED
        BY <4>1, <4>2, <4>3, <4>4, <4>5, <4>6
    <3>4. QED
      BY <2>c, <3>2, <3>3
  <2>8. ASSUME NEW r \in Runs, CreateCluster(r) PROVE RecordInv'
    <3>1. /\ pc[r] = "createCluster" /\ stack[r] = "complete"
          /\ stack'[r] = stack[r] /\ cluster'[r] = "present" /\ made'[r] = info[r].try
          /\ \/ /\ pc'[r] = "grant" /\ info'[r] = info[r] /\ untracked' = untracked
                /\ roles' = roles \cup {<<r, info[r].try>>}
             \/ /\ pc'[r] = "aborted" /\ info'[r] = Blank(r) /\ roles' = roles
                /\ untracked' = untracked \cup {<<r, info[r].try>>}
          /\ tries'[r] = tries[r]
          /\ env'[DirOf[r]] = env[DirOf[r]]
          /\ UNCHANGED <<oidc, keys, swallowed>>
      BY <2>8, <2>a, <2>b, <2>d DEF CreateCluster, TypeOK, File
    <3>2. /\ Blank(r).try = 0 /\ ~Blank(r).file
          /\ ~Blank(r).oidcCreated /\ ~Blank(r).keyCreated
      BY BlankIsInfo
    <3>3. \A q \in Runs : q # r => Untouched(q)
      BY <2>8, <2>a, <2>b, <2>d, <2>e DEF CreateCluster, TypeOK, Untouched
    <3>4. RecordOf(r)'
      <4>0. RecordOf(r) /\ info[r].try \in Nat /\ made[r] \in Nat
        BY <2>b, <2>d
      <4> USE <4>0 DEF RecordOf, File, PastWatch, ProvisionSteps, TeardownSteps, Resting
      <4>1. Uninstall(r)' /\ FileKept(r)'
        BY <3>1, <3>2 DEF Uninstall, FileKept
      <4>2. Numbers(r)'
        BY <3>1, <3>2 DEF Numbers
      <4>3. Flags(r)'
        BY <3>1, <3>2 DEF Numbers, Flags, FileKept
      <4>4. Tracked(r)'
        BY <3>1, <3>2 DEF Numbers, Flags, FileKept, Tracked, RolesHeld, Achieved
      <4>5. RolesHeld(r)'
        BY <3>1, <3>2 DEF Numbers, Achieved, RolesHeld
      <4>6. Achieved(r)'
        BY <3>1, <3>2 DEF Numbers, Uninstall, Achieved
      <4>7. QED
        BY <4>1, <4>2, <4>3, <4>4, <4>5, <4>6
    <3>5. QED
      BY <2>c, <3>3, <3>4
  <2>9. ASSUME NEW r \in Runs, Grant(r) PROVE RecordInv'
    <3>1. /\ pc[r] = "grant" /\ pc'[r] = "save"
          /\ info'[r] = info[r] /\ tries'[r] = tries[r]
          /\ env'[DirOf[r]] = env[DirOf[r]]
          /\ stack'[r] = stack[r] /\ cluster'[r] = cluster[r] /\ made'[r] = made[r]
          /\ UNCHANGED <<oidc, keys, roles, hist>>
      BY <2>9, <2>a, <2>b, <2>d DEF Grant, TypeOK, File
    <3>2. \A q \in Runs : q # r => Untouched(q)
      BY <2>9, <2>a, <2>b, <2>d, <2>e DEF Grant, TypeOK, Untouched
    <3>3. RecordOf(r)'
      <4>0. RecordOf(r) /\ info[r].try \in Nat /\ made[r] \in Nat
        BY <2>b, <2>d
      <4> USE <4>0 DEF RecordOf, File, PastWatch, ProvisionSteps, TeardownSteps, Resting
      <4>1. Uninstall(r)' /\ FileKept(r)'
        BY <3>1 DEF Uninstall, FileKept
      <4>2. Numbers(r)'
        BY <3>1 DEF Numbers
      <4>3. Flags(r)'
        BY <3>1 DEF Numbers, Flags, FileKept
      <4>4. Tracked(r)'
        BY <3>1 DEF Numbers, Flags, FileKept, Tracked, RolesHeld, Achieved
      <4>5. RolesHeld(r)'
        BY <3>1 DEF Numbers, Achieved, RolesHeld
      <4>6. Achieved(r)'
        BY <3>1 DEF Numbers, Uninstall, Achieved
      <4>7. QED
        BY <4>1, <4>2, <4>3, <4>4, <4>5, <4>6
    <3>4. QED
      BY <2>c, <3>2, <3>3
  <2>10. ASSUME NEW r \in Runs, Save(r) PROVE RecordInv'
    <3>1. /\ pc[r] = "save" /\ pc'[r] = "provisioned"
          /\ info'[r] = Blank(r) /\ tries'[r] = tries[r]
          /\ env'[DirOf[r]].try = info[r].try /\ env'[DirOf[r]].file
          /\ env'[DirOf[r]].keyCreated = info[r].keyCreated
          /\ env'[DirOf[r]].oidcCreated = info[r].oidcCreated
          /\ untracked \subseteq untracked'
          /\ File(r) # NoFile => <<r, File(r).try>> \in untracked'
          /\ UNCHANGED <<cloud, swallowed>>
      BY <2>10, <2>a, <2>b, <2>d, AssignFile DEF Save, TypeOK, File, Recorded
    <3>2. /\ Blank(r).try = 0 /\ ~Blank(r).file
          /\ ~Blank(r).oidcCreated /\ ~Blank(r).keyCreated
      BY BlankIsInfo
    <3>3. \A q \in Runs : q # r => Untouched(q)
      BY <2>10, <2>a, <2>b, <2>d, <2>e DEF Save, TypeOK, Untouched, Recorded
    <3>4. RecordOf(r)'
      <4>0. RecordOf(r) /\ info[r].try \in Nat /\ made[r] \in Nat
        BY <2>b, <2>d
      <4> USE <4>0 DEF RecordOf, File, PastWatch, ProvisionSteps, TeardownSteps, Resting
      <4>1. Uninstall(r)' /\ FileKept(r)'
        BY <3>1, <3>2 DEF Uninstall, FileKept
      <4>2. Numbers(r)'
        BY <3>1, <3>2 DEF Numbers
      <4>3. Flags(r)'
        BY <3>1, <3>2 DEF Numbers, Flags, FileKept
      <4>4. Tracked(r)'
        <5>1. ASSUME NEW t \in Nat, <<r, t>> \in keys \/ <<r, t>> \in oidc
              PROVE  <<r, t>> \in untracked' \/ env'[DirOf[r]].try = t
          BY <3>1, <5>1 DEF Tracked
        <5>2. \A t \in Nat : <<r, t>> \in roles => <<r, t>> \in untracked' \/ t = made[r]
          BY <3>1 DEF Tracked
        <5>3. env'[DirOf[r]] # NoFile
          <6> DEFINE y == [info[r] EXCEPT !.file = TRUE]
          <6>1. y \in Info
            BY <2>b, AssignFile, Zenon
          <6>2. env' = [env EXCEPT ![DirOf[r]] = y] /\ env \in [Dirs -> Info \cup {NoFile}]
            BY <2>10, <2>a DEF Save, TypeOK
          <6> HIDE DEF y
          <6>3. QED
            BY <6>1, <6>2, <2>d, NoFileAssumption
        <5>4. QED
          BY <3>1, <5>1, <5>2, <5>3 DEF Tracked
      <4>5. RolesHeld(r)'
        BY <3>1, <3>2 DEF Numbers, Achieved, RolesHeld
      <4>6. Achieved(r)'
        BY <3>1, <3>2 DEF Numbers, Uninstall, Achieved
      <4>7. QED
        BY <4>1, <4>2, <4>3, <4>4, <4>5, <4>6
    <3>5. QED
      BY <2>c, <3>3, <3>4
  <2>11. ASSUME NEW r \in Runs, Deprovision(r) PROVE RecordInv'
    <3>1. /\ Load(r) \in Info /\ Load(r).name = r
          /\ IF File(r) = NoFile
               THEN Load(r).try = 0 /\ ~Load(r).file /\ ~Load(r).oidcCreated /\ ~Load(r).keyCreated
               ELSE Load(r) = File(r)
      BY <2>b, BlankIsInfo DEF Load, File
    <3>2. /\ pc[r] \in Resting /\ pc'[r] = "deleteCluster"
          /\ info'[r].try = Load(r).try /\ info'[r].file = Load(r).file
          /\ info'[r].oidcCreated = Load(r).oidcCreated /\ info'[r].keyCreated = Load(r).keyCreated
          /\ r \in swallowed' \/ (cluster[r] # "none" => info'[r].prefix = made[r])
          /\ tries'[r] = tries[r]
          /\ env'[DirOf[r]] = env[DirOf[r]]
          /\ UNCHANGED <<cloud, untracked>>
      <4>1. PICK y \in Info :
              /\ y.name = Load(r).name /\ y.try = Load(r).try /\ y.file = Load(r).file
              /\ y.oidcCreated = Load(r).oidcCreated /\ y.keyCreated = Load(r).keyCreated
              /\ info' = [info EXCEPT ![r] = y]
              /\ \/ r \in swallowed'
                 \/ cluster[y.name] # "none" => y.prefix = made[y.name]
        <5>1. made \in [Runs -> Nat]
          BY <2>a DEF TypeOK
        <5>2. QED
          BY <2>11, <3>1, <5>1, Loaded
      <4>2. info'[r] = y /\ y.name = r
        BY <2>a, <3>1, <4>1 DEF TypeOK
      <4>3. /\ pc[r] \in Resting /\ pc'[r] = "deleteCluster"
            /\ tries'[r] = tries[r] /\ env'[DirOf[r]] = env[DirOf[r]]
            /\ UNCHANGED <<cloud, untracked>>
        BY <2>11, <2>a DEF Deprovision, TypeOK
      <4>4. QED
        BY <4>1, <4>2, <4>3
    <3>3. \A q \in Runs : q # r => Untouched(q)
      BY <2>11, <2>a, <2>b, <2>d, <2>e DEF Deprovision, TypeOK, Untouched
    <3>4. RecordOf(r)'
      <4>0. RecordOf(r) /\ info[r].try \in Nat /\ made[r] \in Nat
        BY <2>b, <2>d
      <4> USE <4>0 DEF RecordOf, File, PastWatch, ProvisionSteps, TeardownSteps, Resting
      <4>1. Uninstall(r)' /\ FileKept(r)'
        BY <3>2, <3>1 DEF Uninstall, FileKept
      <4>2. Numbers(r)'
        BY <3>2, <3>1 DEF Numbers
      <4>3. Flags(r)'
        BY <3>2, <3>1 DEF Numbers, Flags, FileKept
      <4>4. Tracked(r)'
        BY <3>2, <3>1 DEF Numbers, Flags, FileKept, Tracked, RolesHeld, Achieved
      <4>5. RolesHeld(r)'
        BY <3>2, <3>1 DEF Numbers, Achieved, RolesHeld
      <4>6. Achieved(r)'
        BY <3>2, <3>1 DEF Numbers, Uninstall, Achieved
      <4>7. QED
        BY <4>1, <4>2, <4>3, <4>4, <4>5, <4>6
    <3>5. QED
      BY <2>c, <3>3, <3>4
  <2>12. ASSUME NEW r \in Runs, DeleteCluster(r) PROVE RecordInv'
    <3>1. /\ pc[r] = "deleteCluster" /\ pc'[r] = "watch"
          /\ cluster[r] # "none" /\ cluster'[r] = "uninstalling"
          /\ info'[r] = info[r] /\ tries'[r] = tries[r]
          /\ env'[DirOf[r]] = env[DirOf[r]]
          /\ UNCHANGED <<oidc, keys, stack, made, roles, hist>>
      BY <2>12, <2>a, <2>b, <2>d DEF DeleteCluster, TypeOK, File
    <3>2. \A q \in Runs : q # r => Untouched(q)
      BY <2>12, <2>a, <2>b, <2>d, <2>e DEF DeleteCluster, TypeOK, Untouched
    <3>3. RecordOf(r)'
      <4>0. RecordOf(r) /\ info[r].try \in Nat /\ made[r] \in Nat
        BY <2>b, <2>d
      <4> USE <4>0 DEF RecordOf, File, PastWatch, ProvisionSteps, TeardownSteps, Resting
      <4>1. Uninstall(r)' /\ FileKept(r)'
        BY <3>1 DEF Uninstall, FileKept
      <4>2. Numbers(r)'
        BY <3>1 DEF Numbers
      <4>3. Flags(r)'
        BY <3>1 DEF Numbers, Flags, FileKept
      <4>4. Tracked(r)'
        BY <3>1 DEF Numbers, Flags, FileKept, Tracked, RolesHeld, Achieved
      <4>5. RolesHeld(r)'
        BY <3>1 DEF Numbers, Achieved, RolesHeld
      <4>6. Achieved(r)'
        BY <3>1 DEF Numbers, Uninstall, Achieved
      <4>7. QED
        BY <4>1, <4>2, <4>3, <4>4, <4>5, <4>6
    <3>4. QED
      BY <2>c, <3>2, <3>3
  <2>13. ASSUME NEW r \in Runs, Watch(r) PROVE RecordInv'
    <3>1. /\ pc[r] = "watch" /\ pc'[r] = "deleteRoles"
          /\ r \in swallowed' \/ (cluster[r] = "none" /\ swallowed' = swallowed)
          /\ info'[r] = info[r] /\ tries'[r] = tries[r]
          /\ env'[DirOf[r]] = env[DirOf[r]]
          /\ UNCHANGED <<cloud, untracked>>
      BY <2>13, <2>a, <2>b, <2>d DEF Watch, TypeOK, File, Ignored
    <3>2. \A q \in Runs : q # r => Untouched(q)
      BY <2>13, <2>a, <2>b, <2>d, <2>e DEF Watch, TypeOK, Untouched, Ignored
    <3>3. RecordOf(r)'
      <4>0. RecordOf(r) /\ info[r].try \in Nat /\ made[r] \in Nat
        BY <2>b, <2>d
      <4> USE <4>0 DEF RecordOf, File, PastWatch, ProvisionSteps, TeardownSteps, Resting
      <4>1. Uninstall(r)' /\ FileKept(r)'
        BY <3>1 DEF Uninstall, FileKept
      <4>2. Numbers(r)'
        BY <3>1 DEF Numbers
      <4>3. Flags(r)'
        BY <3>1 DEF Numbers, Flags, FileKept
      <4>4. Tracked(r)'
        BY <3>1 DEF Numbers, Flags, FileKept, Tracked, RolesHeld, Achieved
      <4>5. RolesHeld(r)'
        BY <3>1 DEF Numbers, Achieved, RolesHeld
      <4>6. Achieved(r)'
        BY <3>1 DEF Numbers, Uninstall, Achieved
      <4>7. QED
        BY <4>1, <4>2, <4>3, <4>4, <4>5, <4>6
    <3>4. QED
      BY <2>c, <3>2, <3>3
  <2>14. ASSUME NEW r \in Runs, DeleteRoles(r) PROVE RecordInv'
    <3>1. /\ pc[r] = "deleteRoles"
          /\ pc'[r] = IF info[r].file THEN "deleteGroups" ELSE "deleteOidc"
          /\ roles' \subseteq roles
          /\ r \in swallowed' \/ (swallowed' = swallowed /\ roles' = roles \ RolesFound(info[r]))
          /\ info'[r] = info[r] /\ tries'[r] = tries[r]
          /\ env'[DirOf[r]] = env[DirOf[r]]
          /\ UNCHANGED <<oidc, keys, stack, cluster, made, untracked>>
      BY <2>14, <2>a, <2>b, <2>d DEF DeleteRoles, TypeOK, File, Ignored
    <3>2. r \notin swallowed' => <<r, made[r]>> \notin roles'
      <4>1. CASE made[r] = 0
        BY <2>d, <3>1, <4>1 DEF RecordOf, Numbers
      <4>2. CASE made[r] # 0
        BY <2>b, <2>d, <3>1, <4>2 DEF RecordOf, Achieved, RolesFound
      <4>3. QED
        BY <4>1, <4>2
    <3>3. \A q \in Runs : q # r => Untouched(q)
      BY <2>14, <2>a, <2>b, <2>d, <2>e DEF DeleteRoles, TypeOK, Untouched, Ignored, RolesFound
    <3>4. RecordOf(r)'
      <4>0. RecordOf(r) /\ info[r].try \in Nat /\ made[r] \in Nat
        BY <2>b, <2>d
      <4> USE <4>0 DEF RecordOf, File, PastWatch, ProvisionSteps, TeardownSteps, Resting
      <4>1. Uninstall(r)' /\ FileKept(r)'
        BY <3>1, <3>2 DEF Uninstall, FileKept
      <4>2. Numbers(r)'
        BY <3>1, <3>2 DEF Numbers
      <4>3. Flags(r)'
        BY <3>1, <3>2 DEF Numbers, Flags, FileKept
      <4>4. Tracked(r)'
        BY <3>1, <3>2 DEF Numbers, Flags, FileKept, Tracked, RolesHeld, Achieved
      <4>5. RolesHeld(r)'
        BY <3>1, <3>2 DEF Numbers, Achieved, RolesHeld
      <4>6. Achieved(r)'
        BY <3>1, <3>2 DEF Numbers, Uninstall, Achieved
      <4>7. QED
        BY <4>1, <4>2, <4>3, <4>4, <4>5, <4>6
    <3>5. QED
      BY <2>c, <3>3, <3>4
  <2>15. ASSUME NEW r \in Runs, DeleteGroups(r) PROVE RecordInv'
    <3>1. /\ pc[r] = "deleteGroups" /\ pc'[r] = "deleteStack"
          /\ r \in swallowed' \/ swallowed' = swallowed
          /\ info'[r] = info[r] /\ tries'[r] = tries[r]
          /\ env'[DirOf[r]] = env[DirOf[r]]
          /\ UNCHANGED <<oidc, keys, stack, cluster, made, roles, untracked>>
      BY <2>15, <2>a, <2>b, <2>d DEF DeleteGroups, TypeOK, File, Ignored
    <3>2. \A q \in Runs : q # r => Untouched(q)
      BY <2>15, <2>a, <2>b, <2>d, <2>e DEF DeleteGroups, TypeOK, Untouched, Ignored
    <3>3. RecordOf(r)'
      <4>0. RecordOf(r) /\ info[r].try \in Nat /\ made[r] \in Nat
        BY <2>b, <2>d
      <4> USE <4>0 DEF RecordOf, File, PastWatch, ProvisionSteps, TeardownSteps, Resting
      <4>1. Uninstall(r)' /\ FileKept(r)'
        BY <3>1 DEF Uninstall, FileKept
      <4>2. Numbers(r)'
        BY <3>1 DEF Numbers
      <4>3. Flags(r)'
        BY <3>1 DEF Numbers, Flags, FileKept
      <4>4. Tracked(r)'
        BY <3>1 DEF Numbers, Flags, FileKept, Tracked, RolesHeld, Achieved
      <4>5. RolesHeld(r)'
        BY <3>1 DEF Numbers, Achieved, RolesHeld
      <4>6. Achieved(r)'
        BY <3>1 DEF Numbers, Uninstall, Achieved
      <4>7. QED
        BY <4>1, <4>2, <4>3, <4>4, <4>5, <4>6
    <3>4. QED
      BY <2>c, <3>2, <3>3
  <2>16. ASSUME NEW r \in Runs, DeleteStack(r) PROVE RecordInv'
    <3>1. /\ pc[r] = "deleteStack" /\ pc'[r] = "waitDelete"
          /\ \/ r \in swallowed' /\ stack'[r] = stack[r]
             \/ swallowed' = swallowed /\ stack'[r] \in {stack[r], "deleting"}
                /\ (stack[r] # "none" => stack'[r] # "none")
          /\ info'[r] = info[r] /\ tries'[r] = tries[r]
          /\ env'[DirOf[r]] = env[DirOf[r]]
          /\ UNCHANGED <<oidc, keys, cluster, made, roles, untracked>>
      BY <2>16, <2>a, <2>b, <2>d DEF DeleteStack, TypeOK, File, Ignored
    <3>2. \A q \in Runs : q # r => Untouched(q)
      BY <2>16, <2>a, <2>b, <2>d, <2>e DEF DeleteStack, TypeOK, Untouched, Ignored
    <3>3. RecordOf(r)'
      <4>0. RecordOf(r) /\ info[r].try \in Nat /\ made[r] \in Nat
        BY <2>b, <2>d
      <4> USE <4>0 DEF RecordOf, File, PastWatch, ProvisionSteps, TeardownSteps, Resting
      <4>1. Uninstall(r)' /\ FileKept(r)'
        BY <3>1 DEF Uninstall, FileKept
      <4>2. Numbers(r)'
        BY <3>1 DEF Numbers
      <4>3. Flags(r)'
        BY <3>1 DEF Numbers, Flags, FileKept
      <4>4. Tracked(r)'
        BY <3>1 DEF Numbers, Flags, FileKept, Tracked, RolesHeld, Achieved
      <4>5. RolesHeld(r)'
        BY <3>1 DEF Numbers, Achieved, RolesHeld
      <4>6. Achieved(r)'
        BY <3>1 DEF Numbers, Uninstall, Achieved
      <4>7. QED
        BY <4>1, <4>2, <4>3, <4>4, <4>5, <4>6
    <3>4. QED
      BY <2>c, <3>2, <3>3
  <2>17. ASSUME NEW r \in Runs, WaitDelete(r) PROVE RecordInv'
    <3>1. /\ pc[r] = "waitDelete" /\ pc'[r] = "deleteOidc"
          /\ r \in swallowed' \/ (stack[r] = "none" /\ swallowed' = swallowed)
          /\ info'[r] = info[r] /\ tries'[r] = tries[r]
          /\ env'[DirOf[r]] = env[DirOf[r]]
          /\ UNCHANGED <<cloud, untracked>>
      BY <2>17, <2>a, <2>b, <2>d DEF WaitDelete, TypeOK, File, Ignored
    <3>2. \A q \in Runs : q # r => Untouched(q)
      BY <2>17, <2>a, <2>b, <2>d, <2>e DEF WaitDelete, TypeOK, Untouched, Ignored
    <3>3. RecordOf(r)'
      <4>0. RecordOf(r) /\ info[r].try \in Nat /\ made[r] \in Nat
        BY <2>b, <2>d
      <4> USE <4>0 DEF RecordOf, File, PastWatch, ProvisionSteps, TeardownSteps, Resting
      <4>1. Uninstall(r)' /\ FileKept(r)'
        BY <3>1 DEF Uninstall, FileKept
      <4>2. Numbers(r)'
        BY <3>1 DEF Numbers
      <4>3. Flags(r)'
        BY <3>1 DEF Numbers, Flags, FileKept
      <4>4. Tracked(r)'
        BY <3>1 DEF Numbers, Flags, FileKept, Tracked, RolesHeld, Achieved
      <4>5. RolesHeld(r)'
        BY <3>1 DEF Numbers, Achieved, RolesHeld
      <4>6. Achieved(r)'
        BY <3>1 DEF Numbers, Uninstall, Achieved
      <4>7. QED
        BY <4>1, <4>2, <4>3, <4>4, <4>5, <4>6
    <3>4. QED
      BY <2>c, <3>2, <3>3
  <2>18. ASSUME NEW r \in Runs, DeleteOidc(r) PROVE RecordInv'
    <3>1. /\ pc[r] = "deleteOidc" /\ pc'[r] = "scheduleKey"
          /\ oidc' \subseteq oidc
          /\ \/ r \in swallowed'
             \/ swallowed' = swallowed /\ (info[r].oidcCreated => <<r, info[r].try>> \notin oidc')
          /\ info'[r] = info[r] /\ tries'[r] = tries[r]
          /\ env'[DirOf[r]] = env[DirOf[r]]
          /\ UNCHANGED <<keys, stack, cluster, made, roles, untracked>>
      BY <2>18, <2>a, <2>b, <2>d DEF DeleteOidc, TypeOK, File, Ignored
    <3>2. \A q \in Runs : q # r => Untouched(q)
      BY <2>18, <2>a, <2>b, <2>d, <2>e DEF DeleteOidc, TypeOK, Untouched, Ignored
    <3>3. RecordOf(r)'
      <4>0. RecordOf(r) /\ info[r].try \in Nat /\ made[r] \in Nat
        BY <2>b, <2>d
      <4> USE <4>0 DEF RecordOf, File, PastWatch, ProvisionSteps, TeardownSteps, Resting
      <4>1. Uninstall(r)' /\ FileKept(r)'
        BY <3>1 DEF Uninstall, FileKept
      <4>2. Numbers(r)'
        BY <3>1 DEF Numbers
      <4>3. Flags(r)'
        BY <3>1 DEF Numbers, Flags, FileKept
      <4>4. Tracked(r)'
        BY <3>1 DEF Numbers, Flags, FileKept, Tracked, RolesHeld, Achieved
      <4>5. RolesHeld(r)'
        BY <3>1 DEF Numbers, Achieved, RolesHeld
      <4>6. Achieved(r)'
        BY <3>1 DEF Numbers, Uninstall, Achieved
      <4>7. QED
        BY <4>1, <4>2, <4>3, <4>4, <4>5, <4>6
    <3>4. QED
      BY <2>c, <3>2, <3>3
  <2>19. ASSUME NEW r \in Runs, ScheduleKey(r) PROVE RecordInv'
    <3>1. /\ pc[r] = "scheduleKey" /\ pc'[r] = "rm"
          /\ keys' \subseteq keys
          /\ \/ r \in swallowed'
             \/ swallowed' = swallowed /\ (info[r].keyCreated => <<r, info[r].try>> \notin keys')
          /\ info'[r] = info[r] /\ tries'[r] = tries[r]
          /\ env'[DirOf[r]] = env[DirOf[r]]
          /\ UNCHANGED <<oidc, stack, cluster, made, roles, untracked>>
      BY <2>19, <2>a, <2>b, <2>d DEF ScheduleKey, TypeOK, File, Ignored
    <3>2. \A q \in Runs : q # r => Untouched(q)
      BY <2>19, <2>a, <2>b, <2>d, <2>e DEF ScheduleKey, TypeOK, Untouched, Ignored
    <3>3. RecordOf(r)'
      <4>0. RecordOf(r) /\ info[r].try \in Nat /\ made[r] \in Nat
        BY <2>b, <2>d
      <4> USE <4>0 DEF RecordOf, File, PastWatch, ProvisionSteps, TeardownSteps, Resting
      <4>1. Uninstall(r)' /\ FileKept(r)'
        BY <3>1 DEF Uninstall, FileKept
      <4>2. Numbers(r)'
        BY <3>1 DEF Numbers
      <4>3. Flags(r)'
        BY <3>1 DEF Numbers, Flags, FileKept
      <4>4. Tracked(r)'
        BY <3>1 DEF Numbers, Flags, FileKept, Tracked, RolesHeld, Achieved
      <4>5. RolesHeld(r)'
        BY <3>1 DEF Numbers, Achieved, RolesHeld
      <4>6. Achieved(r)'
        BY <3>1 DEF Numbers, Uninstall, Achieved
      <4>7. QED
        BY <4>1, <4>2, <4>3, <4>4, <4>5, <4>6
    <3>4. QED
      BY <2>c, <3>2, <3>3
  <2>20. ASSUME NEW r \in Runs, RemoveFile(r) PROVE RecordInv'
    <3>1. /\ pc[r] = "rm" /\ pc'[r] = "cleaned"
          /\ info'[r] = info[r] /\ tries'[r] = tries[r]
          /\ env'[DirOf[r]] = NoFile
          /\ untracked \subseteq untracked'
          /\ r \in swallowed => <<r, info[r].try>> \in untracked' /\ <<r, made[r]>> \in untracked'
          /\ UNCHANGED <<cloud, swallowed>>
      BY <2>20, <2>a, <2>b, <2>d DEF RemoveFile, TypeOK, File, LosesTrack, ProvisionSteps
    <3>2. \A q \in Runs : q # r => Untouched(q)
      BY <2>20, <2>a, <2>b, <2>d, <2>e DEF RemoveFile, TypeOK, Untouched, LosesTrack, ProvisionSteps
    <3>3. RecordOf(r)'
      <4>0. RecordOf(r) /\ info[r].try \in Nat /\ made[r] \in Nat
        BY <2>b, <2>d
      <4> USE <4>0 DEF RecordOf, File, PastWatch, ProvisionSteps, TeardownSteps, Resting
      <4>1. Uninstall(r)' /\ FileKept(r)'
        BY <3>1 DEF Uninstall, FileKept
      <4>2. Numbers(r)'
        BY <3>1 DEF Numbers
      <4>3. Flags(r)'
        BY <3>1 DEF Numbers, Flags, FileKept
      <4>4. Tracked(r)'
        BY <3>1 DEF Numbers, Flags, FileKept, Tracked, RolesHeld, Achieved
      <4>5. RolesHeld(r)'
        BY <3>1 DEF Numbers, Achieved, RolesHeld
      <4>6. Achieved(r)'
        BY <3>1 DEF Numbers, Uninstall, Achieved
      <4>7. QED
        BY <4>1, <4>2, <4>3, <4>4, <4>5, <4>6
    <3>4. QED
      BY <2>c, <3>2, <3>3
  <2>21. ASSUME NEW r \in Runs, Abort(r) PROVE RecordInv'
    <3>1. /\ pc[r] \in ProvisionSteps \cup TeardownSteps /\ pc'[r] = "aborted"
          /\ info'[r] = Blank(r) /\ tries'[r] = tries[r]
          /\ env'[DirOf[r]] = env[DirOf[r]]
          /\ untracked \subseteq untracked' /\ r \notin swallowed'
          /\ pc[r] \in ProvisionSteps => <<r, info[r].try>> \in untracked'
          /\ pc[r] \in TeardownSteps /\ r \in swallowed => <<r, made[r]>> \in untracked'
          /\ UNCHANGED <<cloud>>
      BY <2>21, <2>a, <2>b, <2>d DEF Abort, TypeOK, File, LosesTrack, ProvisionSteps, TeardownSteps
    <3>2. /\ Blank(r).try = 0 /\ ~Blank(r).file
          /\ ~Blank(r).oidcCreated /\ ~Blank(r).keyCreated
      BY BlankIsInfo
    <3>3. \A q \in Runs : q # r => Untouched(q)
      BY <2>21, <2>a, <2>b, <2>d, <2>e DEF Abort, TypeOK, Untouched, LosesTrack, ProvisionSteps, TeardownSteps
    <3>4. RecordOf(r)'
      <4>0. RecordOf(r) /\ info[r].try \in Nat /\ made[r] \in Nat
        BY <2>b, <2>d
      <4> USE <4>0 DEF RecordOf, File, PastWatch, ProvisionSteps, TeardownSteps, Resting
      <4>1. Uninstall(r)' /\ FileKept(r)'
        BY <3>1, <3>2 DEF Uninstall, FileKept
      <4>2. Numbers(r)'
        BY <3>1, <3>2 DEF Numbers
      <4>3. Flags(r)'
        BY <3>1, <3>2 DEF Numbers, Flags, FileKept
      <4>4. Tracked(r)'
        BY <3>1, <3>2 DEF Numbers, Flags, FileKept, Tracked, RolesHeld, Achieved
      <4>5. RolesHeld(r)'
        BY <3>1, <3>2 DEF Numbers, Achieved, RolesHeld
      <4>6. Achieved(r)'
        BY <3>1, <3>2 DEF Numbers, Uninstall, Achieved
      <4>7. QED
        BY <4>1, <4>2, <4>3, <4>4, <4>5, <4>6
    <3>5. QED
      BY <2>c, <3>3, <3>4
  <2>22. ASSUME NEW r \in Runs, StackSettles(r) PROVE RecordInv'
    <3>1. /\ pc'[r] = pc[r]
          /\ \/ stack[r] = "creating" /\ stack'[r] \in {"complete", "failed"}
             \/ stack[r] = "deleting" /\ stack'[r] = "failed"
             \/ stack[r] = "deleting" /\ stack'[r] = "none" /\ cluster[r] = "none"
          /\ info'[r] = info[r] /\ tries'[r] = tries[r]
          /\ env'[DirOf[r]] = env[DirOf[r]]
          /\ UNCHANGED <<oidc, keys, cluster, made, roles, hist>>
      BY <2>22, <2>a, <2>b, <2>d DEF StackSettles, TypeOK, File
    <3>2. \A q \in Runs : q # r => Untouched(q)
      BY <2>22, <2>a, <2>b, <2>d, <2>e DEF StackSettles, TypeOK, Untouched
    <3>3. RecordOf(r)'
      <4>0. RecordOf(r) /\ info[r].try \in Nat /\ made[r] \in Nat
        BY <2>b, <2>d
      <4> USE <4>0 DEF RecordOf, File, PastWatch, ProvisionSteps, TeardownSteps, Resting
      <4>1. Uninstall(r)' /\ FileKept(r)'
        BY <3>1 DEF Uninstall, FileKept
      <4>2. Numbers(r)'
        BY <3>1 DEF Numbers
      <4>3. Flags(r)'
        BY <3>1 DEF Numbers, Flags, FileKept
      <4>4. Tracked(r)'
        BY <3>1 DEF Numbers, Flags, FileKept, Tracked, RolesHeld, Achieved
      <4>5. RolesHeld(r)'
        BY <3>1 DEF Numbers, Achieved, RolesHeld
      <4>6. Achieved(r)'
        BY <3>1 DEF Numbers, Uninstall, Achieved
      <4>7. QED
        BY <4>1, <4>2, <4>3, <4>4, <4>5, <4>6
    <3>4. QED
      BY <2>c, <3>2, <3>3
  <2>23. ASSUME NEW r \in Runs, Uninstalled(r) PROVE RecordInv'
    <3>1. /\ pc'[r] = pc[r]
          /\ cluster[r] # "none" /\ cluster'[r] = "none"
          /\ info'[r] = info[r] /\ tries'[r] = tries[r]
          /\ env'[DirOf[r]] = env[DirOf[r]]
          /\ UNCHANGED <<oidc, keys, stack, made, roles, hist>>
      BY <2>23, <2>a, <2>b, <2>d DEF Uninstalled, TypeOK, File
    <3>2. \A q \in Runs : q # r => Untouched(q)
      BY <2>23, <2>a, <2>b, <2>d, <2>e DEF Uninstalled, TypeOK, Untouched
    <3>3. RecordOf(r)'
      <4>0. RecordOf(r) /\ info[r].try \in Nat /\ made[r] \in Nat
        BY <2>b, <2>d
      <4> USE <4>0 DEF RecordOf, File, PastWatch, ProvisionSteps, TeardownSteps, Resting
      <4>1. Uninstall(r)' /\ FileKept(r)'
        BY <3>1 DEF Uninstall, FileKept
      <4>2. Numbers(r)'
        BY <3>1 DEF Numbers
      <4>3. Flags(r)'
        BY <3>1 DEF Numbers, Flags, FileKept
      <4>4. Tracked(r)'
        BY <3>1 DEF Numbers, Flags, FileKept, Tracked, RolesHeld, Achieved
      <4>5. RolesHeld(r)'
        BY <3>1 DEF Numbers, Achieved, RolesHeld
      <4>6. Achieved(r)'
        BY <3>1 DEF Numbers, Uninstall, Achieved
      <4>7. QED
        BY <4>1, <4>2, <4>3, <4>4, <4>5, <4>6
    <3>4. QED
      BY <2>c, <3>2, <3>3
  <2>24. CASE Settle \/ UNCHANGED vars
    <3>1. \A q \in Runs : Untouched(q)
      BY <2>24 DEF Settle, vars, Untouched
    <3>2. QED
      BY <2>a, <2>b, <3>1, UntouchedKeeps DEF RecordInv
  <2>25. QED
    BY <2>1, <2>2, <2>3, <2>4, <2>5, <2>6, <2>7, <2>8, <2>9, <2>10, <2>11, <2>12, <2>13,
       <2>14, <2>15, <2>16, <2>17, <2>18, <2>19, <2>20, <2>21, <2>22, <2>23, <2>24
       DEF Next, ProvisionStep, TeardownStep
<1>3. QED
  BY <1>1, <1>2, LiveInvariance, PTL DEF Spec

\* When a teardown that works from an env file ends and ignored no failure, the
\* cluster, its roles, its stack and the recorded key are gone, and whatever else was
\* made under that name was made by an attempt that was lost track of.
THEOREM RecordedRunIsCleanedHolds == ASSUME OwnDirs PROVE Spec => []RecordedRunIsCleaned
<1>1. OwnInv /\ LiveInv /\ RecordInv => RecordedRunIsCleaned
  <2> SUFFICES ASSUME OwnInv, LiveInv, RecordInv, NEW r \in Runs,
                      pc[r] = "cleaned", r \notin swallowed, info[r].file
               PROVE  /\ cluster[r] = "none" /\ stack[r] = "none" /\ Maker(r) \notin roles
                      /\ Attempt(info[r]) \notin keys
                      /\ \A t \in 1..tries[r] : <<r, t>> \in keys \cup roles \cup oidc =>
                                                <<r, t>> \in untracked
    BY DEF RecordedRunIsCleaned, LiveInv, OwnNames
  <2>1. RecordOf(r) /\ info[r].name = r /\ tries[r] \in Nat
    BY DEF RecordInv, LiveInv, OwnNames, OwnInv, TypeOK
  <2>2. cluster[r] = "none" /\ stack[r] = "none" /\ <<r, made[r]>> \notin roles
    BY <2>1 DEF RecordOf, Uninstall, Achieved, PastWatch
  <2>3. Attempt(info[r]) \notin keys
    BY <2>1 DEF RecordOf, Flags, Achieved, Attempt
  <2>4. ASSUME NEW t \in 1..tries[r], <<r, t>> \in keys \cup roles \cup oidc
        PROVE  <<r, t>> \in untracked
    <3>1. t \in Nat
      BY <2>1
    <3>2. env[DirOf[r]] = NoFile
      BY <2>1 DEF RecordOf, FileKept, File
    <3>3. QED
      BY <2>1, <2>2, <2>4, <3>1, <3>2 DEF RecordOf, Tracked, File, ProvisionSteps
  <2>5. QED
    BY <2>2, <2>3, <2>4 DEF Maker
<1>2. QED
  BY <1>1, LiveInvariance, RecordInvariance, PTL

\* The key of a cluster is scheduled for deletion under that cluster only by a
\* teardown that has ignored a failure.
THEOREM KeyOutlivesClusterHolds == ASSUME OwnDirs PROVE Spec => KeyOutlivesCluster
<1> DEFINE Outlives == \A n \in Runs : Maker(n) \in keys \ keys' =>
                         \/ cluster[n] = "none"
                         \/ /\ stack[n] # "none"
                            /\ \E r \in swallowed : pc[r] = "scheduleKey" /\ info[r].name = n
<1>1. OwnInv /\ LiveInv /\ RecordInv /\ [Next]_vars => [Outlives]_vars
  <2> SUFFICES ASSUME OwnInv, LiveInv, RecordInv, Next PROVE Outlives
    OBVIOUS
  <2> USE DEF cloud
  <2>1. ASSUME NEW r \in Runs, ScheduleKey(r) PROVE Outlives
    <3>1. pc[r] = "scheduleKey" /\ info[r].name = r /\ RecordOf(r)
      BY <2>1 DEF ScheduleKey, Step, LiveInv, OwnNames, RecordInv
    <3>2. r \in swallowed \/ cluster[r] = "none"
      BY <3>1 DEF RecordOf, Uninstall, PastWatch
    <3>3. cluster[r] # "none" => stack[r] # "none"
      BY <3>1 DEF RecordOf, Uninstall
    <3>4. \A n \in Runs : Maker(n) \in keys \ keys' => n = r
      BY <2>1, <3>1 DEF ScheduleKey, Attempt, Maker
    <3>5. QED
      BY <3>1, <3>2, <3>3, <3>4
  <2>2. ASSUME NEW r \in Runs, CreateKey(r) PROVE Outlives
    BY <2>2 DEF CreateKey
  <2>3. CASE UNCHANGED keys
    BY <2>3
  <2>4. ASSUME NEW r \in Runs,
               \/ Provision(r) \/ AdoptOidc(r) \/ NoOidc(r) \/ CreateOidc(r) \/ CreateStack(r)
               \/ WaitStack(r) \/ CreateCluster(r) \/ Grant(r) \/ Save(r) \/ Deprovision(r)
        PROVE UNCHANGED keys
    BY <2>4 DEF Provision, AdoptOidc, NoOidc, CreateOidc, CreateStack, WaitStack,
                CreateCluster, Grant, Save, Deprovision
  <2>5. ASSUME NEW r \in Runs,
               \/ DeleteCluster(r) \/ Watch(r) \/ DeleteRoles(r) \/ DeleteGroups(r)
               \/ DeleteStack(r) \/ WaitDelete(r) \/ DeleteOidc(r) \/ RemoveFile(r)
               \/ Abort(r) \/ StackSettles(r) \/ Uninstalled(r)
        PROVE UNCHANGED keys
    BY <2>5 DEF DeleteCluster, Watch, DeleteRoles, DeleteGroups, DeleteStack, WaitDelete,
                DeleteOidc, RemoveFile, Abort, StackSettles, Uninstalled
  <2>6. CASE Settle
    BY <2>3, <2>6 DEF Settle
  <2>7. QED
    BY <2>1, <2>2, <2>3, <2>4, <2>5, <2>6 DEF Next, ProvisionStep, TeardownStep
<1>2. QED
  BY <1>1, LiveInvariance, RecordInvariance, PTL DEF Spec, KeyOutlivesCluster

\* The type invariant of the scripts, the account and the organisation.
THEOREM TypeCorrect == Spec => []TypeOK
<1>1. OwnInv => TypeOK
  BY DEF OwnInv
<1>2. QED
  BY <1>1, Ownership, PTL
=============================================================================
