---------------------------- MODULE AccountSpecs ----------------------------
(***************************************************************************)
(* The specs that look at the AWS account of a cluster: CloudTrail         *)
(* (iam_validation_test.go), the tags of the volumes                       *)
(* (infrastructure_tags_test.go), their encryption                         *)
(* (customer_features_test.go), the KMS key and a volume provisioned with  *)
(* it (kms_test.go).  They run one after the other, in an order Ginkgo     *)
(* draws, and share cfg.AWSRegion, which the KMS specs set to the region   *)
(* of the cluster and never reset.                                         *)
(***************************************************************************)
KmsSpecs == {"ebs", "key", "storage"}
AccountSpecs == {"iam", "tags"} \cup KmsSpecs

\* A volume of the cluster: it bears the tag of the cluster, is attached as
\* /dev/sda1 or /dev/xvda, and is encrypted with some key.
Volumes == [tagged : BOOLEAN, root : BOOLEAN, key : {"none", "cluster", "other"}]

\* The key is good; it is but for its policy, which names the roles of a cluster
\* whose prefix begins with ours; or it is bad in some other way.
Keys == {"good", "namesake", "bad"}

CONSTANT Accounts \* what the account and the configuration may be like

ASSUME AccountAssumption ==
  Accounts \subseteq [home : BOOLEAN, lookup : BOOLEAN, denied : BOOLEAN, pv : BOOLEAN,
                      key : Keys, volumes : SUBSET Volumes]

VARIABLES
  account, \* home: AWS_REGION is the region of the cluster; lookup: it is Classic and
           \* CLUSTER_TOPOLOGY does not say so; denied: its region has a denial;
           \* pv: the volume behind a test PVC is encrypted with the cluster's key
  region,  \* cfg.AWSRegion
  acctPc, acctCur,
  clients, \* the region the AWS clients of the spec were made for
  tag,     \* the spec looks for the volumes under the cluster's own identifier
  outcome, \* how the specs ended
  set,     \* history: a KMS spec has set the region
  ahead,   \* history: the other specs that began when none had
  excused  \* history: specs a failed request ended or misled

acctHist == <<set, ahead, excused>>
acctVars == <<account, region, acctPc, acctCur, clients, tag, outcome, acctHist>>

AccountTypeOK ==
  /\ region \in {"configured", "cluster"} /\ clients \in {"none", "configured", "cluster"}
  /\ acctPc \in {"start", "suite", "query", "init", "prefix", "tag", "verify"}
  /\ acctCur \in AccountSpecs \cup {"none"} /\ tag \in BOOLEAN
  /\ outcome \in [AccountSpecs -> {"unrun", "skipped", "passed", "failed"}]
  /\ set \in BOOLEAN /\ ahead \subseteq AccountSpecs \ KmsSpecs
  /\ excused \subseteq AccountSpecs
  /\ account.home => region = "cluster"

\* No account is chosen yet.
NoAccount == [home |-> FALSE, lookup |-> FALSE, denied |-> FALSE, pv |-> FALSE,
              volumes |-> {}, key |-> "bad"]

AccountInit ==
  /\ account = NoAccount /\ region = "configured" /\ acctPc = "start" /\ acctCur = "none"
  /\ clients = "none" /\ tag = FALSE /\ outcome = [s \in AccountSpecs |-> "unrun"]
  /\ set = FALSE /\ ahead = {} /\ excused = {}

AccountBegin ==
  /\ acctPc = "start" /\ acctPc' = "suite"
  /\ account' \in Accounts
  /\ region' = IF account'.home THEN "cluster" ELSE "configured"
  /\ UNCHANGED <<acctCur, clients, tag, outcome, acctHist>>

-----------------------------------------------------------------------------
(* The specs.                                                              *)

SpecGoto(from, to) == acctPc = from /\ acctPc' = to /\ UNCHANGED <<account, acctCur, outcome>>

SpecEnd(from, v) ==
  /\ acctPc = from /\ acctPc' = "suite" /\ acctCur' = "none"
  /\ outcome' = [outcome EXCEPT ![acctCur] = v] /\ clients' = "none" /\ tag' = FALSE
  /\ UNCHANGED <<account, region, set, ahead>>

TakeSpec(s) ==
  /\ acctPc = "suite" /\ outcome[s] = "unrun" /\ acctCur' = s
  /\ acctPc' = IF s \in KmsSpecs THEN "query" ELSE "init"
  /\ ahead' = IF set THEN ahead ELSE ahead \cup ({s} \ KmsSpecs)
  /\ UNCHANGED <<account, region, clients, tag, outcome, set, excused>>

\* Mutant: the region stays as it is configured.
QueryOnly ==
  SpecGoto("query", "init") /\ UNCHANGED <<region, clients, tag, acctHist>>

\* setupKMS: cfg.AWSRegion = region
QueryCluster ==
  /\ SpecGoto("query", "init") /\ region' = "cluster"
  /\ set' = TRUE /\ UNCHANGED <<clients, tag, ahead, excused>>

\* The cluster has no key or no region, there are no credentials: Skip.
SkipAccountSpec ==
  /\ \E p \in {"query", "init"} : SpecEnd(p, "skipped")
  /\ UNCHANGED excused

\* What a spec does between its clients and its verifier; that of "storage" is to
\* deploy the workload of module TestWorkload, and for the rest like a request.
AfterInit(s) ==
  CASE s \in {"iam", "key"} -> "prefix" [] s \in {"tags", "ebs"} -> "tag" [] OTHER -> "verify"

\* Mutant: the clients are made for the region of the environment.
InitAWSClientsConfigured ==
  /\ SpecGoto("init", AfterInit(acctCur))
  /\ clients' = (IF account.home THEN "cluster" ELSE "configured")
  /\ UNCHANGED <<region, tag, acctHist>>

InitAWSClients ==
  /\ SpecGoto("init", AfterInit(acctCur))
  /\ clients' = region /\ UNCHANGED <<region, tag, acctHist>>

ResolveOperatorRolePrefix ==
  SpecGoto("prefix", "verify") /\ UNCHANGED <<region, clients, tag, acctHist>>

\* clusterTag: the cluster ID, on Classic the infra ID.
ResolveTag ==
  /\ SpecGoto("tag", "verify") /\ tag' = TRUE
  /\ UNCHANGED <<region, clients, acctHist>>

\* The topology of a Classic cluster cannot be looked up and IsClassic is false.
ResolveTagUnsure ==
  /\ account.lookup /\ SpecGoto("tag", "verify")
  /\ excused' = excused \cup {acctCur}
  /\ UNCHANGED <<region, clients, tag, set, ahead>>

\* Any request of a spec fails.
SpecFails ==
  /\ \E p \in {"query", "prefix", "tag", "verify"} : SpecEnd(p, "failed")
  /\ excused' = excused \cup {acctCur}

-----------------------------------------------------------------------------
(* The verifiers.                                                          *)

\* DescribeVolumes with the filter tag:kubernetes.io/cluster/<tag>=owned
Described ==
  IF clients = "cluster" /\ tag THEN {v \in account.volumes : v.tagged} ELSE {}

\* Mutant: no volumes, nothing to complain of.
VolumesTaggedOrNone == TRUE

\* VerifyEBSVolumesTags: the tag that is expected is the one of the filter.
VolumesTagged == Described # {} /\ \A v \in Described : v.tagged

\* Mutant: the key is looked at only where there is one.
VolumesWithKey == Described # {} /\ \A v \in Described : v.root => v.key # "other"

\* VerifyEBSVolumesEncrypted
VolumesEncrypted ==
  Described # {} /\ \A v \in Described : v.key # "none" /\ (v.root => v.key = "cluster")

\* VerifyKMSKeyHealthy: strings.Contains(policy, operatorRolePrefix)
KeyHealthy == account.key \in {"good", "namesake"}

\* VerifyEBSVolumeEncryptedWithKey: in another region there is no such volume.
PVEncrypted == clients = "cluster" /\ account.pv

\* VerifyNoAccessDenied in the region of the client.
NoAccessDenied == ~(clients = "cluster" /\ account.denied)

Verdict ==
  CASE acctCur = "iam" -> NoAccessDenied
    [] acctCur = "tags" -> VolumesTagged
    [] acctCur = "ebs" -> VolumesEncrypted
    [] acctCur = "key" -> KeyHealthy
    [] acctCur = "storage" -> PVEncrypted

Verify ==
  /\ SpecEnd("verify", IF Verdict THEN "passed" ELSE "failed")
  /\ UNCHANGED excused

AccountNext ==
  \/ AccountBegin \/ \E s \in AccountSpecs : TakeSpec(s)
  \/ QueryCluster \/ SkipAccountSpec \/ InitAWSClients \/ ResolveOperatorRolePrefix
  \/ ResolveTag \/ ResolveTagUnsure \/ SpecFails \/ Verify

AccountSpec == AccountInit /\ [][AccountNext]_acctVars

-----------------------------------------------------------------------------
(* Properties                                                              *)

\* The spec looked at another region than the cluster's: AWS_REGION is another one
\* and no KMS spec came before.
Astray(s) == ~account.home /\ s \in ahead

TaggedVolumes == {v \in account.volumes : v.tagged}

\* "should have zero AccessDenied events in CloudTrail" passes over a denial only
\* when it was astray; whether it was depends on the order Ginkgo drew.
DenialsMissedOnlyAstray ==
  outcome["iam"] = "passed" /\ account.denied => Astray("iam")

\* The tags spec passes exactly when it finds a volume with the tag: volumes without
\* it are never seen.  It fails on a cluster that has one only when it was astray or
\* a request failed.
TagsVerdict ==
  /\ outcome["tags"] = "passed" => TaggedVolumes # {} /\ ~Astray("tags")
  /\ outcome["tags"] = "failed" =>
       TaggedVolumes = {} \/ Astray("tags") \/ "tags" \in excused

\* The KMS specs are never astray, whatever ran before them: they pass exactly when
\* the key, all tagged volumes (only those attached as root volumes need the cluster's
\* key) and the provisioned volume are as they should be, or a request failed.
EncryptionVerdict ==
  LET fine == /\ TaggedVolumes # {}
              /\ \A v \in TaggedVolumes : v.key = "cluster" \/ (v.key = "other" /\ ~v.root)
  IN  /\ outcome["ebs"] = "passed" => fine
      /\ outcome["ebs"] = "failed" => ~fine \/ "ebs" \in excused
      /\ outcome["key"] = "passed" => account.key # "bad"
      /\ outcome["key"] = "failed" => account.key = "bad" \/ "key" \in excused
      /\ outcome["storage"] = "passed" => account.pv
      /\ outcome["storage"] = "failed" => ~account.pv \/ "storage" \in excused

\* The verdicts on the AWS account are right in whatever order the specs run, but
\* for a spec that is astray and for volumes that do not bear the tag.
AccountVerdicts == DenialsMissedOnlyAstray /\ TagsVerdict /\ EncryptionVerdict
=============================================================================
