------------------------- MODULE FailureDiagnostics -------------------------
(***************************************************************************)
(* WriteMCFailureDiagnostics (pkg/reporting/mc_diagnostics.go): when a     *)
(* management-cluster spec fails, four reads, each with a deadline of its  *)
(* own inside a common one, fill a snapshot; the snapshot is cut down to a *)
(* size limit and written to a file.  Every read leaves a word on how      *)
(* complete its part is.                                                   *)
(*                                                                         *)
(* Listed objects are counted, not described: one object of a kind takes   *)
(* ItemBytes of the output.  The HostedCluster is one object whose         *)
(* conditions are counted.                                                 *)
(***************************************************************************)
EXTENDS Naturals

CONSTANTS
  DiagnosticLimit,    \* diagnosticLimit
  DiagnosticMaxBytes, \* diagnosticMaxBytes
  MaxItems,           \* bound: objects of a kind that exist
  ItemBytes,          \* bytes of one object of a kind in the output
  BaseBytes           \* bytes of the output without objects and statuses

Kinds == {"deployments", "replicaSets", "pods"}
Resources == Kinds \cup {"hostedCluster"}

ASSUME DiagnosticsAssumption ==
  /\ DiagnosticLimit \in Nat \ {0} /\ MaxItems \in Nat \ {0}
  /\ DiagnosticMaxBytes \in Nat /\ BaseBytes \in Nat
  /\ ItemBytes \in [Resources -> Nat \ {0}]

VARIABLES
  usable,   \* the clients are there and the namespaces were resolved
  pc,       \* the read, or the step after the reads, that comes next
  expired,  \* the common deadline has passed
  held,     \* how many objects a read found on the cluster
  deep,     \* resources with an object that has more conditions or containers
            \* than are copied
  got,      \* how many objects of each resource are in the snapshot
  word,     \* ReadStatus
  file,     \* the file in ARTIFACT_DIR/mc-failure-diagnostics
  result,   \* what the function returned
  stuck     \* history: os.Remove failed

vars == <<usable, pc, expired, held, deep, got, word, file, result, stuck>>

Failures == {"timeout", "access-denied", "read-failed"}
Words == Failures \cup {"complete", "truncated"}

TypeOK ==
  /\ usable \in BOOLEAN
  /\ pc \in Resources \cup {"start", "fit", "open", "write", "done"}
  /\ expired \in BOOLEAN
  /\ held \in [Resources -> 0 .. MaxItems]
  /\ deep \subseteq Resources
  /\ got \in [Resources -> 0 .. DiagnosticLimit]
  /\ word \in [Resources -> Words \cup {"none"}]
  /\ file \in {"none", "created", "written"}
  /\ result \in {"none", "nil", "error"}
  /\ stuck \in BOOLEAN

Init ==
  /\ usable \in BOOLEAN
  /\ pc = "start" /\ expired = FALSE
  /\ held = [k \in Resources |-> 0] /\ deep = {}
  /\ got = [k \in Resources |-> 0]
  /\ word = [k \in Resources |-> "none"]
  /\ file = "none" /\ result = "none" /\ stuck = FALSE

Least(m, n) == IF m < n THEN m ELSE n

-----------------------------------------------------------------------------
(* The reads, in their order.                                              *)

After == [k \in Resources |->
            CASE k = "deployments" -> "replicaSets" [] k = "replicaSets" -> "pods"
              [] k = "pods" -> "hostedCluster"      [] OTHER -> "fit"]

Fail ==
  /\ pc' = "done" /\ result' = "error"
  /\ UNCHANGED <<usable, expired, held, deep, got, word, file, stuck>>

Start ==
  /\ pc = "start"
  /\ \/ usable /\ pc' = "deployments"
        /\ UNCHANGED <<usable, expired, held, deep, got, word, file, result, stuck>>
     \/ ~usable /\ Fail

\* Mutant: all that the server returns is kept.
ListUncut(k) ==
  /\ pc = k /\ k \in Kinds /\ ~expired
  /\ \E n \in 0 .. MaxItems :
       /\ held' = [held EXCEPT ![k] = n]
       /\ got' = [got EXCEPT ![k] = n]
       /\ word' = [word EXCEPT ![k] = IF n > DiagnosticLimit THEN "truncated" ELSE "complete"]
  /\ pc' = After[k]
  /\ UNCHANGED <<usable, expired, deep, file, result, stuck>>

\* Mutant: the continue token is not looked at.
ListByCount(k) ==
  /\ pc = k /\ k \in Kinds /\ ~expired
  /\ \E n \in 0 .. MaxItems, d \in {{}, {k}} : \E m \in 0 .. Least(n, DiagnosticLimit) :
       /\ held' = [held EXCEPT ![k] = n]
       /\ deep' = deep \cup (IF m > 0 /\ k # "replicaSets" THEN d ELSE {})
       /\ got' = [got EXCEPT ![k] = m]
       /\ word' = [word EXCEPT ![k] =
                     IF n > DiagnosticLimit \/ k \in deep' THEN "truncated" ELSE "complete"]
  /\ pc' = After[k]
  /\ UNCHANGED <<usable, expired, file, result, stuck>>

\* A list of n objects is answered: at most DiagnosticLimit are kept, fewer when
\* the server returns a shorter page and a continue token.
List(k) ==
  /\ pc = k /\ k \in Kinds /\ ~expired
  /\ \E n \in 0 .. MaxItems, d \in {{}, {k}} : \E m \in 0 .. Least(n, DiagnosticLimit) :
       /\ held' = [held EXCEPT ![k] = n]
       /\ deep' = deep \cup (IF m > 0 /\ k # "replicaSets" THEN d ELSE {})
       /\ got' = [got EXCEPT ![k] = m]
       /\ word' = [word EXCEPT ![k] =
                     IF m < n \/ k \in deep' THEN "truncated" ELSE "complete"]
  /\ pc' = After[k]
  /\ UNCHANGED <<usable, expired, file, result, stuck>>

\* The HostedCluster is read; its conditions may not be a list, which is found
\* when its identity is in the snapshot already.
GetHostedCluster ==
  /\ pc = "hostedCluster" /\ ~expired
  /\ held' = [held EXCEPT !["hostedCluster"] = 1]
  /\ got' = [got EXCEPT !["hostedCluster"] = 1]
  /\ \E w \in {"complete", "truncated", "read-failed"} :
       /\ word' = [word EXCEPT !["hostedCluster"] = w]
       /\ deep' = IF w = "truncated" THEN deep \cup {"hostedCluster"} ELSE deep
  /\ pc' = After[pc]
  /\ UNCHANGED <<usable, expired, file, result, stuck>>

\* A read fails: its own three seconds or the common twelve are over, access is
\* denied, or anything else.  The next read is made all the same.
ReadFails(k) ==
  /\ pc = k /\ k \in Resources
  /\ \E w \in IF expired THEN {"timeout"} ELSE Failures : word' = [word EXCEPT ![k] = w]
  /\ pc' = After[k]
  /\ UNCHANGED <<usable, expired, held, deep, got, file, result, stuck>>

-----------------------------------------------------------------------------
(* Fitting the snapshot into the limit and writing it.                     *)

WordBytes(w) == CASE w = "complete" -> 8 [] w = "truncated" -> 9 [] w = "timeout" -> 7
                  [] w = "access-denied" -> 13 [] w = "read-failed" -> 11 [] OTHER -> 0

Bytes(k) == got[k] * ItemBytes[k] + WordBytes(word[k])

\* len(output)
Output == BaseBytes + Bytes("deployments") + Bytes("replicaSets")
            + Bytes("pods") + Bytes("hostedCluster")

\* Mutant: the newline that is written after the output is not counted.
TooLargeWithoutNewline == Output > DiagnosticMaxBytes

TooLarge == Output + 1 > DiagnosticMaxBytes

Drop(k) ==
  /\ got' = [got EXCEPT ![k] = @ - 1]
  /\ word' = [word EXCEPT ![k] = "truncated"]

\* Mutant: pods that were never read are called truncated.
ShrinkUnguarded ==
  /\ pc = "fit" /\ TooLarge
  /\ \/ got["pods"] > 0 /\ Drop("pods")
     \/ got["pods"] = 0 /\ got["replicaSets"] > 0
        /\ got' = [got EXCEPT !["replicaSets"] = @ - 1]
        /\ word' = [word EXCEPT !["replicaSets"] = "truncated", !["pods"] = "truncated"]
     \/ got["pods"] = 0 /\ got["replicaSets"] = 0 /\ got["deployments"] > 0
        /\ Drop("deployments")
  /\ UNCHANGED <<usable, pc, expired, held, deep, file, result, stuck>>

\* The last pod goes, then the last ReplicaSet, then the last Deployment.
Shrink ==
  /\ pc = "fit" /\ TooLarge
  /\ \/ got["pods"] > 0 /\ Drop("pods")
     \/ got["pods"] = 0 /\ got["replicaSets"] > 0 /\ Drop("replicaSets")
     \/ got["pods"] = 0 /\ got["replicaSets"] = 0 /\ got["deployments"] > 0
        /\ Drop("deployments")
  /\ UNCHANGED <<usable, pc, expired, held, deep, file, result, stuck>>

\* Mutant: the loop has no default case.
GiveUpNever ==
  /\ pc = "fit" /\ TooLarge /\ \A k \in Kinds : got[k] = 0
  /\ UNCHANGED vars

\* The HostedCluster alone is too large.
GiveUp ==
  /\ pc = "fit" /\ TooLarge /\ \A k \in Kinds : got[k] = 0
  /\ Fail

Fits ==
  /\ pc = "fit" /\ ~TooLarge
  /\ pc' = "open"
  /\ UNCHANGED <<usable, expired, held, deep, got, word, file, result, stuck>>

\* MkdirAll and CreateTemp
Open ==
  /\ pc = "open"
  /\ \/ pc' = "write" /\ file' = "created"
        /\ UNCHANGED <<usable, expired, held, deep, got, word, result, stuck>>
     \/ Fail

\* Mutant: a failed write leaves the file.
WriteDiagnosticFileLeaves ==
  /\ pc = "write" /\ pc' = "done"
  /\ \/ file' = "written" /\ result' = "nil"
     \/ UNCHANGED file /\ result' = "error"
  /\ UNCHANGED <<usable, expired, held, deep, got, word, stuck>>

\* writeDiagnosticFile: write, chmod and close are all made; when one of them
\* failed the file is removed, and whether that worked is not looked at.
WriteDiagnosticFile ==
  /\ pc = "write" /\ pc' = "done"
  /\ \/ file' = "written" /\ result' = "nil" /\ UNCHANGED stuck
     \/ result' = "error" /\ \/ file' = "none" /\ UNCHANGED stuck
                             \/ stuck' = TRUE /\ UNCHANGED file
  /\ UNCHANGED <<usable, expired, held, deep, got, word>>

Expire ==
  /\ pc \in Resources /\ ~expired /\ expired' = TRUE
  /\ UNCHANGED <<usable, pc, held, deep, got, word, file, result, stuck>>

Code ==
  \/ Start \/ GetHostedCluster \/ (\E k \in Resources : List(k) \/ ReadFails(k))
  \/ Shrink \/ GiveUp \/ Fits \/ Open \/ WriteDiagnosticFile

Next == Code \/ Expire

Spec == Init /\ [][Next]_vars

\* The deadlines end a read that hangs, so every step of the function ends.
FairSpec == Spec /\ WF_vars(Code)

-----------------------------------------------------------------------------
(* Properties                                                              *)

\* What a written snapshot calls complete is complete: all objects that existed
\* when they were read are there with all that is copied of them, whatever the
\* page size, the conditions and the size limit have cut.
CompleteMeansAll ==
  result = "nil" =>
    \A k \in Resources : word[k] = "complete" => got[k] = held[k] /\ k \notin deep

\* A failed read stays a failed read: cutting the snapshot to size does not
\* turn a timeout or a refusal into "truncated", so an empty part of a written
\* snapshot that is not called a failure was really read.
FailuresStayVisible ==
  [][\A k \in Resources : word[k] \in Failures => word'[k] = word[k]]_vars

\* A file is never larger than the limit, its last newline included.
FitsTheLimit == file = "written" => Output + 1 <= DiagnosticMaxBytes

\* An error leaves no half-written file behind, unless it cannot be removed.
NoPartialFile == result = "error" /\ ~stuck => file = "none"

\* The cleanup that writes the diagnostics ends and cannot hold up the suite.
Ends == <>(pc = "done")
=============================================================================
