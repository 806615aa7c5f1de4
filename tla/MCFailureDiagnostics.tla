------------------------ MODULE MCFailureDiagnostics ------------------------
(* Small objects, the HostedCluster larger than the others.                *)
EXTENDS FailureDiagnostics

SmallItems == [k \in Resources |-> IF k = "hostedCluster" THEN 9 ELSE 4]
=============================================================================
