--------------------------- MODULE MCProvisioning ---------------------------
(* Up to two runs in one account, with a directory each.                   *)
EXTENDS Provisioning

CONSTANTS a, b, d1, d2

OwnDir == [r \in Runs |-> IF r = a THEN d1 ELSE d2]

\* One of two runs reuses its name.
OneAgain == [r \in Runs |-> IF r = a THEN 1 ELSE 2]

Twice == [r \in Runs |-> 2]
=============================================================================
