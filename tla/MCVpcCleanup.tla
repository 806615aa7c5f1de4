---------------------------- MODULE MCVpcCleanup ----------------------------
(* Small VPCs for TLC: one interface in the only subnet.                   *)
EXTENDS VpcCleanup

CONSTANTS e1, g1, g2, dflt, s1

OneSubnetOf == [e \in ENIs |-> s1]
OneGroupOf == [e \in ENIs |-> g1]

\* Two groups referencing each other.
CycleRules == {<<"ingress", g1, g2>>, <<"egress", g2, g1>>}

\* The default group references another group.
DefaultRules == {<<"ingress", dflt, g1>>}
=============================================================================
