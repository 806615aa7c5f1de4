----------------------------- MODULE MCVerifiers -----------------------------
(* The instance of Verifiers that TLC checks.                              *)
EXTENDS Verifiers

\* A denial that counts, the known one (named by the caller and by the issuer of the
\* session), the known action of another role, and events the verifier skips.
Denial == [complete |-> TRUE, matches |-> TRUE, denial |-> TRUE,
           action |-> "other", arn |-> "other", issuer |-> "none"]

MCEvents ==
  {Denial,
   [Denial EXCEPT !.action = "DeleteListener", !.arn = "Installer-Role"],
   [Denial EXCEPT !.action = "DeleteListener", !.arn = "none", !.issuer = "Installer-Role"],
   [Denial EXCEPT !.action = "DeleteListener"],
   [Denial EXCEPT !.complete = FALSE],
   [Denial EXCEPT !.matches = FALSE],
   [Denial EXCEPT !.denial = FALSE]}

Volume(t, r, k) == [tagged |-> t, root |-> r, key |-> k]
Root == Volume(TRUE, TRUE, "cluster")

\* A sound root volume alone, with each kind of volume beside it, and clusters of
\* which no volume is found.
MCFleets ==
  {{}, {Volume(FALSE, TRUE, "cluster")}, {Root}}
    \cup {{Root, v} : v \in {Volume(TRUE, TRUE, "other"), Volume(TRUE, FALSE, "other"),
                             Volume(TRUE, FALSE, "none"), Volume(FALSE, FALSE, "none")}}

\* One thing that is not as it should be, or nothing, wherever the region, the lookup of
\* the topology and a denial come in.
Sound == [home |-> FALSE, lookup |-> FALSE, denied |-> FALSE, pv |-> TRUE, key |-> "good",
          volumes |-> {Root}]

MCAccounts ==
  {[a EXCEPT !.home = h, !.lookup = l, !.denied = d] :
     h \in BOOLEAN, l \in BOOLEAN, d \in BOOLEAN,
     a \in {[Sound EXCEPT !.volumes = f] : f \in MCFleets}
            \cup {[Sound EXCEPT !.key = k] : k \in Keys} \cup {[Sound EXCEPT !.pv = FALSE]}}
=============================================================================
