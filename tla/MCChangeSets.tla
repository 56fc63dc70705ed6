----------------------------- MODULE MCChangeSets -----------------------------
(* Instances of ChangeSets for TLC. *)
EXTENDS ChangeSets, TLC

CONSTANTS c1, c2, k1, k2, k3, b1, b2, b3

\* Two bundles declare the same version.
DeclaredVersions == (b1 :> "1.0.0") @@ (b2 :> "1.1.0") @@ (b3 :> "1.1.0")

Symmetry == Permutations({c1, c2}) \cup Permutations({k1, k2, k3})
===============================================================================
