---------------------------- MODULE MCContentStore ----------------------------
(* Instances of ContentStore for TLC. *)
EXTENDS ContentStore, TLC

CONSTANTS c1, c2, d1, d2

\* Web requests are interchangeable: nothing orders or names them.
Symmetry == Permutations({c1, c2})
===============================================================================
