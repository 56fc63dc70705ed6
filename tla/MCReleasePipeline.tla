--------------------------- MODULE MCReleasePipeline ---------------------------
(* Small instances of ReleasePipeline for TLC. *)
EXTENDS ReleasePipeline, TLC

\* Requests are interchangeable; releases are not, because
\* NoRequest names one of them.
FlowSymmetry == Permutations(Clients)
================================================================================
