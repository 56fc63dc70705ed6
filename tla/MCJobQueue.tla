------------------------------ MODULE MCJobQueue ------------------------------
(* Small instances of JobQueue for TLC. *)
EXTENDS JobQueue, TLC

\* Workers are interchangeable: nothing orders or names them.
WorkerSymmetry == Permutations(Workers)
===============================================================================
