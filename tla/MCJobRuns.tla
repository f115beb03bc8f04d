------------------------------ MODULE MCJobRuns ------------------------------
(* Small instances of JobRuns for TLC. *)
EXTENDS JobRunsProperties, TLC

CONSTANTS r1, r2, w1

(* Two request slots are interchangeable. *)
Symmetry == Permutations({r1, r2})
=============================================================================
