----------------------------- MODULE MCJobEvents -----------------------------
(* A small instance of JobEvents for TLC. *)
EXTENDS JobEvents, TLC

CONSTANTS r1, r2, w1

(* Two request slots are interchangeable. *)
Symmetry == Permutations({r1, r2})
=============================================================================
