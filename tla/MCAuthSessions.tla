---------------------------- MODULE MCAuthSessions ----------------------------
(* Small instances of AuthSessions for TLC. *)
EXTENDS AuthSessions, TLC

CONSTANTS u1, u2, r1, r2, s1

(* Ids and request slots are interchangeable. *)
Symmetry == Permutations({u1, u2}) \cup Permutations({r1, r2})
=============================================================================
