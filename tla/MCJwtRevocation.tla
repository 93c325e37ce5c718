------------------------- MODULE MCJwtRevocation -------------------------
(* Small instances of JwtRevocation for TLC. *)
EXTENDS JwtRevocation, TLC

CONSTANTS r1, r2

RequestSymmetry == Permutations(Requests)
=============================================================================
