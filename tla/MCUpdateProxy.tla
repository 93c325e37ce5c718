-------------------------- MODULE MCUpdateProxy --------------------------
(* Small instances of UpdateProxy for TLC. *)
EXTENDS UpdateProxy

CONSTANTS s1, s2, s3, u1, u2

(* Two sessions of u1, one of u2. *)
Owners == [s \in Sessions |-> IF s = s3 THEN u2 ELSE u1]
(* The users in different shards of the outer map, or in one. *)
UsersApart    == [x \in Users |-> IF x = u1 THEN 1 ELSE 2]
UsersTogether == [x \in Users |-> 1]
(* The sessions of u1 in different shards of their map, or in one. *)
SessionsApart    == [s \in Sessions |-> IF s = s2 THEN 2 ELSE 1]
SessionsTogether == [s \in Sessions |-> 1]
=============================================================================
