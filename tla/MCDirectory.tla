---------------------------- MODULE MCDirectory ----------------------------
(* Small instances of Directory for TLC. *)
EXTENDS Directory, TLC

CONSTANTS u1, u2, g1, g2

(* User ids are interchangeable, and so are group ids. *)
IdSymmetry == Permutations(UserIds) \union Permutations(GroupIds)

OneRelease  == {Perms}
(* An old release, and a later one that declares one more permission. *)
TwoReleases == {{UserEdit}, Perms}

(* What the actions read: all but the updates and the answer of the last   *)
(* step, which the properties read in the step itself.                     *)
Stored == <<tables, setup, boot, skipping>>
=============================================================================
