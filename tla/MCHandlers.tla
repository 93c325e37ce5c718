---------------------------- MODULE MCHandlers ----------------------------
(* Small instances of Handlers for TLC: two requests at once, of few       *)
(* operations each.                                                        *)
EXTENDS Handlers, TLC

CONSTANTS u1, u2, g1, g2, r1, r2

IdSymmetry == Permutations(UserIds) \union Permutations(GroupIds)
RequestSymmetry == IdSymmetry \union Permutations(Requests)

OneRelease == {Perms}

Both(ops) == [r \in Requests |-> ops]

(* What takes rows away, against what adds memberships. *)
DeletesAndInserts ==
    r1 :> {"complete_setup", "create_group", "delete_user", "delete_group"}
      @@ r2 :> {"oidc_callback", "edit_user", "edit_group"}

Deletions == Both({"complete_setup", "delete_user"})
Logins    == Both({"oidc_callback"})
=============================================================================
