------------------------ MODULE MCSerialHandlers ------------------------
(* A small instance of SerialHandlers for TLC. *)
EXTENDS SerialHandlers, TLC

CONSTANTS u1, u2, g1, g2

IdSymmetry == Permutations(UserIds) \union Permutations(GroupIds)

OneRelease == {Perms}

Everything ==
    [r \in Requests |->
        {"complete_setup", "oidc_callback", "create_user", "delete_user", "edit_user",
         "create_group", "delete_group", "edit_group"}]
=============================================================================
