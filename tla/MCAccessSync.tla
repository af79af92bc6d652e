---------------------------- MODULE MCAccessSync ----------------------------
(***************************************************************************)
(* Instances of AccessSync for TLC.  The families of operations a run      *)
(* interleaves are chosen here; transactions are interchangeable.          *)
(***************************************************************************)
EXTENDS AccessSync, TLC

(* Everything that changes roles, with the account operations that do not    *)
(* touch the profile or disable the account.                                *)
AccessFamily ==
    {"GrantAccess", "RevokeAccess", "RevokeProjectAccess", "SetProjectRoles",
     "ApproveRequest", "GrantProjectAdmin", "RequestAccess",
     "ActivateAccount", "ChangePassword"}

(* Everything that locks the account row. *)
AccountFamily ==
    {"UpdateProfile", "UpdateLegacyProfile", "DisableAccount",
     "ActivateAccount", "GrantGlobalAdmin", "ResetPassword", "ChangePassword"}

(* One of each: operations that lock the account, the access row, the       *)
(* request and the journal in different orders, and the bootstrap.          *)
MixedFamily ==
    {"GrantAccess", "ApproveRequest", "RequestAccess", "DisableAccount",
     "ActivateAccount", "GrantGlobalAdmin", "EnsureBootstrap"}

Member == {"member"}

Everywhere == [r \in Rows |-> Member]
Nowhere == [r \in Rows |-> NoAccess]

TxSymmetry == Permutations(Txs)
=============================================================================
