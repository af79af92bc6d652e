----------------------------- MODULE MCAccounts -----------------------------
(***************************************************************************)
(* Instances of Accounts for TLC.  Passwords, links, sessions and request  *)
(* slots are interchangeable.                                              *)
(***************************************************************************)
EXTENDS Accounts, TLC

AccountSymmetry == Permutations(Secrets) \cup Permutations(Links)
                     \cup Permutations(Sessions) \cup Permutations(Requests)
=============================================================================
