-------------------------- MODULE MCRefreshTokens --------------------------
(***************************************************************************)
(* Instances of RefreshTokens for TLC.  Tokens and request slots are        *)
(* interchangeable.                                                        *)
(***************************************************************************)
EXTENDS RefreshTokens, TLC

CONSTANT TheProject

OneProject == [c \in Clients |-> TheProject]

TokenSymmetry == Permutations(Tokens) \cup Permutations(Requests)

(* The clients of one project are interchangeable too. *)
ClientSymmetry == TokenSymmetry \cup Permutations(Clients)
=============================================================================
