----------------------------- MODULE MCDelivery -----------------------------
(***************************************************************************)
(* Instances of Delivery for TLC.  Users are numbered in the order of      *)
(* their ids.  No symmetry: the run checks liveness.                       *)
(***************************************************************************)
EXTENDS Delivery

CONSTANTS TheRole

SomeHaveAccess ==
    [r \in Users \X Projects |->
       IF r[2] = Project /\ r[1] < 3 THEN [roles |-> TheRole, profile |-> Profile]
       ELSE None]
=============================================================================
