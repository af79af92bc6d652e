------------------------------ MODULE MCStartup ------------------------------
(***************************************************************************)
(* Instance of Startup, and of SigningKeys in it, for TLC.  No symmetry:   *)
(* the run checks liveness.                                                *)
(***************************************************************************)
EXTENDS Startup
=============================================================================
