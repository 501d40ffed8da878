------------------------------ MODULE MCBgSync ------------------------------
(***************************************************************************)
(* BgSync for TLC.                                                         *)
(***************************************************************************)
EXTENDS BgSync
=============================================================================
