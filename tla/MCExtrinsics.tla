------------------------------ MODULE MCExtrinsics ------------------------------
(***************************************************************************)
(* A job that can be read, before one that cannot.                         *)
(***************************************************************************)
EXTENDS Extrinsics
CONSTANTS j1, j2
BadSecond == <<j1, j2>>
================================================================================
