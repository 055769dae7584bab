----------------------------- MODULE MCV8Execution -----------------------------
(***************************************************************************)
(* Two runs that share the pool of Networking: one with a request and an   *)
(* attestation, one with a request.                                        *)
(***************************************************************************)
EXTENDS V8Execution, TLC

CONSTANTS j1, j2, get, third, attest

RunOfDef == (get :> j1) @@ (third :> j2) @@ (attest :> j1)
================================================================================
