------------------------------ MODULE MCSignatures ------------------------------
(***************************************************************************)
(* Two curves of prime order below P: one with A = 0 as secp256k1, one     *)
(* with A = -3 as secp256r1.  On both there are points with x = N or more, *)
(* and x - N belongs to a point for some of them only.  The hashes: small, *)
(* large, multiples of either N, on both sides of the sign bit.            *)
(***************************************************************************)
EXTENDS Signatures

MCApp == [P |-> 43, N |-> 31, A |-> 0, B |-> 29, G |-> <<3, 20>>]
MCStore == [P |-> 59, N |-> 53, A |-> 56, B |-> 37, G |-> <<1, 25>>]
MCHashes == {0, 1, 7, 30, 31, 32, 53, 62, 63}
================================================================================
