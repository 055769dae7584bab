-------------------------------- MODULE MCSbHash --------------------------------
(***************************************************************************)
(* A behavior is one of SbHash, or a compression of a block.  Blocks of    *)
(* four bytes with two bytes of length, so that the length does not fit    *)
(* behind some messages; totals that wrap at twelve.  Words of 16 bits,    *)
(* with constants that differ from round to round.                         *)
(***************************************************************************)
EXTENDS SbHash, SbCompression, Bitwise

VARIABLE part

Words(seed, n) == [i \in 1 .. n |-> (seed * 7919 + i * i * 40503 + i * 977) % 2 ^ Bits]
MCXor(a, b) == a ^^ b
MCAnd(a, b) == a & b
MCOr(a, b) == a | b
MCK == Words(3, 64)
MCBlocks ==
  {<<Words(s, 8), Words(t, 16)>> : s \in 1 .. 3, t \in 4 .. 7}
    \cup {<<[i \in 1 .. 8 |-> 0], [i \in 1 .. 16 |-> 2 ^ Bits - 1]>>}

MCInit ==
  /\ Init /\ CompressionInit
  /\ \/ part = "stream" /\ <<ihash, block>> = (CHOOSE b \in Blocks : TRUE)
     \/ part = "block" /\ use = "hash"

MCNext ==
  \/ part = "stream" /\ Next /\ UNCHANGED <<compression, part>>
  \/ part = "block" /\ CompressionNext /\ UNCHANGED <<vars, part>>

MCSpec == MCInit /\ [][MCNext]_<<vars, compression, part>>
================================================================================
