----------------------------- MODULE SbCompression -----------------------------
(***************************************************************************)
(* The compression function of SHA256, round by round, with words of any   *)
(* width.  The standard's schedule and variables go along with it.         *)
(***************************************************************************)
EXTENDS Integers, Sequences

CONSTANTS
  Bits,   \* of a word
  XOR(_, _), AND(_, _), OR(_, _), \* of words, bit by bit
  K,      \* the 64 round constants
  Blocks  \* inputs: <<ihash, words>>

VARIABLES
  ihash,    \* the intermediate hash
  block,    \* the words of the block
  rounds,   \* made; 65 after the last addition
  working,  \* the words kept of the schedule, and the working variables
  standard  \* what the standard has after as many rounds

compression == <<ihash, block, rounds, working, standard>>

--------------------------------------------------------------------------------
Word == 0 .. 2 ^ Bits - 1
Plus(x, y) == (x + y) % 2 ^ Bits
SHR(n, x) == x \div 2 ^ n
ROTR(n, x) ==
  LET m == n % Bits IN SHR(m, x) + (x % 2 ^ m) * 2 ^ (Bits - m)

BSIG0(x) == XOR(XOR(ROTR(2, x), ROTR(13, x)), ROTR(22, x))
BSIG1(x) == XOR(XOR(ROTR(6, x), ROTR(11, x)), ROTR(25, x))
SSIG0(x) == XOR(XOR(ROTR(7, x), ROTR(18, x)), SHR(3, x))
SSIG1(x) == XOR(XOR(ROTR(17, x), ROTR(19, x)), SHR(10, x))
CH(x, y, z) == XOR(z, AND(x, XOR(y, z)))
MAJ(x, y, z) == OR(AND(x, y), AND(z, OR(x, y)))

(* Mutant of Round: the window of W is a word late. *)
RoundShifted(s, t, M) ==
  LET W(i) == s.W[(15 - i + t) % 16]
      Wt == IF t < 16 THEN M[t + 1] ELSE Plus(Plus(SSIG1(W(2)), W(7)), Plus(SSIG0(W(15)), W(16)))
      A(i) == (i + 64 - t) % 8
      T1 == Plus(Plus(Plus(s.a_h[A(7)], BSIG1(s.a_h[A(4)])),
                      CH(s.a_h[A(4)], s.a_h[A(5)], s.a_h[A(6)])), Plus(K[t + 1], Wt))
      T2 == Plus(BSIG0(s.a_h[A(0)]), MAJ(s.a_h[A(0)], s.a_h[A(1)], s.a_h[A(2)]))
  IN  [W |-> [s.W EXCEPT ![t % 16] = Wt],
       a_h |-> [s.a_h EXCEPT ![A(3)] = Plus(@, T1), ![A(7)] = Plus(T1, T2)]]

(* W holds the last sixteen words of the schedule, a_h the eight working   *)
(* variables; both are read through an index that moves with t.            *)
Round(s, t, M) ==
  LET W(i) == s.W[(16 - i + t) % 16]
      Wt == IF t < 16 THEN M[t + 1] ELSE Plus(Plus(SSIG1(W(2)), W(7)), Plus(SSIG0(W(15)), W(16)))
      A(i) == (i + 64 - t) % 8
      T1 == Plus(Plus(Plus(s.a_h[A(7)], BSIG1(s.a_h[A(4)])),
                      CH(s.a_h[A(4)], s.a_h[A(5)], s.a_h[A(6)])), Plus(K[t + 1], Wt))
      T2 == Plus(BSIG0(s.a_h[A(0)]), MAJ(s.a_h[A(0)], s.a_h[A(1)], s.a_h[A(2)]))
  IN  [W |-> [s.W EXCEPT ![t % 16] = Wt],
       a_h |-> [s.a_h EXCEPT ![A(3)] = Plus(@, T1), ![A(7)] = Plus(T1, T2)]]

(* Reference: the schedule grows by a word, the variables a to h move on.  *)
RefRound(s, r, M) ==
  LET W == s.W
      v == s.variables
      Wt == IF r <= 16 THEN M[r]
            ELSE Plus(Plus(SSIG1(W[r - 2]), W[r - 7]), Plus(SSIG0(W[r - 15]), W[r - 16]))
      T1 == Plus(Plus(Plus(v[8], BSIG1(v[5])), CH(v[5], v[6], v[7])), Plus(K[r], Wt))
      T2 == Plus(BSIG0(v[1]), MAJ(v[1], v[2], v[3]))
  IN  [W |-> Append(W, Wt),
       variables |-> <<Plus(T1, T2), v[1], v[2], v[3], Plus(v[4], T1), v[5], v[6], v[7]>>]

--------------------------------------------------------------------------------
CompressionInit ==
  /\ \E b \in Blocks : ihash = b[1] /\ block = b[2]
  /\ rounds = 0
  /\ working = [W |-> [i \in 0 .. 15 |-> 0], a_h |-> [i \in 0 .. 7 |-> ihash[i + 1]]]
  /\ standard = [W |-> <<>>, variables |-> ihash]

CompressRound ==
  /\ rounds < 64
  /\ rounds' = rounds + 1
  /\ working' = Round(working, rounds, block)
  /\ standard' = RefRound(standard, rounds + 1, block)
  /\ UNCHANGED <<ihash, block>>

(* The new intermediate hash. *)
AddUp ==
  LET Sum(x) == [i \in 1 .. 8 |-> Plus(ihash[i], x[i])]
  IN  /\ rounds = 64
      /\ rounds' = 65
      /\ ihash' = Sum([i \in 1 .. 8 |-> working.a_h[i - 1]])
      /\ standard' = [standard EXCEPT !.variables = Sum(@)]
      /\ UNCHANGED <<block, working>>

CompressionNext == CompressRound \/ AddUp

CompressionSpec == CompressionInit /\ [][CompressionNext]_compression

(* The windows the code turns by an index hold, after every round, the     *)
(* last words of the standard's schedule and its eight variables, and what *)
(* is added up in the end is in its place.                                 *)
CompressionFollowsStandard ==
  /\ rounds <= 64 =>
       \A i \in 0 .. 7 : working.a_h[(i + 64 - rounds) % 8] = standard.variables[i + 1]
  /\ \A i \in 1 .. Len(standard.W) :
       i > Len(standard.W) - 16 => working.W[(i - 1) % 16] = standard.W[i]
  /\ rounds = 65 => ihash = standard.variables
================================================================================
