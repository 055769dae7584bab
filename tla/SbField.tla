--------------------------------- MODULE SbField ---------------------------------
(***************************************************************************)
(* Field elements of the C library: numbers of FE_BITS bits kept in words, *)
(* the arithmetic on them with carries, and the arithmetic modulo a prime, *)
(* whose results are quasi-reduced: in 1 .. p, zero kept as p.  The        *)
(* constant-time choices and masks are what they choose.                   *)
(* A loop over words is a recursive function of the place it has come to.  *)
(* A behavior takes two elements and applies one operation to them.        *)
(***************************************************************************)
EXTENDS Integers, Sequences

CONSTANTS
  WORD_BITS,  \* SB_WORD_BITS
  FE_WORDS,   \* SB_FE_WORDS
  BYTE_BITS,  \* of a byte: it divides WORD_BITS
  Fields      \* sb_prime_field_t: p, p_mp, r_mod_p, r2_mod_p, the two factors of p - 2, bits

FE_BITS == WORD_BITS * FE_WORDS

(* 2 ^ n *)
Two[n \in 0 .. FE_BITS] == IF n = 0 THEN 1 ELSE 2 * Two[n - 1]

PER_WORD == WORD_BITS \div BYTE_BITS
BYTES == FE_WORDS * PER_WORD  \* SB_ELEM_BYTES
Base == Two[WORD_BITS]
Radix == Two[FE_BITS]
Places == 0 .. FE_WORDS - 1
Element == [Places -> 0 .. Base - 1]

(* The number in the lowest words, so many of them, and in all. *)
Lowest(a) ==
  LET sum[i \in 0 .. FE_WORDS] ==
        IF i = 0 THEN 0 ELSE sum[i - 1] + a[i - 1] * Two[WORD_BITS * (i - 1)]
  IN  sum
Value(a) == Lowest(a)[FE_WORDS]

(* b ^ n modulo m, for n at most max *)
Powers(b, m, max) ==
  LET power[n \in 0 .. max] == IF n = 0 THEN 1 ELSE (power[n - 1] * b) % m IN power

(* p is a prime of FE_BITS bits: what follows from that by Fermat's little *)
(* theorem, and the numbers kept with it. *)
FieldAssumption ==
  /\ WORD_BITS \in Nat \ {0, 1} /\ FE_WORDS \in Nat \ {0}
  /\ BYTE_BITS \in Nat \ {0} /\ WORD_BITS % BYTE_BITS = 0
  /\ \A f \in Fields :
       /\ {f.p, f.r_mod_p, f.r2_mod_p, f.p_minus_two_f1, f.p_minus_two_f2} \subseteq Element
       /\ 2 * Value(f.p) > Radix /\ Value(f.p) + 1 < Radix /\ f.bits = FE_BITS
       /\ f.p_mp \in 0 .. Base - 1 /\ (f.p[0] * f.p_mp) % Base = Base - 1
       /\ Value(f.r_mod_p) = Radix % Value(f.p)
       /\ Value(f.r2_mod_p) > 0 /\ Value(f.r2_mod_p) = (Radix * Radix) % Value(f.p)
       /\ Value(f.p_minus_two_f1) * Value(f.p_minus_two_f2) = Value(f.p) - 2
       /\ \A b \in 1 .. Value(f.p) - 1 : Powers(b, Value(f.p), Value(f.p))[Value(f.p) - 1] = 1
ASSUME FieldAssumption

VARIABLES
  field, fe_x, fe_y, \* operands
  did,               \* the operation applied, or the order of bytes
  out                \* its result: an element, and a bit or bytes where it has them

operation == <<field, fe_x, fe_y, did, out>>

--------------------------------------------------------------------------------
(* Words.                                                                  *)

SB_FE_ZERO == [i \in Places |-> 0]
SB_FE_ONE == [i \in Places |-> IF i = 0 THEN 1 ELSE 0]

(* left + w * right + carry for a word w, from the lowest place: a double  *)
(* word, its low word kept and its high word handed on. *)
sb_mult_add_add(left, w, right, first) ==
  LET carry[i \in 0 .. FE_WORDS] ==
        IF i = 0 THEN first
        ELSE ((left[i - 1] + w * right[i - 1] + carry[i - 1]) \div Base) % Base
  IN  [fe |-> [i \in Places |-> (left[i] + w * right[i] + carry[i]) % Base],
       carry |-> carry[FE_WORDS]]

sb_fe_add(left, right) == sb_mult_add_add(left, 1, right, 0)

(* left - right - borrow: the high word of the difference is all ones if   *)
(* it is negative. *)
sb_fe_sub_borrow(left, right, first) ==
  LET Double(i, b) == (left[i] - (right[i] + b)) % (Base * Base)
      borrow[i \in 0 .. FE_WORDS] ==
        IF i = 0 THEN first ELSE (-(Double(i - 1, borrow[i - 1]) \div Base)) % Base
  IN  [fe |-> [i \in Places |-> Double(i, borrow[i]) % Base], carry |-> borrow[FE_WORDS]]

sb_fe_sub(left, right) == sb_fe_sub_borrow(left, right, 0)
sb_fe_lt(left, right) == sb_fe_sub_borrow(left, right, 0).carry = 1

sb_fe_equal(left, right) == \A i \in Places : left[i] = right[i]
sb_fe_test_bit(a, bit) == (a[bit \div WORD_BITS] \div Two[bit % WORD_BITS]) % 2

sb_fe_cond_sub_p(dest, c1, p) == IF c1 THEN sb_fe_sub_borrow(dest, p, 0).fe ELSE dest
sb_fe_cond_add_p_1(dest, c1, p) == sb_mult_add_add(dest, IF c1 THEN 1 ELSE 0, p, 1).fe

(* From the highest word: the bits shifted out go into the next. *)
sb_fe_rshift_w(a, bits) ==
  [i \in Places |->
     a[i] \div Two[bits]
       + (IF i = FE_WORDS - 1 THEN 0 ELSE (a[i + 1] * Two[WORD_BITS - bits]) % Base)]

(* Bytes, most significant first (big) or last (little). *)
Ordered(bytes, e) ==
  IF e = "little" THEN [k \in 1 .. BYTES |-> bytes[BYTES + 1 - k]] ELSE bytes

(* The number in count bytes after the first ones. *)
Read(bytes, first, count) ==
  LET number[j \in 0 .. count] ==
        IF j = 0 THEN 0 ELSE number[j - 1] * Two[BYTE_BITS] + bytes[first + j]
  IN  number[count]

sb_fe_from_bytes(src, e) ==
  [i \in Places |-> Read(Ordered(src, e), (FE_WORDS - 1 - i) * PER_WORD, PER_WORD)]

sb_fe_to_bytes(src, e) ==
  LET Byte(k) == \* the k-th of all, the j-th of word i
        LET i == FE_WORDS - 1 - (k \div PER_WORD)
            j == k % PER_WORD
        IN  (src[i] \div Two[WORD_BITS - (j + 1) * BYTE_BITS]) % Two[BYTE_BITS]
  IN  Ordered([k \in 1 .. BYTES |-> Byte(k - 1)], e)

--------------------------------------------------------------------------------
(* Modulo f.p.                                                             *)

sb_fe_qr(dest, carry, f) ==
  sb_fe_cond_sub_p(dest, carry = 1 \/ sb_fe_lt(f.p, dest), f.p)

sb_fe_mod_sub(left, right, f) ==
  LET s == sb_fe_sub_borrow(left, right, 1)
  IN  sb_fe_cond_add_p_1(s.fe, s.carry = 1, f.p)

sb_fe_mod_reduce(dest, f) ==
  LET s == sb_fe_add(dest, SB_FE_ONE)
  IN  sb_fe_mod_sub(sb_fe_qr(s.fe, s.carry, f), SB_FE_ONE, f)

sb_fe_mod_reduce_full(dest, f) == sb_fe_cond_sub_p(dest, ~sb_fe_lt(dest, f.p), f.p)

sb_fe_mod_negate(left, f) == sb_fe_mod_sub(f.p, left, f)

sb_fe_mod_add(left, right, f) ==
  LET s == sb_fe_add(left, right) IN sb_fe_qr(s.fe, s.carry, f)

sb_fe_mod_double(left, f) == sb_fe_mod_add(left, left, f)

sb_fe_mod_halve(left, f) ==
  IF sb_fe_test_bit(left, 0) = 0 THEN sb_fe_rshift_w(left, 1)
  ELSE sb_fe_sub(f.p, sb_fe_rshift_w(sb_fe_sub(f.p, left).fe, 1)).fe

(* A round of Montgomery's multiplication: A + w * b, then what makes its  *)
(* lowest word zero is added, and that word dropped. *)
DropWord(hw, sum) ==
  LET top == hw + sum.carry
  IN  [A |-> [j \in Places |-> IF j = FE_WORDS - 1 THEN top % Base ELSE sum.fe[j + 1]],
       hw |-> top \div Base]
ReduceWord(hw, sum, f) ==
  DropWord(hw + sum.carry, sb_mult_add_add(sum.fe, (sum.fe[0] * f.p_mp) % Base, f.p, 0))

(* Mutant of MultiplyWord: the carry out of the highest word is dropped. *)
withoutCarry(acc, w, b, f) == ReduceWord(0, sb_mult_add_add(acc.A, w, b, 0), f)

MultiplyWord(acc, w, b, f) == ReduceWord(acc.hw, sb_mult_add_add(acc.A, w, b, 0), f)

Rounds(a, b, f) ==
  LET round[i \in 0 .. FE_WORDS] ==
        IF i = 0 THEN [A |-> SB_FE_ZERO, hw |-> 0]
        ELSE MultiplyWord(round[i - 1], a[i - 1], b, f)
  IN  round[FE_WORDS]

sb_fe_mont_mult(a, b, f) ==
  LET product == Rounds(a, b, f) IN sb_fe_qr(product.A, product.hw, f)

sb_fe_mont_square(left, f) == sb_fe_mont_mult(left, left, f)
sb_fe_mont_reduce(left, f) == sb_fe_mont_mult(left, SB_FE_ONE, f)
sb_fe_mont_convert(left, f) == sb_fe_mont_mult(left, f.r2_mod_p, f)

(* x to e >> shift: squares from the first bit that is set. *)
Times(bit, square, x, f) == IF bit = 1 THEN sb_fe_mont_mult(square, x, f) ELSE square
Power(acc, bit, f) ==
  IF ~acc.by /\ bit = 0 THEN acc
  ELSE [acc EXCEPT !.by = TRUE, !.t2 = Times(bit, sb_fe_mont_square(@, f), acc.x, f)]
sb_fe_mod_expt_r(x, e, shift, f) ==
  LET power[k \in 0 .. f.bits - shift] ==
        IF k = 0 THEN [by |-> FALSE, t2 |-> f.r_mod_p, x |-> x]
        ELSE Power(power[k - 1], sb_fe_test_bit(e, f.bits - k), f)
  IN  power[f.bits - shift].t2

sb_fe_mod_inv_r(dest, f) ==
  sb_fe_mod_expt_r(sb_fe_mod_expt_r(dest, f.p_minus_two_f1, 0, f), f.p_minus_two_f2, 0, f)

(* The square root, and whether it is one; if p is not 3 mod 4, nothing is computed. *)
CheckedRoot(root, r, f) ==
  [fe |-> root, ok |-> sb_fe_equal(sb_fe_mont_square(root, f), r)]
sb_fe_mod_sqrt_r(r, f) ==
  IF f.p[0] % 4 # 3 THEN [fe |-> r, ok |-> FALSE]
  ELSE CheckedRoot(sb_fe_mod_expt_r(r, sb_fe_add(f.p, SB_FE_ONE).fe, 2, f), r, f)
sb_fe_mod_sqrt(dest, f) ==
  LET root == sb_fe_mod_sqrt_r(sb_fe_mont_convert(dest, f), f)
  IN  [root EXCEPT !.fe = sb_fe_mont_reduce(@, f)]

--------------------------------------------------------------------------------

Reduced(a) == Value(a) \in 1 .. Value(field.p)

FieldInit ==
  /\ field \in Fields /\ fe_x \in Element /\ fe_y \in Element
  /\ did = "nothing" /\ out = <<>>

Gives(op, result) ==
  /\ did = "nothing" /\ did' = op /\ out' = result
  /\ UNCHANGED <<field, fe_x, fe_y>>

Compare ==
  Gives("compare", [equal |-> sb_fe_equal(fe_x, fe_y), lt |-> sb_fe_lt(fe_x, fe_y),
                    bits |-> [i \in 0 .. FE_BITS - 1 |-> sb_fe_test_bit(fe_x, i)]])
AddWords == Gives("add", sb_fe_add(fe_x, fe_y))
SubtractWords ==
  \/ Gives("subtract", sb_fe_sub(fe_x, fe_y))
  \/ Gives("subtract one more", sb_fe_sub_borrow(fe_x, fe_y, 1))
ToBytes == \E e \in {"big", "little"} :
  LET bytes == sb_fe_to_bytes(fe_x, e)
  IN  fe_y = fe_x /\ Gives(e, [bytes |-> bytes, back |-> sb_fe_from_bytes(bytes, e)])

Alone == fe_y = fe_x /\ Reduced(fe_x)
Both == Reduced(fe_x) /\ Reduced(fe_y)
Reduce == fe_y = fe_x /\ Gives("reduce", sb_fe_mod_reduce(fe_x, field))
ReduceFull == Alone /\ Gives("reduce full", sb_fe_mod_reduce_full(fe_x, field))
ModAdd == Both /\ Gives("mod add", sb_fe_mod_add(fe_x, fe_y, field))
ModDouble == Alone /\ Gives("mod double", sb_fe_mod_double(fe_x, field))
ModSubtract == Both /\ Gives("mod subtract", sb_fe_mod_sub(fe_x, fe_y, field))
Negate == Alone /\ Gives("negate", sb_fe_mod_negate(fe_x, field))
Halve == Alone /\ Gives("halve", sb_fe_mod_halve(fe_x, field))

MultiplyWords == Both /\ Gives("multiply", sb_fe_mont_mult(fe_x, fe_y, field))
Convert == Alone /\ Gives("convert", sb_fe_mont_convert(fe_x, field))
Invert == Alone /\ Gives("invert", sb_fe_mod_inv_r(fe_x, field))
Root == Alone /\ Gives("root", sb_fe_mod_sqrt(fe_x, field))

FieldNext ==
  \/ Compare \/ AddWords \/ SubtractWords \/ ToBytes
  \/ Reduce \/ ReduceFull \/ ModAdd \/ ModDouble \/ ModSubtract \/ Negate \/ Halve
  \/ MultiplyWords \/ Convert \/ Invert \/ Root

FieldSpec == FieldInit /\ [][FieldNext]_operation

--------------------------------------------------------------------------------
(* Reference: numbers.                                                     *)

(* Quasi-reduced, and n modulo the prime. *)
Is(a, n, p) == Value(a) \in 1 .. p /\ Value(a) % p = n % p

(* Numbers are compared, added and subtracted across the words as numbers  *)
(* are, with the carry and the borrow out of the highest word; bytes of    *)
(* either order are the number's.                                          *)
WordsAreNumbers ==
  LET X == Value(fe_x)
      Y == Value(fe_y)
  IN  CASE did = "compare" ->
             /\ out.equal = (X = Y) /\ out.lt = (X < Y)
             /\ \A i \in 0 .. FE_BITS - 1 : out.bits[i] = (X \div Two[i]) % 2
        [] did = "add" -> Value(out.fe) + out.carry * Radix = X + Y
        [] did = "subtract" -> Value(out.fe) - out.carry * Radix = X - Y
        [] did = "subtract one more" -> Value(out.fe) - out.carry * Radix = X - Y - 1
        [] did \in {"big", "little"} ->
             out.back = fe_x /\ Read(Ordered(out.bytes, did), 0, BYTES) = X
        [] OTHER -> TRUE

(* Addition, subtraction, negation, halving and reduction modulo the prime *)
(* are right for every pair of operands, and never leave the range whose   *)
(* zero is the prime.                                                      *)
ReducesModularly ==
  LET X == Value(fe_x)
      Y == Value(fe_y)
      p == Value(field.p)
  IN  CASE did = "reduce" -> Is(out, X, p)
        [] did = "reduce full" -> Value(out) = X % p
        [] did = "mod add" -> Is(out, X + Y, p)
        [] did = "mod double" -> Is(out, 2 * X, p)
        [] did = "mod subtract" -> Is(out, X - Y, p)
        [] did = "negate" -> Is(out, -X, p)
        [] did = "halve" -> Value(out) \in 1 .. p /\ (2 * Value(out)) % p = X % p
        [] OTHER -> TRUE

(* Montgomery multiplication, with its carry between rounds, divides by    *)
(* 2 ^ FE_BITS; what it is used for follows: conversion, the inverse by    *)
(* two exponents, the square root, refused where there is none.            *)
MontgomeryMultiplies ==
  LET X == Value(fe_x)
      Y == Value(fe_y)
      p == Value(field.p)
  IN  CASE did = "multiply" -> Value(out) \in 1 .. p /\ (Value(out) * Radix) % p = (X * Y) % p
        [] did = "convert" -> Is(out, X * Radix, p)
        [] did = "invert" ->
             IF X = p THEN Value(out) = p
             ELSE Value(out) \in 1 .. p /\ (Value(out) * X) % p = (Radix * Radix) % p
        [] did = "root" ->
             /\ Value(out.fe) \in 1 .. p
             /\ out.ok <=> p % 4 = 3 /\ \E s \in 1 .. p : (s * s) % p = X % p
             /\ out.ok => (Value(out.fe) * Value(out.fe)) % p = X % p
        [] OTHER -> TRUE

(* Whatever an operation on field elements is given that its callers give  *)
(* it, on words with carries and borrows it computes what it does on       *)
(* numbers, reduced as its callers rely on: conditional subtractions,      *)
(* shifts and inversions, and products in Montgomery form.                 *)
FieldComputes == WordsAreNumbers /\ ReducesModularly /\ MontgomeryMultiplies
================================================================================
