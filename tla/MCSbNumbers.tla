-------------------------------- MODULE MCSbNumbers -------------------------------
(***************************************************************************)
(* The arithmetic of field elements in words, or the arithmetic of points  *)
(* that rests on it: a behavior applies an operation of the one or         *)
(* performs a task of the other.                                           *)
(*                                                                         *)
(* Field elements: three words of two bits, bytes of one bit, and three    *)
(* primes of six bits: one that is 1 mod 4, two that are 3 mod 4.          *)
(* Points: two curves of prime order below their prime, as the library's   *)
(* are.  "a3": y^2 = x^3 - 3x + 25 modulo 31, order 23, five bits, with    *)
(* points of x = 0, as P-256.  "a0": y^2 = x^3 + 7 modulo 79, order 67,    *)
(* seven bits, without, as secp256k1.                                      *)
(***************************************************************************)
EXTENDS SbPoint, SbField, TLC

Field(p, f1, f2) ==
  LET Fe(n) == [i \in Places |-> (n \div Base ^ i) % Base]
  IN  [p |-> Fe(p), bits |-> FE_BITS,
       p_mp |-> CHOOSE w \in 0 .. Base - 1 : (w * p) % Base = Base - 1,
       r_mod_p |-> Fe(2 ^ FE_BITS % p), r2_mod_p |-> Fe(2 ^ (2 * FE_BITS) % p),
       p_minus_two_f1 |-> Fe(f1), p_minus_two_f2 |-> Fe(f2)]

MCFields == {Field(37, 5, 7), Field(47, 5, 9), Field(59, 3, 19)}

Prime(p, bits) ==
  LET R == 2 ^ bits
      rinv == CHOOSE i \in 1 .. p - 1 : (i * R) % p = 1
      Invr(a) == CHOOSE i \in 1 .. p - 1 : (i * a) % p = (R * R) % p
  IN  [p |-> p, rinv |-> rinv, r_mod_p |-> R % p, r2_mod_p |-> (R * R) % p,
       invr |-> [a \in 1 .. p |-> IF a = p THEN p ELSE Invr(a)]]

(* The affine group law; zero is <<>>. *)
Sum(P1, P2, a, p) ==
  LET Over(num, den) == CHOOSE i \in 0 .. p - 1 : (i * den - num) % p = 0
  IN  IF P1 = <<>> THEN P2
      ELSE IF P2 = <<>> THEN P1
      ELSE IF P1[1] = P2[1] /\ (P1[2] + P2[2]) % p = 0 THEN <<>>
      ELSE LET l == IF P1 = P2 THEN Over(3 * P1[1] * P1[1] + a, 2 * P1[2])
                    ELSE Over(P2[2] - P1[2], P2[1] - P1[1])
               X == (l * l - P1[1] - P2[1]) % p
           IN  <<X, (l * (P1[1] - X) - P1[2]) % p>>

Curve(bits, p, n, a, b, G) ==
  LET fp == Prime(p, bits)
      mult[j \in 0 .. n - 1] == IF j = 0 THEN <<>> ELSE Sum(mult[j - 1], G, a, p)
      h == CHOOSE i \in 1 .. n - 1 : (i * (2 ^ (bits + 1) - 1)) % n = 1
      zero == {j \in 1 .. n - 1 : mult[j][1] = 0 /\ mult[j][2] % 2 = 0}
  IN  [bits |-> bits, p |-> fp, n |-> Prime(n, bits), minus_a |-> Q(-a, fp), b |-> b,
       minus_a_r_over_three |-> Q((-a \div 3) * fp.r_mod_p, fp),
       g_r |-> Mont(G, fp), h_r |-> Mont(mult[h], fp), g_h_r |-> Mont(mult[(h + 1) % n], fp),
       dz_r |-> IF zero = {} THEN <<1, 1>>
                ELSE Mont(mult[(2 * (CHOOSE j \in zero : TRUE)) % n], fp),
       multiples |-> mult]

A3 == Curve(5, 31, 23, -3, 25, <<9, 13>>)
A0 == Curve(7, 79, 67, 0, 7, <<1, 18>>)
MCCurves == [a3 |-> A3, a0 |-> A0]

Kind(kind, curve) == [kind : {kind}, curve : {curve}]
With(tasks, more) == {t @@ r : t \in tasks, r \in more}

Multiplications ==
  With(Kind("multiply", "a3"), [point : 1 .. 22, k : 1 .. 22, z : {1, 2, 19, 30}])
  \union With(Kind("multiply", "a0"), [point : {1, 2, 65}, k : 1 .. 66, z : {5, 78}])

Sign ==
  With(Kind("sign", "a3"), [point : 1 .. 22, k : 1 .. 22, message : {1, 4, 22, 23}, z : {7}])
  \union With(Kind("sign", "a0"), [point : {66}, k : 1 .. 66, message : {9, 67}, z : {1}])

(* r and s at and beyond the ends of their range, too. *)
Verify ==
  With(Kind("verify", "a3"),
       [point : 1 .. 22, r : 1 .. 22, s : {1, 2, 7, 22}, message : {1, 12, 23}, z : {7}]
       \union [point : {3, 14}, r : {0, 5, 22, 23, 31}, s : {0, 11, 23, 31},
               message : {8, 31}, z : {7}])
  \union With(Kind("verify", "a0"),
             [point : {1, 2, 7, 35, 48, 65}, r : 1 .. 66, s : {1, 40}, message : {3, 67}, z : {70}])

Checks ==
  With(Kind("validate", "a3"), [x : 0 .. 31, y : 0 .. 31])
  \union With(Kind("decompress", "a3"), [x : 0 .. 31, sign : 0 .. 1])
  \union With(Kind("decompress", "a0"), [x : 0 .. 127, sign : 0 .. 1])
  \union With(Kind("z", "a3"), [buf : [1 .. 2 -> {0, 1, 30, 31}]])
  \union With(Kind("k", "a3"), [buf : [1 .. 2 -> {0, 1, 21, 22, 23, 31}], fips186_4 : BOOLEAN])

MCTasks == Multiplications \union Sign \union Verify \union Checks

--------------------------------------------------------------------------------

NoTask == [kind |-> "none"]
MCInit ==
  \/ /\ Init
     /\ field = <<>> /\ fe_x = <<>> /\ fe_y = <<>> /\ did = "nothing" /\ out = <<>>
  \/ /\ FieldInit
     /\ task = NoTask /\ c = Blank /\ answer = [stage |-> "none", ok |-> FALSE]

MCNext ==
  \/ Next /\ UNCHANGED operation
  \/ task = NoTask /\ FieldNext /\ UNCHANGED vars

MCSpec == MCInit /\ [][MCNext]_<<vars, operation>>
================================================================================
