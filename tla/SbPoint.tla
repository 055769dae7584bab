--------------------------------- MODULE SbPoint ---------------------------------
(***************************************************************************)
(* Curve arithmetic of the C library, on curves small enough to compare    *)
(* with the group itself: the ladder, the two-scalar multiplication of     *)
(* verification, signing, and the checks of points, scalars and candidates. *)
(* Each is started and then continued a few iterations at a time, with all *)
(* it needs kept in the context.                                           *)
(***************************************************************************)
EXTENDS Integers, Sequences

CONSTANTS
  Curves,              \* sb_sw_curve_t: see the record in the MC module
  POINT_ITERATIONS,    \* SB_SW_POINT_ITERATIONS
  Tasks                \* what is asked of which curve

TwoTo[n \in Nat] == IF n = 0 THEN 1 ELSE 2 * TwoTo[n - 1]
Q(a, m) == ((a - 1) % m.p) + 1
Square(a, m) == \E r \in 1 .. m.p : (r * r) % m.p = a % m.p

(* A prime and what goes with it.  A field m: p, rinv (of R modulo p),     *)
(* r_mod_p, r2_mod_p and invr, the inverses of numbers in the Montgomery   *)
(* domain; p goes to p.                                                    *)
IsField(m, bits) ==
  LET R == TwoTo[bits]
  IN  /\ m.p \in Nat /\ m.p % 2 = 1 /\ TwoTo[bits - 1] + 1 < m.p /\ m.p < R
      /\ m.rinv \in Nat /\ (m.rinv * R) % m.p = 1
      /\ m.r_mod_p = R % m.p /\ m.r2_mod_p = (R * R) % m.p
      /\ m.invr \in [1 .. m.p -> 1 .. m.p] /\ m.invr[m.p] = m.p
      /\ \A a \in 1 .. m.p - 1 : (m.invr[a] * a) % m.p = (R * R) % m.p

(* The points of a curve are a group of prime order n: multiples has those *)
(* of the generator, each point once, and zero as <<>>.  Sums are told by  *)
(* chords and tangents, without division.                                  *)
OnCurve(P, s) ==
  (P[1] * P[1] * P[1] - s.minus_a * P[1] + s.b - P[2] * P[2]) % s.p.p = 0

(* On a line of that rise and run through P and P2; P3 is their sum.       *)
IsSum(P3, P, P2, rise, run, p) ==
  /\ ((P3[1] + P[1] + P2[1]) * run * run - rise * rise) % p = 0
  /\ ((P3[2] + P[2]) * run - rise * (P[1] - P3[1])) % p = 0

IsGroup(s) ==
  LET n == s.n.p
      p == s.p.p
      M == s.multiples
      Affines == (0 .. p - 1) \X (0 .. p - 1)
  IN  /\ DOMAIN M = 0 .. n - 1
      /\ \A j \in 1 .. n - 1 : M[j] \in Affines /\ OnCurve(M[j], s)
      /\ \A P \in Affines : OnCurve(P, s) => \E j \in 1 .. n - 1 : M[j] = P
      /\ \A i, j \in 1 .. n - 1 :
           /\ M[i] = M[j] => i = j
           /\ i + j = n => M[j] = <<M[i][1], (-M[i][2]) % p>>
           /\ i # j /\ i + j # n =>
                IsSum(M[(i + j) % n], M[i], M[j], M[j][2] - M[i][2], M[j][1] - M[i][1], p)
           /\ i = j => IsSum(M[(i + j) % n], M[i], M[i],
                             3 * M[i][1] * M[i][1] - s.minus_a, 2 * M[i][2], p)

(* Coordinates times R. *)
Mont(P, m) == <<Q(P[1] * m.r_mod_p, m), Q(P[2] * m.r_mod_p, m)>>

(* What the header and its constants have: no G with x = 0, H is G over    *)
(* 2^(bits + 1) - 1, and dz_r twice the point of x = 0 and even y, if there *)
(* is one.  p is 3 mod 4, so that a number or its opposite is a square.    *)
IsCurve(s) ==
  LET M == s.multiples
      n == s.n.p
      p == s.p.p
  IN  /\ s.bits \in Nat \ {0} /\ IsField(s.p, s.bits) /\ IsField(s.n, s.bits)
      /\ n < p /\ \A a \in 1 .. p - 1 : Square(a, s.p) \/ Square(p - a, s.p)
      /\ s.minus_a \in Nat /\ s.b \in 0 .. p
      /\ s.minus_a_r_over_three \in 1 .. p
      /\ (3 * s.minus_a_r_over_three - s.minus_a * s.p.r_mod_p) % p = 0
      /\ IsGroup(s)
      /\ s.g_r = Mont(M[1], s.p) /\ M[1][1] # 0
      /\ \E h \in 1 .. n - 1 : /\ (h * (2 * TwoTo[s.bits] - 1)) % n = 1
                               /\ s.h_r = Mont(M[h], s.p) /\ s.g_h_r = Mont(M[(h + 1) % n], s.p)
      /\ s.dz_r \in (1 .. p) \X (1 .. p)
      /\ \A j \in 1 .. n - 1 : M[j][1] = 0 /\ M[j][2] % 2 = 0 => s.dz_r = Mont(M[(2 * j) % n], s.p)

ASSUME PointAssumption ==
  /\ POINT_ITERATIONS \in Nat \ {0}
  /\ \A i \in DOMAIN Curves : IsCurve(Curves[i])

(* What may be asked: the callers have checked points, private keys and    *)
(* nonces; the rest is whatever the words hold.                            *)
IsTask(t, s) ==
  LET n == s.n.p
      Words == 0 .. TwoTo[s.bits] - 1
  IN  CASE t.kind = "multiply" -> t.point \in 1 .. n - 1 /\ t.k \in 1 .. n - 1 /\ t.z \in 1 .. s.p.p - 1
        [] t.kind = "sign" -> /\ t.point \in 1 .. n - 1 /\ t.k \in 1 .. n - 1
                              /\ t.message \in Words /\ t.z \in 1 .. s.p.p - 1
        [] t.kind = "verify" -> /\ t.point \in 1 .. n - 1 /\ t.z \in 1 .. s.p.p - 1
                                /\ t.r \in Words /\ t.s \in Words /\ t.message \in Words
        [] t.kind = "validate" -> t.x \in Words /\ t.y \in Words
        [] t.kind = "decompress" -> t.x \in Words /\ t.sign \in 0 .. 1
        [] t.kind = "z" -> t.buf \in Seq(Words) /\ t.buf # <<>>
        [] t.kind = "k" -> t.buf \in Seq(Words) /\ t.buf # <<>> /\ t.fips186_4 \in BOOLEAN

ASSUME TasksAssumption ==
  \A t \in Tasks :
    /\ t.kind \in {"multiply", "sign", "verify", "validate", "decompress", "z", "k"}
    /\ t.curve \in DOMAIN Curves /\ IsTask(t, Curves[t.curve])

VARIABLES
  task,   \* what was asked
  c,      \* sb_sw_context_t
  answer  \* of the last call: error, bit, whether the operation is done

vars == <<task, c, answer>>

--------------------------------------------------------------------------------
(* Field elements: as SbField shows the operations to be, quasi-reduced.   *)

mod_reduce(a, m) == Q(a, m)
mod_add(a, b, m) == Q(a + b, m)
mod_sub(a, b, m) == Q(a - b, m)
mod_double(a, m) == Q(2 * a, m)
mod_negate(a, m) == Q(-a, m)
mod_halve(a, m) == IF a % 2 = 0 THEN a \div 2 ELSE m.p - (m.p - a) \div 2
mont_mult(a, b, m) == Q(a * b * m.rinv, m)
mont_square(a, m) == mont_mult(a, a, m)
mont_reduce(a, m) == mont_mult(a, 1, m)
mont_convert(a, m) == mont_mult(a, m.r2_mod_p, m)
mod_inv_r(a, m) == m.invr[a]
test_bit(a, i) == (a \div TwoTo[i]) % 2

(* For p = 3 mod 4: the root that is a square itself, or that of -a. *)
mod_sqrt(a, m) ==
  LET of == IF Square(a, m) THEN a ELSE mod_negate(a, m)
  IN  [root |-> CHOOSE r \in 1 .. m.p : (r * r) % m.p = of % m.p /\ Square(r, m),
       ok |-> Square(a, m)]

--------------------------------------------------------------------------------
(* The context.  saved_state lies over the temporaries, which no call      *)
(* finds as another left them.  Two unions share the places u1 to u4:      *)
(*   u1: sign.message;  verify.common.qr                                   *)
(*   u2: sign.priv;     verify.early.message, then verify.late.kg          *)
(*   u3:                verify.early.qs, then verify.late.pg.x             *)
(*   u4:                verify.late.pg.y                                   *)
(* px, py: mult.point.  k and z: params.                                   *)

Lost == 0

(* Stages: numbered per operation. *)
LADDER == 0
INV_Z == 1
MULT_DONE == 2
SIGN_INV == MULT_DONE
SIGN_DONE == 3
VERIFY_INV_S == 0
VERIFY_INV_Z == 1
VERIFY_LADDER == 2
VERIFY_TEST == 3
VERIFY_DONE == 4

FreshState(operation) ==
  [operation |-> operation, stage |-> 0, i |-> 0,
   inv_k |-> FALSE, k_one |-> FALSE, swap |-> 0, res |-> operation = "verify"]

Saved(x, state) == [x EXCEPT !.state = state, !.t5 = Lost, !.t6 = Lost]

(* Registers 1 and 2 change places. *)
Swapped(x, yes) ==
  IF yes THEN [x EXCEPT !.x1 = x.x2, !.y1 = x.y2, !.x2 = x.x1, !.y2 = x.y1] ELSE x

--------------------------------------------------------------------------------
(* Points in Jacobian coordinates that share their Z.                      *)

(* (x1, y1) = P', (x2, y2) = 2P, t5 = Z *)
sb_sw_point_initial_double(x, s) ==
  LET m == s.p
      thirds == mod_sub(mont_square(x.x2, m), s.minus_a_r_over_three, m)
      B == mod_add(thirds, mod_double(thirds, m), m)
      yy == mod_double(mont_square(x.y2, m), m)
      A == mont_mult(x.x2, mod_double(yy, m), m)
      X2 == mod_sub(mod_sub(mont_square(B, m), A, m), A, m)
      Y1 == mod_double(mont_square(yy, m), m)
  IN  [x EXCEPT !.t5 = mod_double(x.y2, m), !.x1 = A, !.y1 = Y1, !.x2 = X2,
                !.y2 = mod_sub(mont_mult(B, mod_sub(A, X2, m), m), Y1, m)]

(* (x1, y1) = P + Q, (x2, y2) = P', t5 = B + C; t6 = x2 - x1 on entry *)
sb_sw_point_co_z_add_update_zup(x, s) ==
  LET m == s.p
      A == mont_square(x.t6, m)
      C == mont_mult(x.x2, A, m)
      B == mont_mult(x.x1, A, m)
      E == mont_mult(x.y1, mod_sub(C, B, m), m)
      dy == mod_sub(x.y2, x.y1, m)
      X3 == mod_sub(mont_square(dy, m), mod_add(B, C, m), m)
  IN  [x EXCEPT !.t5 = mod_add(B, C, m), !.x1 = X3, !.x2 = B, !.y2 = E,
                !.y1 = mod_sub(mont_mult(dy, mod_sub(B, X3, m), m), E, m)]

sb_sw_point_co_z_add_update(x, s) ==
  sb_sw_point_co_z_add_update_zup([x EXCEPT !.t6 = mod_sub(x.x2, x.x1, s.p)], s)

(* (x1, y1) = P + Q, (x2, y2) = P - Q *)
sb_sw_point_co_z_conj_add(x, s) ==
  LET m == s.p
      sum == mod_add(x.y1, x.y2, m)
      u == sb_sw_point_co_z_add_update(x, s)
      X3 == mod_sub(mont_square(sum, m), u.t5, m)
  IN  [u EXCEPT !.x2 = X3,
                !.y2 = mod_sub(mont_mult(sum, mod_sub(X3, u.x2, m), m), u.y2, m)]

(* Of bits + 1 bits, the highest of which is set and left out. *)
sb_sw_regularize_scalar(k, s) ==
  LET R == TwoTo[s.bits]
  IN  IF k + s.n.p >= R THEN k + s.n.p - R ELSE (k + 2 * s.n.p) % R

(* Mutant of mult_start: a scalar with its highest bit set is not inverted. *)
startUninverted(x, s) ==
  LET m == s.p
      k == x.k
      doubled == sb_sw_point_initial_double([x EXCEPT !.x2 = x.px, !.y2 = x.py], s)
      zz == mont_square(x.z, m)
      zzz == mont_mult(x.z, zz, m)
  IN  Saved([doubled EXCEPT !.k = sb_sw_regularize_scalar(k, s),
               !.x1 = mont_mult(@, zz, m), !.y1 = mont_mult(@, zzz, m),
               !.x2 = mont_mult(@, zz, m), !.y2 = mont_mult(@, zzz, m)],
            [x.state EXCEPT !.k_one = (k = 1), !.i = s.bits - 1, !.stage = LADDER])

sb_sw_point_mult_start(x, s) ==
  LET m == s.p
      (* A point (0, y) is doubled and the scalar halved. *)
      is_zero == x.px = m.p
      zero_sign == test_bit(mont_reduce(x.py, m), 0)
      px == IF is_zero THEN s.dz_r[1] ELSE x.px
      py == IF ~is_zero THEN x.py
            ELSE IF zero_sign = 1 THEN mod_negate(s.dz_r[2], m) ELSE s.dz_r[2]
      half == IF is_zero THEN mod_halve(x.k, s.n) ELSE x.k
      (* -2 and -1 are treated as 2 and 1. *)
      inv_k == test_bit(half, s.bits - 1) = 1
      k == IF inv_k THEN mod_negate(half, s.n) ELSE half
      doubled == sb_sw_point_initial_double([x EXCEPT !.x2 = px, !.y2 = py], s)
      zz == mont_square(x.z, m)
      zzz == mont_mult(x.z, zz, m)
  IN  Saved([doubled EXCEPT !.px = px, !.py = py, !.k = sb_sw_regularize_scalar(k, s),
               !.x1 = mont_mult(@, zz, m), !.y1 = mont_mult(@, zzz, m),
               !.x2 = mont_mult(@, zz, m), !.y2 = mont_mult(@, zzz, m)],
            [x.state EXCEPT !.inv_k = inv_k, !.k_one = (k = 1),
                            !.i = s.bits - 1, !.stage = LADDER])

(* One bit: (x1, y1) = R_b, (x2, y2) = R_{1-b}; swap says which is which. *)
LadderStep(x, s) ==
  LET b == test_bit(x.k, x.state.i)
      ready == Swapped(x, x.state.swap # b)
      added == sb_sw_point_co_z_add_update(sb_sw_point_co_z_conj_add(ready, s), s)
  IN  [added EXCEPT !.state.swap = b, !.state.i = @ - 1]

(* The turns of a call. *)
AtMost(n) == IF n > POINT_ITERATIONS THEN POINT_ITERATIONS ELSE n

Ladder(x, s) ==
  LET after[j \in 0 .. POINT_ITERATIONS] ==
        IF j = 0 THEN x ELSE LadderStep(after[j - 1], s)
      end == after[AtMost(x.state.i)]
      state == end.state
  IN  Saved(end, IF state.i = 0 THEN [state EXCEPT !.stage = INV_Z] ELSE state)

(* The inverse of Z, from the point and the difference of the registers. *)
RecoveredInverse(x, first, m) ==
  LET dx == IF test_bit(x.k, 0) = 1
            THEN mod_sub(first.x2, first.x1, m) ELSE mod_sub(first.x1, first.x2, m)
      t == mont_mult(mont_mult(dx, first.y2, m), x.px, m)
  IN  mont_mult(mont_mult(mod_inv_r(t, m), x.py, m), first.x2, m)

(* Affine coordinates; the exceptional scalars; the scalar as it was. *)
Affine(x, last, zinv, s) ==
  LET m == s.p
      zz == mont_square(zinv, m)
      X == mont_mult(zz, last.x2, m)
      Y == mont_mult(mont_mult(zz, zinv, m), last.y2, m)
      x1 == mont_reduce(IF x.state.k_one THEN mod_add(X, x.px, m) ELSE X, m)
      y1 == mont_reduce(IF x.state.k_one THEN mod_add(Y, x.py, m) ELSE Y, m)
      k == mod_reduce((x.k - s.n.p) % TwoTo[s.bits], s.n)
  IN  Saved([last EXCEPT !.x1 = x1, !.y1 = IF x.state.inv_k THEN mod_negate(y1, m) ELSE y1,
                         !.k = IF x.state.inv_k THEN mod_negate(k, s.n) ELSE k],
            [x.state EXCEPT !.stage = MULT_DONE])

(* The last bit: first and then an update, the registers changed for a 0. *)
LastBit(x, first, s) ==
  Affine(x, Swapped(sb_sw_point_co_z_add_update(first, s), test_bit(x.k, 0) = 0),
         RecoveredInverse(x, first, s.p), s)

InvertZ(x, s) ==
  LastBit(x, sb_sw_point_co_z_conj_add(Swapped(x, x.state.swap # test_bit(x.k, 0)), s), s)

(* Whether it is done, too. *)
sb_sw_point_mult_continue(x, s) ==
  CASE x.state.stage = LADDER -> [c |-> Ladder(x, s), done |-> FALSE]
    [] x.state.stage = INV_Z -> [c |-> InvertZ(x, s), done |-> TRUE]
    [] OTHER -> [c |-> x, done |-> x.state.stage = MULT_DONE]

--------------------------------------------------------------------------------
(* Two scalars: k * P + kg * G.                                            *)

sb_sw_point_mult_add_z_update(x, s) ==
  LET t6 == mod_sub(x.x2, x.x1, s.p)
  IN  sb_sw_point_co_z_add_update_zup([x EXCEPT !.t6 = t6, !.z = mont_mult(t6, x.z, s.p)], s)

sb_sw_point_mult_add_apply_z(x, s) ==
  LET zz == mont_square(x.z, s.p)
  IN  [x EXCEPT !.x2 = mont_mult(x.x2, zz, s.p),
                !.y2 = mont_mult(x.y2, mont_mult(zz, x.z, s.p), s.p)]

(* H, G + H, P + H or P + G + H; P is P + H by now. *)
sb_sw_point_mult_add_select(bp, bg, x, s) ==
  LET chosen == CASE bp = 0 /\ bg = 0 -> s.h_r
             [] bp = 0 /\ bg = 1 -> s.g_h_r
             [] bp = 1 /\ bg = 0 -> <<x.px, x.py>>
             [] bp = 1 /\ bg = 1 -> <<x.u3, x.u4>>
  IN  sb_sw_point_mult_add_apply_z([x EXCEPT !.x2 = chosen[1], !.y2 = chosen[2]], s)

(* P + H and P + G + H in affine coordinates; 2H with the initial Z. *)
AddInvertZ(x, s) ==
  LET m == s.p
      px == mont_convert(x.px, m)
      py == mont_convert(x.py, m)
      PH == sb_sw_point_mult_add_z_update(
              [x EXCEPT !.x1 = px, !.y1 = py, !.x2 = s.h_r[1], !.y2 = s.h_r[2],
                        !.z = m.r_mod_p], s)
      PGH == sb_sw_point_mult_add_z_update(
               sb_sw_point_mult_add_apply_z([PH EXCEPT !.x2 = s.g_r[1], !.y2 = s.g_r[2]], s), s)
      zinv == mod_inv_r(PGH.z, m)
      zz == mont_square(zinv, m)
      zzz == mont_mult(zinv, zz, m)
      H == sb_sw_point_initial_double(
             [PGH EXCEPT !.u2 = (x.u2 - 1) % TwoTo[s.bits],
                         !.px = mont_mult(PGH.x2, zz, m), !.py = mont_mult(PGH.y2, zzz, m),
                         !.u3 = mont_mult(PGH.x1, zz, m), !.u4 = mont_mult(PGH.y1, zzz, m),
                         !.x2 = s.h_r[1], !.y2 = s.h_r[2], !.z = x.z], s)
      start == sb_sw_point_mult_add_apply_z(H, s)
  IN  Saved([start EXCEPT !.z = mont_mult(x.z, H.t5, m), !.x1 = start.x2, !.y1 = start.y2],
            [x.state EXCEPT !.i = s.bits - 1, !.stage = VERIFY_LADDER])

(* i counts down to -1, which the code's unsigned i has as its largest. *)
AddStep(x, s) ==
  LET i == x.state.i
      chosen == sb_sw_point_mult_add_select(test_bit(x.k, i), test_bit(x.u2, i), x, s)
      once == sb_sw_point_mult_add_z_update(chosen, s)
      twice == IF i < s.bits - 1 THEN sb_sw_point_mult_add_z_update(once, s) ELSE once
  IN  [twice EXCEPT !.state.i = @ - 1]

AddLadder(x, s) ==
  LET after[j \in 0 .. POINT_ITERATIONS] ==
        IF j = 0 THEN x ELSE AddStep(after[j - 1], s)
      end == after[AtMost(x.state.i + 1)]
  IN  IF end.state.i >= 0 THEN Saved(end, end.state)
      ELSE Saved([end EXCEPT !.x1 = mont_reduce(@, s.p), !.y1 = mont_reduce(@, s.p)],
                 [end.state EXCEPT !.stage = VERIFY_TEST])

sb_sw_point_mult_add_z_continue(x, s) ==
  CASE x.state.stage = VERIFY_INV_Z -> AddInvertZ(x, s)
    [] x.state.stage = VERIFY_LADDER -> AddLadder(x, s)

--------------------------------------------------------------------------------
(* Checks.                                                                 *)

(* x^3 + a * x + b *)
sb_sw_curve_y2(X, s) ==
  LET t5 == mont_convert(X, s.p)
      t6 == mod_sub(mont_mult(t5, X, s.p), s.minus_a, s.p)
  IN  mod_add(mont_mult(t5, t6, s.p), s.b, s.p)

(* Mutant of point_validate: unreduced coordinates are let through. *)
validateUnreduced(x, s) ==
  LET Y == mod_reduce(x.py, s.p)
      X == mod_reduce(x.px, s.p)
  IN  [c |-> [x EXCEPT !.px = X, !.py = Y],
       ok |-> x.py # 0
              /\ sb_sw_curve_y2(X, s) = mont_convert(mont_square(Y, s.p), s.p)]

(* The context, with the point quasi-reduced, and whether it is valid. *)
sb_sw_point_validate(x, s) ==
  LET Y == mod_reduce(x.py, s.p)
      X == mod_reduce(x.px, s.p)
  IN  [c |-> [x EXCEPT !.px = X, !.py = Y],
       ok |-> /\ x.py # 0 /\ x.px < s.p.p /\ x.py < s.p.p
              /\ sb_sw_curve_y2(X, s) = mont_convert(mont_square(Y, s.p), s.p)]

sb_sw_point_decompress(x, sign, s) ==
  LET X == mod_reduce(x.px, s.p)
      sqrt == mod_sqrt(sb_sw_curve_y2(X, s), s.p)
      Y == IF test_bit(sqrt.root, 0) # sign THEN mod_negate(sqrt.root, s.p) ELSE sqrt.root
  IN  [c |-> [x EXCEPT !.px = X, !.py = Y], ok |-> x.px < s.p.p /\ sqrt.ok]

(* Quasi-reduced, and whether it was reduced and not zero. *)
Checked(a, m) == LET r == mod_reduce(a, m) IN [k |-> r, ok |-> a < m.p /\ r # m.p]
sb_sw_scalar_validate(k, s) == Checked(k, s.n)
sb_sw_z_validate(z, s) == Checked(z, s.p)

(* The first of the candidates that is valid, by swapping in each next one *)
(* while there is none: the element and whether it is valid. *)
Candidate(buf, m) ==
  LET tried[i \in DOMAIN buf] ==
        IF i = 1 THEN Checked(buf[1], m)
        ELSE Checked(IF tried[i - 1].ok THEN tried[i - 1].k ELSE buf[i], m)
  IN  tried[Len(buf)]

sb_sw_z_from_buf(buf, s) == Candidate(buf, s.p)

(* Per FIPS 186-4, one is added to each. *)
sb_sw_k_from_buf(buf, fips186_4, s) ==
  Candidate([i \in DOMAIN buf |-> IF fips186_4 THEN (buf[i] + 1) % TwoTo[s.bits] ELSE buf[i]],
            s.n)

--------------------------------------------------------------------------------
(* Signatures.                                                             *)

sb_sw_sign_start(x, s) ==
  sb_sw_point_mult_start(
    [x EXCEPT !.px = s.g_r[1], !.py = s.g_r[2], !.state = FreshState("sign")], s)

(* Mutant of SignInvert: an x of n or more is not reduced. *)
invertUnreduced(x, s) ==
  LET n == s.n
      kinv == mod_inv_r(mont_convert(x.k, n), n)
      t5 == mod_add(mont_mult(x.x1, mont_convert(x.u2, n), n), x.u1, n)
      ss == mont_mult(t5, kinv, n)
  IN  [c |-> Saved([x EXCEPT !.x2 = x.x1, !.y2 = ss], [x.state EXCEPT !.stage = SIGN_DONE]),
       done |-> TRUE, failed |-> x.x1 = n.p \/ ss = n.p]

(* (r, s) in (x2, y2), unless one of them is zero. *)
SignInvert(x, s) ==
  LET n == s.n
      r == mod_reduce(x.x1, n)
      kinv == mod_inv_r(mont_convert(x.k, n), n)
      t5 == mod_add(mont_mult(r, mont_convert(x.u2, n), n), x.u1, n)
      ss == mont_mult(t5, kinv, n)
  IN  [c |-> Saved([x EXCEPT !.x2 = r, !.y2 = ss], [x.state EXCEPT !.stage = SIGN_DONE]),
       done |-> TRUE, failed |-> r = n.p \/ ss = n.p]

sb_sw_sign_continue(x, s) ==
  CASE x.state.stage = SIGN_DONE -> [c |-> x, done |-> TRUE, failed |-> FALSE]
    [] x.state.stage = SIGN_INV -> SignInvert(x, s)
    [] OTHER -> [c |-> sb_sw_point_mult_continue(x, s).c, done |-> FALSE, failed |-> FALSE]

sb_sw_verify_start(x) == Saved(x, FreshState("verify"))

(* Both scalars, in the place of the message and of k. *)
InvertS(x, s) ==
  LET n == s.n
      r == sb_sw_scalar_validate(x.u1, s)
      qs == sb_sw_scalar_validate(x.u3, s)
      message == mod_reduce(x.u2, n)
      sinv == mod_inv_r(mont_convert(qs.k, n), n)
  IN  Saved([x EXCEPT !.u1 = r.k, !.u3 = qs.k,
                      !.u2 = mont_mult(message, sinv, n), !.k = mont_mult(r.k, sinv, n)],
            [x.state EXCEPT !.res = @ /\ r.ok /\ qs.ok /\ message # n.p,
                            !.stage = VERIFY_INV_Z])

(* Mutant of Test: the values of r that are n less than an x are not tried. *)
testDirectly(x, s) ==
  LET ver == mont_mult(x.u1, mont_square(x.z, s.p), s.p) = x.x1
  IN  Saved(x, [x.state EXCEPT !.res = @ /\ ~(x.x1 = s.p.p /\ x.y1 = s.p.p) /\ ver,
                               !.stage = VERIFY_DONE])

(* r, or r + n if that is below p, times Z^2 is x. *)
Test(x, s) ==
  LET m == s.p
      zz == mont_square(x.z, m)
      Matches(r) == mont_mult(r, zz, m) = x.x1
      ver == \/ Matches(x.u1)
             \/ x.u1 < m.p - s.n.p /\ Matches(mod_add(x.u1, s.n.p, m))
  IN  Saved(x, [x.state EXCEPT !.res = @ /\ ~(x.x1 = m.p /\ x.y1 = m.p) /\ ver,
                               !.stage = VERIFY_DONE])

sb_sw_verify_continue(x, s) ==
  CASE x.state.stage = VERIFY_INV_S -> [c |-> InvertS(x, s), done |-> FALSE]
    [] x.state.stage \in {VERIFY_INV_Z, VERIFY_LADDER} ->
         [c |-> sb_sw_point_mult_add_z_continue(x, s), done |-> FALSE]
    [] x.state.stage = VERIFY_TEST -> [c |-> Test(x, s), done |-> TRUE]
    [] OTHER -> [c |-> x, done |-> x.state.stage = VERIFY_DONE]

--------------------------------------------------------------------------------
(* A task is asked, started and continued until it is done.                *)

TaskCurve == Curves[task.curve]

Blank ==
  [k |-> Lost, z |-> Lost, x1 |-> Lost, y1 |-> Lost, x2 |-> Lost, y2 |-> Lost,
   px |-> Lost, py |-> Lost, u1 |-> Lost, u2 |-> Lost, u3 |-> Lost, u4 |-> Lost,
   t5 |-> Lost, t6 |-> Lost, state |-> FreshState("none")]

(* What the callers put into the context.  Points in tasks are multiples of *)
(* the generator, by their number. *)
Asked(t) ==
  LET s == Curves[t.curve]
      point == s.multiples[t.point]
      x == mod_reduce(point[1], s.p)
      y == mod_reduce(point[2], s.p)
  IN  CASE t.kind = "multiply" ->
             [Blank EXCEPT !.k = t.k, !.z = t.z, !.px = mont_convert(x, s.p),
                           !.py = mont_convert(y, s.p), !.state = FreshState("multiply")]
        [] t.kind = "sign" ->
             [Blank EXCEPT !.k = t.k, !.z = t.z, !.u2 = t.point,
                           !.u1 = mod_reduce(t.message, s.n)]
        [] t.kind = "verify" ->
             [Blank EXCEPT !.z = t.z, !.px = x, !.py = y,
                           !.u1 = t.r, !.u2 = t.message, !.u3 = t.s]
        [] t.kind = "validate" -> [Blank EXCEPT !.px = t.x, !.py = t.y]
        [] t.kind = "decompress" -> [Blank EXCEPT !.px = t.x]
        [] OTHER -> Blank

Init ==
  /\ task \in Tasks
  /\ c = Asked(task)
  /\ answer = [stage |-> "asked", ok |-> TRUE]

Going(kind, from, to, ok) ==
  /\ task.kind = kind /\ answer.stage = from
  /\ answer' = [stage |-> to, ok |-> ok]
  /\ UNCHANGED task

MultiplyStart == Going("multiply", "asked", "started", TRUE) /\ c' = sb_sw_point_mult_start(c, TaskCurve)
MultiplyContinue ==
  LET next == sb_sw_point_mult_continue(c, TaskCurve)
  IN  /\ Going("multiply", "started", IF next.done THEN "done" ELSE "started", TRUE)
      /\ c' = next.c

SignStart == Going("sign", "asked", "started", TRUE) /\ c' = sb_sw_sign_start(c, TaskCurve)
SignContinue ==
  LET next == sb_sw_sign_continue(c, TaskCurve)
  IN  /\ Going("sign", "started", IF next.done THEN "done" ELSE "started", ~next.failed)
      /\ c' = next.c

VerifyStart == Going("verify", "asked", "started", TRUE) /\ c' = sb_sw_verify_start(c)
VerifyContinue ==
  LET next == sb_sw_verify_continue(c, TaskCurve)
  IN  /\ Going("verify", "started", IF next.done THEN "done" ELSE "started", next.c.state.res)
      /\ c' = next.c

Validate ==
  LET checked == sb_sw_point_validate(c, TaskCurve)
  IN  Going("validate", "asked", "done", checked.ok) /\ c' = checked.c
Decompress ==
  LET point == sb_sw_point_decompress(c, task.sign, TaskCurve)
  IN  Going("decompress", "asked", "done", point.ok) /\ c' = point.c

PickZ ==
  LET z == sb_sw_z_from_buf(task.buf, TaskCurve)
  IN  Going("z", "asked", "done", z.ok) /\ c' = [c EXCEPT !.z = z.k]
PickK ==
  LET k == sb_sw_k_from_buf(task.buf, task.fips186_4, TaskCurve)
  IN  Going("k", "asked", "done", k.ok) /\ c' = [c EXCEPT !.k = k.k]

Next ==
  \/ MultiplyStart \/ MultiplyContinue \/ SignStart \/ SignContinue
  \/ VerifyStart \/ VerifyContinue \/ Validate \/ Decompress \/ PickZ \/ PickK

Spec == Init /\ [][Next]_vars

--------------------------------------------------------------------------------
(* Reference: the group, whose elements are named by their multiple of the *)
(* generator, modulo n.                                                    *)

Inv(a, n) == CHOOSE i \in 1 .. n - 1 : (i * a) % n = 1
IsPoint(x, y, multiple, s) ==
  LET p == s.multiples[multiple % s.n.p] IN x % s.p.p = p[1] /\ y % s.p.p = p[2]

(* FIPS 186-4. *)
Valid(key, r, ss, message, s) ==
  LET n == s.n.p
  IN  /\ r \in 1 .. n - 1 /\ ss \in 1 .. n - 1
      /\ LET x == (Inv(ss, n) * (message + r * key)) % n
         IN  x # 0 /\ s.multiples[x][1] % n = r

(* An addition within the verification meets equal or opposite points, or  *)
(* zero: H, the multiples of it on the way and the key are too close.      *)
Same(P, R, n) == (P - R) % n = 0 \/ (P + R) % n = 0 \/ P % n = 0 \/ R % n = 0
Exceptional(key, r, ss, message, s) ==
  LET n == s.n.p
      H == Inv((2 * TwoTo[s.bits] - 1) % n, n)
      kp == (r * Inv(ss, n)) % n
      kg == (message * Inv(ss, n) - 1) % n
      Added(a, P, more) ==
        [R |-> (IF more THEN 2 * a.R + P ELSE a.R + P) % n,
         met |-> a.met \/ Same(a.R, P, n) \/ (more /\ Same(a.R + P, a.R, n))]
      after[j \in 0 .. s.bits] ==
        LET i == s.bits - j
        IN  IF j = 0 THEN [R |-> 2 * H, met |-> FALSE]
            ELSE Added(after[j - 1], H + test_bit(kp, i) * key + test_bit(kg, i), i < s.bits - 1)
  IN  Same(key, H, n) \/ Same(key + H, 1, n) \/ after[s.bits].met

(* The ladder, interrupted wherever it may be, multiplies every point by   *)
(* every scalar, among them 1, -1, 2 and -2 and points with x = 0, with    *)
(* whatever Z; and leaves the scalar as it was, which signing relies on.   *)
MultipliesByScalar ==
  task.kind = "multiply" /\ answer.stage = "done" =>
    /\ IsPoint(c.x1, c.y1, task.point * task.k, TaskCurve)
    /\ TaskCurve.multiples[task.point][1] # 0 => c.k = task.k

(* A signature is refused only when a part of it is zero, and is otherwise *)
(* valid for the public key of the private one; points of x = 0 apart, see *)
(* SigningStopsAtZeroX.                                                    *)
SignsValidly ==
  task.kind = "sign" /\ answer.stage = "done" /\ TaskCurve.multiples[task.k][1] # 0 =>
    LET n == TaskCurve.n.p
        r == TaskCurve.multiples[task.k][1] % n
    IN  IF r = 0 \/ (task.message + r * task.point) % n = 0 THEN ~answer.ok
        ELSE answer.ok /\ Valid(task.point, c.x2, c.y2, task.message, TaskCurve)

(* "If the ladder has produced (0, +-sqrt(B)), then signing can't continue" *)
(* (sb_sw_lib.c, above the check in sb_sw_sign_continue).                  *)
SigningStopsAtZeroX ==
  task.kind = "sign" /\ answer.stage = "done" /\ TaskCurve.multiples[task.k][1] = 0 => ~answer.ok

(* What is verified is valid, and of a message that is not zero, which     *)
(* signing does not refuse; what is valid is verified; unless the private   *)
(* key shows in an addition that meets the same point twice.               *)
VerifiesValid ==
  task.kind = "verify" /\ answer.stage = "done" =>
    LET n == TaskCurve.n.p
    IN  IF task.r \notin 1 .. n - 1 \/ task.s \notin 1 .. n - 1 \/ task.message % n = 0
        THEN ~answer.ok
        ELSE \/ Exceptional(task.point, task.r, task.s, task.message, TaskCurve)
             \/ answer.ok <=> Valid(task.point, task.r, task.s, task.message, TaskCurve)

(* Points are accepted when they are reduced and on the curve; an x is     *)
(* completed to the point with that sign if there is one; of the           *)
(* candidates, the first in range is taken, and refused if there is none.  *)
ChecksInputs ==
  answer.stage = "done" =>
    LET First(good) == {i \in good : \A j \in good : i <= j}
        n == TaskCurve.n.p
        Points == {TaskCurve.multiples[j] : j \in 1 .. n - 1}
    IN  CASE task.kind = "validate" -> answer.ok <=> <<task.x, task.y>> \in Points
          [] task.kind = "decompress" ->
               /\ answer.ok <=> \E p \in Points : p[1] = task.x
               /\ answer.ok => /\ <<task.x, c.py>> \in Points
                               /\ c.py % 2 = task.sign
          [] task.kind = "z" ->
               LET good == {i \in DOMAIN task.buf : task.buf[i] \in 1 .. TaskCurve.p.p - 1}
               IN  answer.ok <=> \E i \in First(good) : c.z = task.buf[i]
          [] task.kind = "k" ->
               LET add == IF task.fips186_4 THEN 1 ELSE 0
                   good == {i \in DOMAIN task.buf : task.buf[i] + add \in 1 .. n - 1}
               IN  answer.ok <=> \E i \in First(good) : c.k = task.buf[i] + add
          [] OTHER -> TRUE
================================================================================
