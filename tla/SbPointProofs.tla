------------------------------ MODULE SbPointProofs ------------------------------
(***************************************************************************)
(* Theorems about SbPoint, for every curve of the kind and every task.     *)
(* Numbers modulo a prime and in the Montgomery domain come first, then    *)
(* the formulas on points, then the tasks.                                 *)
(***************************************************************************)
EXTENDS SbPoint, WellFoundedInduction, TLAPS

(* Every set of natural numbers that is not empty has a least one.         *)
LEMMA Least ==
  ASSUME NEW T, T \subseteq Nat, T # {}
  PROVE  \E x \in T : \A y \in T : x <= y
<1> DEFINE R == OpToRel(<, Nat)
<1>1. IsWellFoundedOn(R, Nat)
  BY NatLessThanWellFounded
<1>2. \A x, y \in Nat : y < x => <<y, x>> \in R
  BY DEF OpToRel
<1> HIDE DEF R
<1>3. PICK x \in T : \A y \in T : ~(<<y, x>> \in R)
  BY <1>1, WFMin
<1>4. ASSUME NEW y \in T PROVE x <= y
  <2>1. x \in Nat /\ y \in Nat
    OBVIOUS
  <2>2. ~(y < x)
    BY <1>2, <1>3, <2>1
  <2>3. QED
    BY <2>1, <2>2
<1>5. QED
  BY <1>4

(* A set that has zero and, with a number, the next one has them all.      *)
LEMMA Induction ==
  ASSUME NEW S, 0 \in S, \A n \in Nat : n \in S => n + 1 \in S
  PROVE  Nat \subseteq S
<1> SUFFICES ASSUME NEW n \in Nat, n \notin S PROVE FALSE
  OBVIOUS
<1>1. PICK k \in Nat \ S : \A y \in Nat \ S : k <= y
  BY Least
<1>2. k # 0 /\ k - 1 \in Nat
  BY <1>1
<1>3. k - 1 \in S
  BY <1>1, <1>2
<1>4. QED
  BY <1>1, <1>2, <1>3

(* Products of integers: they are integers, distribute, and keep the       *)
(* order.                                                                  *)
LEMMA Product ==
  ASSUME NEW a \in Int, NEW b \in Int, NEW p \in Nat
  PROVE  /\ a * p \in Int /\ (a + 1) * p = a * p + p /\ (a - 1) * p = a * p - p
         /\ (a + b) * p = a * p + b * p
         /\ a <= b => a * p <= b * p
         /\ a >= 0 => a * p >= 0
OBVIOUS

(* A number is its quotient, times the divisor, and its rest.              *)
LEMMA WholeDivision ==
  ASSUME NEW x \in Int, NEW p \in Nat \ {0}
  PROVE  /\ x \div p \in Int /\ x % p \in Nat /\ x % p < p
         /\ x = (x \div p) * p + (x % p)
OBVIOUS

(* The only way to write a number so.                                      *)
LEMMA WholeQuotient ==
  ASSUME NEW q \in Int, NEW r \in Nat, NEW p \in Nat \ {0}, r < p
  PROVE  (q * p + r) \div p = q /\ (q * p + r) % p = r
<1> DEFINE x == q * p + r
           d == x \div p
<1>1. x \in Int
  BY Product
<1>2. d \in Int /\ x % p \in Nat /\ x % p < p /\ x = d * p + (x % p)
  BY <1>1, WholeDivision
<1>3. ~(d < q)
  <2>1. SUFFICES ASSUME d + 1 <= q PROVE FALSE
    BY <1>2
  <2>2. (d + 1) * p <= q * p /\ (d + 1) * p = d * p + p /\ d * p \in Int /\ q * p \in Int
    BY <1>2, <2>1, Product
  <2> DEFINE dp == d * p
             qp == q * p
  <2>3. x = dp + (x % p) /\ x = qp + r /\ dp + p <= qp /\ dp \in Int /\ qp \in Int
    BY <1>2, <2>2
  <2> HIDE DEF x, dp, qp, d
  <2>4. QED
    BY <1>1, <1>2, <2>3
<1>4. ~(d > q)
  <2>1. SUFFICES ASSUME q + 1 <= d PROVE FALSE
    BY <1>2
  <2>2. (q + 1) * p <= d * p /\ (q + 1) * p = q * p + p /\ d * p \in Int /\ q * p \in Int
    BY <1>2, <2>1, Product
  <2> DEFINE dp == d * p
             qp == q * p
  <2>3. x = dp + (x % p) /\ x = qp + r /\ qp + p <= dp /\ dp \in Int /\ qp \in Int
    BY <1>2, <2>2
  <2> HIDE DEF x, dp, qp, d
  <2>4. QED
    BY <1>1, <1>2, <2>3
<1>5. d = q
  BY <1>2, <1>3, <1>4
<1>6. x = q * p + (x % p)
  BY <1>2, <1>5
<1>7. QED
  <2>1. q * p \in Int /\ x = q * p + r
    BY Product
  <2> DEFINE qp == q * p
  <2>2. x = qp + (x % p) /\ x = qp + r /\ qp \in Int
    BY <1>6, <2>1
  <2> HIDE DEF x, qp
  <2>3. x % p = r
    BY <1>2, <2>2
  <2>4. QED
    BY <1>5, <2>3 DEF x

(* The same of natural numbers.                                            *)
LEMMA Division ==
  ASSUME NEW x \in Nat, NEW p \in Nat \ {0}
  PROVE  /\ x \div p \in Nat /\ x % p \in Nat /\ x % p < p
         /\ x = (x \div p) * p + (x % p)
OBVIOUS

LEMMA Quotient ==
  ASSUME NEW q \in Nat, NEW r \in Nat, NEW p \in Nat \ {0}, r < p
  PROVE  (q * p + r) \div p = q /\ (q * p + r) % p = r
BY WholeQuotient

(* A number below the modulus is its own rest.                             *)
LEMMA Below ==
  ASSUME NEW x \in Nat, NEW t \in Nat \ {0}, x < t
  PROVE  x % t = x
<1>1. 0 * t + x = x
  OBVIOUS
<1>2. QED
  BY <1>1, Quotient

Congruent(x, y, p) == \E k \in Int : x = y + k * p

LEMMA CongruentRest ==
  ASSUME NEW x \in Int, NEW y \in Int, NEW p \in Nat \ {0}
  PROVE  Congruent(x, y, p) = (x % p = y % p)
<1>1. ASSUME Congruent(x, y, p) PROVE x % p = y % p
  <2>1. PICK k \in Int : x = y + k * p
    BY <1>1 DEF Congruent
  <2>2. PICK q \in Int, r \in Nat : r = y % p /\ r < p /\ y = q * p + r
    BY WholeDivision
  <2>3. (q * p + r) + k * p = (q + k) * p + r
    OBVIOUS
  <2>4. q + k \in Int
    OBVIOUS
  <2>5. ((q + k) * p + r) % p = r
    BY <2>2, <2>4, WholeQuotient
  <2>6. QED
    BY <2>1, <2>2, <2>3, <2>5
<1>2. ASSUME x % p = y % p PROVE Congruent(x, y, p)
  <2>1. PICK q \in Int, r \in Nat : r = y % p /\ r < p /\ y = q * p + r
    BY WholeDivision
  <2>2. PICK d \in Int, e \in Nat : e = x % p /\ e < p /\ x = d * p + e
    BY WholeDivision
  <2>3. d * p + r = (q * p + r) + (d - q) * p /\ d - q \in Int
    OBVIOUS
  <2>4. x = y + (d - q) * p
    BY <1>2, <2>1, <2>2, <2>3
  <2>5. QED
    BY <2>3, <2>4 DEF Congruent
<1>3. QED
  BY <1>1, <1>2 DEF Congruent

LEMMA RestCongruent ==
  ASSUME NEW x \in Int, NEW y \in Int, NEW p \in Nat \ {0}, x % p = y % p
  PROVE  Congruent(x, y, p)
<1>1. (x % p = y % p) = Congruent(x, y, p)
  BY CongruentRest, Zenon
<1>2. QED
  BY <1>1, Zenon

LEMMA CongruentHasRest ==
  ASSUME NEW x \in Int, NEW y \in Int, NEW p \in Nat \ {0}, Congruent(x, y, p)
  PROVE  x % p = y % p
<1>1. Congruent(x, y, p) = (x % p = y % p)
  BY CongruentRest
<1>2. QED
  BY <1>1, Zenon

LEMMA CongruentSame ==
  ASSUME NEW x \in Int, NEW p \in Nat
  PROVE  Congruent(x, x, p)
<1>1. x = x + 0 * p /\ 0 \in Int
  OBVIOUS
<1>2. QED
  BY <1>1 DEF Congruent

LEMMA CongruentBack ==
  ASSUME NEW x \in Int, NEW y \in Int, NEW p \in Nat, Congruent(x, y, p)
  PROVE  Congruent(y, x, p)
<1>1. PICK k \in Int : x = y + k * p
  BY DEF Congruent
<1>2. y = (y + k * p) + (-k) * p /\ -k \in Int
  OBVIOUS
<1>3. QED
  BY <1>1, <1>2 DEF Congruent

LEMMA CongruentThrough ==
  ASSUME NEW x \in Int, NEW y \in Int, NEW z \in Int, NEW p \in Nat,
         Congruent(x, y, p), Congruent(y, z, p)
  PROVE  Congruent(x, z, p)
<1>1. PICK k \in Int : x = y + k * p
  BY DEF Congruent
<1>2. PICK m \in Int : y = z + m * p
  BY DEF Congruent
<1>3. (z + m * p) + k * p = z + (m + k) * p /\ m + k \in Int
  OBVIOUS
<1>4. QED
  BY <1>1, <1>2, <1>3 DEF Congruent

LEMMA CongruentTimes ==
  ASSUME NEW x \in Int, NEW y \in Int, NEW u \in Int, NEW v \in Int, NEW p \in Nat,
         Congruent(x, y, p), Congruent(u, v, p)
  PROVE  Congruent(x * u, y * v, p)
<1>1. PICK k \in Int : x = y + k * p
  BY DEF Congruent
<1>2. PICK m \in Int : u = v + m * p
  BY DEF Congruent
<1>3. (y + k * p) * (v + m * p) = y * v + (y * m + k * v + k * (m * p)) * p
  OBVIOUS
<1>4. y * m + k * v + k * (m * p) \in Int
  OBVIOUS
<1>5. QED
  BY <1>1, <1>2, <1>3, <1>4 DEF Congruent

LEMMA CongruentUnique ==
  ASSUME NEW p \in Nat \ {0}, NEW x \in 1 .. p, NEW y \in 1 .. p, Congruent(x, y, p)
  PROVE  x = y
<1>1. PICK k \in Int : x = y + k * p
  BY DEF Congruent
<1>2. ~(k >= 1)
  <2>1. SUFFICES ASSUME 1 <= k PROVE FALSE
    OBVIOUS
  <2>2. 1 * p <= k * p /\ k * p \in Int /\ 1 * p = p
    BY <2>1, Product
  <2>3. QED
    BY <1>1, <2>2
<1>3. ~(k <= -1)
  <2>1. SUFFICES ASSUME k <= -1 PROVE FALSE
    OBVIOUS
  <2>2. k * p <= (-1) * p /\ k * p \in Int /\ (-1) * p = -p
    BY <2>1, Product
  <2>3. QED
    BY <1>1, <2>2
<1>4. k = 0
  BY <1>2, <1>3
<1>5. 0 * p = 0
  OBVIOUS
<1>6. QED
  BY <1>1, <1>4, <1>5

LEMMA CongruentHalf ==
  ASSUME NEW x \in Int, NEW y \in Int, NEW p \in Nat, p % 2 = 1, Congruent(2 * x, 2 * y, p)
  PROVE  Congruent(x, y, p)
<1>1. PICK k \in Int : 2 * x = 2 * y + k * p
  BY DEF Congruent
<1>2. PICK h \in Int : p = 2 * h + 1
  OBVIOUS
<1>3. k * (2 * h + 1) = 2 * (k * h) + k /\ k * h \in Int
  OBVIOUS
<1>4. PICK m \in Int : k = 2 * m
  <2>1. 2 * x = 2 * y + (2 * (k * h) + k)
    BY <1>1, <1>2, <1>3
  <2>2. k = 2 * (x - y - k * h) /\ x - y - k * h \in Int
    BY <1>3, <2>1
  <2>3. QED
    BY <2>2
<1>5. (2 * m) * p = 2 * (m * p) /\ m * p \in Int
  OBVIOUS
<1>6. 2 * x = 2 * y + 2 * (m * p)
  BY <1>1, <1>4, <1>5
<1>7. x = y + m * p
  <2> DEFINE mp == m * p
  <2>1. 2 * x = 2 * y + 2 * mp /\ mp \in Int
    BY <1>5, <1>6
  <2> HIDE DEF mp
  <2>2. x = y + mp
    BY <2>1
  <2>3. QED
    BY <2>2 DEF mp
<1>8. QED
  BY <1>7 DEF Congruent

LEMMA CongruentPlus ==
  ASSUME NEW x \in Int, NEW y \in Int, NEW u \in Int, NEW v \in Int, NEW p \in Nat,
         Congruent(x, y, p), Congruent(u, v, p)
  PROVE  Congruent(x + u, y + v, p) /\ Congruent(x - u, y - v, p)
<1>1. PICK k \in Int : x = y + k * p
  BY DEF Congruent
<1>2. PICK m \in Int : u = v + m * p
  BY DEF Congruent
<1>3. (y + k * p) + (v + m * p) = (y + v) + (k + m) * p /\ k + m \in Int
  OBVIOUS
<1>4. (y + k * p) - (v + m * p) = (y - v) + (k - m) * p /\ k - m \in Int
  OBVIOUS
<1>5. QED
  BY <1>1, <1>2, <1>3, <1>4 DEF Congruent

LEMMA CongruentShift ==
  ASSUME NEW x \in Int, NEW k \in Int, NEW p \in Nat
  PROVE  Congruent(x + k * p, x, p) /\ Congruent(x - k * p, x, p)
<1>1. x - k * p = x + (-k) * p /\ -k \in Int
  OBVIOUS
<1>2. QED
  BY <1>1 DEF Congruent

LEMMA CongruentScale ==
  ASSUME NEW x \in Int, NEW y \in Int, NEW a \in Int, NEW p \in Nat, Congruent(x, y, p)
  PROVE  Congruent(x * a, y * a, p) /\ Congruent(a * x, a * y, p)
<1>1. Congruent(a, a, p)
  BY CongruentSame
<1>2. QED
  BY <1>1, CongruentTimes

--------------------------------------------------------------------------------
(* Fields.                                                                 *)

(* A prime, with R for its Montgomery domain.                              *)
Montgomery(m) ==
  /\ m.p \in Nat /\ m.p > 3 /\ m.p % 2 = 1
  /\ m.rinv \in Int /\ m.r_mod_p \in Int /\ m.r2_mod_p \in Int
  /\ Congruent(m.rinv * m.r_mod_p, 1, m.p)
  /\ Congruent(m.r2_mod_p, m.r_mod_p * m.r_mod_p, m.p)
  /\ \A a \in 1 .. m.p : m.invr[a] \in 1 .. m.p
  /\ m.invr[m.p] = m.p
  /\ \A a \in 1 .. m.p - 1 : Congruent(m.invr[a] * a, m.r_mod_p * m.r_mod_p, m.p)

(* A number as it stands in the Montgomery domain.                         *)
E(v, m) == Q(v * m.r_mod_p, m)

LEMMA QIs ==
  ASSUME NEW m, Montgomery(m), NEW a \in Int
  PROVE  Q(a, m) \in 1 .. m.p /\ Q(a, m) \in Int /\ Congruent(Q(a, m), a, m.p)
<1>1. PICK p \in Nat \ {0} : p = m.p
  BY DEF Montgomery
<1>2. PICK b \in Int : b = a - 1
  OBVIOUS
<1>3. PICK q \in Int, r \in Nat : r = b % p /\ r < p /\ b = q * p + r
  BY WholeDivision
<1>4. r + 1 = a + (-q) * p /\ -q \in Int
  BY <1>2, <1>3
<1>5. Q(a, m) = r + 1
  BY <1>1, <1>2, <1>3 DEF Q
<1>6. r + 1 \in 1 .. p /\ r + 1 \in Int
  BY <1>3
<1>7. Congruent(r + 1, a, p)
  BY <1>4 DEF Congruent
<1>8. QED
  BY <1>1, <1>5, <1>6, <1>7

LEMMA QSame ==
  ASSUME NEW m, Montgomery(m), NEW a \in Int, NEW b \in Int, Congruent(a, b, m.p)
  PROVE  Q(a, m) = Q(b, m)
<1>1. PICK p \in Nat \ {0} : p = m.p
  BY DEF Montgomery
<1>2. PICK u \in 1 .. p : u = Q(a, m) /\ Congruent(u, a, p)
  BY <1>1, QIs
<1>3. PICK v \in 1 .. p : v = Q(b, m) /\ Congruent(v, b, p)
  BY <1>1, QIs
<1>4. Congruent(u, b, p) /\ Congruent(b, v, p)
  BY <1>1, <1>2, <1>3, CongruentThrough, CongruentBack
<1>5. Congruent(u, v, p)
  BY <1>4, CongruentThrough
<1>6. QED
  BY <1>2, <1>3, <1>5, CongruentUnique

LEMMA QBack ==
  ASSUME NEW m, Montgomery(m), NEW a \in Int, NEW b \in Int, Q(a, m) = Q(b, m)
  PROVE  Congruent(a, b, m.p)
<1>1. PICK p \in Nat \ {0} : p = m.p
  BY DEF Montgomery
<1>2. PICK u \in 1 .. p : u = Q(a, m) /\ Congruent(u, a, p)
  BY <1>1, QIs
<1>3. Congruent(u, b, p)
  BY <1>1, <1>2, QIs
<1>4. Congruent(a, u, p)
  BY <1>2, CongruentBack
<1>5. QED
  BY <1>1, <1>3, <1>4, CongruentThrough

LEMMA QOf ==
  ASSUME NEW m, Montgomery(m), NEW a \in 1 .. m.p
  PROVE  Q(a, m) = a
<1>1. PICK p \in Nat \ {0} : p = m.p
  BY DEF Montgomery
<1>2. PICK u \in 1 .. p : u = Q(a, m) /\ Congruent(u, a, p)
  BY <1>1, QIs
<1>3. a \in 1 .. p
  BY <1>1
<1>4. QED
  BY <1>2, <1>3, CongruentUnique

(* What a sum of quasi-reduced numbers is, and a product. *)
LEMMA QPlus ==
  ASSUME NEW m, Montgomery(m), NEW a \in Int, NEW b \in Int
  PROVE  Q(Q(a, m) + Q(b, m), m) = Q(a + b, m) /\ Q(Q(a, m) - Q(b, m), m) = Q(a - b, m)
<1>1. PICK p \in Nat \ {0} : p = m.p
  BY DEF Montgomery
<1>2. PICK u \in Int : u = Q(a, m) /\ Congruent(u, a, p)
  BY <1>1, QIs
<1>3. PICK v \in Int : v = Q(b, m) /\ Congruent(v, b, p)
  BY <1>1, QIs
<1>4. Congruent(u + v, a + b, p) /\ Congruent(u - v, a - b, p)
  BY <1>2, <1>3, CongruentPlus
<1>5. u + v \in Int /\ u - v \in Int /\ a + b \in Int /\ a - b \in Int
  OBVIOUS
<1>6. QED
  BY <1>1, <1>2, <1>3, <1>4, <1>5, QSame

LEMMA EIs ==
  ASSUME NEW m, Montgomery(m), NEW v \in Int
  PROVE  E(v, m) \in 1 .. m.p /\ E(v, m) \in Int /\ Congruent(E(v, m), v * m.r_mod_p, m.p)
<1>1. PICK w \in Int : w = v * m.r_mod_p
  BY DEF Montgomery
<1>2. QED
  BY <1>1, QIs DEF E

LEMMA ESame ==
  ASSUME NEW m, Montgomery(m), NEW u \in Int, NEW v \in Int, Congruent(u, v, m.p)
  PROVE  E(u, m) = E(v, m)
<1>1. PICK r \in Int, p \in Nat : r = m.r_mod_p /\ p = m.p
  BY DEF Montgomery
<1>2. Congruent(u, v, p)
  BY <1>1
<1>3. Congruent(u * r, v * r, p)
  BY <1>2, CongruentScale
<1>4. u * r \in Int /\ v * r \in Int
  OBVIOUS
<1>5. QED
  BY <1>1, <1>3, <1>4, QSame DEF E

LEMMA EBack ==
  ASSUME NEW m, Montgomery(m), NEW u \in Int, NEW v \in Int, E(u, m) = E(v, m)
  PROVE  Congruent(u, v, m.p)
<1>1. PICK r \in Int, i \in Int, p \in Nat : r = m.r_mod_p /\ i = m.rinv /\ p = m.p /\ Congruent(i * r, 1, p)
  BY DEF Montgomery
<1>2. u * r \in Int /\ v * r \in Int
  OBVIOUS
<1>3. Congruent(u * r, v * r, p)
  BY <1>1, <1>2, QBack DEF E
<1>4. PICK k \in Int : u * r = v * r + k * p
  BY <1>3 DEF Congruent
<1>5. PICK l \in Int : i * r = 1 + l * p
  BY <1>1 DEF Congruent
<1>6. u + (u * l) * p = v + (v * l) * p + (i * k) * p
  BY <1>4, <1>5
<1>7. v + (v * l) * p + (i * k) * p = v + (v * l + i * k) * p
  OBVIOUS
<1>8. (v + (v * l + i * k) * p) - (u * l) * p = v + (v * l + i * k - u * l) * p
  OBVIOUS
<1>9. u = v + (v * l + i * k - u * l) * p /\ v * l + i * k - u * l \in Int
  BY <1>6, <1>7, <1>8
<1>10. QED
  BY <1>1, <1>9 DEF Congruent

(* Every number stands for one. *)
LEMMA EOf ==
  ASSUME NEW m, Montgomery(m), NEW a \in 1 .. m.p
  PROVE  a * m.rinv \in Int /\ E(a * m.rinv, m) = a
<1>1. PICK r \in Int, i \in Int, p \in Nat : r = m.r_mod_p /\ i = m.rinv /\ p = m.p /\ Congruent(i * r, 1, p)
  BY DEF Montgomery
<1>2. PICK l \in Int : i * r = 1 + l * p
  BY <1>1 DEF Congruent
<1>3. (a * i) * r = a * (i * r) /\ a * (1 + l * p) = a + (a * l) * p
  BY <1>1
<1>4. (a * i) * r = a + (a * l) * p /\ a * l \in Int
  BY <1>2, <1>3
<1>5. PICK w \in Int : w = (a * i) * r /\ Congruent(w, a, p)
  BY <1>1, <1>4 DEF Congruent
<1>6. Q(w, m) = Q(a, m)
  BY <1>1, <1>5, QSame
<1>7. QED
  BY <1>1, <1>5, <1>6, QOf DEF E

LEMMA EAdd ==
  ASSUME NEW m, Montgomery(m), NEW u \in Int, NEW v \in Int
  PROVE  /\ mod_add(E(u, m), E(v, m), m) = E(u + v, m)
         /\ mod_sub(E(u, m), E(v, m), m) = E(u - v, m)
<1>1. PICK r \in Int : r = m.r_mod_p
  BY DEF Montgomery
<1>2. (u + v) * r = u * r + v * r /\ (u - v) * r = u * r - v * r /\ u * r \in Int /\ v * r \in Int
  OBVIOUS
<1>3. QED
  BY <1>1, <1>2, QPlus DEF E, mod_add, mod_sub

LEMMA EDouble ==
  ASSUME NEW m, Montgomery(m), NEW u \in Int
  PROVE  /\ mod_double(E(u, m), m) = E(2 * u, m)
         /\ mod_negate(E(u, m), m) = E(-u, m)
<1>1. PICK r \in Int, p \in Nat : r = m.r_mod_p /\ p = m.p
  BY DEF Montgomery
<1>2. PICK a \in Int : a = u * r
  BY <1>1
<1>3. PICK e \in Int : e = Q(a, m) /\ Congruent(e, a, p)
  BY <1>1, QIs
<1>4. Congruent(2 * e, 2 * a, p)
  BY <1>3, CongruentScale
<1>5. Congruent(-e, -a, p)
  <2>1. PICK k \in Int : e = a + k * p
    BY <1>3 DEF Congruent
  <2>2. -(a + k * p) = -a + (-k) * p /\ -k \in Int
    OBVIOUS
  <2>3. QED
    BY <2>1, <2>2 DEF Congruent
<1>6. Q(2 * e, m) = Q(2 * a, m) /\ Q(-e, m) = Q(-a, m)
  BY <1>1, <1>4, <1>5, QSame
<1>7. (2 * u) * r = 2 * (u * r) /\ (-u) * r = -(u * r)
  OBVIOUS
<1>8. QED
  BY <1>1, <1>2, <1>3, <1>6, <1>7 DEF E, mod_double, mod_negate

(* A product in the Montgomery domain; of one factor that is and one that  *)
(* is not.                                                                 *)
LEMMA EPlain ==
  ASSUME NEW m, Montgomery(m), NEW u \in Int, NEW b \in Int
  PROVE  mont_mult(E(u, m), b, m) = Q(u * b, m) /\ mont_mult(b, E(u, m), m) = Q(u * b, m)
<1>1. PICK r \in Int, i \in Int, p \in Nat : r = m.r_mod_p /\ i = m.rinv /\ p = m.p /\ Congruent(i * r, 1, p)
  BY DEF Montgomery
<1>2. PICK e \in Int : e = E(u, m) /\ Congruent(e, u * r, p)
  BY <1>1, EIs
<1>3. PICK l \in Int : i * r = 1 + l * p
  BY <1>1 DEF Congruent
<1>4. PICK k \in Int : e = u * r + k * p
  BY <1>2 DEF Congruent
<1>5. ((u * r + k * p) * b) * i = (u * b) * (i * r) + (k * b * i) * p
  OBVIOUS
<1>6. (u * b) * (1 + l * p) = u * b + (u * b * l) * p
  OBVIOUS
<1>7. (e * b) * i = u * b + (u * b * l) * p + (k * b * i) * p
  BY <1>3, <1>4, <1>5, <1>6
<1>8. u * b + (u * b * l) * p + (k * b * i) * p = u * b + (u * b * l + k * b * i) * p
  OBVIOUS
<1>9. PICK w \in Int, z \in Int, h \in Int : w = (e * b) * i /\ z = u * b /\ h = u * b * l + k * b * i /\ w = z + h * p
  BY <1>7, <1>8
<1>10. Congruent(w, z, p)
  BY <1>9 DEF Congruent
<1>11. Q(w, m) = Q(z, m)
  BY <1>1, <1>10, QSame
<1>12. e * b = b * e
  OBVIOUS
<1>13. mont_mult(e, b, m) = Q(w, m) /\ mont_mult(b, e, m) = Q(w, m)
  BY <1>1, <1>9, <1>12 DEF mont_mult
<1>14. QED
  BY <1>2, <1>9, <1>11, <1>13

LEMMA EMult ==
  ASSUME NEW m, Montgomery(m), NEW u \in Int, NEW v \in Int
  PROVE  mont_mult(E(u, m), E(v, m), m) = E(u * v, m)
<1>1. PICK r \in Int, p \in Nat : r = m.r_mod_p /\ p = m.p
  BY DEF Montgomery
<1>2. PICK e \in Int : e = E(v, m) /\ Congruent(e, v * r, p)
  BY <1>1, EIs
<1>3. mont_mult(E(u, m), e, m) = Q(u * e, m)
  BY EPlain
<1>4. PICK w \in Int : w = v * r
  BY <1>1
<1>5. Congruent(u * e, u * w, p)
  BY <1>2, <1>4, CongruentScale
<1>6. u * e \in Int /\ u * w \in Int
  OBVIOUS
<1>7. Q(u * e, m) = Q(u * w, m)
  BY <1>1, <1>5, <1>6, QSame
<1>8. u * w = (u * v) * r
  BY <1>4
<1>9. QED
  BY <1>1, <1>2, <1>3, <1>7, <1>8 DEF E

LEMMA ESquare ==
  ASSUME NEW m, Montgomery(m), NEW u \in Int
  PROVE  mont_square(E(u, m), m) = E(u * u, m)
BY EMult DEF mont_square

LEMMA EReduce ==
  ASSUME NEW m, Montgomery(m), NEW u \in Int
  PROVE  mont_reduce(E(u, m), m) = Q(u, m)
<1>1. mont_mult(E(u, m), 1, m) = Q(u * 1, m) /\ u * 1 = u
  BY EPlain
<1>2. QED
  BY <1>1 DEF mont_reduce

LEMMA EConvert ==
  ASSUME NEW m, Montgomery(m), NEW a \in Int
  PROVE  mont_convert(a, m) = E(a, m) /\ E(Q(a, m), m) = E(a, m)
<1>1. PICK r \in Int, i \in Int, p \in Nat, t \in Int :
        r = m.r_mod_p /\ i = m.rinv /\ p = m.p /\ Congruent(i * r, 1, p)
        /\ t = m.r2_mod_p /\ Congruent(t, r * r, p)
  BY DEF Montgomery
<1>2. PICK l \in Int : i * r = 1 + l * p
  BY <1>1 DEF Congruent
<1>3. PICK k \in Int : t = r * r + k * p
  BY <1>1 DEF Congruent
<1>4. (a * (r * r + k * p)) * i = (a * r) * (i * r) + (a * k * i) * p
  OBVIOUS
<1>5. (a * r) * (1 + l * p) = a * r + (a * r * l) * p
  OBVIOUS
<1>6. (a * t) * i = a * r + (a * r * l) * p + (a * k * i) * p
  BY <1>2, <1>3, <1>4, <1>5
<1>7. a * r + (a * r * l) * p + (a * k * i) * p = a * r + (a * r * l + a * k * i) * p
  OBVIOUS
<1>8. PICK w \in Int, z \in Int, h \in Int : w = (a * t) * i /\ z = a * r /\ h = a * r * l + a * k * i /\ w = z + h * p
  BY <1>6, <1>7
<1>9. Congruent(w, z, p)
  BY <1>8 DEF Congruent
<1>10. Q(w, m) = Q(z, m)
  BY <1>1, <1>9, QSame
<1>11. mont_convert(a, m) = Q(w, m)
  BY <1>1, <1>8 DEF mont_convert, mont_mult
<1>12. E(Q(a, m), m) = E(a, m)
  BY QIs, ESame
<1>13. QED
  BY <1>1, <1>8, <1>10, <1>11, <1>12 DEF E

LEMMA EZero ==
  ASSUME NEW m, Montgomery(m)
  PROVE  E(0, m) = m.p /\ \A v \in Int : E(v, m) = m.p => Congruent(v, 0, m.p)
<1>1. PICK p \in Nat \ {0} : p = m.p
  BY DEF Montgomery
<1>2. 0 * m.r_mod_p = 0
  BY DEF Montgomery
<1>3. p = 0 + 1 * p /\ 1 \in Int
  OBVIOUS
<1>4. Congruent(p, 0, p)
  BY <1>3 DEF Congruent
<1>5. Q(p, m) = Q(0, m) /\ Q(p, m) = p
  BY <1>1, <1>4, QSame, QOf
<1>6. E(0, m) = p
  BY <1>2, <1>5 DEF E
<1>7. QED
  BY <1>1, <1>6, EBack

LEMMA InverseTimes ==
  ASSUME NEW m, Montgomery(m), NEW u \in Int, ~Congruent(u, 0, m.p), NEW t, t = mod_inv_r(E(u, m), m)
  PROVE  t \in 1 .. m.p /\ Congruent(t * u, m.r_mod_p, m.p)
<1>1. PICK r \in Int, i \in Int, p \in Nat \ {0} : r = m.r_mod_p /\ i = m.rinv /\ p = m.p /\ Congruent(i * r, 1, p)
  BY DEF Montgomery
<1>2. PICK a \in 1 .. p : a = E(u, m) /\ Congruent(a, u * r, p)
  BY <1>1, EIs
<1>3. a # p
  BY <1>1, <1>2, EZero
<1>4. t = m.invr[a] /\ t \in 1 .. p /\ a \in 1 .. p - 1
  BY <1>1, <1>2, <1>3 DEF Montgomery, mod_inv_r
<1>5. Congruent(t * a, r * r, p)
  BY <1>1, <1>4 DEF Montgomery
<1>6. PICK k \in Int : t * a = r * r + k * p
  BY <1>5 DEF Congruent
<1>7. PICK h \in Int : a = u * r + h * p
  BY <1>2 DEF Congruent
<1>8. PICK l \in Int : i * r = 1 + l * p
  BY <1>1 DEF Congruent
<1>9. t \in Int
  BY <1>4
<1>10. t * (u * r + h * p) = (t * u) * r + (t * h) * p
  BY <1>9
<1>11. (t * u) * r = r * r + (k - t * h) * p /\ k - t * h \in Int /\ t * u \in Int
  BY <1>6, <1>7, <1>10, <1>9
<1>12. PICK x \in Int, g \in Int : x = t * u /\ g = k - t * h /\ x * r = r * r + g * p
  BY <1>11
<1>13. Congruent(x * r, r * r, p) /\ x * r \in Int /\ r * r \in Int
  <2>1. Congruent(x * r, r * r, p)
    BY <1>12 DEF Congruent
  <2>2. QED
    BY <2>1
<1>14. E(x, m) = E(r, m)
  BY <1>1, <1>13, QSame DEF E
<1>15. Congruent(x, r, p)
  BY <1>1, <1>14, EBack
<1>16. QED
  BY <1>1, <1>4, <1>12, <1>15

LEMMA Invertible ==
  ASSUME NEW m, Montgomery(m), NEW u \in Int, ~Congruent(u, 0, m.p)
  PROVE  \E v \in Int : Congruent(u * v, 1, m.p)
<1>1. PICK r \in Int, i \in Int, p \in Nat \ {0} : r = m.r_mod_p /\ i = m.rinv /\ p = m.p /\ Congruent(i * r, 1, p)
  BY DEF Montgomery
<1>2. PICK t : t = mod_inv_r(E(u, m), m)
  OBVIOUS
<1>3. t \in 1 .. p /\ Congruent(t * u, r, p)
  BY <1>1, <1>2, InverseTimes
<1>4. t \in Int
  BY <1>3
<1>5. PICK x \in Int : x = t * u
  BY <1>4
<1>6. Congruent(i * x, i * r, p)
  BY <1>3, <1>5, CongruentScale
<1>7. i * x \in Int /\ i * r \in Int
  OBVIOUS
<1>8. Congruent(i * x, 1, p)
  BY <1>1, <1>6, <1>7, CongruentThrough
<1>9. i * x = u * (i * t) /\ i * t \in Int
  BY <1>4, <1>5
<1>10. QED
  BY <1>1, <1>8, <1>9

LEMMA CancelFactor ==
  ASSUME NEW m, Montgomery(m), NEW u \in Int, NEW v \in Int, NEW w \in Int,
         ~Congruent(w, 0, m.p), Congruent(u * w, v * w, m.p)
  PROVE  Congruent(u, v, m.p)
<1>1. PICK p \in Nat \ {0} : p = m.p
  BY DEF Montgomery
<1>2. PICK z \in Int : Congruent(w * z, 1, p)
  BY <1>1, Invertible
<1>3. PICK l \in Int : w * z = 1 + l * p
  BY <1>2 DEF Congruent
<1>4. PICK k \in Int : u * w = v * w + k * p
  BY <1>1 DEF Congruent
<1>5. (u * w) * z = u * (w * z) /\ (v * w + k * p) * z = v * (w * z) + (k * z) * p
  OBVIOUS
<1>6. u * (1 + l * p) = u + (u * l) * p /\ v * (1 + l * p) = v + (v * l) * p
  OBVIOUS
<1>7. u + (u * l) * p = v + (v * l) * p + (k * z) * p
  BY <1>3, <1>4, <1>5, <1>6
<1>8. (v + (v * l) * p + (k * z) * p) - (u * l) * p = v + (v * l + k * z - u * l) * p
  OBVIOUS
<1>9. u = v + (v * l + k * z - u * l) * p /\ v * l + k * z - u * l \in Int
  BY <1>7, <1>8
<1>10. QED
  BY <1>1, <1>9 DEF Congruent

LEMMA NotZero ==
  ASSUME NEW m, Montgomery(m), NEW u \in Int, NEW v \in Int,
         ~Congruent(u, 0, m.p), ~Congruent(v, 0, m.p)
  PROVE  ~Congruent(u * v, 0, m.p)
<1>1. SUFFICES ASSUME Congruent(u * v, 0, m.p) PROVE FALSE
  OBVIOUS
<1>2. 0 * v = 0
  OBVIOUS
<1>3. Congruent(u * v, 0 * v, m.p)
  BY <1>1, <1>2
<1>4. Congruent(u, 0, m.p)
  BY <1>3, CancelFactor
<1>5. QED
  BY <1>4

LEMMA EInverse ==
  ASSUME NEW m, Montgomery(m), NEW u \in Int, NEW v \in Int, Congruent(u * v, 1, m.p)
  PROVE  mod_inv_r(E(u, m), m) = E(v, m) /\ ~Congruent(u, 0, m.p) /\ ~Congruent(v, 0, m.p)
<1>1. PICK r \in Int, p \in Nat \ {0} : r = m.r_mod_p /\ p = m.p /\ p > 3
  BY DEF Montgomery
<1>2. ~Congruent(1, 0, p)
  <2>1. SUFFICES ASSUME Congruent(1, 0, p) PROVE FALSE
    OBVIOUS
  <2>2. 1 % p = 0 % p
    BY <2>1, CongruentHasRest
  <2>3. QED
    BY <1>1, <2>2, Below
<1>3. ASSUME NEW x \in Int, NEW y \in Int, Congruent(x * y, 1, p), Congruent(x, 0, p) PROVE FALSE
  <2>0. PICK o \in Int : o = 0 /\ o * y = 0
    OBVIOUS
  <2>4. Congruent(x, o, p)
    BY <1>3, <2>0
  <2>5. Congruent(x * y, o * y, p)
    BY <2>4, CongruentScale
  <2>1. Congruent(x * y, 0, p) /\ x * y \in Int
    BY <2>0, <2>5
  <2>2. Congruent(1, x * y, p)
    BY <1>3, <2>1, CongruentBack
  <2>3. Congruent(1, 0, p)
    BY <2>1, <2>2, CongruentThrough
  <2>6. QED
    BY <1>2, <2>3
<1>4. ~Congruent(u, 0, p)
  BY <1>1, <1>3
<1>5. ~Congruent(v, 0, p)
  BY <1>1, <1>3
<1>6. PICK t : t = mod_inv_r(E(u, m), m)
  OBVIOUS
<1>7. t \in 1 .. p /\ Congruent(t * u, r, p)
  BY <1>1, <1>4, <1>6, InverseTimes
<1>8. t \in Int
  BY <1>7
<1>9. PICK k \in Int : t * u = r + k * p
  BY <1>7 DEF Congruent
<1>10. PICK l \in Int : u * v = 1 + l * p
  BY <1>1 DEF Congruent
<1>11. (t * u) * v = t * (u * v) /\ (r + k * p) * v = v * r + (k * v) * p /\ t * (1 + l * p) = t + (t * l) * p
  BY <1>8
<1>12. t + (t * l) * p = v * r + (k * v) * p
  BY <1>9, <1>10, <1>11
<1>13. (v * r + (k * v) * p) - (t * l) * p = v * r + (k * v - t * l) * p
  BY <1>8
<1>14. t = v * r + (k * v - t * l) * p /\ k * v - t * l \in Int
  BY <1>8, <1>12, <1>13
<1>15. Congruent(t, v * r, p) /\ v * r \in Int
  <2>1. Congruent(t, v * r, p)
    BY <1>14 DEF Congruent
  <2>2. QED
    BY <2>1
<1>16. Q(t, m) = Q(v * r, m) /\ Q(t, m) = t
  BY <1>1, <1>7, <1>8, <1>15, QSame, QOf
<1>17. QED
  BY <1>1, <1>4, <1>5, <1>6, <1>16 DEF E

LEMMA EInverseZero ==
  ASSUME NEW m, Montgomery(m)
  PROVE  mod_inv_r(E(0, m), m) = E(0, m)
BY EZero DEF mod_inv_r, Montgomery

LEMMA HalveIs ==
  ASSUME NEW m, Montgomery(m), NEW a \in 1 .. m.p
  PROVE  mod_halve(a, m) \in 1 .. m.p /\ Congruent(2 * mod_halve(a, m), a, m.p)
<1>1. PICK p \in Nat \ {0} : p = m.p /\ p % 2 = 1
  BY DEF Montgomery
<1>2. a \in 1 .. p
  BY <1>1
<1>3. CASE a % 2 = 0
  BY <1>2, <1>3, <1>1, CongruentSame DEF mod_halve
<1>4. CASE a % 2 # 0
  <2>1. PICK h \in Int : h = (p - a) \div 2 /\ 2 * h = p - a /\ p - h \in 1 .. p
    BY <1>1, <1>2, <1>4
  <2>2. mod_halve(a, m) = p - h
    BY <1>1, <1>4, <2>1 DEF mod_halve
  <2>3. 2 * (p - h) = a + 1 * p
    BY <1>2, <2>1
  <2>4. Congruent(2 * (p - h), a, p)
    BY <2>3 DEF Congruent
  <2>5. QED
    BY <1>1, <2>1, <2>2, <2>4
<1>5. QED
  BY <1>3, <1>4

(* What IsSum says, of the coordinates. *)
Sums(x3, y3, x1, y1, x2, rise, run, p) ==
  /\ Congruent((x3 + x1 + x2) * (run * run), rise * rise, p)
  /\ Congruent((y3 + y1) * run, rise * (x1 - x3), p)


Stretched(x1, y1, x2, Z, d, W) ==
  /\ x2 * (Z * Z) - x1 * (Z * Z) = d
  /\ (x1 * (Z * Z)) * (d * d) = x1 * (W * W)
  /\ (x2 * (Z * Z)) * (d * d) = x2 * (W * W)
  /\ (y1 * (Z * Z * Z)) * (x2 * (W * W) - x1 * (W * W)) = y1 * (W * W * W)
  /\ W * W = ((x2 - x1) * (x2 - x1)) * ((Z * Z * Z) * (Z * Z * Z))
  /\ W = (x2 - x1) * (Z * Z * Z)

LEMMA CoZRing ==
  ASSUME NEW x1 \in Int, NEW y1 \in Int, NEW x2 \in Int, NEW Z \in Int,
         NEW d \in Int, d = (x2 - x1) * (Z * Z), NEW W \in Int, W = Z * d
  PROVE  Stretched(x1, y1, x2, Z, d, W)
<1>1. PICK D \in Int : D = x2 - x1 /\ x2 = x1 + D
  OBVIOUS
<1>2. d = D * (Z * Z) /\ d \in Int
  BY <1>1
<1>3. W = Z * d /\ W \in Int
  BY <1>2
<1>4. (x1 + D) * (Z * Z) - x1 * (Z * Z) = D * (Z * Z)
  OBVIOUS
<1>5. \A x \in Int : (x * (Z * Z)) * (d * d) = x * ((Z * d) * (Z * d))
  BY <1>2
<1>6. W = D * (Z * Z * Z)
  BY <1>2, <1>3
<1>7. (y1 * (Z * Z * Z)) * ((x1 + D) * (W * W) - x1 * (W * W)) = y1 * (W * W * W)
  BY <1>3, <1>6
<1>8. W * W = (D * D) * ((Z * Z * Z) * (Z * Z * Z))
  <2>1. \A t \in Int : (D * t) * (D * t) = (D * D) * (t * t)
    OBVIOUS
  <2>2. PICK t \in Int : t = Z * Z * Z /\ W = D * t
    BY <1>6
  <2>3. QED
    BY <2>1, <2>2
<1>9. (x1 * (Z * Z)) * (d * d) = x1 * (W * W)
  BY <1>3, <1>5
<1>10. (x2 * (Z * Z)) * (d * d) = x2 * (W * W)
  BY <1>3, <1>5
<1>11. x2 * (Z * Z) - x1 * (Z * Z) = d
  BY <1>1, <1>2, <1>4
<1>12. (y1 * (Z * Z * Z)) * (x2 * (W * W) - x1 * (W * W)) = y1 * (W * W * W)
  BY <1>1, <1>7
<1>13. QED
  BY <1>1, <1>6, <1>8, <1>9, <1>10, <1>11, <1>12 DEF Stretched

LEMMA CoZSum ==
  ASSUME NEW x1 \in Int, NEW y1 \in Int, NEW x2 \in Int, NEW Z \in Int,
         NEW x3 \in Int, NEW y3 \in Int, NEW rise \in Int, NEW p \in Nat,
         Sums(x3, y3, x1, y1, x2, rise, x2 - x1, p),
         NEW d \in Int, d = (x2 - x1) * (Z * Z), NEW W \in Int, W = Z * d,
         NEW g \in Int, g = rise * (Z * Z * Z)
  PROVE  /\ g \in Int
         /\ Congruent(g * g - (x1 * (W * W) + x2 * (W * W)), x3 * (W * W), p)
         /\ Congruent(g * (x1 * (W * W) - x3 * (W * W)) - y1 * (W * W * W), y3 * (W * W * W), p)
<1>1. PICK D \in Int, t \in Int : D = x2 - x1 /\ t = Z * Z * Z
  OBVIOUS
<1>2. W \in Int /\ W = D * t /\ W * W = (D * D) * (t * t)
  BY <1>1, CoZRing DEF Stretched
<1>3. g = rise * t /\ g \in Int
  BY <1>1
<1>4. PICK k \in Int : (x3 + x1 + x2) * (D * D) = rise * rise + k * p
  BY <1>1 DEF Sums, Congruent
<1>5. PICK l \in Int : (y3 + y1) * D = rise * (x1 - x3) + l * p
  BY <1>1 DEF Sums, Congruent
<1>6. Congruent(g * g - (x1 * (W * W) + x2 * (W * W)), x3 * (W * W), p)
  <2>1. PICK v \in Int, q \in Int : v = D * D /\ q = t * t
    OBVIOUS
  <2>2. W * W = v * q /\ g * g = (rise * rise) * q
    BY <1>2, <1>3, <2>1
  <2>3. x1 * (v * q) + x2 * (v * q) = ((x3 + x1 + x2) * v) * q - x3 * (v * q)
    OBVIOUS
  <2>4. (rise * rise + k * p) * q = (rise * rise) * q + (k * q) * p
    OBVIOUS
  <2>5. ((x3 + x1 + x2) * v) * q = (rise * rise) * q + (k * q) * p
    BY <1>4, <2>1, <2>4
  <2>6. PICK a \in Int, b \in Int, e \in Int, h \in Int : a = (rise * rise) * q /\ b = x3 * (v * q) /\ h = k * q
                     /\ e = x1 * (v * q) + x2 * (v * q)
    OBVIOUS
  <2>7. a - e = b + (-h) * p /\ -h \in Int
    BY <2>3, <2>5, <2>6
  <2>8. Congruent(a - e, b, p)
    BY <2>7 DEF Congruent
  <2>9. g * g - (x1 * (W * W) + x2 * (W * W)) = a - e /\ x3 * (W * W) = b
    BY <2>2, <2>6
  <2>10. QED
    BY <2>8, <2>9
<1>7. Congruent(g * (x1 * (W * W) - x3 * (W * W)) - y1 * (W * W * W), y3 * (W * W * W), p)
  <2>1. PICK w \in Int, e \in Int : w = W * W /\ e = t * w
    BY <1>2
  <2>2. W * W * W = D * e
    BY <1>2, <2>1
  <2>3. (rise * t) * (x1 * w - x3 * w) = (rise * (x1 - x3)) * (t * w)
    OBVIOUS
  <2>4. g * (x1 * w - x3 * w) = (rise * (x1 - x3)) * e
    BY <1>3, <2>1, <2>3
  <2>5. ((y3 + y1) * D) * e = y3 * (D * e) + y1 * (D * e)
    OBVIOUS
  <2>6. (rise * (x1 - x3) + l * p) * e = (rise * (x1 - x3)) * e + (l * e) * p
    OBVIOUS
  <2>7. y3 * (D * e) + y1 * (D * e) = (rise * (x1 - x3)) * e + (l * e) * p
    BY <1>5, <2>5, <2>6
  <2>8. PICK a \in Int, b \in Int, f \in Int, h \in Int : a = (rise * (x1 - x3)) * e /\ b = y3 * (D * e)
                     /\ f = y1 * (D * e) /\ h = l * e
    OBVIOUS
  <2>9. a - f = b + (-h) * p /\ -h \in Int
    BY <2>7, <2>8
  <2>10. Congruent(a - f, b, p)
    BY <2>9 DEF Congruent
  <2>11. g * (x1 * (W * W) - x3 * (W * W)) - y1 * (W * W * W) = a - f /\ y3 * (W * W * W) = b
    BY <2>1, <2>2, <2>4, <2>8
  <2>12. QED
    BY <2>10, <2>11
<1>8. QED
  BY <1>3, <1>6, <1>7

(* Contexts, and what the operations on points leave alone in them. *)
Operations == {"none", "multiply", "sign", "verify"}
States ==
  [operation : Operations, stage : Int, i : Int,
   inv_k : BOOLEAN, k_one : BOOLEAN, swap : Int, res : BOOLEAN]
Context ==
  [k : Int, z : Int, x1 : Int, y1 : Int, x2 : Int, y2 : Int, px : Int, py : Int,
   u1 : Int, u2 : Int, u3 : Int, u4 : Int, t5 : Int, t6 : Int, state : States]
Keeps(u, x) ==
  /\ u.k = x.k /\ u.px = x.px /\ u.py = x.py
  /\ u.u1 = x.u1 /\ u.u2 = x.u2 /\ u.u3 = x.u3 /\ u.u4 = x.u4 /\ u.state = x.state

(* The first register holds a point with that Z; the second one does. *)
First(x, P, Z, m) ==
  x.x1 = E(P[1] * (Z * Z), m) /\ x.y1 = E(P[2] * (Z * Z * Z), m)
Second(x, P, Z, m) ==
  x.x2 = E(P[1] * (Z * Z), m) /\ x.y2 = E(P[2] * (Z * Z * Z), m)

IsPair(P) == P[1] \in Int /\ P[2] \in Int
(* R is the sum of P and P2, or their difference. *)
Adds(R, P, P2, p) == Sums(R[1], R[2], P[1], P[2], P2[1], P2[2] - P[2], P2[1] - P[1], p)
Subtracts(R, P, P2, p) == Sums(R[1], R[2], P[1], P[2], P2[1], -P2[2] - P[2], P2[1] - P[1], p)

LEMMA ZupIs ==
  ASSUME NEW s, NEW m, m = s.p, Montgomery(m), NEW x \in Context,
         NEW P, NEW P2, NEW R, IsPair(P), IsPair(P2), IsPair(R), Adds(R, P, P2, m.p),
         NEW Z \in Int, First(x, P, Z, m), Second(x, P2, Z, m),
         NEW d \in Int, d = (P2[1] - P[1]) * (Z * Z), x.t6 = E(d, m), NEW W \in Int, W = Z * d,
         NEW u, u = sb_sw_point_co_z_add_update_zup(x, s)
  PROVE  /\ u \in Context /\ Keeps(u, x) /\ u.z = x.z /\ u.t6 = x.t6
         /\ First(u, R, W, m) /\ Second(u, P, W, m)
         /\ u.t5 = E(P[1] * (W * W) + P2[1] * (W * W), m)
<1>1. PICK x1 \in Int, y1 \in Int, x2 \in Int, y2 \in Int, x3 \in Int, y3 \in Int, p \in Nat :
        x1 = P[1] /\ y1 = P[2] /\ x2 = P2[1] /\ y2 = P2[2] /\ x3 = R[1] /\ y3 = R[2] /\ p = m.p
  BY DEF IsPair, Montgomery
<1>2. /\ d \in Int /\ W \in Int /\ d = (x2 - x1) * (Z * Z)
      /\ x2 * (Z * Z) - x1 * (Z * Z) = d
      /\ (x1 * (Z * Z)) * (d * d) = x1 * (W * W)
      /\ (x2 * (Z * Z)) * (d * d) = x2 * (W * W)
      /\ (y1 * (Z * Z * Z)) * (x2 * (W * W) - x1 * (W * W)) = y1 * (W * W * W)
  <2>1. d = (x2 - x1) * (Z * Z)
    BY <1>1
  <2>2. Stretched(x1, y1, x2, Z, d, W)
    BY <2>1, CoZRing
  <2>3. QED
    BY <2>1, <2>2 DEF Stretched
<1> W \in Int /\ d \in Int
  BY <1>2
<1>3. PICK rise \in Int, g \in Int : rise = y2 - y1 /\ g = rise * (Z * Z * Z)
  OBVIOUS
<1>4. /\ Congruent(g * g - (x1 * (W * W) + x2 * (W * W)), x3 * (W * W), p)
      /\ Congruent(g * (x1 * (W * W) - x3 * (W * W)) - y1 * (W * W * W), y3 * (W * W * W), p)
  <2>1. Sums(x3, y3, x1, y1, x2, rise, x2 - x1, p)
    BY <1>1, <1>3 DEF Adds
  <2>2. d = (x2 - x1) * (Z * Z)
    BY <1>2
  <2>3. QED
    BY <1>3, <2>1, <2>2, CoZSum
<1>5. g = y2 * (Z * Z * Z) - y1 * (Z * Z * Z)
  BY <1>3
(* The values, by names. *)
<1>6. PICK b \in Int, o \in Int, e \in Int, h \in Int, l \in Int :
        b = x1 * (W * W) /\ o = x2 * (W * W) /\ e = y1 * (W * W * W)
        /\ h = x3 * (W * W) /\ l = y3 * (W * W * W)
  <2>1. /\ x1 * (W * W) \in Int /\ x2 * (W * W) \in Int /\ y1 * (W * W * W) \in Int
        /\ x3 * (W * W) \in Int /\ y3 * (W * W * W) \in Int
    OBVIOUS
  <2>2. QED
    BY <2>1
<1>7. PICK x1z \in Int, x2z \in Int, y1z \in Int, y2z \in Int, dd \in Int :
        x1z = x1 * (Z * Z) /\ x2z = x2 * (Z * Z) /\ y1z = y1 * (Z * Z * Z) /\ y2z = y2 * (Z * Z * Z)
        /\ dd = d * d
  BY <1>2
<1>8. x1z * dd = b /\ x2z * dd = o /\ y1z * (o - b) = e /\ y2z - y1z = g
  BY <1>2, <1>5, <1>6, <1>7
<1>9. Congruent(g * g - (b + o), h, p) /\ Congruent(g * (b - h) - e, l, p)
  BY <1>4, <1>6
<1>10. x.x1 = E(x1z, m) /\ x.x2 = E(x2z, m) /\ x.y1 = E(y1z, m) /\ x.y2 = E(y2z, m)
  BY <1>1, <1>7 DEF First, Second
<1> DEFINE A == mont_square(x.t6, m)
           C == mont_mult(x.x2, A, m)
           B == mont_mult(x.x1, A, m)
           F == mont_mult(x.y1, mod_sub(C, B, m), m)
           dy == mod_sub(x.y2, x.y1, m)
           X3 == mod_sub(mont_square(dy, m), mod_add(B, C, m), m)
           Y3 == mod_sub(mont_mult(dy, mod_sub(B, X3, m), m), F, m)
<1>11. A = E(dd, m)
  BY <1>2, <1>7, ESquare
<1>12. C = E(o, m) /\ B = E(b, m)
  <2> HIDE DEF A
  <2>1. mont_mult(E(x2z, m), E(dd, m), m) = E(x2z * dd, m) /\ mont_mult(E(x1z, m), E(dd, m), m) = E(x1z * dd, m)
    BY EMult
  <2>2. QED
    BY <1>8, <1>10, <1>11, <2>1
<1>13. F = E(e, m)
  <2> HIDE DEF B, C
  <2>1. PICK q \in Int : q = o - b
    OBVIOUS
  <2>2. mod_sub(C, B, m) = E(q, m)
    BY <1>12, <2>1, EAdd
  <2>3. mont_mult(E(y1z, m), E(q, m), m) = E(y1z * q, m)
    BY EMult
  <2>4. QED
    BY <1>8, <1>10, <2>1, <2>2, <2>3
<1>14. dy = E(g, m)
  BY <1>8, <1>10, EAdd
<1>15. mod_add(B, C, m) = E(b + o, m)
  <2> HIDE DEF B, C
  <2>1. QED
    BY <1>12, EAdd
<1>16. X3 = E(h, m)
  <2> HIDE DEF B, C, dy
  <2>1. PICK q \in Int, f \in Int : q = b + o /\ f = g * g
    OBVIOUS
  <2>2. mont_square(dy, m) = E(f, m) /\ mod_add(B, C, m) = E(q, m)
    BY <1>14, <1>15, <2>1, ESquare
  <2>3. X3 = E(f - q, m)
    BY <2>2, EAdd
  <2>4. Congruent(f - q, h, m.p) /\ f - q \in Int
    BY <1>1, <1>9, <2>1
  <2>5. QED
    BY <2>3, <2>4, ESame
<1>17. Y3 = E(l, m)
  <2> HIDE DEF B, C, dy, X3, F
  <2>1. PICK q \in Int, f \in Int : q = b - h /\ f = g * q
    OBVIOUS
  <2>2. mod_sub(B, X3, m) = E(q, m)
    BY <1>12, <1>16, <2>1, EAdd
  <2>3. mont_mult(dy, E(q, m), m) = E(f, m)
    BY <1>14, <2>1, EMult
  <2>4. Y3 = E(f - e, m)
    BY <1>13, <2>2, <2>3, EAdd
  <2>5. Congruent(f - e, l, m.p) /\ f - e \in Int
    BY <1>1, <1>9, <2>1
  <2>6. QED
    BY <2>4, <2>5, ESame
<1>18. u = [x EXCEPT !.t5 = mod_add(B, C, m), !.x1 = X3, !.x2 = B, !.y2 = F, !.y1 = Y3]
  BY DEF sb_sw_point_co_z_add_update_zup
<1>19. E(b + o, m) \in Int /\ E(h, m) \in Int /\ E(b, m) \in Int /\ E(e, m) \in Int /\ E(l, m) \in Int
  BY EIs
<1>20. u = [x EXCEPT !.t5 = E(b + o, m), !.x1 = E(h, m), !.x2 = E(b, m), !.y2 = E(e, m), !.y1 = E(l, m)]
  <2> HIDE DEF B, X3, F, Y3, C
  <2>1. QED
    BY <1>12, <1>13, <1>15, <1>16, <1>17, <1>18
<1> HIDE DEF A, C, B, F, dy, X3, Y3
<1>21. /\ u \in Context /\ Keeps(u, x) /\ u.z = x.z /\ u.t6 = x.t6
       /\ u.t5 = E(b + o, m) /\ u.x1 = E(h, m) /\ u.x2 = E(b, m) /\ u.y2 = E(e, m) /\ u.y1 = E(l, m)
  <2> DEFINE v1 == E(b + o, m)
             v2 == E(h, m)
             v3 == E(b, m)
             v4 == E(e, m)
             v5 == E(l, m)
  <2>1. v1 \in Int /\ v2 \in Int /\ v3 \in Int /\ v4 \in Int /\ v5 \in Int
    BY <1>19
  <2>2. u = [x EXCEPT !.t5 = v1, !.x1 = v2, !.x2 = v3, !.y2 = v4, !.y1 = v5]
    BY <1>20
  <2> HIDE DEF v1, v2, v3, v4, v5
  <2>3. /\ u \in Context /\ Keeps(u, x) /\ u.z = x.z /\ u.t6 = x.t6
        /\ u.t5 = v1 /\ u.x1 = v2 /\ u.x2 = v3 /\ u.y2 = v4 /\ u.y1 = v5
    BY <2>1, <2>2 DEF Context, Keeps
  <2>4. QED
    BY <2>3 DEF v1, v2, v3, v4, v5
<1>22. QED
  BY <1>1, <1>6, <1>21 DEF First, Second

LEMMA AddUpdateIs ==
  ASSUME NEW s, NEW m, m = s.p, Montgomery(m), NEW x \in Context,
         NEW P, NEW P2, NEW R, IsPair(P), IsPair(P2), IsPair(R), Adds(R, P, P2, m.p),
         NEW Z \in Int, First(x, P, Z, m), Second(x, P2, Z, m),
         NEW d \in Int, d = (P2[1] - P[1]) * (Z * Z), NEW W \in Int, W = Z * d,
         NEW u, u = sb_sw_point_co_z_add_update(x, s)
  PROVE  /\ u \in Context /\ Keeps(u, x) /\ u.z = x.z /\ u.t6 = E(d, m)
         /\ First(u, R, W, m) /\ Second(u, P, W, m)
         /\ u.t5 = E(P[1] * (W * W) + P2[1] * (W * W), m)
<1>1. PICK x1 \in Int, x2 \in Int, zz \in Int : x1 = P[1] /\ x2 = P2[1] /\ zz = Z * Z
  BY DEF IsPair
<1>2. PICK a \in Int, b \in Int : a = x1 * zz /\ b = x2 * zz
  OBVIOUS
<1>3. b - a = d
  BY <1>1, <1>2
<1>4. mod_sub(E(b, m), E(a, m), m) = E(b - a, m)
  BY EAdd
<1>5. mod_sub(x.x2, x.x1, m) = E(d, m)
  BY <1>1, <1>2, <1>3, <1>4 DEF First, Second
<1>6. PICK e \in Int : e = E(d, m)
  BY EIs
<1>7. PICK y : y = [x EXCEPT !.t6 = e]
  OBVIOUS
<1>8. y \in Context /\ Keeps(y, x) /\ y.z = x.z /\ y.t6 = e /\ First(y, P, Z, m) /\ Second(y, P2, Z, m)
  BY <1>7 DEF Context, Keeps, First, Second
<1>9. u = sb_sw_point_co_z_add_update_zup(y, s)
  BY <1>5, <1>6, <1>7 DEF sb_sw_point_co_z_add_update
<1>10. y.t6 = E(d, m)
  BY <1>6, <1>8
<1>11. /\ u \in Context /\ Keeps(u, y) /\ u.z = y.z /\ u.t6 = y.t6
       /\ First(u, R, W, m) /\ Second(u, P, W, m)
       /\ u.t5 = E(P[1] * (W * W) + P2[1] * (W * W), m)
  BY <1>8, <1>9, <1>10, ZupIs
<1>12. Keeps(u, x)
  BY <1>8, <1>11 DEF Keeps
<1>13. QED
  BY <1>6, <1>8, <1>11, <1>12

LEMMA ConjAddIs ==
  ASSUME NEW s, NEW m, m = s.p, Montgomery(m), NEW x \in Context,
         NEW P, NEW P2, NEW R, NEW T, IsPair(P), IsPair(P2), IsPair(R), IsPair(T),
         Adds(R, P, P2, m.p), Subtracts(T, P, P2, m.p),
         NEW Z \in Int, First(x, P, Z, m), Second(x, P2, Z, m),
         NEW d \in Int, d = (P2[1] - P[1]) * (Z * Z), NEW W \in Int, W = Z * d,
         NEW u, u = sb_sw_point_co_z_conj_add(x, s)
  PROVE  /\ u \in Context /\ Keeps(u, x) /\ u.z = x.z
         /\ First(u, R, W, m) /\ Second(u, T, W, m)
<1>1. PICK x1 \in Int, y1 \in Int, x2 \in Int, y2 \in Int, x3 \in Int, y3 \in Int, p \in Nat :
        x1 = P[1] /\ y1 = P[2] /\ x2 = P2[1] /\ y2 = P2[2] /\ x3 = T[1] /\ y3 = T[2] /\ p = m.p
  BY DEF IsPair, Montgomery
<1>2. PICK rise \in Int, g \in Int : rise = -y2 - y1 /\ g = rise * (Z * Z * Z)
  <2>0. -y2 - y1 \in Int
    OBVIOUS
  <2>1. PICK rise \in Int : rise = -y2 - y1
    BY <2>0, Zenon
  <2>2. rise * (Z * Z * Z) \in Int
    OBVIOUS
  <2>3. QED
    BY <2>1, <2>2
<1>3. /\ Congruent(g * g - (x1 * (W * W) + x2 * (W * W)), x3 * (W * W), p)
      /\ Congruent(g * (x1 * (W * W) - x3 * (W * W)) - y1 * (W * W * W), y3 * (W * W * W), p)
  <2>1. Sums(x3, y3, x1, y1, x2, rise, x2 - x1, p)
    BY <1>1, <1>2 DEF Subtracts
  <2>2. d = (x2 - x1) * (Z * Z)
    BY <1>1
  <2>3. QED
    BY <1>2, <2>1, <2>2, CoZSum
<1>4. PICK b \in Int, o \in Int, e \in Int, h \in Int, l \in Int :
        b = x1 * (W * W) /\ o = x2 * (W * W) /\ e = y1 * (W * W * W)
        /\ h = x3 * (W * W) /\ l = y3 * (W * W * W)
  <2>1. /\ x1 * (W * W) \in Int /\ x2 * (W * W) \in Int /\ y1 * (W * W * W) \in Int
        /\ x3 * (W * W) \in Int /\ y3 * (W * W * W) \in Int
    OBVIOUS
  <2>2. QED
    BY <2>1
<1>5. PICK y1z \in Int, y2z \in Int : y1z = y1 * (Z * Z * Z) /\ y2z = y2 * (Z * Z * Z)
  OBVIOUS
<1>6. y1z + y2z = -g
  BY <1>2, <1>5
<1>7. Congruent(g * g - (b + o), h, p) /\ Congruent(g * (b - h) - e, l, p)
  BY <1>3, <1>4
<1>8. PICK v : v = sb_sw_point_co_z_add_update(x, s)
  OBVIOUS
<1>9. /\ v \in Context /\ Keeps(v, x) /\ v.z = x.z
      /\ First(v, R, W, m) /\ Second(v, P, W, m)
      /\ v.t5 = E(P[1] * (W * W) + P2[1] * (W * W), m)
  BY <1>8, AddUpdateIs
<1>10. v.t5 = E(b + o, m) /\ v.x2 = E(b, m) /\ v.y2 = E(e, m)
  BY <1>1, <1>4, <1>9 DEF Second
<1> DEFINE sum == mod_add(x.y1, x.y2, m)
           X3 == mod_sub(mont_square(sum, m), v.t5, m)
           Y3 == mod_sub(mont_mult(sum, mod_sub(X3, v.x2, m), m), v.y2, m)
<1>11. sum = E(-g, m)
  BY <1>1, <1>5, <1>6, EAdd DEF First, Second
<1>12. X3 = E(h, m)
  <2> HIDE DEF sum
  <2>1. PICK q \in Int, f \in Int, n \in Int : q = b + o /\ f = g * g /\ n = -g
    OBVIOUS
  <2>2. n * n = f
    BY <2>1
  <2>3. mont_square(sum, m) = E(f, m)
    BY <1>11, <2>1, <2>2, ESquare
  <2>4. X3 = E(f - q, m)
    BY <1>10, <2>1, <2>3, EAdd
  <2>5. Congruent(f - q, h, m.p) /\ f - q \in Int
    BY <1>1, <1>7, <2>1
  <2>6. QED
    BY <2>4, <2>5, ESame
<1>13. Y3 = E(l, m)
  <2> HIDE DEF sum, X3
  <2>1. PICK q \in Int, f \in Int, n \in Int : q = h - b /\ n = -g /\ f = n * q
    OBVIOUS
  <2>2. f = g * (b - h)
    BY <2>1
  <2>3. mod_sub(X3, v.x2, m) = E(q, m)
    BY <1>10, <1>12, <2>1, EAdd
  <2>4. mont_mult(sum, E(q, m), m) = E(f, m)
    BY <1>11, <2>1, EMult
  <2>5. Y3 = E(f - e, m)
    BY <1>10, <2>3, <2>4, EAdd
  <2>6. Congruent(f - e, l, m.p) /\ f - e \in Int
    BY <1>1, <1>7, <2>2
  <2>7. QED
    BY <2>5, <2>6, ESame
<1>14. u = [v EXCEPT !.x2 = X3, !.y2 = Y3]
  BY <1>8 DEF sb_sw_point_co_z_conj_add
<1> HIDE DEF sum, X3, Y3
<1>15. PICK v1 \in Int, v2 \in Int : v1 = E(h, m) /\ v2 = E(l, m)
  BY EIs
<1>16. u = [v EXCEPT !.x2 = v1, !.y2 = v2]
  BY <1>12, <1>13, <1>14, <1>15
<1>17. u \in Context /\ Keeps(u, v) /\ u.z = v.z /\ u.x1 = v.x1 /\ u.y1 = v.y1 /\ u.x2 = v1 /\ u.y2 = v2
  BY <1>9, <1>16 DEF Context, Keeps
<1>18. Keeps(u, x)
  BY <1>9, <1>17 DEF Keeps
<1>19. First(u, R, W, m)
  BY <1>9, <1>17 DEF First
<1>20. Second(u, T, W, m)
  BY <1>1, <1>4, <1>15, <1>17 DEF Second
<1>21. QED
  BY <1>9, <1>17, <1>18, <1>19, <1>20

(* Twice a point. *)
Doubles(R, P, minus_a, p) ==
  Sums(R[1], R[2], P[1], P[2], P[1], 3 * P[1] * P[1] - minus_a, 2 * P[2], p)

LEMMA DoubleSum ==
  ASSUME NEW x \in Int, NEW y \in Int, NEW x3 \in Int, NEW y3 \in Int, NEW rise \in Int, NEW p \in Nat,
         NEW Z \in Int, Z = 2 * y, Sums(x3, y3, x, y, x, rise, Z, p)
  PROVE  /\ Congruent(rise * rise - x * (Z * Z) - x * (Z * Z), x3 * (Z * Z), p)
         /\ Congruent(rise * (x * (Z * Z) - x3 * (Z * Z)) - y * (Z * Z * Z), y3 * (Z * Z * Z), p)
<1>1. PICK k \in Int : (x3 + x + x) * (Z * Z) = rise * rise + k * p
  BY DEF Sums, Congruent
<1>2. PICK l \in Int : (y3 + y) * Z = rise * (x - x3) + l * p
  BY DEF Sums, Congruent
<1>3. PICK q \in Int, a \in Int, b \in Int, e \in Int : q = Z * Z /\ a = rise * rise /\ b = x * q /\ e = x3 * q
  OBVIOUS
<1>4. (x3 + x + x) * q = e + b + b
  BY <1>3
<1>5. a - b - b = e + (-k) * p /\ -k \in Int
  BY <1>1, <1>3, <1>4
<1>6. Congruent(a - b - b, e, p)
  BY <1>5 DEF Congruent
<1>7. ((y3 + y) * Z) * q = y3 * (Z * q) + y * (Z * q) /\ Z * q = Z * Z * Z
  BY <1>3
<1>8. (rise * (x - x3) + l * p) * q = rise * (x * q - x3 * q) + (l * q) * p
  OBVIOUS
<1>9. PICK f \in Int, g \in Int, h \in Int, n \in Int :
        f = rise * (b - e) /\ g = y * (Z * Z * Z) /\ h = y3 * (Z * Z * Z) /\ n = l * q
  OBVIOUS
<1>10. f - g = h + (-n) * p /\ -n \in Int
  BY <1>2, <1>3, <1>7, <1>8, <1>9
<1>11. Congruent(f - g, h, p)
  BY <1>10 DEF Congruent
<1>12. QED
  BY <1>3, <1>6, <1>9, <1>11

(* The a of a curve: three times a third of it. *)
Slope(s) ==
  /\ s.minus_a \in Int
  /\ \E t \in Int : s.minus_a_r_over_three = E(t, s.p) /\ Congruent(3 * t, s.minus_a, s.p.p)

LEMMA DoublingRing ==
  ASSUME NEW x \in Int, NEW y \in Int, NEW Z \in Int, Z = 2 * y, NEW w \in Int, w = 2 * (y * y)
  PROVE  /\ x * (2 * w) = x * (Z * Z)
         /\ 2 * (w * w) = y * (Z * Z * Z)
<1>1. Z * Z = 4 * (y * y)
  OBVIOUS
<1>2. 2 * w = Z * Z
  BY <1>1
<1>3. Z * Z * Z = 8 * (y * y * y)
  OBVIOUS
<1>4. y * (8 * (y * y * y)) = 8 * ((y * y) * (y * y))
  OBVIOUS
<1>5. PICK q \in Int : q = y * y
  OBVIOUS
<1>6. 2 * (w * w) = 8 * (q * q)
  BY <1>5
<1>7. QED
  BY <1>2, <1>3, <1>4, <1>5, <1>6

LEMMA InitialDoubleIs ==
  ASSUME NEW s, NEW m, m = s.p, Montgomery(m), Slope(s), NEW x \in Context,
         NEW P, NEW R, IsPair(P), IsPair(R), Doubles(R, P, s.minus_a, m.p),
         x.x2 = E(P[1], m), x.y2 = E(P[2], m),
         NEW Z \in Int, Z = 2 * P[2],
         NEW u, u = sb_sw_point_initial_double(x, s)
  PROVE  /\ u \in Context /\ Keeps(u, x) /\ u.z = x.z /\ u.t5 = E(Z, m)
         /\ First(u, P, Z, m) /\ Second(u, R, Z, m)
<1>1. PICK x1 \in Int, y1 \in Int, x3 \in Int, y3 \in Int, p \in Nat, minus_a \in Int :
        x1 = P[1] /\ y1 = P[2] /\ x3 = R[1] /\ y3 = R[2] /\ p = m.p /\ minus_a = s.minus_a
  BY DEF IsPair, Montgomery, Slope
<1>2. PICK t \in Int : s.minus_a_r_over_three = E(t, m) /\ Congruent(3 * t, minus_a, p)
  BY <1>1 DEF Slope
<1>3. PICK rise \in Int, xx \in Int : xx = x1 * x1 /\ rise = 3 * xx - minus_a
  <2>1. PICK xx \in Int : xx = x1 * x1
    OBVIOUS
  <2>2. 3 * xx - minus_a \in Int
    OBVIOUS
  <2>3. QED
    BY <2>1, <2>2
<1>4. 3 * x1 * x1 - minus_a = rise
  BY <1>3
<1>5. /\ Congruent(rise * rise - x1 * (Z * Z) - x1 * (Z * Z), x3 * (Z * Z), p)
      /\ Congruent(rise * (x1 * (Z * Z) - x3 * (Z * Z)) - y1 * (Z * Z * Z), y3 * (Z * Z * Z), p)
  <2>1. Sums(x3, y3, x1, y1, x1, rise, Z, p)
    BY <1>1, <1>4 DEF Doubles
  <2>2. Z = 2 * y1
    BY <1>1
  <2>3. QED
    BY <2>1, <2>2, DoubleSum
<1>6. PICK yy \in Int, w \in Int : yy = y1 * y1 /\ w = 2 * yy
  OBVIOUS
<1>7. x1 * (2 * w) = x1 * (Z * Z) /\ 2 * (w * w) = y1 * (Z * Z * Z)
  BY <1>1, <1>6, DoublingRing
<1>8. PICK a \in Int, e \in Int, h \in Int, l \in Int, f \in Int, ww \in Int :
        a = x1 * (Z * Z) /\ e = y1 * (Z * Z * Z) /\ h = x3 * (Z * Z) /\ l = y3 * (Z * Z * Z)
        /\ f = rise * rise /\ ww = w * w
  <2>1. /\ x1 * (Z * Z) \in Int /\ y1 * (Z * Z * Z) \in Int /\ x3 * (Z * Z) \in Int
        /\ y3 * (Z * Z * Z) \in Int /\ rise * rise \in Int /\ w * w \in Int
    OBVIOUS
  <2>2. QED
    BY <2>1
<1>9. /\ Congruent(f - a - a, h, p) /\ Congruent(rise * (a - h) - e, l, p)
      /\ x1 * (2 * w) = a /\ 2 * ww = e
  BY <1>5, <1>7, <1>8
<1> DEFINE thirds == mod_sub(mont_square(x.x2, m), s.minus_a_r_over_three, m)
           B == mod_add(thirds, mod_double(thirds, m), m)
           v == mod_double(mont_square(x.y2, m), m)
           A == mont_mult(x.x2, mod_double(v, m), m)
           X2 == mod_sub(mod_sub(mont_square(B, m), A, m), A, m)
           Y1 == mod_double(mont_square(v, m), m)
           Y2 == mod_sub(mont_mult(B, mod_sub(A, X2, m), m), Y1, m)
<1>10. PICK third \in Int : third = xx - t
  OBVIOUS
<1>11. thirds = E(third, m)
  BY <1>1, <1>3, <1>2, <1>10, ESquare, EAdd
<1>12. B = E(rise, m)
  <2> HIDE DEF thirds
  <2>1. PICK twice \in Int : twice = 2 * third
    OBVIOUS
  <2>2. mod_double(thirds, m) = E(twice, m)
    BY <1>11, <2>1, EDouble
  <2>3. B = E(third + twice, m)
    BY <1>11, <2>2, EAdd
  <2>4. PICK k \in Int, kp \in Int : kp = k * p /\ 3 * t = minus_a + kp
    <3>1. PICK k \in Int : 3 * t = minus_a + k * p
      BY <1>2 DEF Congruent
    <3>2. k * p \in Int
      OBVIOUS
    <3>3. QED
      BY <3>1, <3>2
  <2>5. third + twice = rise + (-k) * p /\ -k \in Int
    BY <2>4, <1>3, <1>10, <2>1
  <2>6. Congruent(third + twice, rise, p)
    BY <2>5 DEF Congruent
  <2>7. third + twice \in Int /\ Congruent(third + twice, rise, m.p)
    BY <1>1, <2>6
  <2>8. QED
    BY <2>3, <2>7, ESame
<1>13. v = E(w, m)
  BY <1>1, <1>6, ESquare, EDouble
<1>14. A = E(a, m)
  <2> HIDE DEF v
  <2>1. PICK q \in Int : q = 2 * w
    OBVIOUS
  <2>2. mod_double(v, m) = E(q, m)
    BY <1>13, <2>1, EDouble
  <2>3. mont_mult(x.x2, E(q, m), m) = E(x1 * q, m)
    BY <1>1, EMult
  <2>4. x1 * q = a
    BY <1>9, <2>1
  <2>5. QED
    BY <2>2, <2>3, <2>4
<1>15. X2 = E(h, m)
  <2> HIDE DEF A, B
  <2>1. mont_square(B, m) = E(f, m)
    BY <1>8, <1>12, ESquare
  <2>2. PICK q \in Int : q = f - a
    OBVIOUS
  <2>3. mod_sub(mont_square(B, m), A, m) = E(q, m)
    BY <1>14, <2>1, <2>2, EAdd
  <2>4. X2 = E(q - a, m)
    BY <1>14, <2>3, EAdd
  <2>5. Congruent(q - a, h, m.p) /\ q - a \in Int
    BY <1>1, <1>9, <2>2
  <2>6. QED
    BY <2>4, <2>5, ESame
<1>16. Y1 = E(e, m)
  <2> HIDE DEF v
  <2>1. mont_square(v, m) = E(ww, m)
    BY <1>8, <1>13, ESquare
  <2>2. QED
    BY <1>9, <2>1, EDouble
<1>17. Y2 = E(l, m)
  <2> HIDE DEF A, B, X2, Y1
  <2>1. PICK q \in Int, o \in Int : q = a - h /\ o = rise * q
    OBVIOUS
  <2>2. mod_sub(A, X2, m) = E(q, m)
    BY <1>14, <1>15, <2>1, EAdd
  <2>3. mont_mult(B, E(q, m), m) = E(o, m)
    BY <1>12, <2>1, EMult
  <2>4. Y2 = E(o - e, m)
    BY <1>16, <2>2, <2>3, EAdd
  <2>5. Congruent(o - e, l, m.p) /\ o - e \in Int
    BY <1>1, <1>9, <2>1
  <2>6. QED
    BY <2>4, <2>5, ESame
<1>18. mod_double(x.y2, m) = E(Z, m)
  BY <1>1, EDouble
<1>19. u = [x EXCEPT !.t5 = mod_double(x.y2, m), !.x1 = A, !.y1 = Y1, !.x2 = X2, !.y2 = Y2]
  BY DEF sb_sw_point_initial_double
<1> HIDE DEF thirds, B, v, A, X2, Y1, Y2
<1>20. PICK v1 \in Int, v2 \in Int, v3 \in Int, v4 \in Int, v5 \in Int :
         v1 = E(Z, m) /\ v2 = E(a, m) /\ v3 = E(e, m) /\ v4 = E(h, m) /\ v5 = E(l, m)
  BY EIs
<1>21. u = [x EXCEPT !.t5 = v1, !.x1 = v2, !.y1 = v3, !.x2 = v4, !.y2 = v5]
  BY <1>14, <1>15, <1>16, <1>17, <1>18, <1>19, <1>20
<1>22. /\ u \in Context /\ Keeps(u, x) /\ u.z = x.z
       /\ u.t5 = v1 /\ u.x1 = v2 /\ u.y1 = v3 /\ u.x2 = v4 /\ u.y2 = v5
  BY <1>21 DEF Context, Keeps
<1>23. QED
  BY <1>1, <1>8, <1>20, <1>22 DEF First, Second

(* Both registers times a factor of their Z. *)
LEMMA ScaleRing ==
  ASSUME NEW x \in Int, NEW y \in Int, NEW Z \in Int, NEW f \in Int, NEW V \in Int, V = f * Z
  PROVE  /\ (x * (Z * Z)) * (f * f) = x * (V * V)
         /\ (y * (Z * Z * Z)) * (f * f * f) = y * (V * V * V)
<1>1. (x * (Z * Z)) * (f * f) = x * ((f * Z) * (f * Z))
  OBVIOUS
<1>2. (y * (Z * Z * Z)) * (f * f * f) = y * ((f * Z) * (f * Z) * (f * Z))
  OBVIOUS
<1>3. QED
  BY <1>1, <1>2

(* A loop: one step for each turn, each from a state to the next.         *)
Steps(step, S) == step \in [Nat -> [S -> S]]
Iterates(t, s, step, S) ==
  t \in [Nat -> S] /\ t[0] = s /\ \A i \in Nat : t[i + 1] = step[i][t[i]]

LEMMA Recursion ==
  ASSUME NEW S, NEW s, NEW step, s \in S, Steps(step, S)
  PROVE  \E t : Iterates(t, s, step, S)
<1> USE DEF Steps
<1> DEFINE Begins(n, t) == /\ t \in [0 .. n -> S] /\ t[0] = s
                           /\ \A i \in 0 .. n - 1 : t[i + 1] = step[i][t[i]]
           Begun == {n \in Nat : \E t : Begins(n, t)}
<1>1. 0 \in Begun
  <2>1. Begins(0, [i \in 0 .. 0 |-> s])
    OBVIOUS
  <2>2. QED
    BY <2>1
<1>2. ASSUME NEW n \in Nat, n \in Begun PROVE n + 1 \in Begun
  <2>1. PICK t : Begins(n, t)
    BY <1>2
  <2>2. PICK last \in S : last = step[n][t[n]]
    BY <2>1
  <2> DEFINE u == [i \in 0 .. n + 1 |-> IF i <= n THEN t[i] ELSE last]
  <2>3. u \in [0 .. n + 1 -> S]
    BY <2>1
  <2>4. u[0] = s
    BY <2>1
  <2>5. ASSUME NEW i \in 0 .. n PROVE u[i + 1] = step[i][u[i]]
    <3>1. u[i] = t[i] /\ i + 1 \in 0 .. n + 1
      OBVIOUS
    <3>2. CASE i = n
      BY <3>2, <2>2, <3>1
    <3>3. CASE i # n
      BY <3>3, <2>1, <3>1
    <3>4. QED
      BY <3>2, <3>3
  <2>6. Begins(n + 1, u)
    <3>1. (n + 1) - 1 = n
      OBVIOUS
    <3> HIDE DEF u
    <3>2. QED
      BY <2>3, <2>4, <2>5, <3>1
  <2> HIDE DEF u, Begins
  <2>7. QED
    BY <2>6
<1>3. \A n \in Nat : \E t : Begins(n, t)
  <2> HIDE DEF Begun
  <2>1. Nat \subseteq Begun
    BY <1>1, <1>2, Induction
  <2>2. QED
    BY <2>1 DEF Begun
<1> HIDE DEF Begun
<1>4. ASSUME NEW m \in Nat, NEW n \in Nat, NEW t, NEW u,
             Begins(m, t), Begins(n, u)
      PROVE  \A i \in Nat : i <= m /\ i <= n => t[i] = u[i]
  <2> DEFINE L == {i \in Nat : i <= m /\ i <= n => t[i] = u[i]}
  <2>1. 0 \in L
    BY <1>4
  <2>2. ASSUME NEW i \in Nat, i \in L PROVE i + 1 \in L
    <3> SUFFICES ASSUME i + 1 <= m, i + 1 <= n PROVE t[i + 1] = u[i + 1]
      OBVIOUS
    <3>1. i \in 0 .. m - 1 /\ i \in 0 .. n - 1 /\ t[i] = u[i]
      BY <2>2
    <3>2. QED
      BY <1>4, <3>1
  <2> HIDE DEF L
  <2>3. Nat \subseteq L
    BY <2>1, <2>2, Induction
  <2>4. QED
    BY <2>3 DEF L
<1> DEFINE T(n) == CHOOSE t : Begins(n, t)
           all == [n \in Nat |-> T(n)[n]]
<1> HIDE DEF Begins
<1>5. \A n \in Nat : Begins(n, T(n))
  BY <1>3
<1> HIDE DEF T
<1>6. all \in [Nat -> S]
  <2>1. ASSUME NEW n \in Nat PROVE T(n)[n] \in S
    BY <1>5 DEF Begins
  <2>2. QED
    BY <2>1
<1>7. all[0] = s
  BY <1>5 DEF Begins
<1>8. ASSUME NEW n \in Nat PROVE all[n + 1] = step[n][all[n]]
  <2>1. PICK t, u : t = T(n) /\ u = T(n + 1)
    OBVIOUS
  <2>2. Begins(n, t) /\ Begins(n + 1, u) /\ n + 1 \in Nat
    BY <1>5, <2>1
  <2>3. t[n] = u[n]
    BY <1>4, <2>2
  <2>4. u[n + 1] = step[n][u[n]]
    <3>1. n \in 0 .. (n + 1) - 1 /\ n \in Nat
      OBVIOUS
    <3>2. \A i \in 0 .. (n + 1) - 1 : u[i + 1] = step[i][u[i]]
      BY <2>2, Zenon DEF Begins
    <3>3. QED
      BY <3>1, <3>2, Zenon
  <2>5. all[n] = t[n] /\ all[n + 1] = u[n + 1]
    BY <2>1
  <2>6. QED
    BY <2>3, <2>4, <2>5
<1> HIDE DEF all
<1>9. QED
  BY <1>6, <1>7, <1>8 DEF Iterates

--------------------------------------------------------------------------------
(* Powers of two; the fields of a curve.                                   *)

LEMMA TwoToIs ==
  /\ TwoTo \in [Nat -> Nat \ {0}] /\ TwoTo[0] = 1
  /\ \A n \in Nat : TwoTo[n + 1] = 2 * TwoTo[n]
<1> DEFINE S == Nat \ {0}
           step == [i \in Nat |-> [v \in S |-> 2 * v]]
<1>1. 1 \in S /\ Steps(step, S)
  BY DEF Steps
<1>2. PICK t : Iterates(t, 1, step, S)
  <2> HIDE DEF S, step
  <2>1. QED
    BY <1>1, Recursion
<1>3. t \in [Nat -> S] /\ t[0] = 1 /\ \A n \in Nat : t[n + 1] = 2 * t[n]
  BY <1>2 DEF Iterates
<1>4. t = [n \in Nat |-> IF n = 0 THEN 1 ELSE 2 * t[n - 1]]
  <2>1. ASSUME NEW n \in Nat PROVE t[n] = IF n = 0 THEN 1 ELSE 2 * t[n - 1]
    <3>1. CASE n = 0
      BY <1>3, <3>1
    <3>2. CASE n # 0
      <4>1. PICK k \in Nat : k = n - 1 /\ k + 1 = n
        BY <3>2
      <4>2. t[k + 1] = 2 * t[k]
        BY <1>3
      <4>3. QED
        BY <3>2, <4>1, <4>2
    <3>3. QED
      BY <3>1, <3>2
  <2> HIDE DEF S
  <2>2. QED
    BY <1>3, <2>1
<1>5. TwoTo = [n \in Nat |-> IF n = 0 THEN 1 ELSE 2 * TwoTo[n - 1]]
  <2> DEFINE Satisfies(f) == f = [n \in Nat |-> IF n = 0 THEN 1 ELSE 2 * f[n - 1]]
  <2>1. TwoTo = CHOOSE f : Satisfies(f)
    BY Zenon DEF TwoTo
  <2>2. Satisfies(t)
    BY <1>4
  <2> HIDE DEF Satisfies
  <2>3. Satisfies(TwoTo)
    BY <2>1, <2>2
  <2>4. QED
    BY <2>3 DEF Satisfies
<1>6. TwoTo[0] = 1 /\ \A n \in Nat : TwoTo[n + 1] = 2 * TwoTo[n]
  <2>1. ASSUME NEW n \in Nat PROVE TwoTo[n] = IF n = 0 THEN 1 ELSE 2 * TwoTo[n - 1]
    BY <1>5
  <2>2. TwoTo[0] = 1
    BY <2>1
  <2>3. ASSUME NEW n \in Nat PROVE TwoTo[n + 1] = 2 * TwoTo[n]
    BY <2>1
  <2>4. QED
    BY <2>2, <2>3
<1>7. \A n \in Nat : TwoTo[n] \in Nat \ {0}
  <2> DEFINE L == {n \in Nat : TwoTo[n] \in Nat \ {0}}
  <2>1. 0 \in L
    BY <1>6
  <2>2. ASSUME NEW n \in Nat, n \in L PROVE n + 1 \in L
    BY <1>6, <2>2
  <2> HIDE DEF L
  <2>3. Nat \subseteq L
    BY <2>1, <2>2, Induction
  <2>4. QED
    BY <2>3 DEF L
<1>8. DOMAIN TwoTo = Nat
  BY <1>5
<1>9. TwoTo = [n \in Nat |-> TwoTo[n]]
  BY <1>5, <1>8
<1>10. QED
  BY <1>6, <1>7, <1>9

(* Half of R, and R. *)
LEMMA Radix ==
  ASSUME NEW bits \in Nat \ {0}
  PROVE  /\ TwoTo[bits] \in Nat \ {0} /\ TwoTo[bits - 1] \in Nat \ {0}
         /\ TwoTo[bits] = 2 * TwoTo[bits - 1]
<1>1. PICK k \in Nat : k = bits - 1 /\ bits = k + 1
  OBVIOUS
<1>2. QED
  BY <1>1, TwoToIs

LEMMA FieldIs ==
  ASSUME NEW m, NEW bits \in Nat \ {0}, IsField(m, bits)
  PROVE  /\ Montgomery(m)
         /\ TwoTo[bits - 1] + 1 < m.p /\ m.p < TwoTo[bits] /\ m.p \in Nat
<1>1. PICK p \in Nat, R \in Nat, H \in Nat :
        p = m.p /\ R = TwoTo[bits] /\ H = TwoTo[bits - 1] /\ R = 2 * H /\ H > 0
  <2>1. m.p \in Nat
    BY DEF IsField
  <2>2. PICK R \in Nat, H \in Nat : R = TwoTo[bits] /\ H = TwoTo[bits - 1] /\ R = 2 * H /\ H > 0
    BY Radix
  <2>3. QED
    BY <2>1, <2>2
<1>2. p % 2 = 1 /\ H + 1 < p /\ p < R /\ p > 3
  <2>1. p % 2 = 1 /\ H + 1 < p /\ p < R
    BY <1>1 DEF IsField
  <2>2. QED
    BY <1>1, <2>1
<1>3. PICK i \in Nat : i = m.rinv /\ (i * R) % p = 1
  BY <1>1 DEF IsField
<1>4. PICK r \in Int : r = m.r_mod_p /\ r = R % p
  BY <1>1, <1>2 DEF IsField
<1>5. PICK t \in Int : t = m.r2_mod_p /\ t = (R * R) % p
  <2>1. m.r2_mod_p = (R * R) % p
    BY <1>1 DEF IsField
  <2>2. PICK q \in Int : q = R * R
    OBVIOUS
  <2>3. q % p \in Int
    BY <1>2
  <2>4. QED
    BY <2>1, <2>2, <2>3
<1>6. Congruent(R, r, p)
  <2>1. r % p = R % p
    BY <1>2, <1>4, Below
  <2>2. QED
    BY <1>2, <2>1, RestCongruent
<1>7. Congruent(i * r, 1, p)
  <2>1. Congruent(i * R, 1, p)
    BY <1>2, <1>3, Below, RestCongruent
  <2>2. Congruent(i * R, i * r, p)
    BY <1>6, CongruentScale
  <2>3. i * R \in Int /\ i * r \in Int
    OBVIOUS
  <2>4. Congruent(i * r, i * R, p)
    BY <2>2, <2>3, CongruentBack
  <2>5. QED
    BY <2>1, <2>3, <2>4, CongruentThrough
<1>8. Congruent(t, r * r, p)
  <2>1. R * R \in Int /\ r * r \in Int
    OBVIOUS
  <2>2. Congruent(t, R * R, p)
    <3>1. t % p = (R * R) % p
      BY <1>2, <1>5, <2>1, Below
    <3>2. QED
      BY <1>2, <2>1, <3>1, RestCongruent
  <2>3. Congruent(R * R, r * r, p)
    BY <1>6, CongruentTimes
  <2>4. QED
    BY <2>1, <2>2, <2>3, CongruentThrough
<1>9. \A a \in 1 .. p : m.invr[a] \in 1 .. p
  BY <1>1 DEF IsField
<1>10. ASSUME NEW a \in 1 .. p - 1 PROVE Congruent(m.invr[a] * a, m.r_mod_p * m.r_mod_p, p)
  <2>1. PICK v \in Int : v = m.invr[a]
    BY <1>9
  <2>2. (v * a) % p = (R * R) % p
    BY <1>1, <2>1 DEF IsField
  <2>3. R * R \in Int /\ v * a \in Int /\ r * r \in Int
    OBVIOUS
  <2>4. Congruent(v * a, R * R, p)
    BY <1>2, <2>2, <2>3, RestCongruent
  <2>5. Congruent(R * R, r * r, p)
    BY <1>6, CongruentTimes
  <2>6. Congruent(v * a, r * r, p)
    BY <2>3, <2>4, <2>5, CongruentThrough
  <2>7. QED
    BY <1>4, <2>1, <2>6
<1>11. m.invr[m.p] = m.p
  BY DEF IsField
<1>12. QED
  BY <1>1, <1>2, <1>3, <1>4, <1>5, <1>7, <1>8, <1>9, <1>10, <1>11 DEF Montgomery

(* The points of a curve, by any multiple of the generator. *)
Point(j, s) == s.multiples[j % s.n.p]
Zero(j, s) == Congruent(j, 0, s.n.p)

LEMMA CurveIs ==
  ASSUME NEW s, IsCurve(s)
  PROVE  /\ Montgomery(s.p) /\ Montgomery(s.n) /\ s.n.p < s.p.p /\ s.bits \in Nat \ {0}
         /\ s.n.p \in Nat /\ s.p.p \in Nat /\ s.n.p > 3 /\ s.p.p > 3
         /\ TwoTo[s.bits - 1] + 1 < s.n.p /\ s.p.p < TwoTo[s.bits]
         /\ s.minus_a \in Nat /\ s.b \in 0 .. s.p.p /\ IsGroup(s)
<1>1. s.bits \in Nat \ {0} /\ IsField(s.p, s.bits) /\ IsField(s.n, s.bits) /\ s.n.p < s.p.p
  BY DEF IsCurve
<1>2. Montgomery(s.p) /\ Montgomery(s.n) /\ TwoTo[s.bits - 1] + 1 < s.n.p /\ s.p.p < TwoTo[s.bits]
  BY <1>1, FieldIs
<1>3. s.n.p \in Nat /\ s.p.p \in Nat /\ s.n.p > 3 /\ s.p.p > 3
  BY <1>2 DEF Montgomery
<1>4. s.minus_a \in Nat /\ s.b \in 0 .. s.p.p /\ IsGroup(s)
  BY DEF IsCurve
<1>5. QED
  BY <1>1, <1>2, <1>3, <1>4

LEMMA SlopeIs ==
  ASSUME NEW s, IsCurve(s)
  PROVE  Slope(s)
<1>1. PICK p \in Nat \ {0}, a \in Int, th \in Int, r \in Int, i \in Int :
        /\ p = s.p.p /\ a = s.minus_a /\ th = s.minus_a_r_over_three /\ th \in 1 .. p
        /\ r = s.p.r_mod_p /\ i = s.p.rinv
        /\ Congruent(i * r, 1, p) /\ (3 * th - a * r) % p = 0
  <2>1. s.p.p \in Nat /\ s.p.p > 3 /\ s.p.rinv \in Int /\ s.p.r_mod_p \in Int
        /\ Congruent(s.p.rinv * s.p.r_mod_p, 1, s.p.p)
    BY CurveIs DEF Montgomery
  <2>2. /\ s.minus_a \in Int /\ s.minus_a_r_over_three \in 1 .. s.p.p
        /\ (3 * s.minus_a_r_over_three - s.minus_a * s.p.r_mod_p) % s.p.p = 0
    BY CurveIs DEF IsCurve
  <2>3. PICK p \in Nat \ {0}, a \in Int, th \in Int, r \in Int, i \in Int :
          p = s.p.p /\ a = s.minus_a /\ th = s.minus_a_r_over_three /\ r = s.p.r_mod_p /\ i = s.p.rinv
    <3>1. s.p.p \in Nat \ {0} /\ s.minus_a_r_over_three \in Int
      BY <2>1, <2>2
    <3>2. QED
      BY <2>1, <2>2, <3>1, Zenon
  <2>4. th \in 1 .. p /\ Congruent(i * r, 1, p) /\ (3 * th - a * r) % p = 0
    BY <2>1, <2>2, <2>3, Zenon
  <2>5. QED
    BY <2>3, <2>4, Zenon
<1>2. Montgomery(s.p)
  BY CurveIs
<1>3. PICK t \in Int : t = th * i
  OBVIOUS
<1>4. E(t, s.p) = s.minus_a_r_over_three
  BY <1>1, <1>2, <1>3, EOf
<1>5. Congruent(3 * th - a * r, 0, p)
  <2>1. a * r \in Int
    OBVIOUS
  <2>2. 3 * th - a * r \in Int /\ 0 % p = 0
    BY <2>1
  <2>3. QED
    BY <1>1, <2>2, RestCongruent
<1>6. Congruent((3 * th - a * r) * i, 0, p)
  <2>1. PICK u \in Int : u = 3 * th - a * r
    OBVIOUS
  <2>2. PICK o \in Int : o = 0
    OBVIOUS
  <2>3. Congruent(u, o, p)
    BY <1>5, <2>1, <2>2
  <2>4. Congruent(u * i, o * i, p)
    BY <2>3, CongruentScale
  <2>5. o * i = 0
    BY <2>2
  <2>6. QED
    BY <2>1, <2>4, <2>5
<1>7. (3 * th - a * r) * i = 3 * t - a * (i * r)
  BY <1>3
<1>8. PICK w \in Int, v \in Int : w = i * r /\ v = a * w
  OBVIOUS
<1>9. Congruent(3 * t - v, 0, p)
  BY <1>6, <1>7, <1>8
<1>10. Congruent(v, a, p)
  <2>1. Congruent(w, 1, p)
    BY <1>1, <1>8
  <2>2. PICK o \in Int : o = 1
    OBVIOUS
  <2>3. Congruent(w, o, p)
    BY <2>1, <2>2
  <2>4. Congruent(a * w, a * o, p)
    BY <2>3, CongruentScale
  <2>5. a * o = a
    BY <2>2
  <2>6. QED
    BY <1>8, <2>4, <2>5
<1>11. Congruent(3 * t, a, p)
  BY <1>9, <1>10, CongruentPlus
<1>12. QED
  BY <1>1, <1>4, <1>11 DEF Slope

(* What the group says of the points by their numbers.                     *)
LEMMA GroupPoint ==
  ASSUME NEW s, IsCurve(s), NEW n, n = s.n.p, NEW p, p = s.p.p, NEW i \in 1 .. n - 1
  PROVE  s.multiples[i] \in (0 .. p - 1) \X (0 .. p - 1) /\ OnCurve(s.multiples[i], s)
<1>1. IsGroup(s)
  BY CurveIs
<1>2. QED
  BY <1>1, Zenon DEF IsGroup

LEMMA GroupPairs ==
  ASSUME NEW s, IsCurve(s), NEW n, n = s.n.p, NEW p, p = s.p.p,
         NEW i \in 1 .. n - 1, NEW j \in 1 .. n - 1
  PROVE  /\ s.multiples[i] = s.multiples[j] => i = j
         /\ i + j = n => s.multiples[j] = <<s.multiples[i][1], (-s.multiples[i][2]) % p>>
         /\ i # j /\ i + j # n =>
              IsSum(s.multiples[(i + j) % n], s.multiples[i], s.multiples[j],
                    s.multiples[j][2] - s.multiples[i][2],
                    s.multiples[j][1] - s.multiples[i][1], p)
         /\ i = j => IsSum(s.multiples[(i + j) % n], s.multiples[i], s.multiples[i],
                           3 * s.multiples[i][1] * s.multiples[i][1] - s.minus_a,
                           2 * s.multiples[i][2], p)
<1>1. IsGroup(s)
  BY CurveIs
<1>2. QED
  BY <1>1, Zenon DEF IsGroup

LEMMA GroupOnce ==
  ASSUME NEW s, IsCurve(s), NEW n, n = s.n.p, NEW i \in 1 .. n - 1, NEW j \in 1 .. n - 1,
         s.multiples[i] = s.multiples[j]
  PROVE  i = j
<1>1. IsGroup(s)
  BY CurveIs
<1>2. QED
  BY <1>1, Zenon DEF IsGroup

LEMMA GroupOpposite ==
  ASSUME NEW s, IsCurve(s), NEW n, n = s.n.p, NEW p, p = s.p.p,
         NEW i \in 1 .. n - 1, NEW j \in 1 .. n - 1, i + j = n
  PROVE  s.multiples[j] = <<s.multiples[i][1], (-s.multiples[i][2]) % p>>
<1>1. IsGroup(s)
  BY CurveIs
<1>2. QED
  BY <1>1, Zenon DEF IsGroup

LEMMA GroupChord ==
  ASSUME NEW s, IsCurve(s), NEW n, n = s.n.p, NEW p, p = s.p.p,
         NEW i \in 1 .. n - 1, NEW j \in 1 .. n - 1, i # j, i + j # n
  PROVE  IsSum(s.multiples[(i + j) % n], s.multiples[i], s.multiples[j],
               s.multiples[j][2] - s.multiples[i][2],
               s.multiples[j][1] - s.multiples[i][1], p)
<1>1. IsGroup(s)
  BY CurveIs
<1>2. QED
  BY <1>1, Zenon DEF IsGroup

LEMMA GroupTangent ==
  ASSUME NEW s, IsCurve(s), NEW n, n = s.n.p, NEW p, p = s.p.p, NEW i \in 1 .. n - 1
  PROVE  IsSum(s.multiples[(i + i) % n], s.multiples[i], s.multiples[i],
               3 * s.multiples[i][1] * s.multiples[i][1] - s.minus_a,
               2 * s.multiples[i][2], p)
BY GroupPairs, Zenon

LEMMA PointSame ==
  ASSUME NEW s, IsCurve(s), NEW i \in Int, NEW j \in Int, Congruent(i, j, s.n.p)
  PROVE  Point(i, s) = Point(j, s)
<1>1. s.n.p \in Nat \ {0}
  BY CurveIs
<1>2. i % s.n.p = j % s.n.p
  BY <1>1, CongruentHasRest
<1>3. QED
  BY <1>2 DEF Point

(* The number of a point that is not zero.                                 *)
LEMMA PointNumber ==
  ASSUME NEW s, IsCurve(s), NEW j \in Int, ~Zero(j, s)
  PROVE  /\ j % s.n.p \in 1 .. s.n.p - 1 /\ Congruent(j % s.n.p, j, s.n.p)
         /\ Point(j, s) = s.multiples[j % s.n.p]
<1>1. PICK n \in Nat \ {0} : n = s.n.p
  BY CurveIs
<1>2. j % n \in Nat /\ j % n < n
  BY WholeDivision
<1>3. (j % n) % n = j % n
  BY <1>2, Below
<1>4. Congruent(j % n, j, n)
  BY <1>2, <1>3, RestCongruent
<1>5. j % n # 0
  <2> SUFFICES ASSUME j % n = 0 PROVE FALSE
    OBVIOUS
  <2>1. Congruent(0, j, n)
    BY <1>4
  <2>2. Congruent(j, 0, n)
    BY <2>1, CongruentBack
  <2>3. QED
    BY <1>1, <2>2 DEF Zero
<1>6. QED
  BY <1>1, <1>2, <1>4, <1>5 DEF Point

LEMMA PointIs ==
  ASSUME NEW s, IsCurve(s), NEW j \in Int, ~Zero(j, s)
  PROVE  /\ IsPair(Point(j, s))
         /\ Point(j, s)[1] \in 0 .. s.p.p - 1 /\ Point(j, s)[2] \in 0 .. s.p.p - 1
         /\ Point(j, s) \in (0 .. s.p.p - 1) \X (0 .. s.p.p - 1)
         /\ OnCurve(Point(j, s), s)
<1>1. PICK n \in Nat, p \in Nat, i \in Int : n = s.n.p /\ p = s.p.p /\ i = j % n /\ i \in 1 .. n - 1
  BY CurveIs, PointNumber
<1>2. s.multiples[i] \in (0 .. p - 1) \X (0 .. p - 1) /\ OnCurve(s.multiples[i], s)
  BY <1>1, GroupPoint
<1>3. Point(j, s) = s.multiples[i]
  BY <1>1 DEF Point
<1>4. QED
  BY <1>1, <1>2, <1>3 DEF IsPair

(* The curve, for its coordinates. *)
LEMMA CurveEquation ==
  ASSUME NEW s, IsCurve(s), NEW P, IsPair(P), OnCurve(P, s),
         NEW x \in Int, NEW y \in Int, x = P[1], y = P[2]
  PROVE  Congruent(y * y, x * x * x - s.minus_a * x + s.b, s.p.p)
<1>1. PICK p \in Nat \ {0}, a \in Int, b \in Int : p = s.p.p /\ a = s.minus_a /\ b = s.b
  BY CurveIs
<1>2. (x * x * x - a * x + b - y * y) % p = 0
  BY <1>1 DEF OnCurve
<1>3. PICK u \in Int, v \in Int : u = x * x * x - a * x + b /\ v = y * y
  OBVIOUS
<1>4. Congruent(u - v, 0, p)
  <2>1. (u - v) % p = 0
    BY <1>2, <1>3
  <2>2. u - v \in Int /\ 0 % p = 0
    OBVIOUS
  <2>3. QED
    BY <2>1, <2>2, RestCongruent
<1>5. Congruent((u - v) + v, 0 + v, p)
  BY <1>4, CongruentSame, CongruentPlus
<1>6. (u - v) + v = u /\ 0 + v = v
  OBVIOUS
<1>7. Congruent(v, u, p)
  BY <1>5, <1>6, CongruentBack
<1>8. QED
  BY <1>1, <1>3, <1>7

LEMMA PointOpposite ==
  ASSUME NEW s, IsCurve(s), NEW j \in Int, ~Zero(j, s)
  PROVE  /\ ~Zero(-j, s) /\ Point(-j, s)[1] = Point(j, s)[1]
         /\ Congruent(Point(-j, s)[2], -Point(j, s)[2], s.p.p)
         /\ Point(-j, s)[2] = (-Point(j, s)[2]) % s.p.p
<1>1. PICK n \in Nat \ {0}, p \in Nat \ {0}, i \in Int :
        n = s.n.p /\ p = s.p.p /\ i = j % n /\ i \in 1 .. n - 1 /\ Congruent(i, j, n)
  BY CurveIs, PointNumber
<1>2. PICK k \in 1 .. n - 1 : k = n - i
  BY <1>1
<1>3. Congruent(k, -j, n)
  <2>1. Congruent(n, 0, n)
    BY DEF Congruent
  <2>2. Congruent(n - i, 0 - j, n)
    BY <1>1, <2>1, CongruentPlus
  <2>3. QED
    BY <1>2, <2>2
<1>4. Point(-j, s) = s.multiples[k] /\ (-j) % n = k
  <2>1. k % n = k
    BY Below
  <2>2. (-j) % n = k % n
    BY <1>3, CongruentHasRest
  <2>3. QED
    BY <1>1, <2>1, <2>2 DEF Point
<1>5. Point(j, s) = s.multiples[i]
  BY <1>1 DEF Point
<1>6. s.multiples[k] = <<s.multiples[i][1], (-s.multiples[i][2]) % p>>
  BY <1>2, <1>1, GroupOpposite
<1>7. PICK y \in Int : y = Point(j, s)[2]
  BY PointIs
<1>8. Point(-j, s)[1] = Point(j, s)[1] /\ Point(-j, s)[2] = (-y) % p
  BY <1>4, <1>5, <1>6, <1>7
<1>9. Congruent((-y) % p, -y, p)
  BY WholeDivision, Below, RestCongruent
<1>10. ~Zero(-j, s)
  <2> SUFFICES ASSUME Congruent(-j, 0, n) PROVE FALSE
    BY <1>1 DEF Zero
  <2>1. (-j) % n = 0 % n /\ 0 % n = 0
    BY CongruentHasRest
  <2>2. QED
    BY <1>4, <2>1
<1>11. QED
  BY <1>1, <1>7, <1>8, <1>9, <1>10

(* No point has y = 0: there is none of order 2. *)
LEMMA YNotZero ==
  ASSUME NEW s, IsCurve(s), NEW j \in Int, ~Zero(j, s)
  PROVE  ~Congruent(Point(j, s)[2], 0, s.p.p) /\ Point(j, s)[2] # 0
<1>1. PICK n \in Nat \ {0}, p \in Nat \ {0}, y \in Int :
        n = s.n.p /\ p = s.p.p /\ y = Point(j, s)[2] /\ n % 2 = 1 /\ y \in 0 .. p - 1
  BY CurveIs, PointIs DEF Montgomery
<1>2. ASSUME y = 0 PROVE FALSE
  <2>1. (-y) % p = 0
    BY <1>2
  <2>2. Point(-j, s)[1] = Point(j, s)[1] /\ Point(-j, s)[2] = Point(j, s)[2] /\ ~Zero(-j, s)
    BY <1>1, <1>2, <2>1, PointOpposite
  <2>3. Point(-j, s) = Point(j, s)
    <3>1. PICK c1 \in Int, c2 \in Int, c3 \in Int, c4 \in Int :
            Point(j, s) = <<c1, c2>> /\ Point(-j, s) = <<c3, c4>>
      BY <1>1, <2>2, PointIs
    <3>2. QED
      BY <2>2, <3>1
  <2>4. PICK i \in 1 .. n - 1, k \in 1 .. n - 1 :
          /\ i = j % n /\ k = (-j) % n /\ Congruent(i, j, n) /\ Congruent(k, -j, n)
          /\ Point(j, s) = s.multiples[i] /\ Point(-j, s) = s.multiples[k]
    BY <1>1, <2>2, PointNumber
  <2>5. i = k
    BY <1>1, <2>3, <2>4, GroupOnce
  <2>6. Congruent(i + i, j + (-j), n)
    BY <2>4, <2>5, CongruentPlus
  <2>7. Congruent(2 * i, 2 * 0, n)
    BY <2>6
  <2>8. Congruent(i, 0, n)
    <3>1. PICK o \in Int : o = 0
      OBVIOUS
    <3>2. Congruent(2 * i, 2 * o, n)
      BY <2>7, <3>1
    <3>3. Congruent(i, o, n)
      BY <1>1, <3>2, CongruentHalf
    <3>4. QED
      BY <3>1, <3>3
  <2>9. i % n = 0 /\ i % n = i
    BY <2>8, CongruentHasRest, Below
  <2>10. QED
    BY <2>9
<1>3. ~Congruent(y, 0, p)
  <2> SUFFICES ASSUME Congruent(y, 0, p) PROVE FALSE
    OBVIOUS
  <2>1. y % p = 0 % p /\ 0 % p = 0 /\ y % p = y
    BY <1>1, CongruentHasRest, Below
  <2>2. QED
    BY <1>2, <2>1
<1>4. QED
  BY <1>1, <1>2, <1>3

(* Two points with the same x are the same or opposite. *)
LEMMA SquaresSame ==
  ASSUME NEW m, Montgomery(m), NEW u \in Int, NEW v \in Int, Congruent(u * u, v * v, m.p)
  PROVE  Congruent(u, v, m.p) \/ Congruent(u, -v, m.p)
<1>1. PICK p \in Nat : p = m.p
  BY DEF Montgomery
<1>2. PICK a \in Int, b \in Int, o \in Int : a = u - v /\ b = u + v /\ o = 0
  OBVIOUS
<1>3. a * b = u * u - v * v
  BY <1>2
<1>4. Congruent(a * b, o, p)
  <2>1. PICK uu \in Int, vv \in Int : uu = u * u /\ vv = v * v
    OBVIOUS
  <2>2. Congruent(uu, vv, p) /\ Congruent(vv, vv, p)
    BY <1>1, <2>1, CongruentSame
  <2>3. Congruent(uu - vv, vv - vv, p)
    BY <2>2, CongruentPlus
  <2>4. uu - vv = a * b /\ vv - vv = o
    BY <1>2, <1>3, <2>1
  <2>5. QED
    BY <2>3, <2>4
<1>5. Congruent(a, o, p) \/ Congruent(b, o, p)
  BY <1>1, <1>2, <1>4, NotZero
<1>6. Congruent(v, v, p) /\ Congruent(-v, -v, p)
  BY CongruentSame
<1>7. CASE Congruent(a, o, p)
  BY <1>6, <1>7, <1>2, <1>1, CongruentPlus
<1>8. CASE Congruent(b, o, p)
  <2>1. PICK w \in Int : w = -v
    OBVIOUS
  <2>2. Congruent(b + w, o + w, p)
    BY <1>6, <1>8, <2>1, CongruentPlus
  <2>3. b + w = u /\ o + w = -v
    BY <1>2, <2>1
  <2>4. QED
    BY <1>1, <2>2, <2>3
<1>9. QED
  BY <1>5, <1>7, <1>8

LEMMA Reduced ==
  ASSUME NEW p \in Nat \ {0}, NEW x \in 0 .. p - 1, NEW y \in 0 .. p - 1, Congruent(x, y, p)
  PROVE  x = y
<1>1. x % p = y % p /\ x % p = x /\ y % p = y
  BY CongruentHasRest, Below
<1>2. QED
  BY <1>1

LEMMA Apart ==
  ASSUME NEW s, IsCurve(s), NEW i \in Int, NEW j \in Int, ~Zero(i, s), ~Zero(j, s),
         Congruent(Point(i, s)[1], Point(j, s)[1], s.p.p)
  PROVE  Congruent(i, j, s.n.p) \/ Congruent(i, -j, s.n.p)
<1>1. PICK n \in Nat \ {0}, p \in Nat \ {0} : n = s.n.p /\ p = s.p.p
  BY CurveIs
<1>2. PICK xi \in 0 .. p - 1, yi \in 0 .. p - 1, xj \in 0 .. p - 1, yj \in 0 .. p - 1 :
        Point(i, s) = <<xi, yi>> /\ Point(j, s) = <<xj, yj>>
  BY <1>1, PointIs
<1>3. xi = xj
  BY <1>1, <1>2, Reduced
<1>4. Congruent(yi * yi, yj * yj, p)
  <2>1. PICK f \in Int : f = xi * xi * xi - s.minus_a * xi + s.b
    <3>1. PICK a \in Int, b \in Int : a = s.minus_a /\ b = s.b
      BY CurveIs
    <3>2. xi * xi * xi - a * xi + b \in Int
      OBVIOUS
    <3>3. QED
      BY <3>1, <3>2
  <2>2. IsPair(Point(i, s)) /\ IsPair(Point(j, s)) /\ OnCurve(Point(i, s), s) /\ OnCurve(Point(j, s), s)
    BY PointIs
  <2>3. xi = Point(i, s)[1] /\ yi = Point(i, s)[2] /\ xi = Point(j, s)[1] /\ yj = Point(j, s)[2]
        /\ xi \in Int /\ yi \in Int /\ yj \in Int
    BY <1>2, <1>3
  <2>4. Congruent(yi * yi, f, p)
    BY <1>1, <2>1, <2>2, <2>3, CurveEquation
  <2>5. Congruent(yj * yj, f, p)
    BY <1>1, <2>1, <2>2, <2>3, CurveEquation
  <2>6. yi * yi \in Int /\ yj * yj \in Int
    OBVIOUS
  <2>7. Congruent(f, yj * yj, p)
    BY <2>5, <2>6, CongruentBack
  <2>8. QED
    BY <2>4, <2>6, <2>7, CongruentThrough
<1>5. Congruent(yi, yj, p) \/ Congruent(yi, -yj, p)
  <2>1. Montgomery(s.p) /\ Congruent(yi * yi, yj * yj, s.p.p) /\ yi \in Int /\ yj \in Int
    BY <1>1, <1>4, CurveIs
  <2>2. QED
    BY <1>1, <2>1, SquaresSame
<1>6. \A k \in Int, l \in Int : ~Zero(k, s) /\ ~Zero(l, s) /\ Point(k, s) = Point(l, s)
        => Congruent(k, l, n)
  <2> SUFFICES ASSUME NEW k \in Int, NEW l \in Int, ~Zero(k, s), ~Zero(l, s), Point(k, s) = Point(l, s)
               PROVE  Congruent(k, l, n)
    OBVIOUS
  <2>1. PICK u \in 1 .. n - 1, v \in 1 .. n - 1 :
          /\ Congruent(u, k, n) /\ Congruent(v, l, n)
          /\ Point(k, s) = s.multiples[u] /\ Point(l, s) = s.multiples[v]
    BY <1>1, PointNumber
  <2>2. u = v
    BY <1>1, <2>1, GroupOnce
  <2>3. Congruent(k, u, n)
    BY <2>1, CongruentBack
  <2>4. QED
    BY <2>1, <2>2, <2>3, CongruentThrough
<1>7. CASE Congruent(yi, yj, p)
  BY <1>7, <1>1, <1>2, <1>3, <1>6, Reduced
<1>8. CASE Congruent(yi, -yj, p)
  <2>1. PICK xo \in Int, yo \in 0 .. p - 1 : Point(-j, s) = <<xo, yo>>
    BY <1>1, PointOpposite, PointIs
  <2>2. xo = xj /\ Congruent(yo, -yj, p) /\ ~Zero(-j, s) /\ -j \in Int
    BY <1>1, <1>2, <2>1, PointOpposite
  <2>3. yi = yo
    <3>1. PICK w \in Int : w = -yj
      OBVIOUS
    <3>2. Congruent(w, yo, p)
      BY <2>2, <3>1, CongruentBack
    <3>3. Congruent(yi, yo, p)
      BY <1>8, <3>1, <3>2, CongruentThrough
    <3>4. QED
      BY <3>3, Reduced
  <2>4. Point(i, s) = Point(-j, s)
    BY <1>2, <1>3, <2>1, <2>2, <2>3
  <2>5. QED
    BY <1>1, <1>6, <2>2, <2>4
<1>9. QED
  BY <1>5, <1>7, <1>8

(* Sums from remainders, and with a rise that is only congruent. *)
LEMMA SumsOf ==
  ASSUME NEW x3 \in Int, NEW y3 \in Int, NEW x1 \in Int, NEW y1 \in Int, NEW x2 \in Int,
         NEW rise \in Int, NEW run \in Int, NEW p \in Nat \ {0},
         ((x3 + x1 + x2) * run * run - rise * rise) % p = 0,
         ((y3 + y1) * run - rise * (x1 - x3)) % p = 0
  PROVE  Sums(x3, y3, x1, y1, x2, rise, run, p)
<1>1. ASSUME NEW u \in Int, NEW v \in Int, (u - v) % p = 0 PROVE Congruent(u, v, p)
  <2>1. PICK w \in Int : w = u - v
    OBVIOUS
  <2>2. Congruent(w, 0, p)
    BY <1>1, <2>1, RestCongruent
  <2>3. Congruent(w + v, 0 + v, p)
    BY <2>2, CongruentSame, CongruentPlus
  <2>4. w + v = u /\ 0 + v = v
    BY <2>1
  <2>5. QED
    BY <2>3, <2>4
<1>2. PICK f \in Int, g \in Int, h \in Int, l \in Int :
        f = (x3 + x1 + x2) * (run * run) /\ g = rise * rise
        /\ h = (y3 + y1) * run /\ l = rise * (x1 - x3)
  OBVIOUS
<1>3. (x3 + x1 + x2) * run * run = f
  BY <1>2
<1>4. (f - g) % p = 0 /\ (h - l) % p = 0
  BY <1>2, <1>3
<1>5. Congruent(f, g, p) /\ Congruent(h, l, p)
  BY <1>1, <1>4
<1>6. QED
  BY <1>2, <1>5 DEF Sums

LEMMA SumsSame ==
  ASSUME NEW x3 \in Int, NEW y3 \in Int, NEW x1 \in Int, NEW y1 \in Int, NEW x2 \in Int,
         NEW rise \in Int, NEW run \in Int, NEW p \in Nat, Sums(x3, y3, x1, y1, x2, rise, run, p),
         NEW other \in Int, Congruent(rise, other, p)
  PROVE  Sums(x3, y3, x1, y1, x2, other, run, p)
<1>1. PICK f \in Int, h \in Int, q \in Int :
        f = (x3 + x1 + x2) * (run * run) /\ h = (y3 + y1) * run /\ q = x1 - x3
  OBVIOUS
<1>2. Congruent(f, rise * rise, p) /\ Congruent(h, rise * q, p)
  BY <1>1 DEF Sums
<1>3. Congruent(rise * rise, other * other, p) /\ Congruent(rise * q, other * q, p)
  BY CongruentTimes, CongruentScale
<1>4. rise * rise \in Int /\ other * other \in Int /\ rise * q \in Int /\ other * q \in Int
  OBVIOUS
<1>5. Congruent(f, other * other, p) /\ Congruent(h, other * q, p)
  BY <1>2, <1>3, <1>4, CongruentThrough
<1>6. QED
  BY <1>1, <1>5 DEF Sums

LEMMA SumIndex ==
  ASSUME NEW s, IsCurve(s), NEW i \in Int, NEW j \in Int, NEW u \in Int, NEW v \in Int,
         Congruent(u, i, s.n.p), Congruent(v, j, s.n.p)
  PROVE  Point(i + j, s) = s.multiples[(u + v) % s.n.p]
<1>1. PICK n \in Nat \ {0} : n = s.n.p
  BY CurveIs
<1>2. Congruent(u + v, i + j, n)
  BY <1>1, CongruentPlus
<1>3. (u + v) % n = (i + j) % n
  BY <1>2, CongruentHasRest
<1>4. QED
  BY <1>1, <1>3 DEF Point

LEMMA SumsFrom ==
  ASSUME NEW R, NEW P, NEW P2, IsPair(R), IsPair(P), IsPair(P2), NEW rise \in Int, NEW run \in Int,
         NEW p \in Nat \ {0}, IsSum(R, P, P2, rise, run, p)
  PROVE  Sums(R[1], R[2], P[1], P[2], P2[1], rise, run, p)
<1>1. PICK x3 \in Int, y3 \in Int, x1 \in Int, y1 \in Int, x2 \in Int :
        x3 = R[1] /\ y3 = R[2] /\ x1 = P[1] /\ y1 = P[2] /\ x2 = P2[1]
  BY DEF IsPair
<1>2. /\ ((x3 + x1 + x2) * run * run - rise * rise) % p = 0
      /\ ((y3 + y1) * run - rise * (x1 - x3)) % p = 0
  BY <1>1, Zenon DEF IsSum
<1>3. Sums(x3, y3, x1, y1, x2, rise, run, p)
  BY <1>2, SumsOf
<1>4. QED
  BY <1>1, <1>3

LEMMA Chord ==
  ASSUME NEW s, IsCurve(s), NEW i \in Int, NEW j \in Int, ~Zero(i, s), ~Zero(j, s),
         ~Congruent(i, j, s.n.p), ~Congruent(i, -j, s.n.p)
  PROVE  ~Zero(i + j, s) /\ Adds(Point(i + j, s), Point(i, s), Point(j, s), s.p.p)
<1>1. PICK n \in Nat \ {0}, p \in Nat \ {0} : n = s.n.p /\ p = s.p.p
  BY CurveIs
<1>2. PICK u \in 1 .. n - 1, v \in 1 .. n - 1 :
        /\ Congruent(u, i, n) /\ Congruent(v, j, n)
        /\ Point(i, s) = s.multiples[u] /\ Point(j, s) = s.multiples[v]
  BY <1>1, PointNumber
<1>3. ~Zero(i + j, s)
  <2> SUFFICES ASSUME Congruent(i + j, 0, n) PROVE FALSE
    BY <1>1 DEF Zero
  <2>1. PICK w \in Int, q \in Int : w = -j /\ q = i + j
    OBVIOUS
  <2>2. Congruent(q, 0, n) /\ Congruent(w, w, n)
    BY <2>1, CongruentSame
  <2>3. Congruent(q + w, 0 + w, n)
    BY <2>2, CongruentPlus
  <2>4. q + w = i /\ 0 + w = -j
    BY <2>1
  <2>5. QED
    BY <1>1, <2>3, <2>4
<1>4. u # v
  <2> SUFFICES ASSUME u = v PROVE FALSE
    OBVIOUS
  <2>1. Congruent(i, u, n)
    BY <1>2, CongruentBack
  <2>2. Congruent(i, j, n)
    BY <1>2, <2>1, CongruentThrough
  <2>3. QED
    BY <1>1, <2>2
<1>5. u + v # n
  <2> SUFFICES ASSUME u + v = n PROVE FALSE
    OBVIOUS
  <2>1. Congruent(u + v, i + j, n)
    BY <1>2, CongruentPlus
  <2>2. Congruent(i + j, n, n)
    BY <2>1, CongruentBack
  <2>3. n = 0 + 1 * n
    OBVIOUS
  <2>4. Congruent(n, 0, n)
    BY <2>3 DEF Congruent
  <2>5. Congruent(i + j, 0, n)
    BY <2>2, <2>4, CongruentThrough
  <2>6. QED
    BY <1>1, <1>3, <2>5 DEF Zero
<1>6. PICK xi \in Int, yi \in Int, xj \in Int, yj \in Int :
        /\ xi = Point(i, s)[1] /\ yi = Point(i, s)[2] /\ xj = Point(j, s)[1] /\ yj = Point(j, s)[2]
        /\ IsPair(Point(i, s)) /\ IsPair(Point(j, s)) /\ IsPair(Point(i + j, s))
  BY <1>3, PointIs DEF IsPair
<1>7. Point(i + j, s) = s.multiples[(u + v) % n]
  BY <1>1, <1>2, SumIndex
<1>8. IsSum(Point(i + j, s), Point(i, s), Point(j, s), yj - yi, xj - xi, p)
  BY <1>1, <1>4, <1>5, <1>2, <1>6, <1>7, GroupChord
<1>9. Sums(Point(i + j, s)[1], Point(i + j, s)[2], Point(i, s)[1], Point(i, s)[2], Point(j, s)[1],
           yj - yi, xj - xi, p)
  BY <1>6, <1>8, SumsFrom
<1>10. QED
  BY <1>1, <1>3, <1>6, <1>9 DEF Adds

LEMMA ChordBack ==
  ASSUME NEW s, IsCurve(s), NEW i \in Int, NEW j \in Int, ~Zero(i, s), ~Zero(j, s),
         ~Congruent(i, j, s.n.p), ~Congruent(i, -j, s.n.p)
  PROVE  ~Zero(i - j, s) /\ Subtracts(Point(i - j, s), Point(i, s), Point(j, s), s.p.p)
<1>1. PICK n \in Nat \ {0}, p \in Nat \ {0}, k \in Int : n = s.n.p /\ p = s.p.p /\ k = -j
  BY CurveIs
<1>2. ~Zero(k, s) /\ Point(k, s)[1] = Point(j, s)[1] /\ Congruent(Point(k, s)[2], -Point(j, s)[2], p)
  BY <1>1, PointOpposite
<1>3. i + k = i - j /\ -k = j
  BY <1>1
<1>4. ~Zero(i - j, s) /\ Adds(Point(i - j, s), Point(i, s), Point(k, s), p)
  <2>1. ~Zero(i + k, s) /\ Adds(Point(i + k, s), Point(i, s), Point(k, s), s.p.p)
    BY <1>1, <1>3, <1>2, Chord
  <2>2. QED
    BY <1>1, <1>3, <2>1
<1>5. PICK x3 \in Int, y3 \in Int, xi \in Int, yi \in Int, xj \in Int, yj \in Int, yk \in Int :
        /\ x3 = Point(i - j, s)[1] /\ y3 = Point(i - j, s)[2]
        /\ xi = Point(i, s)[1] /\ yi = Point(i, s)[2]
        /\ xj = Point(j, s)[1] /\ yj = Point(j, s)[2] /\ yk = Point(k, s)[2]
  <2>1. i - j \in Int
    OBVIOUS
  <2>2. IsPair(Point(i, s)) /\ IsPair(Point(j, s)) /\ IsPair(Point(k, s)) /\ IsPair(Point(i - j, s))
    BY <1>2, <1>4, <2>1, PointIs
  <2>3. QED
    BY <2>2 DEF IsPair
<1>6. PICK rise \in Int, other \in Int, run \in Int : rise = yk - yi /\ other = -yj - yi /\ run = xj - xi
  <2>1. yk - yi \in Int /\ -yj - yi \in Int /\ xj - xi \in Int
    OBVIOUS
  <2>2. QED
    BY <2>1, Zenon
<1>7. Sums(x3, y3, xi, yi, xj, rise, run, p)
  BY <1>2, <1>4, <1>5, <1>6 DEF Adds
<1>8. Congruent(rise, other, p)
  <2>1. PICK w \in Int : w = -yj
    OBVIOUS
  <2>2. Congruent(yk, w, p) /\ Congruent(yi, yi, p)
    BY <1>2, <1>5, <2>1, CongruentSame
  <2>3. Congruent(yk - yi, w - yi, p)
    BY <2>2, CongruentPlus
  <2>4. QED
    BY <1>6, <2>1, <2>3
<1>9. Sums(x3, y3, xi, yi, xj, other, run, p)
  BY <1>7, <1>8, SumsSame
<1>10. QED
  BY <1>1, <1>4, <1>5, <1>6, <1>9 DEF Subtracts

LEMMA Tangent ==
  ASSUME NEW s, IsCurve(s), NEW j \in Int, ~Zero(j, s)
  PROVE  ~Zero(2 * j, s) /\ Doubles(Point(2 * j, s), Point(j, s), s.minus_a, s.p.p)
<1>1. PICK n \in Nat \ {0}, p \in Nat \ {0}, a \in Int : n = s.n.p /\ p = s.p.p /\ n % 2 = 1 /\ a = s.minus_a
  BY CurveIs DEF Montgomery
<1>2. PICK u \in 1 .. n - 1 : Congruent(u, j, n) /\ Point(j, s) = s.multiples[u]
  BY <1>1, PointNumber
<1>3. PICK k \in Int : k = 2 * j /\ k = j + j
  OBVIOUS
<1>4. ~Zero(k, s)
  <2> SUFFICES ASSUME Congruent(k, 0, n) PROVE FALSE
    BY <1>1 DEF Zero
  <2>1. PICK o \in Int : o = 0
    OBVIOUS
  <2>2. Congruent(2 * j, 2 * o, n)
    BY <1>3, <2>1
  <2>3. Congruent(j, o, n)
    BY <1>1, <2>2, CongruentHalf
  <2>4. QED
    BY <1>1, <2>1, <2>3 DEF Zero
<1>5. PICK x \in Int, y \in Int :
        x = Point(j, s)[1] /\ y = Point(j, s)[2] /\ IsPair(Point(j, s)) /\ IsPair(Point(k, s))
  BY <1>4, PointIs DEF IsPair
<1>6. Point(k, s) = s.multiples[(u + u) % n]
  BY <1>1, <1>2, <1>3, SumIndex
<1>7. IsSum(Point(k, s), Point(j, s), Point(j, s), 3 * x * x - a, 2 * y, p)
  <2>1. IsSum(s.multiples[(u + u) % n], s.multiples[u], s.multiples[u],
              3 * s.multiples[u][1] * s.multiples[u][1] - a, 2 * s.multiples[u][2], p)
    BY <1>1, GroupTangent
  <2>2. QED
    BY <1>2, <1>5, <1>6, <2>1, Zenon
<1>8. 3 * x * x - a \in Int /\ 2 * y \in Int
  OBVIOUS
<1>9. Sums(Point(k, s)[1], Point(k, s)[2], Point(j, s)[1], Point(j, s)[2], Point(j, s)[1],
           3 * x * x - a, 2 * y, p)
  BY <1>5, <1>7, <1>8, SumsFrom
<1>10. QED
  BY <1>1, <1>3, <1>4, <1>5, <1>9, Zenon DEF Doubles

--------------------------------------------------------------------------------
(* Checks.                                                                 *)

Points(s) == {s.multiples[j] : j \in 1 .. s.n.p - 1}

(* The points are all that is reduced and on the curve; none has y = 0. *)
LEMMA PointsAre ==
  ASSUME NEW s, IsCurve(s), NEW x \in Int, NEW y \in Int
  PROVE  /\ <<x, y>> \in Points(s) <=>
              x \in 0 .. s.p.p - 1 /\ y \in 0 .. s.p.p - 1 /\ OnCurve(<<x, y>>, s)
         /\ <<x, y>> \in Points(s) => y # 0
<1>1. PICK n \in Nat \ {0}, p \in Nat \ {0} : n = s.n.p /\ p = s.p.p
  BY CurveIs
<1>2. ASSUME <<x, y>> \in Points(s)
      PROVE  x \in 0 .. p - 1 /\ y \in 0 .. p - 1 /\ OnCurve(<<x, y>>, s) /\ y # 0
  <2>1. PICK j \in 1 .. n - 1 : <<x, y>> = s.multiples[j]
    BY <1>1, <1>2 DEF Points
  <2>2. <<x, y>> \in (0 .. p - 1) \X (0 .. p - 1) /\ OnCurve(<<x, y>>, s)
    BY <1>1, <2>1, GroupPoint
  <2>3. j \in Int /\ ~Zero(j, s) /\ Point(j, s) = <<x, y>>
    <3>1. j % n = j
      BY Below
    <3>2. ~Congruent(j, 0, n)
      <4> SUFFICES ASSUME Congruent(j, 0, n) PROVE FALSE
        OBVIOUS
      <4>1. j % n = 0 % n /\ 0 % n = 0
        BY CongruentHasRest
      <4>2. QED
        BY <3>1, <4>1
    <3>3. QED
      BY <1>1, <2>1, <3>1, <3>2 DEF Point, Zero
  <2>4. y # 0
    BY <2>3, YNotZero
  <2>5. QED
    BY <2>2, <2>4
<1>3. ASSUME x \in 0 .. p - 1, y \in 0 .. p - 1, OnCurve(<<x, y>>, s) PROVE <<x, y>> \in Points(s)
  <2>1. \A P \in (0 .. p - 1) \X (0 .. p - 1) : OnCurve(P, s) => \E j \in 1 .. n - 1 : s.multiples[j] = P
    <3>1. IsGroup(s)
      BY CurveIs
    <3>2. QED
      BY <1>1, <3>1, Zenon DEF IsGroup
  <2>2. <<x, y>> \in (0 .. p - 1) \X (0 .. p - 1)
    BY <1>3
  <2>3. \E j \in 1 .. n - 1 : s.multiples[j] = <<x, y>>
    BY <1>3, <2>1, <2>2
  <2>4. QED
    BY <1>1, <2>3 DEF Points
<1>4. QED
  BY <1>1, <1>2, <1>3

(* x^3 + a * x + b, quasi-reduced. *)
LEMMA CurveY2 ==
  ASSUME NEW s, IsCurve(s), NEW x \in Int
  PROVE  /\ x * x * x - s.minus_a * x + s.b \in Int
         /\ sb_sw_curve_y2(Q(x, s.p), s) = Q(x * x * x - s.minus_a * x + s.b, s.p)
<1> PICK m : m = s.p
  OBVIOUS
<1>1. PICK p \in Nat \ {0}, a \in Int, b \in Int :
        m = s.p /\ p = m.p /\ a = s.minus_a /\ b = s.b /\ Montgomery(m)
  BY CurveIs
<1>2. PICK X \in Int : X = Q(x, m) /\ Congruent(X, x, p)
  BY <1>1, QIs
<1>3. mont_convert(X, m) = E(X, m)
  BY <1>1, EConvert
<1>4. PICK xx \in Int, u \in Int : xx = X * X /\ u = xx - a
  OBVIOUS
<1>5. mont_mult(E(X, m), X, m) = Q(xx, m)
  BY <1>1, <1>4, EPlain
<1>6. PICK qx \in Int : qx = Q(xx, m) /\ Congruent(qx, xx, p)
  BY <1>1, QIs
<1>7. PICK t \in Int : t = Q(qx - a, m) /\ Congruent(t, qx - a, p)
  BY <1>1, QIs
<1>8. Congruent(t, u, p)
  BY <1>6, <1>4, <1>7, CongruentSame, CongruentPlus, CongruentThrough
<1>9. PICK v \in Int, w \in Int : v = X * t /\ w = x * x * x - a * x
  OBVIOUS
<1>10. Congruent(v, w, p)
  <2>1. Congruent(X * X, x * x, p)
    BY <1>2, CongruentTimes
  <2>2. PICK q \in Int : q = x * x
    OBVIOUS
  <2>3. Congruent(xx, q, p) /\ Congruent(a, a, p)
    BY <1>4, <2>1, <2>2, CongruentSame
  <2>4. Congruent(xx - a, q - a, p)
    BY <2>3, CongruentPlus
  <2>5. PICK z \in Int : z = q - a
    OBVIOUS
  <2>6. Congruent(t, z, p)
    BY <1>4, <1>8, <2>4, <2>5, CongruentThrough
  <2>7. Congruent(X * t, x * z, p)
    BY <1>2, <2>6, CongruentTimes
  <2>8. x * z = w
    BY <1>9, <2>2, <2>5
  <2>9. QED
    BY <1>9, <2>7, <2>8
<1>11. mont_mult(E(X, m), t, m) = Q(v, m)
  BY <1>1, <1>9, EPlain
<1>12. Q(v, m) = Q(w, m)
  BY <1>1, <1>10, QSame
<1>13. PICK qw \in Int : qw = Q(w, m) /\ Congruent(qw, w, p)
  BY <1>1, QIs
<1>14. Congruent(qw + b, w + b, p)
  BY <1>13, CongruentSame, CongruentPlus
<1>15. Q(qw + b, m) = Q(w + b, m)
  BY <1>1, <1>14, QSame
<1>16. sb_sw_curve_y2(X, s) = Q(w + b, m)
  <2>1. mod_sub(mont_mult(mont_convert(X, m), X, m), a, m) = t
    BY <1>3, <1>5, <1>6, <1>7 DEF mod_sub
  <2>2. mont_mult(mont_convert(X, m), t, m) = qw
    BY <1>3, <1>11, <1>12, <1>13
  <2>3. mod_add(qw, b, m) = Q(w + b, m)
    BY <1>15 DEF mod_add
  <2>4. sb_sw_curve_y2(X, s) =
          mod_add(mont_mult(mont_convert(X, m), mod_sub(mont_mult(mont_convert(X, m), X, m), a, m), m), b, m)
    BY <1>1, Zenon DEF sb_sw_curve_y2
  <2>5. QED
    BY <2>1, <2>2, <2>3, <2>4
<1>17. w + b = x * x * x - a * x + b /\ w + b \in Int
  BY <1>9
<1>18. QED
  BY <1>1, <1>2, <1>16, <1>17

LEMMA OnCurveIs ==
  ASSUME NEW s, IsCurve(s), NEW x \in Int, NEW y \in Int
  PROVE  OnCurve(<<x, y>>, s) <=> Congruent(x * x * x - s.minus_a * x + s.b, y * y, s.p.p)
<1>1. PICK p \in Nat \ {0}, a \in Int, b \in Int : p = s.p.p /\ a = s.minus_a /\ b = s.b
  BY CurveIs
<1>2. PICK w \in Int, v \in Int : w = x * x * x - a * x + b /\ v = y * y
  OBVIOUS
<1>3. OnCurve(<<x, y>>, s) <=> (w - v) % p = 0
  BY <1>1, <1>2 DEF OnCurve
<1>4. (w - v) % p = 0 <=> Congruent(w - v, 0, p)
  BY RestCongruent, CongruentHasRest
<1>5. Congruent(w - v, 0, p) <=> Congruent(w, v, p)
  <2>1. PICK u \in Int : u = w - v
    OBVIOUS
  <2>2. Congruent(v, v, p)
    BY CongruentSame
  <2>3. ASSUME Congruent(u, 0, p) PROVE Congruent(w, v, p)
    BY <2>2, <2>3, <2>1, CongruentPlus
  <2>4. ASSUME Congruent(w, v, p) PROVE Congruent(u, 0, p)
    BY <2>2, <2>4, <2>1, CongruentPlus
  <2>5. QED
    BY <2>1, <2>3, <2>4
<1>6. QED
  BY <1>1, <1>2, <1>3, <1>4, <1>5

(* Coordinates are accepted when they are those of a point.                *)
LEMMA ValidateIs ==
  ASSUME NEW s, IsCurve(s), NEW x, NEW px \in Nat, NEW py \in Nat, x.px = px, x.py = py
  PROVE  sb_sw_point_validate(x, s).ok <=> <<px, py>> \in Points(s)
<1> PICK m : m = s.p
  OBVIOUS
<1>1. PICK p \in Nat \ {0} : m = s.p /\ p = m.p /\ Montgomery(m)
  BY CurveIs
<1>2. PICK Y \in Int : Y = Q(py, m) /\ Congruent(Y, py, p)
  BY <1>1, QIs
<1>3. PICK i \in Int, r \in Int : i = m.rinv /\ r = m.r_mod_p /\ Congruent(i * r, 1, p)
  BY <1>1 DEF Montgomery
<1>4. PICK yy \in Int, v \in Int, u \in Int : yy = Y * Y /\ v = yy * i /\ u = v * r
  OBVIOUS
<1>5. mont_convert(mont_square(Y, m), m) = Q(u, m)
  <2>1. mont_square(Y, m) = Q(v, m)
    BY <1>3, <1>4 DEF mont_square, mont_mult
  <2>2. mont_convert(Q(v, m), m) = E(Q(v, m), m) /\ E(Q(v, m), m) = E(v, m)
    BY <1>1, QIs, EConvert
  <2>3. QED
    BY <1>3, <1>4, <2>1, <2>2 DEF E
<1>6. Congruent(u, py * py, p)
  <2>1. PICK w \in Int : w = i * r /\ Congruent(w, 1, p)
    BY <1>3
  <2>2. u = yy * w
    BY <1>4, <2>1
  <2>3. PICK o \in Int : o = 1
    OBVIOUS
  <2>4. Congruent(yy * w, yy * o, p)
    BY <2>1, <2>3, CongruentScale
  <2>5. yy * o = yy
    BY <2>3
  <2>6. Congruent(Y * Y, py * py, p)
    BY <1>2, CongruentTimes
  <2>7. Congruent(u, yy, p) /\ Congruent(yy, py * py, p) /\ py * py \in Int
    BY <1>4, <2>2, <2>4, <2>5, <2>6
  <2>8. QED
    BY <2>7, CongruentThrough
<1>7. PICK f \in Int, q \in Int : f = px * px * px - s.minus_a * px + s.b /\ q = py * py
  BY CurveY2
<1>8. Q(u, m) = Q(q, m)
  BY <1>1, <1>6, <1>7, QSame
<1>9. sb_sw_curve_y2(Q(px, m), s) = Q(f, m)
  BY <1>1, <1>7, CurveY2
<1>10. (Q(f, m) = Q(q, m)) <=> Congruent(f, q, p)
  BY <1>1, QSame, QBack
<1>11. OnCurve(<<px, py>>, s) <=> Congruent(f, q, p)
  BY <1>1, <1>7, OnCurveIs
<1>12. sb_sw_point_validate(x, s).ok <=>
         py # 0 /\ px < p /\ py < p /\ sb_sw_curve_y2(Q(px, m), s) = mont_convert(mont_square(Y, m), m)
  BY <1>1, <1>2 DEF sb_sw_point_validate, mod_reduce
<1>13. <<px, py>> \in Points(s) <=>
         px \in 0 .. p - 1 /\ py \in 0 .. p - 1 /\ OnCurve(<<px, py>>, s) /\ py # 0
  BY <1>1, PointsAre
<1>14. QED
  BY <1>5, <1>8, <1>9, <1>10, <1>11, <1>12, <1>13

LEMMA LowestBit ==
  ASSUME NEW a \in Nat
  PROVE  test_bit(a, 0) = a % 2
<1>1. TwoTo[0] = 1
  BY TwoToIs
<1>2. a \div 1 = a
  OBVIOUS
<1>3. QED
  BY <1>1, <1>2 DEF test_bit

LEMMA NegateIs ==
  ASSUME NEW m, Montgomery(m), NEW a \in 1 .. m.p - 1
  PROVE  mod_negate(a, m) = m.p - a /\ mod_negate(m.p, m) = m.p
<1>1. PICK p \in Nat \ {0} : p = m.p
  BY DEF Montgomery
<1>2. -a - 1 = (-1) * p + (p - a - 1) /\ p - a - 1 \in Nat /\ p - a - 1 < p
  BY <1>1
<1>3. (-a - 1) % p = p - a - 1
  <2>1. PICK q \in Int, r \in Nat : q = -1 /\ r = p - a - 1 /\ r < p
    BY <1>2
  <2>3. (q * p + r) % p = r
    BY <2>1, WholeQuotient
  <2>2. QED
    BY <1>2, <2>1, <2>3
<1>4. -p - 1 = (-2) * p + (p - 1) /\ p - 1 \in Nat /\ p - 1 < p
  BY <1>1
<1>5. (-p - 1) % p = p - 1
  BY <1>4, WholeQuotient
<1>6. QED
  BY <1>1, <1>2, <1>3, <1>4, <1>5 DEF mod_negate, Q

LEMMA NegateParity ==
  ASSUME NEW p \in Nat, p % 2 = 1, NEW a \in 1 .. p - 1
  PROVE  (p - a) % 2 # a % 2 /\ a % 2 \in {0, 1} /\ (p - a) % 2 \in {0, 1}
OBVIOUS

LEMMA OppositeSquare ==
  ASSUME NEW a \in Int, NEW p \in Nat
  PROVE  Congruent((p - a) * (p - a), a * a, p)
<1>1. (p - a) * (p - a) = a * a + (p - 2 * a) * p /\ p - 2 * a \in Int
  OBVIOUS
<1>2. QED
  BY <1>1 DEF Congruent

LEMMA SquareIs ==
  ASSUME NEW m, Montgomery(m), NEW a \in Int, NEW b \in Int, Congruent(a, b, m.p)
  PROVE  Square(a, m) <=> \E r \in 1 .. m.p : Congruent(r * r, b, m.p)
<1>1. PICK p \in Nat \ {0} : p = m.p
  BY DEF Montgomery
<1>2. ASSUME NEW r \in Int PROVE (r * r) % p = a % p <=> Congruent(r * r, b, p)
  BY <1>1, RestCongruent, CongruentHasRest, CongruentThrough, CongruentBack
<1>3. QED
  BY <1>1, <1>2 DEF Square

(* The root of a number that is not zero: what is said of it. *)
LEMMA RootIs ==
  ASSUME NEW s, IsCurve(s), NEW m, m = s.p, NEW f \in Int, ~Congruent(f, 0, m.p), NEW a \in Int,
         Congruent(a, f, m.p), Square(a, m), NEW root, root = mod_sqrt(a, m).root
  PROVE  root \in 1 .. m.p - 1 /\ Congruent(root * root, f, m.p)
<1>1. PICK p \in Nat \ {0} : p = m.p /\ Montgomery(m)
  BY CurveIs
<1>2. PICK r \in 1 .. p : Congruent(r * r, f, p)
  BY <1>1, SquareIs
<1>3. ASSUME NEW q \in 1 .. p, Congruent(q * q, f, p) PROVE q # p
  <2> SUFFICES ASSUME q = p PROVE FALSE
    OBVIOUS
  <2>1. p * p = 0 + p * p
    OBVIOUS
  <2>2. Congruent(p * p, 0, p)
    BY <2>1 DEF Congruent
  <2>3. PICK pp \in Int : pp = p * p
    OBVIOUS
  <2>4. Congruent(pp, f, p) /\ Congruent(pp, 0, p)
    BY <1>3, <2>2, <2>3
  <2>5. Congruent(f, pp, p)
    BY <2>4, CongruentBack
  <2>6. Congruent(f, 0, p)
    BY <2>4, <2>5, CongruentThrough
  <2>7. QED
    BY <1>1, <2>6
<1>4. \E q \in 1 .. p : Congruent(q * q, f, p) /\ Square(q, m)
  <2>1. r \in 1 .. p - 1
    BY <1>2, <1>3
  <2>2. Square(r, m) \/ Square(p - r, m)
    BY <1>1, <2>1 DEF IsCurve
  <2>3. Congruent((p - r) * (p - r), f, p) /\ p - r \in 1 .. p
    <3>0. r \in Int
      OBVIOUS
    <3>1. PICK u \in Int, v \in Int : u = (p - r) * (p - r) /\ v = r * r
      BY <3>0
    <3>2. Congruent(u, v, p) /\ Congruent(v, f, p)
      BY <1>2, <3>0, <3>1, OppositeSquare
    <3>3. Congruent(u, f, p)
      BY <3>2, CongruentThrough
    <3>4. QED
      BY <2>1, <3>1, <3>3
  <2>4. QED
    BY <1>2, <2>2, <2>3
<1>5. \A q \in 1 .. m.p : (q * q) % m.p = a % m.p <=> Congruent(q * q, f, p)
  <2> SUFFICES ASSUME NEW q \in 1 .. p PROVE (q * q) % p = a % p <=> Congruent(q * q, f, p)
    BY <1>1
  <2>1. PICK u \in Int : u = q * q
    OBVIOUS
  <2>2. u % p = a % p <=> Congruent(u, a, p)
    BY RestCongruent, CongruentHasRest
  <2>3. Congruent(a, f, p) /\ Congruent(f, a, p)
    BY <1>1, CongruentBack
  <2>4. Congruent(u, a, p) <=> Congruent(u, f, p)
    BY <2>3, CongruentThrough
  <2>5. QED
    BY <2>1, <2>2, <2>4
<1>6. root = CHOOSE q \in 1 .. m.p : (q * q) % m.p = a % m.p /\ Square(q, m)
  BY DEF mod_sqrt
<1>7. \E q \in 1 .. m.p : (q * q) % m.p = a % m.p /\ Square(q, m)
  BY <1>1, <1>4, <1>5
<1>8. root \in 1 .. m.p /\ (root * root) % m.p = a % m.p
  BY <1>6, <1>7, Zenon
<1>9. root \in 1 .. p /\ Congruent(root * root, f, p)
  BY <1>1, <1>5, <1>8
<1>10. QED
  BY <1>1, <1>3, <1>9

(* An x is completed when there is such a point, to the one of that sign.  *)
LEMMA DecompressIs ==
  ASSUME NEW s, IsCurve(s), NEW x, "py" \in DOMAIN x, NEW px \in Nat, x.px = px,
         NEW sign \in 0 .. 1, NEW u, u = sb_sw_point_decompress(x, sign, s)
  PROVE  /\ u.ok <=> \E P \in Points(s) : P[1] = px
         /\ u.ok => <<px, u.c.py>> \in Points(s) /\ u.c.py % 2 = sign
<1> PICK m : m = s.p
  OBVIOUS
<1>1. PICK p \in Nat \ {0} : p = m.p /\ Montgomery(m) /\ p % 2 = 1
  BY CurveIs DEF Montgomery
<1>2. PICK f \in Int : f = px * px * px - s.minus_a * px + s.b
  BY CurveY2
<1>3. PICK a \in Int : a = Q(f, m) /\ Congruent(a, f, p)
  BY <1>1, QIs
<1>4. sb_sw_curve_y2(Q(px, m), s) = a
  BY <1>1, <1>2, <1>3, CurveY2
<1> DEFINE root == mod_sqrt(a, m).root
           Y == IF test_bit(root, 0) # sign THEN mod_negate(root, m) ELSE root
<1>5. u.ok <=> px < p /\ Square(a, m)
  BY <1>1, <1>4 DEF sb_sw_point_decompress, mod_sqrt, mod_reduce
<1>6. u.c.py = Y
  <2>1. u.c = [x EXCEPT !.px = Q(px, m), !.py = Y]
    BY <1>1, <1>4 DEF sb_sw_point_decompress, mod_reduce
  <2> HIDE DEF Y
  <2>2. QED
    BY <2>1
<1>7. ASSUME NEW y \in Int, y \in 0 .. p - 1, px < p
      PROVE  <<px, y>> \in Points(s) <=> Congruent(y * y, f, p)
  <2>1. PICK v \in Int : v = y * y
    OBVIOUS
  <2>2. OnCurve(<<px, y>>, s) <=> Congruent(f, v, p)
    BY <1>1, <1>2, <2>1, OnCurveIs
  <2>3. Congruent(f, v, p) <=> Congruent(v, f, p)
    BY CongruentBack
  <2>4. <<px, y>> \in Points(s) <=> px \in 0 .. p - 1 /\ y \in 0 .. p - 1 /\ OnCurve(<<px, y>>, s)
    BY <1>1, PointsAre
  <2>5. QED
    BY <1>7, <2>1, <2>2, <2>3, <2>4
<1>8. ASSUME px < p PROVE ~Congruent(f, 0, p)
  <2> SUFFICES ASSUME Congruent(f, 0, p) PROVE FALSE
    OBVIOUS
  <2>1. PICK y \in Int : y = 0 /\ y \in 0 .. p - 1
    OBVIOUS
  <2>2. y * y = 0
    BY <2>1
  <2>3. Congruent(y * y, f, p)
    BY <2>2, CongruentBack
  <2>4. <<px, y>> \in Points(s)
    BY <1>7, <1>8, <2>1, <2>3
  <2>5. QED
    BY <2>1, <2>4, PointsAre
<1>9. Square(a, m) <=> \E r \in 1 .. p : Congruent(r * r, f, p)
  BY <1>1, <1>3, SquareIs
<1>10. ASSUME u.ok PROVE <<px, u.c.py>> \in Points(s) /\ u.c.py % 2 = sign
  <2>1. px < p /\ Square(a, m)
    BY <1>5, <1>10
  <2>2. root \in 1 .. p - 1 /\ Congruent(root * root, f, p)
    BY <1>1, <1>3, <1>8, <2>1, RootIs
  <2> HIDE DEF root
  <2>3. test_bit(root, 0) = root % 2
    BY <2>2, LowestBit
  <2>4. mod_negate(root, m) = p - root
    BY <1>1, <2>2, NegateIs
  <2>5. (p - root) % 2 # root % 2 /\ root % 2 \in {0, 1} /\ (p - root) % 2 \in {0, 1}
    BY <1>1, <2>2, NegateParity
  <2>6. Congruent((p - root) * (p - root), f, p)
    <3>1. root \in Int
      BY <2>2
    <3>2. PICK v \in Int, w \in Int : v = (p - root) * (p - root) /\ w = root * root
      BY <3>1
    <3>3. Congruent(v, w, p) /\ Congruent(w, f, p)
      BY <2>2, <3>1, <3>2, OppositeSquare
    <3>4. Congruent(v, f, p)
      BY <3>3, CongruentThrough
    <3>5. QED
      BY <3>2, <3>4
  <2>7. CASE root % 2 = sign
    BY <1>6, <2>3, <2>7, <1>7, <2>1, <2>2
  <2>8. CASE root % 2 # sign
    <3>1. u.c.py = p - root
      BY <1>6, <2>3, <2>4, <2>8
    <3>2. p - root \in Int /\ p - root \in 0 .. p - 1
      BY <2>2
    <3>3. <<px, p - root>> \in Points(s)
      BY <1>7, <2>1, <2>6, <3>2
    <3>4. (p - root) % 2 = sign
      BY <2>5, <2>8
    <3>5. QED
      BY <3>1, <3>3, <3>4
  <2>9. QED
    BY <2>7, <2>8
<1>11. ASSUME NEW P \in Points(s), P[1] = px PROVE u.ok
  <2>1. PICK j \in 1 .. s.n.p - 1 : P = s.multiples[j]
    BY DEF Points
  <2>2. P \in (0 .. p - 1) \X (0 .. p - 1)
    BY <1>1, <2>1, GroupPoint
  <2>3. PICK y \in 0 .. p - 1 : P = <<px, y>> /\ px < p
    BY <1>11, <2>2
  <2>4. y # 0 /\ y \in Int
    BY <1>11, <2>3, PointsAre
  <2>5. Congruent(y * y, f, p)
    BY <1>7, <1>11, <2>3, <2>4
  <2>6. y \in 1 .. p
    BY <2>4
  <2>7. QED
    BY <1>5, <1>9, <2>3, <2>5, <2>6
<1>12. QED
  <2>1. ASSUME u.ok PROVE \E P \in Points(s) : P[1] = px
    <3>1. PICK P \in Points(s) : P = <<px, u.c.py>>
      BY <1>10, <2>1
    <3>2. P[1] = px
      BY <3>1
    <3>3. QED
      BY <3>2
  <2>2. QED
    BY <1>10, <1>11, <2>1

LEMMA CheckedIs ==
  ASSUME NEW m, Montgomery(m), NEW a \in Nat
  PROVE  /\ Checked(a, m) \in [k : Nat, ok : BOOLEAN]
         /\ Checked(a, m).ok <=> a \in 1 .. m.p - 1
         /\ Checked(a, m).ok => Checked(a, m).k = a
<1>1. PICK p \in Nat \ {0} : p = m.p
  BY DEF Montgomery
<1>2. PICK r \in Nat : r = Q(a, m) /\ r \in 1 .. p
  BY <1>1, QIs
<1>3. ASSUME a \in 1 .. p PROVE r = a
  BY <1>1, <1>2, <1>3, QOf
<1>4. ASSUME a = 0 PROVE r = p
  <2>1. Congruent(p, 0, p)
    BY DEF Congruent
  <2>2. Q(p, m) = Q(0, m)
    BY <1>1, <2>1, QSame
  <2>3. Q(p, m) = p
    BY <1>1, QOf
  <2>4. QED
    BY <1>2, <1>4, <2>2, <2>3
<1>5. Checked(a, m) = [k |-> r, ok |-> a < p /\ r # p]
  BY <1>1, <1>2 DEF Checked, mod_reduce
<1>6. a < p /\ r # p <=> a \in 1 .. p - 1
  BY <1>2, <1>3, <1>4
<1>7. a \in 1 .. p - 1 => r = a
  BY <1>3
<1>8. PICK u : u = Checked(a, m)
  OBVIOUS
<1>9. u \in [k : Nat, ok : BOOLEAN] /\ u.k = r /\ u.ok = (a < p /\ r # p)
  BY <1>5, <1>8
<1>10. QED
  BY <1>1, <1>6, <1>7, <1>8, <1>9

LEMMA CandidateTried ==
  ASSUME NEW m, Montgomery(m), NEW buf \in Seq(Nat), buf # <<>>
  PROVE  \E t \in [DOMAIN buf -> [k : Nat, ok : BOOLEAN]] :
           /\ t[1] = Checked(buf[1], m)
           /\ \A i \in DOMAIN buf : i # 1 =>
                t[i] = Checked(IF t[i - 1].ok THEN t[i - 1].k ELSE buf[i], m)
           /\ Candidate(buf, m) = t[Len(buf)]
<1>1. PICK n \in Nat \ {0} : n = Len(buf) /\ DOMAIN buf = 1 .. n
  OBVIOUS
<1> DEFINE S == [k : Nat, ok : BOOLEAN]
           step == [i \in Nat |-> [v \in S |->
                      IF i + 2 \in DOMAIN buf THEN Checked(IF v.ok THEN v.k ELSE buf[i + 2], m) ELSE v]]
<1>2. Checked(buf[1], m) \in S
  BY <1>1, CheckedIs
<1>3. Steps(step, S)
  <2>1. ASSUME NEW i \in Nat, NEW v \in S
        PROVE (IF i + 2 \in DOMAIN buf THEN Checked(IF v.ok THEN v.k ELSE buf[i + 2], m) ELSE v) \in S
    <3>1. CASE i + 2 \in DOMAIN buf
      <4>1. PICK a \in Nat : a = IF v.ok THEN v.k ELSE buf[i + 2]
        BY <3>1
      <4>2. Checked(a, m) \in S
        BY CheckedIs
      <4>3. QED
        BY <3>1, <4>1, <4>2
    <3>2. QED
      BY <3>1
  <2> HIDE DEF S
  <2>2. QED
    BY <2>1 DEF Steps
<1> HIDE DEF S
<1>4. PICK u : Iterates(u, Checked(buf[1], m), step, S)
  <2> HIDE DEF step
  <2>1. QED
    BY <1>2, <1>3, Recursion
<1> DEFINE t == [i \in DOMAIN buf |-> u[i - 1]]
<1>5. u \in [Nat -> S] /\ u[0] = Checked(buf[1], m)
      /\ \A i \in Nat : u[i + 1] = step[i][u[i]]
  BY <1>4 DEF Iterates
<1>6. t[1] = Checked(buf[1], m)
  BY <1>1, <1>5
<1>7. t \in [DOMAIN buf -> S]
  BY <1>1, <1>5
<1>8. ASSUME NEW i \in DOMAIN buf, i # 1
      PROVE  t[i] = Checked(IF t[i - 1].ok THEN t[i - 1].k ELSE buf[i], m)
  <2>0. i \in Nat /\ i > 1 /\ i <= n
    BY <1>1, <1>8
  <2>1. PICK j \in Nat : j = i - 2 /\ i = j + 2 /\ i - 1 = j + 1 /\ j + 1 \in DOMAIN buf
    BY <2>0, <1>1
  <2>2. PICK v \in S : v = u[j] /\ t[i - 1] = v
    <3>1. t[i - 1] = u[(i - 1) - 1] /\ (i - 1) - 1 = j
      BY <2>1
    <3>2. QED
      BY <1>5, <3>1
  <2>3. t[i] = u[j + 1]
    BY <2>1
  <2>4. u[j + 1] = step[j][v]
    BY <1>5, <2>2
  <2>5. step[j][v] = Checked(IF v.ok THEN v.k ELSE buf[j + 2], m)
    BY <2>1
  <2> HIDE DEF t
  <2>6. QED
    BY <2>1, <2>2, <2>3, <2>4, <2>5
<1> HIDE DEF step
<1> DEFINE Satisfies(f) ==
             f = [i \in DOMAIN buf |->
                   IF i = 1 THEN Checked(buf[1], m)
                   ELSE Checked(IF f[i - 1].ok THEN f[i - 1].k ELSE buf[i], m)]
<1> HIDE DEF t
<1>9. Satisfies(t)
  <2>1. ASSUME NEW i \in DOMAIN buf
        PROVE  t[i] = IF i = 1 THEN Checked(buf[1], m)
                      ELSE Checked(IF t[i - 1].ok THEN t[i - 1].k ELSE buf[i], m)
    BY <1>6, <1>8
  <2>2. t = [i \in DOMAIN buf |-> t[i]]
    BY <1>7
  <2>3. QED
    BY <2>1, <2>2
<1> DEFINE f == CHOOSE f : Satisfies(f)
<1>10. Candidate(buf, m) = f[Len(buf)]
  BY Zenon DEF Candidate
<1> HIDE DEF Satisfies
<1>11. Satisfies(f)
  BY <1>9
<1> HIDE DEF f
<1>12. ASSUME NEW i \in DOMAIN buf
       PROVE  f[i] = IF i = 1 THEN Checked(buf[1], m)
                     ELSE Checked(IF f[i - 1].ok THEN f[i - 1].k ELSE buf[i], m)
  BY <1>11 DEF Satisfies
<1>13. \A i \in Nat : i + 1 \in DOMAIN buf => f[i + 1] = t[i + 1]
  <2> DEFINE L == {i \in Nat : i + 1 \in DOMAIN buf => f[i + 1] = t[i + 1]}
  <2>1. 0 \in L
    BY <1>1, <1>6, <1>12
  <2>2. ASSUME NEW i \in Nat, i \in L PROVE i + 1 \in L
    <3> SUFFICES ASSUME (i + 1) + 1 \in DOMAIN buf PROVE f[(i + 1) + 1] = t[(i + 1) + 1]
      OBVIOUS
    <3>1. PICK j \in DOMAIN buf : j = (i + 1) + 1 /\ j # 1 /\ j - 1 = i + 1 /\ i + 1 \in DOMAIN buf
      BY <1>1
    <3>2. f[j - 1] = t[j - 1]
      BY <2>2, <3>1
    <3>3. f[j] = Checked(IF f[j - 1].ok THEN f[j - 1].k ELSE buf[j], m)
      BY <1>12, <3>1
    <3>4. t[j] = Checked(IF t[j - 1].ok THEN t[j - 1].k ELSE buf[j], m)
      BY <1>8, <3>1
    <3>5. QED
      BY <3>1, <3>2, <3>3, <3>4
  <2> HIDE DEF L
  <2>3. Nat \subseteq L
    BY <2>1, <2>2, Induction
  <2>4. QED
    BY <2>3 DEF L
<1>14. f[Len(buf)] = t[Len(buf)]
  BY <1>1, <1>13
<1>15. QED
  BY <1>6, <1>7, <1>8, <1>10, <1>14 DEF S

(* The first good candidate is taken, and none if there is none.           *)
LEMMA CandidateIs ==
  ASSUME NEW m, Montgomery(m), NEW buf \in Seq(Nat), buf # <<>>,
         NEW good, good = {i \in DOMAIN buf : buf[i] \in 1 .. m.p - 1},
         NEW u, u = Candidate(buf, m)
  PROVE  u.ok <=> \E i \in {j \in good : \A l \in good : j <= l} : u.k = buf[i]
<1>1. PICK n \in Nat \ {0} : n = Len(buf) /\ DOMAIN buf = 1 .. n
  OBVIOUS
<1>2. PICK t \in [DOMAIN buf -> [k : Nat, ok : BOOLEAN]] :
        /\ t[1] = Checked(buf[1], m)
        /\ \A i \in DOMAIN buf : i # 1 =>
             t[i] = Checked(IF t[i - 1].ok THEN t[i - 1].k ELSE buf[i], m)
        /\ u = t[Len(buf)]
  BY CandidateTried
<1> DEFINE Taken(i) == IF t[i].ok
                       THEN \E j \in 1 .. i : j \in good /\ (\A l \in good : j <= l) /\ t[i].k = buf[j]
                       ELSE \A l \in good : i < l
           L == {i \in Nat : i + 1 \in DOMAIN buf => Taken(i + 1)}
<1>3. ASSUME NEW i \in DOMAIN buf PROVE buf[i] \in Nat /\ (i \in good <=> buf[i] \in 1 .. m.p - 1) /\ i \in Nat
  BY <1>1
<1>4. good \subseteq 1 .. n
  BY <1>1
<1>5. Taken(1)
  <2>1. 1 \in DOMAIN buf /\ 1 \in 1 .. 1
    BY <1>1
  <2>0. PICK a \in Nat : a = buf[1] /\ (1 \in good <=> a \in 1 .. m.p - 1)
    BY <1>3, <2>1
  <2>2. t[1].ok <=> 1 \in good
    BY <1>2, <2>0, CheckedIs
  <2>3. t[1].ok => t[1].k = buf[1]
    BY <1>2, <2>0, CheckedIs
  <2>4. CASE t[1].ok
    BY <1>4, <2>1, <2>2, <2>3, <2>4
  <2>5. CASE ~t[1].ok
    BY <1>4, <2>2, <2>5
  <2>6. QED
    BY <2>4, <2>5
<1>6. ASSUME NEW i \in Nat, i \in L PROVE i + 1 \in L
  <2> SUFFICES ASSUME (i + 1) + 1 \in DOMAIN buf PROVE Taken((i + 1) + 1)
    OBVIOUS
  <2>1. PICK j \in DOMAIN buf, h \in DOMAIN buf :
          j = (i + 1) + 1 /\ j # 1 /\ h = i + 1 /\ h = j - 1 /\ j \in Nat /\ h \in Nat /\ h < j
    BY <1>1
  <2>2. Taken(h)
    BY <1>6, <2>1
  <2>3. t[j] = Checked(IF t[h].ok THEN t[h].k ELSE buf[j], m)
    BY <1>2, <2>1
  <2>4. CASE t[h].ok
    <3>1. PICK q \in 1 .. h : q \in good /\ (\A l \in good : q <= l) /\ t[h].k = buf[q]
      BY <2>2, <2>4
    <3>2. q \in DOMAIN buf
      BY <1>1, <2>1
    <3>3. buf[q] \in Nat /\ buf[q] \in 1 .. m.p - 1
      BY <1>3, <3>1, <3>2
    <3>4. t[j] = Checked(buf[q], m)
      BY <2>3, <2>4, <3>1
    <3>5. t[j].ok /\ t[j].k = buf[q]
      BY <3>3, <3>4, CheckedIs
    <3>6. q \in 1 .. j
      BY <2>1
    <3>7. Taken(j)
      BY <3>1, <3>5, <3>6
    <3>8. QED
      BY <2>1, <3>7
  <2>5. CASE ~t[h].ok
    <3>1. \A l \in good : h < l
      BY <2>2, <2>5
    <3>2. t[j] = Checked(buf[j], m)
      BY <2>3, <2>5
    <3>3. (t[j].ok <=> j \in good) /\ (t[j].ok => t[j].k = buf[j])
      BY <1>3, <3>2, CheckedIs
    <3>4. \A l \in good : j <= l
      BY <1>4, <2>1, <3>1
    <3>5. CASE t[j].ok
      BY <1>1, <3>3, <3>4, <3>5, <2>1
    <3>6. CASE ~t[j].ok
      BY <1>4, <2>1, <3>3, <3>4, <3>6
    <3>7. QED
      BY <3>5, <3>6
  <2>6. QED
    BY <2>4, <2>5
<1>7. 0 \in L
  BY <1>5
<1> HIDE DEF L
<1>8. Nat \subseteq L
  BY <1>6, <1>7, Induction
<1>9. Taken(n)
  <2>1. n - 1 \in Nat /\ (n - 1) + 1 = n /\ n \in DOMAIN buf
    BY <1>1
  <2>2. Taken((n - 1) + 1)
    BY <1>8, <2>1 DEF L
  <2>3. QED
    BY <2>1, <2>2
<1>10. QED
  BY <1>1, <1>2, <1>4, <1>9

LEMMA TaskIs ==
  ASSUME NEW t \in Tasks
  PROVE  /\ t.kind \in {"multiply", "sign", "verify", "validate", "decompress", "z", "k"}
         /\ IsCurve(Curves[t.curve]) /\ IsTask(t, Curves[t.curve])
BY PointAssumption, TasksAssumption

Checking == {"validate", "decompress", "z", "k"}

(* A check is done in one step. *)
CheckInvariant ==
  /\ task \in Tasks
  /\ task.kind \in Checking =>
       \/ answer.stage = "asked" /\ c = Asked(task)
       \/ answer.stage = "done" /\ ChecksInputs

LEMMA ValidateStep ==
  ASSUME CheckInvariant, Validate
  PROVE  CheckInvariant'
<1> DEFINE s == Curves[task.curve]
           u == sb_sw_point_validate(c, s)
<1>1. /\ task \in Tasks /\ task' = task /\ task.kind = "validate" /\ answer.stage = "asked"
      /\ answer' = [stage |-> "done", ok |-> u.ok]
  BY DEF Validate, Going, CheckInvariant, TaskCurve
<1>2. c = Asked(task)
  BY <1>1 DEF CheckInvariant, Checking
<1>3. IsCurve(s) /\ task.x \in Nat /\ task.y \in Nat
  <2>1. IsCurve(s) /\ IsTask(task, s)
    BY <1>1, TaskIs
  <2>2. task.x \in 0 .. TwoTo[s.bits] - 1 /\ task.y \in 0 .. TwoTo[s.bits] - 1
    BY <1>1, <2>1 DEF IsTask
  <2>3. TwoTo[s.bits] \in Nat
    BY <2>1, CurveIs, Radix
  <2>4. QED
    BY <2>1, <2>2, <2>3
<1>4. c.px = task.x /\ c.py = task.y
  BY <1>1, <1>2 DEF Asked, Blank
<1> HIDE DEF s
<1>5. u.ok <=> <<task.x, task.y>> \in Points(s)
  BY <1>3, <1>4, ValidateIs
<1>6. answer'.ok = u.ok /\ answer'.stage = "done"
  BY <1>1
<1>7. ChecksInputs'
  BY <1>1, <1>5, <1>6 DEF ChecksInputs, TaskCurve, Points, s
<1>8. QED
  BY <1>1, <1>6, <1>7 DEF CheckInvariant

LEMMA DecompressStep ==
  ASSUME CheckInvariant, Decompress
  PROVE  CheckInvariant'
<1> DEFINE s == Curves[task.curve]
           u == sb_sw_point_decompress(c, task.sign, s)
<1>1. /\ task \in Tasks /\ task' = task /\ task.kind = "decompress" /\ answer.stage = "asked"
      /\ answer' = [stage |-> "done", ok |-> u.ok] /\ c' = u.c
  BY DEF Decompress, Going, CheckInvariant, TaskCurve
<1>2. c = Asked(task)
  BY <1>1 DEF CheckInvariant, Checking
<1>3. IsCurve(s) /\ task.x \in Nat /\ task.sign \in 0 .. 1
  <2>1. IsCurve(s) /\ IsTask(task, s)
    BY <1>1, TaskIs
  <2>2. task.x \in 0 .. TwoTo[s.bits] - 1 /\ task.sign \in 0 .. 1
    BY <1>1, <2>1 DEF IsTask
  <2>3. TwoTo[s.bits] \in Nat
    BY <2>1, CurveIs, Radix
  <2>4. QED
    BY <2>1, <2>2, <2>3
<1>4. c.px = task.x /\ "py" \in DOMAIN c
  BY <1>1, <1>2 DEF Asked, Blank
<1> HIDE DEF s
<1>5. /\ u.ok <=> \E P \in Points(s) : P[1] = task.x
      /\ u.ok => <<task.x, u.c.py>> \in Points(s) /\ u.c.py % 2 = task.sign
  <2> PICK x : x = c
    OBVIOUS
  <2>1. PICK px \in Nat, sign \in 0 .. 1 : px = task.x /\ sign = task.sign /\ x = c
    BY <1>3
  <2>2. /\ sb_sw_point_decompress(x, sign, s).ok <=> \E P \in Points(s) : P[1] = px
        /\ sb_sw_point_decompress(x, sign, s).ok =>
             /\ <<px, sb_sw_point_decompress(x, sign, s).c.py>> \in Points(s)
             /\ sb_sw_point_decompress(x, sign, s).c.py % 2 = sign
    BY <1>3, <1>4, <2>1, DecompressIs
  <2>3. QED
    BY <2>1, <2>2
<1>6. answer'.ok = u.ok /\ answer'.stage = "done" /\ c'.py = u.c.py
  BY <1>1
<1> HIDE DEF u
<1>7. ChecksInputs'
  <2> DEFINE Q1 == {Curves[task.curve].multiples[j] : j \in 1 .. Curves[task.curve].n.p - 1}
  <2>1. ChecksInputs' <=> (answer'.stage = "done" =>
          /\ answer'.ok <=> \E p \in Q1 : p[1] = task.x
          /\ answer'.ok => <<task.x, c'.py>> \in Q1 /\ c'.py % 2 = task.sign)
    BY <1>1 DEF ChecksInputs, TaskCurve
  <2>2. Q1 = Points(s)
    BY DEF Points, s
  <2> HIDE DEF Q1
  <2>3. QED
    BY <1>5, <1>6, <2>1, <2>2
<1>8. QED
  BY <1>1, <1>6, <1>7 DEF CheckInvariant

LEMMA PickZStep ==
  ASSUME CheckInvariant, PickZ
  PROVE  CheckInvariant'
<1> DEFINE s == Curves[task.curve]
           z == Candidate(task.buf, s.p)
<1>1. /\ task \in Tasks /\ task' = task /\ task.kind = "z" /\ answer.stage = "asked"
      /\ answer' = [stage |-> "done", ok |-> z.ok] /\ c' = [c EXCEPT !.z = z.k]
  BY DEF PickZ, Going, CheckInvariant, TaskCurve, sb_sw_z_from_buf
<1>2. c = Asked(task)
  BY <1>1 DEF CheckInvariant, Checking
<1>3. IsCurve(s) /\ Montgomery(s.p) /\ task.buf \in Seq(Nat) /\ task.buf # <<>>
  <2>1. IsCurve(s) /\ IsTask(task, s)
    BY <1>1, TaskIs
  <2>2. task.buf \in Seq(0 .. TwoTo[s.bits] - 1) /\ task.buf # <<>>
    BY <1>1, <2>1 DEF IsTask
  <2>3. TwoTo[s.bits] \in Nat /\ Montgomery(s.p)
    BY <2>1, CurveIs, Radix
  <2>4. 0 .. TwoTo[s.bits] - 1 \subseteq Nat
    BY <2>3
  <2>5. task.buf \in Seq(Nat)
    <3>1. PICK W : W = 0 .. TwoTo[s.bits] - 1
      OBVIOUS
    <3>2. task.buf \in Seq(W) /\ W \subseteq Nat
      BY <2>2, <2>4, <3>1
    <3>3. task.buf \in [1 .. Len(task.buf) -> W] /\ Len(task.buf) \in Nat
      BY <3>2
    <3>4. task.buf \in [1 .. Len(task.buf) -> Nat]
      BY <3>2, <3>3
    <3>5. QED
      BY <3>3, <3>4
  <2>6. QED
    BY <2>1, <2>2, <2>3, <2>5
<1>4. c'.z = z.k /\ answer'.ok = z.ok /\ answer'.stage = "done"
  <2>1. "z" \in DOMAIN c
    BY <1>1, <1>2 DEF Asked, Blank
  <2> HIDE DEF z
  <2>2. QED
    BY <1>1, <2>1
<1> HIDE DEF s
<1> DEFINE good == {i \in DOMAIN task.buf : task.buf[i] \in 1 .. s.p.p - 1}
<1>5. z.ok <=> \E i \in {j \in good : \A l \in good : j <= l} : z.k = task.buf[i]
  <2>1. PICK m, buf : m = s.p /\ buf = task.buf
    OBVIOUS
  <2>2. PICK fits : fits = {i \in DOMAIN buf : buf[i] \in 1 .. m.p - 1}
    OBVIOUS
  <2>3. Montgomery(m) /\ buf \in Seq(Nat) /\ buf # <<>>
    BY <1>3, <2>1
  <2>4. Candidate(buf, m).ok <=>
          \E i \in {j \in fits : \A l \in fits : j <= l} : Candidate(buf, m).k = buf[i]
    BY <2>2, <2>3, CandidateIs
  <2>5. QED
    BY <2>1, <2>2, <2>4
<1> HIDE DEF z
<1>6. ChecksInputs'
  <2>1. ChecksInputs' <=> (answer'.stage = "done" =>
          (answer'.ok <=> \E i \in {j \in good : \A l \in good : j <= l} : c'.z = task.buf[i]))
    BY <1>1 DEF ChecksInputs, TaskCurve, s
  <2> HIDE DEF good
  <2>2. QED
    BY <1>4, <1>5, <2>1
<1>7. QED
  BY <1>1, <1>4, <1>6 DEF CheckInvariant

LEMMA PickKStep ==
  ASSUME CheckInvariant, PickK
  PROVE  CheckInvariant'
<1> DEFINE s == Curves[task.curve]
           R == TwoTo[s.bits]
           add == IF task.fips186_4 THEN 1 ELSE 0
           from == [i \in DOMAIN task.buf |->
                     IF task.fips186_4 THEN (task.buf[i] + 1) % R ELSE task.buf[i]]
           k == Candidate(from, s.n)
<1>1. /\ task \in Tasks /\ task' = task /\ task.kind = "k" /\ answer.stage = "asked"
      /\ answer' = [stage |-> "done", ok |-> k.ok] /\ c' = [c EXCEPT !.k = k.k]
  BY DEF PickK, Going, CheckInvariant, TaskCurve, sb_sw_k_from_buf
<1>2. c = Asked(task)
  BY <1>1 DEF CheckInvariant, Checking
<1>3. /\ IsCurve(s) /\ Montgomery(s.n) /\ R \in Nat \ {0} /\ s.n.p \in Nat /\ s.n.p < R
      /\ task.buf \in Seq(0 .. R - 1) /\ task.buf # <<>> /\ task.fips186_4 \in BOOLEAN
  <2>1. IsCurve(s) /\ IsTask(task, s)
    BY <1>1, TaskIs
  <2>2. task.buf \in Seq(0 .. TwoTo[s.bits] - 1) /\ task.buf # <<>> /\ task.fips186_4 \in BOOLEAN
    BY <1>1, <2>1 DEF IsTask
  <2>3. s.bits \in Nat \ {0} /\ Montgomery(s.n) /\ s.n.p \in Nat /\ s.n.p < s.p.p /\ s.p.p < R /\ s.p.p \in Nat
    BY <2>1, CurveIs
  <2>4. R \in Nat \ {0}
    BY <2>3, Radix
  <2>5. QED
    BY <2>1, <2>2, <2>3, <2>4
<1>4. c'.k = k.k /\ answer'.ok = k.ok /\ answer'.stage = "done"
  <2>1. "k" \in DOMAIN c
    BY <1>1, <1>2 DEF Asked, Blank
  <2> HIDE DEF k
  <2>2. QED
    BY <1>1, <2>1
<1> HIDE DEF s, R
<1>5. ASSUME NEW i \in DOMAIN task.buf
      PROVE  /\ from[i] \in Nat /\ task.buf[i] \in 0 .. R - 1
             /\ from[i] \in 1 .. s.n.p - 1 <=> task.buf[i] + add \in 1 .. s.n.p - 1
             /\ from[i] \in 1 .. s.n.p - 1 => from[i] = task.buf[i] + add
  <2>1. PICK b \in 0 .. R - 1 : b = task.buf[i]
    BY <1>3
  <2>2. CASE task.fips186_4
    <3>1. from[i] = (b + 1) % R /\ add = 1
      BY <2>1, <2>2
    <3>2. CASE b + 1 = R
      <4>1. R % R = 0
        <5>1. (1 * R + 0) % R = 0
          BY <1>3, Quotient
        <5>2. 1 * R + 0 = R
          BY <1>3
        <5>3. QED
          BY <5>1, <5>2, Zenon
      <4>2. from[i] = 0 /\ task.buf[i] + add = R
        BY <2>1, <3>1, <3>2, <4>1
      <4> HIDE DEF from, add
      <4>3. 0 \notin 1 .. s.n.p - 1 /\ R \notin 1 .. s.n.p - 1
        BY <1>3
      <4>4. QED
        BY <2>1, <4>2, <4>3
    <3>3. CASE b + 1 < R
      BY <1>3, <3>3, <2>1, <3>1, Below
    <3>4. QED
      BY <1>3, <3>2, <3>3
  <2>3. CASE ~task.fips186_4
    BY <2>1, <2>3, <1>3
  <2>4. QED
    BY <2>2, <2>3
<1>6. from \in Seq(Nat) /\ from # <<>> /\ DOMAIN from = DOMAIN task.buf
  <2>1. PICK n \in Nat \ {0} : DOMAIN task.buf = 1 .. n
    BY <1>3
  <2>2. \A i \in 1 .. n : from[i] \in Nat
    BY <1>5, <2>1
  <2>3. from = [i \in 1 .. n |-> from[i]]
    BY <2>1
  <2> HIDE DEF from
  <2>4. from \in [1 .. n -> Nat]
    BY <2>2, <2>3
  <2>5. DOMAIN from = 1 .. n /\ 1 \in DOMAIN from
    BY <2>3
  <2>6. from \in Seq(Nat) /\ from # <<>>
    BY <2>4, <2>5
  <2>7. QED
    BY <2>1, <2>5, <2>6
<1> DEFINE good == {i \in DOMAIN task.buf : task.buf[i] + add \in 1 .. s.n.p - 1}
           fits == {i \in DOMAIN from : from[i] \in 1 .. s.n.p - 1}
<1> HIDE DEF from
<1>7. k.ok <=> \E i \in {j \in fits : \A l \in fits : j <= l} : k.k = from[i]
  <2>1. PICK m, buf : m = s.n /\ buf = from
    OBVIOUS
  <2>2. PICK all : all = {i \in DOMAIN buf : buf[i] \in 1 .. m.p - 1}
    OBVIOUS
  <2>3. Montgomery(m) /\ buf \in Seq(Nat) /\ buf # <<>>
    BY <1>3, <1>6, <2>1
  <2>4. Candidate(buf, m).ok <=>
          \E i \in {j \in all : \A l \in all : j <= l} : Candidate(buf, m).k = buf[i]
    BY <2>2, <2>3, CandidateIs
  <2>5. QED
    BY <2>1, <2>2, <2>4
<1> HIDE DEF k
<1>8. fits = good /\ \A i \in good : from[i] = task.buf[i] + add
  BY <1>5, <1>6
<1>9. ChecksInputs'
  <2>1. ChecksInputs' <=> (answer'.stage = "done" =>
          (answer'.ok <=> \E i \in {j \in good : \A l \in good : j <= l} : c'.k = task.buf[i] + add))
    BY <1>1 DEF ChecksInputs, TaskCurve, s
  <2> HIDE DEF good, fits, add
  <2>2. QED
    BY <1>4, <1>7, <1>8, <2>1
<1>10. QED
  BY <1>1, <1>4, <1>9 DEF CheckInvariant

LEMMA OtherSteps ==
  ASSUME CheckInvariant,
         \/ MultiplyStart \/ MultiplyContinue \/ SignStart \/ SignContinue
         \/ VerifyStart \/ VerifyContinue
  PROVE  CheckInvariant'
<1>1. task' = task /\ task.kind \in {"multiply", "sign", "verify"}
  BY DEF MultiplyStart, MultiplyContinue, SignStart, SignContinue, VerifyStart, VerifyContinue, Going
<1>2. QED
  BY <1>1 DEF CheckInvariant, Checking

(* Coordinates are taken for a public key just when they are those of a    *)
(* point of the curve, an x is completed just when there is one, and the   *)
(* first candidate in range is taken.                                      *)
THEOREM InputsChecked == Spec => []ChecksInputs
<1>1. Init => CheckInvariant
  BY DEF Init, CheckInvariant
<1>2. CheckInvariant /\ [Next]_vars => CheckInvariant'
  <2> SUFFICES ASSUME CheckInvariant, [Next]_vars PROVE CheckInvariant'
    OBVIOUS
  <2>1. CASE UNCHANGED vars
    BY <2>1 DEF vars, CheckInvariant, ChecksInputs, TaskCurve
  <2>2. CASE Next
    BY <2>2, ValidateStep, DecompressStep, PickZStep, PickKStep, OtherSteps DEF Next
  <2>3. QED
    BY <2>1, <2>2
<1>3. CheckInvariant => ChecksInputs
  <2> SUFFICES ASSUME CheckInvariant PROVE ChecksInputs
    OBVIOUS
  <2>1. CASE task.kind \in Checking
    BY <2>1 DEF CheckInvariant, ChecksInputs
  <2>2. CASE task.kind \notin Checking
    BY <2>2 DEF ChecksInputs, Checking
  <2>3. QED
    BY <2>1, <2>2
<1>4. QED
  BY <1>1, <1>2, <1>3, PTL DEF Spec

--------------------------------------------------------------------------------
(* The operations on points, for points by their numbers.                  *)

(* A Z that is not zero. *)
Unit(Z, s) == Z \in Int /\ ~Congruent(Z, 0, s.p.p)

LEMMA UnitTimes ==
  ASSUME NEW s, IsCurve(s), NEW u, NEW v, Unit(u, s), Unit(v, s)
  PROVE  Unit(u * v, s)
<1>1. Montgomery(s.p)
  BY CurveIs
<1>2. u * v \in Int
  BY DEF Unit
<1>3. QED
  BY <1>1, <1>2, NotZero DEF Unit

(* Points that are neither the same nor opposite. *)
Differ(i, j, s) ==
  ~Zero(i, s) /\ ~Zero(j, s) /\ ~Congruent(i, j, s.n.p) /\ ~Congruent(i, -j, s.n.p)

(* The next Z. *)
Widened(W, i, j, Z, s) == W = Z * ((Point(j, s)[1] - Point(i, s)[1]) * (Z * Z))

LEMMA WideUnit ==
  ASSUME NEW s, IsCurve(s), NEW i \in Int, NEW j \in Int, Differ(i, j, s), NEW Z, Unit(Z, s)
  PROVE  \E W, d \in Int : /\ Unit(W, s) /\ Widened(W, i, j, Z, s)
                           /\ d = (Point(j, s)[1] - Point(i, s)[1]) * (Z * Z) /\ W = Z * d
<1>1. PICK xi \in Int, xj \in Int : xi = Point(i, s)[1] /\ xj = Point(j, s)[1]
  BY PointIs DEF Differ, IsPair
<1>2. PICK p \in Nat : p = s.p.p
  BY CurveIs
<1>3. ~Congruent(xj, xi, p)
  <2> SUFFICES ASSUME Congruent(xj, xi, p) PROVE FALSE
    OBVIOUS
  <2>1. Congruent(xi, xj, p)
    BY CongruentBack
  <2>2. Congruent(i, j, s.n.p) \/ Congruent(i, -j, s.n.p)
    BY <1>1, <1>2, <2>1, Apart DEF Differ
  <2>3. QED
    BY <2>2 DEF Differ
<1>4. PICK e \in Int : e = xj - xi
  OBVIOUS
<1>5. Unit(e, s)
  <2> SUFFICES ASSUME Congruent(e, 0, p) PROVE FALSE
    BY <1>2 DEF Unit
  <2>1. Congruent(e + xi, 0 + xi, p)
    BY CongruentSame, CongruentPlus
  <2>2. e + xi = xj /\ 0 + xi = xi
    BY <1>4
  <2>3. QED
    BY <1>3, <2>1, <2>2
<1>6. Unit(Z * Z, s)
  BY UnitTimes
<1>7. Unit(e * (Z * Z), s)
  BY <1>5, <1>6, UnitTimes
<1>8. PICK d \in Int : d = e * (Z * Z) /\ Unit(d, s)
  BY <1>7 DEF Unit
<1>9. Unit(Z * d, s) /\ Z * d \in Int
  BY <1>8, UnitTimes DEF Unit
<1>10. QED
  BY <1>1, <1>4, <1>8, <1>9 DEF Widened

(* The two additions: what a register holds goes by its number. *)
LEMMA AddUpdateStep ==
  ASSUME NEW s, IsCurve(s), NEW i \in Int, NEW j \in Int, Differ(i, j, s), NEW Z, Unit(Z, s),
         NEW x \in Context, First(x, Point(i, s), Z, s.p), Second(x, Point(j, s), Z, s.p),
         NEW u, u = sb_sw_point_co_z_add_update(x, s)
  PROVE  /\ u \in Context /\ Keeps(u, x) /\ u.z = x.z
         /\ \E W : /\ Unit(W, s) /\ Widened(W, i, j, Z, s)
                   /\ First(u, Point(i + j, s), W, s.p) /\ Second(u, Point(i, s), W, s.p)
<1>1. PICK W \in Int, d \in Int :
        /\ Unit(W, s) /\ Widened(W, i, j, Z, s)
        /\ d = (Point(j, s)[1] - Point(i, s)[1]) * (Z * Z) /\ W = Z * d
  BY WideUnit
<1>2. ~Zero(i + j, s) /\ Adds(Point(i + j, s), Point(i, s), Point(j, s), s.p.p)
  BY Chord DEF Differ
<1>3. i + j \in Int
  OBVIOUS
<1>4. IsPair(Point(i, s)) /\ IsPair(Point(j, s)) /\ IsPair(Point(i + j, s))
  BY <1>2, <1>3, PointIs DEF Differ
<1>5. PICK m, P, P2, R : m = s.p /\ P = Point(i, s) /\ P2 = Point(j, s) /\ R = Point(i + j, s)
  OBVIOUS
<1>6. /\ Montgomery(m) /\ IsPair(P) /\ IsPair(P2) /\ IsPair(R) /\ Adds(R, P, P2, m.p)
      /\ First(x, P, Z, m) /\ Second(x, P2, Z, m) /\ d = (P2[1] - P[1]) * (Z * Z) /\ Z \in Int
  BY <1>1, <1>2, <1>4, <1>5, CurveIs DEF Unit
<1>7. /\ u \in Context /\ Keeps(u, x) /\ u.z = x.z /\ First(u, R, W, m) /\ Second(u, P, W, m)
  BY <1>1, <1>5, <1>6, AddUpdateIs
<1>8. QED
  BY <1>1, <1>5, <1>7

LEMMA ConjAddStep ==
  ASSUME NEW s, IsCurve(s), NEW i \in Int, NEW j \in Int, Differ(i, j, s), NEW Z, Unit(Z, s),
         NEW x \in Context, First(x, Point(i, s), Z, s.p), Second(x, Point(j, s), Z, s.p),
         NEW u, u = sb_sw_point_co_z_conj_add(x, s)
  PROVE  /\ u \in Context /\ Keeps(u, x) /\ u.z = x.z
         /\ \E W : /\ Unit(W, s)
                   /\ First(u, Point(i + j, s), W, s.p) /\ Second(u, Point(i - j, s), W, s.p)
<1>1. PICK W \in Int, d \in Int :
        /\ Unit(W, s) /\ d = (Point(j, s)[1] - Point(i, s)[1]) * (Z * Z) /\ W = Z * d
  BY WideUnit DEF Unit
<1>2. /\ ~Zero(i + j, s) /\ Adds(Point(i + j, s), Point(i, s), Point(j, s), s.p.p)
      /\ ~Zero(i - j, s) /\ Subtracts(Point(i - j, s), Point(i, s), Point(j, s), s.p.p)
  BY Chord, ChordBack DEF Differ
<1>3. i + j \in Int /\ i - j \in Int
  OBVIOUS
<1>4. IsPair(Point(i, s)) /\ IsPair(Point(j, s)) /\ IsPair(Point(i + j, s)) /\ IsPair(Point(i - j, s))
  BY <1>2, <1>3, PointIs DEF Differ
<1>5. PICK m, P, P2, R, T : /\ m = s.p /\ P = Point(i, s) /\ P2 = Point(j, s)
                            /\ R = Point(i + j, s) /\ T = Point(i - j, s)
  OBVIOUS
<1>6. /\ Montgomery(m) /\ IsPair(P) /\ IsPair(P2) /\ IsPair(R) /\ IsPair(T)
      /\ Adds(R, P, P2, m.p) /\ Subtracts(T, P, P2, m.p)
      /\ First(x, P, Z, m) /\ Second(x, P2, Z, m) /\ d = (P2[1] - P[1]) * (Z * Z) /\ Z \in Int
  BY <1>1, <1>2, <1>4, <1>5, CurveIs DEF Unit
<1>7. /\ u \in Context /\ Keeps(u, x) /\ u.z = x.z /\ First(u, R, W, m) /\ Second(u, T, W, m)
  BY <1>1, <1>5, <1>6, ConjAddIs
<1>8. QED
  BY <1>1, <1>5, <1>7

(* Together, as the ladder has them for each bit: from i and j to 2 i and  *)
(* i + j.                                                                  *)
LEMMA DoubleAndAdd ==
  ASSUME NEW s, IsCurve(s), NEW i \in Int, NEW j \in Int, Differ(i, j, s), Differ(i + j, i - j, s),
         NEW Z, Unit(Z, s),
         NEW x \in Context, First(x, Point(i, s), Z, s.p), Second(x, Point(j, s), Z, s.p),
         NEW u, u = sb_sw_point_co_z_add_update(sb_sw_point_co_z_conj_add(x, s), s)
  PROVE  /\ u \in Context /\ Keeps(u, x) /\ u.z = x.z
         /\ \E W : /\ Unit(W, s)
                   /\ First(u, Point(2 * i, s), W, s.p) /\ Second(u, Point(i + j, s), W, s.p)
<1>1. PICK v : v = sb_sw_point_co_z_conj_add(x, s)
  OBVIOUS
<1>2. v \in Context /\ Keeps(v, x) /\ v.z = x.z
  BY <1>1, ConjAddStep
<1>3. PICK W : Unit(W, s) /\ First(v, Point(i + j, s), W, s.p) /\ Second(v, Point(i - j, s), W, s.p)
  BY <1>1, ConjAddStep
<1>4. PICK a \in Int, b \in Int : a = i + j /\ b = i - j
  OBVIOUS
<1>5. /\ u \in Context /\ Keeps(u, v) /\ u.z = v.z
      /\ \E V : /\ Unit(V, s) /\ Widened(V, a, b, W, s)
                /\ First(u, Point(a + b, s), V, s.p) /\ Second(u, Point(a, s), V, s.p)
  BY <1>1, <1>2, <1>3, <1>4, AddUpdateStep
<1>6. a + b = 2 * i
  BY <1>4
<1>7. Keeps(u, x)
  BY <1>2, <1>5 DEF Keeps
<1>8. QED
  BY <1>2, <1>4, <1>5, <1>6, <1>7

(* Multiples of a point that is not zero are told by their factors. *)
LEMMA DifferTimes ==
  ASSUME NEW s, IsCurve(s), NEW B \in Int, ~Zero(B, s), NEW u \in Int, NEW v \in Int,
         ~Zero(u, s), ~Zero(v, s), ~Zero(u - v, s), ~Zero(u + v, s)
  PROVE  Differ(u * B, v * B, s)
<1>1. PICK n \in Nat \ {0} : n = s.n.p
  BY CurveIs
<1>2. Montgomery(s.n)
  BY CurveIs
<1>3. \A w \in Int : ~Zero(w, s) => ~Zero(w * B, s) /\ w * B \in Int
  <2> SUFFICES ASSUME NEW w \in Int, ~Zero(w, s) PROVE ~Zero(w * B, s) /\ w * B \in Int
    OBVIOUS
  <2>1. ~Congruent(w, 0, s.n.p) /\ ~Congruent(B, 0, s.n.p)
    BY DEF Zero
  <2>2. ~Congruent(w * B, 0, s.n.p)
    BY <1>2, <2>1, NotZero
  <2>3. QED
    BY <2>2 DEF Zero
<1>4. PICK a \in Int, b \in Int, h \in Int, l \in Int, d \in Int, e \in Int :
        a = u * B /\ b = v * B /\ d = u - v /\ e = u + v /\ h = d * B /\ l = e * B
  OBVIOUS
<1>5. h = a - b /\ l = a + b
  BY <1>4
<1>6. ~Zero(a, s) /\ ~Zero(b, s) /\ ~Zero(h, s) /\ ~Zero(l, s)
  BY <1>3, <1>4
<1>7. ~Congruent(a, b, n)
  <2> SUFFICES ASSUME Congruent(a, b, n) PROVE FALSE
    OBVIOUS
  <2>1. Congruent(a - b, b - b, n)
    BY CongruentSame, CongruentPlus
  <2>2. a - b = h /\ b - b = 0
    BY <1>5
  <2>3. QED
    BY <1>1, <1>6, <2>1, <2>2 DEF Zero
<1>8. ~Congruent(a, -b, n)
  <2> SUFFICES ASSUME Congruent(a, -b, n) PROVE FALSE
    OBVIOUS
  <2>1. PICK w \in Int : w = -b
    OBVIOUS
  <2>2. Congruent(a - w, w - w, n)
    BY <2>1, CongruentSame, CongruentPlus
  <2>3. a - w = l /\ w - w = 0
    BY <1>5, <2>1
  <2>4. QED
    BY <1>1, <1>6, <2>2, <2>3 DEF Zero
<1>9. QED
  BY <1>1, <1>4, <1>6, <1>7, <1>8 DEF Differ

(* Small multiples of n. *)
LEMMA FewMultiples ==
  ASSUME NEW a \in Int, NEW n \in Nat \ {0}, Congruent(a, 0, n), a > 0, a < 4 * n
  PROVE  a = n \/ a = 2 * n \/ a = 3 * n
<1>1. PICK k \in Int : a = 0 + k * n
  BY DEF Congruent
<1>2. k * n \in Int /\ a = k * n
  BY <1>1
<1>3. k >= 1
  <2> SUFFICES ASSUME k <= 0 PROVE FALSE
    OBVIOUS
  <2>1. k * n <= 0 * n /\ 0 * n = 0
    BY Product
  <2>2. QED
    BY <1>2, <2>1
<1>4. k <= 3
  <2> SUFFICES ASSUME 4 <= k PROVE FALSE
    OBVIOUS
  <2>1. 4 * n <= k * n
    BY Product
  <2>2. QED
    BY <1>2, <2>1
<1>5. k = 1 \/ k = 2 \/ k = 3
  BY <1>3, <1>4
<1>6. QED
  BY <1>2, <1>5

(* Powers of two, of a sum. *)
LEMMA TwoToPlus ==
  ASSUME NEW i \in Nat
  PROVE  \A d \in Nat : TwoTo[i + d] = TwoTo[i] * TwoTo[d]
<1> DEFINE L == {d \in Nat : TwoTo[i + d] = TwoTo[i] * TwoTo[d]}
<1>1. 0 \in L
  BY TwoToIs
<1>2. ASSUME NEW d \in Nat, d \in L PROVE d + 1 \in L
  <2>1. PICK e \in Nat : e = i + d /\ e + 1 = i + (d + 1)
    OBVIOUS
  <2>2. TwoTo[e + 1] = 2 * TwoTo[e] /\ TwoTo[d + 1] = 2 * TwoTo[d] /\ TwoTo[e] = TwoTo[i] * TwoTo[d]
    BY <1>2, <2>1, TwoToIs
  <2>3. PICK a \in Nat, b \in Nat : a = TwoTo[i] /\ b = TwoTo[d]
    BY TwoToIs
  <2>4. 2 * (a * b) = a * (2 * b)
    OBVIOUS
  <2>5. QED
    BY <2>1, <2>2, <2>3, <2>4
<1> HIDE DEF L
<1>3. Nat \subseteq L
  BY <1>1, <1>2, Induction
<1>4. QED
  BY <1>3 DEF L

(* The bits of a number from the highest: what is above i, and the bit. *)
Above(f, i) == f \div TwoTo[i]

LEMMA AboveIs ==
  ASSUME NEW f \in Nat, NEW i \in Nat
  PROVE  /\ Above(f, i) \in Nat /\ test_bit(f, i) \in 0 .. 1
         /\ Above(f, i) = 2 * Above(f, i + 1) + test_bit(f, i)
<1>1. PICK T \in Nat \ {0} : T = TwoTo[i] /\ TwoTo[i + 1] = 2 * T
  BY TwoToIs
<1>2. PICK q \in Nat, r \in Nat : q = f \div T /\ r < T /\ f = q * T + r
  BY Division
<1>3. PICK h \in Nat, b \in Nat : h = q \div 2 /\ b = q % 2 /\ b < 2 /\ q = h * 2 + b
  BY Division
<1>4. PICK bt \in Nat : bt = b * T /\ bt + r < 2 * T
  BY <1>3, <1>2
<1>5. f = h * (2 * T) + (bt + r)
  <2>1. (h * 2 + b) * T = h * (2 * T) + b * T
    OBVIOUS
  <2>2. f = (h * 2 + b) * T + r
    BY <1>2, <1>3
  <2>3. h * (2 * T) \in Nat /\ b * T = bt
    BY <1>4
  <2>4. QED
    BY <2>1, <2>2, <2>3
<1>6. f \div (2 * T) = h
  <2>1. PICK t \in Nat \ {0}, o \in Nat : t = 2 * T /\ o = bt + r /\ o < t
    BY <1>4
  <2>2. (h * t + o) \div t = h
    BY <2>1, Quotient
  <2>3. QED
    BY <1>5, <2>1, <2>2
<1>7. Above(f, i + 1) = h
  BY <1>1, <1>6 DEF Above
<1>8. Above(f, i) = q /\ test_bit(f, i) = b
  BY <1>1, <1>2, <1>3 DEF Above, test_bit
<1>9. QED
  BY <1>3, <1>7, <1>8

(* With the highest bit, or without. *)
LEMMA SameBits ==
  ASSUME NEW bits \in Nat, NEW f \in Nat, f >= TwoTo[bits], f < 2 * TwoTo[bits],
         NEW i \in 0 .. bits
  PROVE  /\ Above(f, bits) = 1 /\ Above(f, i) >= 1
         /\ i < bits => test_bit(f - TwoTo[bits], i) = test_bit(f, i)
<1>1. PICK d \in Nat, T \in Nat \ {0}, D \in Nat \ {0}, R \in Nat :
        d = bits - i /\ T = TwoTo[i] /\ D = TwoTo[d] /\ R = T * D /\ R = TwoTo[bits]
  <2>1. PICK d \in Nat : d = bits - i /\ i + d = bits /\ i \in Nat
    OBVIOUS
  <2>2. TwoTo[i + d] = TwoTo[i] * TwoTo[d] /\ TwoTo[i] \in Nat \ {0} /\ TwoTo[d] \in Nat \ {0}
    BY <2>1, TwoToPlus, TwoToIs
  <2>3. TwoTo[bits] \in Nat
    BY TwoToIs
  <2>4. QED
    BY <2>1, <2>2, <2>3
<1>2. PICK g \in Nat : g = f - R
  BY <1>1
<1>3. PICK q \in Nat, r \in Nat : q = g \div T /\ r < T /\ g = q * T + r
  BY Division
<1>4. f = (q + D) * T + r
  <2>1. (q + D) * T = q * T + T * D /\ q * T \in Int /\ T * D \in Int
    BY <1>1
  <2>2. f = g + R
    BY <1>1, <1>2
  <2>3. QED
    BY <1>1, <1>3, <2>1, <2>2
<1>5. f \div T = q + D
  <2>1. PICK t \in Nat : t = q + D
    OBVIOUS
  <2>2. (t * T + r) \div T = t
    BY <1>1, <1>3, Quotient
  <2>3. QED
    BY <1>4, <2>1, <2>2
<1>6. Above(f, i) >= 1
  BY <1>1, <1>5 DEF Above
<1>7. ASSUME i < bits PROVE (q + D) % 2 = q % 2
  <2>1. PICK e \in Nat : e + 1 = d
    BY <1>1, <1>7
  <2>2. PICK E1 \in Nat : D = 2 * E1
    BY <1>1, <2>1, TwoToIs
  <2>3. QED
    BY <2>2
<1>8. Above(f, bits) = 1
  <2>1. R \in Nat \ {0}
    BY <1>1, TwoToIs
  <2>2. PICK o \in Nat : o = 1
    OBVIOUS
  <2>3. f = o * R + g /\ g < R
    BY <2>1, <2>2, <1>1, <1>2
  <2>4. (o * R + g) \div R = o
    BY <2>1, <2>3, Quotient
  <2>5. QED
    BY <1>1, <2>2, <2>3, <2>4 DEF Above
<1>9. QED
  BY <1>1, <1>2, <1>3, <1>5, <1>6, <1>7, <1>8 DEF test_bit

--------------------------------------------------------------------------------
(* The scalar of the ladder: k, and f, which has a bit more than words have. *)

Scalars(k, f, s) ==
  /\ k \in 1 .. TwoTo[s.bits - 1] - 1
  /\ f \in Nat /\ f >= TwoTo[s.bits] /\ f < 2 * TwoTo[s.bits]
  /\ f = k + s.n.p \/ (f = k + 2 * s.n.p /\ k + s.n.p < TwoTo[s.bits])
  /\ k = 1 => f = 2 * s.n.p + 1

LEMMA CurveSizes ==
  ASSUME NEW s, IsCurve(s)
  PROVE  \E n, H, R \in Nat : /\ n = s.n.p /\ H = TwoTo[s.bits - 1] /\ R = TwoTo[s.bits] /\ R = 2 * H
                              /\ H + 1 < n /\ n + 1 < R /\ n % 2 = 1 /\ n > 3 /\ H > 2
                              /\ s.bits \in Nat /\ s.bits >= 3
<1>1. PICK n \in Nat, p \in Nat, H \in Nat, R \in Nat, bits \in Nat :
        n = s.n.p /\ p = s.p.p /\ H = TwoTo[s.bits - 1] /\ R = TwoTo[s.bits] /\ bits = s.bits
  BY CurveIs, Radix
<1>2. R = 2 * H /\ H + 1 < n /\ n < p /\ p < R /\ n > 3 /\ n % 2 = 1 /\ bits >= 1
  BY <1>1, CurveIs, Radix DEF Montgomery
<1>3. H > 2
  BY <1>2
<1>4. bits >= 3
  <2>1. TwoTo[0] = 1 /\ TwoTo[0 + 1] = 2 * TwoTo[0]
    BY TwoToIs
  <2>2. TwoTo[0] = 1 /\ TwoTo[1] = 2
    BY <2>1
  <2>3. ASSUME bits = 1 PROVE FALSE
    BY <1>1, <1>3, <2>2, <2>3
  <2>4. ASSUME bits = 2 PROVE FALSE
    BY <1>1, <1>3, <2>2, <2>4
  <2>5. QED
    BY <1>2, <2>3, <2>4
<1>5. QED
  BY <1>1, <1>2, <1>3, <1>4

LEMMA RegularizeIs ==
  ASSUME NEW s, IsCurve(s), NEW k \in 1 .. TwoTo[s.bits - 1] - 1
  PROVE  \E f : Scalars(k, f, s) /\ sb_sw_regularize_scalar(k, s) = f - TwoTo[s.bits]
<1>1. PICK n \in Nat, H \in Nat, R \in Nat :
        /\ n = s.n.p /\ H = TwoTo[s.bits - 1] /\ R = TwoTo[s.bits] /\ R = 2 * H
        /\ H + 1 < n /\ n + 1 < R
  BY CurveSizes
<1>2. k \in Nat /\ k >= 1 /\ k < H
  BY <1>1
<1>3. CASE k + n >= R
  <2>1. PICK f \in Nat : f = k + n
    BY <1>2
  <2>2. sb_sw_regularize_scalar(k, s) = f - R
    BY <1>1, <1>3, <2>1 DEF sb_sw_regularize_scalar
  <2>3. Scalars(k, f, s)
    BY <1>1, <1>2, <1>3, <2>1 DEF Scalars
  <2>4. QED
    BY <1>1, <2>2, <2>3
<1>4. CASE k + n < R
  <2>1. PICK f \in Nat : f = k + 2 * n
    BY <1>2
  <2>2. f >= R /\ f < 2 * R
    BY <1>1, <1>2, <1>4, <2>1
  <2>3. f % R = f - R
    <3>1. PICK q \in Nat, r \in Nat : q = 1 /\ r = f - R /\ r < R
      BY <2>2
    <3>2. q * R = R
      BY <3>1
    <3>3. R \in Nat \ {0}
      BY <2>2
    <3>4. (q * R + r) % R = r
      BY <3>1, <3>3, Quotient
    <3>5. q * R + r = f
      BY <3>1, <3>2
    <3>6. QED
      BY <3>1, <3>4, <3>5
  <2>4. sb_sw_regularize_scalar(k, s) = f - R
    BY <1>1, <1>4, <2>1, <2>3 DEF sb_sw_regularize_scalar
  <2>5. Scalars(k, f, s)
    BY <1>1, <1>2, <1>4, <2>1, <2>2 DEF Scalars
  <2>6. QED
    BY <1>1, <2>4, <2>5
<1>5. QED
  BY <1>1, <1>2, <1>3, <1>4

(* From m B and (m + 1) B the ladder can go on. *)
Passable(m, s) == ~Zero(m, s) /\ ~Zero(m + 1, s) /\ ~Zero(2 * m + 1, s)

LEMMA Prefixes ==
  ASSUME NEW f \in Nat
  PROVE  /\ Above(f, 0) = f /\ Above(f, 1) \in Nat /\ Above(f, 2) \in Nat /\ Above(f, 3) \in Nat
         /\ \E b0, b1, b2 \in 0 .. 1 :
              /\ b0 = test_bit(f, 0) /\ b1 = test_bit(f, 1)
              /\ f = 2 * Above(f, 1) + b0 /\ Above(f, 1) = 2 * Above(f, 2) + b1
              /\ Above(f, 2) = 2 * Above(f, 3) + b2
<1>1. Above(f, 0) = f
  BY TwoToIs DEF Above
<1>2. Above(f, 0) = 2 * Above(f, 0 + 1) + test_bit(f, 0) /\ test_bit(f, 0) \in 0 .. 1
  BY AboveIs
<1>3. Above(f, 1) = 2 * Above(f, 1 + 1) + test_bit(f, 1) /\ test_bit(f, 1) \in 0 .. 1 /\ Above(f, 1) \in Nat
  BY AboveIs
<1>4. Above(f, 2) = 2 * Above(f, 2 + 1) + test_bit(f, 2) /\ test_bit(f, 2) \in 0 .. 1 /\ Above(f, 2) \in Nat
  BY AboveIs
<1>5. Above(f, 3) \in Nat
  BY AboveIs
<1>6. QED
  BY <1>1, <1>2, <1>3, <1>4, <1>5

(* Shorter prefixes are smaller. *)
LEMMA AboveLess ==
  ASSUME NEW f \in Nat, NEW i \in Nat
  PROVE  \A d \in Nat : Above(f, i + d) <= Above(f, i)
<1> DEFINE L == {d \in Nat : Above(f, i + d) <= Above(f, i)}
<1>1. 0 \in L
  BY AboveIs
<1>2. ASSUME NEW d \in Nat, d \in L PROVE d + 1 \in L
  <2>1. PICK e \in Nat : e = i + d /\ e + 1 = i + (d + 1)
    OBVIOUS
  <2>2. /\ Above(f, e) \in Nat /\ Above(f, e + 1) \in Nat /\ Above(f, i) \in Nat /\ test_bit(f, e) \in 0 .. 1
        /\ Above(f, e) = 2 * Above(f, e + 1) + test_bit(f, e)
    <3>1. Above(f, e) \in Nat /\ Above(f, i) \in Nat /\ Above(f, e) = 2 * Above(f, e + 1) + test_bit(f, e)
          /\ test_bit(f, e) \in 0 .. 1
      BY AboveIs
    <3>2. PICK g \in Nat : g = e + 1
      OBVIOUS
    <3>3. Above(f, g) \in Nat
      BY AboveIs
    <3>4. QED
      BY <3>1, <3>2, <3>3
  <2>3. Above(f, e) <= Above(f, i)
    BY <1>2, <2>1
  <2>4. Above(f, e + 1) <= Above(f, i)
    BY <2>2, <2>3
  <2>5. QED
    BY <2>1, <2>4
<1> HIDE DEF L
<1>3. Nat \subseteq L
  BY <1>1, <1>2, Induction
<1>4. QED
  BY <1>3 DEF L

LEMMA Nondegenerate ==
  ASSUME NEW s, IsCurve(s), NEW k, NEW f, Scalars(k, f, s), NEW i \in 0 .. s.bits - 1,
         k >= 2 \/ i >= 2
  PROVE  Passable(Above(f, i + 1), s)
<1>1. PICK n \in Nat, H \in Nat, R \in Nat :
        /\ n = s.n.p /\ H = TwoTo[s.bits - 1] /\ R = TwoTo[s.bits] /\ R = 2 * H
        /\ H + 1 < n /\ n + 1 < R /\ n % 2 = 1
  BY CurveSizes
<1>2. k \in Nat /\ k >= 1 /\ k < H /\ f \in Nat /\ f >= R /\ f < 2 * R /\ (f = k + n \/ f = k + 2 * n)
  BY <1>1 DEF Scalars
<1>3. PICK m \in Nat : m = Above(f, i + 1) /\ m >= 1
  <2>1. i + 1 \in 0 .. s.bits /\ s.bits \in Nat
    BY CurveSizes
  <2>2. Above(f, i + 1) >= 1
    BY <1>1, <1>2, <2>1, SameBits
  <2>3. Above(f, i + 1) \in Nat
    BY <1>2, <2>1, AboveIs
  <2>4. QED
    BY <2>2, <2>3
<1>4. PICK m1 \in Nat, m2 \in Nat, m3 \in Nat, b0 \in 0 .. 1, b1 \in 0 .. 1, b2 \in 0 .. 1 :
        /\ m1 = Above(f, 1) /\ m2 = Above(f, 2) /\ m3 = Above(f, 3)
        /\ f = 2 * m1 + b0 /\ m1 = 2 * m2 + b1 /\ m2 = 2 * m3 + b2
  <2>1. Above(f, 1) \in Nat /\ Above(f, 2) \in Nat /\ Above(f, 3) \in Nat
    BY <1>2, Prefixes
  <2>2. PICK b0 \in 0 .. 1, b1 \in 0 .. 1, b2 \in 0 .. 1 :
          /\ f = 2 * Above(f, 1) + b0 /\ Above(f, 1) = 2 * Above(f, 2) + b1
          /\ Above(f, 2) = 2 * Above(f, 3) + b2
    BY <1>2, Prefixes
  <2>3. QED
    BY <2>1, <2>2
(* Enough that none of them is a small multiple. *)
<1>5. ASSUME m < 2 * n, m + 1 < 2 * n, m # n, m + 1 # n, 2 * m + 1 # n, 2 * m + 1 # 3 * n
      PROVE  Passable(m, s)
  <2>1. n \in Nat \ {0}
    BY <1>1
  <2>2. ~Congruent(m, 0, n)
    <3> SUFFICES ASSUME Congruent(m, 0, n) PROVE FALSE
      OBVIOUS
    <3>1. m = n \/ m = 2 * n \/ m = 3 * n
      BY <1>3, <1>5, <2>1, FewMultiples
    <3>2. QED
      BY <1>5, <3>1
  <2>3. ~Congruent(m + 1, 0, n)
    <3> SUFFICES ASSUME Congruent(m + 1, 0, n) PROVE FALSE
      OBVIOUS
    <3>1. m + 1 = n \/ m + 1 = 2 * n \/ m + 1 = 3 * n
      <4>1. PICK a \in Int : a = m + 1 /\ a > 0 /\ a < 4 * n
        BY <1>5
      <4>2. QED
        BY <2>1, <4>1, FewMultiples
    <3>2. QED
      BY <1>5, <3>1
  <2>4. ~Congruent(2 * m + 1, 0, n)
    <3> SUFFICES ASSUME Congruent(2 * m + 1, 0, n) PROVE FALSE
      OBVIOUS
    <3>1. 2 * m + 1 = n \/ 2 * m + 1 = 2 * n \/ 2 * m + 1 = 3 * n
      <4>1. PICK a \in Int : a = 2 * m + 1 /\ a > 0 /\ a < 4 * n
        BY <1>5
      <4>2. QED
        BY <2>1, <4>1, FewMultiples
    <3>2. QED
      BY <1>5, <3>1
  <2>5. QED
    BY <1>1, <2>2, <2>3, <2>4 DEF Passable, Zero
<1>6. CASE i >= 2
  <2>1. m <= m3
    <3>1. PICK d \in Nat : d = i - 2 /\ 3 + d = i + 1
      BY <1>6
    <3>2. Above(f, 3 + d) <= Above(f, 3)
      BY <1>2, AboveLess
    <3>3. QED
      BY <1>3, <1>4, <3>1, <3>2
  <2>2. QED
    BY <1>1, <1>2, <1>3, <1>4, <1>5, <2>1
<1>7. CASE i = 1
  <2>1. m = m2 /\ k >= 2
    BY <1>3, <1>4, <1>7
  <2>2. QED
    BY <1>1, <1>2, <1>3, <1>4, <1>5, <2>1
<1>8. CASE i = 0
  BY <1>3, <1>4, <1>8, <1>1, <1>2, <1>5
<1>9. QED
  BY <1>3, <1>6, <1>7, <1>8

--------------------------------------------------------------------------------
(* The ladder.                                                             *)

(* What the two registers hold, and whatever Z they share.                 *)
Both(x, i, j, s) ==
  \E Z : Unit(Z, s) /\ First(x, Point(i, s), Z, s.p) /\ Second(x, Point(j, s), Z, s.p)

(* m B and (m + 1) B, that of the bit first. *)
Rungs(x, b, m, B, s) == Both(x, (m + b) * B, (m + 1 - b) * B, s)

(* Between two bits swap tells the order.                                  *)
Held(x, m, B, s) == Rungs(x, x.state.swap, m, B, s)

(* Two factors that are told apart in each step of the ladder. *)
Neighbouring(i, j, m, b, B, s) ==
  /\ i = (m + b) * B /\ j = (m + 1 - b) * B /\ Differ(i, j, s)
  /\ i + j = (2 * m + 1) * B /\ i - j = (2 * b - 1) * B
  /\ Differ(i + j, i - j, s) /\ 2 * i = (2 * m + 2 * b) * B
LEMMA Neighbours ==
  ASSUME NEW s, IsCurve(s), NEW B \in Int, ~Zero(B, s), NEW m \in Int, Passable(m, s),
         NEW b \in 0 .. 1
  PROVE  \E i, j \in Int : Neighbouring(i, j, m, b, B, s)
<1>1. PICK n \in Nat : n = s.n.p /\ n > 3 /\ n % 2 = 1
  BY CurveSizes
<1>2. PICK u \in Int, v \in Int, g \in Int, h \in Int :
        u = m + b /\ v = m + 1 - b /\ g = 2 * m + 1 /\ h = 2 * b - 1
  OBVIOUS
<1>3. ~Congruent(1, 0, n) /\ ~Congruent(-1, 0, n)
  <2>1. n \in Nat \ {0}
    BY <1>1
  <2>2. ~Congruent(1, 0, n)
    <3> SUFFICES ASSUME Congruent(1, 0, n) PROVE FALSE
      OBVIOUS
    <3>1. 1 = n \/ 1 = 2 * n \/ 1 = 3 * n
      BY <1>1, <2>1, FewMultiples
    <3>2. QED
      BY <1>1, <3>1
  <2>3. ~Congruent(-1, 0, n)
    <3> SUFFICES ASSUME Congruent(-1, 0, n) PROVE FALSE
      OBVIOUS
    <3>1. Congruent(0 - (-1), 0 - 0, n)
      BY CongruentPlus, CongruentSame
    <3>2. 0 - (-1) = 1 /\ 0 - 0 = 0
      OBVIOUS
    <3>3. QED
      BY <2>2, <3>1, <3>2
  <2>4. QED
    BY <2>2, <2>3
<1>4. ~Zero(u, s) /\ ~Zero(v, s) /\ ~Zero(u + v, s) /\ ~Zero(u - v, s) /\ ~Zero(g, s) /\ ~Zero(h, s)
  BY <1>2, <1>1, <1>3 DEF Passable, Zero
<1>5. ~Zero(2 * m, s) /\ ~Zero(2 * (m + 1), s)
  <2>1. ASSUME NEW w \in Int, ~Zero(w, s) PROVE ~Zero(2 * w, s)
    <3> SUFFICES ASSUME Zero(2 * w, s) PROVE FALSE
      OBVIOUS
    <3>1. Congruent(2 * w, 2 * 0, n)
      BY <1>1 DEF Zero
    <3>2. Congruent(w, 0, n)
      BY <1>1, <3>1, CongruentHalf
    <3>3. QED
      BY <1>1, <2>1, <3>2 DEF Zero
  <2>2. QED
    BY <2>1 DEF Passable
<1>6. ~Zero(g - h, s) /\ ~Zero(g + h, s)
  BY <1>2, <1>5
<1>7. Differ(u * B, v * B, s) /\ Differ(g * B, h * B, s)
  BY <1>4, <1>6, DifferTimes
<1>8. u * B \in Int /\ v * B \in Int /\ u * B + v * B = g * B /\ u * B - v * B = h * B
      /\ 2 * (u * B) = (2 * m + 2 * b) * B
  BY <1>2
<1>9. PICK i \in Int, j \in Int : i = u * B /\ j = v * B
  BY <1>8
<1>10. Neighbouring(i, j, m, b, B, s)
  BY <1>2, <1>7, <1>8, <1>9 DEF Neighbouring
<1>11. QED
  BY <1>10

KeepsAll(u, x) == Keeps(u, x) /\ u.z = x.z

(* The register of the bit comes first. *)
Readied(r, x, b) ==
  /\ x.state.swap = b => r = x
  /\ x.state.swap # b => r = [x EXCEPT !.x1 = x.x2, !.y1 = x.y2, !.x2 = x.x1, !.y2 = x.y1]

LEMMA ReadyIs ==
  ASSUME NEW s, NEW x \in Context, NEW m \in Int, NEW B \in Int, Held(x, m, B, s),
         x.state.swap \in 0 .. 1, NEW b \in 0 .. 1,
         NEW r, Readied(r, x, b)
  PROVE  r \in Context /\ KeepsAll(r, x) /\ Rungs(r, b, m, B, s)
<1>1. Both(x, (m + x.state.swap) * B, (m + 1 - x.state.swap) * B, s)
  BY DEF Held, Rungs
<1>2. CASE x.state.swap = b
  BY <1>2 DEF Held, Readied, KeepsAll, Keeps
<1>3. CASE x.state.swap # b
  <2>1. r = [x EXCEPT !.x1 = x.x2, !.y1 = x.y2, !.x2 = x.x1, !.y2 = x.y1]
    BY <1>3 DEF Readied
  <2>2. /\ r \in Context /\ Keeps(r, x) /\ r.z = x.z
        /\ r.x1 = x.x2 /\ r.y1 = x.y2 /\ r.x2 = x.x1 /\ r.y2 = x.y1
    BY <2>1 DEF Context, Keeps
  <2>3. m + 1 - x.state.swap = m + b /\ m + x.state.swap = m + 1 - b
    BY <1>3
  <2>4. QED
    <3>1. Both(x, (m + 1 - b) * B, (m + b) * B, s)
      BY <1>1, <2>3
    <3>2. PICK i, j : i = (m + b) * B /\ j = (m + 1 - b) * B
      OBVIOUS
    <3>3. Both(x, j, i, s)
      BY <3>1, <3>2
    <3>4. Both(r, i, j, s)
      BY <2>2, <3>3 DEF Both, First, Second
    <3>5. QED
      BY <2>2, <3>2, <3>4 DEF Rungs, KeepsAll
<1>4. QED
  BY <1>2, <1>3

(* What a bit of the ladder leaves alone. *)
Stepped(u, x, b) ==
  /\ u \in Context /\ u.z = x.z /\ Keeps([u EXCEPT !.state = x.state], x)
  /\ u.state = [x.state EXCEPT !.swap = b, !.i = x.state.i - 1]

SameRegisters(u, v) == u.x1 = v.x1 /\ u.y1 = v.y1 /\ u.x2 = v.x2 /\ u.y2 = v.y2

LEMMA SteppedIs ==
  ASSUME NEW x \in Context, NEW v \in Context, KeepsAll(v, x), NEW b \in 0 .. 1, x.state.i \in Int,
         NEW u, u = [v EXCEPT !.state.swap = b, !.state.i = @ - 1]
  PROVE  Stepped(u, x, b) /\ SameRegisters(u, v)
<1>1. PICK st : st = [v.state EXCEPT !.swap = b, !.i = v.state.i - 1]
  OBVIOUS
<1>2. u = [v EXCEPT !.state = st]
  BY <1>1 DEF Context, States
<1>3. v.state = x.state /\ st \in States
  <2>1. v.state = x.state
    BY DEF Keeps, KeepsAll
  <2>2. x.state \in States
    BY DEF Context
  <2>3. st = [x.state EXCEPT !.swap = b, !.i = x.state.i - 1]
    BY <1>1, <2>1
  <2>4. b \in Int /\ x.state.i - 1 \in Int
    OBVIOUS
  <2>5. QED
    BY <2>1, <2>2, <2>3, <2>4 DEF States
<1>4. /\ u \in Context /\ u.z = v.z /\ u.state = st
      /\ u.x1 = v.x1 /\ u.y1 = v.y1 /\ u.x2 = v.x2 /\ u.y2 = v.y2
      /\ Keeps([u EXCEPT !.state = x.state], v)
  BY <1>2, <1>3 DEF Context, Keeps
<1>5. QED
  BY <1>1, <1>3, <1>4 DEF Stepped, SameRegisters, KeepsAll, Keeps

(* One bit, when no point is met that is the same, opposite or zero. *)
LEMMA StepHolds ==
  ASSUME NEW s, IsCurve(s), NEW x \in Context, NEW m \in Int, NEW B \in Int, ~Zero(B, s),
         Held(x, m, B, s), Passable(m, s), x.state.swap \in 0 .. 1, x.state.i \in Int,
         NEW b, b = test_bit(x.k, x.state.i), b \in 0 .. 1, NEW u, u = LadderStep(x, s)
  PROVE  Stepped(u, x, b) /\ Held(u, 2 * m + b, B, s)
<1>0. PICK r : r = Swapped(x, x.state.swap # b)
  OBVIOUS
<1>1. PICK v : v = sb_sw_point_co_z_add_update(sb_sw_point_co_z_conj_add(r, s), s)
  OBVIOUS
<1>2. r \in Context /\ KeepsAll(r, x) /\ Rungs(r, b, m, B, s)
  BY <1>0, ReadyIs DEF Swapped, Readied
<1>31. PICK i \in Int, j \in Int : Neighbouring(i, j, m, b, B, s)
  BY Neighbours
<1>3. /\ i \in Int /\ j \in Int /\ i = (m + b) * B /\ j = (m + 1 - b) * B /\ Differ(i, j, s)
      /\ i + j = (2 * m + 1) * B
      /\ Differ(i + j, i - j, s) /\ 2 * i = (2 * m + 2 * b) * B
  BY <1>31 DEF Neighbouring
<1>4. PICK Z : Unit(Z, s) /\ First(r, Point(i, s), Z, s.p) /\ Second(r, Point(j, s), Z, s.p)
  BY <1>2, <1>3 DEF Both, Rungs
<1>41. Differ(i, j, s) /\ Differ(i + j, i - j, s) /\ r \in Context
  BY <1>2, <1>3
<1>5. /\ v \in Context /\ Keeps(v, r) /\ v.z = r.z
      /\ \E W : /\ Unit(W, s)
                /\ First(v, Point(2 * i, s), W, s.p) /\ Second(v, Point(i + j, s), W, s.p)
  BY <1>1, <1>4, <1>41, DoubleAndAdd
<1>6. u = [v EXCEPT !.state.swap = b, !.state.i = @ - 1]
  BY <1>0, <1>1 DEF LadderStep
<1>7. KeepsAll(v, x)
  BY <1>2, <1>5 DEF Keeps, KeepsAll
<1>8. Stepped(u, x, b) /\ SameRegisters(u, v)
  BY <1>5, <1>6, <1>7, SteppedIs
<1>9. u.state.swap = b
  BY <1>8 DEF Stepped, Context, States
<1>10. PICK W : /\ Unit(W, s)
                /\ First(v, Point(2 * i, s), W, s.p) /\ Second(v, Point(i + j, s), W, s.p)
  BY <1>5
<1>11. 2 * i = (2 * m + b + b) * B /\ i + j = (2 * m + b + 1 - b) * B
  <2>1. 2 * m + 2 * b = 2 * m + b + b /\ 2 * m + 1 = 2 * m + b + 1 - b
    OBVIOUS
  <2>2. QED
    BY <1>3, <2>1
<1>12. First(u, Point(2 * i, s), W, s.p) /\ Second(u, Point(i + j, s), W, s.p)
  BY <1>8, <1>10 DEF First, Second, SameRegisters
<1>13. Held(u, 2 * m + b, B, s)
  BY <1>9, <1>10, <1>11, <1>12 DEF Held, Rungs, Both
<1>14. QED
  BY <1>8, <1>13

--------------------------------------------------------------------------------
(* The two additions on any numbers, also where no points are added.       *)

Values(x, a, b, a2, b2, m) ==
  x.x1 = E(a, m) /\ x.y1 = E(b, m) /\ x.x2 = E(a2, m) /\ x.y2 = E(b2, m)

Update(a, b, a2, b2, B, F, q, h, l) ==
  \E d, A, C, D, g, w, r \in Int :
    /\ d = a2 - a /\ A = d * d /\ C = a2 * A /\ B = a * A /\ D = C - B /\ F = b * D
    /\ g = b2 - b /\ q = B + C /\ w = g * g /\ h = w - q /\ r = B - h /\ l = g * r - F

Conjugate(b, b2, B, F, q, X, Y) ==
  \E n, w, r \in Int : n = b + b2 /\ w = n * n /\ X = w - q /\ r = X - B /\ Y = n * r - F

Total(u, q, m) == u.t5 = E(q, m)

LEMMA RawUpdate ==
  ASSUME NEW s, NEW m, m = s.p, Montgomery(m), NEW x \in Context,
         NEW a \in Int, NEW b \in Int, NEW a2 \in Int, NEW b2 \in Int, Values(x, a, b, a2, b2, m),
         NEW B \in Int, NEW F \in Int, NEW q \in Int, NEW h \in Int, NEW l \in Int,
         Update(a, b, a2, b2, B, F, q, h, l),
         NEW u, u = sb_sw_point_co_z_add_update(x, s)
  PROVE  u \in Context /\ KeepsAll(u, x) /\ Values(u, h, l, B, F, m) /\ Total(u, q, m)
<1>1. PICK d \in Int, A \in Int, C \in Int, D \in Int, g \in Int, w \in Int, r \in Int :
        /\ d = a2 - a /\ A = d * d /\ C = a2 * A /\ B = a * A /\ D = C - B /\ F = b * D
        /\ g = b2 - b /\ q = B + C /\ w = g * g /\ h = w - q /\ r = B - h /\ l = g * r - F
  BY DEF Update
<1>2. PICK gr \in Int : gr = g * r /\ l = gr - F
  BY <1>1
<1>3. /\ E(d, m) \in Int /\ E(q, m) \in Int /\ E(h, m) \in Int /\ E(B, m) \in Int
      /\ E(F, m) \in Int /\ E(l, m) \in Int
  BY EIs
<1>4. PICK y : y = [x EXCEPT !.t6 = E(d, m)]
  OBVIOUS
<1>5. /\ y \in Context /\ KeepsAll(y, x) /\ Values(y, a, b, a2, b2, m) /\ y.t6 = E(d, m)
  <2>1. PICK e \in Int : e = E(d, m)
    BY <1>3
  <2>2. /\ y \in Context /\ y.t6 = e /\ KeepsAll(y, x)
        /\ y.x1 = x.x1 /\ y.y1 = x.y1 /\ y.x2 = x.x2 /\ y.y2 = x.y2
    BY <1>4, <2>1 DEF Context, Keeps, KeepsAll
  <2>3. QED
    BY <2>1, <2>2 DEF Values
<1>6. u = sb_sw_point_co_z_add_update_zup(y, s)
  <2>1. mod_sub(x.x2, x.x1, m) = E(d, m)
    BY <1>1, EAdd DEF Values
  <2>2. QED
    BY <1>4, <2>1 DEF sb_sw_point_co_z_add_update
<1> DEFINE AA == mont_square(y.t6, m)
           CC == mont_mult(y.x2, AA, m)
           BB == mont_mult(y.x1, AA, m)
           FF == mont_mult(y.y1, mod_sub(CC, BB, m), m)
           dy == mod_sub(y.y2, y.y1, m)
           X3 == mod_sub(mont_square(dy, m), mod_add(BB, CC, m), m)
           Y3 == mod_sub(mont_mult(dy, mod_sub(BB, X3, m), m), FF, m)
<1>7. u = [y EXCEPT !.t5 = mod_add(BB, CC, m), !.x1 = X3, !.x2 = BB, !.y2 = FF, !.y1 = Y3]
  BY <1>6 DEF sb_sw_point_co_z_add_update_zup
<1>8. AA = E(A, m)
  BY <1>1, <1>5, ESquare
<1>9. CC = E(C, m) /\ BB = E(B, m)
  <2> HIDE DEF AA
  <2>1. mont_mult(E(a2, m), E(A, m), m) = E(a2 * A, m) /\ mont_mult(E(a, m), E(A, m), m) = E(a * A, m)
    BY EMult
  <2>2. QED
    BY <1>1, <1>5, <1>8, <2>1 DEF Values
<1>10. FF = E(F, m)
  <2> HIDE DEF BB, CC
  <2>1. mod_sub(CC, BB, m) = E(D, m)
    BY <1>1, <1>9, EAdd
  <2>2. mont_mult(E(b, m), E(D, m), m) = E(b * D, m)
    BY EMult
  <2>3. QED
    BY <1>1, <1>5, <2>1, <2>2 DEF Values
<1>11. dy = E(g, m)
  BY <1>1, <1>5, EAdd DEF Values
<1>12. mod_add(BB, CC, m) = E(q, m)
  <2> HIDE DEF BB, CC
  <2>1. QED
    BY <1>1, <1>9, EAdd
<1>13. X3 = E(h, m)
  <2> HIDE DEF BB, CC, dy
  <2>1. mont_square(dy, m) = E(w, m)
    BY <1>1, <1>11, ESquare
  <2>2. QED
    BY <1>1, <1>12, <2>1, EAdd
<1>14. Y3 = E(l, m)
  <2> HIDE DEF BB, CC, dy, X3, FF
  <2>1. mod_sub(BB, X3, m) = E(r, m)
    BY <1>1, <1>9, <1>13, EAdd
  <2>2. mont_mult(dy, E(r, m), m) = E(gr, m)
    BY <1>2, <1>11, EMult
  <2>3. QED
    BY <1>2, <1>10, <2>1, <2>2, EAdd
<1> HIDE DEF AA, BB, CC, FF, dy, X3, Y3
<1>15. PICK v1 \in Int, v2 \in Int, v3 \in Int, v4 \in Int, v5 \in Int :
         v1 = E(q, m) /\ v2 = E(h, m) /\ v3 = E(B, m) /\ v4 = E(F, m) /\ v5 = E(l, m)
  BY <1>3
<1>16. u = [y EXCEPT !.t5 = v1, !.x1 = v2, !.x2 = v3, !.y2 = v4, !.y1 = v5]
  BY <1>7, <1>9, <1>10, <1>12, <1>13, <1>14, <1>15
<1>17. /\ u \in Context /\ KeepsAll(u, y)
       /\ u.t5 = v1 /\ u.x1 = v2 /\ u.x2 = v3 /\ u.y2 = v4 /\ u.y1 = v5
  BY <1>5, <1>16 DEF Context, Keeps, KeepsAll
<1>18. KeepsAll(u, x)
  BY <1>5, <1>17 DEF Keeps, KeepsAll
<1>19. QED
  BY <1>15, <1>17, <1>18 DEF Values, Total

LEMMA RawConjugate ==
  ASSUME NEW s, NEW m, m = s.p, Montgomery(m), NEW x \in Context,
         NEW a \in Int, NEW b \in Int, NEW a2 \in Int, NEW b2 \in Int, Values(x, a, b, a2, b2, m),
         NEW B \in Int, NEW F \in Int, NEW q \in Int, NEW h \in Int, NEW l \in Int,
         Update(a, b, a2, b2, B, F, q, h, l),
         NEW X \in Int, NEW Y \in Int, Conjugate(b, b2, B, F, q, X, Y),
         NEW u, u = sb_sw_point_co_z_conj_add(x, s)
  PROVE  u \in Context /\ KeepsAll(u, x) /\ Values(u, h, l, X, Y, m)
<1>1. PICK n \in Int, w \in Int, r \in Int :
        n = b + b2 /\ w = n * n /\ X = w - q /\ r = X - B /\ Y = n * r - F
  BY DEF Conjugate
<1>2. PICK nr \in Int : nr = n * r /\ Y = nr - F
  BY <1>1
<1>3. PICK v : v = sb_sw_point_co_z_add_update(x, s)
  OBVIOUS
<1>4. v \in Context /\ KeepsAll(v, x) /\ Values(v, h, l, B, F, m) /\ Total(v, q, m)
  BY <1>3, RawUpdate
<1> DEFINE sum == mod_add(x.y1, x.y2, m)
           X3 == mod_sub(mont_square(sum, m), v.t5, m)
           Y3 == mod_sub(mont_mult(sum, mod_sub(X3, v.x2, m), m), v.y2, m)
<1>5. sum = E(n, m)
  BY <1>1, EAdd DEF Values
<1>6. X3 = E(X, m)
  <2> HIDE DEF sum
  <2>1. mont_square(sum, m) = E(w, m)
    BY <1>1, <1>5, ESquare
  <2>2. QED
    BY <1>1, <1>4, <2>1, EAdd DEF Total
<1>7. Y3 = E(Y, m)
  <2> HIDE DEF sum, X3
  <2>1. mod_sub(X3, v.x2, m) = E(r, m)
    BY <1>1, <1>4, <1>6, EAdd DEF Values
  <2>2. mont_mult(sum, E(r, m), m) = E(nr, m)
    BY <1>2, <1>5, EMult
  <2>3. QED
    BY <1>2, <1>4, <2>1, <2>2, EAdd DEF Values
<1>8. u = [v EXCEPT !.x2 = X3, !.y2 = Y3]
  BY <1>3 DEF sb_sw_point_co_z_conj_add
<1> HIDE DEF sum, X3, Y3
<1>9. PICK v1 \in Int, v2 \in Int : v1 = E(X, m) /\ v2 = E(Y, m)
  BY EIs
<1>10. u = [v EXCEPT !.x2 = v1, !.y2 = v2]
  BY <1>6, <1>7, <1>8, <1>9
<1>11. /\ u \in Context /\ KeepsAll(u, v) /\ u.x2 = v1 /\ u.y2 = v2 /\ u.x1 = v.x1 /\ u.y1 = v.y1
  BY <1>4, <1>10 DEF Context, Keeps, KeepsAll
<1>12. KeepsAll(u, x)
  BY <1>4, <1>11 DEF Keeps, KeepsAll
<1>13. QED
  BY <1>4, <1>9, <1>11, <1>12 DEF Values

--------------------------------------------------------------------------------
(* The ladder of 1: it meets opposite points.                              *)

Collapsed(x, m) == \E e \in Int : Values(x, 0, 0, e * e, e * e * e, m)

(* Two registers that are opposite. *)
LEMMA CollapseIs ==
  ASSUME NEW s, NEW m, m = s.p, Montgomery(m), NEW x \in Context,
         NEW a \in Int, NEW b \in Int, Values(x, a, b, a, -b, m),
         NEW u, u = sb_sw_point_co_z_add_update(sb_sw_point_co_z_conj_add(x, s), s)
  PROVE  u \in Context /\ KeepsAll(u, x) /\ Collapsed(u, m)
<1>1. PICK o \in Int, c1 \in Int, d \in Int, dd \in Int, e \in Int, n \in Int :
        o = 0 /\ c1 = -b /\ d = -2 * b /\ dd = d * d /\ e = d * dd /\ n = -e
  OBVIOUS
<1>2. Update(a, b, a, c1, o, o, o, dd, n)
  <2>1. a - a = o /\ o * o = o /\ a * o = o /\ o - o = o /\ b * o = o /\ c1 - b = d /\ o + o = o
        /\ dd - o = dd /\ o - dd \in Int /\ d * (o - dd) = n /\ n - o = n
    BY <1>1
  <2>2. PICK r \in Int : r = o - dd
    BY <2>1
  <2>3. d * r - o = n /\ d * d = dd
    BY <1>1, <2>1, <2>2
  <2>4. QED
    BY <2>1, <2>2, <2>3 DEF Update
<1>3. Conjugate(b, c1, o, o, o, o, o)
  BY <1>1 DEF Conjugate
<1>4. PICK v : v = sb_sw_point_co_z_conj_add(x, s)
  OBVIOUS
<1>5. Values(x, a, b, a, c1, m)
  BY <1>1
<1>6. v \in Context /\ KeepsAll(v, x) /\ Values(v, dd, n, o, o, m)
  BY <1>2, <1>3, <1>4, <1>5, RawConjugate
<1>7. PICK ee \in Int, eee \in Int : ee = e * e /\ eee = e * ee
  OBVIOUS
<1>8. Update(dd, n, o, o, ee, eee, ee, o, o)
  <2>1. PICK f \in Int, A \in Int : f = -dd /\ A = dd * dd
    OBVIOUS
  <2>2. o - dd = f /\ f * f = A /\ o * A = o
    BY <1>1, <2>1
  <2>3. dd * A = ee
    BY <1>1, <1>7, <2>1
  <2>4. PICK D \in Int : D = -ee
    OBVIOUS
  <2>5. o - ee = D /\ n * D = eee
    BY <1>1, <1>7, <2>4
  <2>6. o - n = e /\ ee + o = ee /\ e * e = ee /\ ee - ee = o /\ ee - o = ee /\ e * ee - eee = o
    BY <1>1, <1>7
  <2>7. QED
    BY <2>2, <2>3, <2>5, <2>6 DEF Update
<1>9. u \in Context /\ KeepsAll(u, v) /\ Values(u, o, o, ee, eee, m)
  BY <1>4, <1>6, <1>8, RawUpdate
<1>10. KeepsAll(u, x)
  BY <1>6, <1>9 DEF Keeps, KeepsAll
<1>11. eee = e * e * e
  BY <1>7
<1>12. Values(u, 0, 0, e * e, e * e * e, m)
  BY <1>1, <1>7, <1>9, <1>11
<1>13. QED
  BY <1>9, <1>10, <1>12 DEF Collapsed

(* What is left of them at the last bit: nothing. *)
LEMMA NothingIs ==
  ASSUME NEW s, NEW m, m = s.p, Montgomery(m), NEW x \in Context, Collapsed(x, m),
         NEW v, v = sb_sw_point_co_z_conj_add(x, s), NEW u, u = sb_sw_point_co_z_add_update(v, s)
  PROVE  /\ v \in Context /\ KeepsAll(v, x) /\ Values(v, 0, 0, 0, 0, m)
         /\ u \in Context /\ KeepsAll(u, x) /\ Values(u, 0, 0, 0, 0, m)
<1>1. PICK e \in Int : Values(x, 0, 0, e * e, e * e * e, m)
  BY DEF Collapsed
<1>2. PICK o \in Int, ee \in Int, eee \in Int : o = 0 /\ ee = e * e /\ eee = e * ee
  OBVIOUS
<1>3. e * e * e = eee
  BY <1>2
<1>4. Values(x, o, o, ee, eee, m)
  BY <1>1, <1>2, <1>3
<1>5. PICK A \in Int, q \in Int : A = ee * ee /\ q = ee * A
  OBVIOUS
<1>6. eee * eee = q
  BY <1>2, <1>5
<1>7. Update(o, o, ee, eee, o, o, q, o, o)
  BY <1>2, <1>5, <1>6 DEF Update
<1>8. Conjugate(o, eee, o, o, q, o, o)
  BY <1>2, <1>6 DEF Conjugate
<1>9. v \in Context /\ KeepsAll(v, x) /\ Values(v, o, o, o, o, m)
  BY <1>4, <1>7, <1>8, RawConjugate
<1>10. Update(o, o, o, o, o, o, o, o, o)
  BY <1>2 DEF Update
<1>11. u \in Context /\ KeepsAll(u, v) /\ Values(u, o, o, o, o, m)
  BY <1>9, <1>10, RawUpdate
<1>12. KeepsAll(u, x)
  BY <1>9, <1>11 DEF Keeps, KeepsAll
<1>13. QED
  BY <1>2, <1>9, <1>11, <1>12

(* Opposite points, in registers that share their Z. *)
LEMMA OppositeValues ==
  ASSUME NEW s, IsCurve(s), NEW i \in Int, NEW j \in Int, ~Zero(j, s), Congruent(i, -j, s.n.p),
         NEW x, Both(x, i, j, s)
  PROVE  \E a, b \in Int : Values(x, a, b, a, -b, s.p)
<1>1. Montgomery(s.p) /\ s.p.p \in Nat
  BY CurveIs
<1>2. Point(i, s) = Point(-j, s)
  BY PointSame
<1>3. PICK Z : Unit(Z, s) /\ First(x, Point(i, s), Z, s.p) /\ Second(x, Point(j, s), Z, s.p)
  BY DEF Both
<1>4. PICK X \in Int, Y \in Int, Y2 \in Int :
        /\ X = Point(j, s)[1] /\ Y = Point(j, s)[2] /\ Y2 = Point(-j, s)[2]
        /\ X = Point(-j, s)[1] /\ Congruent(Y2, -Y, s.p.p)
  BY PointOpposite, PointIs DEF IsPair
<1>5. PICK t \in Int, tt \in Int, n \in Int : t = Z * Z * Z /\ tt = Z * Z /\ n = -t
  BY <1>3 DEF Unit
<1>6. PICK a \in Int, b \in Int, l \in Int : a = X * tt /\ b = Y2 * t /\ l = Y * t
  OBVIOUS
<1>7. Congruent(-b, l, s.p.p)
  <2>1. PICK o \in Int : o = -Y
    OBVIOUS
  <2>2. Congruent(Y2 * n, o * n, s.p.p)
    BY <1>1, <1>4, <2>1, CongruentScale
  <2>3. Y2 * n = -b
    BY <1>5, <1>6
  <2>4. o * n = l
    BY <1>5, <1>6, <2>1
  <2>5. QED
    BY <2>2, <2>3, <2>4
<1>8. E(-b, s.p) = E(l, s.p)
  BY <1>1, <1>7, ESame
<1>9. x.x1 = E(a, s.p) /\ x.y1 = E(b, s.p) /\ x.x2 = E(a, s.p) /\ x.y2 = E(l, s.p)
  BY <1>2, <1>3, <1>4, <1>5, <1>6 DEF First, Second
<1>10. Values(x, a, b, a, -b, s.p)
  BY <1>8, <1>9 DEF Values
<1>11. QED
  BY <1>10

(* The ladder of 1, at its last bit but one: f = 2 n + 1. *)
LEMMA LastOfOne ==
  ASSUME NEW s, IsCurve(s), NEW f, Scalars(1, f, s)
  PROVE  /\ test_bit(f, 0) = 1 /\ test_bit(f, 1) = 1
         /\ Above(f, 2) \in Int /\ ~Zero(Above(f, 2), s)
         /\ 2 * Above(f, 2) + 1 = s.n.p
<1>1. PICK n \in Nat : n = s.n.p /\ n % 2 = 1 /\ n > 3
  BY CurveSizes
<1>2. f \in Nat /\ f = 2 * n + 1
  BY <1>1 DEF Scalars
<1>31. Above(f, 1) \in Nat /\ Above(f, 2) \in Nat
  BY <1>2, Prefixes
<1>32. PICK b0 \in 0 .. 1, b1 \in 0 .. 1 :
         /\ b0 = test_bit(f, 0) /\ b1 = test_bit(f, 1)
         /\ f = 2 * Above(f, 1) + b0 /\ Above(f, 1) = 2 * Above(f, 2) + b1
  BY <1>2, Prefixes
<1>33. PICK A1 \in Nat, A2 \in Nat : A1 = Above(f, 1) /\ A2 = Above(f, 2)
  BY <1>31
<1>3. A2 = Above(f, 2) /\ f = 2 * A1 + b0 /\ A1 = 2 * A2 + b1
  BY <1>32, <1>33
<1>4. b0 = 1 /\ A1 = n
  <2>1. 2 * n + 1 = 2 * A1 + b0
    BY <1>2, <1>3
  <2>2. QED
    BY <2>1
<1>5. b1 = 1
  <2>1. 2 * A2 + b1 = n /\ n % 2 = 1
    BY <1>1, <1>3, <1>4
  <2>2. QED
    BY <2>1
<1>6. 2 * A2 + 1 = n
  BY <1>3, <1>4, <1>5
<1>7. ~Congruent(A2, 0, n)
  <2> SUFFICES ASSUME Congruent(A2, 0, n) PROVE FALSE
    OBVIOUS
  <2>1. A2 % n = 0 % n
    BY <1>1, CongruentHasRest
  <2>2. A2 > 0 /\ A2 < n
    BY <1>1, <1>6
  <2>3. QED
    BY <1>1, <2>1, <2>2
<1>8. QED
  BY <1>1, <1>32, <1>33, <1>4, <1>5, <1>6, <1>7 DEF Zero

LEMMA CollapseStep ==
  ASSUME NEW s, IsCurve(s), NEW x \in Context, NEW B \in Int, ~Zero(B, s),
         NEW m \in Int, ~Zero(m, s), 2 * m + 1 = s.n.p, Held(x, m, B, s), x.state.swap \in 0 .. 1,
         x.state.i \in Int, test_bit(x.k, x.state.i) = 1, NEW u, u = LadderStep(x, s)
  PROVE  Stepped(u, x, 1) /\ Collapsed(u, s.p)
<1>0. PICK n \in Nat : n = s.n.p
  BY CurveIs
<1>01. PICK b \in 0 .. 1 : b = 1
  OBVIOUS
<1>1. PICK r : r = Swapped(x, x.state.swap # b)
  OBVIOUS
<1>2. PICK v : v = sb_sw_point_co_z_add_update(sb_sw_point_co_z_conj_add(r, s), s)
  OBVIOUS
<1>3. r \in Context /\ KeepsAll(r, x) /\ Rungs(r, b, m, B, s)
  BY <1>1, ReadyIs DEF Swapped, Readied
<1>4. PICK i \in Int, j \in Int : i = (m + 1) * B /\ j = m * B
  OBVIOUS
<1>5. Both(r, i, j, s)
  BY <1>01, <1>3, <1>4 DEF Rungs
<1>6. ~Zero(j, s)
  BY <1>4, CurveIs, NotZero DEF Zero
<1>7. Congruent(i, -j, n)
  <2>1. i = -j + B * n
    BY <1>0, <1>4
  <2>2. PICK w \in Int : w = -j
    OBVIOUS
  <2>3. Congruent(w + B * n, w, n)
    BY CongruentShift
  <2>4. QED
    BY <2>1, <2>2, <2>3
<1>8. PICK e \in Int, l \in Int : Values(r, e, l, e, -l, s.p)
  BY <1>0, <1>5, <1>6, <1>7, OppositeValues
<1>9. Montgomery(s.p)
  BY CurveIs
<1>10. v \in Context /\ KeepsAll(v, r) /\ Collapsed(v, s.p)
  BY <1>2, <1>3, <1>8, <1>9, CollapseIs
<1>11. KeepsAll(v, x)
  BY <1>3, <1>10 DEF KeepsAll, Keeps
<1>12. u = [v EXCEPT !.state.swap = b, !.state.i = @ - 1]
  BY <1>01, <1>1, <1>2 DEF LadderStep
<1>13. Stepped(u, x, b) /\ SameRegisters(u, v)
  BY <1>10, <1>11, <1>12, SteppedIs
<1>14. Collapsed(u, s.p)
  BY <1>10, <1>13 DEF Collapsed, Values, SameRegisters
<1>15. QED
  BY <1>01, <1>13, <1>14

--------------------------------------------------------------------------------
(* The whole ladder.                                                       *)

(* What does not change: the scalar and the point multiplied. *)
Factors(x, k, f, B, s) ==
  /\ Scalars(k, f, s) /\ x.k = f - TwoTo[s.bits] /\ x.state.k_one = (k = 1)
  /\ B \in Int /\ ~Zero(B, s)
  /\ x.px = E(Point(B, s)[1], s.p) /\ x.py = E(Point(B, s)[2], s.p)

(* The registers after the bits down to i; those of 1 are lost at the last. *)
Laddered(x, k, f, B, s) ==
  /\ x \in Context /\ Factors(x, k, f, B, s)
  /\ x.state.i \in 0 .. s.bits - 1 /\ x.state.swap \in 0 .. 1
  /\ ~(k = 1 /\ x.state.i = 0) => Held(x, Above(f, x.state.i + 1), B, s)
  /\ k = 1 /\ x.state.i = 0 => Collapsed(x, s.p) /\ x.state.swap = 1

LEMMA StepLadders ==
  ASSUME NEW s, IsCurve(s), NEW x, NEW k, NEW f, NEW B, Laddered(x, k, f, B, s), x.state.i >= 1,
         NEW u, u = LadderStep(x, s)
  PROVE  \E b \in 0 .. 1 : Stepped(u, x, b) /\ Laddered(u, k, f, B, s)
<1>1. PICK i \in Nat : i = x.state.i /\ i \in 1 .. s.bits - 1 /\ i + 1 \in 0 .. s.bits /\ i \in 0 .. s.bits
  BY CurveSizes DEF Laddered
<1>2. /\ x \in Context /\ Scalars(k, f, s) /\ x.k = f - TwoTo[s.bits] /\ B \in Int /\ ~Zero(B, s)
      /\ x.state.swap \in 0 .. 1 /\ Held(x, Above(f, i + 1), B, s)
  BY <1>1 DEF Laddered, Factors
<1>3. f \in Nat /\ f >= TwoTo[s.bits] /\ f < 2 * TwoTo[s.bits] /\ s.bits \in Nat /\ k \in Nat /\ k >= 1
  BY <1>2, CurveSizes DEF Scalars
<1>4. PICK b : b = test_bit(x.k, i) /\ b = test_bit(f, i) /\ b \in 0 .. 1
  <2>1. test_bit(f - TwoTo[s.bits], i) = test_bit(f, i)
    BY <1>1, <1>3, SameBits
  <2>2. test_bit(f, i) \in 0 .. 1
    BY <1>3, AboveIs
  <2>3. QED
    BY <1>2, <2>1, <2>2
<1>5. Above(f, i) = 2 * Above(f, i + 1) + b /\ Above(f, i + 1) \in Int
  BY <1>3, <1>4, AboveIs
<1>6. Stepped(u, x, b) => /\ u \in Context /\ Factors(u, k, f, B, s)
                          /\ u.state.i = i - 1 /\ u.state.swap = b
  <2> SUFFICES ASSUME Stepped(u, x, b) PROVE /\ u \in Context /\ Factors(u, k, f, B, s)
                                             /\ u.state.i = i - 1 /\ u.state.swap = b
    OBVIOUS
  <2>1. /\ u \in Context /\ u.k = x.k /\ u.px = x.px /\ u.py = x.py
        /\ u.state.k_one = x.state.k_one /\ u.state.i = i - 1 /\ u.state.swap = b
    BY <1>1, <1>2 DEF Stepped, Keeps, Context, States
  <2>2. QED
    BY <2>1 DEF Factors, Laddered
<1>7. CASE k = 1 /\ i = 1
  <2>1. /\ test_bit(f, 1) = 1 /\ Above(f, 2) \in Int
        /\ ~Zero(Above(f, 2), s) /\ 2 * Above(f, 2) + 1 = s.n.p
    BY <1>2, <1>7, LastOfOne
  <2>2. b = 1 /\ Held(x, Above(f, 2), B, s) /\ test_bit(x.k, x.state.i) = 1 /\ x.state.i \in Int
    BY <1>7, <1>1, <1>2, <1>4, <2>1
  <2>3. Stepped(u, x, b) /\ Collapsed(u, s.p)
    <3>1. PICK m \in Int : m = Above(f, 2) /\ ~Zero(m, s) /\ 2 * m + 1 = s.n.p /\ Held(x, m, B, s)
      BY <2>1, <2>2
    <3>2. QED
      BY <1>2, <2>2, <3>1, CollapseStep
  <2>4. QED
    BY <1>1, <1>3, <1>6, <1>7, <2>2, <2>3 DEF Laddered
<1>8. CASE k >= 2 \/ i >= 2
  <2>1. Passable(Above(f, i + 1), s)
    BY <1>1, <1>2, <1>8, Nondegenerate
  <2>2. PICK m \in Int : m = Above(f, i + 1) /\ Passable(m, s) /\ Held(x, m, B, s) /\ Above(f, i) = 2 * m + b
    BY <1>2, <1>5, <2>1
  <2>3. b = test_bit(x.k, x.state.i) /\ x.state.i \in Int
    BY <1>1, <1>4
  <2>4. Stepped(u, x, b) /\ Held(u, 2 * m + b, B, s)
    BY <1>2, <1>4, <2>2, <2>3, StepHolds
  <2>5. i - 1 + 1 = i /\ i - 1 \in 0 .. s.bits - 1 /\ ~(k = 1 /\ i - 1 = 0)
    BY <1>1, <1>3, <1>8
  <2>6. QED
    BY <1>4, <1>6, <2>2, <2>4, <2>5 DEF Laddered
<1>9. QED
  BY <1>1, <1>3, <1>7, <1>8

(* What a call of the ladder leaves alone. *)
Alike(u, x) ==
  /\ u.k = x.k /\ u.z = x.z /\ u.px = x.px /\ u.py = x.py
  /\ u.u1 = x.u1 /\ u.u2 = x.u2 /\ u.u3 = x.u3 /\ u.u4 = x.u4
  /\ u.state.operation = x.state.operation
  /\ u.state.inv_k = x.state.inv_k /\ u.state.k_one = x.state.k_one

LEMMA SteppedAlike ==
  ASSUME NEW x \in Context, NEW u, NEW b, Stepped(u, x, b)
  PROVE  /\ Alike(u, x)
         /\ u.state.stage = x.state.stage /\ u.state.i = x.state.i - 1
<1>1. x.state \in States /\ u.state \in States
  BY DEF Stepped, Context
<1>2. u.state = [x.state EXCEPT !.swap = b, !.i = x.state.i - 1]
  BY DEF Stepped
<1>3. /\ u.state.operation = x.state.operation /\ u.state.inv_k = x.state.inv_k
      /\ u.state.k_one = x.state.k_one /\ u.state.stage = x.state.stage /\ u.state.i = x.state.i - 1
  BY <1>1, <1>2 DEF States
<1>4. /\ u.k = x.k /\ u.z = x.z /\ u.px = x.px /\ u.py = x.py
      /\ u.u1 = x.u1 /\ u.u2 = x.u2 /\ u.u3 = x.u3 /\ u.u4 = x.u4
  BY DEF Stepped, Keeps, Context
<1>5. QED
  BY <1>3, <1>4 DEF Alike

(* The loop, up to any turn. *)
LadderRun(g, n, x, s) ==
  g = [j \in 0 .. n |-> IF j = 0 THEN x ELSE LadderStep(g[j - 1], s)]

LEMMA LadderRuns ==
  ASSUME NEW x, NEW s
  PROVE  \A n \in Nat : \E g : LadderRun(g, n, x, s)
<1> DEFINE L == {n \in Nat : \E g : LadderRun(g, n, x, s)}
<1>1. 0 \in L
  <2> DEFINE g == [j \in 0 .. 0 |-> x]
  <2>1. g = [j \in 0 .. 0 |-> IF j = 0 THEN x ELSE LadderStep(g[j - 1], s)]
    OBVIOUS
  <2> HIDE DEF g
  <2>2. LadderRun(g, 0, x, s)
    BY <2>1 DEF LadderRun
  <2>3. QED
    BY <2>2
<1>2. ASSUME NEW n \in Nat, n \in L PROVE n + 1 \in L
  <2>1. PICK g : LadderRun(g, n, x, s)
    BY <1>2
  <2>2. PICK last : last = LadderStep(g[n], s)
    OBVIOUS
  <2> DEFINE h == [j \in 0 .. n + 1 |-> IF j <= n THEN g[j] ELSE last]
  <2>3. ASSUME NEW j \in 0 .. n PROVE g[j] = IF j = 0 THEN x ELSE LadderStep(g[j - 1], s)
    BY <2>1 DEF LadderRun
  <2>4. ASSUME NEW j \in 0 .. n + 1
        PROVE  h[j] = IF j = 0 THEN x ELSE LadderStep(h[j - 1], s)
    <3>1. CASE j <= n
      <4>1. j \in 0 .. n /\ h[j] = g[j] /\ (j # 0 => h[j - 1] = g[j - 1])
        BY <3>1
      <4>2. g[j] = IF j = 0 THEN x ELSE LadderStep(g[j - 1], s)
        BY <2>3, <4>1
      <4> HIDE DEF h
      <4>3. QED
        BY <4>1, <4>2
    <3>2. CASE j = n + 1
      <4>1. h[j] = last /\ h[j - 1] = g[n] /\ j # 0
        BY <3>2
      <4> HIDE DEF h
      <4>2. QED
        BY <2>2, <4>1
    <3>3. QED
      BY <3>1, <3>2
  <2>5. h = [j \in 0 .. n + 1 |-> h[j]]
    OBVIOUS
  <2> HIDE DEF h
  <2>6. LadderRun(h, n + 1, x, s)
    BY <2>4, <2>5 DEF LadderRun
  <2>7. QED
    BY <2>6
<1> HIDE DEF L
<1>3. Nat \subseteq L
  BY <1>1, <1>2, Induction
<1>4. QED
  BY <1>3 DEF L

(* A call goes through some bits, or all that are left. *)
LEMMA LadderTurns ==
  ASSUME NEW s, IsCurve(s), POINT_ITERATIONS \in Nat \ {0},
         NEW x, NEW k, NEW f, NEW B, Laddered(x, k, f, B, s),
         NEW u, u = Ladder(x, s)
  PROVE  \E v : /\ Laddered(v, k, f, B, s) /\ Alike(v, x) /\ v.state.stage = x.state.stage
                /\ u = Saved(v, IF v.state.i = 0 THEN [v.state EXCEPT !.stage = INV_Z] ELSE v.state)
<1> DEFINE N == POINT_ITERATIONS
           g == CHOOSE g : LadderRun(g, N, x, s)
           end == g[AtMost(x.state.i)]
<1>1. u = Saved(end, IF end.state.i = 0 THEN [end.state EXCEPT !.stage = INV_Z] ELSE end.state)
  BY Zenon DEF Ladder, LadderRun
<1>2. LadderRun(g, N, x, s)
  BY LadderRuns
<1> HIDE DEF g
<1>3. PICK a \in Nat : a = AtMost(x.state.i) /\ a <= N /\ a <= x.state.i
  BY CurveSizes DEF Laddered, AtMost
<1>4. \A j \in 0 .. N : g[j] = IF j = 0 THEN x ELSE LadderStep(g[j - 1], s)
  BY <1>2 DEF LadderRun
<1> DEFINE Good(v, j) == /\ Laddered(v, k, f, B, s) /\ Alike(v, x) /\ v.state.stage = x.state.stage
                         /\ v.state.i = x.state.i - j
           L == {j \in Nat : j <= a => Good(g[j], j)}
<1>5. 0 \in L
  BY <1>4, CurveSizes DEF Laddered, Alike
<1>6. ASSUME NEW j \in Nat, j \in L PROVE j + 1 \in L
  <2> SUFFICES ASSUME j + 1 <= a PROVE Good(g[j + 1], j + 1)
    OBVIOUS
  <2>1. Good(g[j], j)
    BY <1>3, <1>6
  <2>2. PICK w : w = g[j]
    OBVIOUS
  <2>3. g[j + 1] = LadderStep(w, s)
    BY <1>3, <1>4, <2>2
  <2>4. w.state.i >= 1 /\ x.state.i \in Int /\ w \in Context
    BY <2>1, <2>2, <1>3, CurveSizes DEF Laddered
  <2>5. PICK y : y = LadderStep(w, s)
    OBVIOUS
  <2>6. Laddered(w, k, f, B, s)
    BY <2>1, <2>2
  <2>7. PICK b \in 0 .. 1 : Stepped(y, w, b) /\ Laddered(y, k, f, B, s)
    BY <2>4, <2>5, <2>6, StepLadders
  <2>8. Alike(y, w) /\ y.state.stage = w.state.stage /\ y.state.i = w.state.i - 1
    BY <2>4, <2>7, SteppedAlike
  <2>9. Alike(y, x) /\ y.state.stage = x.state.stage /\ y.state.i = x.state.i - (j + 1)
    BY <2>1, <2>2, <2>4, <2>8 DEF Alike
  <2>10. QED
    BY <2>3, <2>5, <2>7, <2>9
<1> HIDE DEF L, Good
<1>7. Nat \subseteq L
  BY <1>5, <1>6, Induction
<1>8. Good(g[a], a)
  BY <1>7 DEF L
<1>9. end = g[a]
  BY <1>3
<1> HIDE DEF end
<1>10. Good(end, a)
  BY <1>8, <1>9
<1>11. QED
  BY <1>1, <1>10 DEF Good

(* What is saved between calls. *)
LEMMA LadderIs ==
  ASSUME NEW s, IsCurve(s), POINT_ITERATIONS \in Nat \ {0},
         NEW x, NEW k, NEW f, NEW B, Laddered(x, k, f, B, s),
         NEW u, u = Ladder(x, s)
  PROVE  /\ Laddered(u, k, f, B, s) /\ Alike(u, x)
         /\ \/ u.state.stage = INV_Z /\ u.state.i = 0
            \/ u.state.stage = x.state.stage /\ u.state.i # 0
<1>1. PICK v : /\ Laddered(v, k, f, B, s) /\ Alike(v, x) /\ v.state.stage = x.state.stage
               /\ u = Saved(v, IF v.state.i = 0 THEN [v.state EXCEPT !.stage = INV_Z] ELSE v.state)
  BY LadderTurns
<1>2. PICK st : st = IF v.state.i = 0 THEN [v.state EXCEPT !.stage = INV_Z] ELSE v.state
  OBVIOUS
<1>3. v \in Context /\ v.state \in States
  BY <1>1 DEF Laddered, Context
<1>4. /\ st \in States /\ st.i = v.state.i /\ st.swap = v.state.swap
      /\ st.operation = v.state.operation /\ st.inv_k = v.state.inv_k /\ st.k_one = v.state.k_one
      /\ (v.state.i = 0 => st.stage = INV_Z) /\ (v.state.i # 0 => st.stage = v.state.stage)
  BY <1>2, <1>3 DEF States, INV_Z
<1>5. u = [v EXCEPT !.state = st, !.t5 = 0, !.t6 = 0]
  BY <1>1, <1>2 DEF Saved, Lost
<1>6. /\ u \in Context /\ u.state = st /\ u.k = v.k /\ u.z = v.z /\ u.px = v.px /\ u.py = v.py
      /\ u.u1 = v.u1 /\ u.u2 = v.u2 /\ u.u3 = v.u3 /\ u.u4 = v.u4
      /\ u.x1 = v.x1 /\ u.y1 = v.y1 /\ u.x2 = v.x2 /\ u.y2 = v.y2
  <2>1. st \in States
    BY <1>4
  <2>2. u \in Context
    <3>1. PICK o \in Int : o = 0
      OBVIOUS
    <3>2. v \in Context /\ u = [v EXCEPT !.state = st, !.t5 = o, !.t6 = o]
      BY <1>3, <1>5, <3>1
    <3>3. QED
      BY <2>1, <3>2 DEF Context
  <2>3. /\ u.state = st /\ u.k = v.k /\ u.z = v.z /\ u.px = v.px /\ u.py = v.py
        /\ u.u1 = v.u1 /\ u.u2 = v.u2 /\ u.u3 = v.u3 /\ u.u4 = v.u4
        /\ u.x1 = v.x1 /\ u.y1 = v.y1 /\ u.x2 = v.x2 /\ u.y2 = v.y2
    BY <1>3, <1>5 DEF Context
  <2>4. QED
    BY <2>2, <2>3
<1>7. Alike(u, x)
  BY <1>1, <1>4, <1>6 DEF Alike
<1>8. Factors(u, k, f, B, s)
  BY <1>1, <1>4, <1>6 DEF Laddered, Factors
<1>9. \A m : Held(v, m, B, s) => Held(u, m, B, s)
  <2> SUFFICES ASSUME NEW m, Held(v, m, B, s) PROVE Held(u, m, B, s)
    OBVIOUS
  <2>1. u.state.swap = v.state.swap
    BY <1>4, <1>6
  <2>2. PICK i, j : i = (m + v.state.swap) * B /\ j = (m + 1 - v.state.swap) * B
    OBVIOUS
  <2>3. Both(v, i, j, s)
    BY <2>2 DEF Held, Rungs
  <2>4. Both(u, i, j, s)
    BY <1>6, <2>3 DEF Both, First, Second
  <2>5. QED
    BY <2>1, <2>2, <2>4 DEF Held, Rungs
<1>10. Collapsed(v, s.p) => Collapsed(u, s.p)
  BY <1>6 DEF Collapsed, Values
<1>11. Laddered(u, k, f, B, s)
  BY <1>4, <1>6, <1>1, <1>8, <1>9, <1>10 DEF Laddered
<1>12. QED
  BY <1>1, <1>4, <1>6, <1>7, <1>11

--------------------------------------------------------------------------------
(* The start: the point and the scalar that the ladder is given.          *)

(* Twice a point with x = 0, from the curve's constant. *)
LEMMA ConstantDouble ==
  ASSUME NEW s, IsCurve(s), NEW j \in Int, ~Zero(j, s),
         Point(j, s)[1] = 0, Point(j, s)[2] % 2 = 0
  PROVE  s.dz_r[1] = E(Point(2 * j, s)[1], s.p) /\ s.dz_r[2] = E(Point(2 * j, s)[2], s.p)
<1>1. PICK i : i = j % s.n.p /\ i \in 1 .. s.n.p - 1 /\ Congruent(i, j, s.n.p)
               /\ Point(j, s) = s.multiples[i]
  BY PointNumber
<1>2. s.dz_r = Mont(s.multiples[(2 * i) % s.n.p], s.p)
  BY <1>1 DEF IsCurve
<1>3. Point(2 * i, s) = Point(2 * j, s)
  BY <1>1, CurveIs, CongruentScale, PointSame
<1>4. QED
  BY <1>2, <1>3 DEF Point, Mont, E

(* The doubled point does not have x = 0: three times one that has is not zero. *)
LEMMA DoubleNotZeroX ==
  ASSUME NEW s, IsCurve(s), NEW j \in Int, ~Zero(j, s), Point(j, s)[1] = 0
  PROVE  /\ 2 * j \in Int /\ ~Zero(2 * j, s)
         /\ ~Congruent(Point(2 * j, s)[1], 0, s.p.p)
<1>1. ~Zero(2 * j, s) /\ 2 * j \in Int
  BY Tangent
<1>2. PICK n \in Nat \ {0} : n = s.n.p /\ n > 3
  BY CurveIs
<1>3. PICK d \in Int : d = 2 * j
  OBVIOUS
<1>4. ASSUME Congruent(Point(d, s)[1], 0, s.p.p) PROVE FALSE
  <2>1. Congruent(d, j, n) \/ Congruent(d, -j, n)
    BY <1>1, <1>2, <1>3, <1>4, Apart
  <2>2. CASE Congruent(d, j, n)
    <3>1. Congruent(d - j, j - j, n)
      BY <2>2, CongruentSame, CongruentPlus
    <3>2. d - j = j /\ j - j = 0
      BY <1>3
    <3>3. QED
      BY <1>2, <3>1, <3>2 DEF Zero
  <2>3. CASE Congruent(d, -j, n)
    <3>1. PICK w \in Int : w = -j
      OBVIOUS
    <3>2. Congruent(d - w, w - w, n)
      BY <2>3, <3>1, CongruentSame, CongruentPlus
    <3>3. d - w = 3 * j /\ w - w = 0
      BY <1>3, <3>1
    <3>4. Congruent(3 * j, 0, n)
      BY <3>2, <3>3
    <3>5. ~Congruent(3, 0, n)
      <4>1. 3 % n # 0 % n
        BY <1>2
      <4>2. QED
        BY <4>1, CongruentHasRest
    <3>6. PICK t \in Int : t = 3
      OBVIOUS
    <3>7. Congruent(t * j, 0, n) /\ ~Congruent(t, 0, n) /\ ~Congruent(j, 0, n) /\ Montgomery(s.n)
      BY <1>2, <3>4, <3>5, <3>6, CurveIs DEF Zero
    <3>8. ~Congruent(t * j, 0, n)
      BY <1>2, <3>7, NotZero
    <3>9. QED
      BY <3>7, <3>8
  <2>4. QED
    BY <2>1, <2>2, <2>3
<1>5. QED
  BY <1>1, <1>3, <1>4

LEMMA ZeroDoubled ==
  ASSUME NEW s, IsCurve(s), NEW j \in Int, ~Zero(j, s), Point(j, s)[1] = 0,
         NEW y, y = IF Point(j, s)[2] % 2 = 1 THEN mod_negate(s.dz_r[2], s.p) ELSE s.dz_r[2]
  PROVE  s.dz_r[1] = E(Point(2 * j, s)[1], s.p) /\ y = E(Point(2 * j, s)[2], s.p)
<1>1. PICK p \in Nat : p = s.p.p /\ p % 2 = 1 /\ Montgomery(s.p)
  BY CurveIs DEF Montgomery
<1>2. PICK yj \in 1 .. p - 1 : yj = Point(j, s)[2]
  BY <1>1, PointIs, YNotZero
<1>3. CASE yj % 2 = 0
  BY <1>2, <1>3, ConstantDouble
<1>4. CASE yj % 2 # 0
  <2>1. PICK i \in Int : i = -j
    OBVIOUS
  <2>2. ~Zero(i, s) /\ Point(i, s)[1] = 0 /\ Point(i, s)[2] = (-yj) % p
    BY <1>1, <1>2, <2>1, PointOpposite
  <2>3. (-yj) % p = p - yj
    <3>1. PICK w \in Int : w = -yj
      OBVIOUS
    <3>2. w = (-1) * p + (p - yj) /\ p - yj \in Nat /\ p - yj < p /\ p \in Nat \ {0} /\ -1 \in Int
      BY <3>1
    <3>3. ((-1) * p + (p - yj)) % p = p - yj
      BY <3>2, WholeQuotient
    <3>4. QED
      BY <3>1, <3>2, <3>3
  <2>4. (p - yj) % 2 = 0 /\ yj % 2 = 1
    BY <1>1, <1>4, NegateParity
  <2>5. s.dz_r[1] = E(Point(2 * i, s)[1], s.p) /\ s.dz_r[2] = E(Point(2 * i, s)[2], s.p)
    BY <2>2, <2>3, <2>4, ConstantDouble
  <2>6. PICK d \in Int, e \in Int : d = 2 * j /\ e = 2 * i /\ e = -d
    BY <2>1
  <2>7. ~Zero(d, s)
    BY <2>6, DoubleNotZeroX
  <2>8. Point(e, s)[1] = Point(d, s)[1] /\ Congruent(Point(e, s)[2], -Point(d, s)[2], p)
    BY <1>1, <2>6, <2>7, PointOpposite
  <2>9. PICK Y \in Int, Y2 \in Int : Y = Point(d, s)[2] /\ Y2 = Point(e, s)[2]
    BY <2>6, <2>7, PointOpposite, PointIs DEF IsPair
  <2>10. E(-Y2, s.p) = E(Y, s.p)
    <3>1. PICK o \in Int : o = -Y
      OBVIOUS
    <3>2. Congruent(Y2 * (-1), o * (-1), p)
      <4>1. PICK u \in Int : u = -1
        OBVIOUS
      <4>2. Congruent(Y2 * u, o * u, p)
        BY <2>8, <2>9, <3>1, CongruentScale
      <4>3. QED
        BY <4>1, <4>2
    <3>3. Y2 * (-1) = -Y2 /\ o * (-1) = Y /\ -Y2 \in Int
      BY <3>1
    <3>4. QED
      BY <1>1, <3>2, <3>3, ESame
  <2>11. mod_negate(s.dz_r[2], s.p) = E(-Y2, s.p)
    BY <1>1, <2>5, <2>6, <2>9, EDouble
  <2>12. QED
    BY <1>2, <2>4, <2>5, <2>6, <2>8, <2>9, <2>10, <2>11
<1>5. QED
  BY <1>3, <1>4

(* The scalar: below the highest bit, it or its negative. *)
LEMMA ScalarStarts ==
  ASSUME NEW s, IsCurve(s), NEW n, n = s.n.p, NEW h \in 1 .. n - 1,
         NEW inv, inv = (test_bit(h, s.bits - 1) = 1),
         NEW k, k = IF inv THEN mod_negate(h, s.n) ELSE h
  PROVE  /\ k \in 1 .. TwoTo[s.bits - 1] - 1
         /\ inv => k = n - h
         /\ ~inv => k = h
<1>1. PICK H \in Nat : H = TwoTo[s.bits - 1] /\ H > 2 /\ n < 2 * H /\ n \in Nat
  BY CurveSizes
<1>2. h < 2 * H /\ h \in Nat
  BY <1>1
<1>3. CASE h < H
  <2>1. test_bit(h, s.bits - 1) = 0
    <3>1. (0 * H + h) \div H = 0
      BY <1>1, <1>2, <1>3, Quotient
    <3>2. h \div H = 0
      BY <1>1, <1>2, <3>1
    <3>3. QED
      BY <1>1, <3>2 DEF test_bit
  <2>2. ~inv
    <3>1. test_bit(h, s.bits - 1) # 1
      BY <2>1
    <3>2. QED
      BY <3>1, Zenon
  <2>3. k = h
    BY <2>2
  <2>4. QED
    BY <1>1, <1>2, <1>3, <2>2, <2>3
<1>4. CASE h >= H
  <2>1. test_bit(h, s.bits - 1) = 1
    <3>1. PICK r \in Nat : r = h - H /\ r < H
      BY <1>1, <1>2, <1>4
    <3>2. (1 * H + r) \div H = 1
      BY <1>1, <3>1, Quotient
    <3>3. h \div H = 1
      BY <1>1, <1>2, <3>1, <3>2
    <3>4. QED
      BY <1>1, <3>3 DEF test_bit
  <2>2. k = n - h
    BY <2>1, CurveIs, NegateIs
  <2>3. QED
    BY <1>1, <1>2, <1>4, <2>1, <2>2
<1>5. QED
  BY <1>1, <1>2, <1>3, <1>4

(* Another point, and the scalar that makes the same multiple of it. *)
Exchanged(B, h, J, K, s) ==
  /\ B \in Int /\ ~Zero(B, s) /\ ~Congruent(Point(B, s)[1], 0, s.p.p)
  /\ h \in 1 .. s.n.p - 1 /\ Congruent(h * B, K * J, s.n.p)
  /\ Point(J, s)[1] # 0 => h = K

LEMMA PointStarts ==
  ASSUME NEW s, IsCurve(s), NEW J \in Int, ~Zero(J, s), NEW K \in 1 .. s.n.p - 1,
         NEW x0, x0 = E(Point(J, s)[1], s.p), NEW y0, y0 = E(Point(J, s)[2], s.p),
         NEW zero, zero = (x0 = s.p.p),
         NEW px, px = IF zero THEN s.dz_r[1] ELSE x0,
         NEW py, py = IF ~zero THEN y0
                      ELSE IF test_bit(mont_reduce(y0, s.p), 0) = 1
                           THEN mod_negate(s.dz_r[2], s.p) ELSE s.dz_r[2],
         NEW h, h = IF zero THEN mod_halve(K, s.n) ELSE K
  PROVE  \E B : /\ Exchanged(B, h, J, K, s)
                /\ px = E(Point(B, s)[1], s.p) /\ py = E(Point(B, s)[2], s.p)
<1>1. PICK p \in Nat \ {0} : p = s.p.p /\ Montgomery(s.p) /\ Montgomery(s.n) /\ s.n.p \in Nat
  BY CurveIs
<1>2. PICK X \in 0 .. p - 1, Y \in 1 .. p - 1 : X = Point(J, s)[1] /\ Y = Point(J, s)[2]
  BY <1>1, PointIs, YNotZero
<1>3. zero <=> X = 0
  <2>1. E(0, s.p) = p /\ (E(X, s.p) = p => Congruent(X, 0, p))
    BY <1>1, EZero
  <2>2. Congruent(X, 0, p) => X = 0
    BY <1>1, Reduced
  <2>3. QED
    BY <1>1, <1>2, <2>1, <2>2
<1>4. CASE X # 0
  BY <1>3, <1>4, <1>1, <1>2, Reduced, CongruentSame DEF Exchanged
<1>5. CASE X = 0
  <2>1. zero /\ px = s.dz_r[1] /\ h = mod_halve(K, s.n)
    BY <1>3, <1>5
  <2>2. test_bit(mont_reduce(y0, s.p), 0) = Y % 2
    BY <1>1, <1>2, EReduce, QOf, LowestBit
  <2>3. py = IF Point(J, s)[2] % 2 = 1 THEN mod_negate(s.dz_r[2], s.p) ELSE s.dz_r[2]
    BY <1>2, <2>1, <2>2
  <2>4. px = E(Point(2 * J, s)[1], s.p) /\ py = E(Point(2 * J, s)[2], s.p)
    BY <1>2, <1>5, <2>1, <2>3, ZeroDoubled
  <2>5. /\ 2 * J \in Int /\ ~Zero(2 * J, s)
        /\ ~Congruent(Point(2 * J, s)[1], 0, s.p.p)
    BY <1>2, <1>5, DoubleNotZeroX
  <2>6. PICK n \in Nat \ {0} : n = s.n.p
    BY CurveIs
  <2>7. h \in 1 .. n /\ Congruent(2 * h, K, n)
    BY <1>1, <2>1, <2>6, HalveIs
  <2>8. h # n
    <3> SUFFICES ASSUME h = n PROVE FALSE
      OBVIOUS
    <3>0. PICK t \in Int, o \in Int : t = 2 /\ o = 0
      OBVIOUS
    <3>1. Congruent(o + t * n, o, n)
      BY CongruentShift
    <3>2. o + t * n = 2 * h
      BY <3>0
    <3>3. Congruent(K, 0, n)
      <4>1. PICK w \in Int : w = 2 * h
        OBVIOUS
      <4>2. Congruent(w, 0, n) /\ Congruent(K, w, n) /\ K \in Int
        BY <2>6, <2>7, <3>0, <3>1, <3>2, <4>1, CongruentBack
      <4>3. QED
        BY <4>2, CongruentThrough
    <3>4. QED
      BY <2>6, <3>3, Reduced
  <2>9. Congruent(h * (2 * J), K * J, n)
    <3>1. PICK w \in Int : w = 2 * h
      BY <2>7
    <3>2. Congruent(w * J, K * J, n)
      <4>1. K \in Int /\ Congruent(w, K, n)
        BY <2>6, <2>7, <3>1
      <4>2. QED
        BY <4>1, CongruentScale
    <3>3. w * J = h * (2 * J)
      BY <2>7, <3>1
    <3>4. QED
      BY <3>2, <3>3
  <2>10. Exchanged(2 * J, h, J, K, s)
    BY <1>2, <1>5, <2>5, <2>6, <2>7, <2>8, <2>9 DEF Exchanged
  <2>11. QED
    BY <2>4, <2>10
<1>6. QED
  BY <1>4, <1>5

(* The registers at the start, with the z that is given as a further factor. *)
Scaled(x1, y1, x2, y2, B, s) ==
  \E V : /\ Unit(V, s)
         /\ x1 = E(Point(B, s)[1] * (V * V), s.p) /\ y1 = E(Point(B, s)[2] * (V * V * V), s.p)
         /\ x2 = E(Point(2 * B, s)[1] * (V * V), s.p) /\ y2 = E(Point(2 * B, s)[2] * (V * V * V), s.p)

IsScaled(P, Z, f, V, m) ==
  /\ mont_mult(E(P[1] * (Z * Z), m), E(f * f, m), m) = E(P[1] * (V * V), m)
  /\ mont_mult(E(P[2] * (Z * Z * Z), m), E(f * f * f, m), m) = E(P[2] * (V * V * V), m)
LEMMA ScaleIs ==
  ASSUME NEW m, Montgomery(m), NEW P, IsPair(P), NEW Z \in Int, NEW f \in Int, NEW V \in Int, V = f * Z
  PROVE  IsScaled(P, Z, f, V, m)
<1>1. PICK X \in Int, Y \in Int : X = P[1] /\ Y = P[2]
  BY DEF IsPair
<1>2. PICK ff \in Int, fff \in Int, a \in Int, b \in Int :
        ff = f * f /\ fff = f * f * f /\ a = X * (Z * Z) /\ b = Y * (Z * Z * Z)
  OBVIOUS
<1>3. mont_mult(E(a, m), E(ff, m), m) = E(a * ff, m) /\ mont_mult(E(b, m), E(fff, m), m) = E(b * fff, m)
  BY EMult
<1>4. (X * (Z * Z)) * (f * f) = X * (V * V) /\ (Y * (Z * Z * Z)) * (f * f * f) = Y * (V * V * V)
  BY ScaleRing
<1>5. a * ff = X * (V * V) /\ b * fff = Y * (V * V * V)
  BY <1>2, <1>4
<1>6. QED
  BY <1>1, <1>2, <1>3, <1>5 DEF IsScaled

ScaledBy(d, zz, zzz, B, s) ==
  Scaled(mont_mult(d.x1, zz, s.p), mont_mult(d.y1, zzz, s.p),
         mont_mult(d.x2, zz, s.p), mont_mult(d.y2, zzz, s.p), B, s)

LEMMA TwoUnit ==
  ASSUME NEW s, IsCurve(s), NEW t, t = 2
  PROVE  Unit(t, s)
<1>1. PICK p \in Nat \ {0} : p = s.p.p /\ p > 3
  BY CurveIs
<1>2. ASSUME Congruent(t, 0, p) PROVE FALSE
  <2>1. t % p = 0 % p
    BY <1>2, CongruentHasRest
  <2>2. QED
    BY <1>1, <2>1
<1>3. QED
  BY <1>1, <1>2 DEF Unit

LEMMA RegistersStart ==
  ASSUME NEW s, IsCurve(s), NEW m, m = s.p, NEW B \in Int, ~Zero(B, s), NEW x \in Context,
         NEW px, px = E(Point(B, s)[1], m), NEW py, py = E(Point(B, s)[2], m),
         NEW z, z = x.z, z \in 1 .. m.p - 1,
         NEW d, d = sb_sw_point_initial_double([x EXCEPT !.x2 = px, !.y2 = py], s),
         NEW zz, zz = mont_square(z, m), NEW zzz, zzz = mont_mult(z, zz, m)
  PROVE  d \in Context /\ KeepsAll(d, x) /\ ScaledBy(d, zz, zzz, B, s)
<1>1. PICK p \in Nat : p = m.p /\ Montgomery(m)
  BY CurveIs
<1>2. /\ IsPair(Point(B, s)) /\ 2 * B \in Int /\ ~Zero(2 * B, s) /\ IsPair(Point(2 * B, s))
      /\ Doubles(Point(2 * B, s), Point(B, s), s.minus_a, m.p)
  BY PointIs, Tangent
<1>3. PICK Y \in Int : Y = Point(B, s)[2] /\ ~Congruent(Y, 0, p)
  BY <1>1, <1>2, YNotZero DEF IsPair
<1>4. PICK Z \in Int : Z = 2 * Y
  OBVIOUS
<1>5. PICK y : y = [x EXCEPT !.x2 = px, !.y2 = py]
  OBVIOUS
<1>6. y \in Context /\ KeepsAll(y, x) /\ y.x2 = px /\ y.y2 = py
  BY <1>1, <1>2, <1>5, EIs DEF IsPair, Context, Keeps, KeepsAll
<1>7. /\ d \in Context /\ Keeps(d, y) /\ d.z = y.z /\ d.t5 = E(Z, m)
      /\ First(d, Point(B, s), Z, m) /\ Second(d, Point(2 * B, s), Z, m)
  <2>1. Z = 2 * Point(B, s)[2] /\ d = sb_sw_point_initial_double(y, s)
    BY <1>3, <1>4, <1>5
  <2>2. y.x2 = E(Point(B, s)[1], m) /\ y.y2 = E(Point(B, s)[2], m)
    BY <1>6
  <2>3. Slope(s)
    BY SlopeIs
  <2>4. QED
    BY <1>1, <1>2, <1>6, <2>1, <2>2, <2>3, InitialDoubleIs
<1>8. KeepsAll(d, x)
  BY <1>6, <1>7 DEF KeepsAll, Keeps
<1>9. PICK f \in Int : z = E(f, m) /\ ~Congruent(f, 0, p)
  <2>1. z * m.rinv \in Int /\ E(z * m.rinv, m) = z
    BY <1>1, EOf
  <2>2. PICK f \in Int : f = z * m.rinv
    BY <2>1
  <2>3. ASSUME Congruent(f, 0, p) PROVE FALSE
    BY <1>1, <2>3, <2>1, <2>2, ESame, EZero
  <2>4. QED
    BY <2>1, <2>2, <2>3
<1>10. zz = E(f * f, m) /\ zzz = E(f * f * f, m)
  <2>1. PICK ff \in Int : ff = f * f
    OBVIOUS
  <2>2. zz = E(ff, m)
    BY <1>1, <1>9, <2>1, ESquare
  <2>3. zzz = E(f * ff, m)
    BY <1>1, <1>9, <2>2, EMult
  <2>4. f * ff = f * f * f
    BY <2>1
  <2>5. QED
    BY <2>1, <2>2, <2>3, <2>4
<1>11. PICK V \in Int : V = f * Z
  OBVIOUS
<1>12. Unit(V, s)
  <2>1. Unit(f, s) /\ Unit(Y, s)
    BY <1>1, <1>3, <1>9 DEF Unit
  <2>2. PICK t \in Int : t = 2
    OBVIOUS
  <2>3. Unit(t, s)
    BY <2>2, TwoUnit
  <2>4. Unit(t * Y, s)
    BY <2>1, <2>3, UnitTimes
  <2>5. Z = t * Y
    BY <1>4, <2>2
  <2>6. Unit(Z, s)
    BY <2>4, <2>5
  <2>7. QED
    BY <1>11, <2>1, <2>6, UnitTimes
<1>13. IsScaled(Point(B, s), Z, f, V, m) /\ IsScaled(Point(2 * B, s), Z, f, V, m)
  BY <1>1, <1>2, <1>11, ScaleIs
<1>14. Scaled(mont_mult(d.x1, zz, m), mont_mult(d.y1, zzz, m),
              mont_mult(d.x2, zz, m), mont_mult(d.y2, zzz, m), B, s)
  BY <1>7, <1>10, <1>12, <1>13 DEF IsScaled, Scaled, First, Second
<1>15. QED
  BY <1>7, <1>8, <1>14 DEF ScaledBy

--------------------------------------------------------------------------------
(* What the ladder is to find out: K times the point J.                    *)
Promised(inv, k, B, J, K, s) ==
  /\ ~Congruent(Point(B, s)[1], 0, s.p.p)
  /\ Congruent((IF inv THEN -k ELSE k) * B, K * J, s.n.p)
  /\ Point(J, s)[1] # 0 => K = IF inv THEN s.n.p - k ELSE k

LEMMA PromiseIs ==
  ASSUME NEW s, IsCurve(s), NEW B, NEW h, NEW J \in Int, NEW K \in 1 .. s.n.p - 1,
         Exchanged(B, h, J, K, s),
         NEW inv \in BOOLEAN, NEW k \in Int, inv => k = s.n.p - h, ~inv => k = h
  PROVE  Promised(inv, k, B, J, K, s)
<1>1. PICK n \in Nat : n = s.n.p
  BY CurveIs
<1>2. B \in Int /\ h \in Int /\ Congruent(h * B, K * J, n) /\ K \in Int
  BY <1>1 DEF Exchanged
<1>3. CASE ~inv
  BY <1>3, <1>1, <1>2 DEF Promised, Exchanged
<1>4. CASE inv
  <2>1. k = n - h
    BY <1>1, <1>4
  <2>2. PICK w \in Int : w = -k
    OBVIOUS
  <2>3. (IF inv THEN -k ELSE k) = w /\ (IF inv THEN n - k ELSE k) = h
    BY <1>2, <1>4, <2>1, <2>2
  <2>4. Congruent(w * B, h * B, n)
    <3>1. w = h - n
      BY <1>2, <2>1, <2>2
    <3>2. PICK o \in Int, v \in Int : o = 1 /\ v = h - o * n
      BY <1>2
    <3>3. Congruent(h - o * n, h, n)
      BY <1>2, CongruentShift
    <3>4. w = v
      BY <3>1, <3>2
    <3>5. QED
      BY <1>2, <3>2, <3>3, <3>4, CongruentScale
  <2>5. Congruent(w * B, K * J, n)
    <3>1. PICK a \in Int, b \in Int, e \in Int : a = w * B /\ b = h * B /\ e = K * J
      BY <1>2
    <3>2. QED
      BY <1>2, <2>4, <3>1, CongruentThrough
  <2>6. QED
    BY <1>1, <2>3, <2>5 DEF Promised, Exchanged
<1>5. QED
  BY <1>3, <1>4

(* What neither the start nor the ladder touches. *)
Spared(u, x) ==
  /\ u.z = x.z /\ u.u1 = x.u1 /\ u.u2 = x.u2 /\ u.u3 = x.u3 /\ u.u4 = x.u4
  /\ u.state.operation = x.state.operation

(* The context after the start. *)
IsStart(u, d, x, px, py, kk, v1, v2, v3, v4, inv, k, bits) ==
  u = Saved([d EXCEPT !.px = px, !.py = py, !.k = kk,
                      !.x1 = v1, !.y1 = v2, !.x2 = v3, !.y2 = v4],
            [x.state EXCEPT !.inv_k = inv, !.k_one = (k = 1), !.i = bits - 1, !.stage = LADDER])
Entered(u, inv) == u.state.stage = LADDER /\ u.state.i # 0 /\ u.state.inv_k = inv

LEMMA StartIs ==
  ASSUME NEW s, IsCurve(s), NEW B \in Int, ~Zero(B, s), NEW x \in Context, NEW d \in Context,
         KeepsAll(d, x), x.state.swap = 0, NEW inv \in BOOLEAN, NEW k, NEW f, Scalars(k, f, s),
         NEW px, px = E(Point(B, s)[1], s.p), NEW py, py = E(Point(B, s)[2], s.p),
         NEW kk, kk = f - TwoTo[s.bits],
         NEW v1, NEW v2, NEW v3, NEW v4, Scaled(v1, v2, v3, v4, B, s),
         NEW u, IsStart(u, d, x, px, py, kk, v1, v2, v3, v4, inv, k, s.bits)
  PROVE  Laddered(u, k, f, B, s) /\ Spared(u, x) /\ Entered(u, inv)
<1>1. s.bits \in Nat /\ s.bits >= 3 /\ Montgomery(s.p)
  BY CurveSizes, CurveIs
<1>2. PICK st : st = [x.state EXCEPT !.inv_k = inv, !.k_one = (k = 1),
                                     !.i = s.bits - 1, !.stage = LADDER]
  OBVIOUS
<1>3. PICK one \in BOOLEAN, i \in Int, stage \in Int :
        one = (k = 1) /\ i = s.bits - 1 /\ stage = LADDER /\ i \in 0 .. s.bits - 1 /\ i # 0
  <2>1. s.bits - 1 \in Int /\ s.bits - 1 \in 0 .. s.bits - 1 /\ s.bits - 1 # 0
    BY <1>1
  <2>2. LADDER \in Int
    BY DEF LADDER
  <2>3. QED
    BY <2>1, <2>2
<1>4. x.state \in States
  BY DEF Context
<1>5. /\ st \in States /\ st.inv_k = inv /\ st.k_one = one /\ st.i = i /\ st.stage = stage
      /\ st.operation = x.state.operation /\ st.swap = x.state.swap
  BY <1>2, <1>3, <1>4 DEF States
<1>6. PICK V : /\ Unit(V, s)
               /\ v1 = E(Point(B, s)[1] * (V * V), s.p) /\ v2 = E(Point(B, s)[2] * (V * V * V), s.p)
               /\ v3 = E(Point(2 * B, s)[1] * (V * V), s.p) /\ v4 = E(Point(2 * B, s)[2] * (V * V * V), s.p)
  BY DEF Scaled
<1>7. v1 \in Int /\ v2 \in Int /\ v3 \in Int /\ v4 \in Int /\ px \in Int /\ py \in Int
  <2>1. IsPair(Point(B, s)) /\ IsPair(Point(2 * B, s))
    BY PointIs, Tangent
  <2>2. PICK a \in Int, b \in Int, e \in Int, g \in Int, VV \in Int, VVV \in Int :
          /\ a = Point(B, s)[1] /\ b = Point(B, s)[2] /\ e = Point(2 * B, s)[1] /\ g = Point(2 * B, s)[2]
          /\ VV = V * V /\ VVV = V * V * V
    BY <1>6, <2>1 DEF Unit, IsPair
  <2>3. a * VV \in Int /\ b * VVV \in Int /\ e * VV \in Int /\ g * VVV \in Int
    OBVIOUS
  <2>4. QED
    BY <1>1, <1>6, <2>2, <2>3, EIs
<1>8. kk \in Int
  BY <1>1, TwoToIs DEF Scalars
<1>9. PICK o \in Int : o = 0
  OBVIOUS
<1>10. PICK w : w = [d EXCEPT !.px = px, !.py = py, !.k = kk,
                              !.x1 = v1, !.y1 = v2, !.x2 = v3, !.y2 = v4]
  OBVIOUS
<1>101. d \in Context /\ w \in Context
  <2>1. PICK y : y = [d EXCEPT !.px = px, !.py = py, !.k = kk]
    OBVIOUS
  <2>2. y \in Context
    BY <1>7, <1>8, <2>1 DEF Context
  <2>3. w = [y EXCEPT !.x1 = v1, !.y1 = v2, !.x2 = v3, !.y2 = v4]
    BY <1>10, <2>1
  <2>4. QED
    BY <1>7, <2>2, <2>3 DEF Context
<1>11. /\ w \in Context /\ w.px = px /\ w.py = py /\ w.k = kk
       /\ w.x1 = v1 /\ w.y1 = v2 /\ w.x2 = v3 /\ w.y2 = v4
       /\ w.z = d.z /\ w.u1 = d.u1 /\ w.u2 = d.u2 /\ w.u3 = d.u3 /\ w.u4 = d.u4
  BY <1>10, <1>101 DEF Context
<1>12. u = [w EXCEPT !.state = st, !.t5 = o, !.t6 = o]
  BY <1>2, <1>9, <1>10 DEF IsStart, Saved, Lost
<1>13. /\ u \in Context /\ u.state = st /\ u.px = w.px /\ u.py = w.py /\ u.k = w.k
       /\ u.x1 = w.x1 /\ u.y1 = w.y1 /\ u.x2 = w.x2 /\ u.y2 = w.y2
       /\ u.z = w.z /\ u.u1 = w.u1 /\ u.u2 = w.u2 /\ u.u3 = w.u3 /\ u.u4 = w.u4
  BY <1>5, <1>11, <1>12 DEF Context
<1>14. Spared(u, x)
  BY <1>5, <1>11, <1>13 DEF Spared, KeepsAll, Keeps
<1>15. Factors(u, k, f, B, s)
  BY <1>3, <1>5, <1>11, <1>13 DEF Factors
<1>16. Held(u, 1, B, s)
  <2>1. (1 + 0) * B = B /\ (1 + 1 - 0) * B = 2 * B
    OBVIOUS
  <2>2. /\ u.x1 = E(Point(B, s)[1] * (V * V), s.p) /\ u.y1 = E(Point(B, s)[2] * (V * V * V), s.p)
        /\ u.x2 = E(Point(2 * B, s)[1] * (V * V), s.p) /\ u.y2 = E(Point(2 * B, s)[2] * (V * V * V), s.p)
    BY <1>6, <1>11, <1>13
  <2>3. Both(u, B, 2 * B, s)
    BY <1>6, <2>2 DEF Both, First, Second
  <2>4. u.state.swap = 0
    BY <1>5, <1>13
  <2>5. QED
    BY <2>1, <2>3, <2>4 DEF Held, Rungs
<1>17. Above(f, i + 1) = 1
  BY <1>1, <1>3, SameBits DEF Scalars
<1>18. Laddered(u, k, f, B, s)
  <2>1. u.state.i = i /\ u.state.swap = 0
    BY <1>5, <1>13
  <2>2. Held(u, Above(f, u.state.i + 1), B, s)
    BY <1>16, <1>17, <2>1
  <2>3. u \in Context /\ u.state.i \in 0 .. s.bits - 1 /\ u.state.swap \in 0 .. 1 /\ u.state.i # 0
    BY <1>13, <1>3, <2>1
  <2>4. QED
    BY <1>15, <2>2, <2>3 DEF Laddered
<1>19. Entered(u, inv)
  BY <1>13, <1>3, <1>5 DEF Entered
<1>20. QED
  BY <1>14, <1>18, <1>19

(* From any point and scalar to the ladder. *)
LEMMA StartLadders ==
  ASSUME NEW s, IsCurve(s), NEW J \in Int, ~Zero(J, s), NEW K \in 1 .. s.n.p - 1,
         NEW x \in Context, x.k = K, x.z \in 1 .. s.p.p - 1, x.state.swap = 0,
         x.px = E(Point(J, s)[1], s.p), x.py = E(Point(J, s)[2], s.p),
         NEW u, u = sb_sw_point_mult_start(x, s)
  PROVE  /\ \E k, f, B : Laddered(u, k, f, B, s) /\ Promised(u.state.inv_k, k, B, J, K, s)
         /\ Spared(u, x) /\ u.state.stage = LADDER /\ u.state.i # 0
<1>1. Montgomery(s.p) /\ Montgomery(s.n) /\ s.n.p \in Nat
  BY CurveIs
<1> DEFINE m == s.p
           is_zero == x.px = m.p
           px == IF is_zero THEN s.dz_r[1] ELSE x.px
           py == IF ~is_zero THEN x.py
                 ELSE IF test_bit(mont_reduce(x.py, m), 0) = 1
                      THEN mod_negate(s.dz_r[2], m) ELSE s.dz_r[2]
           half == IF is_zero THEN mod_halve(x.k, s.n) ELSE x.k
           inv == test_bit(half, s.bits - 1) = 1
           k == IF inv THEN mod_negate(half, s.n) ELSE half
           d == sb_sw_point_initial_double([x EXCEPT !.x2 = px, !.y2 = py], s)
           zz == mont_square(x.z, m)
           zzz == mont_mult(x.z, zz, m)
           kk == sb_sw_regularize_scalar(k, s)
           v1 == mont_mult(d.x1, zz, m)
           v2 == mont_mult(d.y1, zzz, m)
           v3 == mont_mult(d.x2, zz, m)
           v4 == mont_mult(d.y2, zzz, m)
<1>2. PICK B : Exchanged(B, half, J, K, s) /\ px = E(Point(B, s)[1], s.p) /\ py = E(Point(B, s)[2], s.p)
  <2>1. PICK x0, y0 : x0 = x.px /\ y0 = x.py
    OBVIOUS
  <2>2. PICK zero : zero = (x0 = s.p.p)
    OBVIOUS
  <2>3. /\ px = IF zero THEN s.dz_r[1] ELSE x0
        /\ py = IF ~zero THEN y0
                ELSE IF test_bit(mont_reduce(y0, s.p), 0) = 1
                     THEN mod_negate(s.dz_r[2], s.p) ELSE s.dz_r[2]
        /\ half = IF zero THEN mod_halve(K, s.n) ELSE K
    BY <2>1, <2>2
  <2> HIDE DEF px, py, half
  <2>4. QED
    BY <2>1, <2>2, <2>3, PointStarts
<1> HIDE DEF px, py, half
<1>3. B \in Int /\ ~Zero(B, s) /\ half \in 1 .. s.n.p - 1
  BY <1>2 DEF Exchanged
<1>4. /\ k \in 1 .. TwoTo[s.bits - 1] - 1
      /\ inv => k = s.n.p - half
      /\ ~inv => k = half
  <2>0. PICK n : n = s.n.p
    OBVIOUS
  <2>1. PICK h, b, l :
          h \in 1 .. n - 1 /\ h = half /\ b = (test_bit(h, s.bits - 1) = 1) /\ l = IF b THEN mod_negate(h, s.n) ELSE h
    BY <1>3, <2>0
  <2>2. /\ l \in 1 .. TwoTo[s.bits - 1] - 1
        /\ b => l = n - h
        /\ ~b => l = h
    BY <2>0, <2>1, ScalarStarts
  <2>3. b = inv /\ l = k
    BY <2>1
  <2> HIDE DEF inv, k
  <2>4. QED
    BY <2>0, <2>1, <2>2, <2>3
<1>5. inv \in BOOLEAN
  OBVIOUS
<1> HIDE DEF inv, k
<1>6. PICK f : Scalars(k, f, s) /\ kk = f - TwoTo[s.bits]
  BY <1>4, RegularizeIs
<1>7. d \in Context /\ KeepsAll(d, x) /\ Scaled(v1, v2, v3, v4, B, s)
  <2>1. PICK e, z, y, yyy : e = d /\ z = x.z /\ y = zz /\ yyy = zzz
    OBVIOUS
  <2>2. e = sb_sw_point_initial_double([x EXCEPT !.x2 = px, !.y2 = py], s)
        /\ y = mont_square(z, m) /\ yyy = mont_mult(z, y, m) /\ z \in 1 .. s.p.p - 1
    BY <2>1
  <2>3. e \in Context /\ KeepsAll(e, x) /\ ScaledBy(e, y, yyy, B, s)
    BY <1>2, <1>3, <2>1, <2>2, RegistersStart
  <2>4. QED
    BY <2>1, <2>3 DEF ScaledBy
<1>8. IsStart(u, d, x, px, py, kk, v1, v2, v3, v4, inv, k, s.bits)
  BY DEF sb_sw_point_mult_start, px, py, half, inv, k, IsStart
<1> HIDE DEF d, kk, v1, v2, v3, v4
<1>9. Laddered(u, k, f, B, s) /\ Spared(u, x) /\ Entered(u, inv)
  BY <1>2, <1>3, <1>5, <1>6, <1>7, <1>8, StartIs
<1>10. Promised(inv, k, B, J, K, s)
  BY <1>6, <1>2, <1>4, <1>5, CurveSizes, PromiseIs DEF Scalars
<1>11. QED
  BY <1>9, <1>10 DEF Entered

--------------------------------------------------------------------------------
(* The end: the inverse of Z, and affine coordinates.                      *)

LEMMA RecoverRing ==
  ASSUME NEW v \in Int, NEW Y \in Int, NEW X \in Int, NEW W \in Int, NEW D \in Int, NEW g \in Int,
         NEW w \in Int, w = W * W
  PROVE  /\ ((v * Y) * (X * w)) * (W * D) = ((D * (Y * (w * W))) * X) * v
         /\ g = 1 \/ g = -1 => (g * D) * (g * (Y * (w * W))) = D * (Y * (w * W))
<1>1. \A a, b, x, y, d, e \in Int : ((a * b) * (x * y)) * (d * e) = ((e * (b * (y * d))) * x) * a
  OBVIOUS
<1>2. ((v * Y) * (X * w)) * (W * D) = ((D * (Y * (w * W))) * X) * v
  BY <1>1
<1>3. PICK l \in Int : l = Y * (w * W)
  OBVIOUS
<1>4. (1 * D) * (1 * l) = D * l /\ (-1 * D) * (-1 * l) = D * l
  OBVIOUS
<1>5. g = 1 \/ g = -1 => (g * D) * (g * l) = D * l
  BY <1>4
<1>6. QED
  BY <1>2, <1>3, <1>5

(* What the difference of the registers and the point are together. *)
LEMMA RecoverIs ==
  ASSUME NEW s, IsCurve(s), NEW m, m = s.p, NEW B \in Int, ~Zero(B, s),
         ~Congruent(Point(B, s)[1], 0, s.p.p), NEW b \in 0 .. 1,
         NEW h \in Int, NEW e \in Int, e = (2 * b - 1) * B, Differ(h, e, s),
         NEW first \in Context, NEW W, Unit(W, s),
         First(first, Point(h, s), W, m), Second(first, Point(e, s), W, m),
         NEW W2, Unit(W2, s), Widened(W2, h, e, W, s),
         NEW x \in Context, x.px = E(Point(B, s)[1], m), x.py = E(Point(B, s)[2], m),
         test_bit(x.k, 0) = b
  PROVE  \E i \in Int : RecoveredInverse(x, first, m) = E(i, m) /\ Congruent(i * W2, 1, s.p.p)
<1>1. PICK p \in Nat \ {0} : p = s.p.p /\ p = m.p /\ Montgomery(m)
  BY CurveIs
<1>2. PICK X \in Int, Y \in Int : X = Point(B, s)[1] /\ Y = Point(B, s)[2]
  BY PointIs DEF IsPair
<1>3. PICK X1 \in Int : X1 = Point(h, s)[1]
  BY PointIs DEF Differ, IsPair
<1>4. PICK g \in Int : g = 2 * b - 1
  OBVIOUS
<1>5. (b = 1 /\ g = 1 /\ e = B) \/ (b = 0 /\ g = -1 /\ e = -B)
  <2>1. b = 0 \/ b = 1
    OBVIOUS
  <2>2. 1 * B = B /\ -1 * B = -B
    OBVIOUS
  <2>3. CASE b = 1
    BY <1>4, <2>2, <2>3
  <2>4. CASE b = 0
    BY <1>4, <2>2, <2>4
  <2>5. QED
    BY <2>1, <2>3, <2>4
<1>6. PICK Ye \in Int : Ye = Point(e, s)[2] /\ Point(e, s)[1] = X /\ Congruent(Ye, g * Y, p)
  <2>1. CASE b = 1
    BY <1>5, <2>1, <1>2, CongruentSame
  <2>2. CASE b = 0
    BY <1>5, <2>2, <1>1, <1>2, PointOpposite, PointIs DEF Differ, IsPair
  <2>3. QED
    BY <2>1, <2>2
<1>7. W \in Int /\ W2 \in Int
  BY DEF Unit
<1>8. PICK ww \in Int, www \in Int : ww = W * W /\ www = W * W * W /\ www = ww * W
  BY <1>7
<1>9. PICK D \in Int : D = (X - X1) * ww /\ W2 = W * D
  BY <1>3, <1>6, <1>8 DEF Widened
<1>10. PICK a1 \in Int, a2 \in Int, l \in Int, l2 \in Int :
         a1 = X1 * ww /\ a2 = X * ww /\ l = Y * www /\ l2 = Ye * www
  OBVIOUS
<1>11. first.x1 = E(a1, m) /\ first.x2 = E(a2, m) /\ first.y2 = E(l2, m)
  BY <1>3, <1>6, <1>8, <1>10 DEF First, Second
<1>12. D = a2 - a1
  BY <1>9, <1>10
<1>13. PICK gl \in Int, gD \in Int : gl = g * l /\ gD = g * D
  OBVIOUS
<1>14. first.y2 = E(gl, m)
  <2>1. PICK gY \in Int : gY = g * Y
    OBVIOUS
  <2>2. Congruent(Ye * www, gY * www, p)
    BY <1>6, <2>1, CongruentScale
  <2>3. gY * www = gl
    BY <1>10, <1>13, <2>1
  <2>4. Congruent(l2, gl, p)
    BY <1>10, <2>2, <2>3
  <2>5. E(l2, m) = E(gl, m)
    BY <1>1, <2>4, ESame
  <2>6. QED
    BY <1>11, <2>5
<1> DEFINE dx == IF test_bit(x.k, 0) = 1
                 THEN mod_sub(first.x2, first.x1, m) ELSE mod_sub(first.x1, first.x2, m)
<1>15. dx = E(gD, m)
  <2>1. /\ mod_sub(first.x2, first.x1, m) = E(a2 - a1, m)
        /\ mod_sub(first.x1, first.x2, m) = E(a1 - a2, m)
    BY <1>1, <1>11, EAdd
  <2>2. CASE b = 1
    BY <1>5, <1>12, <1>13, <2>2, <2>1
  <2>3. CASE b = 0
    BY <1>5, <1>12, <1>13, <2>3, <2>1
  <2>4. QED
    BY <2>2, <2>3
<1> HIDE DEF dx
<1>16. PICK Dl \in Int, T \in Int : Dl = D * l /\ T = Dl * X /\ gD * gl = Dl
  BY <1>5, <1>7, <1>8, <1>10, <1>13, RecoverRing
<1> DEFINE t == mont_mult(mont_mult(dx, first.y2, m), x.px, m)
<1>17. t = E(T, m)
  BY <1>1, <1>14, <1>15, <1>16, <1>2, EMult
<1> HIDE DEF t
<1>18. ~Congruent(T, 0, p)
  <2>1. ~Congruent(D, 0, p)
    <3>1. ASSUME Congruent(D, 0, p) PROVE FALSE
      <4>1. PICK o \in Int : o = 0 /\ W * o = o
        BY <1>7
      <4>2. Congruent(W * D, W * o, p)
        BY <1>7, <3>1, <4>1, CongruentScale
      <4>3. Congruent(W2, 0, p)
        BY <1>9, <4>1, <4>2
      <4>4. QED
        BY <1>1, <4>3 DEF Unit
    <3>2. QED
      BY <3>1
  <2>2. Unit(D, s) /\ Unit(Y, s) /\ Unit(X, s)
    BY <1>1, <1>2, <2>1, YNotZero DEF Unit
  <2>3. Unit(ww, s)
    BY <1>8, UnitTimes
  <2>4. Unit(www, s)
    BY <1>8, <2>3, UnitTimes
  <2>5. Unit(l, s)
    BY <1>10, <2>2, <2>4, UnitTimes
  <2>6. Unit(Dl, s)
    BY <1>16, <2>2, <2>5, UnitTimes
  <2>7. Unit(T, s)
    BY <1>16, <2>2, <2>6, UnitTimes
  <2>8. QED
    BY <1>1, <2>7 DEF Unit
<1>19. PICK v \in Int : Congruent(T * v, 1, p)
  BY <1>1, <1>18, Invertible
<1>20. mod_inv_r(t, m) = E(v, m)
  BY <1>1, <1>19, <1>17, EInverse
<1>21. PICK vY \in Int, i \in Int : vY = v * Y /\ i = vY * a2
  OBVIOUS
<1>22. RecoveredInverse(x, first, m) = E(i, m)
  BY <1>1, <1>2, <1>20, <1>21, <1>11, EMult DEF RecoveredInverse, t, dx
<1>23. i * W2 = T * v
  BY <1>7, <1>8, <1>9, <1>10, <1>16, <1>21, RecoverRing
<1>24. QED
  BY <1>1, <1>19, <1>22, <1>23

(* Without Z, and with the point added for 1, it is R. *)
Lands(x, last, zinv, R, s) ==
  LET m == s.p
      zz == mont_square(zinv, m)
      X == mont_mult(zz, last.x2, m)
      Y == mont_mult(mont_mult(zz, zinv, m), last.y2, m)
  IN  /\ (IF x.state.k_one THEN mod_add(X, x.px, m) ELSE X) = E(R[1], m)
      /\ (IF x.state.k_one THEN mod_add(Y, x.py, m) ELSE Y) = E(R[2], m)

LEMMA LandsMany ==
  ASSUME NEW s, IsCurve(s), NEW x, x.state.k_one = FALSE, NEW last, NEW R, IsPair(R),
         NEW Z \in Int, Second(last, R, Z, s.p), NEW i \in Int, Congruent(i * Z, 1, s.p.p),
         NEW zinv, zinv = E(i, s.p)
  PROVE  Lands(x, last, zinv, R, s)
<1>1. PICK m, p : m = s.p /\ p = s.p.p /\ p \in Nat \ {0} /\ p = m.p /\ Montgomery(m)
  BY CurveIs
<1>2. PICK X \in Int, Y \in Int : X = R[1] /\ Y = R[2]
  BY DEF IsPair
<1>3. PICK q \in Int : q = i * Z
  OBVIOUS
<1>4. Congruent(q * q, 1, p) /\ Congruent(q * q * q, 1, p)
  <2>1. PICK o \in Int : o = 1 /\ o * o = o
    OBVIOUS
  <2>2. PICK qq \in Int : qq = q * q
    OBVIOUS
  <2>3. Congruent(q, o, p)
    BY <1>1, <1>3, <2>1
  <2>4. Congruent(qq, o, p)
    BY <1>1, <2>3, <2>1, <2>2, CongruentTimes
  <2>5. Congruent(qq * q, o * o, p)
    BY <1>1, <2>3, <2>4, CongruentTimes
  <2>6. qq * q = q * q * q
    BY <2>2
  <2>7. QED
    BY <2>1, <2>2, <2>4, <2>5, <2>6
<1>5. PICK ii \in Int, iii \in Int, a \in Int, b \in Int :
        ii = i * i /\ iii = ii * i /\ a = X * (Z * Z) /\ b = Y * (Z * Z * Z)
  OBVIOUS
<1>6. PICK qq \in Int, qqq \in Int : qq = q * q /\ qqq = q * q * q
  OBVIOUS
<1>7. ii * a = X * qq /\ iii * b = Y * qqq
  BY <1>3, <1>5, <1>6
<1>8. E(ii * a, m) = E(X, m) /\ E(iii * b, m) = E(Y, m)
  <2>1. PICK o \in Int : o = 1 /\ X * o = X /\ Y * o = Y
    OBVIOUS
  <2>2. Congruent(X * qq, X * o, p) /\ Congruent(Y * qqq, Y * o, p)
    BY <1>4, <1>6, <2>1, <1>1, CongruentScale
  <2>3. Congruent(X * qq, X, m.p) /\ Congruent(Y * qqq, Y, m.p) /\ X * qq \in Int /\ Y * qqq \in Int
    BY <1>1, <2>1, <2>2
  <2>4. E(X * qq, m) = E(X, m) /\ E(Y * qqq, m) = E(Y, m)
    BY <1>1, <2>3, ESame
  <2>5. QED
    BY <1>7, <2>4
<1>9. last.x2 = E(a, m) /\ last.y2 = E(b, m)
  BY <1>1, <1>2, <1>5 DEF Second
<1>10. mont_square(zinv, m) = E(ii, m)
  BY <1>1, <1>5, ESquare
<1>11. mont_mult(E(ii, m), zinv, m) = E(iii, m)
  BY <1>1, <1>5, EMult
<1>12. mont_mult(E(ii, m), last.x2, m) = E(X, m) /\ mont_mult(E(iii, m), last.y2, m) = E(Y, m)
  BY <1>1, <1>8, <1>9, EMult
<1>13. QED
  BY <1>1, <1>2, <1>10, <1>11, <1>12 DEF Lands

LEMMA LandsOne ==
  ASSUME NEW s, IsCurve(s), NEW x, x.state.k_one = TRUE, NEW last, NEW R, IsPair(R),
         last.x2 = E(0, s.p), last.y2 = E(0, s.p), x.px = E(R[1], s.p), x.py = E(R[2], s.p),
         NEW zinv, zinv = E(0, s.p)
  PROVE  Lands(x, last, zinv, R, s)
<1>1. PICK m : m = s.p /\ Montgomery(m)
  BY CurveIs
<1>2. PICK X \in Int, Y \in Int, o \in Int : X = R[1] /\ Y = R[2] /\ o = 0 /\ o * o = o
  BY DEF IsPair
<1>3. mont_square(zinv, m) = E(o, m)
  BY <1>1, <1>2, ESquare
<1>4. mont_mult(E(o, m), E(o, m), m) = E(o, m)
  BY <1>1, <1>2, EMult
<1>5. mod_add(E(o, m), E(X, m), m) = E(X, m) /\ mod_add(E(o, m), E(Y, m), m) = E(Y, m)
  BY <1>1, <1>2, EAdd
<1>6. last.x2 = E(o, m) /\ last.y2 = E(o, m) /\ zinv = E(o, m) /\ x.px = E(X, m) /\ x.py = E(Y, m)
  BY <1>1, <1>2
<1>7. QED
  BY <1>1, <1>2, <1>3, <1>4, <1>5, <1>6 DEF Lands

(* The scalar as it was. *)
LEMMA ScalarBack ==
  ASSUME NEW s, IsCurve(s), NEW k, NEW f, Scalars(k, f, s), NEW inv \in BOOLEAN,
         NEW w, w = mod_reduce((f - TwoTo[s.bits] - s.n.p) % TwoTo[s.bits], s.n)
  PROVE  (IF inv THEN mod_negate(w, s.n) ELSE w) = IF inv THEN s.n.p - k ELSE k
<1>1. PICK n, R : n = s.n.p /\ R = TwoTo[s.bits] /\ n \in Nat \ {0} /\ R \in Nat \ {0} /\ n < R
                  /\ Montgomery(s.n)
  BY CurveSizes, CurveIs
<1>2. k \in 1 .. n - 1 /\ k < R /\ k \in Nat
  <2>1. PICK H \in Nat : H = TwoTo[s.bits - 1] /\ H + 1 < s.n.p
    BY CurveSizes
  <2>2. k \in 1 .. H - 1
    BY <2>1 DEF Scalars
  <2>3. QED
    BY <1>1, <2>1, <2>2
<1>3. (f = k + n \/ (f = k + 2 * n /\ k + n < R)) /\ f \in Nat
  BY <1>1 DEF Scalars
<1>4. w = k
  <2>1. CASE f = k + n
    <3>1. f - R - n = (-1) * R + k
      BY <1>1, <1>2, <2>1
    <3>2. ((-1) * R + k) % R = k
      BY <1>1, <1>2, WholeQuotient
    <3>3. Q(k, s.n) = k
      BY <1>1, <1>2, QOf
    <3>4. QED
      BY <1>1, <3>1, <3>2, <3>3 DEF mod_reduce
  <2>2. CASE f = k + 2 * n /\ k + n < R
    <3>1. PICK l \in Nat : l = k + n /\ l < R
      BY <1>1, <1>2, <2>2
    <3>2. f - R - n = (-1) * R + l
      BY <1>1, <1>2, <2>2, <3>1
    <3>3. ((-1) * R + l) % R = l
      <4>1. -1 \in Int
        OBVIOUS
      <4>2. QED
        BY <1>1, <3>1, <4>1, WholeQuotient
    <3>4. Q(l, s.n) = Q(k, s.n)
      <4>1. PICK o \in Int : o = 1 /\ l = k + o * n
        BY <1>1, <1>2, <3>1
      <4>2. Congruent(k + o * n, k, n)
        <5>1. k \in Int /\ o \in Int /\ n \in Nat
          BY <1>1, <1>2, <4>1
        <5>2. QED
          BY <5>1, CongruentShift
      <4>3. Congruent(l, k, s.n.p)
        BY <1>1, <4>1, <4>2
      <4>4. QED
        BY <1>1, <1>2, <3>1, <4>3, QSame
    <3>5. Q(k, s.n) = k
      BY <1>1, <1>2, QOf
    <3>6. QED
      BY <1>1, <3>2, <3>3, <3>4, <3>5 DEF mod_reduce
  <2>3. QED
    BY <1>3, <2>1, <2>2
<1>5. mod_negate(k, s.n) = n - k
  BY <1>1, <1>2, NegateIs
<1>6. QED
  BY <1>1, <1>4, <1>5

(* What is said of the context at the end: the point R or its opposite, and *)
(* the scalar.                                                             *)
Answered(u, inv, R, k, s) ==
  /\ u.x1 = Q(R[1], s.p)
  /\ u.y1 = (IF inv THEN Q(-R[2], s.p) ELSE Q(R[2], s.p))
  /\ u.k = (IF inv THEN s.n.p - k ELSE k)
Ended(u, x) == u \in Context /\ Spared(u, x) /\ u.state.stage = MULT_DONE

IsEnd(u, last, x, x1, y1, kk) ==
  u = Saved([last EXCEPT !.x1 = x1, !.y1 = y1, !.k = kk], [x.state EXCEPT !.stage = MULT_DONE])
EndHas(u, x1, y1, kk) == u.x1 = x1 /\ u.y1 = y1 /\ u.k = kk

LEMMA EndIs ==
  ASSUME NEW x \in Context, NEW last \in Context, KeepsAll(last, x),
         NEW x1 \in Int, NEW y1 \in Int, NEW kk \in Int,
         NEW u, IsEnd(u, last, x, x1, y1, kk)
  PROVE  Ended(u, x) /\ EndHas(u, x1, y1, kk)
<1>1. PICK done \in Int, o \in Int : done = MULT_DONE /\ o = Lost
  BY DEF MULT_DONE, Lost
<1>2. PICK st : st = [x.state EXCEPT !.stage = done]
  OBVIOUS
<1>3. x.state \in States
  BY DEF Context
<1>4. st \in States /\ st.stage = done /\ st.operation = x.state.operation
  BY <1>1, <1>2, <1>3 DEF States
<1>5. PICK w : w = [last EXCEPT !.x1 = x1, !.y1 = y1, !.k = kk]
  OBVIOUS
<1>6. w \in Context
  BY <1>5 DEF Context
<1>7. /\ w.x1 = x1 /\ w.y1 = y1 /\ w.k = kk
      /\ w.z = last.z /\ w.u1 = last.u1 /\ w.u2 = last.u2 /\ w.u3 = last.u3 /\ w.u4 = last.u4
  BY <1>5 DEF Context
<1>8. u = [w EXCEPT !.state = st, !.t5 = o, !.t6 = o]
  BY <1>1, <1>2, <1>5 DEF IsEnd, Saved
<1>9. u \in Context
  BY <1>1, <1>4, <1>6, <1>8 DEF Context
<1>10. /\ u.state = st /\ u.x1 = w.x1 /\ u.y1 = w.y1 /\ u.k = w.k
       /\ u.z = w.z /\ u.u1 = w.u1 /\ u.u2 = w.u2 /\ u.u3 = w.u3 /\ u.u4 = w.u4
  BY <1>6, <1>8 DEF Context
<1>11. Spared(u, x)
  BY <1>4, <1>7, <1>10 DEF Spared, KeepsAll, Keeps
<1>12. u.state.stage = MULT_DONE
  BY <1>1, <1>4, <1>10
<1>13. EndHas(u, x1, y1, kk)
  BY <1>7, <1>10 DEF EndHas
<1>14. QED
  BY <1>9, <1>11, <1>12, <1>13 DEF Ended

LEMMA AffineIs ==
  ASSUME NEW s, IsCurve(s), NEW x \in Context, NEW last \in Context, KeepsAll(last, x),
         NEW k, NEW f, Scalars(k, f, s), x.k = f - TwoTo[s.bits],
         NEW R, IsPair(R), NEW zinv, Lands(x, last, zinv, R, s),
         NEW u, u = Affine(x, last, zinv, s)
  PROVE  Ended(u, x) /\ Answered(u, x.state.inv_k, R, k, s)
<1>1. PICK m, n : m = s.p /\ n = s.n /\ Montgomery(m) /\ Montgomery(n)
  BY CurveIs
<1>2. PICK X \in Int, Y \in Int : X = R[1] /\ Y = R[2]
  BY DEF IsPair
<1>3. PICK inv \in BOOLEAN : inv = x.state.inv_k
  BY DEF Context, States
<1>4. PICK kk : kk = mod_reduce((x.k - s.n.p) % TwoTo[s.bits], s.n)
  OBVIOUS
<1>5. PICK k2 : k2 = IF inv THEN mod_negate(kk, s.n) ELSE kk
  OBVIOUS
<1>6. k2 = (IF inv THEN s.n.p - k ELSE k)
  BY <1>4, <1>5, ScalarBack
<1>7. PICK x1 \in Int : x1 = Q(X, m)
  BY <1>1, QIs
<1>8. PICK y0 \in Int : y0 = Q(Y, m)
  BY <1>1, QIs
<1>9. PICK y1 : y1 = IF inv THEN mod_negate(y0, m) ELSE y0
  OBVIOUS
<1>10. y1 \in Int /\ y1 = (IF inv THEN Q(-Y, m) ELSE Q(Y, m))
  <2>1. mod_negate(y0, m) = Q(-Y, m) /\ Q(-Y, m) \in Int
    <3>1. PICK o \in Int, l \in Int : o = 0 /\ l = -Y /\ l = o - Y /\ -y0 = o - y0
      OBVIOUS
    <3>2. Congruent(y0, Y, m.p) /\ m.p \in Nat
      BY <1>1, <1>8, QIs DEF Montgomery
    <3>3. Congruent(o, o, m.p)
      BY <3>2, CongruentSame
    <3>4. Congruent(o - y0, o - Y, m.p)
      BY <3>2, <3>3, CongruentPlus
    <3>5. o - y0 \in Int /\ o - Y \in Int
      OBVIOUS
    <3>6. Q(o - y0, m) = Q(o - Y, m) /\ Q(o - Y, m) \in Int
      BY <1>1, <3>4, <3>5, QSame, QIs
    <3>7. QED
      BY <3>1, <3>6 DEF mod_negate
  <2>2. QED
    BY <1>8, <1>9, <2>1
<1>11. IsEnd(u, last, x, x1, y1, k2)
  <2>1. PICK zz, XX, YY : /\ zz = mont_square(zinv, m)
                          /\ XX = mont_mult(zz, last.x2, m)
                          /\ YY = mont_mult(mont_mult(zz, zinv, m), last.y2, m)
    OBVIOUS
  <2>2. /\ (IF x.state.k_one THEN mod_add(XX, x.px, m) ELSE XX) = E(X, m)
        /\ (IF x.state.k_one THEN mod_add(YY, x.py, m) ELSE YY) = E(Y, m)
    BY <1>1, <1>2, <2>1 DEF Lands
  <2>3. mont_reduce(E(X, m), m) = x1 /\ mont_reduce(E(Y, m), m) = y0
    BY <1>1, <1>7, <1>8, EReduce
  <2>4. u = Saved([last EXCEPT
                 !.x1 = mont_reduce(IF x.state.k_one THEN mod_add(XX, x.px, m) ELSE XX, m),
                 !.y1 = IF x.state.inv_k
                        THEN mod_negate(mont_reduce(IF x.state.k_one THEN mod_add(YY, x.py, m) ELSE YY, m), m)
                        ELSE mont_reduce(IF x.state.k_one THEN mod_add(YY, x.py, m) ELSE YY, m),
                 !.k = IF x.state.inv_k THEN mod_negate(kk, s.n) ELSE kk],
              [x.state EXCEPT !.stage = MULT_DONE])
    BY <1>1, <1>4, <2>1, Zenon DEF Affine
  <2>5. u = Saved([last EXCEPT !.x1 = x1, !.y1 = IF x.state.inv_k THEN mod_negate(y0, m) ELSE y0,
                               !.k = IF x.state.inv_k THEN mod_negate(kk, s.n) ELSE kk],
              [x.state EXCEPT !.stage = MULT_DONE])
    BY <2>2, <2>3, <2>4
  <2>6. QED
    BY <1>3, <1>5, <1>9, <2>5 DEF IsEnd
<1>12. k2 \in Int
  BY <1>1, <1>6 DEF Scalars, Montgomery
<1>13. Ended(u, x) /\ EndHas(u, x1, y1, k2)
  BY <1>7, <1>10, <1>11, <1>12, EndIs
<1>14. Answered(u, inv, R, k, s)
  BY <1>13, <1>1, <1>2, <1>6, <1>7, <1>10 DEF EndHas, Answered
<1>15. QED
  BY <1>3, <1>13, <1>14

(* The registers after the last bit, and the inverse of their Z. *)
LastRegister(last, f, B, W, s) == Second(last, Point(f * B, s), W, s.p)
InverseOf(zinv, W, s) == \E i \in Int : zinv = E(i, s.p) /\ Congruent(i * W, 1, s.p.p)

LEMMA ChangedIs ==
  ASSUME NEW v \in Context, NEW yes \in BOOLEAN, NEW u, u = Swapped(v, yes)
  PROVE  /\ u \in Context /\ KeepsAll(u, v)
         /\ yes => u.x2 = v.x1 /\ u.y2 = v.y1
         /\ ~yes => u = v
<1>1. CASE yes
  <2>1. PICK a \in Int, b \in Int, a2 \in Int, b2 \in Int : v.x1 = a /\ v.y1 = b /\ v.x2 = a2 /\ v.y2 = b2
    BY DEF Context
  <2>2. u = [v EXCEPT !.x1 = a2, !.y1 = b2, !.x2 = a, !.y2 = b]
    BY <1>1, <2>1 DEF Swapped
  <2>3. u \in Context
    BY <2>2 DEF Context
  <2>4. u.x2 = a /\ u.y2 = b
    BY <2>2 DEF Context
  <2>5. /\ u.k = v.k /\ u.z = v.z /\ u.px = v.px /\ u.py = v.py
        /\ u.u1 = v.u1 /\ u.u2 = v.u2 /\ u.u3 = v.u3 /\ u.u4 = v.u4 /\ u.state = v.state
    BY <2>2 DEF Context
  <2>6. KeepsAll(u, v)
    BY <2>5 DEF KeepsAll, Keeps
  <2>7. QED
    BY <1>1, <2>1, <2>3, <2>4, <2>6
<1>2. CASE ~yes
  BY <1>2 DEF Swapped, KeepsAll, Keeps
<1>3. QED
  BY <1>1, <1>2

LEMMA KeepsThrough ==
  ASSUME NEW u, NEW v, NEW w, KeepsAll(u, v), KeepsAll(v, w)
  PROVE  KeepsAll(u, w)
<1>1. QED
  BY DEF KeepsAll, Keeps

(* The last bit: the first addition, the second, and which register is kept. *)
LEMMA LastBitIs ==
  ASSUME NEW s, IsCurve(s), NEW x \in Context, NEW B \in Int, ~Zero(B, s),
         ~Congruent(Point(B, s)[1], 0, s.p.p),
         x.px = E(Point(B, s)[1], s.p), x.py = E(Point(B, s)[2], s.p),
         NEW m \in Int, Passable(m, s), NEW b \in 0 .. 1, test_bit(x.k, 0) = b,
         NEW f \in Int, f = 2 * m + b,
         NEW r \in Context, KeepsAll(r, x), Rungs(r, b, m, B, s),
         NEW first, first = sb_sw_point_co_z_conj_add(r, s),
         NEW yes \in BOOLEAN, yes => b = 0, ~yes => b = 1,
         NEW last, last = Swapped(sb_sw_point_co_z_add_update(first, s), yes)
  PROVE  /\ last \in Context /\ KeepsAll(last, x) /\ IsPair(Point(f * B, s))
         /\ \E W : /\ Unit(W, s) /\ LastRegister(last, f, B, W, s)
                   /\ InverseOf(RecoveredInverse(x, first, s.p), W, s)
<1>0. PICK i \in Int, j \in Int : Neighbouring(i, j, m, b, B, s)
  BY Neighbours
<1>1. /\ i = (m + b) * B /\ j = (m + 1 - b) * B /\ Differ(i, j, s)
      /\ i + j = (2 * m + 1) * B /\ i - j = (2 * b - 1) * B
      /\ Differ(i + j, i - j, s) /\ 2 * i = (2 * m + 2 * b) * B
      /\ i \in Int /\ j \in Int
  BY <1>0 DEF Neighbouring
<1>2. PICK Z : Unit(Z, s) /\ First(r, Point(i, s), Z, s.p) /\ Second(r, Point(j, s), Z, s.p)
  BY <1>1 DEF Rungs, Both
<1>3. PICK h \in Int, e \in Int : h = i + j /\ e = i - j /\ e = (2 * b - 1) * B /\ Differ(h, e, s)
  BY <1>1
<1>4. first \in Context /\ Keeps(first, r) /\ first.z = r.z
      /\ \E W : Unit(W, s) /\ First(first, Point(i + j, s), W, s.p) /\ Second(first, Point(i - j, s), W, s.p)
  BY <1>1, <1>2, ConjAddStep
<1>5. PICK W : Unit(W, s) /\ First(first, Point(h, s), W, s.p) /\ Second(first, Point(e, s), W, s.p)
  BY <1>3, <1>4
<1>6. PICK v : v = sb_sw_point_co_z_add_update(first, s)
  OBVIOUS
<1>7. /\ v \in Context /\ Keeps(v, first) /\ v.z = first.z
      /\ \E V : /\ Unit(V, s) /\ Widened(V, h, e, W, s)
                /\ First(v, Point(h + e, s), V, s.p) /\ Second(v, Point(h, s), V, s.p)
  BY <1>3, <1>4, <1>5, <1>6, AddUpdateStep
<1>8. PICK V : /\ Unit(V, s) /\ Widened(V, h, e, W, s)
               /\ First(v, Point(h + e, s), V, s.p) /\ Second(v, Point(h, s), V, s.p)
  BY <1>7
<1>9. \E l \in Int : RecoveredInverse(x, first, s.p) = E(l, s.p) /\ Congruent(l * V, 1, s.p.p)
  BY <1>3, <1>4, <1>5, <1>8, RecoverIs
<1>10. InverseOf(RecoveredInverse(x, first, s.p), V, s)
  BY <1>9 DEF InverseOf
<1>11. ~Zero(h, s) /\ ~Zero(h + e, s) /\ h + e \in Int
  BY <1>3, Chord DEF Differ
<1>12. last \in Context /\ KeepsAll(last, x)
  BY <1>6, <1>7, <1>4, ChangedIs, KeepsThrough DEF KeepsAll
<1>13. CASE b = 1
  <2>1. last = v
    <3>1. ~yes
      BY <1>13
    <3>2. last = Swapped(v, yes) /\ v \in Context /\ ~yes
      BY <1>6, <1>7, <3>1
    <3>3. QED
      BY <3>2, ChangedIs
  <2>2. f * B = h
    BY <1>13, <1>1, <1>3
  <2>3. LastRegister(last, f, B, V, s)
    BY <1>8, <2>1, <2>2 DEF LastRegister
  <2>4. IsPair(Point(f * B, s))
    BY <1>3, <1>11, <2>2, PointIs
  <2>5. QED
    BY <1>8, <1>10, <1>12, <2>3, <2>4
<1>14. CASE b = 0
  <2>1. last.x2 = v.x1 /\ last.y2 = v.y1
    BY <1>14, <1>6, <1>7, ChangedIs
  <2>2. f * B = h + e
    BY <1>1, <1>14, <1>3
  <2>3. LastRegister(last, f, B, V, s)
    BY <1>8, <2>1, <2>2 DEF LastRegister, First, Second
  <2>4. IsPair(Point(f * B, s))
    BY <1>11, <2>2, PointIs
  <2>5. QED
    BY <1>8, <1>10, <1>12, <2>3, <2>4
<1>15. QED
  BY <1>13, <1>14

LEMMA InvertMany ==
  ASSUME NEW s, IsCurve(s), NEW x, NEW k, NEW f, NEW B, Laddered(x, k, f, B, s), x.state.i = 0,
         k # 1, ~Congruent(Point(B, s)[1], 0, s.p.p), NEW u, u = InvertZ(x, s)
  PROVE  Ended(u, x) /\ Answered(u, x.state.inv_k, Point(f * B, s), k, s)
<1>1. /\ x \in Context /\ Scalars(k, f, s) /\ x.k = f - TwoTo[s.bits]
      /\ B \in Int /\ ~Zero(B, s)
      /\ x.px = E(Point(B, s)[1], s.p) /\ x.py = E(Point(B, s)[2], s.p)
      /\ x.state.swap \in 0 .. 1 /\ Held(x, Above(f, x.state.i + 1), B, s)
  BY DEF Laddered, Factors
<1>2. x.state.k_one = FALSE
  BY DEF Laddered, Factors
<1>3. PICK b \in 0 .. 1, m \in Nat :
        b = test_bit(f, 0) /\ m = Above(f, 1) /\ f = 2 * m + b /\ f \in Nat
  <2>1. f \in Nat
    BY <1>1 DEF Scalars
  <2>2. Above(f, 1) \in Nat
    BY <2>1, Prefixes
  <2>3. PICK b \in 0 .. 1 : b = test_bit(f, 0) /\ f = 2 * Above(f, 1) + b
    BY <2>1, Prefixes
  <2>4. QED
    BY <2>1, <2>2, <2>3
<1>4. Held(x, m, B, s)
  BY <1>1, <1>3
<1>5. s.bits \in Nat /\ s.bits >= 3
  BY CurveSizes
<1>6. Passable(m, s)
  <2>1. 0 \in 0 .. s.bits - 1 /\ 0 + 1 = 1
    BY <1>5
  <2>2. k >= 2
    BY <1>1 DEF Scalars
  <2>3. QED
    BY <1>1, <1>3, <2>1, <2>2, Nondegenerate
<1>7. test_bit(x.k, 0) = b
  BY <1>1, <1>5, <1>3, SameBits DEF Scalars
<1>8. PICK r : r = Swapped(x, x.state.swap # b)
  OBVIOUS
<1>9. r \in Context /\ KeepsAll(r, x) /\ Rungs(r, b, m, B, s)
  <2>1. Readied(r, x, b)
    BY <1>8 DEF Readied, Swapped
  <2>2. m \in Int
    BY <1>3
  <2>3. QED
    BY <1>1, <1>3, <1>4, <2>1, <2>2, ReadyIs
<1>10. PICK first : first = sb_sw_point_co_z_conj_add(r, s)
  OBVIOUS
<1>111. PICK yes \in BOOLEAN : yes = (b = 0)
  OBVIOUS
<1>112. (yes => b = 0) /\ (~yes => b = 1)
  <2>1. (yes => b = 0) /\ (~yes => b # 0)
    BY <1>111, Zenon
  <2>2. QED
    BY <1>3, <2>1
<1>11. PICK last : last = Swapped(sb_sw_point_co_z_add_update(first, s), yes)
  OBVIOUS
<1>12. PICK zinv : zinv = RecoveredInverse(x, first, s.p)
  OBVIOUS
<1>13. /\ last \in Context /\ KeepsAll(last, x) /\ IsPair(Point(f * B, s))
       /\ \E W : /\ Unit(W, s) /\ LastRegister(last, f, B, W, s)
                 /\ InverseOf(RecoveredInverse(x, first, s.p), W, s)
  <2>1. m \in Int /\ f \in Int /\ f = 2 * m + b
    BY <1>3
  <2>2. /\ x \in Context /\ B \in Int /\ ~Zero(B, s)
        /\ x.px = E(Point(B, s)[1], s.p) /\ x.py = E(Point(B, s)[2], s.p)
        /\ b \in 0 .. 1
    BY <1>1, <1>3
  <2>3. QED
    BY <1>6, <1>7, <1>9, <1>10, <1>11, <1>112, <2>1, <2>2, LastBitIs
<1>14. PICK W : Unit(W, s) /\ LastRegister(last, f, B, W, s) /\ InverseOf(zinv, W, s)
  BY <1>12, <1>13
<1>15. PICK l \in Int : zinv = E(l, s.p) /\ Congruent(l * W, 1, s.p.p)
  BY <1>14 DEF InverseOf
<1>16. PICK R : R = Point(f * B, s) /\ IsPair(R)
  BY <1>13
<1>17. Lands(x, last, zinv, R, s)
  BY <1>14, <1>16, <1>2, <1>15, LandsMany DEF Unit, LastRegister
<1>18. u = Affine(x, last, zinv, s)
  BY <1>7, <1>8, <1>10, <1>11, <1>111, <1>12 DEF InvertZ, LastBit
<1>19. Ended(u, x) /\ Answered(u, x.state.inv_k, R, k, s)
  BY <1>1, <1>13, <1>16, <1>17, <1>18, AffineIs
<1>20. QED
  BY <1>16, <1>19

(* The scalar 1: what was lost is zero, and the point is added. *)
LEMMA RecoversNothing ==
  ASSUME NEW s, IsCurve(s), NEW m, m = s.p, NEW x, NEW X \in Int, NEW Y \in Int,
         x.px = E(X, m), x.py = E(Y, m), NEW first, Values(first, 0, 0, 0, 0, m)
  PROVE  RecoveredInverse(x, first, m) = E(0, m)
<1>1. Montgomery(m)
  BY CurveIs
<1>2. PICK o \in Int : o = 0 /\ o - o = o /\ o * o = o /\ o * X = o /\ o * Y = o
  OBVIOUS
<1>3. first.x1 = E(o, m) /\ first.y1 = E(o, m) /\ first.x2 = E(o, m) /\ first.y2 = E(o, m)
  BY <1>2 DEF Values
<1>4. mod_sub(E(o, m), E(o, m), m) = E(o, m)
  BY <1>1, <1>2, EAdd
<1>5. /\ mont_mult(E(o, m), E(o, m), m) = E(o, m)
      /\ mont_mult(E(o, m), E(X, m), m) = E(o, m)
      /\ mont_mult(E(o, m), E(Y, m), m) = E(o, m)
  BY <1>1, <1>2, EMult
<1>6. mod_inv_r(E(o, m), m) = E(o, m)
  BY <1>1, <1>2, EInverseZero
<1>7. RecoveredInverse(x, first, m) = E(o, m)
  <2>1. PICK dx : dx = IF test_bit(x.k, 0) = 1
                       THEN mod_sub(first.x2, first.x1, m) ELSE mod_sub(first.x1, first.x2, m)
    OBVIOUS
  <2>2. dx = E(o, m)
    BY <1>3, <1>4, <2>1
  <2>3. RecoveredInverse(x, first, m)
          = mont_mult(mont_mult(mod_inv_r(mont_mult(mont_mult(dx, first.y2, m), x.px, m), m), x.py, m), first.x2, m)
    BY <2>1, Zenon DEF RecoveredInverse
  <2>4. mont_mult(mont_mult(dx, first.y2, m), x.px, m) = E(o, m)
    BY <1>3, <1>5, <2>2
  <2>5. QED
    BY <1>3, <1>5, <1>6, <2>3, <2>4
<1>8. QED
  BY <1>2, <1>7

LEMMA InvertOne ==
  ASSUME NEW s, IsCurve(s), NEW x, NEW k, k = 1, NEW f, NEW B, Laddered(x, k, f, B, s),
         x.state.i = 0, NEW u, u = InvertZ(x, s)
  PROVE  Ended(u, x) /\ Answered(u, x.state.inv_k, Point(B, s), k, s)
<1>1. /\ x \in Context /\ Scalars(k, f, s) /\ x.k = f - TwoTo[s.bits]
      /\ B \in Int /\ ~Zero(B, s)
      /\ x.px = E(Point(B, s)[1], s.p) /\ x.py = E(Point(B, s)[2], s.p)
      /\ Collapsed(x, s.p) /\ x.state.swap = 1
  BY DEF Laddered, Factors
<1>2. x.state.k_one = TRUE
  BY DEF Laddered, Factors
<1>3. s.bits \in Nat /\ s.bits >= 3 /\ Montgomery(s.p)
  BY CurveSizes, CurveIs
<1>4. test_bit(x.k, 0) = 1
  BY <1>1, <1>3, SameBits, LastOfOne DEF Scalars
<1>5. PICK first : first = sb_sw_point_co_z_conj_add(x, s)
  OBVIOUS
<1>6. PICK last : last = sb_sw_point_co_z_add_update(first, s)
  OBVIOUS
<1>7. PICK zinv : zinv = RecoveredInverse(x, first, s.p)
  OBVIOUS
<1>8. /\ first \in Context /\ Values(first, 0, 0, 0, 0, s.p)
      /\ last \in Context /\ KeepsAll(last, x) /\ Values(last, 0, 0, 0, 0, s.p)
  BY <1>1, <1>3, <1>5, <1>6, NothingIs
<1>9. PICK R : R = Point(B, s) /\ IsPair(R)
  BY <1>1, PointIs
<1>10. zinv = E(0, s.p)
  BY <1>1, <1>9, <1>7, <1>8, RecoversNothing DEF IsPair
<1>11. Lands(x, last, zinv, R, s)
  BY <1>8, <1>1, <1>9, <1>2, <1>10, LandsOne DEF Values
<1>12. u = Affine(x, last, zinv, s)
  BY <1>1, <1>4, <1>5, <1>6, <1>7 DEF Swapped, InvertZ, LastBit
<1>13. Ended(u, x) /\ Answered(u, x.state.inv_k, R, k, s)
  BY <1>1, <1>8, <1>9, <1>11, <1>12, AffineIs
<1>14. QED
  BY <1>9, <1>13

(* Coordinates of a point, quasi-reduced. *)
LEMMA CoordinateIs ==
  ASSUME NEW m, Montgomery(m), NEW X \in 0 .. m.p - 1, NEW a \in Int, Congruent(a, X, m.p)
  PROVE  Q(a, m) % m.p = X
<1>1. m.p \in Nat \ {0}
  BY DEF Montgomery
<1>2. Q(a, m) \in Int /\ Congruent(Q(a, m), a, m.p)
  BY QIs
<1>3. Congruent(Q(a, m), X, m.p)
  BY <1>1, <1>2, CongruentThrough
<1>4. Q(a, m) % m.p = X % m.p
  BY <1>1, <1>2, <1>3, CongruentHasRest
<1>5. X % m.p = X
  BY <1>1, Below
<1>6. QED
  BY <1>4, <1>5

(* The points by either of the two scalars, k and f. *)
LEMMA SamePoint ==
  ASSUME NEW s, IsCurve(s), NEW k, NEW f, Scalars(k, f, s), NEW B \in Int, ~Zero(B, s)
  PROVE  /\ k \in Int /\ f \in Int /\ k * B \in Int /\ ~Zero(k * B, s)
         /\ Point(f * B, s) = Point(k * B, s)
<1>1. PICK n \in Nat, H \in Nat : n = s.n.p /\ H = TwoTo[s.bits - 1] /\ H + 1 < n /\ n > 3
  BY CurveSizes
<1>2. k \in 1 .. H - 1 /\ f \in Nat /\ (f = k + n \/ f = k + 2 * n)
  BY <1>1 DEF Scalars
<1>3. k \in Int /\ f \in Int /\ k > 0 /\ k < n /\ k * B \in Int /\ f * B \in Int
  BY <1>1, <1>2
<1>4. ~Congruent(k, 0, n)
  <2> SUFFICES ASSUME Congruent(k, 0, n) PROVE FALSE
    OBVIOUS
  <2>1. n \in Nat \ {0} /\ k < 4 * n
    BY <1>1, <1>3
  <2>2. k = n \/ k = 2 * n \/ k = 3 * n
    BY <1>3, <2>1, FewMultiples
  <2>3. QED
    BY <1>1, <1>3, <2>2
<1>5. ~Zero(k * B, s)
  BY <1>1, <1>4, <1>3, CurveIs, NotZero DEF Zero
<1>6. Congruent(f, k, n)
  <2>1. PICK o \in Int, l \in Int : o = 1 /\ l = 2
    OBVIOUS
  <2>2. n \in Nat /\ k \in Int /\ o \in Int /\ l \in Int
    BY <1>1, <1>3
  <2>3. Congruent(k + o * n, k, n) /\ Congruent(k + l * n, k, n)
    BY <2>2, CongruentShift
  <2>4. o * n = n /\ l * n = 2 * n
    BY <1>1, <2>1
  <2>5. QED
    BY <1>2, <2>3, <2>4
<1>7. Congruent(f * B, k * B, n)
  BY <1>1, <1>3, <1>6, CongruentScale
<1>8. Point(f * B, s) = Point(k * B, s)
  BY <1>1, <1>3, <1>7, PointSame
<1>9. QED
  BY <1>3, <1>5, <1>8

LEMMA AnsweredIs ==
  ASSUME NEW s, IsCurve(s), NEW k \in Int, NEW B \in Int, NEW KJ \in Int,
         NEW kB \in Int, ~Zero(kB, s), NEW inv \in BOOLEAN,
         ~inv => Congruent(kB, KJ, s.n.p), inv => Congruent(-kB, KJ, s.n.p),
         NEW u, Answered(u, inv, Point(kB, s), k, s)
  PROVE  IsPoint(u.x1, u.y1, KJ, s)
<1>1. PICK m, p : m = s.p /\ p = m.p /\ p \in Nat \ {0} /\ Montgomery(m) /\ p = s.p.p
  BY CurveIs
<1>2. PICK X \in 0 .. p - 1, Y \in 0 .. p - 1 : X = Point(kB, s)[1] /\ Y = Point(kB, s)[2]
  BY <1>1, PointIs
<1>3. X \in Int /\ Y \in Int
  BY <1>1, <1>2
<1>4. u.x1 = Q(X, m)
  BY <1>1, <1>2 DEF Answered
<1>5. Congruent(X, X, p) /\ Congruent(Y, Y, p)
  BY <1>1, <1>3, CongruentSame
<1>6. u.x1 % p = X
  BY <1>1, <1>2, <1>3, <1>4, <1>5, CoordinateIs
<1>7. CASE ~inv
  <2>1. u.y1 = Q(Y, m)
    BY <1>1, <1>2, <1>7 DEF Answered
  <2>2. u.y1 % p = Y
    BY <1>1, <1>2, <1>3, <1>5, <2>1, CoordinateIs
  <2>3. Point(kB, s) = Point(KJ, s)
    BY <1>7, PointSame
  <2>4. QED
    BY <1>1, <1>2, <1>6, <2>2, <2>3 DEF IsPoint, Point
<1>8. CASE inv
  <2>1. PICK a \in Int, l \in Int : a = -Y /\ l = -kB
    BY <1>3
  <2>2. u.y1 = Q(a, m)
    BY <1>1, <1>2, <1>8, <2>1 DEF Answered
  <2>3. Point(l, s) = Point(KJ, s)
    BY <1>8, <2>1, PointSame
  <2>4. ~Zero(l, s) /\ Point(l, s)[1] = X /\ Congruent(Point(l, s)[2], a, p)
    BY <1>1, <1>2, <2>1, PointOpposite
  <2>5. Point(l, s)[2] \in 0 .. p - 1
    BY <1>1, <2>1, <2>4, PointIs
  <2>6. PICK V \in 0 .. p - 1 : V = Point(l, s)[2]
    BY <2>5
  <2>7. V \in Int /\ Congruent(a, V, p)
    BY <1>1, <2>1, <2>4, <2>6, CongruentBack
  <2>8. u.y1 % p = V
    BY <1>1, <2>1, <2>2, <2>6, <2>7, CoordinateIs
  <2>9. QED
    BY <1>1, <1>6, <2>3, <2>4, <2>6, <2>8 DEF IsPoint, Point
<1>9. QED
  BY <1>7, <1>8

(* The end of the ladder keeps the promise of its start. *)
LEMMA InvertZIs ==
  ASSUME NEW s, IsCurve(s), NEW x, NEW k, NEW f, NEW B, Laddered(x, k, f, B, s), x.state.i = 0,
         NEW J \in Int, NEW K \in Int, Promised(x.state.inv_k, k, B, J, K, s),
         NEW u, u = InvertZ(x, s)
  PROVE  /\ Ended(u, x) /\ IsPoint(u.x1, u.y1, K * J, s)
         /\ Point(J, s)[1] # 0 => u.k = K
<1>1. /\ x \in Context /\ Scalars(k, f, s) /\ B \in Int /\ ~Zero(B, s)
  BY DEF Laddered, Factors
<1>2. PICK inv \in BOOLEAN : inv = x.state.inv_k
  BY <1>1 DEF Context, States
<1>3. /\ k \in Int /\ f \in Int /\ k * B \in Int /\ ~Zero(k * B, s)
      /\ Point(f * B, s) = Point(k * B, s)
  BY <1>1, SamePoint
<1>4. /\ ~Congruent(Point(B, s)[1], 0, s.p.p)
      /\ Congruent((IF inv THEN -k ELSE k) * B, K * J, s.n.p)
      /\ Point(J, s)[1] # 0 => K = IF inv THEN s.n.p - k ELSE k
  BY <1>2 DEF Promised
<1>5. Ended(u, x) /\ Answered(u, inv, Point(k * B, s), k, s)
  <2>1. CASE k = 1
    BY <1>1, <2>1, <1>2, InvertOne
  <2>2. CASE k # 1
    BY <1>4, <2>2, <1>2, <1>3, InvertMany
  <2>3. QED
    BY <2>1, <2>2
<1>6. PICK kB \in Int, KJ \in Int : kB = k * B /\ KJ = K * J
  BY <1>3
<1>7. (~inv => Congruent(kB, KJ, s.n.p)) /\ (inv => Congruent(-kB, KJ, s.n.p))
  BY <1>1, <1>3, <1>4, <1>6
<1>8. IsPoint(u.x1, u.y1, KJ, s)
  BY <1>3, <1>5, <1>6, <1>1, <1>7, AnsweredIs
<1>9. Point(J, s)[1] # 0 => u.k = K
  BY <1>5, <1>4 DEF Answered
<1>10. QED
  BY <1>5, <1>6, <1>8, <1>9

--------------------------------------------------------------------------------
(* A multiplication as it goes: K times the point J. *)
Multiplying(x, J, K, s) ==
  /\ \E k, f, B : Laddered(x, k, f, B, s) /\ Promised(x.state.inv_k, k, B, J, K, s)
  /\ \/ x.state.stage = LADDER /\ x.state.i # 0
     \/ x.state.stage = INV_Z /\ x.state.i = 0
Multiplied(x, J, K, s) ==
  /\ x \in Context /\ x.state.stage = MULT_DONE
  /\ IsPoint(x.x1, x.y1, K * J, s) /\ x.x1 \in 1 .. s.p.p
  /\ Point(J, s)[1] # 0 => x.k = K

LEMMA InvertedQuasi ==
  ASSUME NEW s, IsCurve(s), NEW x, NEW k, NEW f, NEW B, Laddered(x, k, f, B, s), x.state.i = 0,
         ~Congruent(Point(B, s)[1], 0, s.p.p), NEW u, u = InvertZ(x, s)
  PROVE  u.x1 \in 1 .. s.p.p
<1>1. Scalars(k, f, s) /\ B \in Int /\ ~Zero(B, s)
  BY DEF Laddered, Factors
<1>2. Montgomery(s.p)
  BY CurveIs
<1>3. k \in Int /\ f \in Int /\ k * B \in Int /\ ~Zero(k * B, s) /\ Point(f * B, s) = Point(k * B, s)
  BY <1>1, SamePoint
<1>4. \E R : IsPair(R) /\ u.x1 = Q(R[1], s.p)
  <2>1. CASE k = 1
    BY <2>1, <1>1, InvertOne, PointIs DEF Answered
  <2>2. CASE k # 1
    <3>1. Answered(u, x.state.inv_k, Point(f * B, s), k, s)
      BY <2>2, InvertMany
    <3>2. IsPair(Point(f * B, s))
      <4>1. PICK kB \in Int : kB = k * B
        BY <1>3
      <4>2. IsPair(Point(kB, s))
        BY <1>3, <4>1, PointIs
      <4>3. QED
        BY <1>3, <4>1, <4>2
    <3>3. QED
      BY <3>1, <3>2 DEF Answered
  <2>3. QED
    BY <2>1, <2>2
<1>5. QED
  BY <1>2, <1>4, QIs DEF IsPair

(* A call of it. *)
LEMMA ContinueIs ==
  ASSUME NEW s, IsCurve(s), POINT_ITERATIONS \in Nat \ {0}, NEW J \in Int, NEW K \in Int,
         NEW x, Multiplying(x, J, K, s), NEW r, r = sb_sw_point_mult_continue(x, s)
  PROVE  /\ Spared(r.c, x)
         /\ \/ r.done = FALSE /\ Multiplying(r.c, J, K, s)
            \/ r.done = TRUE /\ Multiplied(r.c, J, K, s)
<1>1. PICK k, f, B : Laddered(x, k, f, B, s) /\ Promised(x.state.inv_k, k, B, J, K, s)
  BY DEF Multiplying
<1>2. CASE x.state.stage = LADDER /\ x.state.i # 0
  <2>1. PICK u : u = Ladder(x, s)
    OBVIOUS
  <2>2. r = [c |-> u, done |-> FALSE]
    BY <1>2, <2>1 DEF sb_sw_point_mult_continue, LADDER, INV_Z
  <2>3. /\ Laddered(u, k, f, B, s) /\ Alike(u, x)
        /\ \/ u.state.stage = INV_Z /\ u.state.i = 0
           \/ u.state.stage = x.state.stage /\ u.state.i # 0
    BY <1>1, <2>1, LadderIs
  <2>4. Spared(u, x) /\ u.state.inv_k = x.state.inv_k
    BY <2>3 DEF Alike, Spared
  <2>5. Promised(u.state.inv_k, k, B, J, K, s)
    BY <1>1, <2>4
  <2>6. Multiplying(u, J, K, s)
    BY <1>2, <2>3, <2>5 DEF Multiplying
  <2>7. r.c = u /\ r.done = FALSE
    BY <2>2
  <2>8. QED
    BY <2>4, <2>6, <2>7
<1>3. CASE x.state.stage = INV_Z /\ x.state.i = 0
  <2>1. PICK u : u = InvertZ(x, s)
    OBVIOUS
  <2>2. r = [c |-> u, done |-> TRUE]
    BY <1>3, <2>1 DEF sb_sw_point_mult_continue, LADDER, INV_Z
  <2>3. /\ Ended(u, x) /\ IsPoint(u.x1, u.y1, K * J, s)
        /\ Point(J, s)[1] # 0 => u.k = K
    BY <1>1, <1>3, <2>1, InvertZIs
  <2>4. u.x1 \in 1 .. s.p.p
    BY <1>1, <1>3, <2>1, InvertedQuasi DEF Promised
  <2>5. Spared(u, x) /\ Multiplied(u, J, K, s)
    BY <2>3, <2>4 DEF Ended, Multiplied
  <2>6. r.c = u /\ r.done = TRUE
    BY <2>2
  <2>7. QED
    BY <2>5, <2>6
<1>4. QED
  BY <1>2, <1>3 DEF Multiplying

--------------------------------------------------------------------------------
(* The generator, and what is asked of the context. *)
LEMMA PlainPoint ==
  ASSUME NEW s, IsCurve(s), NEW j \in 1 .. s.n.p - 1
  PROVE  j \in Int /\ ~Zero(j, s) /\ Point(j, s) = s.multiples[j]
<1>1. PICK n \in Nat \ {0} : n = s.n.p /\ n > 3
  BY CurveIs
<1>2. j \in Nat /\ j < n /\ j > 0
  BY <1>1
<1>3. j % n = j
  BY <1>1, <1>2, Below
<1>4. ~Congruent(j, 0, n)
  <2> SUFFICES ASSUME Congruent(j, 0, n) PROVE FALSE
    OBVIOUS
  <2>1. n \in Nat \ {0} /\ j \in Int /\ j < 4 * n
    BY <1>1, <1>2
  <2>2. j = n \/ j = 2 * n \/ j = 3 * n
    BY <1>2, <2>1, FewMultiples
  <2>3. QED
    BY <1>1, <1>2, <2>2
<1>5. QED
  BY <1>1, <1>2, <1>3, <1>4 DEF Zero, Point

LEMMA FreshIs ==
  ASSUME NEW operation \in Operations
  PROVE  /\ FreshState(operation) \in States /\ FreshState(operation).swap = 0
         /\ FreshState(operation).operation = operation /\ FreshState(operation).stage = 0
<1>1. PICK o \in Int : o = 0
  OBVIOUS
<1>2. PICK res \in BOOLEAN : res = (operation = "verify")
  OBVIOUS
<1>3. FreshState(operation) = [operation |-> operation, stage |-> o, i |-> o,
                               inv_k |-> FALSE, k_one |-> FALSE, swap |-> o, res |-> res]
  BY <1>1, <1>2 DEF FreshState
<1>4. QED
  BY <1>1, <1>3 DEF States

LEMMA BlankIs == Blank \in Context /\ Blank.state.swap = 0
<1>1. PICK o \in Int : o = 0
  OBVIOUS
<1>2. FreshState("none") \in States /\ FreshState("none").swap = 0
  BY FreshIs DEF Operations
<1>3. Blank = [k |-> o, z |-> o, x1 |-> o, y1 |-> o, x2 |-> o, y2 |-> o,
               px |-> o, py |-> o, u1 |-> o, u2 |-> o, u3 |-> o, u4 |-> o,
               t5 |-> o, t6 |-> o, state |-> FreshState("none")]
  BY <1>1 DEF Blank, Lost
<1>4. QED
  BY <1>2, <1>3 DEF Context

(* What StartLadders finds in a context: the point J, in the Montgomery    *)
(* domain, and the scalar.                                                 *)
Prepared(x, J, K, s) ==
  /\ x \in Context /\ x.k = K /\ x.z \in 1 .. s.p.p - 1 /\ x.state.swap = 0
  /\ x.px = E(Point(J, s)[1], s.p) /\ x.py = E(Point(J, s)[2], s.p)

LEMMA StartMultiplies ==
  ASSUME NEW s, IsCurve(s), NEW J \in Int, ~Zero(J, s), NEW K \in 1 .. s.n.p - 1,
         NEW x, Prepared(x, J, K, s), NEW u, u = sb_sw_point_mult_start(x, s)
  PROVE  Multiplying(u, J, K, s) /\ Spared(u, x)
<1>1. /\ x \in Context /\ x.k = K /\ x.z \in 1 .. s.p.p - 1 /\ x.state.swap = 0
      /\ x.px = E(Point(J, s)[1], s.p) /\ x.py = E(Point(J, s)[2], s.p)
  BY DEF Prepared
<1>2. /\ \E k, f, B : Laddered(u, k, f, B, s) /\ Promised(u.state.inv_k, k, B, J, K, s)
      /\ Spared(u, x) /\ u.state.stage = LADDER /\ u.state.i # 0
  BY <1>1, StartLadders
<1>3. QED
  BY <1>2 DEF Multiplying

LEMMA MultiplyAsked ==
  ASSUME NEW t \in Tasks, t.kind = "multiply", NEW s, s = Curves[t.curve]
  PROVE  /\ IsCurve(s) /\ t.point \in Int /\ ~Zero(t.point, s) /\ t.k \in 1 .. s.n.p - 1
         /\ Point(t.point, s) = s.multiples[t.point]
         /\ Prepared(Asked(t), t.point, t.k, s)
<1>1. /\ IsCurve(s)
      /\ t.point \in 1 .. s.n.p - 1 /\ t.k \in 1 .. s.n.p - 1 /\ t.z \in 1 .. s.p.p - 1
  BY TaskIs DEF IsTask
<1>2. PICK J : J = t.point /\ J \in 1 .. s.n.p - 1
  BY <1>1
<1>3. J \in Int /\ ~Zero(J, s) /\ Point(J, s) = s.multiples[J]
  BY <1>1, <1>2, PlainPoint
<1>4. PICK m : m = s.p /\ Montgomery(m) /\ m.p \in Nat
  BY <1>1, CurveIs
<1>5. PICK a \in Int, b \in Int : a = Point(J, s)[1] /\ b = Point(J, s)[2]
  BY <1>1, <1>3, PointIs DEF IsPair
<1>6. PICK px \in Int, py \in Int : px = E(a, m) /\ py = E(b, m)
  BY <1>4, EIs
<1>7. mont_convert(mod_reduce(a, m), m) = px /\ mont_convert(mod_reduce(b, m), m) = py
  BY <1>4, <1>6, QIs, EConvert DEF mod_reduce
<1>8. PICK k \in Int, z \in Int : k = t.k /\ z = t.z
  BY <1>1, <1>4, CurveIs
<1>9. PICK st : st = FreshState("multiply") /\ st \in States /\ st.swap = 0
  BY FreshIs DEF Operations
<1>10. PICK x : x = [Blank EXCEPT !.k = k, !.z = z, !.px = px, !.py = py, !.state = st]
  OBVIOUS
<1>11. x = Asked(t)
  <2>1. s.multiples[t.point][1] = a /\ s.multiples[t.point][2] = b
    BY <1>2, <1>3, <1>5
  <2>2. Asked(t) = [Blank EXCEPT !.k = t.k, !.z = t.z,
                                 !.px = mont_convert(mod_reduce(s.multiples[t.point][1], s.p), s.p),
                                 !.py = mont_convert(mod_reduce(s.multiples[t.point][2], s.p), s.p),
                                 !.state = FreshState("multiply")]
    BY DEF Asked
  <2>3. QED
    BY <1>4, <1>7, <1>8, <1>9, <1>10, <2>1, <2>2
<1>12. x \in Context
  BY <1>9, <1>10, BlankIs DEF Context
<1>13. x.k = k /\ x.z = z /\ x.px = px /\ x.py = py /\ x.state = st
  BY <1>10, BlankIs DEF Context
<1>14. Prepared(x, J, t.k, s)
  BY <1>1, <1>4, <1>5, <1>6, <1>8, <1>9, <1>12, <1>13 DEF Prepared
<1>15. QED
  BY <1>1, <1>2, <1>3, <1>11, <1>14

(* Of a multiplication, at any call. *)
MultiplyInvariant ==
  /\ task \in Tasks
  /\ task.kind = "multiply" =>
       \/ answer.stage = "asked" /\ c = Asked(task)
       \/ answer.stage = "started" /\ Multiplying(c, task.point, task.k, TaskCurve)
       \/ answer.stage = "done" /\ Multiplied(c, task.point, task.k, TaskCurve)

LEMMA MultiplyStartStep ==
  ASSUME MultiplyInvariant, MultiplyStart
  PROVE  MultiplyInvariant'
<1>1. PICK s, J, K : s = TaskCurve /\ s = Curves[task.curve] /\ J = task.point /\ K = task.k
  BY DEF TaskCurve
<1>2. /\ task \in Tasks /\ task' = task /\ task.kind = "multiply" /\ answer.stage = "asked"
      /\ answer'.stage = "started" /\ c' = sb_sw_point_mult_start(c, s)
  BY <1>1 DEF MultiplyStart, Going, MultiplyInvariant
<1>3. c = Asked(task)
  BY <1>2 DEF MultiplyInvariant
<1>4. IsCurve(s) /\ J \in Int /\ ~Zero(J, s) /\ K \in 1 .. s.n.p - 1 /\ Prepared(c, J, K, s)
  BY <1>1, <1>2, <1>3, MultiplyAsked
<1>5. PICK x, u : x = c /\ u = c'
  OBVIOUS
<1>6. Multiplying(u, J, K, s)
  BY <1>2, <1>4, <1>5, StartMultiplies
<1>7. TaskCurve' = s /\ task'.point = J /\ task'.k = K
  BY <1>1, <1>2 DEF TaskCurve
<1>8. Multiplying(c, task.point, task.k, TaskCurve)'
  BY <1>5, <1>6, <1>7
<1>9. QED
  BY <1>2, <1>8 DEF MultiplyInvariant

LEMMA MultiplyContinueStep ==
  ASSUME MultiplyInvariant, MultiplyContinue
  PROVE  MultiplyInvariant'
<1>1. PICK s, J, K : s = TaskCurve /\ s = Curves[task.curve] /\ J = task.point /\ K = task.k
  BY DEF TaskCurve
<1>2. PICK x, r : x = c /\ r = sb_sw_point_mult_continue(x, s)
  OBVIOUS
<1>3. /\ task \in Tasks /\ task' = task /\ task.kind = "multiply" /\ answer.stage = "started"
      /\ answer'.stage = (IF r.done THEN "done" ELSE "started") /\ c' = r.c
  BY <1>1, <1>2 DEF MultiplyContinue, Going, MultiplyInvariant
<1>4. Multiplying(x, J, K, s)
  BY <1>1, <1>2, <1>3 DEF MultiplyInvariant
<1>5. IsCurve(s) /\ J \in Int /\ K \in Int /\ POINT_ITERATIONS \in Nat \ {0}
  BY <1>1, <1>3, MultiplyAsked, CurveIs, PointAssumption
<1>6. \/ r.done = FALSE /\ Multiplying(r.c, J, K, s)
      \/ r.done = TRUE /\ Multiplied(r.c, J, K, s)
  BY <1>2, <1>4, <1>5, ContinueIs
<1>7. TaskCurve' = s /\ task'.point = J /\ task'.k = K
  BY <1>1, <1>3 DEF TaskCurve
<1>8. CASE r.done = FALSE /\ Multiplying(r.c, J, K, s)
  BY <1>3, <1>7, <1>8 DEF MultiplyInvariant
<1>9. CASE r.done = TRUE /\ Multiplied(r.c, J, K, s)
  BY <1>3, <1>7, <1>9 DEF MultiplyInvariant
<1>10. QED
  BY <1>6, <1>8, <1>9

(* Every point of a curve, by every scalar and with whatever Z, comes out  *)
(* as its multiple, wherever the ladder is interrupted; and the scalar is  *)
(* as it was, unless the point has x = 0.                                  *)
THEOREM ScalarsMultiplied == Spec => []MultipliesByScalar
<1>1. Init => MultiplyInvariant
  BY DEF Init, MultiplyInvariant
<1>2. MultiplyInvariant /\ [Next]_vars => MultiplyInvariant'
  <2> SUFFICES ASSUME MultiplyInvariant, [Next]_vars PROVE MultiplyInvariant'
    OBVIOUS
  <2>1. CASE UNCHANGED vars
    BY <2>1 DEF vars, MultiplyInvariant, TaskCurve
  <2>2. CASE MultiplyStart \/ MultiplyContinue
    BY <2>2, MultiplyStartStep, MultiplyContinueStep
  <2>3. CASE \/ SignStart \/ SignContinue \/ VerifyStart \/ VerifyContinue
             \/ Validate \/ Decompress \/ PickZ \/ PickK
    <3>1. task' = task /\ task.kind # "multiply"
      BY <2>3 DEF SignStart, SignContinue, VerifyStart, VerifyContinue,
                  Validate, Decompress, PickZ, PickK, Going
    <3>2. QED
      BY <3>1 DEF MultiplyInvariant
  <2>4. QED
    BY <2>1, <2>2, <2>3 DEF Next
<1>3. MultiplyInvariant => MultipliesByScalar
  <2> SUFFICES ASSUME MultiplyInvariant, task.kind = "multiply", answer.stage = "done"
               PROVE  /\ IsPoint(c.x1, c.y1, task.point * task.k, TaskCurve)
                      /\ TaskCurve.multiples[task.point][1] # 0 => c.k = task.k
    BY DEF MultipliesByScalar
  <2>1. PICK s, J, K : s = TaskCurve /\ s = Curves[task.curve] /\ J = task.point /\ K = task.k
    BY DEF TaskCurve
  <2>2. task \in Tasks /\ Multiplied(c, J, K, s)
    BY <2>1 DEF MultiplyInvariant
  <2>3. IsCurve(s) /\ J \in Int /\ K \in 1 .. s.n.p - 1 /\ Point(J, s) = s.multiples[J]
    BY <2>1, <2>2, MultiplyAsked
  <2>4. K * J = J * K
    BY <2>3, CurveIs
  <2>5. IsPoint(c.x1, c.y1, J * K, s) /\ (s.multiples[J][1] # 0 => c.k = K)
    BY <2>2, <2>3, <2>4 DEF Multiplied
  <2>6. QED
    BY <2>1, <2>5
<1>4. QED
  BY <1>1, <1>2, <1>3, PTL DEF Spec

--------------------------------------------------------------------------------
(* Signing.                                                                *)

(* The inverse that the reference has. *)
LEMMA InverseIs ==
  ASSUME NEW m, Montgomery(m), NEW u \in Int, ~Congruent(u, 0, m.p), NEW i, i = Inv(u, m.p)
  PROVE  i \in 1 .. m.p - 1 /\ i \in Int /\ Congruent(i * u, 1, m.p)
<1>1. PICK p \in Nat \ {0} : p = m.p /\ p > 3
  BY DEF Montgomery
<1>2. PICK v \in Int : Congruent(u * v, 1, p)
  BY <1>1, Invertible
<1>3. PICK w \in Nat : w = v % p /\ w < p
  BY <1>1, <1>2, WholeDivision
<1>4. Congruent(w, v, p)
  BY <1>1, <1>3, <1>2, Below, RestCongruent
<1>5. Congruent(w * u, 1, p)
  <2>1. PICK a \in Int, b \in Int : a = w * u /\ b = v * u /\ b = u * v
    BY <1>2, <1>3
  <2>2. Congruent(a, b, p)
    <3>1. w \in Int /\ v \in Int /\ p \in Nat
      BY <1>1, <1>2, <1>3
    <3>2. Congruent(w * u, v * u, p)
      BY <1>4, <3>1, CongruentScale
    <3>3. QED
      BY <2>1, <3>2
  <2>3. Congruent(b, 1, p)
    BY <1>2, <2>1
  <2>4. Congruent(a, 1, p)
    BY <1>1, <2>1, <2>2, <2>3, CongruentThrough
  <2>5. QED
    BY <2>1, <2>4
<1>6. ASSUME NEW j \in Int
      PROVE  (j * u) % p = 1 <=> Congruent(j * u, 1, p)
  <2>1. PICK a \in Int : a = j * u
    BY <1>6
  <2>2. 1 % p = 1
    BY <1>1, Below
  <2>3. Congruent(a, 1, p) => a % p = 1
    <3> SUFFICES ASSUME Congruent(a, 1, p) PROVE a % p = 1
      OBVIOUS
    <3>1. a % p = 1 % p
      BY <1>1, <2>1, CongruentHasRest
    <3>2. QED
      BY <2>2, <3>1
  <2>4. a % p = 1 => Congruent(a, 1, p)
    <3> SUFFICES ASSUME a % p = 1 PROVE Congruent(a, 1, p)
      OBVIOUS
    <3>1. a % p = 1 % p
      BY <2>2
    <3>2. QED
      BY <1>1, <2>1, <3>1, RestCongruent
  <2>5. QED
    BY <2>1, <2>3, <2>4
<1>7. w # 0
  <2> SUFFICES ASSUME w = 0 PROVE FALSE
    OBVIOUS
  <2>1. PICK a \in Int : a = w * u /\ a = 0
    OBVIOUS
  <2>2. a % p = 1
    BY <1>3, <1>5, <1>6, <2>1
  <2>3. 0 % p = 0
    BY <1>1, Below
  <2>4. QED
    BY <2>1, <2>2, <2>3
<1>8. \E j \in 1 .. p - 1 : (j * u) % p = 1
  <2>1. w \in 1 .. p - 1 /\ w \in Int
    BY <1>1, <1>3, <1>7
  <2>2. (w * u) % p = 1
    BY <1>5, <1>6, <2>1
  <2>3. QED
    BY <2>1, <2>2
<1>9. i \in 1 .. p - 1 /\ (i * u) % p = 1
  <2>1. i = CHOOSE j \in 1 .. p - 1 : (j * u) % p = 1
    BY <1>1 DEF Inv
  <2>2. QED
    BY <1>8, <2>1, Zenon
<1>10. i \in Int
  BY <1>1, <1>9
<1>11. Congruent(i * u, 1, p)
  BY <1>6, <1>9, <1>10
<1>12. QED
  BY <1>1, <1>9, <1>10, <1>11

(* The generator as the context has it. *)
LEMMA GeneratorIs ==
  ASSUME NEW s, IsCurve(s)
  PROVE  /\ 1 \in 1 .. s.n.p - 1 /\ ~Zero(1, s)
         /\ s.g_r[1] = E(Point(1, s)[1], s.p) /\ s.g_r[2] = E(Point(1, s)[2], s.p)
<1>1. s.n.p \in Nat /\ s.n.p > 3
  BY CurveIs
<1>2. 1 \in 1 .. s.n.p - 1
  BY <1>1
<1>3. Point(1, s) = s.multiples[1] /\ ~Zero(1, s)
  BY <1>2, PlainPoint
<1>4. s.g_r = Mont(s.multiples[1], s.p)
  BY DEF IsCurve
<1>5. s.g_r = Mont(Point(1, s), s.p)
  BY <1>3, <1>4
<1>6. QED
  BY <1>2, <1>3, <1>5 DEF Mont, E

(* What signing is to give, of the key, the nonce and the message.        *)
Signed(ok, x2, y2, key, k, message, s) ==
  LET n == s.n.p
      r == s.multiples[k][1] % n
  IN  IF r = 0 \/ (message + r * key) % n = 0 THEN ~ok
      ELSE ok /\ Valid(key, x2, y2, message, s)

(* From the s of a signature back to the nonce. *)
MadeOf(ss, a, k, v, i, p) ==
  Congruent(k * v, 1, p) /\ Congruent(ss, v * a, p) /\ Congruent(i * ss, 1, p)
GivesBack(i, a, k, p) == Congruent(i * a, k, p)
LEMMA SignRing ==
  ASSUME NEW i \in Int, NEW a \in Int, NEW k \in Int, NEW v \in Int, NEW ss \in Int,
         NEW p \in Nat, MadeOf(ss, a, k, v, i, p)
  PROVE  GivesBack(i, a, k, p)
<1>1. PICK kv \in Int, va \in Int, is \in Int, ia \in Int :
        kv = k * v /\ va = v * a /\ is = i * ss /\ ia = i * a
  OBVIOUS
<1>2. Congruent(kv, 1, p) /\ Congruent(ss, va, p) /\ Congruent(is, 1, p)
  BY <1>1 DEF MadeOf
<1>3. PICK o \in Int : o = 1 /\ o * ia = ia /\ k * o = k
  OBVIOUS
<1>4. Congruent(kv * ia, o * ia, p)
  BY <1>2, <1>3, CongruentScale
<1>5. Congruent(k * is, k * o, p)
  BY <1>2, <1>3, CongruentScale
<1>6. PICK ki \in Int : ki = k * i
  OBVIOUS
<1>7. Congruent(ki * ss, ki * va, p)
  BY <1>2, CongruentScale
<1>8. PICK x \in Int, y \in Int, z \in Int : x = kv * ia /\ y = ki * va /\ z = ki * ss
  OBVIOUS
<1>9. x = y /\ z = k * is
  BY <1>1, <1>6, <1>8
<1>10. Congruent(x, ia, p)
  BY <1>3, <1>4, <1>8
<1>11. Congruent(z, k, p) /\ Congruent(z, x, p)
  BY <1>3, <1>5, <1>7, <1>8, <1>9
<1>12. Congruent(ia, x, p) /\ Congruent(x, z, p)
  BY <1>8, <1>10, <1>11, <1>1, CongruentBack
<1>13. Congruent(ia, k, p)
  BY <1>1, <1>8, <1>11, <1>12, CongruentThrough
<1>14. QED
  BY <1>1, <1>13 DEF GivesBack

(* Zero, quasi-reduced: as large as the prime; and anything else. *)
LEMMA QuasiRest ==
  ASSUME NEW m, Montgomery(m), NEW a \in Int
  PROVE  /\ Q(a, m) = m.p <=> a % m.p = 0
         /\ a % m.p # 0 => Q(a, m) = a % m.p /\ Q(a, m) \in 1 .. m.p - 1
<1>1. PICK p \in Nat \ {0} : p = m.p
  BY DEF Montgomery
<1>2. PICK q \in 1 .. p : q = Q(a, m) /\ Congruent(q, a, p)
  BY <1>1, QIs
<1>3. q \in Int /\ q % p = a % p
  BY <1>1, <1>2, CongruentHasRest
<1>4. CASE q = p
  <2>1. q % p = 0
    <3>1. (1 * p + 0) % p = 0
      BY <1>1, WholeQuotient
    <3>2. 1 * p + 0 = p
      BY <1>1
    <3>3. QED
      BY <1>4, <3>1, <3>2, Zenon
  <2>2. QED
    BY <1>1, <1>2, <1>3, <1>4, <2>1
<1>5. CASE q # p
  BY <1>1, <1>2, <1>5, <1>3, Below
<1>6. QED
  BY <1>4, <1>5

(* The two parts of a signature, as they are computed. *)
Parts(x, r, ss, s) ==
  LET n == s.n
      t5 == mod_add(mont_mult(r, mont_convert(x.u2, n), n), x.u1, n)
  IN  r = mod_reduce(x.x1, n) /\ ss = mont_mult(t5, mod_inv_r(mont_convert(x.k, n), n), n)

IsMade(v, a, r, ss, K, d, e, n) ==
  ss = Q(v * a, n) /\ Congruent(K * v, 1, n.p) /\ a = e + r * d
LEMMA PartsAre ==
  ASSUME NEW s, IsCurve(s), NEW n, n = s.n, NEW K \in 1 .. n.p - 1, NEW d \in Int, NEW e \in Int,
         NEW X \in Int, NEW x, x.x1 = X, x.k = K, x.u1 = Q(e, n), x.u2 = d,
         NEW r, NEW ss, Parts(x, r, ss, s)
  PROVE  r = Q(X, n) /\ \E v, a \in Int : IsMade(v, a, r, ss, K, d, e, n)
<1>1. Montgomery(n) /\ n.p \in Nat
  BY CurveIs
<1>2. r = Q(X, n) /\ r \in Int
  BY <1>1, QIs DEF Parts, mod_reduce
<1>3. K \in Int /\ ~Congruent(K, 0, n.p)
  BY PlainPoint DEF Zero
<1>4. PICK v \in Int : Congruent(K * v, 1, n.p)
  BY <1>1, <1>3, Invertible
<1>5. mod_inv_r(mont_convert(x.k, n), n) = E(v, n)
  BY <1>1, <1>3, <1>4, EConvert, EInverse
<1>6. PICK dr \in Int, a \in Int : dr = d * r /\ a = e + r * d /\ a = dr + e
  BY <1>2
<1>7. mod_add(mont_mult(r, mont_convert(x.u2, n), n), x.u1, n) = Q(a, n)
  <2>1. mont_convert(d, n) = E(d, n)
    BY <1>1, EConvert
  <2>2. mont_mult(r, E(d, n), n) = Q(dr, n)
    BY <1>1, <1>2, <1>6, EPlain
  <2>3. Q(Q(dr, n) + Q(e, n), n) = Q(dr + e, n)
    BY <1>1, QPlus
  <2>4. QED
    BY <1>6, <2>1, <2>2, <2>3 DEF mod_add
<1>8. mont_mult(Q(a, n), E(v, n), n) = Q(v * a, n)
  <2>1. PICK b \in Int : b = Q(a, n) /\ Congruent(b, a, n.p)
    BY <1>1, QIs
  <2>2. mont_mult(b, E(v, n), n) = Q(v * b, n)
    BY <1>1, <2>1, EPlain
  <2>3. Congruent(v * b, v * a, n.p) /\ v * b \in Int /\ v * a \in Int
    BY <2>1, <1>1, CongruentScale
  <2>4. Q(v * b, n) = Q(v * a, n)
    BY <1>1, <2>3, QSame
  <2>5. QED
    BY <2>1, <2>2, <2>4
<1>9. ss = Q(v * a, n)
  BY <1>5, <1>7, <1>8 DEF Parts
<1>10. IsMade(v, a, r, ss, K, d, e, n)
  BY <1>4, <1>6, <1>9 DEF IsMade
<1>11. QED
  BY <1>2, <1>10

NoPartZero(ok, r, ss, s) == ok <=> ~(r = s.n.p \/ ss = s.n.p)
(* What is computed is a signature, unless a part of it is zero. *)
LEMMA PartsSign ==
  ASSUME NEW s, IsCurve(s), NEW K \in 1 .. s.n.p - 1, NEW d \in Int, NEW e \in Int,
         NEW X \in Int, X = s.multiples[K][1],
         NEW r, r = Q(X, s.n), NEW v \in Int, NEW a \in Int, NEW ss, IsMade(v, a, r, ss, K, d, e, s.n),
         NEW ok \in BOOLEAN, NoPartZero(ok, r, ss, s)
  PROVE  Signed(ok, r, ss, d, K, e, s)
<1>0. a = e + r * d /\ Congruent(K * v, 1, s.n.p) /\ ss = Q(v * a, s.n)
  BY DEF IsMade
<1>1. PICK n : n = s.n /\ Montgomery(n) /\ n.p \in Nat \ {0} /\ n.p > 3
  BY CurveIs DEF Montgomery
<1>2. PICK p \in Nat \ {0} : p = n.p /\ p = s.n.p /\ p > 3
  BY <1>1
<1>3. r \in 1 .. p /\ r \in Int
  BY <1>1, <1>2, QIs
<1>4. r = p <=> X % p = 0
  BY <1>1, <1>2, QuasiRest
<1>5. PICK va \in Int : va = v * a
  OBVIOUS
<1>6. ss = Q(va, n) /\ (ss = p <=> va % p = 0)
  BY <1>0, <1>1, <1>2, <1>5, QuasiRest
<1>7. K \in Int /\ ~Congruent(K, 0, p) /\ ~Congruent(v, 0, p)
  BY <1>1, <1>2, <1>0, PlainPoint, EInverse DEF Zero
<1>8. va % p = 0 <=> a % p = 0
  <2>0. 0 % p = 0
    BY <1>1, <1>2, Below
  <2>1. ASSUME a % p = 0 PROVE va % p = 0
    <3>1. Congruent(a, 0, p)
      BY <2>0, <2>1, RestCongruent
    <3>2. PICK o \in Int : o = 0 /\ v * o = o
      OBVIOUS
    <3>3. Congruent(v * a, v * o, p)
      BY <3>1, <3>2, CongruentScale
    <3>4. Congruent(va, o, p)
      BY <1>5, <3>2, <3>3
    <3>5. va % p = o % p
      BY <3>4, CongruentHasRest
    <3>6. QED
      BY <2>0, <3>2, <3>5
  <2>2. ASSUME va % p = 0 PROVE a % p = 0
    <3>1. Congruent(va, 0, p)
      BY <2>0, <2>2, RestCongruent
    <3>2. Congruent(a, 0, p)
      <4> SUFFICES ASSUME ~Congruent(a, 0, p) PROVE FALSE
        OBVIOUS
      <4>1. ~Congruent(v * a, 0, n.p)
        BY <1>1, <1>2, <1>7, NotZero
      <4>2. QED
        BY <1>2, <1>5, <3>1, <4>1
    <3>3. QED
      BY <2>0, <3>2, CongruentHasRest
  <2>3. QED
    BY <2>1, <2>2
<1>9. PICK rr \in Nat, b \in Int : rr = X % p /\ b = e + rr * d /\ rr < p
  <2>1. PICK rr \in Nat : rr = X % p /\ rr < p
    BY WholeDivision
  <2>2. e + rr * d \in Int
    OBVIOUS
  <2>3. QED
    BY <2>1, <2>2
<1>10. Signed(ok, r, ss, d, K, e, s) <=>
         IF rr = 0 \/ b % p = 0 THEN ~ok ELSE ok /\ Valid(d, r, ss, e, s)
  BY <1>2, <1>9 DEF Signed
<1>11. CASE rr = 0
  BY <1>2, <1>4, <1>9, <1>11, <1>10 DEF NoPartZero
<1>12. CASE rr # 0
  <2>1. r = rr /\ r \in 1 .. p - 1 /\ r # p
    BY <1>1, <1>2, <1>9, <1>12, QuasiRest
  <2>2. b = a
    BY <1>0, <1>9, <2>1
  <2>3. ok <=> ~(b % p = 0)
    BY <1>2, <1>6, <1>8, <2>1, <2>2 DEF NoPartZero
  <2>4. CASE b % p = 0
    BY <1>10, <2>3, <2>4
  <2>5. CASE b % p # 0
    <3>1. va % p # 0
      BY <1>8, <2>2, <2>5
    <3>2. ss \in 1 .. p - 1 /\ ss = va % p /\ ss # p /\ ss \in Int
      BY <1>1, <1>2, <1>6, <3>1, QuasiRest
    <3>3. Congruent(ss, va, p)
      BY <1>1, <1>2, <1>6, QIs
    <3>4. ~Congruent(ss, 0, p)
      <4> SUFFICES ASSUME Congruent(ss, 0, p) PROVE FALSE
        OBVIOUS
      <4>1. ss % p = 0 % p /\ ss % p = ss /\ 0 % p = 0
        BY <3>2, CongruentHasRest, Below
      <4>2. QED
        BY <3>2, <4>1
    <3>5. PICK i \in Int : i = Inv(ss, p) /\ Congruent(i * ss, 1, p)
      BY <1>1, <1>2, <3>2, <3>4, InverseIs
    <3>6. Congruent(i * a, K, p)
      <4>1. Congruent(ss, v * a, p)
        BY <1>5, <3>3
      <4>2. K \in Int /\ ss \in Int /\ p \in Nat
        BY <1>2, <1>7, <3>2
      <4>3. MadeOf(ss, a, K, v, i, p)
        BY <1>0, <1>2, <3>5, <4>1 DEF MadeOf
      <4>4. GivesBack(i, a, K, p)
        BY <3>5, <4>2, <4>3, SignRing
      <4>5. QED
        BY <4>4 DEF GivesBack
    <3>7. (i * a) % p = K
      <4>1. PICK ia \in Int : ia = i * a
        OBVIOUS
      <4>2. ia % p = K % p
        BY <1>7, <3>6, <4>1, CongruentHasRest
      <4>3. K % p = K
        BY <1>2, Below
      <4>4. QED
        BY <4>1, <4>2, <4>3
    <3>8. Valid(d, r, ss, e, s)
      <4>1. PICK x : x = (Inv(ss, p) * (e + r * d)) % p
        OBVIOUS
      <4>2. x = K
        BY <1>0, <3>5, <3>7, <4>1
      <4>3. x # 0 /\ s.multiples[x][1] % p = r
        BY <1>2, <1>9, <2>1, <4>2
      <4>4. Valid(d, r, ss, e, s) <=>
              /\ r \in 1 .. p - 1 /\ ss \in 1 .. p - 1 /\ x # 0 /\ s.multiples[x][1] % p = r
        BY <1>2, <4>1 DEF Valid
      <4>5. QED
        BY <2>1, <3>2, <4>3, <4>4
    <3>9. ok
      BY <2>3, <2>5
    <3>10. QED
      BY <1>10, <1>12, <2>5, <3>8, <3>9
  <2>6. QED
    BY <2>4, <2>5
<1>13. QED
  BY <1>11, <1>12

IsSigning(u, x, s) ==
  /\ Parts(x, u.c.x2, u.c.y2, s) /\ u.done = TRUE /\ u.failed \in BOOLEAN
  /\ u.failed <=> (u.c.x2 = s.n.p \/ u.c.y2 = s.n.p)
LEMMA SignInvertParts ==
  ASSUME NEW s, NEW x \in Context, NEW u, u = SignInvert(x, s)
  PROVE  IsSigning(u, x, s)
<1>1. PICK n : n = s.n
  OBVIOUS
<1>2. PICK r, ss : Parts(x, r, ss, s)
  BY DEF Parts
<1>3. PICK st : st = [x.state EXCEPT !.stage = SIGN_DONE]
  OBVIOUS
<1>4. PICK failed \in BOOLEAN : failed <=> (r = n.p \/ ss = n.p)
  OBVIOUS
<1>41. failed = (r = n.p \/ ss = n.p)
  BY <1>4, Zenon
<1>5. u = [c |-> Saved([x EXCEPT !.x2 = r, !.y2 = ss], st), done |-> TRUE, failed |-> failed]
  <2>1. /\ r = mod_reduce(x.x1, n)
        /\ ss = mont_mult(mod_add(mont_mult(r, mont_convert(x.u2, n), n), x.u1, n),
                          mod_inv_r(mont_convert(x.k, n), n), n)
    BY <1>1, <1>2 DEF Parts
  <2>2. SignInvert(x, s) =
          [c |-> Saved([x EXCEPT !.x2 = r, !.y2 = ss], [x.state EXCEPT !.stage = SIGN_DONE]),
           done |-> TRUE, failed |-> (r = n.p \/ ss = n.p)]
    BY <1>1, <2>1, Zenon DEF SignInvert
  <2>3. QED
    BY <1>3, <1>41, <2>2, Zenon
<1>6. PICK w : w = [x EXCEPT !.x2 = r, !.y2 = ss]
  OBVIOUS
<1>7. w.x2 = r /\ w.y2 = ss
  BY <1>6 DEF Context
<1>8. PICK v : v = Saved(w, st)
  OBVIOUS
<1>9. v.x2 = r /\ v.y2 = ss
  <2>1. v = [w EXCEPT !.state = st, !.t5 = Lost, !.t6 = Lost]
    BY <1>8 DEF Saved
  <2>2. v.x2 = w.x2 /\ v.y2 = w.y2
    BY <1>6, <2>1 DEF Context
  <2>3. QED
    BY <1>7, <2>2
<1>10. u.c = v /\ u.done = TRUE /\ u.failed = failed
  BY <1>5, <1>6, <1>8
<1>11. Parts(x, u.c.x2, u.c.y2, s)
  BY <1>2, <1>9, <1>10
<1>12. u.failed <=> (u.c.x2 = s.n.p \/ u.c.y2 = s.n.p)
  BY <1>1, <1>4, <1>9, <1>10
<1>13. QED
  BY <1>10, <1>11, <1>12 DEF IsSigning

(* The message and the key, where they wait for the ladder. *)
Holding(x, d, e, s) == x.u1 = Q(e, s.n) /\ x.u2 = d
LEMMA SigningIs ==
  ASSUME NEW s, IsCurve(s), NEW K \in 1 .. s.n.p - 1, NEW d \in Int, NEW e \in Int,
         NEW x, Multiplied(x, 1, K, s), Holding(x, d, e, s), s.multiples[K][1] # 0,
         NEW u, u = SignInvert(x, s), NEW ok \in BOOLEAN, ok <=> ~u.failed
  PROVE  Signed(ok, u.c.x2, u.c.y2, d, K, e, s)
<1>1. x \in Context /\ IsPoint(x.x1, x.y1, K * 1, s) /\ x.x1 \in 1 .. s.p.p
  BY DEF Multiplied
<1>2. PICK p \in Nat \ {0} : p = s.p.p
  BY CurveIs
<1>3. K \in Int /\ K * 1 = K /\ Point(K, s) = s.multiples[K] /\ ~Zero(K, s)
  BY PlainPoint
<1>4. x.k = K
  BY GeneratorIs, PlainPoint DEF IsCurve, Multiplied
<1>5. PICK X \in 0 .. p - 1 : X = s.multiples[K][1]
  BY <1>2, <1>3, PointIs
<1>6. X \in Int /\ X # 0
  BY <1>2, <1>5
<1>7. x.x1 = X
  <2>1. PICK y \in 1 .. p : y = x.x1
    BY <1>1, <1>2
  <2>2. y % p = X
    BY <1>1, <1>3, <1>2, <1>5, <2>1 DEF IsPoint, Point
  <2>3. y # p
    <3> SUFFICES ASSUME y = p PROVE FALSE
      OBVIOUS
    <3>1. (1 * p + 0) % p = 0
      BY WholeQuotient
    <3>2. 1 * p + 0 = p
      OBVIOUS
    <3>3. p % p = 0
      BY <3>1, <3>2, Zenon
    <3>4. QED
      BY <1>6, <2>2, <3>3
  <2>4. y \in Nat /\ y < p
    BY <2>3
  <2>5. y % p = y
    BY <2>4, Below
  <2>6. QED
    BY <2>1, <2>2, <2>5
<1>8. IsSigning(u, x, s)
  BY <1>1, SignInvertParts
<1>9. PICK r, ss : r = u.c.x2 /\ ss = u.c.y2 /\ Parts(x, r, ss, s)
  BY <1>8 DEF IsSigning
<1>10. PICK n : n = s.n
  OBVIOUS
<1>11. x.u1 = Q(e, n) /\ x.u2 = d /\ K \in 1 .. n.p - 1
  BY <1>10 DEF Holding
<1>12. r = Q(X, n) /\ \E v, a \in Int : IsMade(v, a, r, ss, K, d, e, n)
  BY <1>4, <1>6, <1>7, <1>9, <1>10, <1>11, PartsAre
<1>13. PICK v \in Int, a \in Int : IsMade(v, a, r, ss, K, d, e, s.n)
  BY <1>10, <1>12
<1>14. NoPartZero(ok, r, ss, s)
  BY <1>8, <1>9 DEF IsSigning, NoPartZero
<1>15. Signed(ok, r, ss, d, K, e, s)
  BY <1>10, <1>12, <1>5, <1>6, <1>13, <1>14, PartsSign
<1>16. QED
  BY <1>9, <1>15

SignGiven(t, s) ==
  /\ IsCurve(s) /\ t.point \in Int /\ t.message \in Int
  /\ t.k \in 1 .. s.n.p - 1 /\ t.z \in 1 .. s.p.p - 1
LEMMA SignTask ==
  ASSUME NEW t \in Tasks, t.kind = "sign", NEW s, s = Curves[t.curve]
  PROVE  SignGiven(t, s)
<1>1. IsCurve(s) /\ IsTask(t, s)
  BY TaskIs
<1>2. /\ t.point \in 1 .. s.n.p - 1 /\ t.k \in 1 .. s.n.p - 1
      /\ t.message \in 0 .. TwoTo[s.bits] - 1 /\ t.z \in 1 .. s.p.p - 1
  BY <1>1 DEF IsTask
<1>3. s.n.p \in Nat /\ TwoTo[s.bits] \in Nat
  BY <1>1, CurveIs, Radix
<1>4. t.point \in Int /\ t.message \in Int
  BY <1>2, <1>3
<1>5. QED
  BY <1>1, <1>2, <1>4 DEF SignGiven

LEMMA SignAsked ==
  ASSUME NEW t \in Tasks, t.kind = "sign", NEW s, s = Curves[t.curve],
         NEW x, x = Asked(t),
         NEW y, y = [x EXCEPT !.px = s.g_r[1], !.py = s.g_r[2], !.state = FreshState("sign")]
  PROVE  Prepared(y, 1, t.k, s) /\ Holding(y, t.point, t.message, s)
<1>1. /\ IsCurve(s) /\ t.point \in Int /\ t.message \in Int
      /\ t.k \in 1 .. s.n.p - 1 /\ t.z \in 1 .. s.p.p - 1
  BY SignTask DEF SignGiven
<1>2. Montgomery(s.p) /\ Montgomery(s.n) /\ s.n.p \in Nat /\ s.p.p \in Nat
  BY <1>1, CurveIs
<1>3. PICK k \in Int, z \in Int, d \in Int : k = t.k /\ z = t.z /\ d = t.point
  BY <1>1, <1>2
<1>4. PICK e \in Int : e = Q(t.message, s.n)
  BY <1>1, <1>2, QIs
<1>5. x = [Blank EXCEPT !.k = k, !.z = z, !.u2 = d, !.u1 = e]
  BY <1>3, <1>4 DEF Asked, mod_reduce
<1>6. x \in Context
  BY <1>5, BlankIs DEF Context
<1>7. x.k = k /\ x.z = z /\ x.u2 = d /\ x.u1 = e
  BY <1>5, BlankIs DEF Context
<1>8. PICK st : st = FreshState("sign") /\ st \in States /\ st.swap = 0
  BY FreshIs DEF Operations
<1>9. PICK px \in Int, py \in Int :
        /\ px = s.g_r[1] /\ px = E(Point(1, s)[1], s.p)
        /\ py = s.g_r[2] /\ py = E(Point(1, s)[2], s.p)
  BY <1>1, <1>2, GeneratorIs, PointIs, EIs DEF IsPair
<1>10. y = [x EXCEPT !.px = px, !.py = py, !.state = st]
  BY <1>8, <1>9
<1>11. y \in Context
  BY <1>6, <1>8, <1>10 DEF Context
<1>12. /\ y.k = x.k /\ y.z = x.z /\ y.u2 = x.u2 /\ y.u1 = x.u1
       /\ y.px = px /\ y.py = py /\ y.state = st
  BY <1>6, <1>10 DEF Context
<1>13. Prepared(y, 1, t.k, s)
  BY <1>1, <1>3, <1>7, <1>8, <1>9, <1>11, <1>12 DEF Prepared
<1>14. Holding(y, t.point, t.message, s)
  BY <1>3, <1>4, <1>7, <1>12 DEF Holding
<1>15. QED
  BY <1>13, <1>14

(* Signing, from call to call. *)
Signing(x, t, s) ==
  /\ Holding(x, t.point, t.message, s)
  /\ Multiplying(x, 1, t.k, s) \/ Multiplied(x, 1, t.k, s)
SignedWell(ok, x, t, s) ==
  s.multiples[t.k][1] # 0 => Signed(ok, x.x2, x.y2, t.point, t.k, t.message, s)

LEMMA SignStartIs ==
  ASSUME NEW t \in Tasks, t.kind = "sign", NEW s, s = Curves[t.curve],
         NEW u, u = sb_sw_sign_start(Asked(t), s)
  PROVE  Signing(u, t, s)
<1>1. PICK x : x = Asked(t)
  OBVIOUS
<1>2. PICK y : y = [x EXCEPT !.px = s.g_r[1], !.py = s.g_r[2], !.state = FreshState("sign")]
  OBVIOUS
<1>3. u = sb_sw_point_mult_start(y, s)
  BY <1>1, <1>2 DEF sb_sw_sign_start
<1>4. Prepared(y, 1, t.k, s) /\ Holding(y, t.point, t.message, s)
  BY <1>1, <1>2, SignAsked
<1>5. IsCurve(s) /\ t.k \in 1 .. s.n.p - 1
  BY SignTask DEF SignGiven
<1>6. ~Zero(1, s) /\ 1 \in Int
  BY <1>5, GeneratorIs
<1>7. Multiplying(u, 1, t.k, s) /\ Spared(u, y)
  BY <1>3, <1>4, <1>5, <1>6, StartMultiplies
<1>8. Holding(u, t.point, t.message, s)
  BY <1>4, <1>7 DEF Holding, Spared
<1>9. QED
  BY <1>7, <1>8 DEF Signing

LEMMA SignContinueIs ==
  ASSUME NEW t \in Tasks, t.kind = "sign", NEW s, s = Curves[t.curve],
         NEW x, Signing(x, t, s), NEW u, u = sb_sw_sign_continue(x, s),
         NEW ok \in BOOLEAN, ok <=> ~u.failed
  PROVE  \/ u.done = FALSE /\ Signing(u.c, t, s)
         \/ u.done = TRUE /\ SignedWell(ok, u.c, t, s)
<1>1. /\ IsCurve(s) /\ t.point \in Int /\ t.message \in Int
      /\ t.k \in 1 .. s.n.p - 1 /\ POINT_ITERATIONS \in Nat \ {0}
  BY SignTask, PointAssumption DEF SignGiven
<1>2. t.k \in Int
  BY <1>1, PlainPoint
<1>3. Holding(x, t.point, t.message, s)
  BY DEF Signing
<1>4. CASE Multiplying(x, 1, t.k, s)
  <2>1. PICK r : r = sb_sw_point_mult_continue(x, s)
    OBVIOUS
  <2>2. u = [c |-> r.c, done |-> FALSE, failed |-> FALSE]
    <3>1. x.state.stage = LADDER \/ x.state.stage = INV_Z
      BY <1>4 DEF Multiplying
    <3>2. x.state.stage # SIGN_DONE /\ x.state.stage # SIGN_INV
      BY <3>1 DEF LADDER, INV_Z, SIGN_DONE, SIGN_INV, MULT_DONE
    <3>3. QED
      BY <2>1, <3>2 DEF sb_sw_sign_continue
  <2>3. /\ Spared(r.c, x)
        /\ \/ r.done = FALSE /\ Multiplying(r.c, 1, t.k, s)
           \/ r.done = TRUE /\ Multiplied(r.c, 1, t.k, s)
    <3>1. PICK J \in Int, K \in Int : J = 1 /\ K = t.k
      BY <1>2
    <3>2. Multiplying(x, J, K, s)
      BY <1>4, <3>1
    <3>3. /\ Spared(r.c, x)
          /\ \/ r.done = FALSE /\ Multiplying(r.c, J, K, s)
             \/ r.done = TRUE /\ Multiplied(r.c, J, K, s)
      BY <1>1, <2>1, <3>2, ContinueIs
    <3>4. QED
      BY <3>1, <3>3
  <2>4. Holding(r.c, t.point, t.message, s)
    BY <1>3, <2>3 DEF Holding, Spared
  <2>5. Signing(r.c, t, s)
    BY <2>3, <2>4 DEF Signing
  <2>6. u.c = r.c /\ u.done = FALSE
    BY <2>2
  <2>7. QED
    BY <2>5, <2>6
<1>5. CASE Multiplied(x, 1, t.k, s)
  <2>1. x \in Context /\ x.state.stage = SIGN_INV /\ x.state.stage # SIGN_DONE
    BY <1>5 DEF Multiplied, SIGN_INV, SIGN_DONE, MULT_DONE
  <2>2. u = SignInvert(x, s)
    BY <2>1 DEF sb_sw_sign_continue
  <2>3. u.done = TRUE
    BY <2>1, <2>2, SignInvertParts DEF IsSigning
  <2>4. SignedWell(ok, u.c, t, s)
    <3> SUFFICES ASSUME s.multiples[t.k][1] # 0
                 PROVE  Signed(ok, u.c.x2, u.c.y2, t.point, t.k, t.message, s)
      BY DEF SignedWell
    <3>1. QED
      BY <1>1, <1>3, <1>5, <2>2, SigningIs
  <2>5. QED
    BY <2>3, <2>4
<1>6. QED
  BY <1>4, <1>5 DEF Signing

SignInvariant ==
  /\ task \in Tasks
  /\ task.kind = "sign" =>
       \/ answer.stage = "asked" /\ c = Asked(task)
       \/ answer.stage = "started" /\ Signing(c, task, TaskCurve)
       \/ answer.stage = "done" /\ SignedWell(answer.ok, c, task, TaskCurve)

LEMMA SignStartStep ==
  ASSUME SignInvariant, SignStart
  PROVE  SignInvariant'
<1>1. PICK s, t : s = TaskCurve /\ s = Curves[task.curve] /\ t = task
  BY DEF TaskCurve
<1>2. /\ t \in Tasks /\ task' = t /\ t.kind = "sign" /\ answer.stage = "asked"
      /\ answer'.stage = "started" /\ c' = sb_sw_sign_start(c, s)
  BY <1>1 DEF SignStart, Going, SignInvariant
<1>3. c = Asked(t)
  BY <1>1, <1>2 DEF SignInvariant
<1>4. PICK u : u = c' /\ u = sb_sw_sign_start(Asked(t), s)
  BY <1>2, <1>3
<1>5. Signing(u, t, s)
  BY <1>1, <1>2, <1>4, SignStartIs
<1>6. TaskCurve' = s
  BY <1>1, <1>2 DEF TaskCurve
<1>7. Signing(c, task, TaskCurve)'
  BY <1>2, <1>4, <1>5, <1>6
<1>8. QED
  BY <1>1, <1>2, <1>7 DEF SignInvariant

LEMMA SignContinueStep ==
  ASSUME SignInvariant, SignContinue
  PROVE  SignInvariant'
<1>1. PICK s, t : s = TaskCurve /\ s = Curves[task.curve] /\ t = task
  BY DEF TaskCurve
<1>2. PICK x, u : x = c /\ u = sb_sw_sign_continue(x, s)
  OBVIOUS
<1>3. /\ t \in Tasks /\ task' = t /\ t.kind = "sign" /\ answer.stage = "started"
      /\ answer' = [stage |-> IF u.done THEN "done" ELSE "started", ok |-> ~u.failed] /\ c' = u.c
  BY <1>1, <1>2 DEF SignContinue, Going, SignInvariant
<1>4. PICK ok \in BOOLEAN : ok <=> ~u.failed
  OBVIOUS
<1>5. answer'.stage = (IF u.done THEN "done" ELSE "started") /\ answer'.ok = ~u.failed
  BY <1>3
<1>6. Signing(x, t, s)
  BY <1>1, <1>2, <1>3 DEF SignInvariant
<1>7. \/ u.done = FALSE /\ Signing(u.c, t, s)
      \/ u.done = TRUE /\ SignedWell(ok, u.c, t, s)
  BY <1>1, <1>2, <1>3, <1>4, <1>6, SignContinueIs
<1>8. TaskCurve' = s
  BY <1>1, <1>3 DEF TaskCurve
<1>9. CASE u.done = FALSE /\ Signing(u.c, t, s)
  BY <1>3, <1>5, <1>8, <1>9 DEF SignInvariant
<1>10. CASE u.done = TRUE /\ SignedWell(ok, u.c, t, s)
  BY <1>5, <1>10, <1>4, <1>3, <1>8 DEF SignedWell, Signed, SignInvariant
<1>11. QED
  BY <1>7, <1>9, <1>10

(* A signature is refused just when a part of it is zero, and is otherwise *)
(* valid for the public key of the private one, when the point of the      *)
(* nonce does not have x = 0.                                              *)
THEOREM SignaturesValid == Spec => []SignsValidly
<1>1. Init => SignInvariant
  BY DEF Init, SignInvariant
<1>2. SignInvariant /\ [Next]_vars => SignInvariant'
  <2> SUFFICES ASSUME SignInvariant, [Next]_vars PROVE SignInvariant'
    OBVIOUS
  <2>1. CASE UNCHANGED vars
    BY <2>1 DEF vars, SignInvariant, TaskCurve
  <2>2. CASE SignStart \/ SignContinue
    BY <2>2, SignStartStep, SignContinueStep
  <2>3. CASE \/ MultiplyStart \/ MultiplyContinue \/ VerifyStart \/ VerifyContinue
             \/ Validate \/ Decompress \/ PickZ \/ PickK
    <3>1. task' = task /\ task.kind # "sign"
      BY <2>3 DEF MultiplyStart, MultiplyContinue, VerifyStart, VerifyContinue,
                  Validate, Decompress, PickZ, PickK, Going
    <3>2. QED
      BY <3>1 DEF SignInvariant
  <2>4. QED
    BY <2>1, <2>2, <2>3 DEF Next
<1>3. SignInvariant => SignsValidly
  <2> SUFFICES ASSUME SignInvariant, task.kind = "sign", answer.stage = "done",
                      TaskCurve.multiples[task.k][1] # 0
               PROVE  LET n == TaskCurve.n.p
                          r == TaskCurve.multiples[task.k][1] % n
                      IN  IF r = 0 \/ (task.message + r * task.point) % n = 0 THEN ~answer.ok
                          ELSE answer.ok /\ Valid(task.point, c.x2, c.y2, task.message, TaskCurve)
    BY DEF SignsValidly
  <2>1. SignedWell(answer.ok, c, task, TaskCurve)
    BY DEF SignInvariant
  <2>2. Signed(answer.ok, c.x2, c.y2, task.point, task.k, task.message, TaskCurve)
    BY <2>1 DEF SignedWell
  <2>3. QED
    BY <2>2, Zenon DEF Signed
<1>4. QED
  BY <1>1, <1>2, <1>3, PTL DEF Spec

--------------------------------------------------------------------------------
(* Two scalars: the registers with their Z in z.                           *)
HasZ(x, Z, s) == x.z = E(Z, s.p)
TwoPoints(x, i, j, s) ==
  \E Z : /\ Unit(Z, s) /\ HasZ(x, Z, s)
         /\ First(x, Point(i, s), Z, s.p) /\ Second(x, Point(j, s), Z, s.p)

LEMMA AddZStep ==
  ASSUME NEW s, IsCurve(s), NEW i \in Int, NEW j \in Int, Differ(i, j, s),
         NEW x \in Context, TwoPoints(x, i, j, s),
         NEW u, u = sb_sw_point_mult_add_z_update(x, s)
  PROVE  u \in Context /\ Keeps(u, x) /\ TwoPoints(u, i + j, i, s)
<1>0. PICK Z : /\ Unit(Z, s) /\ HasZ(x, Z, s)
               /\ First(x, Point(i, s), Z, s.p) /\ Second(x, Point(j, s), Z, s.p)
  BY DEF TwoPoints
<1>1. PICK W \in Int, d \in Int :
        /\ Unit(W, s) /\ d = (Point(j, s)[1] - Point(i, s)[1]) * (Z * Z) /\ W = Z * d
  BY <1>0, WideUnit DEF Unit
<1>2. ~Zero(i + j, s) /\ Adds(Point(i + j, s), Point(i, s), Point(j, s), s.p.p)
  BY Chord DEF Differ
<1>3. i + j \in Int
  OBVIOUS
<1>4. IsPair(Point(i, s)) /\ IsPair(Point(j, s)) /\ IsPair(Point(i + j, s))
  BY <1>2, <1>3, PointIs DEF Differ
<1>5. PICK m, P, P2, R : m = s.p /\ P = Point(i, s) /\ P2 = Point(j, s) /\ R = Point(i + j, s)
  OBVIOUS
<1>6. /\ Montgomery(m) /\ IsPair(P) /\ IsPair(P2) /\ IsPair(R) /\ Adds(R, P, P2, m.p)
      /\ First(x, P, Z, m) /\ Second(x, P2, Z, m) /\ d = (P2[1] - P[1]) * (Z * Z) /\ Z \in Int
  BY <1>0, <1>1, <1>2, <1>4, <1>5, CurveIs DEF Unit
<1>7. PICK x1 \in Int, x2 \in Int, zz \in Int : x1 = P[1] /\ x2 = P2[1] /\ zz = Z * Z
  BY <1>6 DEF IsPair
<1>8. PICK a \in Int, b \in Int : a = x1 * zz /\ b = x2 * zz
  OBVIOUS
<1>9. b - a = d
  BY <1>6, <1>7, <1>8
<1>10. mod_sub(E(b, m), E(a, m), m) = E(b - a, m)
  BY <1>6, EAdd
<1>11. mod_sub(x.x2, x.x1, m) = E(d, m)
  BY <1>6, <1>7, <1>8, <1>9, <1>10 DEF First, Second
<1>12. PICK e \in Int, z \in Int : e = E(d, m) /\ z = E(W, m)
  BY <1>6, EIs
<1>13. mont_mult(e, x.z, m) = z
  BY <1>0, <1>5, <1>6, <1>1, <1>12, EMult DEF HasZ
<1>14. PICK y : y = [x EXCEPT !.t6 = e, !.z = z]
  OBVIOUS
<1>15. y \in Context /\ Keeps(y, x) /\ y.z = z /\ y.t6 = e /\ First(y, P, Z, m) /\ Second(y, P2, Z, m)
  BY <1>14, <1>6 DEF Context, Keeps, First, Second
<1>16. u = sb_sw_point_co_z_add_update_zup(y, s)
  BY <1>5, <1>11, <1>12, <1>13, <1>14 DEF sb_sw_point_mult_add_z_update
<1>17. y.t6 = E(d, m)
  BY <1>12, <1>15
<1>18. /\ u \in Context /\ Keeps(u, y) /\ u.z = y.z
       /\ First(u, R, W, m) /\ Second(u, P, W, m)
  BY <1>1, <1>5, <1>6, <1>15, <1>16, <1>17, ZupIs
<1>19. Keeps(u, x)
  BY <1>15, <1>18 DEF Keeps
<1>20. HasZ(u, W, s)
  BY <1>5, <1>12, <1>15, <1>18 DEF HasZ
<1>21. TwoPoints(u, i + j, i, s)
  BY <1>1, <1>5, <1>18, <1>20 DEF TwoPoints
<1>22. QED
  BY <1>18, <1>19, <1>21

(* The second register, with a further factor of its Z. *)
SameFirst(u, x) == u.x1 = x.x1 /\ u.y1 = x.y1 /\ u.z = x.z
LEMMA ApplyZIs ==
  ASSUME NEW s, NEW m, m = s.p, Montgomery(m), NEW x \in Context, NEW P, IsPair(P),
         NEW Z \in Int, NEW f \in Int, NEW V \in Int, V = f * Z,
         Second(x, P, Z, m), HasZ(x, f, s),
         NEW u, u = sb_sw_point_mult_add_apply_z(x, s)
  PROVE  u \in Context /\ Keeps(u, x) /\ SameFirst(u, x) /\ Second(u, P, V, m)
<1>1. PICK ff \in Int, fff \in Int : ff = f * f /\ fff = f * f * f
  OBVIOUS
<1>2. x.z = E(f, m)
  BY DEF HasZ
<1>3. mont_square(x.z, m) = E(ff, m)
  BY <1>1, <1>2, ESquare
<1>4. mont_mult(E(ff, m), x.z, m) = E(fff, m)
  BY <1>1, <1>2, EMult
<1>5. /\ mont_mult(x.x2, E(ff, m), m) = E(P[1] * (V * V), m)
      /\ mont_mult(x.y2, E(fff, m), m) = E(P[2] * (V * V * V), m)
  BY <1>1, ScaleIs DEF IsScaled, Second
<1>6. PICK a \in Int, b \in Int : a = E(P[1] * (V * V), m) /\ b = E(P[2] * (V * V * V), m)
  <2>1. PICK X \in Int, Y \in Int, VV \in Int, VVV \in Int :
          X = P[1] /\ Y = P[2] /\ VV = V * V /\ VVV = V * V * V
    BY DEF IsPair
  <2>2. X * VV \in Int /\ Y * VVV \in Int
    OBVIOUS
  <2>3. E(X * VV, m) \in Int /\ E(Y * VVV, m) \in Int
    BY <2>2, EIs
  <2>4. QED
    BY <2>1, <2>3
<1>7. u = [x EXCEPT !.x2 = a, !.y2 = b]
  BY <1>3, <1>4, <1>5, <1>6 DEF sb_sw_point_mult_add_apply_z
<1>8. u \in Context /\ u.x2 = a /\ u.y2 = b
  BY <1>7 DEF Context
<1>9. Keeps(u, x)
  BY <1>7 DEF Context, Keeps
<1>10. SameFirst(u, x)
  BY <1>7 DEF Context, SameFirst
<1>11. QED
  BY <1>6, <1>8, <1>9, <1>10 DEF Second

(* A point that has no Z yet. *)
Plain(x, P, s) == x.x2 = E(P[1], s.p) /\ x.y2 = E(P[2], s.p)
LEMMA PlainSecond ==
  ASSUME NEW s, NEW x, NEW P, IsPair(P), Plain(x, P, s), NEW o, o = 1
  PROVE  Second(x, P, o, s.p)
<1>1. PICK X \in Int, Y \in Int : X = P[1] /\ Y = P[2]
  BY DEF IsPair
<1>2. X * (o * o) = X /\ Y * (o * o * o) = Y
  OBVIOUS
<1>3. QED
  BY <1>1, <1>2 DEF Second, Plain

(* A point joins the one in the first register. *)
Joined(x, i, s) == \E Z : Unit(Z, s) /\ HasZ(x, Z, s) /\ First(x, Point(i, s), Z, s.p)
LEMMA JoinStep ==
  ASSUME NEW s, IsCurve(s), NEW i \in Int, NEW j \in Int, ~Zero(j, s), NEW x \in Context,
         Joined(x, i, s), Plain(x, Point(j, s), s), NEW u, u = sb_sw_point_mult_add_apply_z(x, s)
  PROVE  u \in Context /\ Keeps(u, x) /\ TwoPoints(u, i, j, s)
<1>1. PICK Z : Unit(Z, s) /\ HasZ(x, Z, s) /\ First(x, Point(i, s), Z, s.p)
  BY DEF Joined
<1>2. PICK o \in Int : o = 1 /\ Z = Z * o /\ Z \in Int
  BY <1>1 DEF Unit
<1>3. IsPair(Point(j, s)) /\ Montgomery(s.p)
  BY PointIs, CurveIs
<1>4. Second(x, Point(j, s), o, s.p)
  BY <1>2, <1>3, PlainSecond
<1>5. u \in Context /\ Keeps(u, x) /\ SameFirst(u, x) /\ Second(u, Point(j, s), Z, s.p)
  BY <1>1, <1>2, <1>3, <1>4, ApplyZIs
<1>6. HasZ(u, Z, s) /\ First(u, Point(i, s), Z, s.p)
  BY <1>1, <1>5 DEF SameFirst, HasZ, First
<1>7. QED
  BY <1>1, <1>5, <1>6 DEF TwoPoints

(* The number of H, and what the curve's constants hold. *)
IsOffset(h, s) ==
  /\ h \in 1 .. s.n.p - 1 /\ Congruent(h * (2 * TwoTo[s.bits] - 1), 1, s.n.p)
  /\ s.h_r[1] = E(Point(h, s)[1], s.p) /\ s.h_r[2] = E(Point(h, s)[2], s.p)
  /\ s.g_h_r[1] = E(Point(h + 1, s)[1], s.p) /\ s.g_h_r[2] = E(Point(h + 1, s)[2], s.p)
LEMMA OffsetIs ==
  ASSUME NEW s, IsCurve(s), NEW h, h = Inv((2 * TwoTo[s.bits] - 1) % s.n.p, s.n.p)
  PROVE  IsOffset(h, s)
<1>1. PICK n \in Nat \ {0} : n = s.n.p /\ n > 3 /\ Montgomery(s.n)
  BY CurveIs
<1>2. PICK o \in Int : o = 2 * TwoTo[s.bits] - 1
  BY CurveIs, Radix
<1>3. PICK g \in 1 .. n - 1 : /\ (g * o) % n = 1 /\ s.h_r = Mont(s.multiples[g], s.p)
                              /\ s.g_h_r = Mont(s.multiples[(g + 1) % n], s.p)
  BY <1>1, <1>2 DEF IsCurve
<1>4. PICK u \in Int : u = o % n /\ Congruent(u, o, n)
  <2>1. PICK u \in Nat : u = o % n /\ u < n
    BY <1>1, <1>2, WholeDivision
  <2>2. u % n = o % n
    BY <1>1, <2>1, Below
  <2>3. Congruent(u, o, n)
    BY <1>1, <1>2, <2>1, <2>2, RestCongruent
  <2>4. QED
    BY <2>1, <2>3
<1>5. PICK gc \in Int, gu \in Int, cg \in Int, ug \in Int :
        gc = g * o /\ gu = g * u /\ cg = o * g /\ ug = u * g /\ gc = cg /\ gu = ug
  BY <1>3
<1>6. Congruent(gc, 1, n)
  BY <1>1, <1>3, <1>5, Below, RestCongruent
<1>7. Congruent(gu, gc, n)
  BY <1>1, <1>3, <1>4, <1>5, CongruentScale
<1>8. Congruent(gu, 1, n)
  BY <1>1, <1>5, <1>6, <1>7, CongruentThrough
<1>9. ~Congruent(u, 0, n)
  <2>1. Congruent(u * g, 1, n)
    BY <1>5, <1>8
  <2>2. g \in Int
    BY <1>3
  <2>3. QED
    BY <1>1, <2>1, <2>2, EInverse
<1>10. h \in 1 .. n - 1 /\ h \in Int /\ Congruent(h * u, 1, n)
  BY <1>1, <1>2, <1>4, <1>9, InverseIs
<1>11. Congruent(h, g, n)
  <2>1. PICK hu \in Int : hu = h * u
    BY <1>10
  <2>2. Congruent(hu, 1, n) /\ Congruent(1, gu, n)
    BY <1>1, <1>5, <1>8, <1>10, <2>1, CongruentBack
  <2>3. Congruent(hu, gu, n)
    BY <1>1, <1>5, <2>1, <2>2, CongruentThrough
  <2>4. g \in Int /\ Congruent(h * u, g * u, n)
    BY <1>3, <1>5, <2>1, <2>3
  <2>5. QED
    BY <1>1, <1>9, <1>10, <2>4, CancelFactor
<1>12. h = g
  BY <1>1, <1>3, <1>10, <1>11, CongruentUnique
<1>13. Point(h, s) = s.multiples[g]
  BY <1>1, <1>10, <1>12, PlainPoint
<1>14. Point(h + 1, s) = s.multiples[(g + 1) % n]
  BY <1>1, <1>12 DEF Point
<1>15. /\ s.h_r[1] = E(Point(h, s)[1], s.p) /\ s.h_r[2] = E(Point(h, s)[2], s.p)
       /\ s.g_h_r[1] = E(Point(h + 1, s)[1], s.p) /\ s.g_h_r[2] = E(Point(h + 1, s)[2], s.p)
  BY <1>3, <1>13, <1>14 DEF Mont, E
<1>16. Congruent(h * o, 1, n)
  BY <1>5, <1>6, <1>12
<1>17. QED
  BY <1>1, <1>2, <1>10, <1>15, <1>16 DEF IsOffset

(* The two scalars of a verification. *)
KeyTimes(r, q, n) == (r * Inv(q, n)) % n
GenTimes(e, q, n) == (e * Inv(q, n) - 1) % n
LEMMA ScalarsInverted ==
  ASSUME NEW s, IsCurve(s), NEW n, n = s.n, NEW r \in 1 .. n.p - 1, NEW q \in 1 .. n.p - 1,
         NEW e \in Nat, e % n.p # 0, NEW sinv, sinv = mod_inv_r(mont_convert(q, n), n)
  PROVE  /\ mont_mult(r, sinv, n) = KeyTimes(r, q, n.p)
         /\ mont_mult(mod_reduce(e, n), sinv, n) = GenTimes(e, q, n.p) + 1
         /\ KeyTimes(r, q, n.p) \in 1 .. n.p - 1 /\ GenTimes(e, q, n.p) \in 0 .. n.p - 2
<1>1. PICK p \in Nat \ {0} : p = n.p /\ p > 3 /\ Montgomery(n)
  BY CurveIs
<1>2. q \in Int /\ r \in Int /\ ~Congruent(q, 0, p) /\ ~Congruent(r, 0, p) /\ ~Congruent(e, 0, p)
  <2>1. ASSUME NEW a \in Int, a % p # 0 PROVE ~Congruent(a, 0, p)
    <3> SUFFICES ASSUME Congruent(a, 0, p) PROVE FALSE
      OBVIOUS
    <3>1. a % p = 0 % p
      BY <1>1, <2>1, CongruentHasRest
    <3>2. 0 % p = 0
      BY <1>1, Below
    <3>3. QED
      BY <2>1, <3>1, <3>2
  <2>2. q % p = q /\ r % p = r
    BY <1>1, Below
  <2>3. q \in Int /\ r \in Int /\ e \in Int /\ q % p # 0 /\ r % p # 0 /\ e % p # 0
    BY <1>1, <2>2
  <2>4. QED
    BY <2>1, <2>3
<1>3. PICK i \in Int : i = Inv(q, p) /\ Congruent(i * q, 1, p)
  BY <1>1, <1>2, InverseIs
<1>4. Congruent(q * i, 1, p)
  BY <1>2, <1>3
<1>5. sinv = E(i, n) /\ ~Congruent(i, 0, p)
  BY <1>1, <1>2, <1>4, EConvert, EInverse
<1>6. ASSUME NEW a \in Int, ~Congruent(a, 0, p)
      PROVE  Q(i * a, n) = (a * i) % p /\ (a * i) % p \in 1 .. p - 1
  <2>1. PICK b \in Int : b = i * a /\ b = a * i
    BY <1>6
  <2>2. ~Congruent(i * a, 0, p)
    BY <1>1, <1>5, <1>6, NotZero
  <2>3. ~Congruent(b, 0, p)
    BY <2>1, <2>2
  <2>4. b % p # 0
    <3> SUFFICES ASSUME b % p = 0 PROVE FALSE
      OBVIOUS
    <3>1. 0 % p = 0
      BY <1>1, Below
    <3>2. Congruent(b, 0, p)
      BY <1>1, <3>1, RestCongruent
    <3>3. QED
      BY <2>3, <3>2
  <2>5. Q(b, n) = b % p /\ Q(b, n) \in 1 .. p - 1
    BY <1>1, <2>4, QuasiRest
  <2>6. QED
    BY <2>1, <2>5
<1>7. mont_mult(r, sinv, n) = Q(i * r, n)
  BY <1>1, <1>2, <1>5, EPlain
<1>8. mont_mult(mod_reduce(e, n), sinv, n) = Q(i * e, n)
  <2>1. PICK f \in Int : f = Q(e, n) /\ Congruent(f, e, p)
    BY <1>1, QIs
  <2>2. mont_mult(f, sinv, n) = Q(i * f, n)
    BY <1>1, <1>5, <2>1, EPlain
  <2>3. i \in Int /\ f \in Int /\ e \in Int /\ p \in Nat
    BY <1>1, <1>3, <2>1
  <2>4. Congruent(i * f, i * e, p)
    BY <2>1, <2>3, CongruentScale
  <2>5. PICK a \in Int, b \in Int : a = i * f /\ b = i * e
    BY <2>3
  <2>6. Q(a, n) = Q(b, n)
    BY <1>1, <2>4, <2>5, QSame
  <2>7. QED
    BY <2>1, <2>2, <2>5, <2>6 DEF mod_reduce
<1>9. PICK a \in Int, w \in 1 .. p - 1 : a = e * i /\ w = a % p /\ Q(i * e, n) = w
  BY <1>2, <1>6, <1>3
<1>10. (a - 1) % p = w - 1
  <2>1. PICK k \in Int : a = k * p + w
    BY <1>1, <1>9, WholeDivision
  <2>2. PICK v \in Nat : v = w - 1 /\ v < p
    BY <1>1
  <2>3. PICK kp \in Int : kp = k * p
    BY <2>1, <1>1
  <2>4. a - 1 = kp + v
    BY <1>9, <2>1, <2>2, <2>3
  <2>5. (k * p + v) % p = v
    BY <1>1, <2>1, <2>2, WholeQuotient
  <2>6. QED
    BY <2>2, <2>3, <2>4, <2>5
<1>11. KeyTimes(r, q, p) = (r * i) % p /\ (r * i) % p \in 1 .. p - 1 /\ Q(i * r, n) = (r * i) % p
  BY <1>2, <1>3, <1>6 DEF KeyTimes
<1>12. GenTimes(e, q, p) = w - 1
  BY <1>3, <1>9, <1>10 DEF GenTimes
<1>13. w - 1 \in 0 .. p - 2 /\ (w - 1) + 1 = w
  BY <1>1
<1>14. QED
  BY <1>1, <1>7, <1>8, <1>9, <1>11, <1>12, <1>13

(* A number of a scalar that is an x, or less by n. *)
LEMMA RestOfX ==
  ASSUME NEW s, IsCurve(s), NEW n, n = s.n.p, NEW p, p = s.p.p,
         NEW X \in 0 .. p - 1, NEW r \in 1 .. n - 1
  PROVE  X % n = r <=> (Congruent(r, X, p) \/ (r < p - n /\ Congruent(r + n, X, p)))
<1>1. n \in Nat /\ p \in Nat /\ n > 3 /\ n < p /\ p < 2 * n /\ p \in Nat \ {0} /\ n \in Nat \ {0}
  <2>1. PICK H \in Nat : H = TwoTo[s.bits - 1] /\ TwoTo[s.bits] = 2 * H
    BY CurveIs, Radix
  <2>2. QED
    BY <2>1, CurveIs
<1>2. Congruent(r, X, p) <=> X = r
  BY <1>1, Reduced, CongruentSame
<1>3. r < p - n => (Congruent(r + n, X, p) <=> X = r + n)
  <2> SUFFICES ASSUME r < p - n PROVE Congruent(r + n, X, p) <=> X = r + n
    OBVIOUS
  <2>1. PICK a \in 0 .. p - 1 : a = r + n
    BY <1>1
  <2>2. Congruent(a, X, p) => X = a
    BY <1>1, <2>1, Reduced
  <2>3. Congruent(a, a, p)
    BY <1>1, <2>1, CongruentSame
  <2>4. QED
    BY <2>1, <2>2, <2>3
<1>4. X % n = IF X < n THEN X ELSE X - n
  <2>1. CASE X < n
    BY <1>1, <2>1, Below
  <2>2. CASE X >= n
    <3>1. PICK a \in Nat, o \in Int : a = X - n /\ a < n /\ o = 1
      <4>1. X - n \in Nat /\ X - n < n
        BY <1>1, <2>2
      <4>2. QED
        BY <4>1
    <3>2. (o * n + a) % n = a
      BY <1>1, <3>1, WholeQuotient
    <3>3. PICK K \in Int : K = o * n + a /\ K = X
      BY <1>1, <3>1
    <3>4. K % n = a
      BY <3>2, <3>3
    <3>5. X % n = a
      BY <3>3, <3>4, Zenon
    <3>6. PICK y : y = X % n /\ y = a
      BY <3>5
    <3>7. ~(X < n)
      BY <1>1, <2>2
    <3>8. QED
      BY <3>1, <3>6, <3>7
  <2>3. QED
    BY <1>1, <2>1, <2>2
<1>5. X % n = r <=> (X = r \/ (r < p - n /\ X = r + n))
  <2>1. CASE X < n
    BY <1>1, <1>4, <2>1
  <2>2. CASE X >= n
    BY <1>1, <1>4, <2>2
  <2>3. QED
    BY <1>1, <2>1, <2>2
<1>6. QED
  BY <1>2, <1>3, <1>5

(* r against x, with Z. *)
MatchesX(r, z, x1, s) == mont_mult(r, mont_square(z, s.p), s.p) = x1
LEMMA MatchIs ==
  ASSUME NEW s, IsCurve(s), NEW V, Unit(V, s), NEW z, z = E(V, s.p), NEW X \in Int,
         NEW x1, x1 = Q(X * (V * V), s.p), NEW r \in Int
  PROVE  /\ MatchesX(r, z, x1, s) => Congruent(r, X, s.p.p)
         /\ Congruent(r, X, s.p.p) => MatchesX(r, z, x1, s)
<1>0. PICK p \in Nat \ {0} : p = s.p.p /\ Montgomery(s.p)
  BY CurveIs
<1>1. PICK m : m = s.p /\ p = m.p /\ p = s.p.p /\ Montgomery(m)
  BY <1>0
<1>2. Unit(V * V, s)
  BY UnitTimes
<1>3. PICK VV \in Int : VV = V * V /\ ~Congruent(VV, 0, p)
  BY <1>1, <1>2 DEF Unit
<1>4. mont_square(z, m) = E(VV, m)
  BY <1>1, <1>3, ESquare DEF Unit
<1>5. mont_mult(r, E(VV, m), m) = Q(VV * r, m)
  BY <1>1, <1>3, EPlain
<1>6. PICK a \in Int, b \in Int : a = VV * r /\ a = r * VV /\ b = X * VV
  OBVIOUS
<1>7. MatchesX(r, z, x1, s) <=> Q(a, m) = Q(b, m)
  BY <1>1, <1>3, <1>6, <1>4, <1>5 DEF MatchesX
<1>8. Q(a, m) = Q(b, m) => Congruent(r, X, p)
  <2> SUFFICES ASSUME Q(a, m) = Q(b, m) PROVE Congruent(r, X, p)
    OBVIOUS
  <2>1. Congruent(a, b, p)
    BY <1>1, <1>6, QBack
  <2>2. Congruent(r * VV, X * VV, p)
    BY <1>6, <2>1
  <2>3. QED
    BY <1>1, <1>3, <2>2, CancelFactor
<1>9. Congruent(r, X, p) => Q(a, m) = Q(b, m)
  <2> SUFFICES ASSUME Congruent(r, X, p) PROVE Q(a, m) = Q(b, m)
    OBVIOUS
  <2>1. p \in Nat /\ VV \in Int
    BY <1>3
  <2>2. Congruent(r * VV, X * VV, p)
    BY <2>1, CongruentScale
  <2>3. Congruent(a, b, p)
    BY <1>6, <2>2
  <2>4. QED
    BY <1>1, <1>6, <2>3, QSame
<1>10. QED
  BY <1>1, <1>7, <1>8, <1>9

(* The point that is compared, with its Z. *)
Compared(x, N, s) ==
  \E V : /\ Unit(V, s) /\ x.z = E(V, s.p)
         /\ x.x1 = Q(Point(N, s)[1] * (V * V), s.p)
         /\ x.y1 = Q(Point(N, s)[2] * (V * V * V), s.p)
(* y is not zero. *)
LEMMA ComparedNotZero ==
  ASSUME NEW s, IsCurve(s), NEW N \in Int, ~Zero(N, s), NEW x, Compared(x, N, s)
  PROVE  x.y1 # s.p.p
<1>1. PICK V : Unit(V, s) /\ x.y1 = Q(Point(N, s)[2] * (V * V * V), s.p)
  BY DEF Compared
<1>2. PICK p \in Nat \ {0} : p = s.p.p /\ Montgomery(s.p)
  BY CurveIs
<1>3. Unit(Point(N, s)[2], s)
  BY YNotZero, PointIs DEF Unit, IsPair
<1>4. PICK Y \in Int, VV \in Int, VVV \in Int :
        Y = Point(N, s)[2] /\ VV = V * V /\ VVV = V * V * V /\ VVV = VV * V
  BY <1>1, <1>3 DEF Unit
<1>5. Unit(VV, s)
  BY <1>1, <1>4, UnitTimes
<1>6. Unit(VVV, s)
  BY <1>1, <1>4, <1>5, UnitTimes
<1>7. Unit(Y * VVV, s)
  BY <1>3, <1>4, <1>6, UnitTimes
<1>8. PICK a \in Int : a = Y * VVV /\ ~Congruent(a, 0, p)
  BY <1>2, <1>7 DEF Unit
<1>9. ASSUME Q(a, s.p) = p PROVE FALSE
  BY <1>2, <1>9, <1>8, QuasiRest, Below, RestCongruent
<1>10. QED
  BY <1>1, <1>2, <1>4, <1>8, <1>9

(* The comparison: whether r is the x of the point, modulo n. *)
LEMMA TestIs ==
  ASSUME NEW s, IsCurve(s), NEW N \in Int, ~Zero(N, s), NEW x \in Context, Compared(x, N, s),
         NEW r \in 1 .. s.n.p - 1, x.u1 = r, x.state.res = TRUE, NEW u, u = Test(x, s)
  PROVE  u.state.res <=> Point(N, s)[1] % s.n.p = r
<1>1. PICK n \in Nat, p \in Nat : n = s.n.p /\ p = s.p.p /\ Montgomery(s.p) /\ r \in Int
  BY CurveIs
<1>2. PICK V : Unit(V, s) /\ x.z = E(V, s.p) /\ x.x1 = Q(Point(N, s)[1] * (V * V), s.p)
  BY DEF Compared
<1>3. PICK X \in 0 .. p - 1 : X = Point(N, s)[1] /\ X \in Int
  BY <1>1, PointIs
<1>4. MatchesX(r, x.z, x.x1, s) <=> Congruent(r, X, p)
  BY <1>1, <1>2, <1>3, MatchIs
<1>5. PICK a \in Int : a = mod_add(r, n, s.p) /\ Congruent(a, r + n, p)
  BY <1>1, QIs DEF mod_add
<1>6. MatchesX(a, x.z, x.x1, s) <=> Congruent(r + n, X, p)
  <2>1. MatchesX(a, x.z, x.x1, s) <=> Congruent(a, X, p)
    BY <1>1, <1>2, <1>3, <1>5, MatchIs
  <2>2. PICK b \in Int : b = r + n
    BY <1>1
  <2>3. Congruent(a, X, p) <=> Congruent(b, X, p)
    BY <1>1, <1>5, <2>2, <1>3, CongruentBack, CongruentThrough
  <2>4. QED
    BY <2>1, <2>2, <2>3
<1>7. PICK ver \in BOOLEAN : ver <=> \/ MatchesX(r, x.z, x.x1, s)
                                     \/ r < p - n /\ MatchesX(a, x.z, x.x1, s)
  OBVIOUS
<1>8. ver <=> X % n = r
  <2>1. X % n = r <=> (Congruent(r, X, p) \/ (r < p - n /\ Congruent(r + n, X, p)))
    BY <1>1, <1>3, RestOfX
  <2>2. QED
    BY <1>4, <1>6, <1>7, <2>1
<1>9. x.y1 # p
  BY <1>1, ComparedNotZero
<1>10. u.state.res <=> ver
  <2>1. PICK st : st = [x.state EXCEPT !.res = x.state.res /\ ~(x.x1 = p /\ x.y1 = p) /\ ver,
                                       !.stage = VERIFY_DONE]
    OBVIOUS
  <2>2. u = Saved(x, st)
    <3>1. ver = (\/ mont_mult(x.u1, mont_square(x.z, s.p), s.p) = x.x1
                 \/ x.u1 < s.p.p - s.n.p
                    /\ mont_mult(mod_add(x.u1, s.n.p, s.p), mont_square(x.z, s.p), s.p) = x.x1)
      BY <1>1, <1>5, <1>7 DEF MatchesX
    <3>2. QED
      BY <1>1, <2>1, <3>1, Zenon DEF Test
  <2>3. x.state \in States
    BY DEF Context
  <2>4. st.res = (x.state.res /\ ~(x.x1 = p /\ x.y1 = p) /\ ver)
    BY <2>1, <2>3 DEF States
  <2>5. u.state = st
    BY <2>2 DEF Saved, Context
  <2>6. QED
    BY <1>9, <2>4, <2>5
<1>11. QED
  BY <1>1, <1>3, <1>8, <1>10

(* What verification adds up: the key kp times, and the generator kg + 1   *)
(* times.                                                                  *)
Combined(N, kp, kg, key, n) == Congruent(N, 1 + kp * key + kg, n)
LEMMA CombinedRing ==
  ASSUME NEW n \in Nat, NEW i \in Int, NEW r \in Int, NEW e \in Int, NEW key \in Int,
         NEW kp \in Int, NEW kg \in Int, Congruent(kp, r * i, n), Congruent(kg, e * i - 1, n),
         NEW N \in Int, Combined(N, kp, kg, key, n)
  PROVE  Congruent(N, i * (e + r * key), n)
<1>1. PICK ri \in Int, ei \in Int, kk \in Int, rik \in Int :
        ri = r * i /\ ei = e * i /\ kk = kp * key /\ rik = ri * key
  OBVIOUS
<1>2. Congruent(kk, rik, n)
  BY <1>1, CongruentScale
<1>3. PICK f \in Int, g \in Int, h \in Int : f = ei - 1 /\ g = kk + kg /\ h = rik + f
  BY <1>1
<1>4. Congruent(g, h, n)
  BY <1>1, <1>3, <1>2, CongruentPlus
<1>5. PICK a \in Int, b \in Int, o \in Int : o = 1 /\ a = o + g /\ b = o + h
  BY <1>3
<1>6. Congruent(a, b, n)
  BY <1>5, <1>3, <1>4, CongruentSame, CongruentPlus
<1>7. Congruent(N, a, n)
  BY <1>1, <1>3, <1>5 DEF Combined
<1>8. i * (e + r * key) = b
  BY <1>1, <1>3, <1>5
<1>9. Congruent(N, b, n)
  BY <1>5, <1>6, <1>7, CongruentThrough
<1>10. QED
  BY <1>8, <1>9

LEMMA RestIs ==
  ASSUME NEW p \in Nat \ {0}, NEW a \in Int, NEW w, w = a % p
  PROVE  w \in Int /\ w \in Nat /\ w < p /\ Congruent(w, a, p)
<1>1. w \in Nat /\ w < p
  BY WholeDivision
<1>2. w % p = a % p
  BY <1>1, Below
<1>3. QED
  BY <1>1, <1>2, RestCongruent

(* A signature is valid just when the x of that point is r, modulo n. *)
LEMMA ValidIs ==
  ASSUME NEW s, IsCurve(s), NEW n, n = s.n.p, NEW key \in Int, NEW r \in 1 .. n - 1,
         NEW q \in 1 .. n - 1, NEW e \in Int,
         NEW N \in Int, ~Zero(N, s),
         Combined(N, KeyTimes(r, q, n), GenTimes(e, q, n), key, n)
  PROVE  Valid(key, r, q, e, s) <=> Point(N, s)[1] % n = r
<1>1. n \in Nat \ {0} /\ n \in Nat /\ n > 3 /\ r \in Int /\ q \in Int /\ Montgomery(s.n) /\ n = s.n.p
  BY CurveIs
<1>2. ~Congruent(q, 0, n)
  <2> SUFFICES ASSUME Congruent(q, 0, n) PROVE FALSE
    OBVIOUS
  <2>1. q % n = 0 % n
    BY <1>1, CongruentHasRest
  <2>2. q % n = q /\ 0 % n = 0
    BY <1>1, Below
  <2>3. QED
    BY <1>1, <2>1, <2>2
<1>3. PICK i \in Int : i = Inv(q, n)
  BY <1>1, <1>2, InverseIs
<1>4. PICK kp \in Int, kg \in Int : /\ kp = KeyTimes(r, q, n) /\ kg = GenTimes(e, q, n)
                                    /\ Congruent(kp, r * i, n) /\ Congruent(kg, e * i - 1, n)
  <2>1. r * i \in Int /\ e * i - 1 \in Int
    BY <1>1
  <2>2. /\ (r * i) % n \in Int /\ Congruent((r * i) % n, r * i, n)
        /\ (e * i - 1) % n \in Int /\ Congruent((e * i - 1) % n, e * i - 1, n)
    BY <1>1, <2>1, RestIs
  <2>3. QED
    BY <1>3, <2>2 DEF KeyTimes, GenTimes
<1>5. PICK a \in Int : a = i * (e + r * key) /\ Congruent(N, a, n)
  BY <1>1, <1>4, CombinedRing
<1>6. PICK x : x = a % n /\ x = (Inv(q, n) * (e + r * key)) % n
  BY <1>3, <1>5
<1>7. Point(N, s) = s.multiples[x]
  BY <1>1, <1>5, <1>6, PointSame DEF Point
<1>8. x # 0
  <2> SUFFICES ASSUME x = 0 PROVE FALSE
    OBVIOUS
  <2>1. Congruent(0, a, n)
    BY <1>1, <1>5, <1>6, RestIs
  <2>2. Congruent(a, 0, n)
    BY <1>1, <1>5, <2>1, CongruentBack
  <2>3. Congruent(N, 0, n)
    BY <1>1, <1>5, <2>2, CongruentThrough
  <2>4. QED
    BY <1>1, <2>3 DEF Zero
<1>9. Valid(key, r, q, e, s) <=> (x # 0 /\ s.multiples[x][1] % n = r)
  <2>1. Valid(key, r, q, e, s) = (/\ r \in 1 .. n - 1 /\ q \in 1 .. n - 1
                                  /\ x # 0 /\ s.multiples[x][1] % n = r)
    BY <1>1, <1>6, Zenon DEF Valid
  <2>2. QED
    BY <2>1
<1>10. QED
  BY <1>7, <1>8, <1>9

(* Points that are not the same, nor opposite, nor zero.                   *)
LEMMA NotSame ==
  ASSUME NEW s, IsCurve(s), NEW n, n = s.n.p, NEW i \in Int, NEW j \in Int, ~Same(i, j, n)
  PROVE  Differ(i, j, s)
<1>1. n \in Nat \ {0} /\ n \in Nat /\ n > 3
  BY CurveIs
<1>2. (i - j) % n # 0 /\ (i + j) % n # 0 /\ i % n # 0 /\ j % n # 0
  BY DEF Same
<1>3. ASSUME NEW a \in Int, Congruent(a, 0, n) PROVE a % n = 0
  BY <1>1, <1>3, CongruentHasRest, Below
<1>4. ~Congruent(i, 0, n) /\ ~Congruent(j, 0, n)
  BY <1>2, <1>3
<1>5. ~Congruent(i, j, n)
  <2> SUFFICES ASSUME Congruent(i, j, n) PROVE FALSE
    OBVIOUS
  <2>1. Congruent(i - j, j - j, n)
    BY <1>1, CongruentSame, CongruentPlus
  <2>2. PICK a \in Int : a = i - j
    OBVIOUS
  <2>3. j - j = 0
    OBVIOUS
  <2>4. Congruent(a, 0, n)
    BY <2>1, <2>2, <2>3
  <2>5. QED
    BY <1>2, <1>3, <2>2, <2>4
<1>6. ~Congruent(i, -j, n)
  <2> SUFFICES ASSUME Congruent(i, -j, n) PROVE FALSE
    OBVIOUS
  <2>0. PICK k \in Int : k = -j
    OBVIOUS
  <2>1. Congruent(i - k, k - k, n)
    BY <1>1, <2>0, CongruentSame, CongruentPlus
  <2>2. PICK a \in Int : a = i + j /\ a = i - k
    BY <2>0
  <2>3. k - k = 0
    BY <2>0
  <2>4. Congruent(a, 0, n)
    BY <2>1, <2>2, <2>3
  <2>5. QED
    BY <1>2, <1>3, <2>2, <2>4
<1>7. QED
  BY <1>4, <1>5, <1>6 DEF Differ, Zero

(* What is added for the bit i. *)
Chosen(kp, kg, h, key, i) == h + test_bit(kp, i) * key + test_bit(kg, i)

(* The reference, that tells which additions are met: any number of them.  *)
AddedTo(a, P, i, top, n) ==
  [R |-> (IF i < top THEN 2 * a.R + P ELSE a.R + P) % n,
   met |-> a.met \/ Same(a.R, P, n) \/ (i < top /\ Same(a.R + P, a.R, n))]
MeetRun(g, top, kp, kg, h, key, s) ==
  g = [j \in 0 .. top |->
         IF j = 0 THEN [R |-> 2 * h, met |-> FALSE]
         ELSE AddedTo(g[j - 1], Chosen(kp, kg, h, key, s.bits - j), s.bits - j, s.bits - 1, s.n.p)]

LEMMA MeetRuns ==
  ASSUME NEW kp, NEW kg, NEW h, NEW key, NEW s
  PROVE  \A top \in Nat : \E g : MeetRun(g, top, kp, kg, h, key, s)
<1> DEFINE first == [R |-> 2 * h, met |-> FALSE]
           next(v, j) == AddedTo(v, Chosen(kp, kg, h, key, s.bits - j), s.bits - j, s.bits - 1, s.n.p)
           Run(g, top) == g = [j \in 0 .. top |-> IF j = 0 THEN first ELSE next(g[j - 1], j)]
           L == {top \in Nat : \E g : Run(g, top)}
<1>0. ASSUME NEW g, NEW top PROVE Run(g, top) <=> MeetRun(g, top, kp, kg, h, key, s)
  BY Zenon DEF MeetRun
<1> HIDE DEF first, next
<1>1. 0 \in L
  <2> DEFINE g == [j \in 0 .. 0 |-> first]
  <2>1. g = [j \in 0 .. 0 |-> IF j = 0 THEN first ELSE next(g[j - 1], j)]
    OBVIOUS
  <2> HIDE DEF g
  <2>2. Run(g, 0)
    BY <2>1
  <2>3. QED
    BY <2>2
<1>2. ASSUME NEW n \in Nat, n \in L PROVE n + 1 \in L
  <2>1. PICK g : Run(g, n)
    BY <1>2
  <2>2. PICK last : last = next(g[n], n + 1)
    OBVIOUS
  <2> DEFINE f == [j \in 0 .. n + 1 |-> IF j <= n THEN g[j] ELSE last]
  <2>3. ASSUME NEW j \in 0 .. n PROVE g[j] = IF j = 0 THEN first ELSE next(g[j - 1], j)
    BY <2>1
  <2>4. ASSUME NEW j \in 0 .. n + 1
        PROVE  f[j] = IF j = 0 THEN first ELSE next(f[j - 1], j)
    <3>1. CASE j <= n
      <4>1. j \in 0 .. n /\ f[j] = g[j] /\ (j # 0 => f[j - 1] = g[j - 1])
        BY <3>1
      <4>2. g[j] = IF j = 0 THEN first ELSE next(g[j - 1], j)
        BY <2>3, <4>1
      <4> HIDE DEF f
      <4>3. QED
        BY <4>1, <4>2
    <3>2. CASE j = n + 1
      <4>1. f[j] = last /\ f[j - 1] = g[n] /\ j # 0
        BY <3>2
      <4> HIDE DEF f
      <4>2. QED
        BY <2>2, <3>2, <4>1
    <3>3. QED
      BY <3>1, <3>2
  <2>5. f = [j \in 0 .. n + 1 |-> f[j]]
    OBVIOUS
  <2> HIDE DEF f
  <2>6. Run(f, n + 1)
    BY <2>4, <2>5
  <2>7. QED
    BY <2>6
<1> HIDE DEF Run
<1>3. Nat \subseteq L
  <2> HIDE DEF L
  <2>1. QED
    BY <1>1, <1>2, Induction
<1>4. QED
  BY <1>0, <1>3

(* The points that verification comes through, when it meets none twice.   *)
Path(f, kp, kg, h, key, s) ==
  /\ f \in [0 .. s.bits -> Int] /\ f[0] = 2 * h
  /\ \A j \in 0 .. s.bits - 1 : \E P \in Int :
       /\ P = Chosen(kp, kg, h, key, s.bits - 1 - j) /\ Differ(f[j], P, s)
       /\ j # 0 => Differ(f[j] + P, f[j], s) /\ Congruent(f[j + 1], 2 * f[j] + P, s.n.p)
       /\ j = 0 => Congruent(f[j + 1], f[j] + P, s.n.p)

(* One addition of the reference. *)
LEMMA AddedIs ==
  ASSUME NEW s, IsCurve(s), NEW n, n = s.n.p, NEW a, NEW R \in Int, a.R = R, NEW P \in Int,
         NEW i \in Int, NEW top \in Int, NEW b, b = AddedTo(a, P, i, top, n), ~b.met
  PROVE  /\ ~a.met /\ b.R \in Int /\ Differ(R, P, s)
         /\ i < top => Differ(R + P, R, s) /\ Congruent(b.R, 2 * R + P, n)
         /\ ~(i < top) => Congruent(b.R, R + P, n)
<1>1. n \in Nat \ {0}
  BY CurveIs
<1>2. b.R = (IF i < top THEN 2 * R + P ELSE R + P) % n
  BY DEF AddedTo
<1>3. ~(a.met \/ Same(R, P, n) \/ (i < top /\ Same(R + P, R, n)))
  BY Zenon DEF AddedTo
<1>4. ~a.met /\ ~Same(R, P, n) /\ (i < top => ~Same(R + P, R, n))
  BY <1>3
<1>5. PICK S \in Int, T \in Int : S = R + P /\ T = 2 * R + P
  OBVIOUS
<1>6. Differ(R, P, s)
  BY <1>4, NotSame
<1>7. i < top => Differ(S, R, s)
  BY <1>4, <1>5, NotSame
<1>8. (i < top => b.R = T % n) /\ (~(i < top) => b.R = S % n)
  BY <1>2, <1>5
<1>9. T % n \in Int /\ Congruent(T % n, T, n) /\ S % n \in Int /\ Congruent(S % n, S, n)
  BY <1>1, <1>5, RestIs
<1>10. b.R \in Int
  BY <1>8, <1>9
<1>11. QED
  BY <1>4, <1>5, <1>6, <1>7, <1>8, <1>9, <1>10

(* The number of H, as the reference finds it. *)
Offset(s) == Inv((2 * TwoTo[s.bits] - 1) % s.n.p, s.n.p)
LEMMA ExceptionalIs ==
  ASSUME NEW s, IsCurve(s), NEW key, NEW r, NEW q, NEW e, ~Exceptional(key, r, q, e, s)
  PROVE  /\ ~Same(key, Offset(s), s.n.p) /\ ~Same(key + Offset(s), 1, s.n.p)
         /\ \E g : /\ MeetRun(g, s.bits, KeyTimes(r, q, s.n.p), GenTimes(e, q, s.n.p), Offset(s), key, s)
                   /\ ~g[s.bits].met
<1> DEFINE g == CHOOSE g : MeetRun(g, s.bits, KeyTimes(r, q, s.n.p), GenTimes(e, q, s.n.p), Offset(s), key, s)
<1>1. ~(Same(key, Offset(s), s.n.p) \/ Same(key + Offset(s), 1, s.n.p) \/ g[s.bits].met)
  BY Zenon DEF Exceptional, MeetRun, AddedTo, Chosen, KeyTimes, GenTimes, Offset
<1>2. s.bits \in Nat
  BY CurveIs
<1>3. MeetRun(g, s.bits, KeyTimes(r, q, s.n.p), GenTimes(e, q, s.n.p), Offset(s), key, s)
  BY <1>2, MeetRuns
<1>4. QED
  BY <1>1, <1>3

LEMMA PathIs ==
  ASSUME NEW s, IsCurve(s), NEW n, n = s.n.p, NEW kp \in Nat, NEW kg \in Nat, NEW h \in Int,
         NEW key \in Int, NEW g, MeetRun(g, s.bits, kp, kg, h, key, s), ~g[s.bits].met
  PROVE  \E f : Path(f, kp, kg, h, key, s)
<1>1. PICK bits \in Nat : bits = s.bits /\ bits > 0
  BY CurveIs
<1>2. \A j \in 0 .. bits :
        g[j] = IF j = 0 THEN [R |-> 2 * h, met |-> FALSE]
               ELSE AddedTo(g[j - 1], Chosen(kp, kg, h, key, bits - j), bits - j, bits - 1, n)
  BY <1>1 DEF MeetRun
<1>3. ASSUME NEW j \in 0 .. bits - 1
      PROVE  /\ Chosen(kp, kg, h, key, bits - 1 - j) \in Int
             /\ \E i \in Int :
                  /\ i < bits - 1 <=> j # 0
                  /\ g[j + 1] = AddedTo(g[j], Chosen(kp, kg, h, key, bits - 1 - j), i, bits - 1, n)
  <2>1. PICK i \in Nat : i = bits - 1 - j /\ i = bits - (j + 1)
    BY <1>1
  <2>2. test_bit(kp, i) \in Int /\ test_bit(kg, i) \in Int
    <3>1. ASSUME NEW a \in Nat PROVE test_bit(a, i) \in Int
      BY AboveIs
    <3>2. QED
      BY <3>1
  <2>3. Chosen(kp, kg, h, key, i) \in Int
    BY <2>2 DEF Chosen
  <2>4. PICK l \in 0 .. bits : l = j + 1 /\ l # 0 /\ l - 1 = j /\ bits - l = i
    BY <1>1, <2>1
  <2>5. g[l] = AddedTo(g[l - 1], Chosen(kp, kg, h, key, bits - l), bits - l, bits - 1, n)
    BY <1>2, <2>4
  <2>6. g[l] = AddedTo(g[j], Chosen(kp, kg, h, key, i), i, bits - 1, n)
    BY <2>4, <2>5
  <2>7. i < bits - 1 <=> j # 0
    BY <1>1, <2>1
  <2>8. QED
    BY <2>1, <2>3, <2>4, <2>6, <2>7
<1>4. g[0].R = 2 * h
  BY <1>1, <1>2
<1>5. \A j \in 0 .. bits : g[j].R \in Int
  <2> DEFINE L == {j \in Nat : j <= bits => g[j].R \in Int}
  <2>1. 0 \in L
    BY <1>4
  <2>2. ASSUME NEW j \in Nat, j \in L PROVE j + 1 \in L
    <3> SUFFICES ASSUME j + 1 <= bits PROVE g[j + 1].R \in Int
      OBVIOUS
    <3>1. j \in 0 .. bits - 1
      BY <1>1
    <3>2. PICK P \in Int, i \in Int : g[j + 1] = AddedTo(g[j], P, i, bits - 1, n)
      BY <1>3, <3>1
    <3>3. PICK R \in Int : R = g[j].R
      BY <1>1, <2>2, <3>1
    <3>4. g[j + 1].R = (IF i < bits - 1 THEN 2 * R + P ELSE R + P) % n
      BY <3>2, <3>3 DEF AddedTo
    <3>5. n \in Nat \ {0}
      BY CurveIs
    <3>6. PICK T \in Int : T = IF i < bits - 1 THEN 2 * R + P ELSE R + P
      OBVIOUS
    <3>7. T % n \in Int
      BY <3>5, RestIs
    <3>8. QED
      BY <3>4, <3>6, <3>7
  <2> HIDE DEF L
  <2>3. Nat \subseteq L
    BY <2>1, <2>2, Induction
  <2>4. QED
    BY <1>1, <2>3 DEF L
<1>6. ASSUME NEW j \in 0 .. bits - 1, ~g[j + 1].met
      PROVE  /\ ~g[j].met
             /\ \E P \in Int :
                  /\ P = Chosen(kp, kg, h, key, bits - 1 - j) /\ Differ(g[j].R, P, s)
                  /\ j # 0 => Differ(g[j].R + P, g[j].R, s) /\ Congruent(g[j + 1].R, 2 * g[j].R + P, n)
                  /\ j = 0 => Congruent(g[j + 1].R, g[j].R + P, n)
  <2>1. PICK P \in Int, i \in Int, top \in Int :
          /\ P = Chosen(kp, kg, h, key, bits - 1 - j) /\ top = bits - 1 /\ (i < top <=> j # 0)
          /\ g[j + 1] = AddedTo(g[j], P, i, top, n)
    BY <1>1, <1>3, <1>6
  <2>2. j \in 0 .. bits
    BY <1>1, <1>6
  <2>3. PICK R \in Int : R = g[j].R
    BY <1>5, <2>2
  <2>5. PICK a, b : a = g[j] /\ b = g[j + 1]
    OBVIOUS
  <2>6. a.R = R /\ b = AddedTo(a, P, i, top, n) /\ ~b.met
    BY <1>6, <2>1, <2>3, <2>5
  <2>7. /\ ~a.met /\ b.R \in Int /\ Differ(R, P, s)
        /\ i < top => Differ(R + P, R, s) /\ Congruent(b.R, 2 * R + P, n)
        /\ ~(i < top) => Congruent(b.R, R + P, n)
    <3>1. i \in Int /\ top \in Int /\ R \in Int /\ P \in Int /\ n = s.n.p
      BY <2>1, <2>3
    <3>2. QED
      BY ONLY <2>6, <3>1, IsCurve(s), AddedIs
  <2>8. QED
    BY <2>1, <2>3, <2>5, <2>7
<1>7. \A j \in 0 .. bits : ~g[j].met
  <2> DEFINE L == {d \in Nat : d <= bits => ~g[bits - d].met}
  <2>1. 0 \in L
    BY <1>1
  <2>2. ASSUME NEW d \in Nat, d \in L PROVE d + 1 \in L
    <3> SUFFICES ASSUME d + 1 <= bits PROVE ~g[bits - (d + 1)].met
      OBVIOUS
    <3>1. PICK j \in 0 .. bits - 1 : j = bits - (d + 1) /\ j + 1 = bits - d
      BY <1>1
    <3>2. ~g[bits - d].met
      BY <1>1, <2>2
    <3>3. ~g[j + 1].met
      BY <3>1, <3>2
    <3>4. QED
      BY <1>6, <3>1, <3>3
  <2> HIDE DEF L
  <2>3. Nat \subseteq L
    BY <2>1, <2>2, Induction
  <2>4. ASSUME NEW j \in 0 .. bits PROVE ~g[j].met
    <3>1. PICK d \in Nat : d = bits - j /\ d <= bits /\ bits - d = j
      BY <1>1
    <3>2. d \in L
      BY <2>3
    <3>3. QED
      BY <3>1, <3>2 DEF L
  <2>5. QED
    BY <2>4
<1> DEFINE f == [j \in 0 .. bits |-> g[j].R]
<1>8. f \in [0 .. bits -> Int] /\ f[0] = 2 * h
  BY <1>1, <1>4, <1>5
<1>9. ASSUME NEW j \in 0 .. bits - 1
      PROVE  \E P \in Int :
               /\ P = Chosen(kp, kg, h, key, bits - 1 - j) /\ Differ(f[j], P, s)
               /\ j # 0 => Differ(f[j] + P, f[j], s) /\ Congruent(f[j + 1], 2 * f[j] + P, n)
               /\ j = 0 => Congruent(f[j + 1], f[j] + P, n)
  <2>1. j \in 0 .. bits /\ j + 1 \in 0 .. bits
    BY <1>1, <1>9
  <2>2. f[j] = g[j].R /\ f[j + 1] = g[j + 1].R
    BY <2>1
  <2>3. ~g[j + 1].met
    BY <1>7, <2>1
  <2> HIDE DEF f
  <2>4. QED
    BY <1>6, <1>9, <2>2, <2>3
<1> HIDE DEF f
<1>10. Path(f, kp, kg, h, key, s)
  BY <1>1, <1>8, <1>9 DEF Path
<1>11. QED
  BY <1>10

(* Where the path leads: both scalars are read from their highest bits.    *)
Reached(j, kp, kg, h, key, s) ==
  (2 * TwoTo[j] - 1) * h + Above(kp, s.bits - j) * key + Above(kg, s.bits - j)
LEMMA ReachRing ==
  ASSUME NEW t \in Int, NEW h \in Int, NEW A \in Int, NEW B \in Int, NEW b \in Int, NEW d \in Int,
         NEW key \in Int, NEW u, u = 2 * t, NEW A2, A2 = 2 * A + b, NEW B2, B2 = 2 * B + d
  PROVE  (2 * u - 1) * h + A2 * key + B2
           = 2 * ((2 * t - 1) * h + A * key + B) + (h + b * key + d)
<1>1. PICK th \in Int, Ak \in Int, bk \in Int : th = t * h /\ Ak = A * key /\ bk = b * key
  OBVIOUS
<1>2. (2 * u - 1) * h = 4 * th - h
  BY <1>1
<1>3. A2 * key = 2 * Ak + bk
  BY <1>1
<1>4. (2 * t - 1) * h = 2 * th - h
  BY <1>1
<1>5. (2 * u - 1) * h + A2 * key + B2 = (4 * th - h) + (2 * Ak + bk) + (2 * B + d)
  BY <1>2, <1>3
<1>6. 2 * ((2 * t - 1) * h + A * key + B) + (h + b * key + d)
        = 2 * ((2 * th - h) + Ak + B) + (h + bk + d)
  BY <1>1, <1>4
<1>7. (4 * th - h) + (2 * Ak + bk) + (2 * B + d) = 2 * ((2 * th - h) + Ak + B) + (h + bk + d)
  BY <1>1
<1>8. QED
  BY <1>5, <1>6, <1>7

LEMMA ReachedIs ==
  ASSUME NEW s, s.bits \in Nat, NEW kp \in Nat, NEW kg \in Nat, NEW h \in Int, NEW key \in Int,
         NEW j \in 0 .. s.bits
  PROVE  /\ Reached(j, kp, kg, h, key, s) \in Int
         /\ j < s.bits => Reached(j + 1, kp, kg, h, key, s)
                            = 2 * Reached(j, kp, kg, h, key, s) + Chosen(kp, kg, h, key, s.bits - 1 - j)
<1>1. PICK bits \in Nat : bits = s.bits
  OBVIOUS
<1>2. PICK t \in Int : t = TwoTo[j]
  BY TwoToIs
<1>3. ASSUME NEW k \in Nat, NEW i \in Nat PROVE Above(k, i) \in Int /\ test_bit(k, i) \in Int
  <2>1. Above(k, i) \in Nat /\ test_bit(k, i) \in 0 .. 1
    BY AboveIs
  <2>2. QED
    BY <2>1
<1>4. PICK l \in Nat : l = bits - j
  BY <1>1
<1>5. PICK A \in Int, B \in Int : A = Above(kp, l) /\ B = Above(kg, l)
  BY <1>3, <1>4
<1>6. PICK T \in Int : T = (2 * t - 1) * h + A * key + B
  OBVIOUS
<1>7. Reached(j, kp, kg, h, key, s) = T
  BY <1>1, <1>2, <1>4, <1>5, <1>6 DEF Reached
<1>8. ASSUME j < bits
      PROVE  Reached(j + 1, kp, kg, h, key, s) = 2 * T + Chosen(kp, kg, h, key, bits - 1 - j)
  <2>1. PICK i \in Nat : i = bits - 1 - j /\ i = bits - (j + 1) /\ i + 1 = l
    BY <1>1, <1>8, <1>4
  <2>2. PICK b \in Int, d \in Int : b = test_bit(kp, i) /\ d = test_bit(kg, i)
    BY <1>3, <2>1
  <2>3. Above(kp, i) = 2 * A + b /\ Above(kg, i) = 2 * B + d
    BY <2>1, <1>5, <2>2, AboveIs
  <2>4. PICK u \in Int, A2 \in Int, B2 \in Int :
          /\ u = TwoTo[j + 1] /\ u = 2 * t /\ A2 = Above(kp, i) /\ A2 = 2 * A + b
          /\ B2 = Above(kg, i) /\ B2 = 2 * B + d
    BY <1>2, <2>2, <2>3, TwoToIs
  <2>5. (2 * u - 1) * h + A2 * key + B2
          = 2 * ((2 * t - 1) * h + A * key + B) + (h + b * key + d)
    BY <1>2, <1>5, <2>2, <2>4, ReachRing
  <2>6. Reached(j + 1, kp, kg, h, key, s) = (2 * u - 1) * h + A2 * key + B2
    BY <1>1, <2>1, <2>4 DEF Reached
  <2>7. Chosen(kp, kg, h, key, i) = h + b * key + d
    BY <2>2 DEF Chosen
  <2>8. PICK C \in Int : C = h + b * key + d
    BY <2>2
  <2>9. Reached(j + 1, kp, kg, h, key, s) = 2 * T + C
    BY <1>6, <2>5, <2>6, <2>8
  <2>10. QED
    BY <2>1, <2>7, <2>8, <2>9
<1>9. QED
  BY <1>1, <1>7, <1>8

LEMMA PathEnds ==
  ASSUME NEW s, IsCurve(s), NEW n, n = s.n.p, NEW kp \in 0 .. n - 1, NEW kg \in 0 .. n - 1,
         NEW h \in Int, IsOffset(h, s), NEW key \in Int, NEW f, Path(f, kp, kg, h, key, s)
  PROVE  f[s.bits] \in Int /\ Combined(f[s.bits], kp, kg, key, n)
<1>1. PICK bits \in Nat, R \in Nat : /\ bits = s.bits /\ bits > 0 /\ R = TwoTo[s.bits]
                                     /\ n \in Nat /\ n < R /\ kp \in Nat /\ kg \in Nat
  BY CurveIs, Radix
<1>2. f \in [0 .. bits -> Int] /\ f[0] = 2 * h
  BY <1>1 DEF Path
<1> DEFINE T(j) == Reached(j, kp, kg, h, key, s)
<1>3. \A j \in 0 .. bits : T(j) \in Int
  BY <1>1, ReachedIs
<1>4. T(0) = h
  <2>1. ASSUME NEW k \in 0 .. n - 1 PROVE Above(k, bits) = 0
    <3>1. PICK o \in Nat, r \in Nat : o = 0 /\ r = k /\ r < R
      BY <1>1
    <3>2. (o * R + r) \div R = o
      BY <1>1, <3>1, Quotient
    <3>3. o * R + r = k
      BY <1>1, <3>1
    <3>4. k \div R = 0
      BY <3>1, <3>2, <3>3
    <3>5. QED
      BY <1>1, <3>4 DEF Above
  <2>2. TwoTo[0] = 1 /\ bits - 0 = bits
    BY <1>1, TwoToIs
  <2>3. PICK A \in Int, B \in Int : A = Above(kp, s.bits - 0) /\ B = Above(kg, s.bits - 0) /\ A = 0 /\ B = 0
    BY <1>1, <2>1, <2>2
  <2>4. T(0) = (2 * 1 - 1) * h + A * key + B
    BY <2>2, <2>3 DEF Reached
  <2>5. QED
    BY <2>3, <2>4
<1>5. ASSUME NEW j \in 0 .. bits - 1
      PROVE  \E P \in Int : /\ T(j + 1) = 2 * T(j) + P
                            /\ j # 0 => Congruent(f[j + 1], 2 * f[j] + P, n)
                            /\ j = 0 => Congruent(f[j + 1], f[j] + P, n)
  <2>1. PICK P \in Int :
       /\ P = Chosen(kp, kg, h, key, s.bits - 1 - j) /\ Differ(f[j], P, s)
       /\ j # 0 => Differ(f[j] + P, f[j], s) /\ Congruent(f[j + 1], 2 * f[j] + P, s.n.p)
       /\ j = 0 => Congruent(f[j + 1], f[j] + P, s.n.p)
    BY <1>1 DEF Path
  <2>2. j \in 0 .. s.bits /\ j < s.bits
    BY <1>1
  <2>3. T(j + 1) = 2 * T(j) + P
    BY <1>1, <2>1, <2>2, ReachedIs
  <2>4. QED
    BY <2>1, <2>3
<1> HIDE DEF T
<1>6. n \in Nat
  BY <1>1
<1> DEFINE L == {j \in Nat : j + 1 <= bits => Congruent(f[j + 1], T(j + 1), n)}
<1>7. 0 \in L
  <2>1. 0 \in 0 .. bits - 1 /\ 0 + 1 \in 0 .. bits
    BY <1>1
  <2>2. PICK P \in Int : T(0 + 1) = 2 * T(0) + P /\ Congruent(f[0 + 1], f[0] + P, n)
    BY <1>5, <2>1
  <2>3. f[0] + P = T(0 + 1)
    BY <1>2, <1>4, <2>2
  <2>4. QED
    BY <2>2, <2>3
<1>8. ASSUME NEW j \in Nat, j \in L PROVE j + 1 \in L
  <2> SUFFICES ASSUME (j + 1) + 1 <= bits PROVE Congruent(f[(j + 1) + 1], T((j + 1) + 1), n)
    OBVIOUS
  <2>1. PICK i \in 0 .. bits - 1 : i = j + 1 /\ i # 0 /\ i \in 0 .. bits /\ i + 1 \in 0 .. bits
    BY <1>1
  <2>2. Congruent(f[i], T(i), n)
    BY <1>8, <2>1
  <2>3. PICK P \in Int : T(i + 1) = 2 * T(i) + P /\ Congruent(f[i + 1], 2 * f[i] + P, n)
    BY <1>5, <2>1
  <2>4. PICK F \in Int, G \in Int, F1 \in Int : F = f[i] /\ G = T(i) /\ F1 = f[i + 1]
    BY <1>2, <1>3, <2>1
  <2>5. PICK t \in Int : t = 2
    OBVIOUS
  <2>6. Congruent(t * F, t * G, n)
    BY <1>6, <2>2, <2>4, <2>5, CongruentScale
  <2>7. PICK FF \in Int, GG \in Int : FF = t * F /\ GG = t * G /\ FF = 2 * F /\ GG = 2 * G
    BY <2>4, <2>5
  <2>8. Congruent(FF + P, GG + P, n)
    BY <1>6, <2>3, <2>6, <2>7, CongruentSame, CongruentPlus
  <2>9. PICK a \in Int, b \in Int : a = FF + P /\ b = GG + P
    BY <2>3, <2>7
  <2>10. Congruent(F1, a, n) /\ Congruent(a, b, n)
    BY <2>3, <2>4, <2>7, <2>8, <2>9
  <2>11. Congruent(F1, b, n)
    BY <1>6, <2>4, <2>9, <2>10, CongruentThrough
  <2>12. b = T(i + 1)
    BY <2>3, <2>4, <2>7, <2>9
  <2>13. QED
    BY <2>1, <2>4, <2>11, <2>12
<1> HIDE DEF L
<1>9. Nat \subseteq L
  BY <1>7, <1>8, Induction
<1>10. Congruent(f[bits], T(bits), n)
  <2>1. PICK j \in Nat : j = bits - 1 /\ j + 1 = bits
    BY <1>1
  <2>2. j \in L
    BY <1>9
  <2>3. QED
    BY <2>1, <2>2 DEF L
<1>11. PICK o \in Int : o = 2 * R - 1 /\ Congruent(h * o, 1, n)
  BY <1>1 DEF IsOffset
<1>12. PICK ho \in Int, kk \in Int : ho = h * o /\ ho = o * h /\ kk = kp * key
  BY <1>1
<1>13. T(bits) = ho + kk + kg
  BY <1>1, <1>11, <1>12, Prefixes DEF T, Reached
<1>14. PICK g \in Int, a \in Int, b \in Int, w \in Int :
         g = kk + kg /\ a = ho + g /\ w = 1 /\ b = w + g /\ a = ho + kk + kg
  BY <1>1, <1>12
<1>15. Congruent(a, b, n)
  <2>1. Congruent(ho, w, n) /\ Congruent(g, g, n)
    BY <1>6, <1>11, <1>12, <1>14, CongruentSame
  <2>2. Congruent(ho + g, w + g, n)
    BY <1>6, <1>12, <1>14, <2>1, CongruentPlus
  <2>3. QED
    BY <1>14, <2>2
<1>16. f[bits] \in Int
  BY <1>1, <1>2
<1>17. Congruent(f[bits], b, n)
  BY <1>10, <1>13, <1>14, <1>6, <1>15, <1>16, CongruentThrough
<1>18. b = 1 + kp * key + kg
  BY <1>1, <1>12, <1>14
<1>19. QED
  BY <1>1, <1>16, <1>17, <1>18 DEF Combined

(* The points that the bits choose from: those of the curve and those of   *)
(* the context.                                                            *)
Table(x, key, h, s) ==
  /\ x.px = E(Point(h + key, s)[1], s.p) /\ x.py = E(Point(h + key, s)[2], s.p)
  /\ x.u3 = E(Point(h + key + 1, s)[1], s.p) /\ x.u4 = E(Point(h + key + 1, s)[2], s.p)
(* The places of a point that is to be added. *)
Placed(y, x, a, b) == y = [x EXCEPT !.x2 = a, !.y2 = b]
LEMMA PlacedIs ==
  ASSUME NEW x \in Context, NEW a \in Int, NEW b \in Int, NEW y, Placed(y, x, a, b)
  PROVE  /\ y \in Context /\ Keeps(y, x) /\ SameFirst(y, x) /\ y.x2 = a /\ y.y2 = b
<1>1. y \in Context /\ y.x2 = a /\ y.y2 = b
  BY DEF Placed, Context
<1>2. Keeps(y, x) /\ SameFirst(y, x)
  BY DEF Placed, Context, Keeps, SameFirst
<1>3. QED
  BY <1>1, <1>2

LEMMA KeepsBoth ==
  ASSUME NEW u, NEW v, NEW w, Keeps(u, v), Keeps(v, w)
  PROVE  Keeps(u, w)
BY DEF Keeps

LEMMA JoinPlaced ==
  ASSUME NEW s, IsCurve(s), NEW R \in Int, NEW P \in Int, ~Zero(P, s), NEW x \in Context, Joined(x, R, s),
         NEW a, a = E(Point(P, s)[1], s.p), NEW b, b = E(Point(P, s)[2], s.p),
         NEW y, Placed(y, x, a, b), NEW u, u = sb_sw_point_mult_add_apply_z(y, s)
  PROVE  u \in Context /\ Keeps(u, x) /\ TwoPoints(u, R, P, s)
<1>1. a \in Int /\ b \in Int
  BY PointIs, CurveIs, EIs DEF IsPair
<1>2. y \in Context /\ Keeps(y, x) /\ SameFirst(y, x) /\ y.x2 = a /\ y.y2 = b
  BY <1>1, PlacedIs
<1>3. Joined(y, R, s)
  BY <1>2 DEF Joined, SameFirst, HasZ, First
<1>4. Plain(y, Point(P, s), s)
  BY <1>2 DEF Plain
<1>5. u \in Context /\ Keeps(u, y) /\ TwoPoints(u, R, P, s)
  BY <1>2, <1>3, <1>4, JoinStep
<1>6. QED
  BY <1>2, <1>5, KeepsBoth

(* The point that the two bits choose. *)
LEMMA SelectIs ==
  ASSUME NEW s, IsCurve(s), NEW h \in Int, IsOffset(h, s), NEW key \in Int,
         NEW x \in Context, Table(x, key, h, s), NEW R \in Int, Joined(x, R, s),
         NEW bp \in 0 .. 1, NEW bg \in 0 .. 1, NEW P \in Int, P = h + bp * key + bg, ~Zero(P, s),
         NEW u, u = sb_sw_point_mult_add_select(bp, bg, x, s)
  PROVE  u \in Context /\ Keeps(u, x) /\ TwoPoints(u, R, P, s)
<1> DEFINE chosen == CASE bp = 0 /\ bg = 0 -> s.h_r
                       [] bp = 0 /\ bg = 1 -> s.g_h_r
                       [] bp = 1 /\ bg = 0 -> <<x.px, x.py>>
                       [] bp = 1 /\ bg = 1 -> <<x.u3, x.u4>>
           y == [x EXCEPT !.x2 = chosen[1], !.y2 = chosen[2]]
<1>1. u = sb_sw_point_mult_add_apply_z(y, s)
  BY Zenon DEF sb_sw_point_mult_add_select
<1>2. chosen[1] = E(Point(P, s)[1], s.p) /\ chosen[2] = E(Point(P, s)[2], s.p)
  <2>1. CASE bp = 0 /\ bg = 0
    <3>1. P = h /\ chosen = s.h_r
      BY <2>1
    <3> HIDE DEF chosen
    <3>2. QED
      BY <3>1 DEF IsOffset
  <2>2. CASE bp = 0 /\ bg = 1
    <3>1. P = h + 1 /\ chosen = s.g_h_r
      BY <2>2
    <3> HIDE DEF chosen
    <3>2. QED
      BY <3>1 DEF IsOffset
  <2>3. CASE bp = 1 /\ bg = 0
    <3>1. P = h + key /\ chosen = <<x.px, x.py>>
      BY <2>3
    <3> HIDE DEF chosen
    <3>2. QED
      BY <3>1 DEF Table
  <2>4. CASE bp = 1 /\ bg = 1
    <3>1. P = h + key + 1 /\ chosen = <<x.u3, x.u4>>
      BY <2>4
    <3> HIDE DEF chosen
    <3>2. QED
      BY <3>1 DEF Table
  <2> HIDE DEF chosen
  <2>5. (bp = 0 \/ bp = 1) /\ (bg = 0 \/ bg = 1)
    OBVIOUS
  <2>6. QED
    BY <2>1, <2>2, <2>3, <2>4, <2>5
<1>3. Placed(y, x, chosen[1], chosen[2])
  BY DEF Placed
<1> HIDE DEF chosen, y
<1>4. QED
  BY <1>1, <1>2, <1>3, JoinPlaced

(* One bit: the point is added, and what there was again, but the first time. *)
Lowered(u, x) ==
  /\ u.k = x.k /\ u.px = x.px /\ u.py = x.py
  /\ u.u1 = x.u1 /\ u.u2 = x.u2 /\ u.u3 = x.u3 /\ u.u4 = x.u4
  /\ u.state = [x.state EXCEPT !.i = x.state.i - 1]
LEMMA AddStepIs ==
  ASSUME NEW s, IsCurve(s), NEW h \in Int, IsOffset(h, s), NEW key \in Int,
         NEW x \in Context, Table(x, key, h, s), NEW R \in Int, Joined(x, R, s),
         NEW kp \in Nat, NEW kg \in Nat, x.k = kp, x.u2 = kg, NEW i \in 0 .. s.bits - 1, x.state.i = i,
         NEW P \in Int, P = Chosen(kp, kg, h, key, i), Differ(R, P, s),
         i < s.bits - 1 => Differ(R + P, R, s),
         NEW u, u = AddStep(x, s)
  PROVE  /\ u \in Context /\ Lowered(u, x)
         /\ i < s.bits - 1 => ~Zero(2 * R + P, s) /\ Joined(u, 2 * R + P, s)
         /\ ~(i < s.bits - 1) => ~Zero(R + P, s) /\ Joined(u, R + P, s)
<1>1. PICK bp \in 0 .. 1, bg \in 0 .. 1 : bp = test_bit(kp, i) /\ bg = test_bit(kg, i)
  <2>1. i \in Nat
    BY CurveIs
  <2>2. QED
    BY <2>1, AboveIs
<1>2. PICK v : v = sb_sw_point_mult_add_select(bp, bg, x, s)
  OBVIOUS
<1>3. v \in Context /\ Keeps(v, x) /\ TwoPoints(v, R, P, s)
  BY <1>1, <1>2, SelectIs DEF Chosen, Differ
<1>4. PICK w : w = sb_sw_point_mult_add_z_update(v, s)
  OBVIOUS
<1>5. w \in Context /\ Keeps(w, v) /\ TwoPoints(w, R + P, R, s)
  BY <1>3, <1>4, AddZStep
<1>6. PICK S \in Int, T \in Int : S = R + P /\ T = 2 * R + P /\ T = S + R
  OBVIOUS
<1>7. ~Zero(S, s)
  BY <1>6, Chord DEF Differ
<1>0. PICK U \in Int : U = IF i < s.bits - 1 THEN T ELSE S
  BY <1>6
<1>8. PICK y : /\ y = IF i < s.bits - 1 THEN sb_sw_point_mult_add_z_update(w, s) ELSE w
               /\ U = IF i < s.bits - 1 THEN T ELSE S
  BY <1>0
<1>9. y \in Context /\ Keeps(y, x) /\ Joined(y, U, s) /\ ~Zero(U, s)
  <2>1. CASE i < s.bits - 1
    <3>1. Differ(S, R, s) /\ TwoPoints(w, S, R, s) /\ y = sb_sw_point_mult_add_z_update(w, s) /\ U = T
      BY <1>5, <1>6, <1>8, <2>1
    <3>2. y \in Context /\ Keeps(y, w) /\ TwoPoints(y, S + R, S, s)
      BY <1>5, <1>6, <3>1, AddZStep
    <3>3. TwoPoints(y, U, S, s)
      BY <1>6, <3>1, <3>2
    <3>4. ~Zero(S + R, s)
      BY <1>6, <3>1, Chord DEF Differ
    <3>5. ~Zero(U, s)
      BY <1>6, <3>1, <3>4
    <3>6. Joined(y, U, s)
      BY <3>3 DEF TwoPoints, Joined
    <3>7. QED
      BY <1>3, <1>5, <3>2, <3>5, <3>6, KeepsBoth
  <2>2. CASE ~(i < s.bits - 1)
    BY <1>5, <1>6, <1>8, <2>2, <1>3, <1>7, KeepsBoth DEF TwoPoints, Joined
  <2>3. QED
    BY <2>1, <2>2
<1>10. u = [y EXCEPT !.state.i = @ - 1]
  BY <1>1, <1>2, <1>4, <1>8, Zenon DEF AddStep
<1>11. y.state = x.state /\ x.state \in States /\ y.state.i = i /\ i \in Int
  BY <1>9 DEF Keeps, Context
<1>12. PICK st : st = [x.state EXCEPT !.i = i - 1]
  OBVIOUS
<1>13. st \in States
  BY <1>11, <1>12 DEF States
<1>14. u = [y EXCEPT !.state = st]
  BY <1>9, <1>10, <1>11, <1>12 DEF Context, States
<1>15. u \in Context /\ u.state = st
  BY <1>9, <1>13, <1>14 DEF Context
<1>16. /\ u.k = y.k /\ u.px = y.px /\ u.py = y.py
       /\ u.u1 = y.u1 /\ u.u2 = y.u2 /\ u.u3 = y.u3 /\ u.u4 = y.u4
       /\ u.x1 = y.x1 /\ u.y1 = y.y1 /\ u.z = y.z
  BY <1>9, <1>14 DEF Context
<1>17. Lowered(u, x)
  BY <1>9, <1>12, <1>15, <1>16 DEF Lowered, Keeps
<1>18. Joined(u, U, s)
  BY <1>9, <1>16 DEF Joined, HasZ, First
<1>19. QED
  BY <1>6, <1>8, <1>9, <1>15, <1>17, <1>18

(* Verification between two bits: where the path is when i is next.        *)
Adding(x, kp, kg, key, h, f, r, s) ==
  /\ x \in Context /\ x.k = kp /\ x.u2 = kg /\ x.u1 = r /\ Table(x, key, h, s)
  /\ x.state.res = TRUE /\ x.state.i \in -1 .. s.bits - 1
  /\ ~Zero(f[s.bits - 1 - x.state.i], s) /\ Joined(x, f[s.bits - 1 - x.state.i], s)
Walk(kp, kg, key, h, f, s) ==
  /\ IsCurve(s) /\ kp \in Nat /\ kg \in Nat /\ key \in Int /\ h \in Int
  /\ IsOffset(h, s) /\ Path(f, kp, kg, h, key, s)

LEMMA JoinedSame ==
  ASSUME NEW s, IsCurve(s), NEW i \in Int, NEW j \in Int, Congruent(i, j, s.n.p), NEW x,
         Joined(x, j, s), ~Zero(j, s)
  PROVE  Joined(x, i, s) /\ ~Zero(i, s)
<1>1. Point(i, s) = Point(j, s) /\ s.n.p \in Nat
  BY PointSame, CurveIs
<1>2. Joined(x, i, s)
  BY <1>1 DEF Joined
<1>3. ASSUME Zero(i, s) PROVE FALSE
  BY <1>1, <1>3, CongruentBack, CongruentThrough DEF Zero
<1>4. QED
  BY <1>2, <1>3

LEMMA AddTurn ==
  ASSUME NEW s, NEW kp, NEW kg, NEW key, NEW h, NEW f, Walk(kp, kg, key, h, f, s),
         NEW r, NEW x, Adding(x, kp, kg, key, h, f, r, s), x.state.i >= 0,
         NEW u, u = AddStep(x, s)
  PROVE  /\ Adding(u, kp, kg, key, h, f, r, s)
         /\ u.state.i = x.state.i - 1 /\ u.state.stage = x.state.stage
<1>0. IsCurve(s) /\ kp \in Nat /\ kg \in Nat /\ key \in Int /\ h \in Int /\ IsOffset(h, s)
  BY DEF Walk
<1>1. PICK bits \in Nat : bits = s.bits /\ bits > 0
  BY <1>0, CurveIs
<1>2. PICK i \in 0 .. bits - 1 : i = x.state.i /\ i \in Int
  BY <1>1 DEF Adding
<1>3. PICK j \in 0 .. bits - 1 : /\ j = bits - 1 - i /\ bits - 1 - j = i /\ j + 1 = bits - 1 - (i - 1)
                                 /\ (j # 0 <=> i < bits - 1) /\ j \in 0 .. bits /\ j + 1 \in 0 .. bits
  BY <1>1, <1>2
<1>4. f \in [0 .. bits -> Int]
  BY <1>1 DEF Walk, Path
<1>5. PICK R \in Int, F \in Int : R = f[j] /\ F = f[j + 1]
  BY <1>3, <1>4
<1>6. PICK P \in Int : /\ P = Chosen(kp, kg, h, key, i) /\ Differ(R, P, s)
                       /\ j # 0 => Differ(R + P, R, s) /\ Congruent(F, 2 * R + P, s.n.p)
                       /\ j = 0 => Congruent(F, R + P, s.n.p)
  <2>1. PICK P \in Int :
       /\ P = Chosen(kp, kg, h, key, s.bits - 1 - j) /\ Differ(f[j], P, s)
       /\ j # 0 => Differ(f[j] + P, f[j], s) /\ Congruent(f[j + 1], 2 * f[j] + P, s.n.p)
       /\ j = 0 => Congruent(f[j + 1], f[j] + P, s.n.p)
    BY <1>1, <1>3 DEF Walk, Path
  <2>2. QED
    BY <1>1, <1>3, <1>5, <2>1
<1>7. x \in Context /\ x.k = kp /\ x.u2 = kg /\ Table(x, key, h, s) /\ Joined(x, R, s) /\ x.state.i = i
  BY <1>1, <1>2, <1>3, <1>5 DEF Adding
<1>8. /\ u \in Context /\ Lowered(u, x)
      /\ i < s.bits - 1 => ~Zero(2 * R + P, s) /\ Joined(u, 2 * R + P, s)
      /\ ~(i < s.bits - 1) => ~Zero(R + P, s) /\ Joined(u, R + P, s)
  BY <1>1, <1>3, <1>6, <1>0, <1>7, AddStepIs
<1>9. Joined(u, F, s) /\ ~Zero(F, s)
  <2>1. PICK S \in Int, T \in Int : S = R + P /\ T = 2 * R + P
    BY <1>6
  <2>2. CASE j # 0
    <3>1. Congruent(F, T, s.n.p) /\ ~Zero(T, s) /\ Joined(u, T, s)
      BY <1>1, <1>3, <1>6, <1>8, <2>1, <2>2
    <3>2. QED
      BY <1>0, <1>5, <2>1, <3>1, JoinedSame
  <2>3. CASE j = 0
    <3>1. Congruent(F, S, s.n.p) /\ ~Zero(S, s) /\ Joined(u, S, s)
      BY <1>1, <1>3, <1>6, <1>8, <2>1, <2>3
    <3>2. QED
      BY <1>0, <1>5, <2>1, <3>1, JoinedSame
  <2>4. QED
    BY <2>2, <2>3
<1>10. x.state \in States /\ u.state = [x.state EXCEPT !.i = x.state.i - 1]
  BY <1>7, <1>8 DEF Context, Lowered
<1>11. u.state.i = i - 1 /\ u.state.res = x.state.res /\ u.state.stage = x.state.stage
  BY <1>2, <1>10 DEF States
<1>12. u.state.i \in -1 .. s.bits - 1 /\ F = f[s.bits - 1 - u.state.i]
  BY <1>1, <1>3, <1>5, <1>11
<1>13. /\ u.k = kp /\ u.u2 = kg /\ u.u1 = r /\ Table(u, key, h, s) /\ u.state.res = TRUE
  BY <1>8, <1>7, <1>11 DEF Lowered, Adding, Table
<1>14. Adding(u, kp, kg, key, h, f, r, s)
  BY <1>8, <1>9, <1>12, <1>13 DEF Adding
<1>15. QED
  BY <1>2, <1>11, <1>14

(* The loop, up to any turn. *)
AddRun(g, n, x, s) ==
  g = [j \in 0 .. n |-> IF j = 0 THEN x ELSE AddStep(g[j - 1], s)]
LEMMA AddRuns ==
  ASSUME NEW x, NEW s
  PROVE  \A n \in Nat : \E g : AddRun(g, n, x, s)
<1> DEFINE L == {n \in Nat : \E g : AddRun(g, n, x, s)}
<1>1. 0 \in L
  <2> DEFINE g == [j \in 0 .. 0 |-> x]
  <2>1. g = [j \in 0 .. 0 |-> IF j = 0 THEN x ELSE AddStep(g[j - 1], s)]
    OBVIOUS
  <2> HIDE DEF g
  <2>2. AddRun(g, 0, x, s)
    BY <2>1 DEF AddRun
  <2>3. QED
    BY <2>2
<1>2. ASSUME NEW n \in Nat, n \in L PROVE n + 1 \in L
  <2>1. PICK g : AddRun(g, n, x, s)
    BY <1>2
  <2>2. PICK last : last = AddStep(g[n], s)
    OBVIOUS
  <2> DEFINE f == [j \in 0 .. n + 1 |-> IF j <= n THEN g[j] ELSE last]
  <2>3. ASSUME NEW j \in 0 .. n PROVE g[j] = IF j = 0 THEN x ELSE AddStep(g[j - 1], s)
    BY <2>1 DEF AddRun
  <2>4. ASSUME NEW j \in 0 .. n + 1
        PROVE  f[j] = IF j = 0 THEN x ELSE AddStep(f[j - 1], s)
    <3>1. CASE j <= n
      <4>1. j \in 0 .. n /\ f[j] = g[j] /\ (j # 0 => f[j - 1] = g[j - 1])
        BY <3>1
      <4>2. g[j] = IF j = 0 THEN x ELSE AddStep(g[j - 1], s)
        BY <2>3, <4>1
      <4> HIDE DEF f
      <4>3. QED
        BY <4>1, <4>2
    <3>2. CASE j = n + 1
      <4>1. f[j] = last /\ f[j - 1] = g[n] /\ j # 0
        BY <3>2
      <4> HIDE DEF f
      <4>2. QED
        BY <2>2, <4>1
    <3>3. QED
      BY <3>1, <3>2
  <2>5. f = [j \in 0 .. n + 1 |-> f[j]]
    OBVIOUS
  <2> HIDE DEF f
  <2>6. AddRun(f, n + 1, x, s)
    BY <2>4, <2>5 DEF AddRun
  <2>7. QED
    BY <2>6
<1> HIDE DEF L
<1>3. Nat \subseteq L
  BY <1>1, <1>2, Induction
<1>4. QED
  BY <1>3 DEF L

(* A call goes through some bits, or all that are left. *)
IsAdded(u, v, s) ==
  u = IF v.state.i >= 0 THEN Saved(v, v.state)
      ELSE Saved([v EXCEPT !.x1 = mont_reduce(@, s.p), !.y1 = mont_reduce(@, s.p)],
                 [v.state EXCEPT !.stage = VERIFY_TEST])
LEMMA AddTurns ==
  ASSUME NEW s, NEW kp, NEW kg, NEW key, NEW h, NEW f, Walk(kp, kg, key, h, f, s),
         POINT_ITERATIONS \in Nat \ {0},
         NEW r, NEW x, Adding(x, kp, kg, key, h, f, r, s), NEW u, u = AddLadder(x, s)
  PROVE  \E v : /\ Adding(v, kp, kg, key, h, f, r, s) /\ v.state.stage = x.state.stage /\ IsAdded(u, v, s)
<1> DEFINE N == POINT_ITERATIONS
           g == CHOOSE g : AddRun(g, N, x, s)
           end == g[AtMost(x.state.i + 1)]
<1>1. IsAdded(u, end, s)
  BY Zenon DEF AddLadder, AddRun, IsAdded
<1>2. AddRun(g, N, x, s)
  BY AddRuns
<1> HIDE DEF g
<1>3. PICK i \in Int : i = x.state.i /\ i >= -1
  BY CurveIs DEF Walk, Adding
<1>4. PICK a \in Nat : a = AtMost(x.state.i + 1) /\ a <= N /\ a <= i + 1
  BY <1>3 DEF AtMost
<1>5. \A j \in 0 .. N : g[j] = IF j = 0 THEN x ELSE AddStep(g[j - 1], s)
  BY <1>2 DEF AddRun
<1> DEFINE Good(v, j) == /\ Adding(v, kp, kg, key, h, f, r, s) /\ v.state.stage = x.state.stage
                         /\ v.state.i = i - j
           L == {j \in Nat : j <= a => Good(g[j], j)}
<1>6. 0 \in L
  BY <1>5, <1>3
<1>7. ASSUME NEW j \in Nat, j \in L PROVE j + 1 \in L
  <2> SUFFICES ASSUME j + 1 <= a PROVE Good(g[j + 1], j + 1)
    OBVIOUS
  <2>1. Good(g[j], j)
    BY <1>4, <1>7
  <2>2. PICK w : w = g[j]
    OBVIOUS
  <2>3. g[j + 1] = AddStep(w, s)
    <3>1. j + 1 \in 0 .. N /\ j + 1 # 0 /\ (j + 1) - 1 = j
      BY <1>4
    <3>2. QED
      BY <1>5, <2>2, <3>1
  <2>4. w.state.i >= 0
    BY <1>3, <1>4, <2>1, <2>2
  <2>5. PICK y : y = AddStep(w, s)
    OBVIOUS
  <2>6. Adding(w, kp, kg, key, h, f, r, s)
    BY <2>1, <2>2
  <2>7. /\ Adding(y, kp, kg, key, h, f, r, s)
        /\ y.state.i = w.state.i - 1 /\ y.state.stage = w.state.stage
    BY <2>4, <2>5, <2>6, AddTurn
  <2>8. y.state.i = i - (j + 1) /\ y.state.stage = x.state.stage
    BY <1>3, <2>1, <2>2, <2>7
  <2>9. QED
    BY <2>3, <2>5, <2>7, <2>8
<1> HIDE DEF L, Good
<1>8. Nat \subseteq L
  BY <1>6, <1>7, Induction
<1>9. Good(g[a], a)
  BY <1>8 DEF L
<1>10. end = g[a]
  BY <1>4
<1> HIDE DEF end
<1>11. Good(end, a)
  BY <1>9, <1>10
<1>12. QED
  BY <1>1, <1>11 DEF Good

(* The whole path is gone. *)
Arrived(x, N, r, s) ==
  /\ x \in Context /\ x.state.stage = VERIFY_TEST /\ x.state.res = TRUE /\ x.u1 = r
  /\ ~Zero(N, s) /\ Compared(x, N, s)
(* What Saved leaves in a context. *)
LEMMA SavedIs ==
  ASSUME NEW v \in Context, NEW st \in States, NEW u, u = Saved(v, st)
  PROVE  /\ u \in Context /\ u.state = st
         /\ u.k = v.k /\ u.z = v.z /\ u.px = v.px /\ u.py = v.py
         /\ u.u1 = v.u1 /\ u.u2 = v.u2 /\ u.u3 = v.u3 /\ u.u4 = v.u4
         /\ u.x1 = v.x1 /\ u.y1 = v.y1 /\ u.x2 = v.x2 /\ u.y2 = v.y2
<1>1. PICK o \in Int : o = 0
  OBVIOUS
<1>2. u = [v EXCEPT !.state = st, !.t5 = o, !.t6 = o]
  BY <1>1 DEF Saved, Lost
<1>3. u \in Context
  BY <1>2 DEF Context
<1>4. /\ u.state = st
      /\ u.k = v.k /\ u.z = v.z /\ u.px = v.px /\ u.py = v.py
      /\ u.u1 = v.u1 /\ u.u2 = v.u2 /\ u.u3 = v.u3 /\ u.u4 = v.u4
      /\ u.x1 = v.x1 /\ u.y1 = v.y1 /\ u.x2 = v.x2 /\ u.y2 = v.y2
  BY <1>2 DEF Context
<1>5. QED
  BY <1>3, <1>4

(* The last coordinates, out of the Montgomery domain. *)
LEMMA ReducedCompared ==
  ASSUME NEW s, IsCurve(s), NEW N \in Int, ~Zero(N, s), NEW v \in Context, Joined(v, N, s),
         NEW u, u.z = v.z, u.x1 = mont_reduce(v.x1, s.p), u.y1 = mont_reduce(v.y1, s.p)
  PROVE  Compared(u, N, s) /\ u.x1 \in Int /\ u.y1 \in Int
<1>1. PICK V : Unit(V, s) /\ HasZ(v, V, s) /\ First(v, Point(N, s), V, s.p)
  BY DEF Joined
<1>2. Montgomery(s.p)
  BY CurveIs
<1>3. PICK X \in Int, Y \in Int, VV \in Int, VVV \in Int :
        X = Point(N, s)[1] /\ Y = Point(N, s)[2] /\ VV = V * V /\ VVV = V * V * V
  BY <1>1, PointIs DEF Unit, IsPair
<1>4. PICK a \in Int, b \in Int : a = X * VV /\ b = Y * VVV
  BY <1>3
<1>5. v.x1 = E(a, s.p) /\ v.y1 = E(b, s.p)
  BY <1>1, <1>3, <1>4 DEF First
<1>6. u.x1 = Q(a, s.p) /\ u.y1 = Q(b, s.p)
  BY <1>2, <1>4, <1>5, EReduce
<1>7. u.x1 \in Int /\ u.y1 \in Int
  BY <1>2, <1>4, <1>6, QIs
<1>8. u.x1 = Q(Point(N, s)[1] * (V * V), s.p) /\ u.y1 = Q(Point(N, s)[2] * (V * V * V), s.p)
  BY <1>3, <1>4, <1>6
<1>9. u.z = E(V, s.p)
  BY <1>1 DEF HasZ
<1>10. QED
  BY <1>1, <1>7, <1>8, <1>9 DEF Compared

LEMMA AddLadderIs ==
  ASSUME NEW s, NEW kp, NEW kg, NEW key, NEW h, NEW f, Walk(kp, kg, key, h, f, s),
         POINT_ITERATIONS \in Nat \ {0}, NEW r,
         NEW x, Adding(x, kp, kg, key, h, f, r, s), x.state.stage = VERIFY_LADDER,
         NEW u, u = AddLadder(x, s)
  PROVE  \/ Adding(u, kp, kg, key, h, f, r, s) /\ u.state.stage = VERIFY_LADDER
         \/ Arrived(u, f[s.bits], r, s)
<1>1. PICK v : /\ Adding(v, kp, kg, key, h, f, r, s) /\ v.state.stage = VERIFY_LADDER /\ IsAdded(u, v, s)
  BY AddTurns
<1>2. PICK i \in Int : i = v.state.i /\ i >= -1 /\ v \in Context /\ v.state \in States
  BY <1>1, CurveIs DEF Walk, Adding, Context
<1>3. CASE i >= 0
  <2>1. u = Saved(v, v.state)
    BY <1>1, <1>2, <1>3 DEF IsAdded
  <2>2. /\ u \in Context /\ u.state = v.state
        /\ u.k = v.k /\ u.z = v.z /\ u.px = v.px /\ u.py = v.py
        /\ u.u1 = v.u1 /\ u.u2 = v.u2 /\ u.u3 = v.u3 /\ u.u4 = v.u4
        /\ u.x1 = v.x1 /\ u.y1 = v.y1
    BY <1>2, <2>1, SavedIs
  <2>3. Table(u, key, h, s) /\ (\A N : Joined(v, N, s) => Joined(u, N, s))
    <3>1. Table(v, key, h, s)
      BY <1>1 DEF Adding
    <3>2. Table(u, key, h, s)
      BY <2>2, <3>1 DEF Table
    <3>3. \A N : Joined(v, N, s) => Joined(u, N, s)
      BY <2>2 DEF Joined, HasZ, First
    <3>4. QED
      BY <3>2, <3>3
  <2>4. Adding(u, kp, kg, key, h, f, r, s)
    BY <1>1, <2>2, <2>3 DEF Adding
  <2>5. QED
    BY <1>1, <2>2, <2>4
<1>4. CASE i < 0
  <2>1. i = -1 /\ IsCurve(s)
    BY <1>2, <1>4 DEF Walk
  <2>2. PICK bits \in Nat : bits = s.bits /\ bits - 1 - (-1) = bits
    BY <2>1, CurveIs
  <2>3. PICK N \in Int : N = f[s.bits] /\ ~Zero(N, s) /\ Joined(v, N, s)
    BY <2>2, <1>2, <2>1, <1>1 DEF Walk, Path, Adding
  <2>4. PICK x1, y1 : x1 = mont_reduce(v.x1, s.p) /\ y1 = mont_reduce(v.y1, s.p)
    OBVIOUS
  <2>5. PICK w : w = [v EXCEPT !.x1 = x1, !.y1 = y1]
    OBVIOUS
  <2>6. w.z = v.z /\ w.x1 = x1 /\ w.y1 = y1 /\ w.u1 = v.u1
    BY <1>2, <2>5 DEF Context
  <2>7. Compared(w, N, s) /\ x1 \in Int /\ y1 \in Int
    BY <1>2, <2>1, <2>3, <2>4, <2>6, ReducedCompared
  <2>8. w \in Context
    BY <1>2, <2>5, <2>7 DEF Context
  <2>9. PICK st : st = [v.state EXCEPT !.stage = VERIFY_TEST]
    OBVIOUS
  <2>10. st \in States /\ st.stage = VERIFY_TEST /\ st.res = v.state.res
    BY <1>2, <2>9 DEF States, VERIFY_TEST
  <2>11. u = Saved(w, st)
    BY <1>1, <1>2, <1>4, <2>4, <2>5, <2>9 DEF IsAdded
  <2>12. u \in Context /\ u.state = st /\ u.z = w.z /\ u.x1 = w.x1 /\ u.y1 = w.y1 /\ u.u1 = w.u1
    BY <2>8, <2>10, <2>11, SavedIs
  <2>13. Compared(u, N, s)
    BY <2>7, <2>12 DEF Compared
  <2>14. v.u1 = r /\ v.state.res = TRUE
    BY <1>1 DEF Adding
  <2>15. Arrived(u, N, r, s)
    BY <2>3, <2>6, <2>10, <2>12, <2>13, <2>14 DEF Arrived
  <2>16. QED
    BY <2>3, <2>15
<1>5. QED
  BY <1>2, <1>3, <1>4

(* The Z of a point in affine coordinates. *)
LEMMA OneIs ==
  ASSUME NEW s, IsCurve(s), NEW o, o = 1
  PROVE  s.p.r_mod_p = E(o, s.p) /\ Unit(o, s) /\ s.p.r_mod_p \in Int
<1>1. PICK m : m = s.p /\ Montgomery(m)
  BY CurveIs
<1>2. PICK p \in Nat \ {0} : p = m.p /\ p > 3
  BY <1>1 DEF Montgomery
<1>3. PICK R \in Int, r \in Int : r = R % p /\ r = m.r_mod_p
  <2>1. s.bits \in Nat \ {0} /\ IsField(m, s.bits)
    BY <1>1 DEF IsCurve
  <2>2. TwoTo[s.bits] \in Int
    BY <2>1, Radix
  <2>3. m.r_mod_p = TwoTo[s.bits] % p
    BY <1>2, <2>1 DEF IsField
  <2>4. QED
    BY <1>1, <2>2, <2>3 DEF Montgomery
<1>4. r \in Nat /\ r < p
  BY <1>3, WholeDivision
<1>5. r # 0
  <2>1. SUFFICES ASSUME r = 0 PROVE FALSE
    OBVIOUS
  <2>2. PICK i \in Int : i = m.rinv /\ Congruent(i * r, 1, p)
    BY <1>1, <1>2, <1>3 DEF Montgomery
  <2>3. i * r = 0
    BY <2>1
  <2>4. PICK k \in Int : 0 = 1 + k * p
    BY <2>2, <2>3 DEF Congruent
  <2>5. PICK l \in Int : l = -k /\ l * p = 1
    BY <2>4
  <2>6. CASE l <= 0
    BY <2>5, <2>6, Product
  <2>7. CASE l >= 1
    <3>1. PICK e \in Int : e = 1
      OBVIOUS
    <3>2. e * p <= l * p /\ e * p = p
      BY <2>7, <3>1, Product
    <3>3. QED
      BY <1>2, <2>5, <3>2
  <2>8. QED
    BY <2>5, <2>6, <2>7
<1>6. r \in 1 .. m.p
  BY <1>2, <1>4, <1>5
<1>7. E(o, m) = r
  BY <1>1, <1>6, <1>3, QOf DEF E
<1>8. Unit(o, s)
  <2>1. ASSUME Congruent(o, 0, p) PROVE FALSE
    BY <1>2, <2>1, CongruentHasRest, Below
  <2>2. QED
    BY <1>1, <1>2, <2>1 DEF Unit
<1>9. QED
  BY <1>1, <1>3, <1>7, <1>8

(* Out of the registers, with the inverse of Z. *)
LEMMA WithoutZ ==
  ASSUME NEW s, IsCurve(s), NEW m, m = s.p, NEW P, IsPair(P), NEW Z \in Int, NEW i \in Int,
         Congruent(Z * i, 1, m.p)
  PROVE  /\ mont_mult(E(P[1] * (Z * Z), m), E(i * i, m), m) = E(P[1], m)
         /\ mont_mult(E(P[2] * (Z * Z * Z), m), E(i * i * i, m), m) = E(P[2], m)
<1>1. Montgomery(m)
  BY CurveIs
<1>2. PICK V \in Int : V = i * Z
  OBVIOUS
<1>3. Congruent(V, 1, m.p)
  BY <1>2
<1>4. PICK X \in Int, Y \in Int : X = P[1] /\ Y = P[2]
  BY DEF IsPair
<1>5. PICK VV \in Int, VVV \in Int : VV = V * V /\ VVV = V * V * V
  OBVIOUS
<1>6. m.p \in Nat
  BY <1>1 DEF Montgomery
<1>7. Congruent(VV, 1, m.p) /\ Congruent(VVV, 1, m.p)
  <2>1. PICK o \in Int : o = 1 /\ o * o = 1
    OBVIOUS
  <2>2. Congruent(V * V, o * o, m.p)
    BY <1>3, <1>6, <2>1, CongruentTimes
  <2>3. Congruent(VV, o, m.p)
    BY <1>5, <2>1, <2>2
  <2>4. Congruent(VV * V, o * o, m.p)
    BY <1>3, <1>6, <2>1, <2>3, CongruentTimes
  <2>5. VV * V = VVV
    BY <1>5
  <2>6. QED
    BY <2>1, <2>3, <2>4, <2>5
<1>8. Congruent(X * VV, X, m.p) /\ Congruent(Y * VVV, Y, m.p)
  <2>1. PICK o \in Int : o = 1 /\ X * o = X /\ Y * o = Y
    OBVIOUS
  <2>2. Congruent(X * VV, X * o, m.p) /\ Congruent(Y * VVV, Y * o, m.p)
    BY <1>6, <1>7, <2>1, CongruentScale
  <2>3. QED
    BY <2>1, <2>2
<1>9. E(X * VV, m) = E(X, m) /\ E(Y * VVV, m) = E(Y, m)
  BY <1>1, <1>8, ESame
<1>10. IsScaled(P, Z, i, V, m)
  BY <1>1, <1>2, ScaleIs
<1>11. QED
  BY <1>4, <1>5, <1>9, <1>10 DEF IsScaled

(* P + H, and then G added to it. *)
Begun(y, x, px, py, s) ==
  y = [x EXCEPT !.x1 = px, !.y1 = py, !.x2 = s.h_r[1], !.y2 = s.h_r[2], !.z = s.p.r_mod_p]
LEMMA BegunIs ==
  ASSUME NEW s, IsCurve(s), NEW key \in Int, ~Zero(key, s), NEW h \in Int, ~Zero(h, s), IsOffset(h, s),
         NEW x \in Context,
         NEW px, px = E(Point(key, s)[1], s.p), NEW py, py = E(Point(key, s)[2], s.p),
         NEW y, Begun(y, x, px, py, s)
  PROVE  y \in Context /\ Keeps(y, x) /\ TwoPoints(y, key, h, s)
<1>1. PICK o \in Int : o = 1
  OBVIOUS
<1>2. PICK z \in Int : z = s.p.r_mod_p /\ z = E(o, s.p) /\ Unit(o, s)
  BY <1>1, OneIs
<1>3. Montgomery(s.p) /\ IsPair(Point(key, s)) /\ IsPair(Point(h, s))
  BY CurveIs, PointIs
<1>4. PICK X \in Int, Y \in Int, X2 \in Int, Y2 \in Int :
        /\ X = Point(key, s)[1] /\ Y = Point(key, s)[2]
        /\ X2 = Point(h, s)[1] /\ Y2 = Point(h, s)[2]
  BY <1>3 DEF IsPair
<1>5. PICK hx \in Int, hy \in Int :
        hx = s.h_r[1] /\ hy = s.h_r[2] /\ hx = E(X2, s.p) /\ hy = E(Y2, s.p)
  BY <1>4, <1>3, EIs DEF IsOffset
<1>6. px \in Int /\ py \in Int /\ px = E(X, s.p) /\ py = E(Y, s.p)
  BY <1>3, <1>4, EIs
<1>7. y = [x EXCEPT !.x1 = px, !.y1 = py, !.x2 = hx, !.y2 = hy, !.z = z]
  BY <1>2, <1>5 DEF Begun
<1>8. y \in Context /\ y.x1 = px /\ y.y1 = py /\ y.x2 = hx /\ y.y2 = hy /\ y.z = z
  BY <1>6, <1>7 DEF Context
<1>9. Keeps(y, x)
  BY <1>7 DEF Context, Keeps
<1>10. Plain(y, Point(h, s), s)
  BY <1>4, <1>5, <1>8 DEF Plain
<1>11. Second(y, Point(h, s), o, s.p)
  BY <1>1, <1>3, <1>10, PlainSecond
<1>12. First(y, Point(key, s), o, s.p)
  BY <1>1, <1>4, <1>6, <1>8 DEF First
<1>13. HasZ(y, o, s)
  BY <1>2, <1>8 DEF HasZ
<1>14. TwoPoints(y, key, h, s)
  BY <1>2, <1>11, <1>12, <1>13 DEF TwoPoints
<1>15. QED
  BY <1>8, <1>9, <1>14

LEMMA BothSums ==
  ASSUME NEW s, IsCurve(s), NEW key \in Int, NEW h \in Int, IsOffset(h, s), Differ(key, h, s),
         NEW kh \in Int, kh = key + h, NEW o \in Int, o = 1, Differ(kh, o, s),
         NEW x \in Context,
         NEW px, px = E(Point(key, s)[1], s.p), NEW py, py = E(Point(key, s)[2], s.p),
         NEW y, Begun(y, x, px, py, s),
         NEW PH, PH = sb_sw_point_mult_add_z_update(y, s),
         NEW w, Placed(w, PH, s.g_r[1], s.g_r[2]),
         NEW u, u = sb_sw_point_mult_add_z_update(sb_sw_point_mult_add_apply_z(w, s), s)
  PROVE  u \in Context /\ Keeps(u, x) /\ TwoPoints(u, kh + o, kh, s)
<1>1. y \in Context /\ Keeps(y, x) /\ TwoPoints(y, key, h, s)
  BY BegunIs DEF Differ
<1>2. PH \in Context /\ Keeps(PH, y) /\ TwoPoints(PH, key + h, key, s)
  BY <1>1, AddZStep
<1>3. Joined(PH, kh, s)
  BY <1>2 DEF TwoPoints, Joined
<1>4. s.g_r[1] = E(Point(o, s)[1], s.p) /\ s.g_r[2] = E(Point(o, s)[2], s.p) /\ ~Zero(o, s)
  BY GeneratorIs
<1>5. PICK v : v = sb_sw_point_mult_add_apply_z(w, s)
  OBVIOUS
<1>6. v \in Context /\ Keeps(v, PH) /\ TwoPoints(v, kh, o, s)
  BY <1>2, <1>3, <1>4, <1>5, JoinPlaced
<1>7. u = sb_sw_point_mult_add_z_update(v, s)
  BY <1>5
<1>8. u \in Context /\ Keeps(u, v) /\ TwoPoints(u, kh + o, kh, s)
  BY <1>6, <1>7, AddZStep
<1>9. QED
  BY <1>1, <1>2, <1>6, <1>8, KeepsBoth

(* Both, in affine coordinates. *)
InAffine(v, i, zz, zzz, s) ==
  /\ mont_mult(v.x2, zz, s.p) = E(Point(i, s)[1], s.p) /\ mont_mult(v.y2, zzz, s.p) = E(Point(i, s)[2], s.p)
FirstInAffine(v, i, zz, zzz, s) ==
  /\ mont_mult(v.x1, zz, s.p) = E(Point(i, s)[1], s.p) /\ mont_mult(v.y1, zzz, s.p) = E(Point(i, s)[2], s.p)
LEMMA AffineTable ==
  ASSUME NEW s, IsCurve(s), NEW m, m = s.p, NEW i \in Int, NEW j \in Int, ~Zero(i, s), ~Zero(j, s),
         NEW v, TwoPoints(v, i, j, s),
         NEW zinv, zinv = mod_inv_r(v.z, m), NEW zz, zz = mont_square(zinv, m),
         NEW zzz, zzz = mont_mult(zinv, zz, m)
  PROVE  FirstInAffine(v, i, zz, zzz, s) /\ InAffine(v, j, zz, zzz, s)
<1>1. Montgomery(m) /\ IsPair(Point(i, s)) /\ IsPair(Point(j, s))
  BY CurveIs, PointIs
<1>2. PICK Z \in Int : /\ Unit(Z, s) /\ HasZ(v, Z, s)
                       /\ First(v, Point(i, s), Z, m) /\ Second(v, Point(j, s), Z, m)
  BY DEF TwoPoints, Unit
<1>3. PICK k \in Int : Congruent(Z * k, 1, m.p)
  BY <1>1, <1>2, Invertible DEF Unit
<1>4. zinv = E(k, m)
  BY <1>1, <1>2, <1>3, EInverse DEF HasZ
<1>5. PICK kk \in Int : kk = k * k
  OBVIOUS
<1>6. zz = E(k * k, m) /\ zzz = E(k * k * k, m)
  BY <1>1, <1>4, <1>5, ESquare, EMult
<1>7. PICK P, P2 : P = Point(i, s) /\ P2 = Point(j, s) /\ IsPair(P) /\ IsPair(P2)
  BY <1>1
<1>8. /\ mont_mult(E(P[1] * (Z * Z), m), E(k * k, m), m) = E(P[1], m)
      /\ mont_mult(E(P[2] * (Z * Z * Z), m), E(k * k * k, m), m) = E(P[2], m)
      /\ mont_mult(E(P2[1] * (Z * Z), m), E(k * k, m), m) = E(P2[1], m)
      /\ mont_mult(E(P2[2] * (Z * Z * Z), m), E(k * k * k, m), m) = E(P2[2], m)
  BY <1>1, <1>2, <1>3, <1>7, WithoutZ
<1>9. FirstInAffine(v, i, zz, zzz, s)
  BY <1>2, <1>6, <1>7, <1>8 DEF FirstInAffine, First
<1>10. InAffine(v, j, zz, zzz, s)
  BY <1>2, <1>6, <1>7, <1>8 DEF InAffine, Second
<1>11. QED
  BY <1>9, <1>10

(* A number below p that is not zero, as one of the Montgomery domain. *)
LEMMA UnitOf ==
  ASSUME NEW s, IsCurve(s), NEW z \in 1 .. s.p.p - 1
  PROVE  \E f \in Int : z = E(f, s.p) /\ Unit(f, s)
<1>0. PICK m : m = s.p /\ Montgomery(m) /\ m.p \in Nat
  BY CurveIs
<1>1. PICK p \in Nat : m = s.p /\ p = m.p /\ Montgomery(m)
  BY <1>0
<1>2. z * m.rinv \in Int /\ E(z * m.rinv, m) = z
  BY <1>1, EOf
<1>3. PICK f \in Int : f = z * m.rinv
  BY <1>2
<1>4. ASSUME Congruent(f, 0, p) PROVE FALSE
  BY <1>1, <1>4, <1>2, <1>3, ESame, EZero
<1>5. QED
  BY <1>1, <1>2, <1>3, <1>4 DEF Unit

(* Twice H, with the Z that is given. *)
Onset(v, a, z, t5, s) == v = [a EXCEPT !.z = mont_mult(z, t5, s.p), !.x1 = a.x2, !.y1 = a.y2]
LEMMA OnsetIs ==
  ASSUME NEW s, IsCurve(s), NEW h \in Int, ~Zero(h, s), NEW g \in Context, Plain(g, Point(h, s), s),
         NEW z \in 1 .. s.p.p - 1, g.z = z,
         NEW H, H = sb_sw_point_initial_double(g, s), NEW a, a = sb_sw_point_mult_add_apply_z(H, s),
         NEW v, Onset(v, a, z, H.t5, s)
  PROVE  v \in Context /\ Keeps(v, g) /\ ~Zero(2 * h, s) /\ Joined(v, 2 * h, s)
<1>0. PICK m : m = s.p /\ Montgomery(m) /\ m.p \in Nat
  BY CurveIs
<1>1. PICK p \in Nat : m = s.p /\ p = m.p /\ Montgomery(m)
  BY <1>0
<1>2. /\ IsPair(Point(h, s)) /\ 2 * h \in Int /\ ~Zero(2 * h, s) /\ IsPair(Point(2 * h, s))
      /\ Doubles(Point(2 * h, s), Point(h, s), s.minus_a, m.p)
  BY <1>1, PointIs, Tangent
<1>3. PICK Y \in Int : Y = Point(h, s)[2] /\ Unit(Y, s)
  BY <1>1, <1>2, YNotZero DEF IsPair, Unit
<1>4. PICK Z \in Int : Z = 2 * Y
  OBVIOUS
<1>5. Unit(Z, s)
  <2>1. PICK t \in Int : t = 2
    OBVIOUS
  <2>2. Unit(t * Y, s)
    BY <1>3, <2>1, TwoUnit, UnitTimes
  <2>3. QED
    BY <1>4, <2>1, <2>2
<1>6. /\ H \in Context /\ Keeps(H, g) /\ H.z = g.z /\ H.t5 = E(Z, m)
      /\ Second(H, Point(2 * h, s), Z, m)
  BY <1>3, <1>4, <1>1, <1>2, SlopeIs, InitialDoubleIs DEF Plain
<1>7. PICK f \in Int : z = E(f, m) /\ Unit(f, s)
  BY <1>1, UnitOf
<1>8. PICK V \in Int : V = f * Z
  OBVIOUS
<1>9. Unit(V, s)
  BY <1>5, <1>7, <1>8, UnitTimes
<1>10. HasZ(H, f, s)
  BY <1>1, <1>6, <1>7 DEF HasZ
<1>11. a \in Context /\ Keeps(a, H) /\ Second(a, Point(2 * h, s), V, m)
  BY <1>1, <1>2, <1>6, <1>8, <1>10, ApplyZIs
<1>12. PICK w \in Int : w = E(V, m) /\ w = mont_mult(z, H.t5, m)
  BY <1>1, <1>6, <1>7, <1>8, EMult, EIs
<1>13. v = [a EXCEPT !.z = w, !.x1 = a.x2, !.y1 = a.y2]
  BY <1>1, <1>12 DEF Onset
<1>14. v \in Context /\ v.z = w /\ v.x1 = a.x2 /\ v.y1 = a.y2
  BY <1>11, <1>13 DEF Context
<1>15. Keeps(v, a)
  BY <1>11, <1>13 DEF Context, Keeps
<1>16. HasZ(v, V, s) /\ First(v, Point(2 * h, s), V, m)
  BY <1>1, <1>11, <1>12, <1>14 DEF HasZ, First, Second
<1>17. Joined(v, 2 * h, s)
  BY <1>1, <1>9, <1>16 DEF Joined
<1>18. QED
  BY <1>2, <1>6, <1>11, <1>14, <1>15, <1>17, KeepsBoth

(* Verification, with both scalars; and with the points that are added. *)
Ready(x, kp, kg, key, r, s) ==
  /\ x \in Context /\ x.px = Q(Point(key, s)[1], s.p) /\ x.py = Q(Point(key, s)[2], s.p)
  /\ x.z \in 1 .. s.p.p - 1 /\ x.k = kp /\ x.u2 = kg + 1 /\ x.u1 = r
  /\ x.state.res = TRUE
Tabled(g, y, x, kg, zz, zzz, s) ==
  g = [y EXCEPT !.u2 = kg,
                !.px = mont_mult(y.x2, zz, s.p), !.py = mont_mult(y.y2, zzz, s.p),
                !.u3 = mont_mult(y.x1, zz, s.p), !.u4 = mont_mult(y.y1, zzz, s.p),
                !.x2 = s.h_r[1], !.y2 = s.h_r[2], !.z = x.z]
LEMMA TabledIs ==
  ASSUME NEW s, IsCurve(s), NEW key \in Int, NEW h \in Int, IsOffset(h, s), ~Zero(h, s),
         NEW i \in Int, NEW j \in Int, ~Zero(i, s), ~Zero(j, s), j = h + key, i = h + key + 1,
         NEW x \in Context, NEW y \in Context, Keeps(y, x), NEW kg \in Int, NEW zz, NEW zzz,
         FirstInAffine(y, i, zz, zzz, s), InAffine(y, j, zz, zzz, s),
         NEW g, Tabled(g, y, x, kg, zz, zzz, s)
  PROVE  /\ g \in Context /\ g.k = x.k /\ g.u1 = x.u1 /\ g.u2 = kg /\ g.z = x.z /\ g.state = x.state
         /\ Plain(g, Point(h, s), s) /\ Table(g, key, h, s)
<1>1. Montgomery(s.p) /\ IsPair(Point(i, s)) /\ IsPair(Point(j, s)) /\ IsPair(Point(h, s))
  BY CurveIs, PointIs
<1>2. PICK a \in Int, b \in Int, a2 \in Int, b2 \in Int :
        /\ a = mont_mult(y.x2, zz, s.p) /\ a = E(Point(j, s)[1], s.p)
        /\ b = mont_mult(y.y2, zzz, s.p) /\ b = E(Point(j, s)[2], s.p)
        /\ a2 = mont_mult(y.x1, zz, s.p) /\ a2 = E(Point(i, s)[1], s.p)
        /\ b2 = mont_mult(y.y1, zzz, s.p) /\ b2 = E(Point(i, s)[2], s.p)
  BY <1>1, EIs DEF IsPair, FirstInAffine, InAffine
<1>3. PICK hx \in Int, hy \in Int :
        /\ hx = s.h_r[1] /\ hx = E(Point(h, s)[1], s.p)
        /\ hy = s.h_r[2] /\ hy = E(Point(h, s)[2], s.p)
  BY <1>1, EIs DEF IsPair, IsOffset
<1>4. PICK z \in Int : z = x.z
  BY DEF Context
<1>5. g = [y EXCEPT !.u2 = kg, !.px = a, !.py = b, !.u3 = a2, !.u4 = b2, !.x2 = hx, !.y2 = hy, !.z = z]
  BY <1>2, <1>3, <1>4 DEF Tabled
<1>6. g \in Context
  BY <1>5 DEF Context
<1>7. /\ g.u2 = kg /\ g.px = a /\ g.py = b /\ g.u3 = a2 /\ g.u4 = b2 /\ g.x2 = hx /\ g.y2 = hy
      /\ g.z = z /\ g.k = y.k /\ g.u1 = y.u1 /\ g.state = y.state
  BY <1>5 DEF Context
<1>8. Plain(g, Point(h, s), s)
  BY <1>3, <1>7 DEF Plain
<1>9. Table(g, key, h, s)
  BY <1>2, <1>7 DEF Table
<1>10. y.k = x.k /\ y.u1 = x.u1 /\ y.state = x.state
  BY DEF Keeps
<1>11. QED
  BY <1>4, <1>6, <1>7, <1>8, <1>9, <1>10

LEMMA AddInvertZIs ==
  ASSUME NEW s, NEW kp, NEW kg, NEW key, NEW h, NEW f, Walk(kp, kg, key, h, f, s),
         kg < TwoTo[s.bits], Differ(key, h, s),
         NEW kh \in Int, kh = key + h, NEW o \in Int, o = 1, Differ(kh, o, s),
         NEW r, NEW x, Ready(x, kp, kg, key, r, s), NEW u, u = AddInvertZ(x, s)
  PROVE  Adding(u, kp, kg, key, h, f, r, s) /\ u.state.stage = VERIFY_LADDER
<1> DEFINE m == s.p
           px == mont_convert(x.px, m)
           py == mont_convert(x.py, m)
           y == [x EXCEPT !.x1 = px, !.y1 = py, !.x2 = s.h_r[1], !.y2 = s.h_r[2], !.z = m.r_mod_p]
           PH == sb_sw_point_mult_add_z_update(y, s)
           w == [PH EXCEPT !.x2 = s.g_r[1], !.y2 = s.g_r[2]]
           PGH == sb_sw_point_mult_add_z_update(sb_sw_point_mult_add_apply_z(w, s), s)
           zinv == mod_inv_r(PGH.z, m)
           zz == mont_square(zinv, m)
           zzz == mont_mult(zinv, zz, m)
           less == (x.u2 - 1) % TwoTo[s.bits]
           g == [PGH EXCEPT !.u2 = less,
                            !.px = mont_mult(PGH.x2, zz, m), !.py = mont_mult(PGH.y2, zzz, m),
                            !.u3 = mont_mult(PGH.x1, zz, m), !.u4 = mont_mult(PGH.y1, zzz, m),
                            !.x2 = s.h_r[1], !.y2 = s.h_r[2], !.z = x.z]
           H == sb_sw_point_initial_double(g, s)
           start == sb_sw_point_mult_add_apply_z(H, s)
           v == [start EXCEPT !.z = mont_mult(x.z, H.t5, m), !.x1 = start.x2, !.y1 = start.y2]
           st == [x.state EXCEPT !.i = s.bits - 1, !.stage = VERIFY_LADDER]
<1>1. u = Saved(v, st)
  BY Zenon DEF AddInvertZ
<1>2. Begun(y, x, px, py, s) /\ Placed(w, PH, s.g_r[1], s.g_r[2]) /\ Onset(v, start, x.z, H.t5, s)
  BY DEF Begun, Placed, Onset
<1>3. Tabled(g, PGH, x, less, zz, zzz, s)
  BY DEF Tabled
<1>4. PH = sb_sw_point_mult_add_z_update(y, s)
  OBVIOUS
<1>5. PGH = sb_sw_point_mult_add_z_update(sb_sw_point_mult_add_apply_z(w, s), s)
  OBVIOUS
<1>6. zinv = mod_inv_r(PGH.z, m) /\ zz = mont_square(zinv, m) /\ zzz = mont_mult(zinv, zz, m)
  OBVIOUS
<1>7. H = sb_sw_point_initial_double(g, s) /\ start = sb_sw_point_mult_add_apply_z(H, s)
  OBVIOUS
<1>8. st = [x.state EXCEPT !.i = s.bits - 1, !.stage = VERIFY_LADDER]
  OBVIOUS
<1>9. px = mont_convert(x.px, m) /\ py = mont_convert(x.py, m) /\ m = s.p
  OBVIOUS
<1>10. less = (x.u2 - 1) % TwoTo[s.bits]
  OBVIOUS
<1> HIDE DEF m, px, py, y, PH, w, PGH, zinv, zz, zzz, less, g, H, start, v, st
<1>11. /\ IsCurve(s) /\ kp \in Nat /\ kg \in Nat /\ key \in Int /\ h \in Int /\ IsOffset(h, s)
       /\ Path(f, kp, kg, h, key, s)
  BY DEF Walk
<1>12. /\ x \in Context /\ x.state \in States /\ x.z \in 1 .. s.p.p - 1
       /\ x.k = kp /\ x.u2 = kg + 1 /\ x.u1 = r /\ x.state.res = TRUE
  BY DEF Ready, Context
<1>13. ~Zero(key, s) /\ ~Zero(h, s) /\ ~Zero(kh, s) /\ kh + o \in Int /\ ~Zero(kh + o, s)
  BY <1>11, Chord DEF Differ
<1>14. px = E(Point(key, s)[1], s.p) /\ py = E(Point(key, s)[2], s.p)
  <2>1. Montgomery(s.p) /\ IsPair(Point(key, s))
    BY <1>11, <1>13, CurveIs, PointIs
  <2>2. PICK X \in Int, Y \in Int : X = Point(key, s)[1] /\ Y = Point(key, s)[2]
    BY <2>1 DEF IsPair
  <2>3. PICK a \in Int, b \in Int : a = Q(X, s.p) /\ b = Q(Y, s.p) /\ x.px = a /\ x.py = b
    BY <2>1, <2>2, QIs DEF Ready
  <2>4. mont_convert(a, s.p) = E(a, s.p) /\ mont_convert(b, s.p) = E(b, s.p)
    BY <2>1, EConvert
  <2>5. E(Q(X, s.p), s.p) = E(X, s.p) /\ E(Q(Y, s.p), s.p) = E(Y, s.p)
    BY <2>1, EConvert
  <2>6. QED
    BY <1>9, <2>2, <2>3, <2>4, <2>5
<1>15. PGH \in Context /\ Keeps(PGH, x) /\ TwoPoints(PGH, kh + o, kh, s)
  BY <1>2, <1>4, <1>5, <1>11, <1>12, <1>14, BothSums
<1>16. FirstInAffine(PGH, kh + o, zz, zzz, s) /\ InAffine(PGH, kh, zz, zzz, s)
  BY <1>6, <1>9, <1>11, <1>13, <1>15, AffineTable
<1>17. less = kg
  BY <1>11, <1>12, <1>10, CurveIs, Radix, Below
<1>18. kh = h + key /\ kh + o = h + key + 1
  BY <1>11
<1>19. /\ g \in Context /\ g.k = x.k /\ g.u1 = x.u1 /\ g.u2 = kg /\ g.z = x.z /\ g.state = x.state
       /\ Plain(g, Point(h, s), s) /\ Table(g, key, h, s)
  <2>1. Tabled(g, PGH, x, kg, zz, zzz, s) /\ kg \in Int
    BY <1>3, <1>11, <1>17
  <2>2. QED
    BY <1>11, <1>12, <1>13, <1>15, <1>16, <1>18, <2>1, TabledIs
<1>20. v \in Context /\ Keeps(v, g) /\ ~Zero(2 * h, s) /\ Joined(v, 2 * h, s)
  BY <1>2, <1>7, <1>11, <1>12, <1>13, <1>19, OnsetIs
<1>21. PICK top \in Int : top = s.bits - 1 /\ top \in -1 .. s.bits - 1 /\ s.bits - 1 - top = 0
  <2>1. s.bits \in Nat
    BY <1>11, CurveIs
  <2>2. QED
    BY <2>1
<1>22. st \in States /\ st.i = top /\ st.stage = VERIFY_LADDER /\ st.res = TRUE
  <2>1. PICK stage \in Int : stage = VERIFY_LADDER
    BY DEF VERIFY_LADDER
  <2>2. st = [x.state EXCEPT !.i = top, !.stage = stage]
    BY <1>8, <1>21, <2>1
  <2>3. st \in States
    BY <1>12, <2>2 DEF States
  <2>4. st.i = top /\ st.stage = stage /\ st.res = x.state.res
    BY <1>12, <2>2 DEF States
  <2>5. QED
    BY <1>12, <2>1, <2>3, <2>4
<1>23. /\ u \in Context /\ u.state = st
       /\ u.k = v.k /\ u.z = v.z /\ u.px = v.px /\ u.py = v.py
       /\ u.u1 = v.u1 /\ u.u2 = v.u2 /\ u.u3 = v.u3 /\ u.u4 = v.u4
       /\ u.x1 = v.x1 /\ u.y1 = v.y1
  BY <1>1, <1>20, <1>22, SavedIs
<1>24. u.k = kp /\ u.u1 = r /\ u.u2 = kg
  BY <1>12, <1>19, <1>20, <1>23 DEF Keeps
<1>25. Table(u, key, h, s)
  BY <1>19, <1>20, <1>23 DEF Table, Keeps
<1>26. Joined(u, 2 * h, s)
  BY <1>20, <1>23 DEF Joined, HasZ, First
<1>27. f[s.bits - 1 - u.state.i] = 2 * h
  BY <1>11, <1>21, <1>22, <1>23 DEF Path
<1>28. u.state.i \in -1 .. s.bits - 1 /\ u.state.res = TRUE /\ u.state.stage = VERIFY_LADDER
  BY <1>21, <1>22, <1>23
<1>29. Adding(u, kp, kg, key, h, f, r, s)
  BY <1>20, <1>23, <1>24, <1>25, <1>26, <1>27, <1>28 DEF Adding
<1>30. QED
  BY <1>28, <1>29

VerifyGiven(t, s) ==
  /\ IsCurve(s) /\ t.point \in 1 .. s.n.p - 1 /\ t.z \in 1 .. s.p.p - 1
  /\ t.r \in Nat /\ t.s \in Nat /\ t.message \in Nat
LEMMA VerifyTask ==
  ASSUME NEW t \in Tasks, t.kind = "verify", NEW s, s = Curves[t.curve]
  PROVE  VerifyGiven(t, s)
<1>1. IsCurve(s) /\ IsTask(t, s)
  BY TaskIs
<1>2. /\ t.point \in 1 .. s.n.p - 1 /\ t.z \in 1 .. s.p.p - 1
      /\ t.r \in 0 .. TwoTo[s.bits] - 1 /\ t.s \in 0 .. TwoTo[s.bits] - 1
      /\ t.message \in 0 .. TwoTo[s.bits] - 1
  BY <1>1 DEF IsTask
<1>3. TwoTo[s.bits] \in Nat
  BY <1>1, CurveIs, Radix
<1>4. t.r \in Nat /\ t.s \in Nat /\ t.message \in Nat
  BY <1>2, <1>3
<1>5. QED
  BY <1>1, <1>2, <1>4 DEF VerifyGiven

(* A signature and a message that are in range. *)
Proper(t, n) == t.r \in 1 .. n - 1 /\ t.s \in 1 .. n - 1 /\ t.message % n # 0

(* What verification begins with. *)
Verifying(x, t, s) ==
  /\ x \in Context /\ x.px = Q(Point(t.point, s)[1], s.p) /\ x.py = Q(Point(t.point, s)[2], s.p)
  /\ x.z = t.z /\ x.u1 = t.r /\ x.u2 = t.message /\ x.u3 = t.s
  /\ x.state.res = TRUE /\ x.state.i = 0 /\ x.state.stage = VERIFY_INV_S

LEMMA VerifyStartIs ==
  ASSUME NEW t \in Tasks, t.kind = "verify", NEW s, s = Curves[t.curve],
         NEW u, u = sb_sw_verify_start(Asked(t))
  PROVE  Verifying(u, t, s)
<1>1. /\ IsCurve(s) /\ t.point \in 1 .. s.n.p - 1 /\ t.z \in 1 .. s.p.p - 1
      /\ t.r \in Nat /\ t.s \in Nat /\ t.message \in Nat
  BY VerifyTask DEF VerifyGiven
<1>2. Montgomery(s.p) /\ s.n.p \in Nat /\ s.p.p \in Nat
  BY <1>1, CurveIs
<1>3. PICK z \in Int, r \in Int, e \in Int, q \in Int : z = t.z /\ r = t.r /\ e = t.message /\ q = t.s
  BY <1>1, <1>2
<1>4. Point(t.point, s) = s.multiples[t.point] /\ ~Zero(t.point, s) /\ t.point \in Int
  BY <1>1, <1>2, PlainPoint
<1>5. PICK X \in Int, Y \in Int :
        X = s.multiples[t.point][1] /\ Y = s.multiples[t.point][2]
        /\ X = Point(t.point, s)[1] /\ Y = Point(t.point, s)[2]
  BY <1>1, <1>4, PointIs DEF IsPair
<1>6. PICK px \in Int, py \in Int : px = Q(X, s.p) /\ py = Q(Y, s.p)
  BY <1>2, <1>5, QIs
<1>7. PICK x : x = Asked(t)
  OBVIOUS
<1>8. x = [Blank EXCEPT !.z = z, !.px = px, !.py = py, !.u1 = r, !.u2 = e, !.u3 = q]
  BY <1>3, <1>5, <1>6, <1>7 DEF Asked, mod_reduce
<1>9. x \in Context
  BY <1>8, BlankIs DEF Context
<1>10. x.z = z /\ x.px = px /\ x.py = py /\ x.u1 = r /\ x.u2 = e /\ x.u3 = q
  BY <1>8, BlankIs DEF Context
<1>11. PICK st : /\ st = FreshState("verify") /\ st \in States /\ st.stage = VERIFY_INV_S
                 /\ st.i = 0 /\ st.res = TRUE
  <2>1. "verify" \in Operations
    BY DEF Operations
  <2>2. PICK st : st = FreshState("verify") /\ st \in States
    BY <2>1, FreshIs
  <2>3. st = [operation |-> "verify", stage |-> 0, i |-> 0,
              inv_k |-> FALSE, k_one |-> FALSE, swap |-> 0, res |-> ("verify" = "verify")]
    BY <2>2 DEF FreshState
  <2>4. st.stage = 0 /\ st.i = 0 /\ st.res = ("verify" = "verify")
    BY <2>3
  <2>5. QED
    BY <2>2, <2>4 DEF VERIFY_INV_S
<1>12. u = Saved(x, st)
  BY <1>7, <1>11 DEF sb_sw_verify_start
<1>13. /\ u \in Context /\ u.state = st /\ u.z = x.z /\ u.px = x.px /\ u.py = x.py
       /\ u.u1 = x.u1 /\ u.u2 = x.u2 /\ u.u3 = x.u3
  BY <1>9, <1>11, <1>12, SavedIs
<1>14. QED
  BY <1>3, <1>5, <1>6, <1>10, <1>11, <1>13 DEF Verifying

(* Nothing more is accepted. *)
Refusing(x) ==
  /\ "state" \in DOMAIN x /\ x.state \in States
  /\ x.state.res = FALSE /\ x.state.i >= -1

(* The scalars, when the signature and the message are in range. *)
LEMMA InvertSIs ==
  ASSUME NEW s, IsCurve(s), NEW n, n = s.n.p, NEW t, NEW x, Verifying(x, t, s),
         t.r \in Nat, t.s \in Nat, t.message \in Nat, t.z \in 1 .. s.p.p - 1,
         NEW u, u = InvertS(x, s)
  PROVE  /\ Proper(t, n) => /\ Ready(u, KeyTimes(t.r, t.s, n), GenTimes(t.message, t.s, n),
                                     t.point, t.r, s)
                            /\ u.state.stage = VERIFY_INV_Z
         /\ ~Proper(t, n) => Refusing(u)
<1> DEFINE rc == Checked(x.u1, s.n)
           qc == Checked(x.u3, s.n)
           message == mod_reduce(x.u2, s.n)
           sinv == mod_inv_r(mont_convert(qc.k, s.n), s.n)
           u2 == mont_mult(message, sinv, s.n)
           k == mont_mult(rc.k, sinv, s.n)
           good == x.state.res /\ rc.ok /\ qc.ok /\ message # s.n.p
           st == [x.state EXCEPT !.res = good, !.stage = VERIFY_INV_Z]
           w == [x EXCEPT !.u1 = rc.k, !.u3 = qc.k, !.u2 = u2, !.k = k]
<1>1. u = Saved(w, st)
  BY Zenon DEF InvertS, sb_sw_scalar_validate
<1>2. x \in Context /\ x.state \in States /\ x.state.res = TRUE /\ x.state.i = 0
  BY DEF Verifying, Context
<1>3. x.u1 = t.r /\ x.u3 = t.s /\ x.u2 = t.message
  BY DEF Verifying
<1>4. Montgomery(s.n) /\ n \in Nat \ {0}
  BY CurveIs
<1>5. PICK r \in Nat, q \in Nat, e \in Nat : r = t.r /\ q = t.s /\ e = t.message
  OBVIOUS
<1>6. /\ rc.ok \in BOOLEAN /\ rc.k \in Nat /\ rc.ok <=> r \in 1 .. n - 1
      /\ rc.ok => rc.k = r
  BY <1>3, <1>4, <1>5, CheckedIs
<1>7. /\ qc.ok \in BOOLEAN /\ qc.k \in Nat /\ qc.ok <=> q \in 1 .. n - 1
      /\ qc.ok => qc.k = q
  BY <1>3, <1>4, <1>5, CheckedIs
<1>8. message # n <=> e % n # 0
  BY <1>3, <1>4, <1>5, QuasiRest DEF mod_reduce
<1>9. st \in [operation : Operations, stage : Int, i : Int,
              inv_k : BOOLEAN, k_one : BOOLEAN, swap : Int, res : BOOLEAN]
  <2>1. VERIFY_INV_Z \in Int /\ good \in BOOLEAN
    BY DEF VERIFY_INV_Z
  <2> HIDE DEF good
  <2>2. QED
    BY <1>2, <2>1 DEF States
<1>10. st.res = good /\ st.stage = VERIFY_INV_Z /\ st.i = 0
  <2> HIDE DEF good
  <2>1. QED
    BY <1>2 DEF States
<1> HIDE DEF w, st
<1>101. good \in BOOLEAN
  OBVIOUS
<1>11. good <=> Proper(t, n)
  BY <1>2, <1>5, <1>6, <1>7, <1>8 DEF Proper
<1> HIDE DEF good
<1>12. ASSUME ~Proper(t, n) PROVE Refusing(u)
  <2>1. "state" \in DOMAIN w
    BY <1>2 DEF w, Context
  <2>2. "state" \in DOMAIN u /\ u.state = st
    BY <1>1, <2>1 DEF Saved
  <2>3. st.res = FALSE
    BY <1>101, <1>11, <1>12, <1>10
  <2>4. QED
    BY <1>9, <1>10, <2>2, <2>3 DEF Refusing, States
<1>13. ASSUME Proper(t, n)
       PROVE  /\ Ready(u, KeyTimes(t.r, t.s, n), GenTimes(t.message, t.s, n), t.point, t.r, s)
              /\ u.state.stage = VERIFY_INV_Z
  <2>1. r \in 1 .. n - 1 /\ q \in 1 .. n - 1 /\ e % n # 0
    BY <1>5, <1>13 DEF Proper
  <2>2. rc.k = r /\ qc.k = q
    BY <1>6, <1>7, <2>1
  <2>3. PICK kp \in Int, kg \in Int : kp = KeyTimes(r, q, n) /\ kg = GenTimes(e, q, n)
                                      /\ u2 = kg + 1 /\ k = kp
    <3>1. sinv = mod_inv_r(mont_convert(q, s.n), s.n)
      BY <2>2
    <3> HIDE DEF sinv, rc, qc
    <3>2. /\ mont_mult(r, sinv, s.n) = KeyTimes(r, q, n)
          /\ mont_mult(mod_reduce(e, s.n), sinv, s.n) = GenTimes(e, q, n) + 1
          /\ KeyTimes(r, q, n) \in 1 .. n - 1 /\ GenTimes(e, q, n) \in 0 .. n - 2
      BY <1>5, <2>1, <3>1, ScalarsInverted
    <3>3. KeyTimes(r, q, n) \in Int /\ GenTimes(e, q, n) \in Int
      BY <1>4, <3>2
    <3>4. QED
      BY <1>3, <1>5, <2>2, <3>2, <3>3
  <2> HIDE DEF u2, k, rc, qc
  <2>4. PICK g \in Int : g = kg + 1
    OBVIOUS
  <2>5. PICK y : y = [x EXCEPT !.u1 = r, !.u3 = q, !.u2 = g, !.k = kp] /\ y = w
    BY <2>2, <2>3, <2>4 DEF w
  <2>50. r \in Int /\ q \in Int
    OBVIOUS
  <2>6. y \in Context
    BY <1>2, <2>5, <2>50 DEF Context
  <2>7. y.u1 = r /\ y.u2 = g /\ y.k = kp /\ y.z = x.z /\ y.px = x.px /\ y.py = x.py
    BY <1>2, <2>5 DEF Context
  <2>8. st \in States
    BY <1>9 DEF States
  <2>81. PICK v : v = st /\ v \in States /\ u = Saved(y, v)
    BY <1>1, <2>5, <2>8
  <2>9. /\ u \in Context /\ u.state = st /\ u.k = y.k /\ u.z = y.z /\ u.px = y.px /\ u.py = y.py
        /\ u.u1 = y.u1 /\ u.u2 = y.u2
    BY <2>6, <2>81, SavedIs
  <2>10. st.res = TRUE
    BY <1>10, <1>11, <1>13, Zenon
  <2>11. x.z = t.z /\ x.px = Q(Point(t.point, s)[1], s.p) /\ x.py = Q(Point(t.point, s)[2], s.p)
    BY DEF Verifying
  <2>12. Ready(u, kp, kg, t.point, t.r, s)
    BY <1>5, <2>4, <2>7, <2>9, <2>10, <2>11 DEF Ready
  <2>13. QED
    BY <1>5, <1>10, <2>3, <2>9, <2>12
<1>14. QED
  BY <1>12, <1>13

(* What the operations on points leave of any context: its state. *)
Carries(u, x) == "state" \in DOMAIN x => "state" \in DOMAIN u /\ u.state = x.state
LEMMA CarriesBoth ==
  ASSUME NEW u, NEW v, NEW w, Carries(u, v), Carries(v, w)
  PROVE  Carries(u, w)
BY DEF Carries

LEMMA PointsCarry ==
  ASSUME NEW x, NEW s
  PROVE  /\ Carries(sb_sw_point_mult_add_z_update(x, s), x)
         /\ Carries(sb_sw_point_mult_add_apply_z(x, s), x)
         /\ Carries(sb_sw_point_initial_double(x, s), x)
<1>1. Carries(sb_sw_point_co_z_add_update_zup(x, s), x)
  BY DEF sb_sw_point_co_z_add_update_zup, Carries
<1>2. Carries(sb_sw_point_mult_add_apply_z(x, s), x)
  BY DEF sb_sw_point_mult_add_apply_z, Carries
<1>3. Carries(sb_sw_point_initial_double(x, s), x)
  BY DEF sb_sw_point_initial_double, Carries
<1>4. Carries(sb_sw_point_mult_add_z_update(x, s), x)
  <2> DEFINE t6 == mod_sub(x.x2, x.x1, s.p)
             y == [x EXCEPT !.t6 = t6, !.z = mont_mult(t6, x.z, s.p)]
  <2>1. Carries(y, x)
    BY DEF Carries
  <2>2. sb_sw_point_mult_add_z_update(x, s) = sb_sw_point_co_z_add_update_zup(y, s)
    BY DEF sb_sw_point_mult_add_z_update
  <2> HIDE DEF y
  <2>3. Carries(sb_sw_point_co_z_add_update_zup(y, s), y)
    BY DEF sb_sw_point_co_z_add_update_zup, Carries
  <2>4. QED
    BY <2>1, <2>2, <2>3, CarriesBoth
<1>5. QED
  BY <1>2, <1>3, <1>4

LEMMA SelectCarries ==
  ASSUME NEW x, NEW s, NEW bp, NEW bg
  PROVE  Carries(sb_sw_point_mult_add_select(bp, bg, x, s), x)
<1> DEFINE chosen == CASE bp = 0 /\ bg = 0 -> s.h_r
                       [] bp = 0 /\ bg = 1 -> s.g_h_r
                       [] bp = 1 /\ bg = 0 -> <<x.px, x.py>>
                       [] bp = 1 /\ bg = 1 -> <<x.u3, x.u4>>
           y == [x EXCEPT !.x2 = chosen[1], !.y2 = chosen[2]]
<1>1. sb_sw_point_mult_add_select(bp, bg, x, s) = sb_sw_point_mult_add_apply_z(y, s)
  BY Zenon DEF sb_sw_point_mult_add_select
<1> HIDE DEF chosen
<1>2. Carries(y, x)
  BY DEF Carries
<1> HIDE DEF y
<1>3. QED
  BY <1>1, <1>2, PointsCarry, CarriesBoth

(* What Saved does to any context. *)
LEMMA SavedState ==
  ASSUME NEW x, "state" \in DOMAIN x, NEW st
  PROVE  "state" \in DOMAIN Saved(x, st) /\ Saved(x, st).state = st
BY DEF Saved

LEMMA StepRefuses ==
  ASSUME NEW x, NEW s, Refusing(x), x.state.i >= 0
  PROVE  /\ Refusing(AddStep(x, s)) /\ AddStep(x, s).state.i = x.state.i - 1
         /\ AddStep(x, s).state.stage = x.state.stage
<1>1. PICK i \in Int : i = x.state.i /\ i >= 0 /\ "state" \in DOMAIN x /\ x.state \in States
  BY DEF Refusing, States
<1> DEFINE chosen == sb_sw_point_mult_add_select(test_bit(x.k, i), test_bit(x.u2, i), x, s)
           once == sb_sw_point_mult_add_z_update(chosen, s)
           twice == IF i < s.bits - 1 THEN sb_sw_point_mult_add_z_update(once, s) ELSE once
<1>2. AddStep(x, s) = [twice EXCEPT !.state.i = @ - 1]
  BY <1>1 DEF AddStep
<1>3. Carries(chosen, x) /\ Carries(once, chosen)
  BY SelectCarries, PointsCarry
<1>4. Carries(sb_sw_point_mult_add_z_update(once, s), once)
  BY PointsCarry
<1> HIDE DEF chosen, once
<1>5. Carries(twice, once)
  BY <1>4 DEF Carries
<1>6. Carries(twice, x)
  BY <1>3, <1>5, CarriesBoth
<1> HIDE DEF twice
<1>7. "state" \in DOMAIN twice /\ twice.state = x.state
  BY <1>1, <1>6 DEF Carries
<1>8. PICK st : st = [x.state EXCEPT !.i = i - 1]
  OBVIOUS
<1>9. st \in States /\ st.i = i - 1 /\ st.stage = x.state.stage /\ st.res = x.state.res
  <2>1. PICK j \in Int : j = i - 1
    OBVIOUS
  <2>2. QED
    BY <1>1, <1>8, <2>1 DEF States
<1>10. AddStep(x, s) = [twice EXCEPT !.state = st]
  BY <1>1, <1>2, <1>7, <1>8 DEF States
<1>11. PICK u : u = AddStep(x, s)
  OBVIOUS
<1>12. "state" \in DOMAIN u /\ u.state = st
  BY <1>7, <1>10, <1>11
<1>13. x.state.res = FALSE
  BY DEF Refusing
<1>14. Refusing(u)
  BY <1>1, <1>9, <1>12, <1>13 DEF Refusing
<1>15. QED
  BY <1>1, <1>9, <1>11, <1>12, <1>14

LEMMA AddLadderRefuses ==
  ASSUME NEW x, NEW s, Refusing(x), POINT_ITERATIONS \in Nat \ {0}
  PROVE  Refusing(AddLadder(x, s))
<1> DEFINE N == POINT_ITERATIONS
           g == CHOOSE g : AddRun(g, N, x, s)
           end == g[AtMost(x.state.i + 1)]
           u == AddLadder(x, s)
<1>1. IsAdded(u, end, s)
  BY Zenon DEF AddLadder, AddRun, IsAdded
<1>2. AddRun(g, N, x, s)
  BY AddRuns
<1> HIDE DEF g, u
<1>3. PICK i \in Int : i = x.state.i /\ i >= -1
  BY DEF Refusing, States
<1>4. PICK a \in Nat : a = AtMost(x.state.i + 1) /\ a <= N /\ a <= i + 1
  BY <1>3 DEF AtMost
<1>5. \A j \in 0 .. N : g[j] = IF j = 0 THEN x ELSE AddStep(g[j - 1], s)
  BY <1>2 DEF AddRun
<1> DEFINE Good(v, j) == Refusing(v) /\ v.state.i = i - j
           L == {j \in Nat : j <= a => Good(g[j], j)}
<1>6. 0 \in L
  BY <1>5, <1>3
<1>7. ASSUME NEW j \in Nat, j \in L PROVE j + 1 \in L
  <2> SUFFICES ASSUME j + 1 <= a PROVE Good(g[j + 1], j + 1)
    OBVIOUS
  <2>1. Good(g[j], j)
    BY <1>4, <1>7
  <2>2. PICK w : w = g[j]
    OBVIOUS
  <2>3. g[j + 1] = AddStep(w, s)
    BY <1>4, <1>5, <2>2
  <2>4. w.state.i >= 0 /\ Refusing(w)
    BY <1>3, <1>4, <2>1, <2>2
  <2>5. PICK y : y = AddStep(w, s)
    OBVIOUS
  <2>6. Refusing(y) /\ y.state.i = w.state.i - 1
    BY <2>4, <2>5, StepRefuses
  <2>7. y.state.i = i - (j + 1)
    BY <1>3, <2>1, <2>2, <2>6
  <2>8. QED
    BY <2>3, <2>5, <2>6, <2>7
<1> HIDE DEF L, Good
<1>8. Nat \subseteq L
  BY <1>6, <1>7, Induction
<1>9. Good(g[a], a)
  BY <1>8 DEF L
<1>10. end = g[a]
  BY <1>4
<1> HIDE DEF end
<1>11. Refusing(end)
  BY <1>9, <1>10 DEF Good
<1>12. PICK v : v = end /\ Refusing(v) /\ IsAdded(u, v, s)
  BY <1>1, <1>11
<1>13. "state" \in DOMAIN v /\ v.state \in States /\ v.state.res = FALSE /\ v.state.i >= -1
  BY <1>12 DEF Refusing
<1>14. CASE v.state.i >= 0
  BY <1>12, <1>14, <1>13, SavedState DEF IsAdded, Refusing, u
<1>15. CASE ~(v.state.i >= 0)
  <2> DEFINE w == [v EXCEPT !.x1 = mont_reduce(@, s.p), !.y1 = mont_reduce(@, s.p)]
             st == [v.state EXCEPT !.stage = VERIFY_TEST]
  <2>1. u = Saved(w, st)
    BY <1>12, <1>15 DEF IsAdded
  <2>2. "state" \in DOMAIN w
    BY <1>13
  <2>3. st \in States /\ st.res = FALSE /\ st.i = v.state.i
    BY <1>13 DEF States, VERIFY_TEST
  <2> HIDE DEF w, st
  <2>4. "state" \in DOMAIN u /\ u.state = st
    BY <2>1, <2>2, SavedState
  <2>5. Refusing(u)
    BY <1>13, <2>3, <2>4 DEF Refusing
  <2>6. QED
    BY <2>5 DEF u
<1>16. QED
  BY <1>14, <1>15

LEMMA AddInvertZRefuses ==
  ASSUME NEW s, IsCurve(s), NEW x, Refusing(x)
  PROVE  Refusing(AddInvertZ(x, s))
<1> DEFINE m == s.p
           px == mont_convert(x.px, m)
           py == mont_convert(x.py, m)
           y == [x EXCEPT !.x1 = px, !.y1 = py, !.x2 = s.h_r[1], !.y2 = s.h_r[2], !.z = m.r_mod_p]
           PH == sb_sw_point_mult_add_z_update(y, s)
           w == [PH EXCEPT !.x2 = s.g_r[1], !.y2 = s.g_r[2]]
           joined == sb_sw_point_mult_add_apply_z(w, s)
           PGH == sb_sw_point_mult_add_z_update(joined, s)
           zinv == mod_inv_r(PGH.z, m)
           zz == mont_square(zinv, m)
           zzz == mont_mult(zinv, zz, m)
           g == [PGH EXCEPT !.u2 = (x.u2 - 1) % TwoTo[s.bits],
                            !.px = mont_mult(PGH.x2, zz, m), !.py = mont_mult(PGH.y2, zzz, m),
                            !.u3 = mont_mult(PGH.x1, zz, m), !.u4 = mont_mult(PGH.y1, zzz, m),
                            !.x2 = s.h_r[1], !.y2 = s.h_r[2], !.z = x.z]
           H == sb_sw_point_initial_double(g, s)
           start == sb_sw_point_mult_add_apply_z(H, s)
           v == [start EXCEPT !.z = mont_mult(x.z, H.t5, m), !.x1 = start.x2, !.y1 = start.y2]
           st == [x.state EXCEPT !.i = s.bits - 1, !.stage = VERIFY_LADDER]
           u == AddInvertZ(x, s)
<1>1. u = Saved(v, st)
  BY Zenon DEF AddInvertZ
<1>2. Carries(y, x)
  BY DEF Carries
<1> HIDE DEF y, px, py
<1>3. Carries(PH, y)
  BY PointsCarry
<1> HIDE DEF PH
<1>4. Carries(w, PH)
  BY DEF Carries
<1> HIDE DEF w
<1>5. Carries(joined, w)
  BY PointsCarry
<1> HIDE DEF joined
<1>6. Carries(PGH, joined)
  BY PointsCarry
<1> HIDE DEF PGH, zz, zzz, zinv, m
<1>7. Carries(g, PGH)
  BY DEF Carries
<1> HIDE DEF g
<1>8. Carries(H, g)
  BY PointsCarry
<1> HIDE DEF H
<1>9. Carries(start, H)
  BY PointsCarry
<1> HIDE DEF start
<1>10. Carries(v, start)
  BY DEF Carries
<1> HIDE DEF v
<1>11. "state" \in DOMAIN v
  <2>1. "state" \in DOMAIN x
    BY DEF Refusing
  <2>2. QED
    BY <1>2, <1>3, <1>4, <1>5, <1>6, <1>7, <1>8, <1>9, <1>10, <2>1 DEF Carries
<1>12. st \in States /\ st.res = FALSE /\ st.i >= -1
  <2>1. PICK top \in Int, stage \in Int : top = s.bits - 1 /\ stage = VERIFY_LADDER /\ top >= -1
    BY CurveIs DEF VERIFY_LADDER
  <2>2. PICK t : t = [x.state EXCEPT !.i = top, !.stage = stage]
    OBVIOUS
  <2>3. t = st
    BY <2>1, <2>2
  <2> HIDE DEF st
  <2>4. x.state \in States /\ x.state.res = FALSE
    BY DEF Refusing
  <2>5. t \in States
    BY <2>2, <2>4 DEF States
  <2>6. t.res = FALSE /\ t.i = top
    BY <2>2, <2>4 DEF States
  <2>7. QED
    BY <2>1, <2>3, <2>5, <2>6
<1> HIDE DEF st, u
<1>13. "state" \in DOMAIN u /\ u.state = st
  BY <1>1, <1>11, SavedState
<1>14. Refusing(u)
  BY <1>12, <1>13 DEF Refusing
<1>15. QED
  BY <1>14 DEF u

LEMMA TestRefuses ==
  ASSUME NEW s, NEW x, Refusing(x)
  PROVE  Refusing(Test(x, s))
<1> DEFINE ver == \/ mont_mult(x.u1, mont_square(x.z, s.p), s.p) = x.x1
                  \/ x.u1 < s.p.p - s.n.p
                     /\ mont_mult(mod_add(x.u1, s.n.p, s.p), mont_square(x.z, s.p), s.p) = x.x1
           some == ~(x.x1 = s.p.p /\ x.y1 = s.p.p)
           st == [x.state EXCEPT !.res = x.state.res /\ some /\ ver, !.stage = VERIFY_DONE]
           u == Test(x, s)
<1>1. u = Saved(x, st)
  BY Zenon DEF Test
<1>2. x.state \in States /\ x.state.res = FALSE /\ x.state.i >= -1 /\ "state" \in DOMAIN x
  BY DEF Refusing
<1> HIDE DEF some, ver, u
<1>3. (x.state.res /\ some /\ ver) = FALSE
  BY <1>2
<1>4. st \in States /\ st.res = FALSE /\ st.i = x.state.i
  <2>0. PICK stage \in Int : stage = VERIFY_DONE
    BY DEF VERIFY_DONE
  <2>1. PICK b \in BOOLEAN : b = FALSE
    BY Zenon
  <2>2. st = [x.state EXCEPT !.res = b, !.stage = stage]
    BY <1>3, <2>0, <2>1, Zenon
  <2> HIDE DEF st
  <2>3. st \in States
    BY <1>2, <2>2 DEF States
  <2>4. st.res = b /\ st.i = x.state.i
    BY <1>2, <2>2 DEF States
  <2>5. QED
    BY <2>1, <2>3, <2>4
<1> HIDE DEF st
<1>5. "state" \in DOMAIN u /\ u.state = st
  BY <1>1, <1>2, SavedState
<1>6. Refusing(u)
  BY <1>2, <1>4, <1>5 DEF Refusing
<1>7. QED
  BY <1>6 DEF u

LEMMA InvertSRefuses ==
  ASSUME NEW s, NEW x, Refusing(x)
  PROVE  Refusing(InvertS(x, s))
<1> DEFINE rc == sb_sw_scalar_validate(x.u1, s)
           qc == sb_sw_scalar_validate(x.u3, s)
           message == mod_reduce(x.u2, s.n)
           sinv == mod_inv_r(mont_convert(qc.k, s.n), s.n)
           w == [x EXCEPT !.u1 = rc.k, !.u3 = qc.k,
                          !.u2 = mont_mult(message, sinv, s.n), !.k = mont_mult(rc.k, sinv, s.n)]
           st == [x.state EXCEPT !.res = x.state.res /\ rc.ok /\ qc.ok /\ message # s.n.p,
                                 !.stage = VERIFY_INV_Z]
           u == InvertS(x, s)
<1>1. u = Saved(w, st)
  BY Zenon DEF InvertS
<1>2. x.state \in States /\ x.state.res = FALSE /\ x.state.i >= -1 /\ "state" \in DOMAIN x
  BY DEF Refusing
<1>3. "state" \in DOMAIN w
  BY <1>2
<1>4. (x.state.res /\ rc.ok /\ qc.ok /\ message # s.n.p) = FALSE
  BY <1>2
<1> HIDE DEF rc, qc, message, u, w
<1>5. st \in States /\ st.res = FALSE /\ st.i = x.state.i
  <2>0. PICK stage \in Int : stage = VERIFY_INV_Z
    BY DEF VERIFY_INV_Z
  <2>1. PICK b \in BOOLEAN : b = FALSE
    BY Zenon
  <2>2. st = [x.state EXCEPT !.res = b, !.stage = stage]
    BY <1>4, <2>0, <2>1, Zenon
  <2> HIDE DEF st
  <2>3. st \in States
    BY <1>2, <2>2 DEF States
  <2>4. st.res = b /\ st.i = x.state.i
    BY <1>2, <2>2 DEF States
  <2>5. QED
    BY <2>1, <2>3, <2>4
<1> HIDE DEF st
<1>6. "state" \in DOMAIN u /\ u.state = st
  BY <1>1, <1>3, SavedState
<1>7. Refusing(u)
  BY <1>2, <1>5, <1>6 DEF Refusing
<1>8. QED
  BY <1>7 DEF u

(* Once something is out of range, nothing is accepted any more. *)
LEMMA ContinueRefuses ==
  ASSUME NEW s, IsCurve(s), POINT_ITERATIONS \in Nat \ {0}, NEW x, Refusing(x),
         NEW u, u = sb_sw_verify_continue(x, s)
  PROVE  Refusing(u.c)
<1>1. CASE x.state.stage = VERIFY_INV_Z
  <2>1. u.c = AddInvertZ(x, s)
    BY <1>1 DEF sb_sw_verify_continue, sb_sw_point_mult_add_z_continue,
                VERIFY_INV_S, VERIFY_INV_Z, VERIFY_LADDER, VERIFY_TEST, VERIFY_DONE
  <2>2. QED
    BY <2>1, AddInvertZRefuses
<1>2. CASE x.state.stage = VERIFY_LADDER
  <2>1. u.c = AddLadder(x, s)
    BY <1>2 DEF sb_sw_verify_continue, sb_sw_point_mult_add_z_continue,
                VERIFY_INV_S, VERIFY_INV_Z, VERIFY_LADDER, VERIFY_TEST, VERIFY_DONE
  <2>2. QED
    BY <2>1, AddLadderRefuses
<1>3. CASE x.state.stage = VERIFY_TEST
  <2>1. u.c = Test(x, s)
    BY <1>3 DEF sb_sw_verify_continue, VERIFY_INV_S, VERIFY_INV_Z, VERIFY_LADDER, VERIFY_TEST
  <2>2. QED
    BY <2>1, TestRefuses
<1>0. CASE x.state.stage = VERIFY_INV_S
  <2>1. u.c = InvertS(x, s)
    BY <1>0 DEF sb_sw_verify_continue, VERIFY_INV_S, VERIFY_INV_Z, VERIFY_LADDER, VERIFY_TEST
  <2>2. QED
    BY <2>1, InvertSRefuses
<1>4. CASE x.state.stage \notin {VERIFY_INV_S, VERIFY_INV_Z, VERIFY_LADDER, VERIFY_TEST}
  BY <1>4 DEF sb_sw_verify_continue
<1>5. QED
  BY <1>0, <1>1, <1>2, <1>3, <1>4

(* Verification of what is in range, when it meets no point twice.         *)
KeyScalar(t, s) == KeyTimes(t.r, t.s, s.n.p)
GenScalar(t, s) == GenTimes(t.message, t.s, s.n.p)
OnWalk(f, t, s) == Walk(KeyScalar(t, s), GenScalar(t, s), t.point, Offset(s), f, s)
Unexceptional(t, s) ==
  Proper(t, s.n.p) /\ ~Exceptional(t.point, t.r, t.s, t.message, s)

LEMMA ScalarsAre ==
  ASSUME NEW s, NEW t, VerifyGiven(t, s), Proper(t, s.n.p)
  PROVE  /\ IsCurve(s) /\ t.point \in Int /\ t.r \in 1 .. s.n.p - 1 /\ t.s \in 1 .. s.n.p - 1
         /\ KeyScalar(t, s) \in 0 .. s.n.p - 1 /\ KeyScalar(t, s) \in Nat
         /\ GenScalar(t, s) \in 0 .. s.n.p - 1 /\ GenScalar(t, s) \in Nat
         /\ GenScalar(t, s) < TwoTo[s.bits]
         /\ Offset(s) \in Int /\ IsOffset(Offset(s), s)
<1>1. /\ IsCurve(s) /\ t.point \in 1 .. s.n.p - 1 /\ t.message \in Nat
      /\ t.r \in 1 .. s.n.p - 1 /\ t.s \in 1 .. s.n.p - 1 /\ t.message % s.n.p # 0
  BY DEF VerifyGiven, Proper
<1>2. PICK n \in Nat : n = s.n.p /\ n < TwoTo[s.bits] /\ TwoTo[s.bits] \in Nat
  BY <1>1, CurveIs, Radix
<1>3. KeyScalar(t, s) \in 1 .. n - 1 /\ GenScalar(t, s) \in 0 .. n - 2
  <2>1. PICK sinv : sinv = mod_inv_r(mont_convert(t.s, s.n), s.n)
    OBVIOUS
  <2>2. KeyTimes(t.r, t.s, s.n.p) \in 1 .. s.n.p - 1 /\ GenTimes(t.message, t.s, s.n.p) \in 0 .. s.n.p - 2
    BY <1>1, <2>1, ScalarsInverted
  <2>3. QED
    BY <1>2, <2>2 DEF KeyScalar, GenScalar
<1>4. IsOffset(Offset(s), s)
  BY <1>1, OffsetIs DEF Offset
<1>5. Offset(s) \in Int
  BY <1>2, <1>4 DEF IsOffset
<1>6. t.point \in Int
  BY <1>1, <1>2
<1>7. PICK kp \in Int, kg \in Int : kp = KeyScalar(t, s) /\ kg = GenScalar(t, s)
  BY <1>3
<1>8. kp \in 0 .. n - 1 /\ kp \in Nat /\ kg \in 0 .. n - 1 /\ kg \in Nat /\ kg < TwoTo[s.bits]
  BY <1>2, <1>3, <1>7
<1>9. QED
  BY <1>1, <1>2, <1>4, <1>5, <1>6, <1>7, <1>8

LEMMA WalkIs ==
  ASSUME NEW s, NEW t, VerifyGiven(t, s), Unexceptional(t, s)
  PROVE  /\ \E f : OnWalk(f, t, s)
         /\ Differ(t.point, Offset(s), s)
         /\ \A o \in Int : o = 1 => Differ(t.point + Offset(s), o, s)
<1>1. /\ IsCurve(s) /\ t.point \in Int /\ KeyScalar(t, s) \in Nat /\ GenScalar(t, s) \in Nat
      /\ Offset(s) \in Int /\ IsOffset(Offset(s), s)
  BY ScalarsAre DEF Unexceptional
<1>2. /\ ~Same(t.point, Offset(s), s.n.p) /\ ~Same(t.point + Offset(s), 1, s.n.p)
      /\ \E g : /\ MeetRun(g, s.bits, KeyScalar(t, s), GenScalar(t, s), Offset(s), t.point, s)
                /\ ~g[s.bits].met
  BY <1>1, ExceptionalIs DEF Unexceptional, KeyScalar, GenScalar
<1>3. PICK f : Path(f, KeyScalar(t, s), GenScalar(t, s), Offset(s), t.point, s)
  BY <1>1, <1>2, PathIs
<1>4. OnWalk(f, t, s)
  BY <1>1, <1>3 DEF OnWalk, Walk
<1>5. Differ(t.point, Offset(s), s)
  BY <1>1, <1>2, NotSame
<1>6. ASSUME NEW o \in Int, o = 1 PROVE Differ(t.point + Offset(s), o, s)
  <2>1. PICK kh \in Int : kh = t.point + Offset(s)
    BY <1>1
  <2>2. ~Same(kh, o, s.n.p)
    BY <1>2, <1>6, <2>1
  <2>3. Differ(kh, o, s)
    BY <1>1, <2>2, NotSame
  <2>4. QED
    BY <2>1, <2>3
<1>7. QED
  BY <1>4, <1>5, <1>6

(* Verification, from call to call. *)
Walking(x, t, s) ==
  \E f : /\ OnWalk(f, t, s)
         /\ \/ /\ Ready(x, KeyScalar(t, s), GenScalar(t, s), t.point, t.r, s)
               /\ x.state.stage = VERIFY_INV_Z
            \/ /\ Adding(x, KeyScalar(t, s), GenScalar(t, s), t.point, Offset(s), f, t.r, s)
               /\ x.state.stage = VERIFY_LADDER
            \/ Arrived(x, f[s.bits], t.r, s)
Halfway(x, t, s) ==
  \/ Verifying(x, t, s)
  \/ ~Proper(t, s.n.p) /\ Refusing(x)
  \/ Proper(t, s.n.p) /\ Exceptional(t.point, t.r, t.s, t.message, s)
  \/ Unexceptional(t, s) /\ Walking(x, t, s)
(* What is to be known in the end. *)
Verified(u, t, s) ==
  /\ ~Proper(t, s.n.p) => ~u.c.state.res
  /\ Unexceptional(t, s) => (u.c.state.res <=> Valid(t.point, t.r, t.s, t.message, s))

LEMMA WalkContinues ==
  ASSUME NEW s, NEW t, VerifyGiven(t, s), Unexceptional(t, s),
         NEW x, Walking(x, t, s), NEW u, u = sb_sw_verify_continue(x, s)
  PROVE  /\ u.done => Verified(u, t, s)
         /\ ~u.done => Walking(u.c, t, s)
<1>1. /\ IsCurve(s) /\ t.point \in Int /\ t.r \in 1 .. s.n.p - 1 /\ t.s \in 1 .. s.n.p - 1
      /\ KeyScalar(t, s) \in 0 .. s.n.p - 1 /\ GenScalar(t, s) \in 0 .. s.n.p - 1
      /\ GenScalar(t, s) < TwoTo[s.bits] /\ Offset(s) \in Int /\ IsOffset(Offset(s), s)
  BY ScalarsAre DEF Unexceptional
<1>2. Differ(t.point, Offset(s), s) /\ \A o \in Int : o = 1 => Differ(t.point + Offset(s), o, s)
  BY WalkIs
<1>3. PICK f :
        /\ OnWalk(f, t, s)
        /\ \/ /\ Ready(x, KeyScalar(t, s), GenScalar(t, s), t.point, t.r, s)
              /\ x.state.stage = VERIFY_INV_Z
           \/ /\ Adding(x, KeyScalar(t, s), GenScalar(t, s), t.point, Offset(s), f, t.r, s)
              /\ x.state.stage = VERIFY_LADDER
           \/ Arrived(x, f[s.bits], t.r, s)
  BY DEF Walking
<1>4. Walk(KeyScalar(t, s), GenScalar(t, s), t.point, Offset(s), f, s)
  BY <1>3 DEF OnWalk
<1>5. CASE /\ Ready(x, KeyScalar(t, s), GenScalar(t, s), t.point, t.r, s)
           /\ x.state.stage = VERIFY_INV_Z
  <2>1. u = [c |-> AddInvertZ(x, s), done |-> FALSE]
    BY <1>5 DEF sb_sw_verify_continue, sb_sw_point_mult_add_z_continue,
                VERIFY_INV_S, VERIFY_INV_Z, VERIFY_LADDER, VERIFY_TEST, VERIFY_DONE
  <2>2. PICK v : v = AddInvertZ(x, s) /\ u.c = v /\ u.done = FALSE
    BY <2>1
  <2>3. PICK o \in Int, kh \in Int : o = 1 /\ kh = t.point + Offset(s)
    BY <1>1
  <2>4. Differ(kh, o, s)
    BY <1>2, <2>3
  <2>5. /\ Adding(v, KeyScalar(t, s), GenScalar(t, s), t.point, Offset(s), f, t.r, s)
        /\ v.state.stage = VERIFY_LADDER
    BY <1>1, <1>2, <1>4, <1>5, <2>2, <2>3, <2>4, AddInvertZIs
  <2>6. Walking(u.c, t, s)
    BY <1>3, <2>2, <2>5 DEF Walking
  <2>7. QED
    BY <2>2, <2>6
<1>6. CASE /\ Adding(x, KeyScalar(t, s), GenScalar(t, s), t.point, Offset(s), f, t.r, s)
           /\ x.state.stage = VERIFY_LADDER
  <2>1. u = [c |-> AddLadder(x, s), done |-> FALSE]
    BY <1>6 DEF sb_sw_verify_continue, sb_sw_point_mult_add_z_continue,
                VERIFY_INV_S, VERIFY_INV_Z, VERIFY_LADDER, VERIFY_TEST, VERIFY_DONE
  <2>2. PICK v : v = AddLadder(x, s) /\ u.c = v /\ u.done = FALSE
    BY <2>1
  <2>3. \/ /\ Adding(v, KeyScalar(t, s), GenScalar(t, s), t.point, Offset(s), f, t.r, s)
           /\ v.state.stage = VERIFY_LADDER
        \/ Arrived(v, f[s.bits], t.r, s)
    BY <1>4, <1>6, <2>2, PointAssumption, AddLadderIs
  <2>4. Walking(u.c, t, s)
    BY <1>3, <2>2, <2>3 DEF Walking
  <2>5. QED
    BY <2>2, <2>4
<1>7. CASE Arrived(x, f[s.bits], t.r, s)
  <2>1. x.state.stage = VERIFY_TEST
    BY <1>7 DEF Arrived
  <2>2. u = [c |-> Test(x, s), done |-> TRUE]
    BY <2>1 DEF sb_sw_verify_continue, VERIFY_INV_S, VERIFY_INV_Z, VERIFY_LADDER, VERIFY_TEST
  <2>3. PICK v : v = Test(x, s) /\ u.c = v /\ u.done = TRUE
    BY <2>2
  <2>4. PICK N \in Int : N = f[s.bits] /\ Combined(N, KeyScalar(t, s), GenScalar(t, s), t.point, s.n.p)
    BY <1>4, <1>1, PathEnds DEF Walk
  <2>5. ~Zero(N, s) /\ x \in Context /\ Compared(x, N, s) /\ x.u1 = t.r /\ x.state.res = TRUE
    BY <1>7, <2>4 DEF Arrived
  <2>6. v.state.res <=> Point(N, s)[1] % s.n.p = t.r
    <3>1. PICK r : r = t.r
      OBVIOUS
    <3>2. r \in 1 .. s.n.p - 1 /\ x.u1 = r /\ v = Test(x, s)
      BY <1>1, <2>3, <2>5, <3>1
    <3>3. v.state.res <=> Point(N, s)[1] % s.n.p = r
      BY ONLY <1>1, N \in Int, <2>5, <3>2, TestIs
    <3>4. QED
      BY <3>1, <3>3
  <2>7. Valid(t.point, t.r, t.s, t.message, s) <=> Point(N, s)[1] % s.n.p = t.r
    BY <2>4, <1>1, <2>5, ValidIs DEF VerifyGiven, KeyScalar, GenScalar
  <2>8. Verified(u, t, s)
    BY <2>3, <2>6, <2>7 DEF Verified, Unexceptional
  <2>9. QED
    BY <2>3, <2>8
<1>8. QED
  BY <1>3, <1>5, <1>6, <1>7

LEMMA HalfwayContinues ==
  ASSUME NEW s, NEW t, VerifyGiven(t, s),
         NEW x, Halfway(x, t, s), NEW u, u = sb_sw_verify_continue(x, s)
  PROVE  /\ u.done => Verified(u, t, s)
         /\ ~u.done => Halfway(u.c, t, s)
<1>1. /\ IsCurve(s) /\ t.point \in 1 .. s.n.p - 1 /\ t.z \in 1 .. s.p.p - 1
      /\ t.r \in Nat /\ t.s \in Nat /\ t.message \in Nat /\ POINT_ITERATIONS \in Nat \ {0}
  BY PointAssumption DEF VerifyGiven
<1>2. CASE Verifying(x, t, s)
  <2>1. x.state.stage = VERIFY_INV_S
    BY <1>2 DEF Verifying
  <2>2. u = [c |-> InvertS(x, s), done |-> FALSE]
    BY <2>1 DEF sb_sw_verify_continue, VERIFY_INV_S, VERIFY_INV_Z, VERIFY_LADDER, VERIFY_TEST
  <2>3. PICK v : v = InvertS(x, s) /\ u.c = v /\ u.done = FALSE
    BY <2>2
  <2>4. /\ Proper(t, s.n.p) =>
             /\ Ready(v, KeyTimes(t.r, t.s, s.n.p), GenTimes(t.message, t.s, s.n.p), t.point, t.r, s)
             /\ v.state.stage = VERIFY_INV_Z
        /\ ~Proper(t, s.n.p) => Refusing(v)
    BY <1>1, <1>2, <2>3, InvertSIs
  <2>5. CASE Unexceptional(t, s)
    <3>1. PICK f : OnWalk(f, t, s)
      BY <2>5, WalkIs
    <3>2. Walking(v, t, s)
      BY <2>4, <2>5, <3>1 DEF Walking, Unexceptional, KeyScalar, GenScalar
    <3>3. QED
      BY <2>3, <2>5, <3>2 DEF Halfway
  <2>6. CASE ~Unexceptional(t, s)
    BY <2>3, <2>4, <2>6 DEF Halfway, Unexceptional
  <2>7. QED
    BY <2>5, <2>6
<1>3. CASE ~Proper(t, s.n.p) /\ Refusing(x)
  BY <1>1, <1>3, ContinueRefuses DEF Refusing, Halfway, Verified, Unexceptional
<1>4. CASE Proper(t, s.n.p) /\ Exceptional(t.point, t.r, t.s, t.message, s)
  BY <1>4 DEF Halfway, Verified, Unexceptional
<1>5. CASE Unexceptional(t, s) /\ Walking(x, t, s)
  BY <1>5, WalkContinues DEF Halfway
<1>6. QED
  BY <1>2, <1>3, <1>4, <1>5 DEF Halfway

VerifiedWell(ok, t, s) ==
  /\ ~Proper(t, s.n.p) => ~ok
  /\ Unexceptional(t, s) => (ok <=> Valid(t.point, t.r, t.s, t.message, s))
VerifyInvariant ==
  /\ task \in Tasks
  /\ task.kind = "verify" =>
       \/ answer.stage = "asked" /\ c = Asked(task)
       \/ answer.stage = "started" /\ Halfway(c, task, TaskCurve)
       \/ answer.stage = "done" /\ VerifiedWell(answer.ok, task, TaskCurve)

LEMMA VerifyStartStep ==
  ASSUME VerifyInvariant, VerifyStart
  PROVE  VerifyInvariant'
<1>1. PICK s, t : s = TaskCurve /\ s = Curves[task.curve] /\ t = task
  BY DEF TaskCurve
<1>2. /\ t \in Tasks /\ task' = t /\ t.kind = "verify" /\ answer.stage = "asked"
      /\ answer'.stage = "started" /\ c' = sb_sw_verify_start(c)
  BY <1>1 DEF VerifyStart, Going, VerifyInvariant
<1>3. c = Asked(t)
  BY <1>1, <1>2 DEF VerifyInvariant
<1>4. PICK u : u = c' /\ u = sb_sw_verify_start(Asked(t))
  BY <1>2, <1>3
<1>5. Verifying(u, t, s)
  BY <1>1, <1>2, <1>4, VerifyStartIs
<1>6. Halfway(u, t, s)
  BY <1>5 DEF Halfway
<1>7. TaskCurve' = s
  BY <1>1, <1>2 DEF TaskCurve
<1>8. Halfway(c, task, TaskCurve)'
  BY <1>2, <1>4, <1>6, <1>7
<1>9. QED
  BY <1>1, <1>2, <1>8 DEF VerifyInvariant

LEMMA VerifyContinueStep ==
  ASSUME VerifyInvariant, VerifyContinue
  PROVE  VerifyInvariant'
<1>1. PICK s, t : s = TaskCurve /\ s = Curves[task.curve] /\ t = task
  BY DEF TaskCurve
<1>2. PICK x, u : x = c /\ u = sb_sw_verify_continue(x, s)
  OBVIOUS
<1>3. /\ t \in Tasks /\ task' = t /\ t.kind = "verify" /\ answer.stage = "started"
      /\ answer' = [stage |-> IF u.done THEN "done" ELSE "started", ok |-> u.c.state.res] /\ c' = u.c
  BY <1>1, <1>2 DEF VerifyContinue, Going, VerifyInvariant
<1>4. VerifyGiven(t, s)
  BY <1>1, <1>3, VerifyTask
<1>5. answer'.stage = (IF u.done THEN "done" ELSE "started") /\ answer'.ok = u.c.state.res
  BY <1>3
<1>6. Halfway(x, t, s)
  BY <1>1, <1>2, <1>3 DEF VerifyInvariant
<1>7. /\ u.done => Verified(u, t, s)
      /\ ~u.done => Halfway(u.c, t, s)
  BY <1>2, <1>4, <1>6, HalfwayContinues
<1>8. TaskCurve' = s
  BY <1>1, <1>3 DEF TaskCurve
<1>9. CASE ~u.done
  BY <1>3, <1>5, <1>7, <1>8, <1>9 DEF VerifyInvariant
<1>10. CASE u.done
  BY <1>5, <1>10, <1>7, <1>3, <1>8 DEF Verified, VerifiedWell, VerifyInvariant
<1>11. QED
  BY <1>9, <1>10

(* What is out of range is refused; anything else is accepted just when it *)
(* is valid, unless an addition meets the same point twice.                *)
THEOREM VerificationSound == Spec => []VerifiesValid
<1>1. Init => VerifyInvariant
  BY DEF Init, VerifyInvariant
<1>2. VerifyInvariant /\ [Next]_vars => VerifyInvariant'
  <2> SUFFICES ASSUME VerifyInvariant, [Next]_vars PROVE VerifyInvariant'
    OBVIOUS
  <2>1. CASE UNCHANGED vars
    BY <2>1 DEF vars, VerifyInvariant, TaskCurve
  <2>2. CASE VerifyStart \/ VerifyContinue
    BY <2>2, VerifyStartStep, VerifyContinueStep
  <2>3. CASE \/ MultiplyStart \/ MultiplyContinue \/ SignStart \/ SignContinue
             \/ Validate \/ Decompress \/ PickZ \/ PickK
    <3>1. task' = task /\ task.kind # "verify"
      BY <2>3 DEF MultiplyStart, MultiplyContinue, SignStart, SignContinue,
                  Validate, Decompress, PickZ, PickK, Going
    <3>2. QED
      BY <3>1 DEF VerifyInvariant
  <2>4. QED
    BY <2>1, <2>2, <2>3 DEF Next
<1>3. VerifyInvariant => VerifiesValid
  <2> SUFFICES ASSUME VerifyInvariant, task.kind = "verify", answer.stage = "done"
               PROVE  LET n == TaskCurve.n.p
                      IN  IF task.r \notin 1 .. n - 1 \/ task.s \notin 1 .. n - 1 \/ task.message % n = 0
                          THEN ~answer.ok
                          ELSE \/ Exceptional(task.point, task.r, task.s, task.message, TaskCurve)
                               \/ answer.ok <=> Valid(task.point, task.r, task.s, task.message, TaskCurve)
    BY DEF VerifiesValid
  <2>1. VerifiedWell(answer.ok, task, TaskCurve)
    BY DEF VerifyInvariant
  <2>2. QED
    BY <2>1, Zenon DEF VerifiedWell, Unexceptional, Proper
<1>4. QED
  BY <1>1, <1>2, <1>3, PTL DEF Spec
====================================================================================
