------------------------------- MODULE SbProofs --------------------------------
(***************************************************************************)
(* Theorems about the hashes and the field elements of the C library.      *)
(* First lemmas on numbers; then SbHash, for every size of a block, of a   *)
(* hash and of the counters: messages may be cut in any way; SbCompression *)
(* for every word; SbField for every size of words and every prime of that *)
(* size.                                                                   *)
(***************************************************************************)
EXTENDS SbHash, SbCompression, SbField, SequenceTheorems, WellFoundedInduction, TLAPS

--------------------------------------------------------------------------------
(* Induction.  WFMin is the one theorem of the library that leads to it    *)
(* without an operator for a parameter: what is proved is a set.           *)

(* Every set of natural numbers that is not empty has a least one.         *)
LEMMA Least ==
  ASSUME NEW T, T \subseteq Nat, T # {}
  PROVE  \E x \in T : \A y \in T : x <= y
<1> DEFINE R == OpToRel(<, Nat)
<1>1. IsWellFoundedOn(R, Nat)
  BY NatLessThanWellFounded
<1>2. \A x, y \in Nat : y < x => <<y, x>> \in R
  BY DEF OpToRel
<1> HIDE DEF R
<1>3. PICK x \in T : \A y \in T : ~(<<y, x>> \in R)
  BY <1>1, WFMin
<1>4. ASSUME NEW y \in T PROVE x <= y
  <2>1. x \in Nat /\ y \in Nat
    OBVIOUS
  <2>2. ~(y < x)
    BY <1>2, <1>3, <2>1
  <2>3. QED
    BY <2>1, <2>2
<1>5. QED
  BY <1>4

(* A set that has zero and, with a number, the next one has them all.      *)
LEMMA Induction ==
  ASSUME NEW S, 0 \in S, \A n \in Nat : n \in S => n + 1 \in S
  PROVE  Nat \subseteq S
<1> SUFFICES ASSUME NEW n \in Nat, n \notin S PROVE FALSE
  OBVIOUS
<1>1. PICK k \in Nat \ S : \A y \in Nat \ S : k <= y
  <2>1. Nat \ S \subseteq Nat /\ Nat \ S # {}
    OBVIOUS
  <2>2. QED
    BY <2>1, Least
<1>2. k # 0 /\ k - 1 \in Nat
  BY <1>1
<1>3. k - 1 \in S
  BY <1>1, <1>2
<1>4. QED
  BY <1>1, <1>2, <1>3

--------------------------------------------------------------------------------
(* Arithmetic.                                                             *)

(* Products of integers: they are integers, distribute, and keep the       *)
(* order.                                                                  *)
LEMMA Product ==
  ASSUME NEW a \in Int, NEW b \in Int, NEW p \in Nat
  PROVE  /\ a * p \in Int /\ (a + 1) * p = a * p + p /\ (a - 1) * p = a * p - p
         /\ (a + b) * p = a * p + b * p
         /\ a <= b => a * p <= b * p
         /\ a >= 0 => a * p >= 0
OBVIOUS

(* A number is its quotient, times the divisor, and its rest.              *)
LEMMA WholeDivision ==
  ASSUME NEW x \in Int, NEW p \in Nat \ {0}
  PROVE  /\ x \div p \in Int /\ x % p \in Nat /\ x % p < p
         /\ x = (x \div p) * p + (x % p)
OBVIOUS

(* The only way to write a number so.                                      *)
LEMMA WholeQuotient ==
  ASSUME NEW q \in Int, NEW r \in Nat, NEW p \in Nat \ {0}, r < p
  PROVE  (q * p + r) \div p = q /\ (q * p + r) % p = r
<1> DEFINE x == q * p + r
           d == x \div p
<1>1. x \in Int
  BY Product
<1>2. d \in Int /\ x % p \in Nat /\ x % p < p /\ x = d * p + (x % p)
  BY <1>1, WholeDivision
<1>3. ~(d < q)
  <2>1. SUFFICES ASSUME d + 1 <= q PROVE FALSE
    BY <1>2
  <2>2. (d + 1) * p <= q * p /\ (d + 1) * p = d * p + p /\ d * p \in Int /\ q * p \in Int
    BY <1>2, <2>1, Product
  <2> DEFINE dp == d * p
             qp == q * p
  <2>3. x = dp + (x % p) /\ x = qp + r /\ dp + p <= qp /\ dp \in Int /\ qp \in Int
    BY <1>2, <2>2
  <2> HIDE DEF x, dp, qp, d
  <2>4. QED
    BY <1>1, <1>2, <2>3
<1>4. ~(d > q)
  <2>1. SUFFICES ASSUME q + 1 <= d PROVE FALSE
    BY <1>2
  <2>2. (q + 1) * p <= d * p /\ (q + 1) * p = q * p + p /\ d * p \in Int /\ q * p \in Int
    BY <1>2, <2>1, Product
  <2> DEFINE dp == d * p
             qp == q * p
  <2>3. x = dp + (x % p) /\ x = qp + r /\ qp + p <= dp /\ dp \in Int /\ qp \in Int
    BY <1>2, <2>2
  <2> HIDE DEF x, dp, qp, d
  <2>4. QED
    BY <1>1, <1>2, <2>3
<1>5. d = q
  BY <1>2, <1>3, <1>4
<1>6. x = q * p + (x % p)
  BY <1>2, <1>5
<1>7. QED
  <2>1. q * p \in Int /\ x = q * p + r
    BY Product
  <2> DEFINE qp == q * p
  <2>2. x = qp + (x % p) /\ x = qp + r /\ qp \in Int
    BY <1>6, <2>1
  <2> HIDE DEF x, qp
  <2>3. x % p = r
    BY <1>2, <2>2
  <2>4. QED
    BY <1>5, <2>3 DEF x

(* The same of natural numbers.                                            *)
LEMMA Division ==
  ASSUME NEW x \in Nat, NEW p \in Nat \ {0}
  PROVE  /\ x \div p \in Nat /\ x % p \in Nat /\ x % p < p
         /\ x = (x \div p) * p + (x % p)
OBVIOUS

LEMMA Quotient ==
  ASSUME NEW q \in Nat, NEW r \in Nat, NEW p \in Nat \ {0}, r < p
  PROVE  (q * p + r) \div p = q /\ (q * p + r) % p = r
BY WholeQuotient

(* Counting modulo a multiple keeps the remainder.                         *)
LEMMA ModMod ==
  ASSUME NEW x \in Nat, NEW p \in Nat \ {0}, NEW t \in Nat \ {0}, t % p = 0
  PROVE  (x % t) % p = x % p
<1>1. PICK d \in Nat : x = d * t + (x % t)
  BY Division
<1>2. PICK k \in Nat : t = k * p
  <2>1. t = (t \div p) * p + 0 /\ t \div p \in Nat
    BY Division
  <2>2. (t \div p) * p \in Int
    BY <2>1, Product
  <2>3. QED
    BY <2>1, <2>2
<1>3. PICK r \in Nat : r = x % t
  BY Division
<1>4. PICK e \in Nat : r = e * p + (r % p)
  BY Division
<1>5. r % p \in Nat /\ r % p < p
  BY Division
<1>6. PICK n \in Nat : n = d * k
  OBVIOUS
<1>7. x = (n + e) * p + (r % p)
  <2>1. d * (k * p) = n * p
    <3>1. \A a, b, c \in Nat : a * (b * c) = (a * b) * c
      OBVIOUS
    <3>2. QED
      BY <1>6, <3>1
  <2>2. (n + e) * p = n * p + e * p /\ n * p \in Int /\ e * p \in Int
    BY Product
  <2>3. x = n * p + r
    <3>1. x = d * (k * p) + r
      BY <1>1, <1>2, <1>3
    <3>2. QED
      BY <2>1, <3>1
  <2> DEFINE np == n * p
             ep == e * p
             o == r % p
  <2>4. x = np + r /\ r = ep + o /\ (n + e) * p = np + ep /\ np \in Int /\ ep \in Int /\ o \in Nat
    BY <1>4, <1>5, <2>2, <2>3
  <2> HIDE DEF np, ep, o
  <2>5. x = (np + ep) + o
    BY <2>4
  <2>6. x = (n + e) * p + o
    BY <2>4, <2>5
  <2>7. QED
    BY <2>6 DEF o
<1>8. x % p = r % p
  <2>1. n + e \in Nat
    OBVIOUS
  <2>2. ((n + e) * p + (r % p)) % p = r % p
    BY <1>5, <2>1, Quotient
  <2>3. QED
    BY <1>7, <2>2, Zenon
<1>9. QED
  BY <1>3, <1>8

(* A sum modulo p is that of the rests.                                    *)
LEMMA RestOfSum ==
  ASSUME NEW x \in Nat, NEW y \in Nat, NEW t \in Nat \ {0}
  PROVE  ((x % t) + y) % t = (x + y) % t
<1>1. PICK d \in Nat, r \in Nat : r = x % t /\ x = d * t + r
  BY Division
<1>2. PICK e \in Nat, s \in Nat : s = (r + y) % t /\ r + y = e * t + s /\ s < t
  <2>1. r + y \in Nat
    OBVIOUS
  <2>2. QED
    BY <2>1, Division
<1>3. x + y = (d + e) * t + s
  <2> DEFINE dt == d * t
             et == e * t
  <2>1. (d + e) * t = dt + et /\ dt \in Int /\ et \in Int
    BY Product
  <2>2. x = dt + r /\ r + y = et + s
    BY <1>1, <1>2
  <2> HIDE DEF dt, et
  <2>3. x + y = (dt + et) + s
    BY <2>1, <2>2
  <2>4. QED
    BY <2>1, <2>3
<1>4. (x + y) % t = s
  <2>1. d + e \in Nat
    OBVIOUS
  <2>2. ((d + e) * t + s) % t = s
    BY <1>2, <2>1, Quotient
  <2>3. QED
    BY <1>3, <2>2, Zenon
<1>5. QED
  BY <1>1, <1>2, <1>4

(* A number below the modulus is its own rest.                             *)
LEMMA Below ==
  ASSUME NEW x \in Nat, NEW t \in Nat \ {0}, x < t
  PROVE  x % t = x
<1>1. 0 * t + x = x
  OBVIOUS
<1>2. QED
  BY <1>1, Quotient

--------------------------------------------------------------------------------
(* Strings: sequences of whatever there is.                                *)

String(s) == Len(s) \in Nat /\ s = [i \in 1 .. Len(s) |-> s[i]]

(* A function on 1 .. n is a string of n bytes.                            *)
LEMMA StringOf ==
  ASSUME NEW n \in Nat, NEW s, s = [i \in 1 .. n |-> s[i]]
  PROVE  String(s) /\ Len(s) = n
<1>1. Len(s) = n
  OBVIOUS
<1>2. QED
  BY <1>1 DEF String

(* A string of bytes of S is a sequence of them.                           *)
LEMMA StringSeq ==
  ASSUME NEW s, String(s), NEW S, \A i \in 1 .. Len(s) : s[i] \in S
  PROVE  s \in Seq(S)
BY DEF String

(* A sequence is a string.                                                 *)
LEMMA SeqString ==
  ASSUME NEW S, NEW s \in Seq(S)
  PROVE  String(s)
BY DEF String

(* Strings of the same bytes are the same.                                 *)
LEMMA SameString ==
  ASSUME NEW s, NEW u, String(s), String(u), Len(s) = Len(u), \A i \in 1 .. Len(s) : s[i] = u[i]
  PROVE  s = u
BY DEF String

(* The bytes of two strings, one after the other.                          *)
LEMMA Concat ==
  ASSUME NEW s, NEW u, String(s), String(u)
  PROVE  /\ String(s \o u) /\ Len(s \o u) = Len(s) + Len(u)
         /\ \A i \in 1 .. Len(s) + Len(u) : (s \o u)[i] = IF i <= Len(s) THEN s[i] ELSE u[i - Len(s)]
<1> DEFINE S == {s[i] : i \in 1 .. Len(s)} \cup {u[i] : i \in 1 .. Len(u)}
<1>1. s \in Seq(S) /\ u \in Seq(S)
  BY StringSeq
<1> HIDE DEF S
<1>2. /\ s \o u \in Seq(S) /\ Len(s \o u) = Len(s) + Len(u)
      /\ \A i \in 1 .. Len(s) + Len(u) : (s \o u)[i] = IF i <= Len(s) THEN s[i] ELSE u[i - Len(s)]
  BY <1>1, ConcatProperties
<1>3. QED
  BY <1>2, SeqString

(* The bytes of a piece of a string.                                       *)
LEMMA Sub ==
  ASSUME NEW s, String(s), NEW a \in Int, NEW b \in Int, 1 <= a, a <= b + 1, b <= Len(s)
  PROVE  /\ String(SubSeq(s, a, b)) /\ Len(SubSeq(s, a, b)) = b + 1 - a
         /\ \A i \in 1 .. b + 1 - a : SubSeq(s, a, b)[i] = s[a + i - 1]
<1> DEFINE S == {s[i] : i \in 1 .. Len(s)}
<1>1. s \in Seq(S)
  BY StringSeq
<1> HIDE DEF S
<1>2. QED
  BY SMTT(20), <1>1, SubSeqProperties DEF String

(* A string of one byte.                                                   *)
LEMMA One ==
  ASSUME NEW x
  PROVE String(<<x>>) /\ Len(<<x>>) = 1 /\ <<x>>[1] = x
BY DEF String

(* The string of none.                                                     *)
LEMMA Empty == String(<<>>) /\ Len(<<>>) = 0
BY DEF String

(* A byte appended to a string.                                            *)
LEMMA Add ==
  ASSUME NEW s, String(s), NEW x
  PROVE  /\ String(Append(s, x)) /\ Len(Append(s, x)) = Len(s) + 1
         /\ \A i \in 1 .. Len(s) + 1 : Append(s, x)[i] = IF i <= Len(s) THEN s[i] ELSE x
<1> DEFINE S == {s[i] : i \in 1 .. Len(s)} \cup {x}
<1>1. s \in Seq(S) /\ x \in S
  BY StringSeq
<1> HIDE DEF S
<1>2. /\ Append(s, x) \in Seq(S) /\ Len(Append(s, x)) = Len(s) + 1
      /\ \A i \in 1 .. Len(s) : Append(s, x)[i] = s[i]
      /\ Append(s, x)[Len(s) + 1] = x
  BY <1>1, AppendProperties
<1>3. ASSUME NEW i \in 1 .. Len(s) + 1
      PROVE  Append(s, x)[i] = IF i <= Len(s) THEN s[i] ELSE x
  <2>1. Len(s) \in Nat
    BY DEF String
  <2>2. i \in 1 .. Len(s) \/ i = Len(s) + 1
    BY <2>1
  <2>3. QED
    BY <1>2, <2>1, <2>2
<1>4. QED
  BY <1>2, <1>3, SeqString

(* The bytes of a buffer into which some were copied.                      *)
LEMMA CopyString ==
  ASSUME NEW s, String(s), NEW at \in Nat, NEW u, String(u)
  PROVE  /\ String(CopyTo(s, at, u)) /\ Len(CopyTo(s, at, u)) = Len(s)
         /\ \A i \in 1 .. Len(s) :
              CopyTo(s, at, u)[i] = IF i > at /\ i <= at + Len(u) THEN u[i - at] ELSE s[i]
<1> DEFINE c == CopyTo(s, at, u)
<1>1. DOMAIN s = 1 .. Len(s) /\ Len(s) \in Nat /\ Len(u) \in Nat
  BY DEF String
<1>2. c = [i \in 1 .. Len(s) |-> IF i \in at + 1 .. at + Len(u) THEN u[i - at] ELSE s[i]]
  BY <1>1 DEF CopyTo
<1> HIDE DEF c
<1>3. c = [i \in 1 .. Len(s) |-> c[i]]
  BY <1>2
<1>4. String(c) /\ Len(c) = Len(s)
  BY <1>1, <1>3, StringOf
<1>5. \A i \in 1 .. Len(s) : c[i] = IF i > at /\ i <= at + Len(u) THEN u[i - at] ELSE s[i]
  BY <1>1, <1>2
<1>6. QED
  BY <1>4, <1>5 DEF c

(* The bytes that are cleared.                                             *)
LEMMA ZerosString ==
  ASSUME NEW n \in Nat
  PROVE  String(Zeros(n)) /\ Len(Zeros(n)) = n /\ \A i \in 1 .. n : Zeros(n)[i] = Byte(0)
<1>1. Zeros(n) = [i \in 1 .. n |-> Zeros(n)[i]]
  BY DEF Zeros
<1>2. String(Zeros(n)) /\ Len(Zeros(n)) = n
  BY <1>1, StringOf
<1>3. QED
  BY <1>2 DEF Zeros

(* The bytes of a hash are SIZE.                                           *)
LEMMA DigestString ==
  ASSUME NEW h
  PROVE  String(Digest(h)) /\ Len(Digest(h)) = SIZE
<1>1. Digest(h) = [i \in 1 .. SIZE |-> Digest(h)[i]] /\ SIZE \in Nat
  BY HashAssumption DEF Digest
<1>2. QED
  BY <1>1, StringOf

(* The bytes of a length are LENGTH.                                       *)
LEMMA NumberString ==
  ASSUME NEW n
  PROVE  String(Number(n)) /\ Len(Number(n)) = LENGTH
<1>1. Number(n) = [i \in 1 .. LENGTH |-> Number(n)[i]] /\ LENGTH \in Nat
  BY HashAssumption DEF Number
<1>2. QED
  BY <1>1, StringOf

(* Which two of three strings are put together first makes no difference.  *)
LEMMA ConcatAssociates ==
  ASSUME NEW s, NEW u, NEW v, String(s), String(u), String(v)
  PROVE  (s \o u) \o v = s \o (u \o v)
<1> DEFINE S == {s[i] : i \in 1 .. Len(s)} \cup {u[i] : i \in 1 .. Len(u)} \cup {v[i] : i \in 1 .. Len(v)}
<1>1. s \in Seq(S) /\ u \in Seq(S) /\ v \in Seq(S)
  BY StringSeq
<1> HIDE DEF S
<1>2. QED
  BY <1>1, ConcatAssociative

(* A string and the empty one.                                             *)
LEMMA ConcatNothing ==
  ASSUME NEW s, String(s)
  PROVE  s \o <<>> = s /\ <<>> \o s = s
<1> DEFINE S == {s[i] : i \in 1 .. Len(s)}
<1>1. s \in Seq(S)
  BY StringSeq
<1> HIDE DEF S
<1>2. QED
  BY <1>1, ConcatEmptySeq

(* A string is what comes before a place and what comes after it.          *)
LEMMA SubTwo ==
  ASSUME NEW s, String(s), NEW k \in Nat, k <= Len(s), NEW n \in Nat, k + n <= Len(s)
  PROVE  SubSeq(s, 1, k) \o SubSeq(s, k + 1, k + n) = SubSeq(s, 1, k + n)
<1> DEFINE a == SubSeq(s, 1, k)
           b == SubSeq(s, k + 1, k + n)
           c == SubSeq(s, 1, k + n)
<1>1. Len(s) \in Nat
  BY DEF String
<1>2. String(a) /\ Len(a) = k /\ \A i \in 1 .. k : a[i] = s[i]
  BY <1>1, Sub
<1>3. String(b) /\ Len(b) = n /\ \A i \in 1 .. n : b[i] = s[k + i]
  <2>1. PICK from \in Int, to \in Int :
          /\ from = k + 1 /\ to = k + n /\ to + 1 - from = n
          /\ \A i \in 1 .. n : from + i - 1 = k + i
    OBVIOUS
  <2>2. 1 <= from /\ from <= to + 1 /\ to <= Len(s)
    BY <1>1, <2>1
  <2>3. /\ String(SubSeq(s, from, to)) /\ Len(SubSeq(s, from, to)) = to + 1 - from
        /\ \A i \in 1 .. to + 1 - from : SubSeq(s, from, to)[i] = s[from + i - 1]
    BY <2>2, Sub
  <2>4. b = SubSeq(s, from, to)
    BY <2>1
  <2> HIDE DEF b
  <2>5. QED
    BY <2>1, <2>3, <2>4
<1>4. String(c) /\ Len(c) = k + n /\ \A i \in 1 .. k + n : c[i] = s[i]
  BY <1>1, Sub
<1> HIDE DEF a, b, c
<1>5. /\ String(a \o b) /\ Len(a \o b) = k + n
      /\ \A i \in 1 .. k + n : (a \o b)[i] = IF i <= k THEN a[i] ELSE b[i - k]
  BY <1>2, <1>3, Concat
<1>6. \A i \in 1 .. k + n : (a \o b)[i] = c[i]
  <2>1. TAKE i \in 1 .. k + n
  <2>2. CASE i <= k
    BY <1>2, <1>4, <1>5, <2>1, <2>2
  <2>3. CASE i > k
    <3>1. i - k \in 1 .. n /\ k + (i - k) = i
      BY <2>1, <2>3
    <3>2. b[i - k] = s[i]
      BY <1>3, <3>1
    <3>3. QED
      BY <1>4, <1>5, <2>1, <2>3, <3>2
  <2>4. i <= k \/ i > k
    BY <2>1
  <2>5. QED
    BY <2>2, <2>3, <2>4
<1>7. a \o b = c
  BY <1>4, <1>5, <1>6, SameString
<1>8. QED
  BY <1>7 DEF a, b, c

(* A string is all of its bytes.                                           *)
LEMMA SubAll ==
  ASSUME NEW s, String(s)
  PROVE  SubSeq(s, 1, Len(s)) = s
<1>1. Len(s) \in Nat
  BY DEF String
<1>2. /\ String(SubSeq(s, 1, Len(s))) /\ Len(SubSeq(s, 1, Len(s))) = Len(s)
      /\ \A i \in 1 .. Len(s) : SubSeq(s, 1, Len(s))[i] = s[i]
  BY <1>1, Sub
<1>3. QED
  BY <1>2, SameString

--------------------------------------------------------------------------------
(* Blocks.                                                                 *)

(* The sizes are positive.                                                 *)
LEMMA BlockType == BLOCK \in Nat \ {0} /\ SIZE \in Nat \ {0} /\ LENGTH \in Nat \ {0}
BY HashAssumption

(* A block of two strings that agree up to its end.                        *)
LEMMA BlockSame ==
  ASSUME NEW m, NEW n, String(m), String(n), NEW q \in Nat,
         q * BLOCK <= Len(m), q * BLOCK <= Len(n),
         \A i \in 1 .. q * BLOCK : n[i] = m[i],
         NEW b \in 1 .. q
  PROVE  SubSeq(n, (b - 1) * BLOCK + 1, b * BLOCK) = SubSeq(m, (b - 1) * BLOCK + 1, b * BLOCK)
<1> DEFINE lo == (b - 1) * BLOCK + 1
           hi == b * BLOCK
           top == q * BLOCK
<1>1. hi = lo - 1 + BLOCK /\ lo \in Int /\ hi \in Int /\ lo >= 1 /\ hi <= top /\ top \in Int
  BY BlockType, Product
<1>2. BLOCK \in Nat \ {0} /\ Len(m) \in Nat /\ Len(n) \in Nat /\ top <= Len(m) /\ top <= Len(n)
  BY BlockType DEF String
<1>3. \A i \in 1 .. top : n[i] = m[i]
  OBVIOUS
<1> HIDE DEF lo, hi, top
<1>4. 1 <= lo /\ lo <= hi + 1 /\ hi <= Len(m) /\ hi <= Len(n)
  BY <1>1, <1>2
<1>5. /\ String(SubSeq(m, lo, hi)) /\ Len(SubSeq(m, lo, hi)) = hi + 1 - lo
      /\ \A i \in 1 .. hi + 1 - lo : SubSeq(m, lo, hi)[i] = m[lo + i - 1]
  BY <1>1, <1>4, Sub
<1>6. /\ String(SubSeq(n, lo, hi)) /\ Len(SubSeq(n, lo, hi)) = hi + 1 - lo
      /\ \A i \in 1 .. hi + 1 - lo : SubSeq(n, lo, hi)[i] = n[lo + i - 1]
  BY <1>1, <1>4, Sub
<1>7. \A i \in 1 .. hi + 1 - lo : lo + i - 1 \in 1 .. top
  BY <1>1, <1>2
<1>8. SubSeq(n, lo, hi) = SubSeq(m, lo, hi)
  BY <1>3, <1>5, <1>6, <1>7, SameString
<1>9. QED
  BY <1>8 DEF lo, hi

(* The length of a string, in whole blocks and a rest.                     *)
LEMMA Whole ==
  ASSUME NEW m, String(m)
  PROVE  /\ Len(m) \in Nat /\ Len(m) \div BLOCK \in Nat
         /\ Len(m) % BLOCK \in Nat /\ Len(m) % BLOCK < BLOCK
         /\ (Len(m) \div BLOCK) * BLOCK \in Nat
         /\ Len(m) = (Len(m) \div BLOCK) * BLOCK + (Len(m) % BLOCK)
<1>1. Len(m) \in Nat
  BY DEF String
<1>2. QED
  BY <1>1, BlockType, Division, Product

(* Whole blocks depend on the bytes in them only.                          *)
LEMMA SameBlocks ==
  ASSUME NEW m, NEW n, String(m), String(n), NEW q \in Nat,
         Len(m) \div BLOCK = q, Len(n) \div BLOCK = q,
         \A i \in 1 .. q * BLOCK : n[i] = m[i]
  PROVE  RefBlocks(n) = RefBlocks(m)
<1>1. q * BLOCK <= Len(m) /\ q * BLOCK <= Len(n)
  BY Whole
<1>2. \A b \in 1 .. q : SubSeq(n, (b - 1) * BLOCK + 1, b * BLOCK) =
                          SubSeq(m, (b - 1) * BLOCK + 1, b * BLOCK)
  BY <1>1, BlockSame
<1>3. QED
  BY <1>2 DEF RefBlocks

(* The whole blocks of a string, one by one.                               *)
LEMMA BlocksString ==
  ASSUME NEW m, String(m)
  PROVE  String(RefBlocks(m)) /\ Len(RefBlocks(m)) = Len(m) \div BLOCK
<1>1. RefBlocks(m) = [b \in 1 .. Len(m) \div BLOCK |-> RefBlocks(m)[b]]
  BY DEF RefBlocks
<1>2. Len(m) \div BLOCK \in Nat
  BY Whole
<1>3. QED
  BY <1>1, <1>2, StringOf

(* One block more. *)
LEMMA GrowBlocks ==
  ASSUME NEW m, NEW n, String(m), String(n), NEW q \in Nat,
         Len(m) \div BLOCK = q, Len(n) \div BLOCK = q + 1,
         \A i \in 1 .. q * BLOCK : n[i] = m[i]
  PROVE  RefBlocks(n) = Append(RefBlocks(m), SubSeq(n, q * BLOCK + 1, q * BLOCK + BLOCK))
<1> DEFINE last == SubSeq(n, q * BLOCK + 1, q * BLOCK + BLOCK)
           a == Append(RefBlocks(m), last)
<1>1. q * BLOCK <= Len(m) /\ q * BLOCK <= Len(n)
  <2>1. (q + 1) * BLOCK <= Len(n) /\ (q + 1) * BLOCK = q * BLOCK + BLOCK /\ q * BLOCK \in Int
    <3>1. (q + 1) * BLOCK <= Len(n)
      BY Whole
    <3>2. QED
      BY <3>1, BlockType, Product
  <2>2. Len(n) \in Nat /\ BLOCK \in Nat
    BY Whole, BlockType
  <2> DEFINE k == q * BLOCK
  <2>3. k \in Int /\ k + BLOCK <= Len(n)
    BY <2>1
  <2> HIDE DEF k
  <2>4. k <= Len(n)
    BY <2>2, <2>3
  <2>5. QED
    BY <2>4, Whole DEF k
<1>2. \A b \in 1 .. q : SubSeq(n, (b - 1) * BLOCK + 1, b * BLOCK) =
                          SubSeq(m, (b - 1) * BLOCK + 1, b * BLOCK)
  BY <1>1, BlockSame
<1>3. /\ String(a) /\ Len(a) = q + 1
      /\ \A b \in 1 .. q + 1 : a[b] = IF b <= q THEN RefBlocks(m)[b] ELSE last
  <2>1. String(RefBlocks(m)) /\ Len(RefBlocks(m)) = q
    BY BlocksString
  <2> HIDE DEF last
  <2>2. QED
    BY <2>1, Add
<1>4. ((q + 1) - 1) * BLOCK + 1 = q * BLOCK + 1 /\ (q + 1) * BLOCK = q * BLOCK + BLOCK
  BY BlockType, Product
<1>5. ASSUME NEW b \in 1 .. q + 1 PROVE a[b] = RefBlocks(n)[b]
  <2>1. RefBlocks(n)[b] = SubSeq(n, (b - 1) * BLOCK + 1, b * BLOCK)
    BY DEF RefBlocks
  <2>2. CASE b = q + 1
    <3>1. RefBlocks(n)[b] = last
      BY <1>4, <2>1, <2>2
    <3>2. a[b] = last
      <4> HIDE DEF a, last
      <4>1. QED
        BY <1>3, <2>2
    <3>3. QED
      BY <3>1, <3>2
  <2>3. CASE b \in 1 .. q
    <3>1. a[b] = RefBlocks(m)[b]
      <4> HIDE DEF a, last
      <4>1. QED
        BY <1>3, <2>3
    <3>2. RefBlocks(m)[b] = SubSeq(m, (b - 1) * BLOCK + 1, b * BLOCK)
      BY <2>3 DEF RefBlocks
    <3>3. QED
      BY <1>2, <2>1, <2>3, <3>1, <3>2
  <2>4. b = q + 1 \/ b \in 1 .. q
    OBVIOUS
  <2>5. QED
    BY <2>2, <2>3, <2>4
<1>6. String(RefBlocks(n)) /\ Len(RefBlocks(n)) = q + 1
  BY BlocksString
<1> HIDE DEF a
<1>7. a = RefBlocks(n)
  BY <1>3, <1>5, <1>6, SameString
<1>8. QED
  BY <1>7 DEF a

(* The bytes of a block are those of the message from its place on. *)
LEMMA BlockAt ==
  ASSUME NEW n, String(n), NEW k \in Nat, k + BLOCK <= Len(n),
         NEW x, String(x), Len(x) = BLOCK, \A i \in 1 .. BLOCK : x[i] = n[k + i]
  PROVE  SubSeq(n, k + 1, k + BLOCK) = x
<1> DEFINE s == SubSeq(n, k + 1, k + BLOCK)
<1>1. Len(n) \in Nat /\ BLOCK \in Nat
  BY BlockType DEF String
<1>2. /\ String(s) /\ Len(s) = (k + BLOCK) + 1 - (k + 1)
      /\ \A i \in 1 .. (k + BLOCK) + 1 - (k + 1) : s[i] = n[(k + 1) + i - 1]
  <2>1. 1 <= k + 1 /\ k + 1 <= (k + BLOCK) + 1 /\ k + 1 \in Int /\ k + BLOCK \in Int
    BY <1>1
  <2>2. QED
    BY <2>1, Sub
<1>3. (k + BLOCK) + 1 - (k + 1) = BLOCK /\ \A i \in 1 .. BLOCK : (k + 1) + i - 1 = k + i
  BY <1>1
<1> HIDE DEF s
<1>4. s = x
  BY <1>2, <1>3, SameString
<1>5. QED
  BY <1>4 DEF s

--------------------------------------------------------------------------------
(* The hash of a message, fed in pieces: whole blocks are in ihash, the    *)
(* rest in the buffer, its length in total.                                *)

Holds(sha, m) ==
  /\ sha = [ihash |-> RefBlocks(m), buffer |-> sha.buffer, total |-> Len(m) % TotalMod]
  /\ String(sha.buffer) /\ Len(sha.buffer) = BLOCK
  /\ \A i \in 1 .. Len(m) % BLOCK : sha.buffer[i] = m[(Len(m) \div BLOCK) * BLOCK + i]

(* Processing a block appends it to what the hash is made of. *)
LEMMA Processed ==
  ASSUME NEW h, NEW b, NEW t, NEW M
  PROVE  sb_sha256_process_block([ihash |-> h, buffer |-> b, total |-> t], M) =
           [ihash |-> Append(h, M), buffer |-> b, total |-> t]
BY DEF sb_sha256_process_block

(* The three ends of the loop's body, in the fields of the hash. *)
LEMMA Absorbed ==
  ASSUME NEW h, NEW b, NEW t, NEW bytes
  PROVE  LET u == (t + Len(bytes)) % TotalMod
             c == CopyTo(b, t % BLOCK, bytes)
         IN  Absorb([ihash |-> h, buffer |-> b, total |-> t], bytes) =
               IF t % BLOCK = 0 /\ Len(bytes) = BLOCK
                 THEN [ihash |-> Append(h, bytes), buffer |-> b, total |-> u]
               ELSE IF u % BLOCK = 0 THEN [ihash |-> Append(h, c), buffer |-> c, total |-> u]
               ELSE [ihash |-> h, buffer |-> c, total |-> u]
<1> DEFINE u == (t + Len(bytes)) % TotalMod
           c == CopyTo(b, t % BLOCK, bytes)
           sha == [ihash |-> h, buffer |-> b, total |-> t]
           counted == [sha EXCEPT !.total = (@ + Len(bytes)) % TotalMod]
           copied == [counted EXCEPT !.buffer = CopyTo(@, sha.total % BLOCK, bytes)]
<1>1. sha.total = t
  OBVIOUS
<1>2. counted = [ihash |-> h, buffer |-> b, total |-> u]
  OBVIOUS
<1>3. copied = [ihash |-> h, buffer |-> c, total |-> u]
  <2> HIDE DEF counted
  <2>1. QED
    BY <1>1, <1>2
<1>4. Absorb(sha, bytes) =
        IF sha.total % BLOCK = 0 /\ Len(bytes) = BLOCK
          THEN sb_sha256_process_block(counted, bytes)
        ELSE IF counted.total % BLOCK = 0 THEN sb_sha256_process_block(copied, copied.buffer)
        ELSE copied
  BY Zenon DEF Absorb
<1>5. counted.total = u /\ copied.buffer = c
  <2> HIDE DEF counted, copied
  <2>1. QED
    BY <1>2, <1>3
<1>6. /\ sb_sha256_process_block(counted, bytes) =
           [ihash |-> Append(h, bytes), buffer |-> b, total |-> u]
      /\ sb_sha256_process_block(copied, c) =
           [ihash |-> Append(h, c), buffer |-> c, total |-> u]
  <2> HIDE DEF counted, copied, u, c
  <2>1. QED
    BY <1>2, <1>3, Processed
<1> HIDE DEF counted, copied, u, c
<1>7. Absorb(sha, bytes) =
        IF t % BLOCK = 0 /\ Len(bytes) = BLOCK
          THEN [ihash |-> Append(h, bytes), buffer |-> b, total |-> u]
        ELSE IF u % BLOCK = 0 THEN [ihash |-> Append(h, c), buffer |-> c, total |-> u]
        ELSE [ihash |-> h, buffer |-> c, total |-> u]
  <2> HIDE DEF sha
  <2>1. QED
    BY <1>1, <1>3, <1>4, <1>5, <1>6
<1>8. QED
  BY <1>7 DEF u, c

(* A few bytes more fill the block or do not. *)
LEMMA AbsorbHolds ==
  ASSUME NEW sha, NEW m, NEW bytes, Holds(sha, m), String(m), String(bytes),
         1 <= Len(bytes), Len(bytes) <= BLOCK - (Len(m) % BLOCK)
  PROVE  Holds(Absorb(sha, bytes), m \o bytes)
<1> DEFINE n == m \o bytes
           q == Len(m) \div BLOCK
           r == Len(m) % BLOCK
           k == Len(bytes)
           top == q * BLOCK
           copy == CopyTo(sha.buffer, r, bytes)
<1>1. /\ q \in Nat /\ r \in Nat /\ r < BLOCK /\ top \in Nat /\ Len(m) = top + r
      /\ k \in Nat /\ BLOCK \in Nat \ {0}
  BY Whole, BlockType DEF String
<1>2. /\ String(n) /\ Len(n) = Len(m) + k
      /\ \A i \in 1 .. Len(m) + k : n[i] = IF i <= Len(m) THEN m[i] ELSE bytes[i - Len(m)]
  BY Concat
<1>3. /\ sha = [ihash |-> RefBlocks(m), buffer |-> sha.buffer, total |-> Len(m) % TotalMod]
      /\ String(sha.buffer) /\ Len(sha.buffer) = BLOCK
      /\ \A i \in 1 .. r : sha.buffer[i] = m[top + i]
  BY DEF Holds
<1>4. sha.total % BLOCK = r
  <2>1. sha.total = Len(m) % TotalMod
    BY <1>3
  <2>2. Len(m) \in Nat
    BY <1>1
  <2>3. (Len(m) % TotalMod) % BLOCK = r
    BY <2>2, BlockType, HashAssumption, ModMod
  <2>4. QED
    BY <2>1, <2>3
<1>5. (sha.total + k) % TotalMod = Len(n) % TotalMod
  <2>1. sha.total = Len(m) % TotalMod /\ Len(m) \in Nat
    BY <1>1, <1>3
  <2>2. ((Len(m) % TotalMod) + k) % TotalMod = (Len(m) + k) % TotalMod
    <3>1. TotalMod \in Nat \ {0} /\ k \in Nat
      BY <1>1, HashAssumption
    <3> HIDE DEF k
    <3>2. QED
      BY <2>1, <3>1, RestOfSum
  <2>3. QED
    BY <1>2, <2>1, <2>2
<1>6. (Len(n) % TotalMod) % BLOCK = Len(n) % BLOCK
  <2>1. Len(n) \in Nat
    BY <1>1, <1>2
  <2>2. QED
    BY <2>1, BlockType, HashAssumption, ModMod
<1>7. /\ String(copy) /\ Len(copy) = BLOCK
      /\ \A i \in 1 .. BLOCK : copy[i] = IF i > r /\ i <= r + k THEN bytes[i - r] ELSE sha.buffer[i]
  <2>1. /\ String(copy) /\ Len(copy) = Len(sha.buffer)
        /\ \A i \in 1 .. Len(sha.buffer) :
             copy[i] = IF i > r /\ i <= r + Len(bytes) THEN bytes[i - r] ELSE sha.buffer[i]
    <3> HIDE DEF r
    <3>1. String(sha.buffer) /\ r \in Nat
      BY <1>1, <1>3
    <3>2. PICK old, at : old = sha.buffer /\ at = r
      OBVIOUS
    <3>3. PICK c : c = CopyTo(old, at, bytes)
      OBVIOUS
    <3>4. /\ String(c) /\ Len(c) = Len(old)
          /\ \A i \in 1 .. Len(old) :
               c[i] = IF i > at /\ i <= at + Len(bytes) THEN bytes[i - at] ELSE old[i]
      <4>1. String(old) /\ at \in Nat
        BY <3>1, <3>2
      <4>2. /\ String(CopyTo(old, at, bytes)) /\ Len(CopyTo(old, at, bytes)) = Len(old)
            /\ \A i \in 1 .. Len(old) :
                 CopyTo(old, at, bytes)[i] =
                   IF i > at /\ i <= at + Len(bytes) THEN bytes[i - at] ELSE old[i]
        BY <4>1, CopyString
      <4>3. QED
        BY <3>3, <4>2, Zenon
    <3>5. c = copy
      BY <3>2, <3>3, Zenon
    <3> HIDE DEF copy
    <3>6. QED
      BY <3>2, <3>4, <3>5
  <2> HIDE DEF copy, r
  <2>2. QED
    BY <1>3, <2>1
<1>8. \A i \in 1 .. top : n[i] = m[i]
  <2> HIDE DEF n, q, r, k, top
  <2>1. QED
    BY <1>1, <1>2
<1> HIDE DEF n, q, r, k, top, copy
<1>9. ASSUME NEW i \in 1 .. r + k PROVE i \in 1 .. BLOCK /\ copy[i] = n[top + i]
  <2>1. r + k <= BLOCK
    BY <1>1 DEF k, r
  <2>2. CASE i <= r
    <3>1. copy[i] = m[top + i]
      <4>1. i \in 1 .. BLOCK /\ i \in 1 .. r /\ ~(i > r)
        BY <1>1, <2>1, <2>2
      <4>2. copy[i] = sha.buffer[i]
        BY <1>7, <4>1
      <4>3. QED
        BY <1>3, <4>1, <4>2
    <3>2. n[top + i] = m[top + i]
      BY <1>1, <1>2, <2>2
    <3>3. QED
      BY <1>1, <2>1, <3>1, <3>2
  <2>3. CASE i > r
    <3>1. copy[i] = bytes[i - r]
      BY <1>1, <1>7, <2>1, <2>3
    <3>2. n[top + i] = bytes[(top + i) - Len(m)] /\ (top + i) - Len(m) = i - r
      BY <1>1, <1>2, <2>3
    <3>3. QED
      BY <1>1, <2>1, <3>1, <3>2
  <2>4. i <= r \/ i > r
    BY <1>1
  <2>5. QED
    BY <2>2, <2>3, <2>4
<1>10. Absorb(sha, bytes) =
         IF r = 0 /\ k = BLOCK
           THEN [ihash |-> Append(RefBlocks(m), bytes), buffer |-> sha.buffer,
                 total |-> Len(n) % TotalMod]
         ELSE IF (Len(n) % TotalMod) % BLOCK = 0
           THEN [ihash |-> Append(RefBlocks(m), copy), buffer |-> copy, total |-> Len(n) % TotalMod]
         ELSE [ihash |-> RefBlocks(m), buffer |-> copy, total |-> Len(n) % TotalMod]
  <2>1. PICK h, b, t : h = RefBlocks(m) /\ b = sha.buffer /\ t = sha.total
    OBVIOUS
  <2>2. sha = [ihash |-> h, buffer |-> b, total |-> t]
    BY <1>3, <2>1
  <2>3. t % BLOCK = r /\ Len(n) % TotalMod = (t + Len(bytes)) % TotalMod /\ copy = CopyTo(b, r, bytes)
    BY <1>4, <1>5, <2>1 DEF copy, k
  <2>4. Absorb(sha, bytes) =
          IF r = 0 /\ Len(bytes) = BLOCK
            THEN [ihash |-> Append(h, bytes), buffer |-> b, total |-> (t + Len(bytes)) % TotalMod]
          ELSE IF ((t + Len(bytes)) % TotalMod) % BLOCK = 0
            THEN [ihash |-> Append(h, copy), buffer |-> copy, total |-> (t + Len(bytes)) % TotalMod]
          ELSE [ihash |-> h, buffer |-> copy, total |-> (t + Len(bytes)) % TotalMod]
    <3> DEFINE u == (t + Len(bytes)) % TotalMod
               c == CopyTo(b, t % BLOCK, bytes)
               w == [ihash |-> h, buffer |-> b, total |-> t]
    <3>1. Absorb(w, bytes) =
            IF t % BLOCK = 0 /\ Len(bytes) = BLOCK
              THEN [ihash |-> Append(h, bytes), buffer |-> b, total |-> u]
            ELSE IF u % BLOCK = 0 THEN [ihash |-> Append(h, c), buffer |-> c, total |-> u]
            ELSE [ihash |-> h, buffer |-> c, total |-> u]
      BY Absorbed
    <3>2. copy = c /\ t % BLOCK = r /\ sha = w
      BY <2>2, <2>3
    <3> HIDE DEF copy, u, c, w
    <3>3. Absorb(sha, bytes) =
            IF r = 0 /\ Len(bytes) = BLOCK
              THEN [ihash |-> Append(h, bytes), buffer |-> b, total |-> u]
            ELSE IF u % BLOCK = 0 THEN [ihash |-> Append(h, copy), buffer |-> copy, total |-> u]
            ELSE [ihash |-> h, buffer |-> copy, total |-> u]
      BY <3>1, <3>2
    <3>4. QED
      BY <3>3 DEF u
  <2>5. QED
    BY <2>1, <2>3, <2>4 DEF k
<1>11. CASE r + k < BLOCK
  <2>1. Len(n) \div BLOCK = q /\ Len(n) % BLOCK = r + k
    <3>1. Len(n) = top + (r + k) /\ r + k \in Nat
      BY <1>1, <1>2
    <3>2. (q * BLOCK + (r + k)) \div BLOCK = q /\ (q * BLOCK + (r + k)) % BLOCK = r + k
      BY <1>1, <1>11, <3>1, Quotient
    <3>3. QED
      BY <3>1, <3>2 DEF top
  <2>2. RefBlocks(n) = RefBlocks(m)
    BY <1>1, <1>2, <1>8, <2>1, SameBlocks DEF q, top
  <2>3. 1 <= k
    BY DEF k
  <2>4. Absorb(sha, bytes) = [ihash |-> RefBlocks(m), buffer |-> copy, total |-> Len(n) % TotalMod]
    <3>1. (Len(n) % TotalMod) % BLOCK # 0
      BY <1>1, <1>6, <2>1, <2>3
    <3>2. ~(r = 0 /\ k = BLOCK)
      BY <1>1, <1>11
    <3>3. QED
      BY <1>10, <3>1, <3>2
  <2>5. QED
    <3> DEFINE s == [ihash |-> RefBlocks(m), buffer |-> copy, total |-> Len(n) % TotalMod]
    <3>1. /\ s = [ihash |-> RefBlocks(n), buffer |-> s.buffer, total |-> Len(n) % TotalMod]
          /\ s.buffer = copy
      BY <2>2
    <3>2. \A i \in 1 .. Len(n) % BLOCK : copy[i] = n[(Len(n) \div BLOCK) * BLOCK + i]
      BY <1>9, <2>1 DEF top
    <3> HIDE DEF s
    <3>3. Holds(s, n)
      BY <1>7, <3>1, <3>2 DEF Holds
    <3>4. QED
      BY <2>4, <3>3 DEF s, n
<1>12. CASE r + k = BLOCK
  <2>1. Len(n) \div BLOCK = q + 1 /\ Len(n) % BLOCK = 0
    <3>1. Len(n) = top + BLOCK
      BY <1>1, <1>2, <1>12
    <3>2. (q + 1) * BLOCK = q * BLOCK + BLOCK
      BY <1>1, Product
    <3>3. ((q + 1) * BLOCK + 0) \div BLOCK = q + 1 /\ ((q + 1) * BLOCK + 0) % BLOCK = 0
      <4>1. q + 1 \in Nat /\ 0 < BLOCK
        BY <1>1
      <4>2. QED
        BY <1>1, <4>1, Quotient
    <3>4. Len(n) = (q + 1) * BLOCK + 0
      BY <1>1, <3>1, <3>2 DEF top
    <3>5. QED
      BY <3>3, <3>4, Zenon
  <2>2. RefBlocks(n) = Append(RefBlocks(m), SubSeq(n, top + 1, top + BLOCK))
    BY <1>1, <1>2, <1>8, <2>1, GrowBlocks DEF q, top
  <2>3. top + BLOCK <= Len(n)
    BY <1>1, <1>2, <1>12
  <2>4. RefBlocks(n) = Append(RefBlocks(m), copy)
    <3>1. SubSeq(n, top + 1, top + BLOCK) = copy
      <4>1. \A i \in 1 .. BLOCK : copy[i] = n[top + i]
        BY <1>9, <1>12
      <4>2. QED
        <5>1. String(n) /\ String(copy) /\ Len(copy) = BLOCK /\ top \in Nat
          BY <1>1, <1>2, <1>7
        <5>2. QED
          BY <2>3, <4>1, <5>1, BlockAt
    <3>2. QED
      BY <2>2, <3>1
  <2>5. r = 0 /\ k = BLOCK => copy = bytes
    <3>1. SUFFICES ASSUME r = 0, k = BLOCK PROVE copy = bytes
      OBVIOUS
    <3>2. ASSUME NEW i \in 1 .. BLOCK PROVE copy[i] = bytes[i]
      <4>1. i > r /\ i <= r + k /\ i - r = i
        BY <1>1, <3>1
      <4>2. QED
        BY <1>7, <4>1
    <3>3. String(bytes) /\ Len(bytes) = BLOCK
      BY <3>1 DEF k
    <3>4. QED
      BY <1>7, <3>2, <3>3, SameString
  <2>6. PICK b : /\ Absorb(sha, bytes) = [ihash |-> RefBlocks(n), buffer |-> b,
                                           total |-> Len(n) % TotalMod]
                 /\ String(b) /\ Len(b) = BLOCK
    <3>1. (Len(n) % TotalMod) % BLOCK = 0
      BY <1>6, <2>1
    <3>2. CASE r = 0 /\ k = BLOCK
      BY <1>3, <1>10, <2>4, <2>5, <3>2
    <3>3. CASE ~(r = 0 /\ k = BLOCK)
      BY <1>7, <1>10, <2>4, <3>1, <3>3
    <3>4. QED
      BY <3>2, <3>3
  <2>7. QED
    <3> DEFINE s == [ihash |-> RefBlocks(n), buffer |-> b, total |-> Len(n) % TotalMod]
    <3>1. /\ s = [ihash |-> RefBlocks(n), buffer |-> s.buffer, total |-> Len(n) % TotalMod]
          /\ s.buffer = b
      OBVIOUS
    <3> HIDE DEF s
    <3>2. Holds(s, n)
      BY <2>1, <2>6, <3>1 DEF Holds
    <3>3. QED
      BY <2>6, <3>2 DEF s, n
<1>13. r + k < BLOCK \/ r + k = BLOCK
  BY <1>1 DEF k, r
<1>14. QED
  BY <1>11, <1>12, <1>13

(* What is in the block is what is left of the message. *)
LEMMA Fill ==
  ASSUME NEW sha, NEW m, Holds(sha, m), String(m)
  PROVE  sha.total % BLOCK = Len(m) % BLOCK
<1>1. sha.total = Len(m) % TotalMod
  BY DEF Holds
<1>2. Len(m) \in Nat
  BY DEF String
<1>3. (Len(m) % TotalMod) % BLOCK = Len(m) % BLOCK
  BY <1>2, BlockType, HashAssumption, ModMod
<1>4. QED
  BY <1>1, <1>3

(* The loop of sb_sha256_update ends: there is a state after every turn. *)
LEMMA UpdateTurns ==
  ASSUME NEW sha, NEW input, NEW n \in Nat
  PROVE  \E turn : turn = [i \in 0 .. n |-> IF i = 0 THEN [done |-> 0, sha |-> sha]
                                             ELSE UpdateTurn(turn[i - 1], input)]
<1> DEFINE first == [done |-> 0, sha |-> sha]
           Turns(f, k) == f = [i \in 0 .. k |-> IF i = 0 THEN first
                                                 ELSE UpdateTurn(f[i - 1], input)]
           S == {k \in Nat : \E f : Turns(f, k)}
<1> HIDE DEF first
<1>1. 0 \in S
  <2>1. Turns([i \in 0 .. 0 |-> first], 0)
    OBVIOUS
  <2>2. QED
    BY <2>1
<1>2. ASSUME NEW k \in Nat, k \in S PROVE k + 1 \in S
  <2>1. PICK f : Turns(f, k)
    BY <1>2
  <2> DEFINE next == UpdateTurn(f[k], input)
             g == [i \in 0 .. k + 1 |-> IF i <= k THEN f[i] ELSE next]
  <2>2. ASSUME NEW i \in 0 .. k + 1
        PROVE  g[i] = IF i = 0 THEN first ELSE UpdateTurn(g[i - 1], input)
    <3>1. CASE i = 0
      <4>1. g[i] = f[0] /\ f[0] = first
        BY <2>1, <3>1
      <4>2. QED
        BY <3>1, <4>1
    <3>2. CASE i \in 1 .. k
      <4>1. g[i] = f[i] /\ g[i - 1] = f[i - 1]
        BY <3>2
      <4>2. f[i] = UpdateTurn(f[i - 1], input)
        BY <2>1, <3>2
      <4>3. i # 0
        BY <3>2
      <4> HIDE DEF g
      <4>4. QED
        BY <4>1, <4>2, <4>3
    <3>3. CASE i = k + 1
      <4>1. i - 1 = k /\ i # 0 /\ ~(i <= k) /\ k \in 0 .. k + 1
        BY <3>3
      <4>2. g[i] = next /\ g[i - 1] = f[k]
        <5> HIDE DEF next
        <5>1. QED
          BY <4>1
      <4> HIDE DEF g
      <4>3. QED
        BY <4>1, <4>2
    <3>4. i = 0 \/ i \in 1 .. k \/ i = k + 1
      OBVIOUS
    <3>5. QED
      BY <3>1, <3>2, <3>3, <3>4
  <2>3. g = [i \in 0 .. k + 1 |-> g[i]]
    OBVIOUS
  <2> HIDE DEF g
  <2>4. Turns(g, k + 1)
    BY <2>2, <2>3
  <2>5. k + 1 \in Nat
    OBVIOUS
  <2> HIDE DEF Turns
  <2>6. QED
    BY <2>4, <2>5
<1>3. n \in S
  <2> HIDE DEF S
  <2>1. Nat \subseteq S
    BY <1>1, <1>2, Induction
  <2>2. QED
    BY <2>1
<1>4. PICK f : Turns(f, n)
  BY <1>3
<1>5. QED
  BY <1>4 DEF first

(* However many bytes are given, the hash holds the message with them. *)
LEMMA UpdateHolds ==
  ASSUME NEW sha, NEW m, NEW input, Holds(sha, m), String(m), String(input)
  PROVE  Holds(sb_sha256_update(sha, input), m \o input)
<1> DEFINE n == Len(input)
           turn[i \in 0 .. n] ==
             IF i = 0 THEN [done |-> 0, sha |-> sha] ELSE UpdateTurn(turn[i - 1], input)
           To(d) == m \o SubSeq(input, 1, d)
           S == {i \in Nat : i <= n => \E d \in i .. n : /\ turn[i].done = d
                                                         /\ Holds(turn[i].sha, To(d))}
<1>1. n \in Nat
  BY DEF String
<1>2. sb_sha256_update(sha, input) = turn[n].sha
  BY DEF sb_sha256_update
<1>3. turn = [i \in 0 .. n |-> IF i = 0 THEN [done |-> 0, sha |-> sha]
                                ELSE UpdateTurn(turn[i - 1], input)]
  BY SMTT(20), <1>1, UpdateTurns
<1> HIDE DEF turn
<1>4. 0 \in S
  <2>1. turn[0] = [done |-> 0, sha |-> sha]
    BY <1>1, <1>3
  <2>2. SubSeq(input, 1, 0) = <<>>
    <3>1. String(SubSeq(input, 1, 0)) /\ Len(SubSeq(input, 1, 0)) = 0
      BY <1>1, Sub
    <3>2. QED
      BY <3>1, Empty, SameString
  <2>3. To(0) = m
    BY <2>2, ConcatNothing
  <2> HIDE DEF To, n
  <2>4. turn[0].done = 0 /\ Holds(turn[0].sha, To(0)) /\ 0 \in 0 .. n
    BY <1>1, <2>1, <2>3
  <2>5. QED
    BY <2>4
<1>5. ASSUME NEW i \in Nat, i \in S PROVE i + 1 \in S
  <2> SUFFICES ASSUME i + 1 <= n
               PROVE  \E d \in i + 1 .. n : turn[i + 1].done = d /\ Holds(turn[i + 1].sha, To(d))
    OBVIOUS
  <2>1. PICK d \in i .. n : turn[i].done = d /\ Holds(turn[i].sha, To(d))
    BY <1>1, <1>5
  <2>2. turn[i + 1] = UpdateTurn(turn[i], input)
    <3>1. i + 1 \in 0 .. n /\ i + 1 # 0 /\ (i + 1) - 1 = i
      BY <1>1
    <3>2. QED
      BY <1>3, <3>1
  <2>3. PICK s : s = turn[i]
    OBVIOUS
  <2>4. s.done = d /\ Holds(s.sha, To(d)) /\ turn[i + 1] = UpdateTurn(s, input)
    BY <2>1, <2>2, <2>3
  <2>5. d \in Nat /\ n \in Nat /\ d <= n /\ i <= d /\ i + 1 <= n
    BY <1>1, <2>1
  <2>6. CASE d = n
    <3>1. turn[i + 1] = s
      <4>1. Len(input) - s.done = 0
        BY <2>4, <2>5, <2>6
      <4>2. QED
        BY <2>4, <4>1 DEF UpdateTurn
    <3> HIDE DEF To, n
    <3>2. d \in i + 1 .. n /\ turn[i + 1].done = d /\ Holds(turn[i + 1].sha, To(d))
      BY <2>4, <2>5, <2>6, <3>1
    <3>3. QED
      BY <3>2
  <2>7. CASE d < n
    <3>1. String(SubSeq(input, 1, d)) /\ String(To(d))
      <4>1. String(SubSeq(input, 1, d))
        BY <2>5, Sub
      <4>2. QED
        BY <4>1, Concat
    <3>2. s.sha.total % BLOCK = Len(To(d)) % BLOCK
      <4> HIDE DEF To
      <4>1. QED
        BY <2>4, <3>1, Fill
    <3>3. PICK r : r = Len(To(d)) % BLOCK /\ r \in Nat /\ r < BLOCK
      BY <3>1, Whole
    <3>4. PICK take : take = IF n - d > BLOCK - r THEN BLOCK - r ELSE n - d
      OBVIOUS
    <3>5. take \in Nat /\ 1 <= take /\ take <= n - d /\ take <= BLOCK - r
      <4> HIDE DEF n, To
      <4>1. QED
        BY <2>5, <2>7, <3>3, <3>4, BlockType
    <3>6. PICK bytes : bytes = SubSeq(input, d + 1, d + take)
      OBVIOUS
    <3>7. turn[i + 1] = [done |-> d + take, sha |-> Absorb(s.sha, bytes)]
      <4>1. Len(input) - s.done = n - d /\ n - d # 0
        BY <2>4, <2>5, <2>7
      <4>2. BLOCK - (s.sha.total % BLOCK) = BLOCK - r
        BY <3>2, <3>3
      <4>3. UpdateTurn(s, input) =
              [done |-> s.done + take,
               sha |-> Absorb(s.sha, SubSeq(input, s.done + 1, s.done + take))]
        <5> HIDE DEF n
        <5>1. QED
          BY <3>4, <4>1, <4>2 DEF UpdateTurn
      <4>4. QED
        BY <2>4, <3>6, <4>3
    <3>8. String(bytes) /\ Len(bytes) = take
      <4>1. d + take <= Len(input) /\ d + 1 \in Int /\ d + take \in Int /\ 1 <= d + 1
            /\ d + 1 <= (d + take) + 1
        BY <2>5, <3>5
      <4>2. String(bytes) /\ Len(bytes) = (d + take) + 1 - (d + 1)
        BY <3>6, <4>1, Sub
      <4>3. QED
        BY <2>5, <3>5, <4>2
    <3>9. Holds(Absorb(s.sha, bytes), To(d) \o bytes)
      <4>1. 1 <= Len(bytes) /\ Len(bytes) <= BLOCK - (Len(To(d)) % BLOCK)
        BY <3>3, <3>5, <3>8
      <4> HIDE DEF To
      <4>2. QED
        BY <2>4, <3>1, <3>8, <4>1, AbsorbHolds
    <3>10. To(d) \o bytes = To(d + take)
      <4>1. SubSeq(input, 1, d) \o bytes = SubSeq(input, 1, d + take)
        <5>1. d <= Len(input) /\ d + take <= Len(input)
          BY <2>5, <3>5
        <5>2. QED
          BY <2>5, <3>5, <3>6, <5>1, SubTwo
      <4>2. To(d) \o bytes = m \o (SubSeq(input, 1, d) \o bytes)
        <5>1. PICK a : a = SubSeq(input, 1, d)
          OBVIOUS
        <5>2. String(a)
          BY <3>1, <5>1
        <5>3. (m \o a) \o bytes = m \o (a \o bytes)
          BY SMTT(20), <3>8, <5>2, ConcatAssociates
        <5>4. QED
          BY <5>1, <5>3
      <4>3. QED
        BY <4>1, <4>2
    <3> HIDE DEF To, n
    <3>11. PICK e : e = d + take
      OBVIOUS
    <3>12. e \in i + 1 .. n
      BY <2>5, <3>5, <3>11
    <3>13. turn[i + 1].done = e /\ Holds(turn[i + 1].sha, To(e))
      BY <3>7, <3>9, <3>10, <3>11
    <3>14. QED
      BY <3>12, <3>13
  <2>8. d = n \/ d < n
    BY <2>5
  <2>9. QED
    BY <2>6, <2>7, <2>8
<1>6. n \in S
  <2> HIDE DEF S
  <2>1. Nat \subseteq S
    BY <1>4, <1>5, Induction
  <2>2. QED
    BY <1>1, <2>1
<1>7. Holds(turn[n].sha, To(n))
  <2> HIDE DEF To
  <2>1. PICK d \in n .. n : Holds(turn[n].sha, To(d))
    BY <1>1, <1>6
  <2>2. d = n
    BY <1>1, <2>1
  <2>3. QED
    BY <2>1, <2>2
<1>8. To(n) = m \o input
  BY SubAll
<1> HIDE DEF To, n
<1>9. QED
  BY <1>2, <1>7, <1>8

--------------------------------------------------------------------------------
(* The end of a message.                                                   *)

(* Zeros bring a length to the end of a block in one way.                  *)
LEMMA OneWay ==
  ASSUME NEW x \in Nat, NEW y \in 0 .. BLOCK - 1, NEW z \in 0 .. BLOCK - 1,
         (x + y) % BLOCK = 0, (x + z) % BLOCK = 0
  PROVE  ~(y < z)
<1> SUFFICES ASSUME y < z PROVE FALSE
  OBVIOUS
<1>1. BLOCK \in Nat \ {0} /\ x + y \in Nat /\ x + z \in Nat /\ y \in Nat /\ z \in Nat /\ z < BLOCK
  BY BlockType
<1>2. PICK a \in Nat : x + y = a * BLOCK
  <2>1. x + y = ((x + y) \div BLOCK) * BLOCK + 0 /\ (x + y) \div BLOCK \in Nat
    BY <1>1, Division
  <2>2. ((x + y) \div BLOCK) * BLOCK \in Int
    BY <1>1, <2>1, Product
  <2>3. QED
    BY <2>1, <2>2
<1>3. PICK b \in Nat : x + z = b * BLOCK
  <2>1. x + z = ((x + z) \div BLOCK) * BLOCK + 0 /\ (x + z) \div BLOCK \in Nat
    BY <1>1, Division
  <2>2. ((x + z) \div BLOCK) * BLOCK \in Int
    BY <1>1, <2>1, Product
  <2>3. QED
    BY <2>1, <2>2
<1> DEFINE aB == a * BLOCK
           bB == b * BLOCK
<1>4. aB \in Int /\ bB \in Int /\ x + y = aB /\ x + z = bB
  BY <1>1, <1>2, <1>3, Product
<1>5. CASE b <= a
  <2>1. bB <= aB
    BY <1>1, <1>5, Product
  <2> HIDE DEF aB, bB
  <2>2. QED
    BY <1>1, <1>4, <2>1
<1>6. CASE a + 1 <= b
  <2>1. (a + 1) * BLOCK <= bB /\ (a + 1) * BLOCK = aB + BLOCK
    BY <1>1, <1>6, Product
  <2>2. aB + BLOCK <= bB
    BY <2>1
  <2> HIDE DEF aB, bB
  <2>3. QED
    BY <1>1, <1>4, <2>2
<1>7. b <= a \/ a + 1 <= b
  OBVIOUS
<1>8. QED
  BY <1>5, <1>6, <1>7

(* How many zeros the padding has: the length goes in the block of the     *)
(* last byte when there is place for it, otherwise in the next one.        *)
LEMMA Padding ==
  ASSUME NEW m, String(m), NEW l \in Nat, l = Len(m) + 1
  PROVE  LET z == IF (l % BLOCK) + LENGTH <= BLOCK THEN BLOCK - LENGTH - (l % BLOCK)
                  ELSE 2 * BLOCK - LENGTH - (l % BLOCK)
         IN  /\ z \in Nat
             /\ RefPadded(m) = ((m \o <<FinalBit>>) \o Zeros(z)) \o Number(8 * Len(m))
<1> DEFINE q == l \div BLOCK
           r == l % BLOCK
           top == q * BLOCK
           z == IF r + LENGTH <= BLOCK THEN BLOCK - LENGTH - r ELSE 2 * BLOCK - LENGTH - r
           Right(y) == (Len(m) + 1 + y + LENGTH) % BLOCK = 0
           zeros == CHOOSE y \in 0 .. BLOCK - 1 : Right(y)
<1>1. BLOCK \in Nat \ {0} /\ LENGTH \in 1 .. BLOCK /\ Len(m) \in Nat
  BY HashAssumption, BlockType DEF String
<1>2. q \in Nat /\ r \in Nat /\ r < BLOCK /\ l = top + r /\ top \in Int
  BY <1>1, Division, Product
<1>3. z \in 0 .. BLOCK - 1
  <2> HIDE DEF r
  <2>1. QED
    BY <1>1, <1>2
<1>4. Right(z)
  <2>1. Len(m) + 1 + z + LENGTH = l + (z + LENGTH)
    <3> HIDE DEF z
    <3>1. QED
      BY <1>1, <1>3
  <2>2. PICK k \in {1, 2} : z + LENGTH + r = k * BLOCK
    <3>1. CASE r + LENGTH <= BLOCK
      <4> HIDE DEF r
      <4>1. z + LENGTH + r = 1 * BLOCK
        BY <1>1, <1>2, <3>1
      <4>2. QED
        BY <4>1
    <3>2. CASE ~(r + LENGTH <= BLOCK)
      <4> HIDE DEF r
      <4>1. z + LENGTH + r = 2 * BLOCK
        BY <1>1, <1>2, <3>2
      <4>2. QED
        BY <4>1
    <3>3. QED
      BY <3>1, <3>2
  <2>3. l + (z + LENGTH) = (q + k) * BLOCK + 0
    <3>1. (q + k) * BLOCK = q * BLOCK + k * BLOCK /\ k * BLOCK \in Int
      BY <1>1, <1>2, Product
    <3> DEFINE kB == k * BLOCK
    <3>2. (q + k) * BLOCK = top + kB /\ kB \in Int /\ z + LENGTH + r = kB
      BY <2>2, <3>1
    <3> HIDE DEF kB, top, z, r, q
    <3>3. QED
      BY <1>1, <1>2, <1>3, <3>2
  <2>4. ((q + k) * BLOCK + 0) % BLOCK = 0
    <3>1. q + k \in Nat
      BY <1>2
    <3> HIDE DEF q
    <3>2. QED
      BY <1>1, <3>1, Quotient
  <2> HIDE DEF z
  <2>5. (l + (z + LENGTH)) % BLOCK = 0
    BY <2>3, <2>4, Zenon
  <2>6. QED
    BY <2>1, <2>5, Zenon
<1>5. zeros = z
  <2>1. zeros \in 0 .. BLOCK - 1 /\ Right(zeros)
    <3> HIDE DEF z
    <3>1. QED
      BY <1>3, <1>4
  <2>2. PICK y \in 0 .. BLOCK - 1 : y = zeros /\ Right(y)
    BY <2>1
  <2>3. PICK x \in Nat : x = Len(m) + 1 + LENGTH
    BY <1>1
  <2> HIDE DEF z, zeros
  <2>4. Len(m) + 1 + y + LENGTH = x + y /\ Len(m) + 1 + z + LENGTH = x + z
    BY <1>1, <1>3, <2>3
  <2>5. (x + y) % BLOCK = 0 /\ (x + z) % BLOCK = 0
    BY <1>4, <2>2, <2>4
  <2>6. ~(y < z) /\ ~(z < y)
    BY <1>3, <2>5, OneWay
  <2>7. y \in Int /\ z \in Int
    BY <1>3
  <2>8. QED
    BY <2>2, <2>6, <2>7
<1>6. RefPadded(m) = ((m \o <<FinalBit>>) \o Zeros(zeros)) \o Number(8 * Len(m))
  BY DEF RefPadded
<1>7. z \in Nat
  <2> HIDE DEF z
  <2>1. QED
    BY <1>1, <1>3
<1> HIDE DEF z, zeros
<1>8. RefPadded(m) = ((m \o <<FinalBit>>) \o Zeros(z)) \o Number(8 * Len(m))
  BY <1>5, <1>6
<1>9. QED
  BY <1>7, <1>8 DEF z, r

(* The two ends of finish_internal, in the fields of the hash.             *)
LEMMA Finished ==
  ASSUME NEW sha, NEW h, NEW b, NEW t,
         sb_sha256_update(sha, <<FinalBit>>) = [ihash |-> h, buffer |-> b, total |-> t]
  PROVE  LET fill == t % BLOCK
             cleared == CopyTo(b, fill, Zeros(BLOCK - fill))
             size == Number(sha.total * 8)
             one == CopyTo(cleared, BLOCK - LENGTH, size)
             two == CopyTo(Zeros(BLOCK), BLOCK - LENGTH, size)
         IN  sb_sha256_finish_internal(sha) =
               IF BLOCK - fill < LENGTH
                 THEN [ihash |-> Append(Append(h, cleared), two), buffer |-> two, total |-> t]
               ELSE [ihash |-> Append(h, one), buffer |-> one, total |-> t]
<1> DEFINE bit == sb_sha256_update(sha, <<FinalBit>>)
           fill == bit.total % BLOCK
           cleared == CopyTo(bit.buffer, fill, Zeros(BLOCK - fill))
           size == Number(sha.total * 8)
           extra == [sb_sha256_process_block(bit, cleared) EXCEPT !.buffer = Zeros(BLOCK)]
           enough == [bit EXCEPT !.buffer = cleared]
           next == IF BLOCK - fill < LENGTH THEN extra ELSE enough
           last == CopyTo(next.buffer, BLOCK - LENGTH, size)
           end == sb_sha256_process_block([next EXCEPT !.buffer = last], last)
           one == CopyTo(cleared, BLOCK - LENGTH, size)
           two == CopyTo(Zeros(BLOCK), BLOCK - LENGTH, size)
<1>1. sb_sha256_finish_internal(sha) = end
  BY Zenon DEF sb_sha256_finish_internal
<1>2. bit = [ihash |-> h, buffer |-> b, total |-> t]
  OBVIOUS
<1>3. bit.total = t /\ bit.buffer = b
  <2> HIDE DEF bit
  <2>1. QED
    BY <1>2
<1>4. extra = [ihash |-> Append(h, cleared), buffer |-> Zeros(BLOCK), total |-> t]
  <2> HIDE DEF bit, cleared
  <2>1. sb_sha256_process_block(bit, cleared) = [ihash |-> Append(h, cleared), buffer |-> b, total |-> t]
    BY <1>2, Processed
  <2>2. \A ih, bu : [[ihash |-> ih, buffer |-> b, total |-> t] EXCEPT !.buffer = bu] =
                     [ihash |-> ih, buffer |-> bu, total |-> t]
    OBVIOUS
  <2> DEFINE p == sb_sha256_process_block(bit, cleared)
             ih == Append(h, cleared)
             bu == Zeros(BLOCK)
  <2>3. p = [ihash |-> ih, buffer |-> b, total |-> t]
    BY <2>1
  <2> HIDE DEF p, ih, bu
  <2>4. [p EXCEPT !.buffer = bu] = [ihash |-> ih, buffer |-> bu, total |-> t]
    BY <2>2, <2>3
  <2>5. QED
    BY <2>4 DEF p, ih, bu
<1>5. enough = [ihash |-> h, buffer |-> cleared, total |-> t]
  <2> HIDE DEF bit, cleared
  <2>1. QED
    BY <1>2
<1>6. ASSUME NEW ih, NEW bu, NEW la
      PROVE  sb_sha256_process_block(
               [[ihash |-> ih, buffer |-> bu, total |-> t] EXCEPT !.buffer = la], la) =
               [ihash |-> Append(ih, la), buffer |-> la, total |-> t]
  <2>1. [[ihash |-> ih, buffer |-> bu, total |-> t] EXCEPT !.buffer = la] =
          [ihash |-> ih, buffer |-> la, total |-> t]
    OBVIOUS
  <2>2. QED
    BY <2>1, Processed
<1>7. CASE BLOCK - fill < LENGTH
  <2> HIDE DEF extra, enough, fill, cleared, size
  <2>1. next = extra
    BY <1>7
  <2>2. last = two
    <3>1. next.buffer = Zeros(BLOCK)
      <4> HIDE DEF next
      <4>1. QED
        BY <1>4, <2>1
    <3> HIDE DEF next
    <3>2. QED
      BY <3>1
  <2> HIDE DEF next, last, two
  <2>3. end = [ihash |-> Append(Append(h, cleared), two), buffer |-> two, total |-> t]
    BY <1>4, <1>6, <2>1, <2>2
  <2> HIDE DEF end
  <2>4. QED
    BY <1>1, <1>3, <1>7, <2>3 DEF fill, cleared, size, two
<1>8. CASE ~(BLOCK - fill < LENGTH)
  <2> HIDE DEF extra, enough, fill, cleared, size
  <2>1. next = enough
    BY <1>8
  <2>2. last = one
    <3>1. next.buffer = cleared
      <4> HIDE DEF next
      <4>1. QED
        BY <1>5, <2>1
    <3> HIDE DEF next
    <3>2. QED
      BY <3>1
  <2> HIDE DEF next, last, one
  <2>3. end = [ihash |-> Append(h, one), buffer |-> one, total |-> t]
    BY <1>5, <1>6, <2>1, <2>2
  <2> HIDE DEF end
  <2>4. QED
    BY <1>1, <1>3, <1>8, <2>3 DEF fill, cleared, size, one
<1>9. QED
  BY <1>7, <1>8

(* The bytes of three strings, one after the other.                        *)
LEMMA ThreeParts ==
  ASSUME NEW a, NEW u, NEW c, String(a), String(u), String(c)
  PROVE  /\ String((a \o u) \o c) /\ Len((a \o u) \o c) = Len(a) + Len(u) + Len(c)
         /\ \A i \in 1 .. Len(a) + Len(u) + Len(c) :
              /\ i <= Len(a) => ((a \o u) \o c)[i] = a[i]
              /\ i > Len(a) /\ i <= Len(a) + Len(u) => ((a \o u) \o c)[i] = u[i - Len(a)]
              /\ i > Len(a) + Len(u) => ((a \o u) \o c)[i] = c[i - (Len(a) + Len(u))]
<1>1. Len(a) \in Nat /\ Len(u) \in Nat /\ Len(c) \in Nat
  BY DEF String
<1>2. PICK b : b = a \o u
  OBVIOUS
<1>3. /\ String(b) /\ Len(b) = Len(a) + Len(u)
      /\ \A i \in 1 .. Len(a) + Len(u) : b[i] = IF i <= Len(a) THEN a[i] ELSE u[i - Len(a)]
  BY <1>2, Concat
<1>4. PICK d : d = b \o c
  OBVIOUS
<1>5. /\ String(d) /\ Len(d) = Len(b) + Len(c)
      /\ \A i \in 1 .. Len(b) + Len(c) : d[i] = IF i <= Len(b) THEN b[i] ELSE c[i - Len(b)]
  BY <1>3, <1>4, Concat
<1>6. ASSUME NEW i \in 1 .. Len(a) + Len(u) + Len(c)
      PROVE  /\ i <= Len(a) => d[i] = a[i]
             /\ i > Len(a) /\ i <= Len(a) + Len(u) => d[i] = u[i - Len(a)]
             /\ i > Len(a) + Len(u) => d[i] = c[i - (Len(a) + Len(u))]
  <2>1. i \in 1 .. Len(b) + Len(c)
    BY <1>1, <1>3
  <2>2. d[i] = IF i <= Len(b) THEN b[i] ELSE c[i - Len(b)]
    BY <1>5, <2>1
  <2>3. i <= Len(b) => b[i] = IF i <= Len(a) THEN a[i] ELSE u[i - Len(a)]
    BY <1>1, <1>3
  <2>4. QED
    BY <1>1, <1>3, <2>2, <2>3
<1>7. QED
  BY <1>1, <1>2, <1>3, <1>4, <1>5, <1>6

(* The end of a message whose length was counted: the blocks of the padded *)
(* message. *)
LEMMA FinishHolds ==
  ASSUME NEW sha, NEW m, Holds(sha, m), String(m), Len(m) < TotalMod
  PROVE  \E last : /\ sb_sha256_finish_internal(sha) =
                        [ihash |-> RefBlocks(RefPadded(m)), buffer |-> last,
                         total |-> (Len(m) + 1) % TotalMod]
                   /\ String(last) /\ Len(last) = BLOCK
<1>1. PICK n : n = m \o <<FinalBit>>
  OBVIOUS
<1>2. String(<<FinalBit>>) /\ Len(<<FinalBit>>) = 1
  BY One
<1>3. String(n) /\ Len(n) = Len(m) + 1 /\ Len(m) \in Nat
  BY <1>1, <1>2, Concat DEF String
<1>4. Holds(sb_sha256_update(sha, <<FinalBit>>), n)
  BY <1>1, <1>2, UpdateHolds
<1>5. PICK l : l = Len(n)
  OBVIOUS
<1>6. PICK q, r, top : q = l \div BLOCK /\ r = l % BLOCK /\ top = q * BLOCK
  OBVIOUS
<1>7. /\ l \in Nat /\ q \in Nat /\ r \in Nat /\ r < BLOCK /\ top \in Nat /\ l = top + r
      /\ BLOCK \in Nat \ {0} /\ LENGTH \in 1 .. BLOCK
  BY <1>3, <1>5, <1>6, Whole, BlockType, HashAssumption
<1>8. PICK h, b, t : h = RefBlocks(n) /\ b = sb_sha256_update(sha, <<FinalBit>>).buffer /\ t = l % TotalMod
  OBVIOUS
<1>9. /\ sb_sha256_update(sha, <<FinalBit>>) = [ihash |-> h, buffer |-> b, total |-> t]
      /\ String(b) /\ Len(b) = BLOCK
      /\ \A i \in 1 .. r : b[i] = n[top + i]
  BY <1>4, <1>5, <1>6, <1>8 DEF Holds
<1>10. t % BLOCK = r
  <2>1. (l % TotalMod) % BLOCK = l % BLOCK
    BY <1>7, HashAssumption, ModMod
  <2>2. QED
    BY <1>6, <1>8, <2>1
<1>11. PICK size : size = Number(8 * Len(m))
  OBVIOUS
<1>12. Number(sha.total * 8) = size /\ String(size) /\ Len(size) = LENGTH
  <2>1. sha.total = Len(m) % TotalMod
    BY DEF Holds
  <2>2. sha.total = Len(m)
    BY <1>3, <2>1, HashAssumption, Below
  <2>3. sha.total * 8 = 8 * Len(m)
    BY <1>3, <2>2
  <2>4. QED
    BY <1>11, <2>3, NumberString
<1>13. PICK z \in Nat : /\ z = IF r + LENGTH <= BLOCK THEN BLOCK - LENGTH - r ELSE 2 * BLOCK - LENGTH - r
                        /\ RefPadded(m) = (n \o Zeros(z)) \o size
  <2>1. l = Len(m) + 1 /\ r = l % BLOCK
    BY <1>3, <1>5, <1>6
  <2>2. QED
    BY <1>1, <1>7, <1>11, <2>1, Padding
<1>14. PICK P : P = RefPadded(m)
  OBVIOUS
<1>15. /\ String(P) /\ Len(P) = l + z + LENGTH
       /\ \A i \in 1 .. l + z + LENGTH :
            /\ i <= l => P[i] = n[i]
            /\ i > l /\ i <= l + z => P[i] = Byte(0)
            /\ i > l + z => P[i] = size[i - (l + z)]
  <2>1. PICK o : o = Zeros(z)
    OBVIOUS
  <2>2. String(o) /\ Len(o) = z /\ \A i \in 1 .. z : o[i] = Byte(0)
    BY <1>13, <2>1, ZerosString
  <2>3. P = (n \o o) \o size
    BY <1>13, <1>14, <2>1
  <2>4. /\ String(P) /\ Len(P) = Len(n) + Len(o) + Len(size)
        /\ \A i \in 1 .. Len(n) + Len(o) + Len(size) :
             /\ i <= Len(n) => P[i] = n[i]
             /\ i > Len(n) /\ i <= Len(n) + Len(o) => P[i] = o[i - Len(n)]
             /\ i > Len(n) + Len(o) => P[i] = size[i - (Len(n) + Len(o))]
    <3>1. String(n) /\ String(o) /\ String(size)
      BY <1>3, <1>12, <2>2
    <3>2. LET Q == (n \o o) \o size
          IN  /\ String(Q) /\ Len(Q) = Len(n) + Len(o) + Len(size)
              /\ \A i \in 1 .. Len(n) + Len(o) + Len(size) :
                   /\ i <= Len(n) => Q[i] = n[i]
                   /\ i > Len(n) /\ i <= Len(n) + Len(o) => Q[i] = o[i - Len(n)]
                   /\ i > Len(n) + Len(o) => Q[i] = size[i - (Len(n) + Len(o))]
      BY <3>1, ThreeParts
    <3>3. QED
      BY <2>3, <3>2
  <2>5. ASSUME NEW i \in 1 .. l + z + LENGTH
        PROVE  /\ i <= l => P[i] = n[i]
               /\ i > l /\ i <= l + z => P[i] = Byte(0)
               /\ i > l + z => P[i] = size[i - (l + z)]
    <3>1. i > l /\ i <= l + z => i - l \in 1 .. z
      BY <1>7, <1>13
    <3>2. QED
      BY <1>5, <1>12, <2>2, <2>4, <3>1
  <2>6. QED
    BY <1>5, <1>12, <2>2, <2>4, <2>5
<1>16. PICK cleared, one, two :
         /\ cleared = CopyTo(b, r, Zeros(BLOCK - r))
         /\ one = CopyTo(cleared, BLOCK - LENGTH, size)
         /\ two = CopyTo(Zeros(BLOCK), BLOCK - LENGTH, size)
  OBVIOUS
<1>17. sb_sha256_finish_internal(sha) =
         IF BLOCK - r < LENGTH
           THEN [ihash |-> Append(Append(h, cleared), two), buffer |-> two, total |-> t]
         ELSE [ihash |-> Append(h, one), buffer |-> one, total |-> t]
  <2>1. LET fill == t % BLOCK
            c == CopyTo(b, fill, Zeros(BLOCK - fill))
            s == Number(sha.total * 8)
            o == CopyTo(c, BLOCK - LENGTH, s)
            w == CopyTo(Zeros(BLOCK), BLOCK - LENGTH, s)
        IN  sb_sha256_finish_internal(sha) =
              IF BLOCK - fill < LENGTH
                THEN [ihash |-> Append(Append(h, c), w), buffer |-> w, total |-> t]
              ELSE [ihash |-> Append(h, o), buffer |-> o, total |-> t]
    BY <1>9, Finished
  <2>2. QED
    BY <1>10, <1>12, <1>16, <2>1, Zenon
<1>18. /\ String(cleared) /\ Len(cleared) = BLOCK
       /\ \A i \in 1 .. BLOCK : cleared[i] = IF i > r THEN Byte(0) ELSE b[i]
  <2>1. PICK o : o = Zeros(BLOCK - r)
    OBVIOUS
  <2>2. BLOCK - r \in Nat
    BY <1>7
  <2>3. String(o) /\ Len(o) = BLOCK - r /\ \A i \in 1 .. BLOCK - r : o[i] = Byte(0)
    BY <2>1, <2>2, ZerosString
  <2>4. /\ String(cleared) /\ Len(cleared) = Len(b)
        /\ \A i \in 1 .. Len(b) : cleared[i] = IF i > r /\ i <= r + Len(o) THEN o[i - r] ELSE b[i]
    BY <1>7, <1>9, <1>16, <2>1, <2>3, CopyString
  <2>5. \A i \in 1 .. BLOCK : i > r => i <= r + Len(o) /\ i - r \in 1 .. BLOCK - r
    BY <1>7, <2>3
  <2>6. QED
    BY <1>9, <2>3, <2>4, <2>5
<1>19. /\ String(one) /\ Len(one) = BLOCK
       /\ \A i \in 1 .. BLOCK : one[i] = IF i > BLOCK - LENGTH THEN size[i - (BLOCK - LENGTH)]
                                          ELSE cleared[i]
  <2>1. PICK at \in Nat : at = BLOCK - LENGTH
    BY <1>7
  <2>2. /\ String(one) /\ Len(one) = Len(cleared)
        /\ \A i \in 1 .. Len(cleared) :
             one[i] = IF i > at /\ i <= at + Len(size) THEN size[i - at] ELSE cleared[i]
    BY SMTT(20), <1>12, <1>16, <1>18, <2>1, CopyString
  <2>3. at + Len(size) = BLOCK
    BY <1>7, <1>12, <2>1
  <2>4. QED
    BY <1>18, <2>1, <2>2, <2>3
<1>20. /\ String(two) /\ Len(two) = BLOCK
       /\ \A i \in 1 .. BLOCK : two[i] = IF i > BLOCK - LENGTH THEN size[i - (BLOCK - LENGTH)]
                                          ELSE Byte(0)
  <2>1. PICK at \in Nat : at = BLOCK - LENGTH
    BY <1>7
  <2>2. PICK o : o = Zeros(BLOCK)
    OBVIOUS
  <2>3. String(o) /\ Len(o) = BLOCK /\ \A i \in 1 .. BLOCK : o[i] = Byte(0)
    BY <1>7, <2>2, ZerosString
  <2>4. /\ String(two) /\ Len(two) = Len(o)
        /\ \A i \in 1 .. Len(o) :
             two[i] = IF i > at /\ i <= at + Len(size) THEN size[i - at] ELSE o[i]
    BY <1>12, <1>16, <2>1, <2>2, <2>3, CopyString
  <2>5. at + Len(size) = BLOCK
    BY <1>7, <1>12, <2>1
  <2>6. QED
    BY <2>1, <2>3, <2>4, <2>5
<1>21. t = (Len(m) + 1) % TotalMod
  BY <1>3, <1>5, <1>8
<1>22. l \div BLOCK = q /\ Len(n) \div BLOCK = q
  BY <1>5, <1>6
(* The length fits. *)
<1>23. CASE r + LENGTH <= BLOCK
  <2>1. ~(BLOCK - r < LENGTH) /\ l + z = top + (BLOCK - LENGTH) /\ Len(P) = top + BLOCK
    <3>1. z = BLOCK - LENGTH - r
      BY <1>13, <1>23, Zenon
    <3>2. Len(P) = l + z + LENGTH
      BY <1>15, Zenon
    <3>3. QED
      BY <1>7, <1>23, <3>1, <3>2
  <2>2. Len(P) \div BLOCK = q + 1
    <3>1. (q + 1) * BLOCK = q * BLOCK + BLOCK
      BY <1>7, Product
    <3>2. Len(P) = (q + 1) * BLOCK + 0
      BY <1>6, <1>7, <2>1, <3>1
    <3>3. ((q + 1) * BLOCK + 0) \div BLOCK = q + 1
      <4>1. q + 1 \in Nat /\ 0 < BLOCK
        BY <1>7
      <4>2. QED
        BY <1>7, <4>1, Quotient
    <3>4. QED
      BY <3>2, <3>3, Zenon
  <2>3. \A i \in 1 .. top : P[i] = n[i]
    BY <1>7, <1>15, <2>1
  <2>4. RefBlocks(P) = Append(h, SubSeq(P, top + 1, top + BLOCK))
    <3>1. RefBlocks(P) = Append(RefBlocks(n), SubSeq(P, q * BLOCK + 1, q * BLOCK + BLOCK))
      BY <1>3, <1>6, <1>7, <1>15, <1>22, <2>2, <2>3, GrowBlocks
    <3>2. QED
      BY <1>6, <1>8, <3>1
  <2>5. ASSUME NEW i \in 1 .. BLOCK PROVE one[i] = P[top + i]
    <3>1. top + i \in 1 .. l + z + LENGTH
      BY <1>7, <1>13, <1>15, <2>1
    <3>2. CASE i <= r
      <4>1. i \in 1 .. r /\ i <= BLOCK - LENGTH /\ top + i <= l
        BY <1>7, <1>23, <3>2
      <4>2. one[i] = n[top + i]
        BY <1>7, <1>9, <1>18, <1>19, <3>2, <4>1
      <4>3. QED
        BY <1>15, <3>1, <4>1, <4>2
    <3>3. CASE i > r /\ i <= BLOCK - LENGTH
      <4>1. top + i > l /\ top + i <= l + z
        BY <1>7, <2>1, <3>3
      <4>2. one[i] = Byte(0)
        BY <1>7, <1>18, <1>19, <3>3
      <4>3. QED
        BY <1>15, <3>1, <4>1, <4>2
    <3>4. CASE i > BLOCK - LENGTH
      <4>1. top + i > l + z /\ (top + i) - (l + z) = i - (BLOCK - LENGTH)
        BY <1>7, <2>1, <3>4
      <4>2. one[i] = size[i - (BLOCK - LENGTH)]
        BY <1>19, <3>4
      <4>3. QED
        BY <1>15, <3>1, <4>1, <4>2
    <3>5. i <= r \/ (i > r /\ i <= BLOCK - LENGTH) \/ i > BLOCK - LENGTH
      BY <1>7
    <3>6. QED
      BY <3>2, <3>3, <3>4, <3>5
  <2>6. SubSeq(P, top + 1, top + BLOCK) = one
    <3>1. top + BLOCK <= Len(P)
      BY <1>7, <2>1
    <3>2. String(P) /\ String(one) /\ Len(one) = BLOCK /\ top \in Nat
      BY <1>7, <1>15, <1>19
    <3>3. QED
      BY <2>5, <3>1, <3>2, BlockAt
  <2>7. QED
    BY <1>14, <1>17, <1>19, <1>21, <2>1, <2>4, <2>6
(* It goes in a block of its own. *)
<1>24. CASE ~(r + LENGTH <= BLOCK)
  <2>1. /\ BLOCK - r < LENGTH /\ l + z = (top + BLOCK) + (BLOCK - LENGTH)
        /\ Len(P) = (top + BLOCK) + BLOCK
    <3>1. z = 2 * BLOCK - LENGTH - r
      BY <1>13, <1>24, Zenon
    <3>2. Len(P) = l + z + LENGTH
      BY <1>15, Zenon
    <3>3. QED
      BY <1>7, <1>24, <3>1, <3>2
  <2>2. PICK mid : mid = top + BLOCK
    OBVIOUS
  <2>3. mid \in Nat /\ mid = (q + 1) * BLOCK /\ q + 1 \in Nat /\ mid <= Len(P)
    <3>1. (q + 1) * BLOCK = q * BLOCK + BLOCK
      BY <1>7, Product
    <3>2. QED
      BY <1>6, <1>7, <2>1, <2>2, <3>1
  <2>4. PICK half : half = SubSeq(P, 1, mid)
    OBVIOUS
  <2>5. String(half) /\ Len(half) = mid /\ \A i \in 1 .. mid : half[i] = P[i]
    <3>1. /\ String(half) /\ Len(half) = mid + 1 - 1
          /\ \A i \in 1 .. mid + 1 - 1 : half[i] = P[1 + i - 1]
      <4>1. String(P) /\ mid \in Int /\ 1 <= mid + 1 /\ mid <= Len(P) /\ 1 \in Int /\ 1 <= 1
        <5>1. String(P)
          BY <1>15, Zenon
        <5>2. QED
          BY <2>3, <5>1
      <4>2. /\ String(SubSeq(P, 1, mid)) /\ Len(SubSeq(P, 1, mid)) = mid + 1 - 1
            /\ \A i \in 1 .. mid + 1 - 1 : SubSeq(P, 1, mid)[i] = P[1 + i - 1]
        BY <4>1, Sub, Zenon
      <4>3. QED
        BY <2>4, <4>2, Zenon
    <3>2. mid + 1 - 1 = mid /\ \A i \in 1 .. mid : 1 + i - 1 = i
      BY <2>3
    <3>3. QED
      BY <3>1, <3>2
  <2>6. Len(half) \div BLOCK = q + 1
    <3>1. ((q + 1) * BLOCK + 0) \div BLOCK = q + 1
      BY <1>7, <2>3, Quotient
    <3>2. Len(half) = (q + 1) * BLOCK + 0
      BY <2>3, <2>5
    <3>3. QED
      BY <3>1, <3>2, Zenon
  <2>7. Len(P) \div BLOCK = (q + 1) + 1
    <3>1. ((q + 1) + 1) * BLOCK = (q + 1) * BLOCK + BLOCK
      BY <1>7, <2>3, Product
    <3>2. Len(P) = ((q + 1) + 1) * BLOCK + 0
      BY <1>7, <2>1, <2>2, <2>3, <3>1
    <3>3. (((q + 1) + 1) * BLOCK + 0) \div BLOCK = (q + 1) + 1
      <4>1. (q + 1) + 1 \in Nat /\ 0 < BLOCK
        BY <1>7
      <4>2. QED
        BY <1>7, <4>1, Quotient
    <3>4. QED
      BY <3>2, <3>3, Zenon
  <2>8. RefBlocks(half) = Append(h, SubSeq(half, top + 1, top + BLOCK))
    <3>1. \A i \in 1 .. top : half[i] = n[i]
      BY <1>7, <1>15, <2>2, <2>3, <2>5
    <3>2. RefBlocks(half) = Append(RefBlocks(n), SubSeq(half, q * BLOCK + 1, q * BLOCK + BLOCK))
      BY <1>3, <1>6, <1>7, <1>22, <2>5, <2>6, <3>1, GrowBlocks
    <3>3. QED
      BY <1>6, <1>8, <3>2
  <2>9. SubSeq(half, top + 1, top + BLOCK) = cleared
    <3>1. ASSUME NEW i \in 1 .. BLOCK PROVE cleared[i] = half[top + i]
      <4>1. top + i \in 1 .. mid /\ top + i \in 1 .. l + z + LENGTH
        BY <1>7, <2>1, <2>2, <1>13
      <4>2. half[top + i] = P[top + i]
        BY <2>5, <4>1
      <4>3. CASE i <= r
        <5>1. i \in 1 .. r /\ top + i <= l /\ ~(i > r)
          BY <1>7, <4>3
        <5>2. cleared[i] = n[top + i]
          BY <1>9, <1>18, <5>1
        <5>3. QED
          BY <1>15, <4>1, <4>2, <5>1, <5>2
      <4>4. CASE i > r
        <5>1. top + i > l /\ top + i <= l + z
          BY <1>7, <2>1, <4>4
        <5>2. cleared[i] = Byte(0)
          BY <1>18, <4>4
        <5>3. QED
          BY <1>15, <4>1, <4>2, <5>1, <5>2
      <4>5. i <= r \/ i > r
        BY <1>7
      <4>6. QED
        BY <4>3, <4>4, <4>5
    <3>2. top + BLOCK <= Len(half)
      BY <1>7, <2>2, <2>3, <2>5
    <3>3. String(half) /\ String(cleared) /\ Len(cleared) = BLOCK /\ top \in Nat
      BY <1>7, <1>18, <2>5
    <3>4. QED
      BY <3>1, <3>2, <3>3, BlockAt
  <2>10. RefBlocks(P) = Append(RefBlocks(half), SubSeq(P, mid + 1, mid + BLOCK))
    <3>1. \A i \in 1 .. (q + 1) * BLOCK : P[i] = half[i]
      BY <2>3, <2>5
    <3>2. RefBlocks(P) = Append(RefBlocks(half),
                                SubSeq(P, (q + 1) * BLOCK + 1, (q + 1) * BLOCK + BLOCK))
      BY <1>15, <2>3, <2>5, <2>6, <2>7, <3>1, GrowBlocks
    <3>3. QED
      BY <2>3, <3>2
  <2>11. SubSeq(P, mid + 1, mid + BLOCK) = two
    <3>1. ASSUME NEW i \in 1 .. BLOCK PROVE two[i] = P[mid + i]
      <4>1. mid + i \in 1 .. l + z + LENGTH /\ mid + i > l
        BY <1>7, <1>13, <2>1, <2>2
      <4>2. CASE i <= BLOCK - LENGTH
        <5>1. mid + i <= l + z
          BY <1>7, <2>1, <2>2, <4>2
        <5>2. two[i] = Byte(0)
          BY <1>7, <1>20, <4>2
        <5>3. QED
          BY <1>15, <4>1, <5>1, <5>2
      <4>3. CASE i > BLOCK - LENGTH
        <5>1. mid + i > l + z /\ (mid + i) - (l + z) = i - (BLOCK - LENGTH)
          BY <1>7, <2>1, <2>2, <4>3
        <5>2. two[i] = size[i - (BLOCK - LENGTH)]
          BY <1>20, <4>3
        <5>3. QED
          BY <1>15, <4>1, <5>1, <5>2
      <4>4. i <= BLOCK - LENGTH \/ i > BLOCK - LENGTH
        BY <1>7
      <4>5. QED
        BY <4>2, <4>3, <4>4
    <3>2. mid + BLOCK <= Len(P)
      BY <1>7, <1>15, <2>1, <2>2
    <3>3. String(P) /\ String(two) /\ Len(two) = BLOCK /\ mid \in Nat
      BY <1>15, <1>20, <2>3
    <3>4. QED
      BY <3>1, <3>2, <3>3, BlockAt
  <2>12. QED
    BY <1>14, <1>17, <1>20, <1>21, <2>1, <2>8, <2>9, <2>10, <2>11
<1>25. QED
  BY <1>23, <1>24

(* A hash that was initialized holds the empty string.                     *)
LEMMA InitHolds == Holds(sb_sha256_init, <<>>)
<1>1. String(<<>>) /\ Len(<<>>) = 0
  BY Empty
<1>2. 0 \div BLOCK = 0 /\ 0 % BLOCK = 0
  <2>1. 0 < BLOCK /\ 0 * BLOCK + 0 = 0
    BY BlockType
  <2>2. QED
    BY <2>1, BlockType, Quotient
<1>3. 0 % TotalMod = 0
  BY HashAssumption, Below
<1>4. RefBlocks(<<>>) = <<>>
  <2>1. String(RefBlocks(<<>>)) /\ Len(RefBlocks(<<>>)) = 0
    BY <1>1, <1>2, BlocksString
  <2>2. QED
    BY <1>1, <2>1, SameString
<1>5. PICK z : z = Zeros(BLOCK)
  OBVIOUS
<1>6. String(z) /\ Len(z) = BLOCK
  BY <1>5, BlockType, ZerosString
<1>7. PICK s : s = sb_sha256_init
  OBVIOUS
<1>8. s = [ihash |-> <<>>, buffer |-> z, total |-> 0]
  BY <1>5, <1>7 DEF sb_sha256_init
<1>9. /\ s = [ihash |-> RefBlocks(<<>>), buffer |-> s.buffer, total |-> Len(<<>>) % TotalMod]
      /\ s.buffer = z
  BY <1>1, <1>3, <1>4, <1>8
<1>10. \A i \in 1 .. Len(<<>>) % BLOCK : FALSE
  BY <1>1, <1>2
<1>11. QED
  BY <1>6, <1>7, <1>9, <1>10 DEF Holds

(* A reference hash is a string of SIZE bytes.                             *)
LEMMA HashString ==
  ASSUME NEW m
  PROVE  String(RefHash(m)) /\ Len(RefHash(m)) = SIZE
BY DigestString DEF RefHash

(* sb_sha256_finish gives the hash of the string that was held.            *)
LEMMA FinishHash ==
  ASSUME NEW sha, NEW m, Holds(sha, m), String(m), Len(m) < TotalMod
  PROVE  sb_sha256_finish(sha) = RefHash(m)
<1>1. PICK last : sb_sha256_finish_internal(sha) =
                    [ihash |-> RefBlocks(RefPadded(m)), buffer |-> last,
                     total |-> (Len(m) + 1) % TotalMod]
  BY FinishHolds
<1>2. sb_sha256_finish_internal(sha).ihash = RefBlocks(RefPadded(m))
  BY <1>1
<1>3. QED
  BY <1>2 DEF sb_sha256_finish, RefHash

(* The hash of the object that keeps its state is in its buffer. *)
LEMMA FinishBuffer ==
  ASSUME NEW sha, NEW m, Holds(sha, m), String(m), Len(m) < TotalMod
  PROVE  SubSeq(sb_sha256_finish_to_buffer(sha).buffer, 1, SIZE) = RefHash(m)
<1>1. PICK last : /\ sb_sha256_finish_internal(sha) =
                       [ihash |-> RefBlocks(RefPadded(m)), buffer |-> last,
                        total |-> (Len(m) + 1) % TotalMod]
                  /\ String(last) /\ Len(last) = BLOCK
  BY FinishHolds
<1>2. PICK end : end = sb_sha256_finish_internal(sha)
  OBVIOUS
<1>3. end.ihash = RefBlocks(RefPadded(m)) /\ end.buffer = last
  BY <1>1, <1>2
<1>4. PICK d : d = RefHash(m)
  OBVIOUS
<1>5. Digest(end.ihash) = d /\ String(d) /\ Len(d) = SIZE
  BY <1>3, <1>4, HashString DEF RefHash
<1>6. PICK b : b = CopyTo(last, 0, d)
  OBVIOUS
<1>7. sb_sha256_finish_to_buffer(sha).buffer = b
  <2>1. sb_sha256_finish_to_buffer(sha) = [end EXCEPT !.buffer = CopyTo(@, 0, Digest(end.ihash))]
    BY <1>2 DEF sb_sha256_finish_to_buffer
  <2>2. end = [ihash |-> end.ihash, buffer |-> last, total |-> end.total]
    BY <1>1, <1>2
  <2>3. [end EXCEPT !.buffer = CopyTo(@, 0, Digest(end.ihash))] =
          [end EXCEPT !.buffer = b]
    BY <1>3, <1>5, <1>6
  <2>4. QED
    BY <2>1, <2>2, <2>3
<1>8. SIZE \in Nat /\ SIZE <= BLOCK /\ BLOCK \in Nat
  BY HashAssumption
<1>9. /\ String(b) /\ Len(b) = Len(last)
      /\ \A i \in 1 .. Len(last) : b[i] = IF i > 0 /\ i <= 0 + Len(d) THEN d[i - 0] ELSE last[i]
  BY <1>1, <1>5, <1>6, CopyString
<1>10. \A i \in 1 .. SIZE : b[i] = d[i]
  <2>1. TAKE i \in 1 .. SIZE
  <2>2. i \in 1 .. Len(last) /\ i > 0 /\ i <= 0 + Len(d) /\ i - 0 = i
    BY <1>1, <1>5, <1>8, <2>1
  <2>3. QED
    BY <1>9, <2>2
<1>11. PICK s : s = SubSeq(b, 1, SIZE)
  OBVIOUS
<1>12. /\ String(s) /\ Len(s) = SIZE + 1 - 1
       /\ \A i \in 1 .. SIZE + 1 - 1 : s[i] = b[1 + i - 1]
  <2>1. String(b) /\ SIZE \in Int /\ 1 <= SIZE + 1 /\ SIZE <= Len(b)
    BY <1>1, <1>8, <1>9
  <2>2. /\ String(SubSeq(b, 1, SIZE)) /\ Len(SubSeq(b, 1, SIZE)) = SIZE + 1 - 1
        /\ \A i \in 1 .. SIZE + 1 - 1 : SubSeq(b, 1, SIZE)[i] = b[1 + i - 1]
    BY <2>1, Sub
  <2>3. QED
    BY <1>11, <2>2
<1>13. SIZE + 1 - 1 = SIZE /\ \A i \in 1 .. SIZE : 1 + i - 1 = i
  BY <1>8
<1>14. s = d
  BY <1>5, <1>10, <1>12, <1>13, SameString
<1>15. QED
  BY <1>4, <1>7, <1>11, <1>14

(* sb_sha256_message gives the hash of its input.                          *)
LEMMA MessageHash ==
  ASSUME NEW input, String(input), Len(input) < TotalMod
  PROVE  sb_sha256_message(input) = RefHash(input)
<1>1. Holds(sb_sha256_update(sb_sha256_init, input), <<>> \o input)
  BY InitHolds, Empty, UpdateHolds
<1>2. <<>> \o input = input
  BY ConcatNothing
<1>3. QED
  BY <1>1, <1>2, FinishHash DEF sb_sha256_message

--------------------------------------------------------------------------------
(* Strings of bytes, which may be padded.                                  *)

PadByte(x, pad) == [x EXCEPT !.pads = IF pad \in @ THEN @ \ {pad} ELSE @ \cup {pad}]

IsByte(x) == x = [of |-> x.of, at |-> x.at, pads |-> x.pads]

Bytes(s) == String(s) /\ \A i \in 1 .. Len(s) : IsByte(s[i])

(* A byte xored twice with the same pad is itself.                         *)
LEMMA PadTwice ==
  ASSUME NEW x, IsByte(x), NEW pad
  PROVE  IsByte(PadByte(x, pad)) /\ PadByte(PadByte(x, pad), pad) = x
<1>1. PICK o, a, p : x = [of |-> o, at |-> a, pads |-> p]
  BY DEF IsByte
<1>2. PICK s : s = IF pad \in p THEN p \ {pad} ELSE p \cup {pad}
  OBVIOUS
<1>3. PadByte(x, pad) = [of |-> o, at |-> a, pads |-> s]
  BY <1>1, <1>2 DEF PadByte
<1>4. (IF pad \in s THEN s \ {pad} ELSE s \cup {pad}) = p
  BY <1>2
<1>5. PadByte([of |-> o, at |-> a, pads |-> s], pad) = [of |-> o, at |-> a, pads |-> p]
  BY <1>4 DEF PadByte
<1>6. IsByte([of |-> o, at |-> a, pads |-> s])
  BY DEF IsByte
<1>7. QED
  BY <1>1, <1>3, <1>5, <1>6

(* The bytes of a string xored with a pad.                                 *)
LEMMA PaddedString ==
  ASSUME NEW s, String(s), NEW pad
  PROVE  /\ String(Padded(s, pad)) /\ Len(Padded(s, pad)) = Len(s)
         /\ \A i \in 1 .. Len(s) : Padded(s, pad)[i] = PadByte(s[i], pad)
<1>1. DOMAIN s = 1 .. Len(s) /\ Len(s) \in Nat
  BY DEF String
<1>2. Padded(s, pad) = [i \in 1 .. Len(s) |-> PadByte(s[i], pad)]
  BY <1>1 DEF Padded, PadByte
<1>3. PICK p : p = Padded(s, pad)
  OBVIOUS
<1>4. p = [i \in 1 .. Len(s) |-> p[i]] /\ \A i \in 1 .. Len(s) : p[i] = PadByte(s[i], pad)
  BY <1>2, <1>3
<1>5. String(p) /\ Len(p) = Len(s)
  BY <1>1, <1>4, StringOf
<1>6. QED
  BY <1>3, <1>4, <1>5

(* What is padded twice is as it was. *)
LEMMA PaddedTwice ==
  ASSUME NEW s, Bytes(s), NEW pad
  PROVE  Bytes(Padded(s, pad)) /\ Padded(Padded(s, pad), pad) = s
<1>1. PICK p, t : p = Padded(s, pad) /\ t = Padded(p, pad)
  OBVIOUS
<1>2. String(s) /\ \A i \in 1 .. Len(s) : IsByte(s[i])
  BY DEF Bytes
<1>3. String(p) /\ Len(p) = Len(s) /\ \A i \in 1 .. Len(s) : p[i] = PadByte(s[i], pad)
  BY <1>1, <1>2, PaddedString
<1>4. String(t) /\ Len(t) = Len(s) /\ \A i \in 1 .. Len(s) : t[i] = PadByte(p[i], pad)
  BY <1>1, <1>3, PaddedString
<1>5. \A i \in 1 .. Len(s) : IsByte(p[i]) /\ t[i] = s[i]
  BY <1>2, <1>3, <1>4, PadTwice
<1>6. t = s
  BY <1>2, <1>4, <1>5, SameString
<1>7. QED
  BY <1>1, <1>3, <1>5, <1>6 DEF Bytes

(* Cleared bytes are bytes,                                                *)
LEMMA ZerosBytes ==
  ASSUME NEW n \in Nat
  PROVE  Bytes(Zeros(n)) /\ Len(Zeros(n)) = n
<1>1. IsByte(Byte(0))
  BY DEF IsByte, Byte
<1>2. QED
  BY <1>1, ZerosString DEF Bytes

(* those of a hash are,                                                    *)
LEMMA DigestBytes ==
  ASSUME NEW h
  PROVE  Bytes(Digest(h)) /\ Len(Digest(h)) = SIZE
<1>1. \A i \in 1 .. SIZE : IsByte(Digest(h)[i])
  BY DEF Digest, IsByte
<1>2. QED
  BY <1>1, DigestString DEF Bytes

(* those of a reference hash are,                                          *)
LEMMA HashBytes ==
  ASSUME NEW m
  PROVE  Bytes(RefHash(m)) /\ Len(RefHash(m)) = SIZE
BY DigestBytes DEF RefHash

(* and those a caller gives are.                                           *)
LEMMA GivenBytes ==
  ASSUME NEW who, NEW from \in Nat, NEW n \in Nat
  PROVE  Bytes(Given(who, from, from + n)) /\ Len(Given(who, from, from + n)) = n
<1>1. PICK g : g = Given(who, from, from + n)
  OBVIOUS
<1>2. (from + n) - from = n
  OBVIOUS
<1> DEFINE e(i) == Byte(1000 * who + from + i)
<1>3. g = [i \in 1 .. n |-> e(i)]
  BY <1>1, <1>2 DEF Given
<1>4. g = [i \in 1 .. n |-> g[i]] /\ \A i \in 1 .. n : IsByte(g[i])
  <2>1. \A i : IsByte(e(i))
    BY DEF IsByte, Byte
  <2> HIDE DEF e
  <2>2. QED
    BY <1>3, <2>1
<1>5. String(g) /\ Len(g) = n
  BY <1>4, StringOf
<1>6. QED
  BY <1>1, <1>4, <1>5 DEF Bytes

--------------------------------------------------------------------------------
(* HMAC.                                                                   *)

(* The block a key becomes, and the HMAC with it. *)
Key0(key) == SubSeq((IF Len(key) > BLOCK THEN RefHash(key) ELSE key) \o Zeros(BLOCK), 1, BLOCK)
Hmac0(k0, m) == RefHash(Padded(k0, "opad") \o RefHash(Padded(k0, "ipad") \o m))

(* The reference HMAC, with its key in a block.                            *)
LEMMA Hmac0Is ==
  ASSUME NEW key, NEW m
  PROVE  RefHmac(key, m) = Hmac0(Key0(key), m)
BY DEF RefHmac, Hmac0, Key0

IsObject(o) == o = [sha |-> o.sha, key |-> o.key, output |-> o.output]

(* The fields of an object.                                                *)
LEMMA ObjectOf ==
  ASSUME NEW s, NEW k, NEW u, NEW o, o = [sha |-> s, key |-> k, output |-> u]
  PROVE  IsObject(o) /\ o.sha = s /\ o.key = k /\ o.output = u
BY DEF IsObject

(* Of an HMAC with the key in a block, that was fed m. *)
Feeds(o, k0, m) == o.key = k0 /\ Holds(o.sha, Padded(k0, "ipad") \o m)

IsKey(k0) == Bytes(k0) /\ Len(k0) = BLOCK

(* Nothing overflows in the outer hash if nothing did in the inner one. *)
LEMMA Room ==
  ASSUME BLOCK < TotalMod
  PROVE  BLOCK + SIZE < TotalMod
<1>1. BLOCK \in Nat \ {0} /\ TotalMod \in Nat /\ TotalMod % BLOCK = 0 /\ SIZE \in Nat /\ BLOCK = 2 * SIZE
  BY HashAssumption, BlockType
<1>2. PICK q \in Nat : TotalMod = q * BLOCK
  <2>1. TotalMod = (TotalMod \div BLOCK) * BLOCK + 0 /\ TotalMod \div BLOCK \in Nat
    BY <1>1, Division
  <2>2. (TotalMod \div BLOCK) * BLOCK \in Int
    BY <1>1, <2>1, Product
  <2>3. QED
    BY <2>1, <2>2
<1>3. 0 * BLOCK = 0 /\ 1 * BLOCK = BLOCK /\ 2 * BLOCK = BLOCK + BLOCK
  BY <1>1
<1>4. q # 0 /\ q # 1
  BY <1>1, <1>2, <1>3
<1>5. 2 * BLOCK <= q * BLOCK
  <2>1. 2 <= q
    BY <1>2, <1>4
  <2>2. QED
    BY <1>1, <2>1, Product
<1>6. BLOCK + BLOCK <= TotalMod
  BY <1>2, <1>3, <1>5
<1>7. QED
  BY <1>1, <1>6

(* A short key behind which the block is filled with zeros. *)
LEMMA Filled ==
  ASSUME NEW key, Bytes(key), Len(key) <= BLOCK
  PROVE  LET k0 == SubSeq(key \o Zeros(BLOCK), 1, BLOCK)
         IN  /\ CopyTo(Zeros(BLOCK), 0, key) = k0
             /\ IsKey(k0)
             /\ \A i \in 1 .. BLOCK : k0[i] = IF i <= Len(key) THEN key[i] ELSE Byte(0)
<1>1. PICK z, c, w, k0 : /\ z = Zeros(BLOCK) /\ c = CopyTo(z, 0, key)
                         /\ w = key \o z /\ k0 = SubSeq(w, 1, BLOCK)
  OBVIOUS
<1>2. BLOCK \in Nat /\ Len(key) \in Nat /\ String(key)
  BY BlockType DEF Bytes, String
<1>3. /\ String(z) /\ Len(z) = BLOCK /\ \A i \in 1 .. BLOCK : z[i] = Byte(0) /\ IsByte(z[i])
  <2>1. IsByte(Byte(0))
    BY DEF IsByte, Byte
  <2>2. QED
    BY <1>1, <1>2, <2>1, ZerosString
<1>4. /\ String(c) /\ Len(c) = BLOCK
      /\ \A i \in 1 .. BLOCK : c[i] = IF i <= Len(key) THEN key[i] ELSE Byte(0)
  <2>1. /\ String(c) /\ Len(c) = Len(z)
        /\ \A i \in 1 .. Len(z) : c[i] = IF i > 0 /\ i <= 0 + Len(key) THEN key[i - 0] ELSE z[i]
    <3>1. LET d == CopyTo(z, 0, key)
          IN  /\ String(d) /\ Len(d) = Len(z)
              /\ \A i \in 1 .. Len(z) :
                   d[i] = IF i > 0 /\ i <= 0 + Len(key) THEN key[i - 0] ELSE z[i]
      BY <1>2, <1>3, CopyString
    <3>2. QED
      BY <1>1, <3>1
  <2>2. \A i \in 1 .. BLOCK : i > 0 /\ i - 0 = i
    BY <1>2
  <2>3. QED
    BY <1>2, <1>3, <2>1, <2>2
<1>5. /\ String(w) /\ Len(w) = Len(key) + BLOCK
      /\ \A i \in 1 .. Len(key) + BLOCK : w[i] = IF i <= Len(key) THEN key[i] ELSE z[i - Len(key)]
  <2>1. /\ String(key \o z) /\ Len(key \o z) = Len(key) + Len(z)
        /\ \A i \in 1 .. Len(key) + Len(z) :
             (key \o z)[i] = IF i <= Len(key) THEN key[i] ELSE z[i - Len(key)]
    BY <1>2, <1>3, Concat
  <2>2. QED
    BY <1>1, <1>3, <2>1
<1>6. /\ String(k0) /\ Len(k0) = BLOCK
      /\ \A i \in 1 .. BLOCK : k0[i] = IF i <= Len(key) THEN key[i] ELSE Byte(0)
  <2>1. BLOCK \in Int /\ 1 <= BLOCK + 1 /\ BLOCK <= Len(w)
    BY <1>2, <1>5
  <2>2. /\ String(SubSeq(w, 1, BLOCK)) /\ Len(SubSeq(w, 1, BLOCK)) = BLOCK + 1 - 1
        /\ \A i \in 1 .. BLOCK + 1 - 1 : SubSeq(w, 1, BLOCK)[i] = w[1 + i - 1]
    BY <1>5, <2>1, Sub
  <2>3. BLOCK + 1 - 1 = BLOCK /\ \A i \in 1 .. BLOCK : 1 + i - 1 = i
    BY <1>2
  <2>4. String(k0) /\ Len(k0) = BLOCK /\ \A i \in 1 .. BLOCK : k0[i] = w[i]
    BY <1>1, <2>2, <2>3
  <2>5. ASSUME NEW i \in 1 .. BLOCK
        PROVE  w[i] = IF i <= Len(key) THEN key[i] ELSE Byte(0)
    <3>1. i \in 1 .. Len(key) + BLOCK
      BY <1>2
    <3>2. ~(i <= Len(key)) => i - Len(key) \in 1 .. BLOCK
      BY <1>2
    <3>3. QED
      BY <1>3, <1>5, <3>1, <3>2
  <2>6. QED
    BY <2>4, <2>5
<1>7. c = k0
  BY <1>4, <1>6, SameString
<1>8. IsKey(k0)
  <2>1. ASSUME NEW i \in 1 .. BLOCK PROVE IsByte(k0[i])
    <3>1. i <= Len(key) => i \in 1 .. Len(key)
      BY <1>2
    <3>2. IsByte(Byte(0))
      BY DEF IsByte, Byte
    <3>3. QED
      BY <1>6, <3>1, <3>2 DEF Bytes
  <2>2. QED
    BY <1>6, <2>1 DEF IsKey, Bytes
<1>9. QED
  BY <1>1, <1>6, <1>7, <1>8

(* What sb_hmac_sha256_init makes of a key is the reference's block.       *)
LEMMA KeyIs ==
  ASSUME NEW key, Bytes(key), Len(key) < TotalMod
  PROVE  /\ IsKey(Key0(key))
         /\ CopyTo(Zeros(BLOCK), 0, IF Len(key) > BLOCK THEN sb_sha256_message(key) ELSE key)
              = Key0(key)
<1>1. PICK short : short = IF Len(key) > BLOCK THEN RefHash(key) ELSE key
  OBVIOUS
<1>2. Bytes(short) /\ Len(short) <= BLOCK
  <2>1. SIZE <= BLOCK /\ BLOCK \in Nat /\ Len(key) \in Nat
    BY HashAssumption DEF Bytes, String
  <2>2. Bytes(RefHash(key)) /\ Len(RefHash(key)) = SIZE
    BY HashBytes
  <2>3. QED
    BY <1>1, <2>1, <2>2
<1>3. (IF Len(key) > BLOCK THEN sb_sha256_message(key) ELSE key) = short
  <2>1. String(key)
    BY DEF Bytes
  <2>2. QED
    BY <1>1, <2>1, MessageHash
<1>4. Key0(key) = SubSeq(short \o Zeros(BLOCK), 1, BLOCK)
  BY <1>1 DEF Key0
<1>5. IsKey(Key0(key)) /\ CopyTo(Zeros(BLOCK), 0, short) = Key0(key)
  BY <1>2, <1>4, Filled
<1>6. QED
  BY <1>3, <1>5

(* The functions on the object, in its fields.                             *)
LEMMA KeyPadded ==
  ASSUME NEW s, NEW k, NEW u, NEW pad
  PROVE  key_pad([sha |-> s, key |-> k, output |-> u], pad) =
           [sha |-> s, key |-> Padded(k, pad), output |-> u]
BY DEF key_pad

(* The key is xored with the pad for the hash, and again to be itself.     *)
LEMMA Reinit ==
  ASSUME NEW s, NEW k, NEW u, IsKey(k)
  PROVE  sb_hmac_sha256_reinit([sha |-> s, key |-> k, output |-> u]) =
           [sha |-> sb_sha256_update(sb_sha256_init, Padded(k, "ipad")), key |-> k, output |-> u]
<1>1. PICK o, p, j : /\ o = [sha |-> s, key |-> k, output |-> u]
                     /\ p = key_pad(o, "ipad") /\ j = Padded(k, "ipad")
  OBVIOUS
<1>2. p = [sha |-> s, key |-> j, output |-> u]
  BY <1>1, KeyPadded
<1>3. PICK a : a = sb_sha256_update(sb_sha256_init, j)
  OBVIOUS
<1>4. p.key = j /\ [p EXCEPT !.sha = a] = [sha |-> a, key |-> j, output |-> u]
  BY <1>2
<1>5. sb_hmac_sha256_reinit(o) = key_pad([p EXCEPT !.sha = sb_sha256_update(sb_sha256_init, p.key)], "ipad")
  BY <1>1, Zenon DEF sb_hmac_sha256_reinit
<1>6. sb_hmac_sha256_reinit(o) = key_pad([sha |-> a, key |-> j, output |-> u], "ipad")
  BY <1>3, <1>4, <1>5
<1>7. sb_hmac_sha256_reinit(o) = [sha |-> a, key |-> Padded(j, "ipad"), output |-> u]
  BY <1>6, KeyPadded
<1>8. Padded(j, "ipad") = k
  BY <1>1, PaddedTwice DEF IsKey
<1>9. QED
  BY <1>1, <1>3, <1>7, <1>8

(* After it the object is ready for a message. *)
LEMMA ReinitFeeds ==
  ASSUME NEW o, IsObject(o), IsKey(o.key)
  PROVE  LET i == sb_hmac_sha256_reinit(o)
         IN  IsObject(i) /\ i.output = o.output /\ Feeds(i, o.key, <<>>)
<1>1. PICK s, k, u : s = o.sha /\ k = o.key /\ u = o.output
  OBVIOUS
<1>2. o = [sha |-> s, key |-> k, output |-> u] /\ IsKey(k)
  BY <1>1 DEF IsObject
<1>3. PICK a, j, i : /\ j = Padded(k, "ipad") /\ a = sb_sha256_update(sb_sha256_init, j)
                     /\ i = sb_hmac_sha256_reinit(o)
  OBVIOUS
<1>4. i = [sha |-> a, key |-> k, output |-> u]
  BY <1>2, <1>3, Reinit
<1>5. Holds(a, j \o <<>>)
  <2>1. String(j)
    BY <1>2, <1>3, PaddedTwice DEF IsKey, Bytes
  <2>2. Holds(a, <<>> \o j)
    BY <1>3, <2>1, InitHolds, Empty, UpdateHolds
  <2>3. QED
    BY <2>1, <2>2, ConcatNothing
<1>6. i.sha = a /\ i.key = k /\ i.output = u /\ IsObject(i)
  BY <1>4 DEF IsObject
<1>7. QED
  BY <1>1, <1>3, <1>5, <1>6 DEF Feeds

(* sb_hmac_sha256_init is sb_hmac_sha256_reinit with the key's block.      *)
LEMMA InitFeeds ==
  ASSUME NEW o, IsObject(o), NEW key, Bytes(key), Len(key) < TotalMod
  PROVE  LET i == sb_hmac_sha256_init(o, key)
         IN  /\ i = sb_hmac_sha256_reinit(
                      [sha |-> Nullified, key |-> Key0(key), output |-> o.output])
             /\ IsObject(i) /\ i.output = o.output /\ Feeds(i, Key0(key), <<>>)
<1>1. PICK s, k, u : s = o.sha /\ k = o.key /\ u = o.output
  OBVIOUS
<1>2. o = [sha |-> s, key |-> k, output |-> u]
  BY <1>1 DEF IsObject
<1>3. PICK short, k0, c, n : /\ short = IF Len(key) > BLOCK THEN sb_sha256_message(key) ELSE key
                             /\ k0 = Key0(key) /\ c = CopyTo(Zeros(BLOCK), 0, short)
                             /\ n = Nullified
  OBVIOUS
<1>4. IsKey(k0) /\ c = k0
  BY <1>3, KeyIs
<1>5. PICK w : w = [sha |-> n, key |-> k0, output |-> u]
  OBVIOUS
<1>6. [o EXCEPT !.sha = n, !.key = c] = w
  <2> DEFINE a == [o EXCEPT !.sha = n]
  <2>1. a = [sha |-> n, key |-> k, output |-> u]
    BY <1>2
  <2> HIDE DEF a
  <2>2. [a EXCEPT !.key = c] = w
    BY <1>4, <1>5, <2>1
  <2>3. QED
    BY <2>2 DEF a
<1>7. sb_hmac_sha256_init(o, key) = sb_hmac_sha256_reinit([o EXCEPT !.sha = n, !.key = c])
  BY <1>3, Zenon DEF sb_hmac_sha256_init
<1>8. PICK i : i = sb_hmac_sha256_reinit(w)
  OBVIOUS
<1>9. IsObject(w) /\ w.key = k0 /\ w.output = u
  BY <1>5 DEF IsObject
<1>10. IsObject(i) /\ i.output = u /\ Feeds(i, k0, <<>>)
  BY <1>4, <1>8, <1>9, ReinitFeeds
<1>11. QED
  BY <1>1, <1>3, <1>5, <1>6, <1>7, <1>8, <1>10

(* sb_hmac_sha256_update feeds its input after what was fed.               *)
LEMMA UpdateFeeds ==
  ASSUME NEW o, IsObject(o), NEW k0, IsKey(k0), NEW m, String(m), Feeds(o, k0, m),
         NEW input, String(input)
  PROVE  LET i == sb_hmac_sha256_update(o, input)
         IN  IsObject(i) /\ i.output = o.output /\ Feeds(i, k0, m \o input)
<1>1. PICK s, u, a, i : /\ s = o.sha /\ u = o.output /\ a = sb_sha256_update(s, input)
                        /\ i = sb_hmac_sha256_update(o, input)
  OBVIOUS
<1>2. o = [sha |-> s, key |-> k0, output |-> u]
  BY <1>1 DEF IsObject, Feeds
<1>3. i = [sha |-> a, key |-> k0, output |-> u]
  BY <1>1, <1>2 DEF sb_hmac_sha256_update
<1>4. PICK j : j = Padded(k0, "ipad")
  OBVIOUS
<1>5. String(j)
  BY <1>4, PaddedTwice DEF IsKey, Bytes
<1>6. Holds(s, j \o m)
  BY <1>1, <1>4 DEF Feeds
<1>7. Holds(a, (j \o m) \o input)
  <2>1. PICK d : d = j \o m
    OBVIOUS
  <2>2. String(d) /\ Holds(s, d)
    BY <1>5, <1>6, <2>1, Concat
  <2>3. Holds(sb_sha256_update(s, input), d \o input)
    BY <2>2, UpdateHolds
  <2>4. QED
    BY <1>1, <2>1, <2>3
<1>8. Holds(a, j \o (m \o input))
  <2>1. (j \o m) \o input = j \o (m \o input)
    BY <1>5, ConcatAssociates
  <2>2. QED
    BY <1>7, <2>1
<1>9. i.sha = a /\ i.key = k0 /\ i.output = u /\ IsObject(i)
  BY <1>3 DEF IsObject
<1>10. QED
  BY <1>1, <1>4, <1>8, <1>9 DEF Feeds

(* The hash of the key and the message, which both finish functions make. *)
LEMMA InnerHash ==
  ASSUME NEW o, NEW k0, IsKey(k0), NEW m, String(m), Feeds(o, k0, m), BLOCK + Len(m) < TotalMod
  PROVE  sb_sha256_finish(o.sha) = RefHash(Padded(k0, "ipad") \o m)
<1>1. PICK j, d : j = Padded(k0, "ipad") /\ d = j \o m
  OBVIOUS
<1>2. String(j) /\ Len(j) = BLOCK
  BY <1>1, PaddedString DEF IsKey, Bytes
<1>3. String(d) /\ Len(d) = BLOCK + Len(m)
  BY <1>1, <1>2, Concat
<1>4. Holds(o.sha, d)
  BY <1>1 DEF Feeds
<1>5. QED
  BY <1>1, <1>3, <1>4, FinishHash

(* The object has its key again; the output is the HMAC of what was fed,  *)
(* if the hash could count it. *)
LEMMA FinishMac ==
  ASSUME NEW o, IsObject(o), NEW k0, IsKey(k0), NEW m, String(m), Feeds(o, k0, m)
  PROVE  \E d : /\ sb_hmac_sha256_finish(o) =
                     <<[sha |-> Nullified, key |-> k0, output |-> o.output], d>>
                /\ Bytes(d) /\ Len(d) = SIZE
                /\ BLOCK + Len(m) < TotalMod => d = Hmac0(k0, m)
<1>1. PICK s, u, n : s = o.sha /\ u = o.output /\ n = Nullified
  OBVIOUS
<1>2. o = [sha |-> s, key |-> k0, output |-> u]
  BY <1>1 DEF IsObject, Feeds
<1>3. PICK h, j, p : /\ h = sb_sha256_finish(o.sha)
                     /\ j = Padded(k0, "opad") /\ p = key_pad(o, "opad")
  OBVIOUS
<1>4. p = [sha |-> s, key |-> j, output |-> u]
  BY <1>2, <1>3, KeyPadded
<1>5. String(j) /\ Len(j) = BLOCK /\ Padded(j, "opad") = k0
  BY <1>3, PaddedTwice, PaddedString DEF IsKey, Bytes
<1>6. PICK outer, x, d : /\ outer = sb_sha256_update(sb_sha256_init, j)
                         /\ x = sb_sha256_update(outer, h)
                         /\ d = sb_sha256_finish(x)
  OBVIOUS
<1>7. key_pad([p EXCEPT !.sha = n], "opad") = [sha |-> n, key |-> k0, output |-> u]
  <2>1. [p EXCEPT !.sha = n] = [sha |-> n, key |-> j, output |-> u]
    BY <1>4
  <2>2. QED
    BY <1>5, <2>1, KeyPadded
<1>8. p.key = j
  BY <1>4
<1>9. sb_hmac_sha256_finish(o) =
        <<key_pad([p EXCEPT !.sha = n], "opad"),
          sb_sha256_finish(sb_sha256_update(sb_sha256_update(sb_sha256_init, p.key),
                                            sb_sha256_finish(o.sha)))>>
  BY <1>1, <1>3, Zenon DEF sb_hmac_sha256_finish
<1>10. sb_hmac_sha256_finish(o) = <<[sha |-> n, key |-> k0, output |-> u], d>>
  BY <1>3, <1>6, <1>7, <1>8, <1>9, Zenon
<1>11. Bytes(d) /\ Len(d) = SIZE
  BY <1>6, DigestBytes DEF sb_sha256_finish
<1>12. ASSUME BLOCK + Len(m) < TotalMod PROVE d = Hmac0(k0, m)
  <2>1. h = RefHash(Padded(k0, "ipad") \o m)
    BY <1>3, <1>12, InnerHash
  <2>2. String(h) /\ Len(h) = SIZE
    BY <2>1, HashString
  <2>3. Holds(outer, j)
    <3>1. Holds(outer, <<>> \o j)
      BY <1>5, <1>6, InitHolds, Empty, UpdateHolds
    <3>2. QED
      BY <1>5, <3>1, ConcatNothing
  <2>4. PICK w : w = j \o h
    OBVIOUS
  <2>5. Holds(x, w)
    BY <1>5, <1>6, <2>2, <2>3, <2>4, UpdateHolds
  <2>6. String(w) /\ Len(w) = BLOCK + SIZE
    BY <1>5, <2>2, <2>4, Concat
  <2>7. BLOCK + SIZE < TotalMod
    <3>1. Len(m) \in Nat /\ BLOCK \in Nat /\ TotalMod \in Nat
      BY HashAssumption DEF String
    <3>2. BLOCK < TotalMod
      BY <1>12, <3>1
    <3>3. QED
      BY <3>2, Room
  <2>8. d = RefHash(w)
    BY <1>6, <2>5, <2>6, <2>7, FinishHash
  <2>9. QED
    BY <1>3, <2>1, <2>4, <2>8 DEF Hmac0
<1>13. QED
  BY <1>1, <1>10, <1>11, <1>12

(* Where the key fills half of the block, the hash of the message goes in  *)
(* the other half, and what it would have held is fed before it.           *)
LEMMA HalfKey ==
  ASSUME NEW k0, IsKey(k0), \A i \in SIZE + 1 .. BLOCK : k0[i] = Byte(0),
         NEW h, String(h), Len(h) = SIZE
  PROVE  LET j == Padded(k0, "opad")
             p == CopyTo(j, SIZE, h)
         IN  /\ String(SubSeq(p, 1, SIZE))
             /\ String(AllPad(SIZE, "opad"))
             /\ SubSeq(p, 1, SIZE) \o AllPad(SIZE, "opad") = j
             /\ SubSeq(p, SIZE + 1, BLOCK) = h
<1>1. PICK j, p, a, z, b : /\ j = Padded(k0, "opad") /\ p = CopyTo(j, SIZE, h)
                           /\ z = AllPad(SIZE, "opad")
                           /\ a = SubSeq(p, 1, SIZE) /\ b = SubSeq(p, SIZE + 1, BLOCK)
  OBVIOUS
<1>2. SIZE \in Nat /\ BLOCK = SIZE + SIZE /\ BLOCK \in Nat
  BY HashAssumption
<1>3. String(k0) /\ Len(k0) = BLOCK
  BY DEF IsKey, Bytes
<1>4. String(j) /\ Len(j) = BLOCK /\ \A i \in 1 .. BLOCK : j[i] = PadByte(k0[i], "opad")
  BY <1>1, <1>3, PaddedString
<1>5. /\ String(z) /\ Len(z) = SIZE
      /\ \A i \in 1 .. SIZE : z[i] = PadByte(Byte(0), "opad")
  <2>1. PICK y : y = Zeros(SIZE)
    OBVIOUS
  <2>2. String(y) /\ Len(y) = SIZE /\ \A i \in 1 .. SIZE : y[i] = Byte(0)
    BY <1>2, <2>1, ZerosString
  <2>3. /\ String(Padded(y, "opad")) /\ Len(Padded(y, "opad")) = SIZE
        /\ \A i \in 1 .. SIZE : Padded(y, "opad")[i] = PadByte(y[i], "opad")
    BY <2>2, PaddedString
  <2>4. z = Padded(y, "opad")
    BY <1>1, <2>1 DEF AllPad
  <2>5. QED
    BY <2>2, <2>3, <2>4
<1>6. /\ String(p) /\ Len(p) = BLOCK
      /\ \A i \in 1 .. BLOCK : p[i] = IF i > SIZE THEN h[i - SIZE] ELSE j[i]
  <2>1. LET d == CopyTo(j, SIZE, h)
        IN  /\ String(d) /\ Len(d) = Len(j)
            /\ \A i \in 1 .. Len(j) :
                 d[i] = IF i > SIZE /\ i <= SIZE + Len(h) THEN h[i - SIZE] ELSE j[i]
    BY <1>2, <1>4, CopyString
  <2>2. \A i \in 1 .. BLOCK : i <= SIZE + Len(h)
    BY <1>2
  <2>3. QED
    BY <1>1, <1>4, <2>1, <2>2
<1>7. String(a) /\ Len(a) = SIZE /\ \A i \in 1 .. SIZE : a[i] = p[i]
  <2>1. SIZE \in Int /\ 1 <= SIZE + 1 /\ SIZE <= Len(p)
    BY <1>2, <1>6
  <2>2. /\ String(SubSeq(p, 1, SIZE)) /\ Len(SubSeq(p, 1, SIZE)) = SIZE + 1 - 1
        /\ \A i \in 1 .. SIZE + 1 - 1 : SubSeq(p, 1, SIZE)[i] = p[1 + i - 1]
    BY <1>6, <2>1, Sub
  <2>3. SIZE + 1 - 1 = SIZE /\ \A i \in 1 .. SIZE : 1 + i - 1 = i
    BY <1>2
  <2>4. QED
    BY <1>1, <2>2, <2>3
<1>8. String(b) /\ Len(b) = SIZE /\ \A i \in 1 .. SIZE : b[i] = p[SIZE + i]
  <2>1. PICK l : l = SIZE + 1
    OBVIOUS
  <2>2. l \in Int /\ BLOCK \in Int /\ 1 <= l /\ l <= BLOCK + 1 /\ BLOCK <= Len(p)
    BY <1>2, <1>6, <2>1
  <2>3. /\ String(SubSeq(p, l, BLOCK)) /\ Len(SubSeq(p, l, BLOCK)) = BLOCK + 1 - l
        /\ \A i \in 1 .. BLOCK + 1 - l : SubSeq(p, l, BLOCK)[i] = p[l + i - 1]
    BY <1>6, <2>2, Sub
  <2>4. BLOCK + 1 - l = SIZE /\ \A i \in 1 .. SIZE : l + i - 1 = SIZE + i
    BY <1>2, <2>1
  <2>5. b = SubSeq(p, l, BLOCK)
    BY <1>1, <2>1
  <2>6. QED
    BY <2>3, <2>4, <2>5
<1>9. b = h
  <2>1. ASSUME NEW i \in 1 .. SIZE PROVE b[i] = h[i]
    <3>1. SIZE + i \in 1 .. BLOCK /\ SIZE + i > SIZE /\ (SIZE + i) - SIZE = i
      BY <1>2
    <3>2. QED
      BY <1>6, <1>8, <3>1
  <2>2. QED
    BY <1>8, <2>1, SameString
<1>10. PICK w : w = a \o z
  OBVIOUS
<1>11. w = j
  <2>1. LET d == a \o z
        IN  /\ String(d) /\ Len(d) = Len(a) + Len(z)
            /\ \A i \in 1 .. Len(a) + Len(z) : d[i] = IF i <= Len(a) THEN a[i] ELSE z[i - Len(a)]
    BY <1>5, <1>7, Concat
  <2>2. /\ String(w) /\ Len(w) = BLOCK
        /\ \A i \in 1 .. BLOCK : w[i] = IF i <= SIZE THEN a[i] ELSE z[i - SIZE]
    BY <1>2, <1>5, <1>7, <1>10, <2>1
  <2>3. ASSUME NEW i \in 1 .. BLOCK PROVE w[i] = j[i]
    <3>1. CASE i <= SIZE
      <4>1. i \in 1 .. SIZE /\ ~(i > SIZE)
        BY <1>2, <3>1
      <4>2. QED
        BY <1>6, <1>7, <2>2, <3>1, <4>1
    <3>2. CASE i > SIZE
      <4>1. i - SIZE \in 1 .. SIZE /\ i \in SIZE + 1 .. BLOCK /\ ~(i <= SIZE)
        BY <1>2, <3>2
      <4>2. k0[i] = Byte(0)
        BY <4>1
      <4>3. QED
        BY <1>4, <1>5, <2>2, <4>1, <4>2
    <3>3. i <= SIZE \/ i > SIZE
      BY <1>2
    <3>4. QED
      BY <3>1, <3>2, <3>3
  <2>4. QED
    BY <1>4, <2>2, <2>3, SameString
<1>12. QED
  BY <1>1, <1>5, <1>7, <1>9, <1>10, <1>11

(* The HMAC is the key of the next one. *)
LEMMA FinishKey ==
  ASSUME NEW o, IsObject(o), NEW k0, IsKey(k0), NEW m, String(m), Feeds(o, k0, m),
         BLOCK + Len(m) < TotalMod, \A i \in SIZE + 1 .. BLOCK : k0[i] = Byte(0)
  PROVE  LET next == Hmac0(k0, m)
             i == sb_hmac_sha256_finish_to_key(o)
         IN  IsObject(i) /\ i = sb_hmac_sha256_init(i, next)
<1>1. PICK s, u, n, h, j, p, next :
        /\ s = o.sha /\ u = o.output /\ n = Nullified
        /\ h = RefHash(Padded(k0, "ipad") \o m)
        /\ j = Padded(k0, "opad") /\ p = CopyTo(j, SIZE, h)
        /\ next = Hmac0(k0, m)
  OBVIOUS
<1>2. o = [sha |-> s, key |-> k0, output |-> u]
  BY <1>1 DEF IsObject, Feeds
<1>3. String(h) /\ Len(h) = SIZE
  BY <1>1, HashString
<1>4. PICK a, z, b : /\ a = SubSeq(p, 1, SIZE) /\ z = AllPad(SIZE, "opad")
                     /\ b = SubSeq(p, SIZE + 1, BLOCK)
  OBVIOUS
<1>5. String(a) /\ String(z) /\ a \o z = j /\ b = h
  BY <1>1, <1>3, <1>4, HalfKey
<1>6. String(j) /\ Len(j) = BLOCK
  BY <1>1, PaddedString DEF IsKey, Bytes
<1>7. PICK first, second, inner : /\ first = sb_sha256_update(sb_sha256_init, a)
                                  /\ second = sb_sha256_update(first, z)
                                  /\ inner = sb_sha256_update(second, b)
  OBVIOUS
<1>8. Holds(first, a)
  <2>1. Holds(first, <<>> \o a)
    BY <1>5, <1>7, InitHolds, Empty, UpdateHolds
  <2>2. QED
    BY <1>5, <2>1, ConcatNothing
<1>9. Holds(second, j)
  <2>1. Holds(second, a \o z)
    BY <1>5, <1>7, <1>8, UpdateHolds
  <2>2. QED
    BY <1>5, <2>1
<1>10. PICK d : d = j \o h
  OBVIOUS
<1>11. Holds(inner, d) /\ String(d) /\ Len(d) = BLOCK + SIZE
  <2>1. Holds(inner, j \o h)
    BY <1>3, <1>5, <1>6, <1>7, <1>9, UpdateHolds
  <2>2. QED
    BY <1>3, <1>6, <1>10, <2>1, Concat
<1>12. sb_sha256_finish(inner) = next
  <2>1. BLOCK + SIZE < TotalMod
    <3>1. Len(m) \in Nat /\ BLOCK \in Nat /\ TotalMod \in Nat
      BY HashAssumption DEF String
    <3>2. BLOCK < TotalMod
      BY <3>1
    <3>3. QED
      BY <3>2, Room
  <2>2. sb_sha256_finish(inner) = RefHash(d)
    BY <1>11, <2>1, FinishHash
  <2>3. next = RefHash(d)
    BY <1>1, <1>10 DEF Hmac0
  <2>4. QED
    BY <2>2, <2>3
<1>13. Bytes(next) /\ Len(next) = SIZE /\ Len(next) < TotalMod /\ ~(Len(next) > BLOCK)
  <2>1. Bytes(next) /\ Len(next) = SIZE
    BY <1>1, HashBytes DEF Hmac0
  <2>2. QED
    <3>1. SIZE \in Nat /\ SIZE <= BLOCK /\ BLOCK \in Nat /\ TotalMod \in Nat /\ Len(m) \in Nat
      BY HashAssumption DEF String
    <3>2. QED
      BY <2>1, <3>1
<1>14. PICK k : k = Key0(next)
  OBVIOUS
<1>15. IsKey(k) /\ next \o Zeros(SIZE) = k
  <2>1. IsKey(k) /\ k = SubSeq(next \o Zeros(BLOCK), 1, BLOCK)
    BY <1>13, <1>14, KeyIs DEF Key0
  <2>2. SIZE \in Nat /\ BLOCK = SIZE + SIZE /\ Len(next) <= BLOCK
    BY <1>13, HashAssumption
  <2>3. \A i \in 1 .. BLOCK : k[i] = IF i <= SIZE THEN next[i] ELSE Byte(0)
    <3>1. LET q == SubSeq(next \o Zeros(BLOCK), 1, BLOCK)
          IN  \A i \in 1 .. BLOCK : q[i] = IF i <= Len(next) THEN next[i] ELSE Byte(0)
      BY <1>13, <2>2, Filled
    <3>2. QED
      BY <1>13, <2>1, <3>1
  <2>4. PICK y, w : y = Zeros(SIZE) /\ w = next \o y
    OBVIOUS
  <2>5. String(y) /\ Len(y) = SIZE /\ \A i \in 1 .. SIZE : y[i] = Byte(0)
    BY <2>2, <2>4, ZerosString
  <2>6. String(next)
    BY <1>13 DEF Bytes
  <2>7. LET q == next \o y
        IN  /\ String(q) /\ Len(q) = Len(next) + Len(y)
            /\ \A i \in 1 .. Len(next) + Len(y) :
                 q[i] = IF i <= Len(next) THEN next[i] ELSE y[i - Len(next)]
    BY <2>5, <2>6, Concat
  <2>8. /\ String(w) /\ Len(w) = BLOCK
        /\ \A i \in 1 .. BLOCK : w[i] = IF i <= SIZE THEN next[i] ELSE y[i - SIZE]
    BY <1>13, <2>2, <2>4, <2>5, <2>7
  <2>9. ASSUME NEW i \in 1 .. BLOCK PROVE w[i] = k[i]
    <3>1. ~(i <= SIZE) => i - SIZE \in 1 .. SIZE
      BY <2>2
    <3>2. QED
      BY <2>3, <2>5, <2>8, <3>1
  <2>10. String(k) /\ Len(k) = BLOCK
    BY <2>1 DEF IsKey, Bytes
  <2>11. w = k
    BY <2>8, <2>9, <2>10, SameString
  <2>12. QED
    BY <2>1, <2>4, <2>11
<1>16. PICK v, i : v = [sha |-> n, key |-> k, output |-> u] /\ i = sb_hmac_sha256_finish_to_key(o)
  OBVIOUS
<1>17. i = sb_hmac_sha256_reinit(v)
  <2>1. sb_sha256_finish(o.sha) = h
    BY <1>1, InnerHash
  <2>2. key_pad(o, "opad").key = j
    <3>1. key_pad(o, "opad") = [sha |-> s, key |-> j, output |-> u]
      BY <1>1, <1>2, KeyPadded
    <3>2. QED
      BY <3>1
  <2>3. PICK c : c = next \o Zeros(SIZE)
    OBVIOUS
  <2>4. sb_hmac_sha256_finish_to_key(o) = sb_hmac_sha256_reinit([o EXCEPT !.sha = n, !.key = c])
    <3>1. PICK f : f = CopyTo(key_pad(o, "opad").key, SIZE, sb_sha256_finish(o.sha))
      OBVIOUS
    <3>2. f = p
      BY <1>1, <2>1, <2>2, <3>1
    <3>3. sb_hmac_sha256_finish_to_key(o) =
            sb_hmac_sha256_reinit(
              [o EXCEPT !.sha = n,
                        !.key = sb_sha256_finish(
                                  sb_sha256_update(
                                    sb_sha256_update(
                                      sb_sha256_update(sb_sha256_init, SubSeq(f, 1, SIZE)),
                                      AllPad(SIZE, "opad")),
                                    SubSeq(f, SIZE + 1, BLOCK))) \o Zeros(SIZE)])
      BY <1>1, <3>1, Zenon DEF sb_hmac_sha256_finish_to_key
    <3>4. sb_sha256_finish(sb_sha256_update(sb_sha256_update(
            sb_sha256_update(sb_sha256_init, SubSeq(f, 1, SIZE)),
            AllPad(SIZE, "opad")), SubSeq(f, SIZE + 1, BLOCK))) = next
      BY <1>4, <1>7, <1>12, <3>2
    <3>5. QED
      BY <2>3, <3>3, <3>4, Zenon
  <2>5. [o EXCEPT !.sha = n, !.key = c] = v
    <3> DEFINE e == [o EXCEPT !.sha = n]
    <3>1. e = [sha |-> n, key |-> k0, output |-> u]
      BY <1>2
    <3> HIDE DEF e
    <3>2. [e EXCEPT !.key = c] = v
      BY <1>15, <1>16, <2>3, <3>1
    <3>3. QED
      BY <3>2 DEF e
  <2>6. QED
    BY <1>16, <2>4, <2>5
<1>18. IsObject(i) /\ i.output = u
  <2>1. IsObject(v) /\ v.key = k /\ v.output = u
    BY <1>16 DEF IsObject
  <2>2. QED
    BY <1>15, <1>17, <2>1, ReinitFeeds
<1>19. sb_hmac_sha256_init(i, next) = sb_hmac_sha256_reinit([sha |-> n, key |-> k, output |-> u])
  <2>1. sb_hmac_sha256_init(i, next) =
          sb_hmac_sha256_reinit([sha |-> Nullified, key |-> Key0(next), output |-> i.output])
    BY <1>13, <1>18, InitFeeds
  <2>2. QED
    BY <1>1, <1>14, <1>18, <2>1
<1>20. QED
  BY <1>1, <1>16, <1>17, <1>18, <1>19

--------------------------------------------------------------------------------
(* HKDF.                                                                   *)

(* Ready to make keys. *)
Keyed(o, k0) == IsObject(o) /\ String(o.output) /\ Feeds(o, k0, <<>>)

(* What a turn of the loop feeds back, and how much it makes. *)
Before(s) == IF s.made # <<>> THEN s.object.output ELSE <<>>
Take(s, length) ==
  LET left == length - Len(s.made) IN IF left > SIZE THEN SIZE ELSE left

(* A turn of the loop of sb_hkdf_expand makes one more of the T(i), from   *)
(* the one before it, the info and the counter.                            *)
LEMMA ExpandStep ==
  ASSUME NEW s, NEW k0, IsKey(k0), Keyed(s.object, k0), NEW info, String(info),
         NEW length \in Nat, Len(s.made) < length, String(s.made)
  PROVE  LET n == ExpandTurn(s, info, length)
         IN  \E d : /\ n = [object |-> n.object,
                            made |-> s.made \o SubSeq(d, 1, Take(s, length)),
                            iter |-> (s.iter + 1) % IterMod]
                    /\ Keyed(n.object, k0) /\ n.object.output = d
                    /\ String(d) /\ Len(d) = SIZE
                    /\ BLOCK + (Len(Before(s)) + Len(info) + 1) < TotalMod =>
                         d = Hmac0(k0, (Before(s) \o info) \o <<Byte(s.iter)>>)
<1>1. PICK before : before = Before(s)
  OBVIOUS
<1>2. before = IF s.made # <<>> THEN s.object.output ELSE <<>>
  BY <1>1 DEF Before
<1>3. PICK o, b : o = s.object /\ b = Byte(s.iter)
  OBVIOUS
<1>4. IsObject(o) /\ String(o.output) /\ Feeds(o, k0, <<>>)
  BY <1>3 DEF Keyed
<1>5. String(before) /\ String(<<b>>) /\ Len(<<b>>) = 1
  BY <1>3, <1>4, <1>2, Empty, One
<1>6. PICK fedBack : fedBack = IF s.made # <<>> THEN sb_hmac_sha256_update(o, o.output) ELSE o
  OBVIOUS
<1>7. IsObject(fedBack) /\ Feeds(fedBack, k0, before)
  <2>1. CASE s.made # <<>>
    <3>1. before = o.output /\ fedBack = sb_hmac_sha256_update(o, o.output)
      BY <1>3, <1>6, <1>2, <2>1
    <3>2. IsObject(fedBack) /\ Feeds(fedBack, k0, <<>> \o before)
      BY <1>4, <3>1, Empty, UpdateFeeds
    <3>3. QED
      BY <1>5, <3>2, ConcatNothing
  <2>2. CASE s.made = <<>>
    BY <1>4, <1>6, <1>2, <2>2
  <2>3. QED
    BY <2>1, <2>2
<1>8. PICK x, y : x = sb_hmac_sha256_update(fedBack, info) /\ y = sb_hmac_sha256_update(x, <<b>>)
  OBVIOUS
<1>9. IsObject(x) /\ Feeds(x, k0, before \o info)
  BY <1>5, <1>7, <1>8, UpdateFeeds
<1>10. PICK w, v : w = before \o info /\ v = w \o <<b>>
  OBVIOUS
<1>11. String(w) /\ String(v) /\ Len(v) = Len(before) + Len(info) + 1
  <2>1. String(w) /\ Len(w) = Len(before) + Len(info)
    BY <1>5, <1>10, Concat
  <2>2. QED
    BY <1>5, <1>10, <2>1, Concat
<1>12. IsObject(y) /\ Feeds(y, k0, v)
  <2>1. IsObject(x) /\ Feeds(x, k0, w)
    BY <1>9, <1>10
  <2>2. QED
    BY <1>5, <1>8, <1>10, <1>11, <2>1, UpdateFeeds
<1>13. PICK e, d : /\ e = [sha |-> Nullified, key |-> k0, output |-> y.output]
                   /\ sb_hmac_sha256_finish(y) = <<e, d>>
                   /\ Bytes(d) /\ Len(d) = SIZE
                   /\ BLOCK + Len(v) < TotalMod => d = Hmac0(k0, v)
  <2>1. PICK d : /\ sb_hmac_sha256_finish(y) =
                      <<[sha |-> Nullified, key |-> k0, output |-> y.output], d>>
                 /\ Bytes(d) /\ Len(d) = SIZE
                 /\ BLOCK + Len(v) < TotalMod => d = Hmac0(k0, v)
    BY <1>11, <1>12, FinishMac
  <2>2. QED
    BY <2>1
<1>14. PICK a : a = sb_hmac_sha256_reinit(e)
  OBVIOUS
<1>15. IsObject(a) /\ Feeds(a, k0, <<>>)
  <2>1. IsObject(e) /\ e.key = k0
    BY <1>13 DEF IsObject
  <2>2. QED
    BY <1>14, <2>1, ReinitFeeds
<1>16. PICK g : g = [a EXCEPT !.output = d]
  OBVIOUS
<1>17. Keyed(g, k0) /\ g.output = d
  <2>1. PICK p, q, r : p = a.sha /\ q = a.key /\ r = a.output
    OBVIOUS
  <2>2. a = [sha |-> p, key |-> q, output |-> r]
    BY <1>15, <2>1 DEF IsObject
  <2>3. g = [sha |-> p, key |-> q, output |-> d]
    BY <1>16, <2>2
  <2>4. g.sha = a.sha /\ g.key = a.key /\ g.output = d /\ IsObject(g)
    BY <2>1, <2>3 DEF IsObject
  <2>5. String(d)
    BY <1>13 DEF Bytes
  <2>6. QED
    BY <1>15, <2>4, <2>5 DEF Keyed, Feeds
<1>18. PICK take : take = Take(s, length)
  OBVIOUS
<1>19. ExpandTurn(s, info, length) =
         [object |-> g, made |-> s.made \o SubSeq(d, 1, take), iter |-> (s.iter + 1) % IterMod]
  <2>1. ~(Len(s.made) >= length)
    BY DEF String
  <2>2. LET end == sb_hmac_sha256_finish(y)
        IN  ExpandTurn(s, info, length) =
              [object |-> [sb_hmac_sha256_reinit(end[1]) EXCEPT !.output = end[2]],
               made |-> s.made \o SubSeq(end[2], 1, take),
               iter |-> (s.iter + 1) % IterMod]
    BY <1>3, <1>6, <1>8, <1>18, <2>1, Zenon DEF ExpandTurn, Take
  <2>3. PICK end : end = sb_hmac_sha256_finish(y)
    OBVIOUS
  <2>4. end[1] = e /\ end[2] = d
    BY <1>13, <2>3
  <2>5. QED
    BY <1>14, <1>16, <2>2, <2>3, <2>4, Zenon
<1>20. PICK n : n = ExpandTurn(s, info, length)
  OBVIOUS
<1>21. n = [object |-> n.object, made |-> s.made \o SubSeq(d, 1, take),
            iter |-> (s.iter + 1) % IterMod] /\ n.object = g
  BY <1>19, <1>20
<1>22. String(d)
  BY <1>13 DEF Bytes
<1>23. BLOCK + (Len(before) + Len(info) + 1) < TotalMod =>
         d = Hmac0(k0, (before \o info) \o <<Byte(s.iter)>>)
  BY <1>3, <1>10, <1>11, <1>13
<1>24. QED
  BY <1>13, <1>17, <1>18, <1>20, <1>21, <1>22, <1>23, <1>1

(* So does the loop of sb_hkdf_expand. *)
LEMMA ExpandTurns ==
  ASSUME NEW first, NEW info, NEW length, NEW n \in Nat
  PROVE  \E turn : turn = [i \in 0 .. n |-> IF i = 0 THEN first
                                             ELSE ExpandTurn(turn[i - 1], info, length)]
<1> DEFINE Turns(f, k) == f = [i \in 0 .. k |-> IF i = 0 THEN first
                                                 ELSE ExpandTurn(f[i - 1], info, length)]
           S == {k \in Nat : \E f : Turns(f, k)}
<1>1. 0 \in S
  <2>1. Turns([i \in 0 .. 0 |-> first], 0)
    OBVIOUS
  <2>2. QED
    BY <2>1
<1>2. ASSUME NEW k \in Nat, k \in S PROVE k + 1 \in S
  <2>1. PICK f : Turns(f, k)
    BY <1>2
  <2> DEFINE next == ExpandTurn(f[k], info, length)
             g == [i \in 0 .. k + 1 |-> IF i <= k THEN f[i] ELSE next]
  <2>2. ASSUME NEW i \in 0 .. k + 1
        PROVE  g[i] = IF i = 0 THEN first ELSE ExpandTurn(g[i - 1], info, length)
    <3>1. CASE i = 0
      <4>1. g[i] = f[0] /\ f[0] = first
        BY <2>1, <3>1
      <4>2. QED
        BY <3>1, <4>1
    <3>2. CASE i \in 1 .. k
      <4>1. g[i] = f[i] /\ g[i - 1] = f[i - 1]
        BY <3>2
      <4>2. f[i] = ExpandTurn(f[i - 1], info, length)
        BY <2>1, <3>2
      <4>3. i # 0
        BY <3>2
      <4> HIDE DEF g
      <4>4. QED
        BY <4>1, <4>2, <4>3
    <3>3. CASE i = k + 1
      <4>1. i - 1 = k /\ i # 0 /\ ~(i <= k) /\ k \in 0 .. k + 1
        BY <3>3
      <4>2. g[i] = next /\ g[i - 1] = f[k]
        <5> HIDE DEF next
        <5>1. QED
          BY <4>1
      <4> HIDE DEF g
      <4>3. QED
        BY <4>1, <4>2
    <3>4. i = 0 \/ i \in 1 .. k \/ i = k + 1
      OBVIOUS
    <3>5. QED
      BY <3>1, <3>2, <3>3, <3>4
  <2>3. g = [i \in 0 .. k + 1 |-> g[i]]
    OBVIOUS
  <2> HIDE DEF g
  <2>4. Turns(g, k + 1)
    BY <2>2, <2>3
  <2>5. k + 1 \in Nat
    OBVIOUS
  <2> HIDE DEF Turns
  <2>6. QED
    BY <2>4, <2>5
<1>3. n \in S
  <2> HIDE DEF S
  <2>1. Nat \subseteq S
    BY <1>1, <1>2, Induction
  <2>2. QED
    BY <2>1
<1>4. PICK f : Turns(f, n)
  BY <1>3
<1>5. QED
  BY <1>4

(* T(i) from the one before it. *)
NextBlock(prk, info, i, before) == RefHmac(prk, before \o info \o <<Byte(i)>>)

(* And there is a T(i) for every i. *)
LEMMA RefTurns ==
  ASSUME NEW prk, NEW info, NEW n \in Nat
  PROVE  \E turn : turn = [i \in 0 .. n |-> IF i = 0 THEN <<>>
                                             ELSE NextBlock(prk, info, i, turn[i - 1])]
<1> DEFINE Turns(f, k) == f = [i \in 0 .. k |-> IF i = 0 THEN <<>>
                                                 ELSE NextBlock(prk, info, i, f[i - 1])]
           S == {k \in Nat : \E f : Turns(f, k)}
<1>1. 0 \in S
  <2>1. Turns([i \in 0 .. 0 |-> <<>>], 0)
    OBVIOUS
  <2>2. QED
    BY <2>1
<1>2. ASSUME NEW k \in Nat, k \in S PROVE k + 1 \in S
  <2>1. PICK f : Turns(f, k)
    BY <1>2
  <2> DEFINE next == NextBlock(prk, info, k + 1, f[k])
             g == [i \in 0 .. k + 1 |-> IF i <= k THEN f[i] ELSE next]
  <2>2. ASSUME NEW i \in 0 .. k + 1
        PROVE  g[i] = IF i = 0 THEN <<>> ELSE NextBlock(prk, info, i, g[i - 1])
    <3>1. CASE i = 0
      <4>1. g[i] = f[0] /\ f[0] = <<>>
        BY <2>1, <3>1
      <4>2. QED
        BY <3>1, <4>1
    <3>2. CASE i \in 1 .. k
      <4>1. g[i] = f[i] /\ g[i - 1] = f[i - 1]
        BY <3>2
      <4>2. f[i] = NextBlock(prk, info, i, f[i - 1])
        BY <2>1, <3>2
      <4>3. i # 0
        BY <3>2
      <4> HIDE DEF g
      <4>4. QED
        BY <4>1, <4>2, <4>3
    <3>3. CASE i = k + 1
      <4>1. i - 1 = k /\ i # 0 /\ ~(i <= k) /\ k \in 0 .. k + 1
        BY <3>3
      <4>2. g[i] = next /\ g[i - 1] = f[k]
        <5> HIDE DEF next
        <5>1. QED
          BY <4>1
      <4> HIDE DEF g
      <4>3. QED
        BY <4>1, <4>2
    <3>4. i = 0 \/ i \in 1 .. k \/ i = k + 1
      OBVIOUS
    <3>5. QED
      BY <3>1, <3>2, <3>3, <3>4
  <2>3. g = [i \in 0 .. k + 1 |-> g[i]]
    OBVIOUS
  <2> HIDE DEF g
  <2>4. Turns(g, k + 1)
    BY <2>2, <2>3
  <2>5. k + 1 \in Nat
    OBVIOUS
  <2> HIDE DEF Turns
  <2>6. QED
    BY <2>4, <2>5
<1>3. n \in S
  <2> HIDE DEF S
  <2>1. Nat \subseteq S
    BY <1>1, <1>2, Induction
  <2>2. QED
    BY <2>1
<1>4. PICK f : Turns(f, n)
  BY <1>3
<1>5. QED
  BY <1>4

(* Key material of any length is RFC 5869's, unless a count overflows; and *)
(* the object can make the next one. *)
LEMMA ExpandHolds ==
  ASSUME NEW o, NEW prk, IsKey(Key0(prk)), Keyed(o, Key0(prk)),
         NEW info, String(info), NEW length \in Nat
  PROVE  LET end == sb_hkdf_expand(o, info, length)
         IN  /\ Keyed(end[1], Key0(prk)) /\ Len(end[2]) = length
             /\ BLOCK + SIZE + Len(info) + 1 < TotalMod /\ length <= (IterMod - 1) * SIZE =>
                  end[2] = RefExpand(prk, info, length)
<1> DEFINE first == [object |-> o, made |-> <<>>, iter |-> 1]
           turn[i \in 0 .. length] ==
             IF i = 0 THEN first ELSE ExpandTurn(turn[i - 1], info, length)
           T[i \in 0 .. length] ==
             IF i = 0 THEN <<>> ELSE NextBlock(prk, info, i, T[i - 1])
           Fits == BLOCK + SIZE + Len(info) + 1 < TotalMod /\ length <= (IterMod - 1) * SIZE
           Runs(s, i) == /\ Keyed(s.object, Key0(prk)) /\ String(s.made)
                         /\ i <= Len(s.made) /\ Len(s.made) <= length
           At(k) == T[1 + ((k - 1) \div SIZE)][1 + ((k - 1) % SIZE)]
           Made(s, c) == /\ c <= Len(s.made)
                         /\ Len(s.made) < length => Len(s.made) = c * SIZE /\ s.iter = c + 1
                         /\ c > 0 => s.object.output = T[c]
                         /\ \A k \in 1 .. Len(s.made) : s.made[k] = At(k)
           S == {i \in Nat : i <= length => /\ Runs(turn[i], i)
                                            /\ Fits => \E c \in Nat : Made(turn[i], c)}
<1>1. SIZE \in Nat \ {0} /\ BLOCK \in Nat /\ TotalMod \in Nat /\ IterMod \in Nat \ {0} /\ Len(info) \in Nat
  BY HashAssumption, BlockType DEF String
<1>2. sb_hkdf_expand(o, info, length) =
        <<[turn[length].object EXCEPT !.output = Zeros(SIZE)], turn[length].made>>
  BY DEF sb_hkdf_expand, expandFrom
<1>3. RefExpand(prk, info, length) = [k \in 1 .. length |-> At(k)]
  BY DEF RefExpand, NextBlock
<1>4. turn = [i \in 0 .. length |-> IF i = 0 THEN first ELSE ExpandTurn(turn[i - 1], info, length)]
  <2> HIDE DEF first
  <2>1. QED
    BY ExpandTurns
<1>5. T = [i \in 0 .. length |-> IF i = 0 THEN <<>> ELSE NextBlock(prk, info, i, T[i - 1])]
  BY RefTurns
<1> HIDE DEF turn, T, first, Fits, Runs, At, Made, S
<1>6. T[0] = <<>>
  BY <1>5
<1>7. ASSUME NEW c \in Nat, c + 1 <= length
      PROVE  T[c + 1] = RefHmac(prk, (T[c] \o info) \o <<Byte(c + 1)>>)
  <2>1. c + 1 \in 0 .. length /\ c + 1 # 0 /\ (c + 1) - 1 = c
    BY <1>7
  <2>2. QED
    BY <1>5, <2>1 DEF NextBlock
<1>8. ASSUME NEW c \in Nat, c <= length PROVE Len(T[c]) <= SIZE
  <2>1. CASE c = 0
    BY <1>1, <1>6, <2>1, Empty
  <2>2. CASE c # 0
    <3>1. PICK b \in Nat : c = b + 1
      <4>1. c - 1 \in Nat /\ c = (c - 1) + 1
        BY <2>2
      <4>2. QED
        BY <4>1
    <3>2. T[c] = Hmac0(Key0(prk), (T[b] \o info) \o <<Byte(b + 1)>>)
      BY <1>7, <1>8, <3>1, Hmac0Is
    <3>3. Len(T[c]) = SIZE
      BY <3>2, HashString DEF Hmac0
    <3>4. QED
      BY <1>1, <3>3
  <2>3. QED
    BY <2>1, <2>2
<1>9. 0 \in S
  <2>1. PICK s : s = first
    OBVIOUS
  <2>2. turn[0] = s
    BY <1>4, <2>1
  <2>3. s.object = o /\ s.made = <<>> /\ s.iter = 1
    BY <2>1 DEF first
  <2>4. Runs(s, 0)
    BY <2>3, Empty DEF Runs
  <2>5. Made(s, 0)
    <3>1. 0 * SIZE = 0
      BY <1>1
    <3>2. Len(s.made) = 0
      BY <2>3, Empty
    <3>3. QED
      BY <2>3, <3>1, <3>2 DEF Made
  <2>6. QED
    BY <2>2, <2>4, <2>5 DEF S
<1>10. ASSUME NEW i \in Nat, i \in S PROVE i + 1 \in S
  <2> SUFFICES ASSUME i + 1 <= length
               PROVE  Runs(turn[i + 1], i + 1) /\ (Fits => \E c \in Nat : Made(turn[i + 1], c))
    BY DEF S
  <2>1. PICK s, n : s = turn[i] /\ n = turn[i + 1]
    OBVIOUS
  <2>2. Runs(s, i) /\ (Fits => \E c \in Nat : Made(s, c))
    BY <1>10, <2>1 DEF S
  <2>3. n = ExpandTurn(s, info, length)
    <3>1. i + 1 \in 0 .. length /\ i + 1 # 0 /\ (i + 1) - 1 = i
      OBVIOUS
    <3>2. QED
      BY <1>4, <2>1, <3>1
  <2>4. PICK l : l = Len(s.made)
    OBVIOUS
  <2>5. Keyed(s.object, Key0(prk)) /\ String(s.made) /\ l \in Nat /\ i <= l /\ l <= length
    BY <2>2, <2>4 DEF Runs, String
  <2>6. CASE l = length
    <3>1. n = s
      BY <2>3, <2>4, <2>5, <2>6 DEF ExpandTurn
    <3>2. Runs(n, i + 1)
      BY <2>4, <2>5, <2>6, <3>1 DEF Runs
    <3>3. QED
      BY <2>1, <2>2, <3>1, <3>2
  <2>7. CASE l < length
    <3>1. PICK before, take : /\ before = IF s.made # <<>> THEN s.object.output ELSE <<>>
                              /\ take = IF length - l > SIZE THEN SIZE ELSE length - l
      OBVIOUS
    <3>2. take \in Nat /\ 1 <= take /\ take <= SIZE /\ l + take <= length
      BY <1>1, <2>5, <2>7, <3>1
    <3>3. PICK d : /\ n = [object |-> n.object, made |-> s.made \o SubSeq(d, 1, take),
                           iter |-> (s.iter + 1) % IterMod]
                   /\ Keyed(n.object, Key0(prk)) /\ n.object.output = d
                   /\ String(d) /\ Len(d) = SIZE
                   /\ BLOCK + (Len(before) + Len(info) + 1) < TotalMod =>
                        d = Hmac0(Key0(prk), (before \o info) \o <<Byte(s.iter)>>)
      <4>1. Keyed(s.object, Key0(prk)) /\ String(s.made) /\ Len(s.made) < length
        BY <2>4, <2>5, <2>7
      <4>2. before = Before(s) /\ take = Take(s, length)
        BY <2>4, <3>1 DEF Before, Take
      <4>3. LET m == ExpandTurn(s, info, length)
            IN  \E d : /\ m = [object |-> m.object,
                               made |-> s.made \o SubSeq(d, 1, Take(s, length)),
                               iter |-> (s.iter + 1) % IterMod]
                       /\ Keyed(m.object, Key0(prk)) /\ m.object.output = d
                       /\ String(d) /\ Len(d) = SIZE
                       /\ BLOCK + (Len(Before(s)) + Len(info) + 1) < TotalMod =>
                            d = Hmac0(Key0(prk), (Before(s) \o info) \o <<Byte(s.iter)>>)
        BY <4>1, ExpandStep
      <4>4. QED
        BY <2>3, <4>2, <4>3
    <3>4. PICK piece, w : piece = SubSeq(d, 1, take) /\ w = s.made \o piece
      OBVIOUS
    <3>5. String(piece) /\ Len(piece) = take /\ \A j \in 1 .. take : piece[j] = d[j]
      <4>1. take \in Int /\ 1 <= take + 1 /\ take <= Len(d)
        BY <3>2, <3>3
      <4>2. /\ String(SubSeq(d, 1, take)) /\ Len(SubSeq(d, 1, take)) = take + 1 - 1
            /\ \A j \in 1 .. take + 1 - 1 : SubSeq(d, 1, take)[j] = d[1 + j - 1]
        <5>1. String(d) /\ 1 <= 1 /\ 1 \in Int
          BY <3>3
        <5>2. QED
          BY <4>1, <5>1, Sub
      <4>3. take + 1 - 1 = take /\ \A j \in 1 .. take : 1 + j - 1 = j
        BY <3>2
      <4>4. QED
        BY <3>4, <4>2, <4>3
    <3>6. /\ String(w) /\ Len(w) = l + take
          /\ \A k \in 1 .. l + take : w[k] = IF k <= l THEN s.made[k] ELSE piece[k - l]
      <4>1. LET q == s.made \o piece
            IN  /\ String(q) /\ Len(q) = Len(s.made) + Len(piece)
                /\ \A k \in 1 .. Len(s.made) + Len(piece) :
                     q[k] = IF k <= Len(s.made) THEN s.made[k] ELSE piece[k - Len(s.made)]
        BY <2>5, <3>5, Concat
      <4>2. QED
        BY <2>4, <3>4, <3>5, <4>1
    <3>7. n.made = w /\ n.iter = (s.iter + 1) % IterMod
      <4>1. PICK ob, it : ob = n.object /\ it = (s.iter + 1) % IterMod
        OBVIOUS
      <4>2. n = [object |-> ob, made |-> w, iter |-> it]
        BY <3>3, <3>4, <4>1
      <4>3. QED
        BY <4>1, <4>2
    <3>8. Runs(n, i + 1)
      <4>1. i + 1 <= l + take
        BY <2>5, <3>2
      <4>2. QED
        BY <3>2, <3>3, <3>6, <3>7, <4>1 DEF Runs
    <3>9. ASSUME Fits PROVE \E c \in Nat : Made(n, c)
      <4>1. PICK c \in Nat : Made(s, c)
        BY <2>2, <3>9
      <4>2. /\ c <= l /\ l = c * SIZE /\ s.iter = c + 1
            /\ c > 0 => s.object.output = T[c]
            /\ \A k \in 1 .. l : s.made[k] = At(k)
        BY <2>4, <2>7, <4>1 DEF Made
      <4>3. before = T[c]
        <5>1. CASE c > 0
          <6>1. s.made # <<>>
            <7>1. l > 0
              BY <2>5, <4>2, <5>1
            <7>2. Len(s.made) # Len(<<>>)
              BY <2>4, <7>1, Empty
            <7>3. QED
              BY <7>2
          <6>2. QED
            BY <3>1, <4>2, <5>1, <6>1
        <5>2. CASE c = 0
          <6>1. Len(s.made) = 0
            BY <1>1, <2>4, <4>2, <5>2
          <6>2. s.made = <<>>
            BY <2>5, <6>1, Empty, SameString
          <6>3. QED
            BY <1>6, <3>1, <5>2, <6>2
        <5>3. c > 0 \/ c = 0
          OBVIOUS
        <5>4. QED
          BY <5>1, <5>2, <5>3
      <4>4. c + 1 <= length
        BY <2>5, <2>7, <4>2
      <4>5. d = T[c + 1]
        <5>1. Len(before) <= SIZE
          <6>1. c <= length
            BY <4>4
          <6>2. QED
            BY <1>8, <4>3, <6>1
        <5>2. Len(before) \in Nat
          <6>1. String(before)
            BY <2>5, <3>1, Empty DEF Keyed
          <6>2. QED
            BY <6>1 DEF String
        <5>3. BLOCK + (Len(before) + Len(info) + 1) < TotalMod
          BY <1>1, <3>9, <5>1, <5>2 DEF Fits
        <5>4. d = RefHmac(prk, (before \o info) \o <<Byte(s.iter)>>)
          BY <3>3, <5>3, Hmac0Is
        <5>5. QED
          BY <1>7, <4>2, <4>3, <4>4, <5>4
      <4>6. ASSUME NEW k \in 1 .. l + take PROVE w[k] = At(k)
        <5>1. CASE k <= l
          <6>1. k \in 1 .. l
            BY <2>5, <5>1
          <6>2. QED
            BY <3>6, <4>2, <5>1, <6>1
        <5>2. CASE k > l
          <6>1. PICK j \in 1 .. take : j = k - l
            BY <2>5, <3>2, <5>2
          <6>2. w[k] = d[j]
            BY <2>5, <3>5, <3>6, <5>2, <6>1
          <6>3. PICK r \in Nat : r = j - 1
            BY <3>2
          <6>4. r < SIZE /\ j = 1 + r
            BY <1>1, <3>2, <6>3
          <6>5. k - 1 = c * SIZE + r
            BY <2>5, <3>2, <4>2, <6>1, <6>3
          <6>6. (c * SIZE + r) \div SIZE = c /\ (c * SIZE + r) % SIZE = r
            BY <1>1, <6>4, Quotient
          <6>7. (k - 1) \div SIZE = c /\ (k - 1) % SIZE = r
            BY <6>5, <6>6, Zenon
          <6>8. At(k) = T[1 + c][1 + r]
            BY <6>7, Zenon DEF At
          <6>9. 1 + c = c + 1
            OBVIOUS
          <6>10. QED
            BY <4>5, <6>2, <6>4, <6>8, <6>9
        <5>3. k <= l \/ k > l
          BY <2>5
        <5>4. QED
          BY <5>1, <5>2, <5>3
      <4>7. ASSUME l + take < length
            PROVE  l + take = (c + 1) * SIZE /\ (s.iter + 1) % IterMod = c + 2
        <5>1. take = SIZE
          BY <1>1, <2>5, <3>1, <4>7
        <5>2. (c + 1) * SIZE = c * SIZE + SIZE /\ c * SIZE \in Int
          BY <1>1, Product
        <5>3. l + take = (c + 1) * SIZE
          BY <2>5, <4>2, <5>1, <5>2
        <5>4. ~(IterMod - 1 <= c + 1)
          <6>1. SUFFICES ASSUME IterMod - 1 <= c + 1 PROVE FALSE
            OBVIOUS
          <6>2. (IterMod - 1) * SIZE <= (c + 1) * SIZE /\ (IterMod - 1) * SIZE \in Int
            BY <1>1, <6>1, Product
          <6>3. length <= (IterMod - 1) * SIZE
            BY <3>9 DEF Fits
          <6> DEFINE x == (IterMod - 1) * SIZE
                     y == (c + 1) * SIZE
          <6>4. x <= y /\ x \in Int /\ y = l + take /\ length <= x
            BY <5>3, <6>2, <6>3
          <6> HIDE DEF x, y
          <6>5. QED
            BY <2>5, <3>2, <4>7, <6>4
        <5>5. s.iter + 1 = c + 2 /\ c + 2 \in Nat /\ c + 2 < IterMod
          <6>1. IterMod - 1 > c + 1
            BY <1>1, <5>4
          <6>2. PICK it, b : it = s.iter /\ b = IterMod
            OBVIOUS
          <6>3. it = c + 1 /\ b \in Nat \ {0} /\ b - 1 > c + 1
            BY <1>1, <4>2, <6>1, <6>2
          <6>4. it + 1 = c + 2 /\ c + 2 \in Nat /\ c + 2 < b
            BY <6>3
          <6>5. QED
            BY <6>2, <6>4
        <5>6. (c + 2) % IterMod = c + 2
          BY <1>1, <5>5, Below
        <5>7. QED
          BY <5>3, <5>5, <5>6
      <4>8. Made(n, c + 1)
        <5>1. c + 1 <= l + take
          BY <2>5, <3>2, <4>2
        <5>2. (c + 1) + 1 = c + 2
          OBVIOUS
        <5>3. QED
          BY <3>3, <3>6, <3>7, <4>5, <4>6, <4>7, <5>1, <5>2 DEF Made
      <4>9. c + 1 \in Nat
        OBVIOUS
      <4>10. QED
        BY <4>8, <4>9
    <3>10. QED
      BY <2>1, <3>8, <3>9
  <2>8. l = length \/ l < length
    BY <2>5
  <2>9. QED
    BY <2>6, <2>7, <2>8
<1>11. length \in S
  <2>1. Nat \subseteq S
    BY <1>9, <1>10, Induction
  <2>2. QED
    BY <2>1
<1>12. PICK s : s = turn[length]
  OBVIOUS
<1>13. Runs(s, length) /\ (Fits => \E c \in Nat : Made(s, c))
  BY <1>11, <1>12 DEF S
<1>14. String(s.made) /\ Len(s.made) = length
  BY <1>13 DEF Runs, String
<1>15. PICK g, z : z = Zeros(SIZE) /\ g = [s.object EXCEPT !.output = z]
  OBVIOUS
<1>16. Keyed(g, Key0(prk))
  <2>1. Keyed(s.object, Key0(prk))
    BY <1>13 DEF Runs
  <2>2. PICK e : e = s.object
    OBVIOUS
  <2>3. IsObject(e) /\ Feeds(e, Key0(prk), <<>>) /\ g = [e EXCEPT !.output = z]
    BY <1>15, <2>1, <2>2 DEF Keyed
  <2>4. PICK p, q, r : p = e.sha /\ q = e.key /\ r = e.output
    OBVIOUS
  <2>5. e = [sha |-> p, key |-> q, output |-> r]
    BY <2>3, <2>4 DEF IsObject
  <2>6. g = [sha |-> p, key |-> q, output |-> z]
    BY <2>3, <2>5
  <2>7. g.sha = e.sha /\ g.key = e.key /\ g.output = z /\ IsObject(g)
    BY <2>4, <2>6 DEF IsObject
  <2>8. String(z)
    BY <1>1, <1>15, ZerosString
  <2>9. QED
    BY <2>3, <2>7, <2>8 DEF Keyed, Feeds
<1>17. ASSUME Fits PROVE s.made = RefExpand(prk, info, length)
  <2>1. \A k \in 1 .. length : s.made[k] = At(k)
    BY <1>13, <1>14, <1>17 DEF Made
  <2>2. s.made = [k \in 1 .. length |-> s.made[k]]
    BY <1>14 DEF String
  <2>3. QED
    BY <1>3, <2>1, <2>2
<1>18. PICK end : end = sb_hkdf_expand(o, info, length)
  OBVIOUS
<1>19. end = <<g, s.made>>
  BY <1>2, <1>12, <1>15, <1>18
<1>20. end[1] = g /\ end[2] = s.made
  BY <1>19
<1>21. QED
  BY <1>14, <1>16, <1>17, <1>18, <1>20 DEF Fits

--------------------------------------------------------------------------------
(* The invariant: what the object holds of what was fed, at every stage.   *)

Salt == IF use = "hkdf" /\ secret = <<>> THEN Zeros(SIZE) ELSE secret

Shapes ==
  /\ use \in {"hash", "hmac", "hkdf", "kdf"} /\ Bytes(secret) /\ String(fed)
  /\ stage = "fresh" => object = Cleared /\ fed = <<>> /\ produced = Nothing
  /\ use = "hkdf" /\ stage = "feeding" => produced = Nothing
  /\ stage = "derived" => use \in {"hkdf", "kdf"}

HashHolds ==
  use = "hash" => /\ IsObject(object)
                  /\ stage = "feeding" => Holds(object.sha, fed)

MacHolds ==
  use \in {"hmac", "hkdf"} /\ Len(secret) < TotalMod =>
    /\ stage = "feeding" => /\ IsObject(object) /\ Feeds(object, Key0(Salt), fed)
    /\ stage = "done" => IsObject(object) /\ object.key = Key0(Salt)

KeysHold ==
  stage = "derived" /\ Len(secret) < TotalMod /\ BLOCK + Len(fed) < TotalMod =>
    Keyed(object, Key0(Prk)) /\ IsKey(Key0(Prk))

HashInv == Shapes /\ HashHolds /\ MacHolds /\ KeysHold /\ HashesFed /\ DerivesKeys

(* A hash is shorter than the modulus of the counter.                      *)
LEMMA SizeFits == SIZE \in Nat /\ BLOCK \in Nat /\ TotalMod \in Nat /\ SIZE <= BLOCK /\ SIZE < TotalMod
<1>1. /\ BLOCK \in Nat \ {0} /\ TotalMod \in Nat \ {0} /\ TotalMod % BLOCK = 0
      /\ SIZE \in Nat \ {0} /\ BLOCK = 2 * SIZE
  BY HashAssumption, BlockType
<1>2. PICK q \in Nat : TotalMod = q * BLOCK
  <2>1. TotalMod = (TotalMod \div BLOCK) * BLOCK + 0 /\ TotalMod \div BLOCK \in Nat
    BY <1>1, Division
  <2>2. (TotalMod \div BLOCK) * BLOCK \in Int
    BY <1>1, <2>1, Product
  <2>3. QED
    BY <2>1, <2>2
<1>3. 0 * BLOCK = 0 /\ 1 * BLOCK = BLOCK
  BY <1>1
<1>4. 1 <= q
  BY <1>1, <1>2, <1>3
<1>5. 1 * BLOCK <= q * BLOCK
  BY <1>1, <1>4, Product
<1>6. BLOCK <= TotalMod
  BY <1>2, <1>3, <1>5
<1>7. QED
  BY <1>1, <1>6

(* The object before its first use.                                        *)
LEMMA ClearedObject == IsObject(Cleared) /\ Cleared.output = Zeros(SIZE) /\ String(Zeros(SIZE))
BY SizeFits, ZerosString DEF Cleared, IsObject

(* Key material of no bytes.                                               *)
LEMMA NothingDerived ==
  ASSUME NEW prk, NEW info
  PROVE  RefExpand(prk, info, 0) = <<>>
<1>1. RefExpand(prk, info, 0) = [k \in 1 .. 0 |-> RefExpand(prk, info, 0)[k]]
  BY DEF RefExpand
<1>2. String(RefExpand(prk, info, 0)) /\ Len(RefExpand(prk, info, 0)) = 0
  BY <1>1, StringOf
<1>3. QED
  BY <1>2, Empty, SameString

(* What the caller gave is a key, also where nothing stands for zeros.     *)
LEMMA SaltIs ==
  ASSUME Shapes, Len(secret) < TotalMod
  PROVE  Bytes(Salt) /\ Len(Salt) < TotalMod /\ IsKey(Key0(Salt))
<1>1. PICK k : k = Salt
  OBVIOUS
<1>2. Bytes(k) /\ Len(k) < TotalMod
  <2>1. CASE use = "hkdf" /\ secret = <<>>
    BY <1>1, <2>1, SizeFits, ZerosBytes DEF Salt
  <2>2. CASE ~(use = "hkdf" /\ secret = <<>>)
    BY <1>1, <2>2 DEF Salt, Shapes
  <2>3. QED
    BY <2>1, <2>2
<1>3. QED
  BY <1>1, <1>2, KeyIs

(* The invariant holds before the object is used.                          *)
LEMMA InitInv == Init => HashInv
<1> SUFFICES ASSUME Init PROVE HashInv
  OBVIOUS
<1>1. Bytes(<<>>) /\ String(<<>>)
  BY Empty DEF Bytes
<1>2. Shapes
  BY <1>1 DEF Init, Shapes
<1>3. HashHolds
  BY ClearedObject DEF Init, HashHolds
<1>4. MacHolds /\ KeysHold /\ HashesFed /\ DerivesKeys
  BY DEF Init, MacHolds, KeysHold, HashesFed, DerivesKeys
<1>5. QED
  BY <1>2, <1>3, <1>4 DEF HashInv

(* A hash is begun again.                                                  *)
LEMMA HashInitInv ==
  ASSUME HashInv, HashInit
  PROVE  HashInv'
<1> USE DEF HashInit, Hashing, Goes
<1>1. Shapes'
  <2>1. String(<<>>)
    BY Empty
  <2>2. QED
    BY <2>1 DEF HashInv, Shapes
<1>2. HashHolds'
  <2>1. PICK s, k, u : s = object.sha /\ k = object.key /\ u = object.output
    OBVIOUS
  <2>2. object = [sha |-> s, key |-> k, output |-> u]
    BY <2>1 DEF HashInv, HashHolds, IsObject
  <2>3. PICK i : i = sb_sha256_init
    OBVIOUS
  <2>4. object' = [sha |-> i, key |-> k, output |-> u]
    BY <2>2, <2>3
  <2>5. IsObject(object)' /\ object'.sha = i
    <3>1. PICK o : o = object'
      OBVIOUS
    <3>2. o = [sha |-> i, key |-> k, output |-> u]
      BY <2>4, <3>1
    <3>3. IsObject(o) /\ o.sha = i
      BY <3>2, ObjectOf
    <3>4. QED
      BY <3>1, <3>3
  <2>6. Holds(i, <<>>)
    BY <2>3, InitHolds
  <2>7. Holds(object.sha, fed)'
    BY <2>5, <2>6
  <2>8. QED
    BY <2>5, <2>7 DEF HashHolds
<1>3. MacHolds' /\ KeysHold' /\ HashesFed' /\ DerivesKeys'
  BY DEF MacHolds, KeysHold, HashesFed, DerivesKeys
<1>4. QED
  BY <1>1, <1>2, <1>3 DEF HashInv

(* A chunk is fed.                                                         *)
LEMMA UpdateInv ==
  ASSUME HashInv, NEW n \in Chunks, Update(n)
  PROVE  HashInv'
<1>1. PICK chunk : chunk = Given(1, Len(fed), Len(fed) + n)
  OBVIOUS
<1>2. /\ stage = "feeding" /\ stage' = "feeding" /\ UNCHANGED <<use, secret, produced>>
      /\ object' = sb_hmac_sha256_update(object, chunk)
      /\ fed' = fed \o chunk
  BY <1>1 DEF Update, Goes
<1>3. PICK m, o, i : m = fed /\ o = object /\ i = object'
  OBVIOUS
<1>4. String(m) /\ String(chunk)
  <2>1. n \in Nat
    BY HashAssumption
  <2>2. String(m)
    BY <1>3 DEF HashInv, Shapes
  <2>3. Len(m) \in Nat
    BY <2>2 DEF String
  <2>4. Bytes(chunk)
    BY <1>1, <1>3, <2>1, <2>3, GivenBytes
  <2>5. QED
    BY <2>2, <2>4 DEF Bytes
<1>5. fed' = m \o chunk /\ String(m \o chunk)
  BY <1>2, <1>3, <1>4, Concat
<1>6. Shapes'
  BY <1>2, <1>5 DEF HashInv, Shapes
<1>7. HashHolds'
  <2> SUFFICES ASSUME use = "hash" PROVE IsObject(object)' /\ Holds(object.sha, fed)'
    BY <1>2 DEF HashHolds
  <2>1. IsObject(o) /\ Holds(o.sha, m)
    BY <1>2, <1>3 DEF HashInv, HashHolds
  <2>2. PICK s, k, u, w : s = o.sha /\ k = o.key /\ u = o.output /\ w = sb_sha256_update(s, chunk)
    OBVIOUS
  <2>3. o = [sha |-> s, key |-> k, output |-> u]
    BY <2>1, <2>2 DEF IsObject
  <2>4. i = [sha |-> w, key |-> k, output |-> u]
    BY <1>2, <1>3, <2>2, <2>3 DEF sb_hmac_sha256_update
  <2>5. Holds(w, m \o chunk)
    BY <1>4, <2>1, <2>2, UpdateHolds
  <2>6. IsObject(i) /\ i.sha = w
    BY <2>4 DEF IsObject
  <2>7. QED
    BY <1>3, <1>5, <2>5, <2>6
<1>8. MacHolds'
  <2> SUFFICES ASSUME use \in {"hmac", "hkdf"}, Len(secret) < TotalMod
               PROVE  IsObject(object)' /\ Feeds(object, Key0(Salt), fed)'
    BY <1>2 DEF MacHolds
  <2>1. PICK k0 : k0 = Key0(Salt)
    OBVIOUS
  <2>2. IsObject(o) /\ Feeds(o, k0, m)
    BY <1>2, <1>3, <2>1 DEF HashInv, MacHolds
  <2>3. IsKey(k0)
    BY <2>1, SaltIs DEF HashInv
  <2>4. IsObject(i) /\ Feeds(i, k0, m \o chunk)
    BY <1>2, <1>3, <1>4, <2>2, <2>3, UpdateFeeds
  <2>5. Salt' = Salt
    BY <1>2 DEF Salt
  <2>6. QED
    BY <1>3, <1>5, <2>1, <2>4, <2>5
<1>9. KeysHold' /\ HashesFed' /\ DerivesKeys'
  BY <1>2 DEF KeysHold, HashesFed, DerivesKeys
<1>10. QED
  BY <1>6, <1>7, <1>8, <1>9 DEF HashInv

(* A hash is finished, in either way.                                      *)
LEMMA HashFinishInv ==
  ASSUME HashInv, HashFinish
  PROVE  HashInv'
<1> USE DEF HashFinish, Hashing, Goes
<1>1. Shapes'
  BY DEF HashInv, Shapes
<1>2. HashHolds'
  <2>1. PICK s, k, u, z : s = object.sha /\ k = object.key /\ u = object.output /\ z = Nullified
    OBVIOUS
  <2>2. object = [sha |-> s, key |-> k, output |-> u]
    BY <2>1 DEF HashInv, HashHolds, IsObject
  <2>3. object' = [sha |-> z, key |-> k, output |-> u]
    BY <2>1, <2>2
  <2>4. IsObject(object)'
    BY <2>3 DEF IsObject
  <2>5. QED
    BY <2>4 DEF HashHolds
<1>3. HashesFed'
  <2>1. PICK sha, m, p : sha = object.sha /\ m = fed /\ p = sb_sha256_finish(sha)
    OBVIOUS
  <2>2. Holds(sha, m) /\ String(m)
    BY <2>1 DEF HashInv, HashHolds, Shapes
  <2>3. Len(m) < TotalMod => p = RefHash(m)
    BY <2>1, <2>2, FinishHash
  <2>4. produced'.bytes = p
    BY <2>1 DEF Nothing
  <2>5. QED
    BY <2>1, <2>3, <2>4 DEF HashesFed
<1>4. MacHolds' /\ KeysHold' /\ DerivesKeys'
  BY DEF MacHolds, KeysHold, DerivesKeys
<1>5. QED
  BY <1>1, <1>2, <1>3, <1>4 DEF HashInv

(* The same where the hash goes into the buffer.                           *)
LEMMA HashFinishToBufferInv ==
  ASSUME HashInv, HashFinishToBuffer
  PROVE  HashInv'
<1> USE DEF HashFinishToBuffer, Hashing, Goes
<1>1. Shapes'
  BY DEF HashInv, Shapes
<1>2. PICK s, k, u, z : /\ s = object.sha /\ k = object.key /\ u = object.output
                        /\ z = sb_sha256_finish_to_buffer(s)
  OBVIOUS
<1>3. object = [sha |-> s, key |-> k, output |-> u]
  BY <1>2 DEF HashInv, HashHolds, IsObject
<1>4. object' = [sha |-> z, key |-> k, output |-> u]
  BY <1>2, <1>3
<1>5. IsObject(object)' /\ object'.sha = z
  <2>1. PICK o : o = object'
    OBVIOUS
  <2>2. o = [sha |-> z, key |-> k, output |-> u]
    BY <1>4, <2>1
  <2>3. IsObject(o) /\ o.sha = z
    BY <2>2, ObjectOf
  <2>4. QED
    BY <2>1, <2>3
<1>6. HashHolds'
  BY <1>5 DEF HashHolds
<1>7. HashesFed'
  <2>1. PICK m, p : m = fed /\ p = SubSeq(z.buffer, 1, SIZE)
    OBVIOUS
  <2>2. Holds(s, m) /\ String(m)
    BY <1>2, <2>1 DEF HashInv, HashHolds, Shapes
  <2>3. Len(m) < TotalMod => p = RefHash(m)
    BY <1>2, <2>1, <2>2, FinishBuffer
  <2>4. produced'.bytes = p
    BY <1>5, <2>1 DEF Nothing
  <2>5. QED
    BY <2>1, <2>3, <2>4 DEF HashesFed
<1>8. MacHolds' /\ KeysHold' /\ DerivesKeys'
  BY DEF MacHolds, KeysHold, DerivesKeys
<1>9. QED
  BY <1>1, <1>6, <1>7, <1>8 DEF HashInv

(* A key, a salt or key material is given.                                 *)
LEMMA StartInv ==
  ASSUME HashInv, NEW n \in KeySizes, Start(n)
  PROVE  HashInv'
<1>1. PICK given : given = Given(2, 0, n)
  OBVIOUS
<1>2. /\ stage = "fresh" /\ stage' = (IF use = "kdf" THEN "derived" ELSE "feeding")
      /\ use \in {"hmac", "hkdf", "kdf"} /\ secret' = given
      /\ use' = use /\ fed' = fed /\ produced' = produced
  BY <1>1, Zenon DEF Start, Goes
<1>3. /\ use = "hmac" => object' = sb_hmac_sha256_init(object, given)
      /\ use = "hkdf" => object' = sb_hkdf_extract_init(given)
      /\ use = "kdf" => object' = sb_hkdf_kdf_init(given)
  <2>1. object' = CASE use = "hmac" -> sb_hmac_sha256_init(object, given)
                    [] use = "hkdf" -> sb_hkdf_extract_init(given)
                    [] use = "kdf" -> sb_hkdf_kdf_init(given)
    BY <1>1, Zenon DEF Start
  <2>2. QED
    BY <1>2, <2>1
<1>4. object = Cleared /\ fed = <<>> /\ produced = Nothing
  BY <1>2 DEF HashInv, Shapes
<1>5. Bytes(given)
  <2>1. n \in Nat /\ 0 + n = n
    BY HashAssumption
  <2>2. Bytes(Given(2, 0, 0 + n))
    BY <2>1, GivenBytes
  <2>3. QED
    BY <1>1, <2>1, <2>2
<1>6. PICK salt : salt = IF use = "hkdf" /\ given = <<>> THEN Zeros(SIZE) ELSE given
  OBVIOUS
<1>7. Salt' = salt
  BY <1>2, <1>6 DEF Salt
<1>8. Bytes(salt) /\ (Len(given) < TotalMod => Len(salt) < TotalMod)
  BY <1>5, <1>6, SizeFits, ZerosBytes
<1>9. object' = sb_hmac_sha256_init(Cleared, salt)
  <2>1. CASE use = "hmac"
    BY <1>3, <1>4, <1>6, <2>1
  <2>2. CASE use = "hkdf"
    BY <1>3, <1>6, <2>2, ClearedObject DEF sb_hkdf_extract_init
  <2>3. CASE use = "kdf"
    BY <1>3, <1>6, <2>3 DEF sb_hkdf_kdf_init
  <2>4. QED
    BY <1>2, <2>1, <2>2, <2>3
<1>10. Shapes'
  BY <1>2, <1>4, <1>5, Empty DEF Shapes
<1>11. PICK i, k0 : i = object' /\ k0 = Key0(salt)
  OBVIOUS
<1>12. ASSUME Len(given) < TotalMod
       PROVE  IsObject(i) /\ i.output = Zeros(SIZE) /\ Feeds(i, k0, <<>>) /\ IsKey(k0)
  <2>1. /\ IsObject(sb_hmac_sha256_init(Cleared, salt))
        /\ sb_hmac_sha256_init(Cleared, salt).output = Cleared.output
        /\ Feeds(sb_hmac_sha256_init(Cleared, salt), Key0(salt), <<>>)
    BY <1>8, <1>12, ClearedObject, InitFeeds
  <2>2. IsKey(Key0(salt))
    BY <1>8, <1>12, KeyIs
  <2>3. QED
    BY <1>9, <1>11, <2>1, <2>2, ClearedObject
<1>13. MacHolds'
  <2>1. Len(given) < TotalMod => IsObject(object') /\ Feeds(object', Key0(salt), <<>>)
    BY <1>11, <1>12
  <2>2. QED
    BY <1>2, <1>4, <1>7, <2>1 DEF MacHolds
<1>14. KeysHold'
  <2> SUFFICES ASSUME stage' = "derived", Len(given) < TotalMod
               PROVE  Keyed(object', Key0(Prk')) /\ IsKey(Key0(Prk'))
    BY <1>2 DEF KeysHold
  <2>1. use = "kdf"
    BY <1>2
  <2>2. Prk' = salt
    BY <1>2, <1>6, <2>1 DEF Prk
  <2>3. Keyed(i, k0) /\ IsKey(k0)
    BY <1>12, ClearedObject DEF Keyed
  <2>4. QED
    BY <1>11, <2>2, <2>3
<1>15. DerivesKeys'
  BY <1>2, <1>4, NothingDerived, Empty DEF DerivesKeys, Nothing
<1>16. HashHolds' /\ HashesFed'
  BY <1>2 DEF HashHolds, HashesFed
<1>17. QED
  BY <1>10, <1>13, <1>14, <1>15, <1>16 DEF HashInv

(* An HMAC is finished.                                                    *)
LEMMA HmacFinishInv ==
  ASSUME HashInv, HmacFinish
  PROVE  HashInv'
<1>1. PICK end : end = sb_hmac_sha256_finish(object)
  OBVIOUS
<1>2. /\ stage = "feeding" /\ stage' = "done" /\ use = "hmac"
      /\ use' = use /\ secret' = secret /\ fed' = fed
      /\ object' = end[1] /\ produced' = [Nothing EXCEPT !.bytes = end[2]]
  BY <1>1, Zenon DEF HmacFinish, Goes
<1>3. PICK o, m, k0 : o = object /\ m = fed /\ k0 = Key0(Salt)
  OBVIOUS
<1>4. String(m)
  BY <1>3 DEF HashInv, Shapes
<1>5. Salt = secret /\ Salt' = Salt
  BY <1>2 DEF Salt
<1>6. ASSUME Len(secret) < TotalMod
      PROVE  /\ IsObject(end[1]) /\ end[1].key = k0
             /\ BLOCK + Len(m) < TotalMod => end[2] = Hmac0(k0, m)
  <2>1. IsObject(o) /\ Feeds(o, k0, m)
    BY <1>2, <1>3, <1>6 DEF HashInv, MacHolds
  <2>2. IsKey(k0)
    BY <1>3, <1>6, SaltIs DEF HashInv
  <2>3. PICK d : /\ sb_hmac_sha256_finish(o) =
                      <<[sha |-> Nullified, key |-> k0, output |-> o.output], d>>
                 /\ BLOCK + Len(m) < TotalMod => d = Hmac0(k0, m)
    BY <1>4, <2>1, <2>2, FinishMac
  <2>4. PICK z, u, e : /\ z = Nullified /\ u = o.output
                       /\ e = [sha |-> z, key |-> k0, output |-> u]
    OBVIOUS
  <2>5. end = <<e, d>>
    BY <1>1, <1>3, <2>3, <2>4
  <2>6. end[1] = e /\ end[2] = d
    BY <2>5
  <2>7. IsObject(e) /\ e.key = k0
    BY <2>4, ObjectOf
  <2>8. QED
    BY <2>3, <2>6, <2>7
<1>7. Shapes'
  BY <1>2 DEF HashInv, Shapes
<1>8. MacHolds'
  BY <1>2, <1>3, <1>5, <1>6 DEF MacHolds
<1>9. HashesFed'
  <2>1. produced'.bytes = end[2]
    BY <1>2 DEF Nothing
  <2>2. RefHmac(secret, fed) = Hmac0(k0, m)
    BY <1>3, <1>5, Hmac0Is
  <2>3. Len(secret) < TotalMod /\ BLOCK + Len(fed) < TotalMod => produced'.bytes = RefHmac(secret, fed)
    BY <1>3, <1>6, <2>1, <2>2
  <2>4. QED
    BY <1>2, <2>3 DEF HashesFed
<1>10. HashHolds' /\ KeysHold' /\ DerivesKeys'
  BY <1>2 DEF HashHolds, KeysHold, DerivesKeys
<1>11. QED
  BY <1>7, <1>8, <1>9, <1>10 DEF HashInv

(* With the same key another message begins.                               *)
LEMMA HmacReinitInv ==
  ASSUME HashInv, HmacReinit
  PROVE  HashInv'
<1>1. /\ stage = "done" /\ stage' = "feeding" /\ use = "hmac"
      /\ use' = use /\ secret' = secret /\ fed' = <<>> /\ produced' = Nothing
      /\ object' = sb_hmac_sha256_reinit(object)
  BY DEF HmacReinit, Goes
<1>2. PICK o, i, k0 : o = object /\ i = object' /\ k0 = Key0(Salt)
  OBVIOUS
<1>3. Shapes'
  BY <1>1, Empty DEF HashInv, Shapes
<1>4. MacHolds'
  <2> SUFFICES ASSUME Len(secret) < TotalMod
               PROVE  IsObject(object') /\ Feeds(object', Key0(Salt'), <<>>)
    BY <1>1 DEF MacHolds
  <2>1. IsObject(o) /\ o.key = k0
    BY <1>1, <1>2 DEF HashInv, MacHolds
  <2>2. IsKey(k0)
    BY <1>2, SaltIs DEF HashInv
  <2>3. IsKey(o.key)
    BY <2>1, <2>2
  <2>4. IsObject(sb_hmac_sha256_reinit(o)) /\ Feeds(sb_hmac_sha256_reinit(o), o.key, <<>>)
    BY <2>1, <2>3, ReinitFeeds
  <2>5. Salt' = Salt
    BY <1>1 DEF Salt
  <2>6. QED
    BY <1>1, <1>2, <2>1, <2>4, <2>5
<1>5. HashHolds' /\ KeysHold' /\ HashesFed' /\ DerivesKeys'
  BY <1>1 DEF HashHolds, KeysHold, HashesFed, DerivesKeys
<1>6. QED
  BY <1>3, <1>4, <1>5 DEF HashInv

(* An HMAC becomes the key.                                                *)
LEMMA HmacFinishToKeyInv ==
  ASSUME HashInv, HmacFinishToKey
  PROVE  HashInv'
<1>1. /\ stage = "feeding" /\ stage' = "keyed" /\ use = "hmac" /\ Len(secret) = SIZE
      /\ use' = use /\ secret' = secret /\ fed' = fed /\ produced' = produced
      /\ object' = sb_hmac_sha256_finish_to_key(object)
  BY DEF HmacFinishToKey, Goes
<1>2. PICK o, m, key, k0, i : /\ o = object /\ m = fed /\ key = secret
                              /\ k0 = Key0(key) /\ i = object'
  OBVIOUS
<1>3. Salt = key
  BY <1>1, <1>2 DEF Salt
<1>4. String(m) /\ Bytes(key) /\ Len(key) = SIZE
  BY <1>1, <1>2 DEF HashInv, Shapes
<1>5. ASSUME Len(key) < TotalMod, BLOCK + Len(m) < TotalMod
      PROVE  i = sb_hmac_sha256_init(i, RefHmac(key, m))
  <2>1. IsObject(o) /\ Feeds(o, k0, m)
    BY <1>1, <1>2, <1>3, <1>5 DEF HashInv, MacHolds
  <2>2. IsKey(k0)
    BY <1>2, <1>4, <1>5, KeyIs
  <2>3. \A j \in SIZE + 1 .. BLOCK : k0[j] = Byte(0)
    <3>1. Len(key) <= BLOCK /\ ~(Len(key) > BLOCK)
      BY <1>4, SizeFits
    <3>2. k0 = SubSeq(key \o Zeros(BLOCK), 1, BLOCK)
      BY <1>2, <3>1 DEF Key0
    <3>3. LET q == SubSeq(key \o Zeros(BLOCK), 1, BLOCK)
          IN  \A j \in 1 .. BLOCK : q[j] = IF j <= Len(key) THEN key[j] ELSE Byte(0)
      BY <1>4, <3>1, Filled
    <3>4. \A j \in 1 .. BLOCK : k0[j] = IF j <= SIZE THEN key[j] ELSE Byte(0)
      BY <1>4, <3>2, <3>3
    <3>5. \A j \in SIZE + 1 .. BLOCK : j \in 1 .. BLOCK /\ ~(j <= SIZE)
      BY SizeFits
    <3>6. QED
      BY <3>4, <3>5
  <2>4. LET next == Hmac0(k0, m)
            f == sb_hmac_sha256_finish_to_key(o)
        IN  IsObject(f) /\ f = sb_hmac_sha256_init(f, next)
    BY <1>4, <1>5, <2>1, <2>2, <2>3, FinishKey
  <2>5. RefHmac(key, m) = Hmac0(k0, m)
    BY <1>2, Hmac0Is
  <2>6. i = sb_hmac_sha256_finish_to_key(o)
    BY <1>1, <1>2
  <2>7. QED
    BY <2>4, <2>5, <2>6
<1>6. HashesFed'
  <2>1. Len(secret) < TotalMod /\ BLOCK + Len(fed) < TotalMod =>
          object' = sb_hmac_sha256_init(object', RefHmac(secret, fed))
    BY <1>2, <1>5
  <2>2. QED
    BY <1>1, <2>1 DEF HashesFed
<1>7. Shapes'
  BY <1>1 DEF HashInv, Shapes
<1>8. HashHolds' /\ MacHolds' /\ KeysHold' /\ DerivesKeys'
  BY <1>1 DEF HashHolds, MacHolds, KeysHold, DerivesKeys
<1>9. QED
  BY <1>6, <1>7, <1>8 DEF HashInv

(* The pseudo-random key is the HMAC of what was fed, under the salt; the  *)
(* object is an HMAC with it.                                              *)
LEMMA ExtractFinishInv ==
  ASSUME HashInv, ExtractFinish
  PROVE  HashInv'
<1>1. /\ stage = "feeding" /\ stage' = "derived" /\ use = "hkdf"
      /\ use' = use /\ secret' = secret /\ fed' = fed /\ produced' = produced
      /\ object' = sb_hkdf_extract_finish(object)
  BY DEF ExtractFinish, Goes
<1>2. PICK o, m, k0, i : /\ o = object /\ m = fed /\ k0 = Key0(Salt) /\ i = object'
  OBVIOUS
<1>3. produced = Nothing /\ String(m)
  BY <1>1, <1>2 DEF HashInv, Shapes
<1>4. Prk' = RefHmac(Salt, m)
  BY <1>1, <1>2 DEF Prk, Salt
<1>5. PICK prk : prk = RefHmac(Salt, m)
  OBVIOUS
<1>6. ASSUME Len(secret) < TotalMod, BLOCK + Len(m) < TotalMod
      PROVE  Keyed(i, Key0(prk)) /\ IsKey(Key0(prk))
  <2>1. IsObject(o) /\ Feeds(o, k0, m)
    BY <1>1, <1>2, <1>6 DEF HashInv, MacHolds
  <2>2. IsKey(k0)
    BY <1>2, <1>6, SaltIs DEF HashInv
  <2>3. PICK d : /\ sb_hmac_sha256_finish(o) =
                      <<[sha |-> Nullified, key |-> k0, output |-> o.output], d>>
                 /\ Bytes(d) /\ Len(d) = SIZE
                 /\ BLOCK + Len(m) < TotalMod => d = Hmac0(k0, m)
    BY <1>3, <2>1, <2>2, FinishMac
  <2>4. d = prk
    BY <1>2, <1>5, <1>6, <2>3, Hmac0Is
  <2>5. PICK z, u, e, w : /\ z = Nullified /\ u = Zeros(SIZE)
                          /\ e = [sha |-> z, key |-> k0, output |-> o.output]
                          /\ w = [sha |-> z, key |-> k0, output |-> u]
    OBVIOUS
  <2>6. PICK end : end = sb_hmac_sha256_finish(o)
    OBVIOUS
  <2>7. end[1] = e /\ end[2] = d
    <3>1. end = <<e, d>>
      BY <2>3, <2>5, <2>6
    <3>2. QED
      BY <3>1
  <2>8. [e EXCEPT !.output = u] = w
    BY <2>5
  <2>9. i = sb_hmac_sha256_init([end[1] EXCEPT !.output = Zeros(SIZE)], end[2])
    BY <1>1, <1>2, <2>6, Zenon DEF sb_hkdf_extract_finish
  <2>10. i = sb_hmac_sha256_init(w, d)
    BY <2>5, <2>7, <2>8, <2>9, Zenon
  <2>11. IsObject(w) /\ w.output = u
    BY <2>5, ObjectOf
  <2>12. Len(d) < TotalMod
    BY <2>3, SizeFits
  <2>13. /\ IsObject(sb_hmac_sha256_init(w, d))
         /\ sb_hmac_sha256_init(w, d).output = w.output
         /\ Feeds(sb_hmac_sha256_init(w, d), Key0(d), <<>>)
    BY <2>3, <2>11, <2>12, InitFeeds
  <2>14. IsKey(Key0(d))
    BY <2>3, <2>12, KeyIs
  <2>15. String(u)
    BY <2>5, ClearedObject
  <2>16. QED
    BY <2>4, <2>10, <2>11, <2>13, <2>14, <2>15 DEF Keyed
<1>7. Shapes'
  BY <1>1 DEF HashInv, Shapes
<1>8. KeysHold'
  <2>1. Len(secret) < TotalMod /\ BLOCK + Len(fed) < TotalMod =>
          Keyed(object', Key0(Prk')) /\ IsKey(Key0(Prk'))
    BY <1>2, <1>4, <1>5, <1>6
  <2>2. QED
    BY <1>1, <2>1 DEF KeysHold
<1>9. DerivesKeys'
  BY <1>1, <1>3, NothingDerived, Empty DEF DerivesKeys, Nothing
<1>10. HashHolds' /\ MacHolds' /\ HashesFed'
  BY <1>1 DEF HashHolds, MacHolds, HashesFed
<1>11. QED
  BY <1>7, <1>8, <1>9, <1>10 DEF HashInv

(* Keys are derived, with the object as it was before the last ones.       *)
LEMMA ExpandInv ==
  ASSUME HashInv, NEW n \in KeySizes, NEW length \in Outputs, Expand(n, length)
  PROVE  HashInv'
<1>1. PICK info, end : /\ info = Given(3, 0, n)
                       /\ end = sb_hkdf_expand(object, info, length)
  OBVIOUS
<1>2. /\ stage = "derived" /\ stage' = "derived"
      /\ use' = use /\ secret' = secret /\ fed' = fed
      /\ object' = end[1] /\ produced' = [bytes |-> end[2], info |-> info]
  BY <1>1, Zenon DEF Expand, Goes
<1>3. n \in Nat /\ length \in Nat
  BY HashAssumption
<1>4. String(info)
  <2>1. 0 + n = n
    BY <1>3
  <2>2. Bytes(Given(3, 0, 0 + n))
    BY <1>3, GivenBytes
  <2>3. QED
    BY <1>1, <2>1, <2>2 DEF Bytes
<1>5. PICK o, prk, i : o = object /\ prk = Prk /\ i = object'
  OBVIOUS
<1>6. Prk' = prk
  BY <1>2, <1>5 DEF Prk
<1>7. ASSUME Len(secret) < TotalMod, BLOCK + Len(fed) < TotalMod
      PROVE  /\ Keyed(i, Key0(prk)) /\ IsKey(Key0(prk)) /\ Len(end[2]) = length
             /\ BLOCK + SIZE + Len(info) + 1 < TotalMod /\ length <= (IterMod - 1) * SIZE =>
                  end[2] = RefExpand(prk, info, length)
  <2>1. Keyed(o, Key0(prk)) /\ IsKey(Key0(prk))
    BY <1>2, <1>5, <1>7 DEF HashInv, KeysHold
  <2>2. LET e == sb_hkdf_expand(o, info, length)
        IN  /\ Keyed(e[1], Key0(prk)) /\ Len(e[2]) = length
            /\ BLOCK + SIZE + Len(info) + 1 < TotalMod /\ length <= (IterMod - 1) * SIZE =>
                 e[2] = RefExpand(prk, info, length)
    BY <1>3, <1>4, <2>1, ExpandHolds
  <2>3. end = sb_hkdf_expand(o, info, length) /\ i = end[1]
    BY <1>1, <1>2, <1>5
  <2>4. QED
    BY <2>1, <2>2, <2>3
<1>8. Shapes'
  BY <1>2 DEF HashInv, Shapes
<1>9. KeysHold'
  <2>1. Len(secret) < TotalMod /\ BLOCK + Len(fed) < TotalMod =>
          Keyed(object', Key0(Prk')) /\ IsKey(Key0(Prk'))
    BY <1>5, <1>6, <1>7
  <2>2. QED
    BY <1>2, <2>1 DEF KeysHold
<1>10. DerivesKeys'
  <2>1. PICK p, made : p = produced' /\ made = end[2]
    OBVIOUS
  <2>2. p = [bytes |-> made, info |-> info]
    BY <1>2, <2>1
  <2>3. p.bytes = made /\ p.info = info
    BY <2>2
  <2> SUFFICES ASSUME Len(secret) < TotalMod, BLOCK + Len(fed) < TotalMod,
                      BLOCK + SIZE + Len(info) + 1 < TotalMod,
                      Len(made) <= (IterMod - 1) * SIZE
               PROVE  made = RefExpand(prk, info, Len(made))
    BY <1>2, <1>6, <2>1, <2>3 DEF DerivesKeys
  <2>4. Len(made) = length
    BY <1>7, <2>1
  <2>5. length <= (IterMod - 1) * SIZE
    BY <2>4
  <2>6. QED
    BY <1>7, <2>1, <2>4, <2>5
<1>11. HashHolds' /\ MacHolds' /\ HashesFed'
  <2>1. use \in {"hkdf", "kdf"}
    BY <1>2 DEF HashInv, Shapes
  <2>2. QED
    BY <1>2, <2>1 DEF HashHolds, MacHolds, HashesFed
<1>12. QED
  BY <1>8, <1>9, <1>10, <1>11 DEF HashInv

(* The invariant holds in every state. *)
LEMMA HashInductive == Spec => []HashInv
<1>1. HashInv /\ [Next]_vars => HashInv'
  <2> SUFFICES ASSUME HashInv, [Next]_vars PROVE HashInv'
    OBVIOUS
  <2>1. CASE HashInit
    BY <2>1, HashInitInv
  <2>2. CASE HashFinish
    BY <2>2, HashFinishInv
  <2>3. CASE HashFinishToBuffer
    BY <2>3, HashFinishToBufferInv
  <2>4. CASE \E n \in Chunks : Update(n)
    BY <2>4, UpdateInv
  <2>5. CASE \E n \in KeySizes : Start(n)
    BY <2>5, StartInv
  <2>6. CASE HmacFinish
    BY <2>6, HmacFinishInv
  <2>7. CASE HmacReinit
    BY <2>7, HmacReinitInv
  <2>8. CASE HmacFinishToKey
    BY <2>8, HmacFinishToKeyInv
  <2>9. CASE ExtractFinish
    BY <2>9, ExtractFinishInv
  <2>10. CASE \E n \in KeySizes, length \in Outputs : Expand(n, length)
    BY <2>10, ExpandInv
  <2>11. CASE UNCHANGED vars
    BY <2>11 DEF vars, HashInv, Shapes, HashHolds, MacHolds, KeysHold, HashesFed, DerivesKeys,
                 Salt, Prk
  <2>12. QED
    BY <2>1, <2>2, <2>3, <2>4, <2>5, <2>6, <2>7, <2>8, <2>9, <2>10, <2>11 DEF Next
<1>2. QED
  BY InitInv, <1>1, PTL DEF Spec

(* Of a message of any length, cut into pieces of any sizes, the hash and  *)
(* the HMAC are those of the whole message in one piece, and a key made of *)
(* the HMAC is the one an HMAC would be initialized with: sb_sha256_update *)
(* and the functions that finish, whatever an object was used for before.  *)
THEOREM HashIsOfWhole == Spec => []HashesFed
<1>1. HashInv => HashesFed
  BY DEF HashInv
<1>2. QED
  BY HashInductive, <1>1, PTL

(* sb_hkdf_expand makes the key material of RFC 5869, of any length the    *)
(* counter reaches, however often it was called before.                    *)
THEOREM KeysAreDerived == Spec => []DerivesKeys
<1>1. HashInv => DerivesKeys
  BY DEF HashInv
<1>2. QED
  BY HashInductive, <1>1, PTL

--------------------------------------------------------------------------------
(* The compression function.                                               *)

(* After t rounds the windows are where the code's indices look for them.  *)
Follows(s, d, t) ==
  /\ DOMAIN s.W = 0 .. 15 /\ DOMAIN s.a_h = 0 .. 7 /\ String(d.W) /\ Len(d.W) = t
  /\ \A i \in 0 .. 7 : s.a_h[(i + 64 - t) % 8] = d.variables[i + 1]
  /\ \A i \in 1 .. t : i > t - 16 => s.W[(i - 1) % 16] = d.W[i]

(* What the standard makes in round r, in its own names: the next word of  *)
(* the schedule, T1 and T2. *)
NextWord(d, r, M) ==
  IF r <= 16 THEN M[r]
  ELSE Plus(Plus(SSIG1(d.W[r - 2]), d.W[r - 7]), Plus(SSIG0(d.W[r - 15]), d.W[r - 16]))
First(v, t, word) ==
  Plus(Plus(Plus(v[8], BSIG1(v[5])), CH(v[5], v[6], v[7])), Plus(K[t + 1], word))
Second(v) == Plus(BSIG0(v[1]), MAJ(v[1], v[2], v[3]))

(* The next word of the schedule is the same, *)
LEMMA SameWord ==
  ASSUME NEW s, NEW d, NEW t \in 0 .. 63, Follows(s, d, t), NEW M
  PROVE  (IF t < 16 THEN M[t + 1]
          ELSE Plus(Plus(SSIG1(s.W[(16 - 2 + t) % 16]), s.W[(16 - 7 + t) % 16]),
                    Plus(SSIG0(s.W[(16 - 15 + t) % 16]), s.W[(16 - 16 + t) % 16])))
         = (IF t + 1 <= 16 THEN M[t + 1]
            ELSE Plus(Plus(SSIG1(d.W[t + 1 - 2]), d.W[t + 1 - 7]),
                      Plus(SSIG0(d.W[t + 1 - 15]), d.W[t + 1 - 16])))
<1>1. CASE t < 16
  <2>1. t + 1 <= 16
    BY <1>1
  <2>2. QED
    BY <1>1, <2>1, Zenon
<1>2. CASE ~(t < 16)
  <2>1. ~(t + 1 <= 16)
    BY <1>2
  <2>2. ASSUME NEW j \in 1 .. 16 PROVE s.W[(16 - j + t) % 16] = d.W[t + 1 - j]
    <3>1. PICK i : i = t + 1 - j
      OBVIOUS
    <3>2. i \in 1 .. t /\ i > t - 16
      BY <1>2, <3>1
    <3>3. (i - 1) % 16 = (16 - j + t) % 16
      BY <3>1, <3>2
    <3>4. s.W[(i - 1) % 16] = d.W[i]
      BY <3>2 DEF Follows
    <3>5. QED
      BY <3>1, <3>3, <3>4
  <2>3. /\ s.W[(16 - 2 + t) % 16] = d.W[t + 1 - 2] /\ s.W[(16 - 7 + t) % 16] = d.W[t + 1 - 7]
        /\ s.W[(16 - 15 + t) % 16] = d.W[t + 1 - 15] /\ s.W[(16 - 16 + t) % 16] = d.W[t + 1 - 16]
    BY <2>2
  <2>4. QED
    BY <1>2, <2>1, <2>3, Zenon
<1>3. QED
  BY <1>1, <1>2

(* and what is written over the oldest words is what moves on. *)
LEMMA RoundFollows ==
  ASSUME NEW s, NEW d, NEW t \in 0 .. 63, Follows(s, d, t), NEW M
  PROVE  Follows(Round(s, t, M), RefRound(d, t + 1, M), t + 1)
<1> DEFINE A(i) == (i + 64 - t) % 8
<1>1. PICK W, a, S, v : W = s.W /\ a = s.a_h /\ S = d.W /\ v = d.variables
  OBVIOUS
<1>2. /\ DOMAIN W = 0 .. 15 /\ DOMAIN a = 0 .. 7 /\ String(S) /\ Len(S) = t
      /\ \A i \in 0 .. 7 : a[A(i)] = v[i + 1]
      /\ \A i \in 1 .. t : i > t - 16 => W[(i - 1) % 16] = S[i]
  BY <1>1 DEF Follows
<1>3. PICK word : word = IF t + 1 <= 16 THEN M[t + 1]
                         ELSE Plus(Plus(SSIG1(S[t + 1 - 2]), S[t + 1 - 7]),
                                   Plus(SSIG0(S[t + 1 - 15]), S[t + 1 - 16]))
  OBVIOUS
<1>4. word = IF t < 16 THEN M[t + 1]
             ELSE Plus(Plus(SSIG1(W[(16 - 2 + t) % 16]), W[(16 - 7 + t) % 16]),
                       Plus(SSIG0(W[(16 - 15 + t) % 16]), W[(16 - 16 + t) % 16]))
  BY <1>1, <1>3, SameWord
<1>5. PICK t1, t2 :
        /\ t1 = Plus(Plus(Plus(v[8], BSIG1(v[5])), CH(v[5], v[6], v[7])), Plus(K[t + 1], word))
        /\ t2 = Plus(BSIG0(v[1]), MAJ(v[1], v[2], v[3]))
  OBVIOUS
<1>6. PICK n, e : n = Round(s, t, M) /\ e = RefRound(d, t + 1, M)
  OBVIOUS
<1>7. e = [W |-> Append(S, word),
           variables |-> <<Plus(t1, t2), v[1], v[2], v[3], Plus(v[4], t1), v[5], v[6], v[7]>>]
  <2>1. e = [W |-> Append(d.W, NextWord(d, t + 1, M)),
             variables |-> <<Plus(First(d.variables, t, NextWord(d, t + 1, M)), Second(d.variables)),
                             d.variables[1], d.variables[2], d.variables[3],
                             Plus(d.variables[4], First(d.variables, t, NextWord(d, t + 1, M))),
                             d.variables[5], d.variables[6], d.variables[7]>>]
    BY <1>6, Zenon DEF RefRound, NextWord, First, Second
  <2>2. word = NextWord(d, t + 1, M)
    <3>1. NextWord(d, t + 1, M) =
            IF t + 1 <= 16 THEN M[t + 1]
            ELSE Plus(Plus(SSIG1(d.W[t + 1 - 2]), d.W[t + 1 - 7]),
                      Plus(SSIG0(d.W[t + 1 - 15]), d.W[t + 1 - 16]))
      BY DEF NextWord
    <3>2. QED
      BY <1>1, <1>3, <3>1
  <2>3. t1 = First(v, t, word) /\ t2 = Second(v)
    BY <1>5, Zenon DEF First, Second
  <2>4. QED
    BY <1>1, <2>1, <2>2, <2>3, Zenon
<1>8. n = [W |-> [W EXCEPT ![t % 16] = word],
           a_h |-> [a EXCEPT ![A(3)] = Plus(@, t1), ![A(7)] = Plus(t1, t2)]]
  <2>1. PICK u1, u2 :
          /\ u1 = Plus(Plus(Plus(a[A(7)], BSIG1(a[A(4)])), CH(a[A(4)], a[A(5)], a[A(6)])),
                       Plus(K[t + 1], word))
          /\ u2 = Plus(BSIG0(a[A(0)]), MAJ(a[A(0)], a[A(1)], a[A(2)]))
    OBVIOUS
  <2>2. n = [W |-> [W EXCEPT ![t % 16] = word],
             a_h |-> [a EXCEPT ![A(3)] = Plus(@, u1), ![A(7)] = Plus(u1, u2)]]
    <3>1. PICK m : m = IF t < 16 THEN M[t + 1]
                       ELSE Plus(Plus(SSIG1(s.W[(16 - 2 + t) % 16]), s.W[(16 - 7 + t) % 16]),
                                 Plus(SSIG0(s.W[(16 - 15 + t) % 16]), s.W[(16 - 16 + t) % 16]))
      OBVIOUS
    <3>2. m = word
      BY <1>1, <1>4, <3>1, Zenon
    <3>3. PICK q1, q2 :
            /\ q1 = Plus(Plus(Plus(s.a_h[A(7)], BSIG1(s.a_h[A(4)])),
                              CH(s.a_h[A(4)], s.a_h[A(5)], s.a_h[A(6)])), Plus(K[t + 1], m))
            /\ q2 = Plus(BSIG0(s.a_h[A(0)]), MAJ(s.a_h[A(0)], s.a_h[A(1)], s.a_h[A(2)]))
      OBVIOUS
    <3>4. n = [W |-> [s.W EXCEPT ![t % 16] = m],
               a_h |-> [s.a_h EXCEPT ![A(3)] = Plus(@, q1), ![A(7)] = Plus(q1, q2)]]
      BY <1>6, <3>1, <3>3, ZenonT(60) DEF Round
    <3>5. q1 = u1 /\ q2 = u2
      BY <1>1, <2>1, <3>2, <3>3, Zenon
    <3>6. QED
      BY <1>1, <3>2, <3>4, <3>5, Zenon
  <2> HIDE DEF A
  <2>3. /\ a[A(0)] = v[1] /\ a[A(1)] = v[2] /\ a[A(2)] = v[3] /\ a[A(4)] = v[5]
        /\ a[A(5)] = v[6] /\ a[A(6)] = v[7] /\ a[A(7)] = v[8]
    BY <1>2
  <2>4. u1 = t1 /\ u2 = t2
    BY <1>5, <2>1, <2>3
  <2>5. QED
    BY <2>2, <2>4
<1>9. PICK b, V : /\ b = [a EXCEPT ![A(3)] = Plus(@, t1), ![A(7)] = Plus(t1, t2)]
                  /\ V = [W EXCEPT ![t % 16] = word]
  OBVIOUS
<1>10. n.W = V /\ n.a_h = b
  BY <1>8, <1>9
<1>11. /\ DOMAIN b = 0 .. 7
       /\ \A k \in 0 .. 7 : b[k] = IF k = A(7) THEN Plus(t1, t2)
                                   ELSE IF k = A(3) THEN Plus(a[k], t1) ELSE a[k]
  <2> DEFINE f == [a EXCEPT ![A(3)] = Plus(@, t1)]
  <2>1. A(3) \in 0 .. 7 /\ A(7) \in 0 .. 7
    OBVIOUS
  <2> HIDE DEF A
  <2>2. DOMAIN f = 0 .. 7 /\ \A k \in 0 .. 7 : f[k] = IF k = A(3) THEN Plus(a[k], t1) ELSE a[k]
    BY <1>2, <2>1
  <2>3. b = [f EXCEPT ![A(7)] = Plus(t1, t2)]
    BY <1>9
  <2> HIDE DEF f
  <2>4. QED
    BY <2>1, <2>2, <2>3
<1>12. DOMAIN V = 0 .. 15 /\ \A k \in 0 .. 15 : V[k] = IF k = t % 16 THEN word ELSE W[k]
  BY <1>2, <1>9
<1>13. /\ String(e.W) /\ Len(e.W) = t + 1
       /\ \A i \in 1 .. t + 1 : e.W[i] = IF i <= t THEN S[i] ELSE word
  <2>1. e.W = Append(S, word)
    BY <1>7
  <2>2. /\ String(Append(S, word)) /\ Len(Append(S, word)) = Len(S) + 1
        /\ \A i \in 1 .. Len(S) + 1 : Append(S, word)[i] = IF i <= Len(S) THEN S[i] ELSE word
    BY <1>2, Add
  <2>3. QED
    BY <1>2, <2>1, <2>2
<1>14. ASSUME NEW i \in 1 .. t + 1, i > (t + 1) - 16 PROVE V[(i - 1) % 16] = e.W[i]
  <2>1. CASE i = t + 1
    <3>1. (i - 1) % 16 = t % 16 /\ t % 16 \in 0 .. 15 /\ ~(i <= t)
      BY <2>1
    <3>2. QED
      BY <1>12, <1>13, <3>1
  <2>2. CASE i # t + 1
    <3>1. i \in 1 .. t /\ i > t - 16 /\ i <= t
      BY <1>14, <2>2
    <3>2. PICK k : k = (i - 1) % 16
      OBVIOUS
    <3>3. k \in 0 .. 15 /\ k # t % 16
      BY <1>14, <3>1, <3>2
    <3>4. W[k] = S[i]
      BY <1>2, <3>1, <3>2
    <3>5. V[k] = W[k] /\ e.W[i] = S[i]
      BY <1>12, <1>13, <3>1, <3>3
    <3>6. QED
      BY <3>2, <3>4, <3>5
  <2>3. QED
    BY <2>1, <2>2
<1>15. ASSUME NEW i \in 0 .. 7 PROVE b[(i + 64 - (t + 1)) % 8] = e.variables[i + 1]
  <2>1. e.variables = <<Plus(t1, t2), v[1], v[2], v[3], Plus(v[4], t1), v[5], v[6], v[7]>>
    BY <1>7
  <2>2. PICK k : k = (i + 64 - (t + 1)) % 8
    OBVIOUS
  <2>3. k \in 0 .. 7
    BY <2>2
  <2>4. CASE i = 0
    <3>1. k = A(7)
      BY <2>2, <2>4
    <3>2. b[k] = Plus(t1, t2)
      BY <1>11, <2>3, <3>1
    <3>3. QED
      BY <2>1, <2>2, <2>4, <3>2
  <2>5. CASE i = 4
    <3>1. k = A(3) /\ k # A(7)
      BY <2>2, <2>5
    <3>2. a[A(3)] = v[4]
      <4> HIDE DEF A
      <4>1. QED
        BY <1>2
    <3>3. b[k] = Plus(v[4], t1)
      <4> HIDE DEF A
      <4>1. QED
        BY <1>11, <2>3, <3>1, <3>2
    <3>4. QED
      BY <2>1, <2>2, <2>5, <3>3
  <2>6. CASE i # 0 /\ i # 4
    <3>1. PICK j \in 0 .. 7 : i = j + 1
      <4>1. i - 1 \in 0 .. 7 /\ i = (i - 1) + 1
        BY <2>6
      <4>2. QED
        BY <4>1
    <3>2. k = A(j) /\ k # A(3) /\ k # A(7)
      BY <2>2, <2>6, <3>1
    <3>3. b[k] = v[j + 1]
      <4> HIDE DEF A
      <4>1. a[A(j)] = v[j + 1]
        BY <1>2
      <4>2. QED
        BY <1>11, <2>3, <3>2, <4>1
    <3>4. e.variables[i + 1] = v[i]
      <4>1. i \in {1, 2, 3, 5, 6, 7}
        BY <2>6
      <4>2. QED
        BY <2>1, <4>1
    <3>5. QED
      BY <2>2, <3>1, <3>3, <3>4
  <2>7. QED
    BY <2>4, <2>5, <2>6
<1>16. QED
  BY <1>6, <1>10, <1>11, <1>12, <1>13, <1>14, <1>15 DEF Follows

(* What every round leaves.  After the last addition the variables are the *)
(* new intermediate hash, and the words are where they were.               *)
CompressionInv ==
  /\ rounds \in 0 .. 65
  /\ standard = [W |-> standard.W, variables |-> standard.variables]
  /\ rounds <= 64 => Follows(working, standard, rounds)
  /\ rounds = 65 =>
       /\ \A i \in 1 .. Len(standard.W) :
            i > Len(standard.W) - 16 => working.W[(i - 1) % 16] = standard.W[i]
       /\ ihash = standard.variables

LEMMA CompressionStarts == CompressionInit => CompressionInv
<1> SUFFICES ASSUME CompressionInit PROVE CompressionInv
  OBVIOUS
<1>1. PICK s, d : s = working /\ d = standard
  OBVIOUS
<1>2. /\ rounds = 0 /\ s = [W |-> [i \in 0 .. 15 |-> 0], a_h |-> [i \in 0 .. 7 |-> ihash[i + 1]]]
      /\ d = [W |-> <<>>, variables |-> ihash]
  BY <1>1 DEF CompressionInit
<1>3. s.W = [i \in 0 .. 15 |-> 0] /\ s.a_h = [i \in 0 .. 7 |-> ihash[i + 1]]
      /\ d.W = <<>> /\ d.variables = ihash
  BY <1>2
<1>4. String(d.W) /\ Len(d.W) = 0
  BY <1>3 DEF String
<1>5. ASSUME NEW i \in 0 .. 7 PROVE s.a_h[(i + 64 - 0) % 8] = d.variables[i + 1]
  <2>1. (i + 64 - 0) % 8 = i
    OBVIOUS
  <2>2. s.a_h[i] = d.variables[i + 1]
    BY <1>3
  <2>3. QED
    BY <2>1, <2>2
<1>6. Follows(s, d, 0)
  BY <1>3, <1>4, <1>5 DEF Follows
<1>7. d = [W |-> d.W, variables |-> d.variables]
  BY <1>2, <1>3
<1>8. QED
  BY <1>1, <1>2, <1>6, <1>7 DEF CompressionInv

LEMMA CompressionStep == CompressionInv /\ [CompressionNext]_compression => CompressionInv'
<1> SUFFICES ASSUME CompressionInv, [CompressionNext]_compression PROVE CompressionInv'
  OBVIOUS
<1>1. PICK s, d, t : s = working /\ d = standard /\ t = rounds
  OBVIOUS
<1>2. PICK u, e : u = working' /\ e = standard'
  OBVIOUS
<1>3. /\ t \in 0 .. 65 /\ d = [W |-> d.W, variables |-> d.variables]
      /\ t <= 64 => Follows(s, d, t)
  BY <1>1 DEF CompressionInv
<1>4. CASE CompressRound
  <2>1. PICK M : M = block
    OBVIOUS
  <2>2. t < 64 /\ rounds' = t + 1 /\ u = Round(s, t, M) /\ e = RefRound(d, t + 1, M)
    BY <1>1, <1>2, <1>4, <2>1, Zenon DEF CompressRound
  <2>3. t \in 0 .. 63 /\ Follows(s, d, t)
    BY <1>3, <2>2
  <2>4. Follows(u, e, t + 1)
    BY <2>2, <2>3, RoundFollows
  <2>5. e = [W |-> e.W, variables |-> e.variables]
    <3>1. PICK w, v : e = [W |-> w, variables |-> v]
      BY <2>2, Zenon DEF RefRound
    <3>2. QED
      BY <3>1
  <2>6. rounds' \in 0 .. 64
    BY <2>2, <2>3
  <2>7. PICK n : n = rounds'
    OBVIOUS
  <2>8. n \in 0 .. 65 /\ n # 65 /\ Follows(u, e, n)
    BY <2>2, <2>4, <2>6, <2>7
  <2>9. QED
    BY <1>2, <2>5, <2>7, <2>8 DEF CompressionInv
<1>5. CASE AddUp
  <2>1. PICK h : h = ihash
    OBVIOUS
  <2>2. /\ t = 64 /\ rounds' = 65 /\ u = s
        /\ ihash' = [i \in 1 .. 8 |-> Plus(h[i], [j \in 1 .. 8 |-> s.a_h[j - 1]][i])]
        /\ e = [d EXCEPT !.variables = [i \in 1 .. 8 |-> Plus(h[i], @[i])]]
    BY <1>1, <1>2, <1>5, <2>1 DEF AddUp
  <2>3. Follows(s, d, 64)
    BY <1>3, <2>2
  <2>4. \A i \in 1 .. 8 : [j \in 1 .. 8 |-> s.a_h[j - 1]][i] = d.variables[i]
    <3> SUFFICES ASSUME NEW i \in 1 .. 8
                 PROVE  [j \in 1 .. 8 |-> s.a_h[j - 1]][i] = d.variables[i]
      OBVIOUS
    <3>1. PICK j \in 0 .. 7 : i = j + 1
      <4>1. i - 1 \in 0 .. 7 /\ i = (i - 1) + 1
        OBVIOUS
      <4>2. QED
        BY <4>1
    <3>2. s.a_h[(j + 64 - 64) % 8] = d.variables[j + 1]
      BY <2>3 DEF Follows
    <3>3. (j + 64 - 64) % 8 = i - 1
      BY <3>1
    <3>4. QED
      BY <3>1, <3>2, <3>3
  <2>5. e.W = d.W /\ e.variables = [i \in 1 .. 8 |-> Plus(h[i], d.variables[i])]
        /\ e = [W |-> e.W, variables |-> e.variables]
    BY <1>3, <2>2
  <2>6. ihash' = e.variables
    BY <2>2, <2>4, <2>5
  <2>7. \A i \in 1 .. Len(e.W) : i > Len(e.W) - 16 => u.W[(i - 1) % 16] = e.W[i]
    BY <2>2, <2>3, <2>5 DEF Follows
  <2>8. QED
    BY <1>2, <2>2, <2>5, <2>6, <2>7 DEF CompressionInv
<1>6. CASE UNCHANGED compression
  <2>1. u = s /\ e = d /\ rounds' = rounds /\ ihash' = ihash
    BY <1>1, <1>2, <1>6 DEF compression
  <2>2. QED
    BY <1>1, <1>2, <2>1 DEF CompressionInv
<1>7. QED
  BY <1>4, <1>5, <1>6 DEF CompressionNext

LEMMA CompressionInductive == CompressionSpec => []CompressionInv
<1>1. QED
  BY CompressionStarts, CompressionStep, PTL DEF CompressionSpec

(* CompressionFollowsStandard: sb_sha256_process_block turns the schedule  *)
(* and the variables by an index where the standard moves them, for every  *)
(* block, whatever the constants, the width of a word and the operators on *)
(* its bits.                                                               *)
THEOREM CompressionIsStandard == CompressionSpec => []CompressionFollowsStandard
<1>1. CompressionInv => CompressionFollowsStandard
  <2> SUFFICES ASSUME CompressionInv PROVE CompressionFollowsStandard
    OBVIOUS
  <2>1. PICK s, d, t : s = working /\ d = standard /\ t = rounds
    OBVIOUS
  <2>2. t \in 0 .. 65 /\ (t <= 64 => Follows(s, d, t))
    BY <2>1 DEF CompressionInv
  <2>3. ASSUME t <= 64
        PROVE  /\ \A i \in 0 .. 7 : s.a_h[(i + 64 - t) % 8] = d.variables[i + 1]
               /\ \A i \in 1 .. Len(d.W) : i > Len(d.W) - 16 => s.W[(i - 1) % 16] = d.W[i]
    BY <2>2, <2>3 DEF Follows
  <2>4. CASE t <= 64
    <3>1. t # 65
      BY <2>2, <2>4
    <3>2. QED
      BY <2>1, <2>3, <2>4, <3>1 DEF CompressionFollowsStandard
  <2>5. CASE t = 65
    BY <2>1, <2>5 DEF CompressionInv, CompressionFollowsStandard
  <2>6. QED
    BY <2>2, <2>4, <2>5
<1>2. QED
  BY <1>1, CompressionInductive, PTL
--------------------------------------------------------------------------------
(* Field elements.  First recursion: a function that a loop's step defines *)
(* exists.                                                                 *)

(* A function of the numbers, from what it is of zero and from a number to *)
(* the next. *)
Steps(step, S) == step \in [Nat -> [S -> S]]
Iterates(t, s, step, S) ==
  t \in [Nat -> S] /\ t[0] = s /\ \A i \in Nat : t[i + 1] = step[i][t[i]]

LEMMA Recursion ==
  ASSUME NEW S, NEW s, NEW step, s \in S, Steps(step, S)
  PROVE  \E t : Iterates(t, s, step, S)
<1> USE DEF Steps
<1> DEFINE Begins(n, t) == /\ t \in [0 .. n -> S] /\ t[0] = s
                           /\ \A i \in 0 .. n - 1 : t[i + 1] = step[i][t[i]]
           Begun == {n \in Nat : \E t : Begins(n, t)}
<1>1. 0 \in Begun
  <2>1. Begins(0, [i \in 0 .. 0 |-> s])
    OBVIOUS
  <2>2. QED
    BY <2>1
<1>2. ASSUME NEW n \in Nat, n \in Begun PROVE n + 1 \in Begun
  <2>1. PICK t : Begins(n, t)
    BY <1>2
  <2>2. PICK last \in S : last = step[n][t[n]]
    BY <2>1
  <2> DEFINE u == [i \in 0 .. n + 1 |-> IF i <= n THEN t[i] ELSE last]
  <2>3. u \in [0 .. n + 1 -> S]
    BY <2>1
  <2>4. u[0] = s
    BY <2>1
  <2>5. ASSUME NEW i \in 0 .. n PROVE u[i + 1] = step[i][u[i]]
    <3>1. u[i] = t[i] /\ i + 1 \in 0 .. n + 1
      OBVIOUS
    <3>2. CASE i = n
      <4>1. u[i + 1] = last
        BY <3>2
      <4>2. QED
        BY <2>2, <3>1, <3>2, <4>1
    <3>3. CASE i # n
      <4>1. u[i + 1] = t[i + 1] /\ i \in 0 .. n - 1
        BY <3>3
      <4>2. t[i + 1] = step[i][t[i]]
        BY <2>1, <4>1
      <4>3. QED
        BY <3>1, <4>1, <4>2
    <3>4. QED
      BY <3>2, <3>3
  <2>6. Begins(n + 1, u)
    <3>1. (n + 1) - 1 = n
      OBVIOUS
    <3> HIDE DEF u
    <3>2. QED
      BY <2>3, <2>4, <2>5, <3>1
  <2> HIDE DEF u, Begins
  <2>7. QED
    BY <2>6
<1>3. \A n \in Nat : \E t : Begins(n, t)
  <2> HIDE DEF Begun
  <2>1. Nat \subseteq Begun
    BY <1>1, <1>2, Induction
  <2>2. QED
    BY <2>1 DEF Begun
<1> HIDE DEF Begun
<1>4. ASSUME NEW m \in Nat, NEW n \in Nat, NEW t, NEW u,
             Begins(m, t), Begins(n, u)
      PROVE  \A i \in Nat : i <= m /\ i <= n => t[i] = u[i]
  <2> DEFINE L == {i \in Nat : i <= m /\ i <= n => t[i] = u[i]}
  <2>1. 0 \in L
    BY <1>4
  <2>2. ASSUME NEW i \in Nat, i \in L PROVE i + 1 \in L
    <3> SUFFICES ASSUME i + 1 <= m, i + 1 <= n PROVE t[i + 1] = u[i + 1]
      OBVIOUS
    <3>1. i \in 0 .. m - 1 /\ i \in 0 .. n - 1 /\ t[i] = u[i]
      BY <2>2
    <3>2. QED
      BY <1>4, <3>1
  <2> HIDE DEF L
  <2>3. Nat \subseteq L
    BY <2>1, <2>2, Induction
  <2>4. QED
    BY <2>3 DEF L
<1> DEFINE T(n) == CHOOSE t : Begins(n, t)
           all == [n \in Nat |-> T(n)[n]]
<1> HIDE DEF Begins
<1>5. \A n \in Nat : Begins(n, T(n))
  BY <1>3
<1> HIDE DEF T
<1>6. all \in [Nat -> S]
  <2>1. ASSUME NEW n \in Nat PROVE T(n)[n] \in S
    <3>1. T(n) \in [0 .. n -> S] /\ n \in 0 .. n
      BY <1>5 DEF Begins
    <3>2. QED
      BY <3>1
  <2>2. QED
    BY <2>1
<1>7. all[0] = s
  BY <1>5 DEF Begins
<1>8. ASSUME NEW n \in Nat PROVE all[n + 1] = step[n][all[n]]
  <2>1. PICK t, u : t = T(n) /\ u = T(n + 1)
    OBVIOUS
  <2>2. Begins(n, t) /\ Begins(n + 1, u) /\ n + 1 \in Nat
    BY <1>5, <2>1
  <2>3. t[n] = u[n]
    BY <1>4, <2>2
  <2>4. u[n + 1] = step[n][u[n]]
    <3>1. n \in 0 .. (n + 1) - 1 /\ n \in Nat
      OBVIOUS
    <3>2. \A i \in 0 .. (n + 1) - 1 : u[i + 1] = step[i][u[i]]
      BY <2>2, Zenon DEF Begins
    <3>3. QED
      BY <3>1, <3>2, Zenon
  <2>5. all[n] = t[n] /\ all[n + 1] = u[n + 1]
    BY <2>1
  <2>6. QED
    BY <2>3, <2>4, <2>5
<1> HIDE DEF all
<1>9. QED
  BY <1>6, <1>7, <1>8 DEF Iterates

(* The same up to a number, as the recursive definitions have it.          *)
UpTo(n, t, s, step, S) ==
  /\ t \in [0 .. n -> S]
  /\ t = [i \in 0 .. n |-> IF i = 0 THEN s ELSE step[i - 1][t[i - 1]]]
LEMMA RecursionTo ==
  ASSUME NEW S, NEW s, NEW step, s \in S, Steps(step, S), NEW n \in Nat
  PROVE  \E t : UpTo(n, t, s, step, S)
<1>1. PICK u : Iterates(u, s, step, S)
  BY Recursion
<1> USE DEF Iterates, Steps
<1> DEFINE t == [i \in 0 .. n |-> u[i]]
<1>2. t \in [0 .. n -> S]
  BY <1>1
<1>3. ASSUME NEW i \in 0 .. n PROVE t[i] = IF i = 0 THEN s ELSE step[i - 1][t[i - 1]]
  <2>1. CASE i = 0
    BY <1>1, <2>1
  <2>2. CASE i # 0
    <3>1. i - 1 \in Nat /\ i - 1 \in 0 .. n /\ (i - 1) + 1 = i
      BY <2>2
    <3>2. u[(i - 1) + 1] = step[i - 1][u[i - 1]]
      BY <1>1, <3>1
    <3>3. t[i] = u[i] /\ t[i - 1] = u[i - 1]
      BY <3>1
    <3>4. QED
      BY <2>2, <3>1, <3>2, <3>3
  <2>3. QED
    BY <2>1, <2>2
<1> HIDE DEF t
<1>4. t = [i \in 0 .. n |-> IF i = 0 THEN s ELSE step[i - 1][t[i - 1]]]
  BY <1>2, <1>3
<1>5. QED
  BY <1>2, <1>4 DEF UpTo

--------------------------------------------------------------------------------
(* Powers of two, and the weights of the places.                           *)

LEMMA Sizes ==
  /\ WORD_BITS \in Nat \ {0} /\ FE_WORDS \in Nat \ {0} /\ FE_BITS \in Nat
  /\ \A i \in 0 .. FE_WORDS : WORD_BITS * i \in 0 .. FE_BITS
  /\ WORD_BITS * 0 = 0 /\ WORD_BITS * FE_WORDS = FE_BITS
  /\ \A i \in 0 .. FE_WORDS - 1 : WORD_BITS * (i + 1) = WORD_BITS * i + WORD_BITS
<1>1. WORD_BITS \in Nat \ {0} /\ FE_WORDS \in Nat \ {0}
  BY FieldAssumption DEF FieldAssumption
<1>2. FE_BITS \in Nat /\ WORD_BITS * FE_WORDS = FE_BITS
  BY <1>1, Product DEF FE_BITS
<1>3. ASSUME NEW i \in 0 .. FE_WORDS PROVE WORD_BITS * i \in 0 .. FE_BITS
  <2>1. i * WORD_BITS <= FE_WORDS * WORD_BITS /\ i * WORD_BITS >= 0 /\ i * WORD_BITS \in Int
    BY <1>1, Product
  <2>2. i * WORD_BITS = WORD_BITS * i /\ FE_WORDS * WORD_BITS = FE_BITS
    BY <1>1 DEF FE_BITS
  <2>3. QED
    BY <1>2, <2>1, <2>2
<1>4. ASSUME NEW i \in 0 .. FE_WORDS - 1 PROVE WORD_BITS * (i + 1) = WORD_BITS * i + WORD_BITS
  BY <1>1
<1>5. QED
  BY <1>1, <1>2, <1>3, <1>4

LEMMA TwoIs ==
  /\ \A n \in 0 .. FE_BITS : Two[n] \in Nat \ {0}
  /\ Two[0] = 1 /\ \A n \in 0 .. FE_BITS - 1 : Two[n + 1] = 2 * Two[n]
<1> DEFINE step == [i \in Nat |-> [v \in Nat |-> 2 * v]]
<1>1. FE_BITS \in Nat
  BY Sizes
<1>2. 1 \in Nat /\ Steps(step, Nat)
  BY DEF Steps
<1>14. \A i \in Nat, v \in Nat : step[i][v] = 2 * v
  OBVIOUS
<1> HIDE DEF step
<1>3. PICK t : UpTo(FE_BITS, t, 1, step, Nat)
  BY <1>1, <1>2, RecursionTo
<1>4. t = [n \in 0 .. FE_BITS |-> IF n = 0 THEN 1 ELSE 2 * t[n - 1]]
  <2>1. t \in [0 .. FE_BITS -> Nat]
        /\ t = [i \in 0 .. FE_BITS |-> IF i = 0 THEN 1 ELSE step[i - 1][t[i - 1]]]
    BY <1>3 DEF UpTo
  <2>2. ASSUME NEW n \in 0 .. FE_BITS PROVE t[n] = IF n = 0 THEN 1 ELSE 2 * t[n - 1]
    <3>1. CASE n = 0
      BY <2>1, <3>1
    <3>2. CASE n # 0
      <4>1. n - 1 \in Nat /\ t[n - 1] \in Nat
        <5>1. n - 1 \in 0 .. FE_BITS
          BY <1>1, <3>2
        <5>2. t \in [0 .. FE_BITS -> Nat]
          BY <2>1, Zenon
        <5>3. t[n - 1] \in Nat
          BY <5>1, <5>2
        <5>4. QED
          BY <1>1, <3>2, <5>3
      <4>2. t[n] = step[n - 1][t[n - 1]]
        BY <2>1, <3>2
      <4>3. step[n - 1][t[n - 1]] = 2 * t[n - 1]
        BY <1>14, <4>1
      <4>4. QED
        BY <3>2, <4>2, <4>3
    <3>3. QED
      BY <3>1, <3>2
  <2>3. QED
    BY <2>1, <2>2
<1>5. Two = [n \in 0 .. FE_BITS |-> IF n = 0 THEN 1 ELSE 2 * Two[n - 1]]
  BY <1>4, Zenon DEF Two
<1>6. PICK w : w = Two
  OBVIOUS
<1>7. w = [n \in 0 .. FE_BITS |-> IF n = 0 THEN 1 ELSE 2 * w[n - 1]]
  BY <1>5, <1>6
<1>8. w[0] = 1 /\ \A n \in 0 .. FE_BITS - 1 : w[n + 1] = 2 * w[n]
  <2>1. w[0] = 1
    BY <1>1, <1>7
  <2>2. ASSUME NEW n \in 0 .. FE_BITS - 1 PROVE w[n + 1] = 2 * w[n]
    <3>1. n + 1 \in 0 .. FE_BITS /\ n + 1 # 0 /\ (n + 1) - 1 = n
      BY <1>1
    <3>2. w[n + 1] = 2 * w[(n + 1) - 1]
      BY <1>7, <3>1
    <3>3. QED
      BY <3>1, <3>2
  <2>3. QED
    BY <2>1, <2>2
<1> DEFINE L == {n \in Nat : n <= FE_BITS => w[n] \in Nat \ {0}}
<1>9. 0 \in L
  BY <1>8
<1>10. ASSUME NEW n \in Nat, n \in L PROVE n + 1 \in L
  <2>1. CASE n + 1 <= FE_BITS
    <3>1. w[n] \in Nat \ {0} /\ w[n + 1] = 2 * w[n]
      BY <1>1, <1>8, <1>10, <2>1
    <3>2. QED
      BY <3>1
  <2>2. QED
    BY <2>1
<1> HIDE DEF L
<1>11. Nat \subseteq L
  BY <1>9, <1>10, Induction
<1>12. \A n \in 0 .. FE_BITS : w[n] \in Nat \ {0}
  BY <1>1, <1>11 DEF L
<1>13. QED
  BY <1>6, <1>8, <1>12

LEMMA TwoSum ==
  ASSUME NEW a \in Nat, NEW b \in Nat, a + b <= FE_BITS
  PROVE  Two[a + b] = Two[a] * Two[b]
<1>1. PICK w : w = Two
  OBVIOUS
<1>2. /\ \A n \in 0 .. FE_BITS : w[n] \in Nat \ {0}
      /\ w[0] = 1 /\ \A n \in 0 .. FE_BITS - 1 : w[n + 1] = 2 * w[n]
  BY <1>1, TwoIs
<1>3. FE_BITS \in Nat
  BY Sizes
<1> DEFINE L == {n \in Nat : a + n <= FE_BITS => w[a + n] = w[a] * w[n]}
<1>4. 0 \in L
  <2> SUFFICES ASSUME a <= FE_BITS PROVE w[a + 0] = w[a] * w[0]
    OBVIOUS
  <2>1. w[a] \in Nat /\ a + 0 = a
    BY <1>2, <1>3
  <2>2. QED
    BY <1>2, <2>1
<1>5. ASSUME NEW n \in Nat, n \in L PROVE n + 1 \in L
  <2> SUFFICES ASSUME a + (n + 1) <= FE_BITS PROVE w[a + (n + 1)] = w[a] * w[n + 1]
    OBVIOUS
  <2>1. w[a + n] = w[a] * w[n] /\ a + n \in 0 .. FE_BITS - 1 /\ n \in 0 .. FE_BITS - 1 /\ a \in 0 .. FE_BITS
    BY <1>3, <1>5
  <2>2. w[(a + n) + 1] = 2 * w[a + n] /\ w[n + 1] = 2 * w[n] /\ w[a] \in Nat /\ w[n] \in Nat
    <3>1. n \in 0 .. FE_BITS
      BY <1>3, <2>1
    <3>2. QED
      BY <1>2, <2>1, <3>1
  <2>3. (a + n) + 1 = a + (n + 1)
    OBVIOUS
  <2>4. PICK x \in Nat, y \in Nat : x = w[a] /\ y = w[n]
    BY <2>2
  <2>5. 2 * (x * y) = x * (2 * y)
    OBVIOUS
  <2>6. w[a + (n + 1)] = 2 * (x * y)
    <3>1. w[a + (n + 1)] = w[(a + n) + 1]
      BY <2>3
    <3>2. w[(a + n) + 1] = 2 * (x * y)
      BY <2>1, <2>2, <2>4, Zenon
    <3>3. QED
      BY <3>1, <3>2, Zenon
  <2>7. w[a] * w[n + 1] = x * (2 * y)
    BY <2>2, <2>4, Zenon
  <2>8. QED
    BY <2>5, <2>6, <2>7, Zenon
<1> HIDE DEF L
<1>6. Nat \subseteq L
  BY <1>4, <1>5, Induction
<1>7. QED
  BY <1>1, <1>6 DEF L

(* The weight of place i. *)
Weight(i) == Two[WORD_BITS * i]

LEMMA Weights ==
  /\ Base \in Nat /\ Base >= 2 /\ Radix \in Nat \ {0} /\ FE_WORDS \in Nat \ {0}
  /\ \A i \in 0 .. FE_WORDS : Weight(i) \in Nat \ {0}
  /\ Weight(0) = 1 /\ Weight(FE_WORDS) = Radix
  /\ \A i \in 0 .. FE_WORDS - 1 : Weight(i + 1) = Base * Weight(i)
<1>1. PICK w : w = Two
  OBVIOUS
<1>2. /\ \A n \in 0 .. FE_BITS : w[n] \in Nat \ {0}
      /\ w[0] = 1 /\ \A n \in 0 .. FE_BITS - 1 : w[n + 1] = 2 * w[n]
  BY <1>1, TwoIs
<1>3. WORD_BITS \in 1 .. FE_BITS
  <2>1. WORD_BITS * 1 \in 0 .. FE_BITS /\ WORD_BITS * 1 = WORD_BITS
    BY Sizes
  <2>2. QED
    BY <2>1, Sizes
<1>4. Base \in Nat /\ Base >= 2
  <2>1. WORD_BITS - 1 \in 0 .. FE_BITS - 1 /\ (WORD_BITS - 1) + 1 = WORD_BITS /\ WORD_BITS - 1 \in 0 .. FE_BITS
    BY <1>3, Sizes
  <2>2. w[WORD_BITS] = 2 * w[WORD_BITS - 1] /\ w[WORD_BITS - 1] \in Nat \ {0}
    BY <1>2, <2>1
  <2>3. QED
    BY <1>1, <2>2 DEF Base
<1>5. Radix \in Nat \ {0}
  BY <1>1, <1>2, Sizes DEF Radix
<1>6. \A i \in 0 .. FE_WORDS : Weight(i) \in Nat \ {0}
  BY <1>1, <1>2, Sizes DEF Weight
<1>7. Weight(0) = 1 /\ Weight(FE_WORDS) = Radix
  BY <1>1, <1>2, Sizes DEF Weight, Radix
<1>8. ASSUME NEW i \in 0 .. FE_WORDS - 1 PROVE Weight(i + 1) = Base * Weight(i)
  <2>1. PICK n \in Nat : n = WORD_BITS * i
    BY Sizes
  <2>2. WORD_BITS * (i + 1) = WORD_BITS + n /\ WORD_BITS + n <= FE_BITS /\ WORD_BITS \in Nat
    <3>1. i + 1 \in 0 .. FE_WORDS
      BY Sizes
    <3>2. WORD_BITS * (i + 1) \in 0 .. FE_BITS /\ WORD_BITS * (i + 1) = WORD_BITS * i + WORD_BITS
      BY <3>1, Sizes
    <3>3. QED
      BY <2>1, <3>2, Sizes
  <2>3. Two[WORD_BITS + n] = Two[WORD_BITS] * Two[n]
    BY <2>2, TwoSum
  <2>4. QED
    BY <2>1, <2>2, <2>3 DEF Weight, Base
<1>9. QED
  BY <1>4, <1>5, <1>6, <1>7, <1>8, Sizes

--------------------------------------------------------------------------------
(* Words as numbers.                                                       *)

LEMMA UpToIs ==
  ASSUME NEW n \in Nat, NEW t, NEW s, NEW step, NEW S, UpTo(n, t, s, step, S)
  PROVE  /\ t = [i \in 0 .. n |-> t[i]] /\ t[0] = s /\ \A i \in 0 .. n : t[i] \in S
         /\ \A i \in 0 .. n : i # 0 => i - 1 \in 0 .. n /\ t[i] = step[i - 1][t[i - 1]]
<1>1. t \in [0 .. n -> S] /\ t = [i \in 0 .. n |-> IF i = 0 THEN s ELSE step[i - 1][t[i - 1]]]
  BY DEF UpTo
<1>2. ASSUME NEW i \in 0 .. n, i # 0 PROVE i - 1 \in 0 .. n /\ t[i] = step[i - 1][t[i - 1]]
  BY <1>1, <1>2
<1>3. t[0] = s
  BY <1>1
<1>4. t = [i \in 0 .. n |-> t[i]] /\ \A i \in 0 .. n : t[i] \in S
  BY <1>1
<1>5. QED
  BY <1>2, <1>3, <1>4

LEMMA LowestIs ==
  ASSUME NEW a, \A i \in Places : a[i] \in Nat
  PROVE  /\ Lowest(a)[0] = 0 /\ \A i \in 0 .. FE_WORDS : Lowest(a)[i] \in Nat
         /\ \A i \in Places : Lowest(a)[i + 1] = Lowest(a)[i] + a[i] * Weight(i)
<1> DEFINE step == [i \in Nat |-> [v \in Nat |-> IF i < FE_WORDS THEN v + a[i] * Weight(i) ELSE v]]
<1>1. FE_WORDS \in Nat \ {0}
  BY Weights
<1>2. \A i \in Nat : i < FE_WORDS => a[i] \in Nat /\ Weight(i) \in Nat /\ a[i] * Weight(i) \in Nat
  <2> SUFFICES ASSUME NEW i \in Nat, i < FE_WORDS
               PROVE  a[i] \in Nat /\ Weight(i) \in Nat /\ a[i] * Weight(i) \in Nat
    OBVIOUS
  <2>1. a[i] \in Nat /\ Weight(i) \in Nat
    BY <1>1, Weights DEF Places
  <2>2. a[i] * Weight(i) \in Int /\ a[i] * Weight(i) >= 0
    BY <2>1, Product
  <2>3. QED
    BY <2>1, <2>2
<1>3. Steps(step, Nat)
  BY <1>2 DEF Steps
<1>4. \A i \in Nat, v \in Nat : step[i][v] = IF i < FE_WORDS THEN v + a[i] * Weight(i) ELSE v
  OBVIOUS
<1> HIDE DEF step
<1>5. PICK t : UpTo(FE_WORDS, t, 0, step, Nat)
  BY <1>1, <1>3, RecursionTo
<1>6. /\ t = [i \in 0 .. FE_WORDS |-> t[i]] /\ t[0] = 0 /\ \A i \in 0 .. FE_WORDS : t[i] \in Nat
      /\ \A i \in 0 .. FE_WORDS : i # 0 => i - 1 \in 0 .. FE_WORDS /\ t[i] = step[i - 1][t[i - 1]]
  BY <1>1, <1>5, UpToIs
<1>7. ASSUME NEW i \in 0 .. FE_WORDS, i # 0
      PROVE  t[i] = t[i - 1] + a[i - 1] * Weight(i - 1)
  <2>1. i - 1 \in Nat /\ i - 1 < FE_WORDS /\ t[i - 1] \in Nat /\ t[i] = step[i - 1][t[i - 1]]
    BY <1>1, <1>6, <1>7
  <2>2. QED
    BY <1>4, <2>1
<1>8. \E u : u = [i \in 0 .. FE_WORDS |->
                    IF i = 0 THEN 0 ELSE u[i - 1] + a[i - 1] * Two[WORD_BITS * (i - 1)]]
  <2>1. \A i \in 0 .. FE_WORDS :
          t[i] = IF i = 0 THEN 0 ELSE t[i - 1] + a[i - 1] * Two[WORD_BITS * (i - 1)]
    BY <1>6, <1>7 DEF Weight
  <2>2. t = [i \in 0 .. FE_WORDS |->
               IF i = 0 THEN 0 ELSE t[i - 1] + a[i - 1] * Two[WORD_BITS * (i - 1)]]
    BY <1>6, <2>1
  <2>3. QED
    BY <2>2
<1>9. PICK u : u = Lowest(a)
  OBVIOUS
<1>10. u = [i \in 0 .. FE_WORDS |->
              IF i = 0 THEN 0 ELSE u[i - 1] + a[i - 1] * Two[WORD_BITS * (i - 1)]]
  <2>1. Lowest(a) = [i \in 0 .. FE_WORDS |->
              IF i = 0 THEN 0 ELSE Lowest(a)[i - 1] + a[i - 1] * Two[WORD_BITS * (i - 1)]]
    BY <1>8, Zenon DEF Lowest
  <2>2. QED
    BY <1>9, <2>1, Zenon
<1>11. u[0] = 0
  BY <1>1, <1>10
<1>12. ASSUME NEW i \in Places PROVE u[i + 1] = u[i] + a[i] * Weight(i)
  <2>1. i + 1 \in 0 .. FE_WORDS /\ i + 1 # 0 /\ (i + 1) - 1 = i
    BY <1>1 DEF Places
  <2>2. u[i + 1] = u[(i + 1) - 1] + a[(i + 1) - 1] * Two[WORD_BITS * ((i + 1) - 1)]
    BY <1>10, <2>1
  <2>3. QED
    BY <2>1, <2>2 DEF Weight
<1> DEFINE L == {i \in Nat : i <= FE_WORDS => u[i] \in Nat}
<1>13. 0 \in L
  BY <1>11
<1>14. ASSUME NEW i \in Nat, i \in L PROVE i + 1 \in L
  <2> SUFFICES ASSUME i + 1 <= FE_WORDS PROVE u[i + 1] \in Nat
    OBVIOUS
  <2>1. i \in Places /\ u[i] \in Nat /\ a[i] * Weight(i) \in Nat
    BY <1>1, <1>2, <1>14 DEF Places
  <2>2. QED
    BY <1>12, <2>1
<1> HIDE DEF L
<1>15. Nat \subseteq L
  BY <1>13, <1>14, Induction
<1>16. \A i \in 0 .. FE_WORDS : u[i] \in Nat
  BY <1>1, <1>15 DEF L
<1>17. QED
  BY <1>9, <1>11, <1>12, <1>16

(* The words below place i weigh less than one there. *)
LEMMA LowestBelow ==
  ASSUME NEW a \in Element
  PROVE  \A i \in 0 .. FE_WORDS : Lowest(a)[i] \in 0 .. Weight(i) - 1
<1>1. /\ FE_WORDS \in Nat \ {0} /\ Base \in Nat /\ Base >= 2
      /\ \A i \in 0 .. FE_WORDS : Weight(i) \in Nat \ {0}
      /\ Weight(0) = 1 /\ \A i \in 0 .. FE_WORDS - 1 : Weight(i + 1) = Base * Weight(i)
  BY Weights
<1>2. \A i \in Places : a[i] \in Nat /\ a[i] <= Base - 1
  BY <1>1 DEF Element
<1>3. PICK u : u = Lowest(a)
  OBVIOUS
<1>4. /\ u[0] = 0 /\ \A i \in 0 .. FE_WORDS : u[i] \in Nat
      /\ \A i \in Places : u[i + 1] = u[i] + a[i] * Weight(i)
  BY <1>2, <1>3, LowestIs
<1> DEFINE L == {i \in Nat : i <= FE_WORDS => u[i] <= Weight(i) - 1}
<1>5. 0 \in L
  BY <1>1, <1>4
<1>6. ASSUME NEW i \in Nat, i \in L PROVE i + 1 \in L
  <2> SUFFICES ASSUME i + 1 <= FE_WORDS PROVE u[i + 1] <= Weight(i + 1) - 1
    OBVIOUS
  <2>1. i \in Places /\ i \in 0 .. FE_WORDS /\ i \in 0 .. FE_WORDS - 1
    BY <1>1 DEF Places
  <2>2. PICK w \in Nat \ {0} : w = Weight(i)
    BY <1>1, <2>1
  <2>3. PICK d \in Nat : d = a[i] /\ d <= Base - 1
    BY <1>2, <2>1
  <2>4. d * w <= (Base - 1) * w /\ (Base - 1) * w = Base * w - w /\ d * w \in Int /\ Base * w \in Int
    BY <1>1, <2>2, <2>3, Product
  <2>5. u[i] <= w - 1 /\ u[i] \in Nat
    BY <1>4, <1>6, <2>1, <2>2
  <2>6. u[i + 1] = u[i] + d * w /\ Weight(i + 1) = Base * w
    BY <1>1, <1>4, <2>1, <2>2, <2>3
  <2> DEFINE dw == d * w
             bw == Base * w
             cw == (Base - 1) * w
  <2>7. dw <= cw /\ cw = bw - w /\ dw \in Int /\ bw \in Int
    BY <2>4
  <2>8. u[i + 1] = u[i] + dw /\ Weight(i + 1) = bw
    BY <2>6
  <2> HIDE DEF dw, bw, cw
  <2>9. QED
    BY <2>2, <2>5, <2>7, <2>8
<1> HIDE DEF L
<1>7. Nat \subseteq L
  BY <1>5, <1>6, Induction
<1>8. ASSUME NEW i \in 0 .. FE_WORDS PROVE u[i] \in 0 .. Weight(i) - 1
  <2>1. i \in L /\ i \in Nat
    BY <1>1, <1>7
  <2>2. QED
    BY <1>1, <1>4, <2>1 DEF L
<1>9. QED
  BY <1>3, <1>8

LEMMA ValueBelow ==
  ASSUME NEW a \in Element
  PROVE  Value(a) \in 0 .. Radix - 1
BY LowestBelow, Weights DEF Value

--------------------------------------------------------------------------------
(* Carries and borrows.                                                    *)

LEMMA Scale ==
  ASSUME NEW b \in Int, NEW v \in Int, NEW e \in Int, NEW d \in Int,
         NEW l \in Int, NEW w \in Int, NEW r \in Int, NEW c \in Int,
         e + d * b = l + w * r + c
  PROVE  e * v + d * (b * v) = l * v + w * (r * v) + c * v
<1>1. (e + d * b) * v = e * v + d * (b * v)
  OBVIOUS
<1>2. (l + w * r + c) * v = l * v + w * (r * v) + c * v
  OBVIOUS
<1>3. QED
  BY <1>1, <1>2

LEMMA Distribute ==
  ASSUME NEW w \in Int, NEW x \in Int, NEW y \in Int
  PROVE  w * (x + y) = w * x + w * y /\ w * x \in Int /\ w * y \in Int
OBVIOUS

(* What is handed on at each place is what the whole differs by. *)
LEMMA Chain ==
  ASSUME NEW e \in Element, NEW l \in Element, NEW r \in Element, NEW w \in Int,
         NEW c, \A i \in 0 .. FE_WORDS : c[i] \in Int,
         \A i \in Places : e[i] + c[i + 1] * Base = l[i] + w * r[i] + c[i]
  PROVE  Value(e) + c[FE_WORDS] * Radix = Value(l) + w * Value(r) + c[0]
<1>1. /\ FE_WORDS \in Nat \ {0} /\ Base \in Nat /\ Base >= 2
      /\ \A i \in 0 .. FE_WORDS : Weight(i) \in Nat \ {0}
      /\ Weight(0) = 1 /\ \A i \in 0 .. FE_WORDS - 1 : Weight(i + 1) = Base * Weight(i)
      /\ Weight(FE_WORDS) = Radix
  BY Weights
<1>2. \A i \in Places : e[i] \in Nat /\ l[i] \in Nat /\ r[i] \in Nat
  BY <1>1 DEF Element
<1>3. PICK u, x, y : u = Lowest(e) /\ x = Lowest(l) /\ y = Lowest(r)
  OBVIOUS
<1>4. /\ u[0] = 0 /\ \A i \in 0 .. FE_WORDS : u[i] \in Nat
      /\ \A i \in Places : u[i + 1] = u[i] + e[i] * Weight(i)
  BY <1>2, <1>3, LowestIs
<1>5. /\ x[0] = 0 /\ \A i \in 0 .. FE_WORDS : x[i] \in Nat
      /\ \A i \in Places : x[i + 1] = x[i] + l[i] * Weight(i)
  BY <1>2, <1>3, LowestIs
<1>6. /\ y[0] = 0 /\ \A i \in 0 .. FE_WORDS : y[i] \in Nat
      /\ \A i \in Places : y[i + 1] = y[i] + r[i] * Weight(i)
  BY <1>2, <1>3, LowestIs
<1> DEFINE L == {i \in Nat : i <= FE_WORDS =>
                   u[i] + c[i] * Weight(i) = x[i] + w * y[i] + c[0]}
<1>7. 0 \in L
  <2>1. 0 \in 0 .. FE_WORDS
    BY <1>1
  <2>2. c[0] \in Int
    BY <2>1
  <2>3. u[0] + c[0] * Weight(0) = x[0] + w * y[0] + c[0]
    BY <1>1, <1>4, <1>5, <1>6, <2>2
  <2>4. QED
    BY <2>3
<1>8. ASSUME NEW i \in Nat, i \in L PROVE i + 1 \in L
  <2> SUFFICES ASSUME i + 1 <= FE_WORDS
               PROVE  u[i + 1] + c[i + 1] * Weight(i + 1) = x[i + 1] + w * y[i + 1] + c[0]
    OBVIOUS
  <2>1. i \in Places /\ i \in 0 .. FE_WORDS /\ i \in 0 .. FE_WORDS - 1 /\ i + 1 \in 0 .. FE_WORDS
        /\ 0 \in 0 .. FE_WORDS
    BY <1>1 DEF Places
  <2>2. PICK v \in Nat : v = Weight(i)
    BY <1>1, <2>1
  <2>3. PICK ei \in Nat, li \in Nat : ei = e[i] /\ li = l[i]
    BY <1>2, <2>1
  <2>4. PICK ri \in Nat : ri = r[i]
    BY <1>2, <2>1
  <2>5. PICK ci \in Int, d \in Int : ci = c[i] /\ d = c[i + 1]
    BY <2>1
  <2>6. ei + d * Base = li + w * ri + ci
    <3>1. e[i] + c[i + 1] * Base = l[i] + w * r[i] + c[i]
      BY <2>1
    <3>2. QED
      BY <2>3, <2>4, <2>5, <3>1
  <2>7. ei * v + d * (Base * v) = li * v + w * (ri * v) + ci * v
    BY <1>1, <2>6, Scale
  <2>8. PICK uu \in Nat, xx \in Nat : uu = u[i] /\ xx = x[i]
    BY <1>4, <1>5, <2>1
  <2>9. PICK yy \in Nat : yy = y[i]
    BY <1>6, <2>1
  <2>10. PICK c0 \in Int : c0 = c[0]
    BY <2>1
  <2>11. uu + ci * v = xx + w * yy + c0
    BY <1>8, <2>1, <2>2, <2>5, <2>8, <2>9, <2>10
  <2>12. /\ u[i + 1] = uu + ei * v /\ x[i + 1] = xx + li * v /\ y[i + 1] = yy + ri * v
         /\ Weight(i + 1) = Base * v
    BY <1>1, <1>4, <1>5, <1>6, <2>1, <2>2, <2>3, <2>4, <2>8, <2>9
  <2> DEFINE ev == ei * v
             lv == li * v
             rv == ri * v
             cv == ci * v
             db == d * (Base * v)
             wrv == w * rv
             wy == w * yy
  <2>13. ev \in Int /\ lv \in Int /\ rv \in Int /\ cv \in Int /\ db \in Int
    BY <1>1
  <2>14. w * (yy + rv) = wy + wrv /\ wy \in Int /\ wrv \in Int
    BY <2>13, Distribute
  <2>15. ev + db = lv + wrv + cv
    BY <2>7
  <2>16. uu + cv = xx + wy + c0
    BY <2>11
  <2> HIDE DEF ev, lv, rv, cv, db, wrv, wy
  <2>17. (uu + ev) + db = (xx + lv) + (wy + wrv) + c0
    BY <2>13, <2>14, <2>15, <2>16
  <2>18. u[i + 1] = uu + ev /\ x[i + 1] = xx + lv /\ y[i + 1] = yy + rv
    BY <2>12 DEF ev, lv, rv
  <2>19. c[i + 1] * Weight(i + 1) = db
    BY <2>5, <2>12 DEF db
  <2>20. w * y[i + 1] = wy + wrv
    BY <2>14, <2>18
  <2>21. QED
    BY <2>10, <2>17, <2>18, <2>19, <2>20
<1> HIDE DEF L
<1>9. Nat \subseteq L
  BY <1>7, <1>8, Induction
<1>10. u[FE_WORDS] + c[FE_WORDS] * Weight(FE_WORDS) = x[FE_WORDS] + w * y[FE_WORDS] + c[0]
  <2>1. FE_WORDS \in L
    BY <1>1, <1>9
  <2>2. QED
    BY <1>1, <2>1 DEF L
<1>11. QED
  BY <1>1, <1>3, <1>10 DEF Value

(* A word, times a word, and two words more, fit in a double word. *)
LEMMA DoubleWord ==
  ASSUME NEW b \in Nat, b >= 2, NEW l \in 0 .. b - 1, NEW w \in 0 .. b - 1,
         NEW r \in 0 .. b - 1, NEW c \in 0 .. b - 1
  PROVE  /\ l + w * r + c \in Nat
         /\ (l + w * r + c) % b \in 0 .. b - 1 /\ (l + w * r + c) \div b \in 0 .. b - 1
         /\ ((l + w * r + c) % b) + ((l + w * r + c) \div b) * b = l + w * r + c
         /\ ((l + w * r + c) \div b) % b = (l + w * r + c) \div b
<1>1. w * r >= 0 /\ w * r \in Int /\ w * r <= (b - 1) * r
  BY Product
<1>2. (b - 1) * r = r * (b - 1) /\ r * (b - 1) <= (b - 1) * (b - 1) /\ r * (b - 1) \in Int
  <2>1. b - 1 \in Nat /\ r \in Int /\ r <= b - 1
    OBVIOUS
  <2>2. QED
    BY <2>1, Product
<1>3. (b - 1) * (b - 1) = b * b - b - b + 1 /\ b * b \in Int
  OBVIOUS
<1>4. PICK x \in Nat : x = l + w * r + c /\ x <= b * b - 1
  <2> DEFINE wr == w * r
             br == (b - 1) * r
             rb == r * (b - 1)
             bb == b * b
             bq == (b - 1) * (b - 1)
  <2>1. wr >= 0 /\ wr \in Int /\ wr <= br /\ br = rb /\ rb <= bq /\ rb \in Int
        /\ bq = bb - b - b + 1 /\ bb \in Int
    BY <1>1, <1>2, <1>3
  <2> HIDE DEF wr, br, rb, bb, bq
  <2>2. l + wr + c \in Nat /\ l + wr + c <= bb - 1
    BY <2>1
  <2>3. QED
    BY <2>2 DEF wr, bb
<1>5. PICK d \in Nat, e \in Nat : d = x \div b /\ e = x % b /\ e < b /\ x = d * b + e
  BY Division
<1>6. d <= b - 1
  <2>1. SUFFICES ASSUME b <= d PROVE FALSE
    BY <1>5
  <2>2. b * b <= d * b /\ b * b \in Int /\ d * b \in Int
    BY <2>1, Product
  <2> DEFINE bb == b * b
             db == d * b
  <2>3. bb <= db /\ bb \in Int /\ db \in Int /\ x = db + e /\ x <= bb - 1
    BY <1>4, <1>5, <2>2
  <2> HIDE DEF bb, db
  <2>4. QED
    BY <1>5, <2>3
<1>7. d % b = d
  BY <1>6, Below
<1>8. e + d * b = x
  <2> DEFINE db == d * b
  <2>1. db \in Int /\ x = db + e
    BY <1>5, Product
  <2> HIDE DEF db
  <2>2. e + db = x
    BY <2>1
  <2>3. QED
    BY <2>2 DEF db
<1>9. QED
  BY <1>4, <1>5, <1>6, <1>7, <1>8

(* c[i] goes into place i of the addition whose result is s. *)
Carries(c, left, w, right, first, s) ==
  /\ \A i \in 0 .. FE_WORDS : c[i] \in 0 .. Base - 1
  /\ c[0] = first /\ c[FE_WORDS] = s.carry
  /\ s.fe = [i \in Places |-> s.fe[i]]
  /\ \A i \in Places : /\ c[i + 1] = (left[i] + w * right[i] + c[i]) \div Base
                       /\ s.fe[i] = (left[i] + w * right[i] + c[i]) % Base

LEMMA AddChain ==
  ASSUME NEW left \in Element, NEW right \in Element,
         NEW w \in 0 .. Base - 1, NEW first \in 0 .. Base - 1,
         NEW s, s = sb_mult_add_add(left, w, right, first)
  PROVE  \E c : Carries(c, left, w, right, first, s)
<1>1. FE_WORDS \in Nat \ {0} /\ Base \in Nat /\ Base >= 2
  BY Weights
<1>0. PICK S : S = 0 .. Base - 1
  OBVIOUS
<1> DEFINE step == [i \in Nat |-> [v \in S |->
                      IF i < FE_WORDS THEN ((left[i] + w * right[i] + v) \div Base) % Base ELSE v]]
<1>2. \A i \in Places : left[i] \in S /\ right[i] \in S
  BY <1>0 DEF Element
<1>3. ASSUME NEW i \in Places, NEW v \in S
      PROVE  /\ (left[i] + w * right[i] + v) \div Base \in S
             /\ ((left[i] + w * right[i] + v) \div Base) % Base = (left[i] + w * right[i] + v) \div Base
  <2>1. PICK l \in S, r \in S : l = left[i] /\ r = right[i]
    BY <1>2
  <2>2. (l + w * r + v) \div Base \in S /\ ((l + w * r + v) \div Base) % Base = (l + w * r + v) \div Base
    BY <1>0, <1>1, DoubleWord
  <2>3. QED
    BY <2>1, <2>2
<1>4. Steps(step, S)
  BY <1>1, <1>3 DEF Steps, Places
<1>5. \A i \in Nat, v \in S : i < FE_WORDS => step[i][v] = ((left[i] + w * right[i] + v) \div Base) % Base
  OBVIOUS
<1>6. first \in S
  BY <1>0
<1> HIDE DEF step
<1>7. PICK t : UpTo(FE_WORDS, t, first, step, S)
  BY <1>1, <1>4, <1>6, RecursionTo
<1>8. /\ t = [i \in 0 .. FE_WORDS |-> t[i]] /\ t[0] = first /\ \A i \in 0 .. FE_WORDS : t[i] \in S
      /\ \A i \in 0 .. FE_WORDS : i # 0 => i - 1 \in 0 .. FE_WORDS /\ t[i] = step[i - 1][t[i - 1]]
  BY <1>1, <1>7, UpToIs
<1>9. ASSUME NEW i \in 0 .. FE_WORDS, i # 0
      PROVE  t[i] = ((left[i - 1] + w * right[i - 1] + t[i - 1]) \div Base) % Base
  <2>0. i - 1 \in 0 .. FE_WORDS /\ t[i] = step[i - 1][t[i - 1]]
    BY <1>8, <1>9
  <2>1. i - 1 \in Nat /\ i - 1 < FE_WORDS /\ t[i - 1] \in S /\ t[i] = step[i - 1][t[i - 1]]
    BY <1>1, <1>8, <2>0
  <2>2. QED
    BY <1>5, <2>1
<1>10. \E u : u = [i \in 0 .. FE_WORDS |->
                     IF i = 0 THEN first ELSE ((left[i - 1] + w * right[i - 1] + u[i - 1]) \div Base) % Base]
  <2>1. \A i \in 0 .. FE_WORDS :
          t[i] = IF i = 0 THEN first ELSE ((left[i - 1] + w * right[i - 1] + t[i - 1]) \div Base) % Base
    BY <1>8, <1>9
  <2>2. t = [i \in 0 .. FE_WORDS |->
               IF i = 0 THEN first ELSE ((left[i - 1] + w * right[i - 1] + t[i - 1]) \div Base) % Base]
    BY <1>8, <2>1
  <2>3. QED
    BY <2>2
<1> DEFINE c == CHOOSE u : u = [i \in 0 .. FE_WORDS |->
                     IF i = 0 THEN first ELSE ((left[i - 1] + w * right[i - 1] + u[i - 1]) \div Base) % Base]
<1>12. c = [i \in 0 .. FE_WORDS |->
              IF i = 0 THEN first ELSE ((left[i - 1] + w * right[i - 1] + c[i - 1]) \div Base) % Base]
  BY <1>10, Zenon
<1>13. s = [fe |-> [i \in Places |-> (left[i] + w * right[i] + c[i]) % Base], carry |-> c[FE_WORDS]]
  BY DEF sb_mult_add_add
<1> HIDE DEF c
<1>14. c[0] = first
  BY <1>1, <1>12
<1>15. ASSUME NEW i \in Places PROVE c[i + 1] = ((left[i] + w * right[i] + c[i]) \div Base) % Base
  <2>1. i + 1 \in 0 .. FE_WORDS /\ i + 1 # 0 /\ (i + 1) - 1 = i
    BY <1>1 DEF Places
  <2>2. c[i + 1] = ((left[(i + 1) - 1] + w * right[(i + 1) - 1] + c[(i + 1) - 1]) \div Base) % Base
    BY <1>12, <2>1
  <2>3. QED
    BY <2>1, <2>2
<1> DEFINE L == {i \in Nat : i <= FE_WORDS => c[i] \in S}
<1>16. 0 \in L
  BY <1>6, <1>14
<1>17. ASSUME NEW i \in Nat, i \in L PROVE i + 1 \in L
  <2> SUFFICES ASSUME i + 1 <= FE_WORDS PROVE c[i + 1] \in S
    OBVIOUS
  <2>1. i \in Places /\ c[i] \in S
    BY <1>1, <1>17 DEF Places
  <2>2. (left[i] + w * right[i] + c[i]) \div Base \in S /\ c[i + 1] = (left[i] + w * right[i] + c[i]) \div Base
    BY <1>3, <1>15, <2>1
  <2>3. QED
    BY <2>2
<1> HIDE DEF L
<1>18. Nat \subseteq L
  BY <1>16, <1>17, Induction
<1>19. \A i \in 0 .. FE_WORDS : c[i] \in S
  BY <1>1, <1>18 DEF L
<1>20. \A i \in Places : c[i + 1] = (left[i] + w * right[i] + c[i]) \div Base
  <2> SUFFICES ASSUME NEW i \in Places PROVE c[i + 1] = (left[i] + w * right[i] + c[i]) \div Base
    OBVIOUS
  <2>1. c[i] \in S
    BY <1>1, <1>19 DEF Places
  <2>2. QED
    BY <1>3, <1>15, <2>1
<1>21. QED
  <2>1. /\ c[FE_WORDS] = s.carry /\ s.fe = [i \in Places |-> s.fe[i]]
        /\ \A i \in Places : s.fe[i] = (left[i] + w * right[i] + c[i]) % Base
    BY <1>13
  <2>2. QED
    BY <1>0, <1>14, <1>19, <1>20, <2>1 DEF Carries

(* Multiplication by a word, with a number and a word to add. *)
LEMMA MultiplyAddWords ==
  ASSUME NEW left \in Element, NEW right \in Element,
         NEW w \in 0 .. Base - 1, NEW first \in 0 .. Base - 1,
         NEW s, s = sb_mult_add_add(left, w, right, first)
  PROVE  /\ s.fe \in Element /\ s.carry \in 0 .. Base - 1
         /\ Value(s.fe) + s.carry * Radix = Value(left) + w * Value(right) + first
         /\ s.fe[0] = (left[0] + w * right[0] + first) % Base
<1>1. FE_WORDS \in Nat \ {0} /\ Base \in Nat /\ Base >= 2
  BY Weights
<1>0. PICK c : Carries(c, left, w, right, first, s)
  BY AddChain
<1>2. /\ \A i \in 0 .. FE_WORDS : c[i] \in 0 .. Base - 1
      /\ c[0] = first /\ c[FE_WORDS] = s.carry
      /\ s.fe = [i \in Places |-> s.fe[i]]
      /\ \A i \in Places : /\ c[i + 1] = (left[i] + w * right[i] + c[i]) \div Base
                           /\ s.fe[i] = (left[i] + w * right[i] + c[i]) % Base
  BY <1>0 DEF Carries
<1>3. PICK e : e = s.fe
  OBVIOUS
<1>4. ASSUME NEW i \in Places
      PROVE  /\ e[i] \in 0 .. Base - 1
             /\ e[i] + c[i + 1] * Base = left[i] + w * right[i] + c[i]
  <2>1. i \in 0 .. FE_WORDS /\ c[i] \in 0 .. Base - 1
    BY <1>1, <1>2 DEF Places
  <2>2. PICK l \in 0 .. Base - 1, r \in 0 .. Base - 1 : l = left[i] /\ r = right[i]
    BY DEF Element
  <2>3. PICK k \in 0 .. Base - 1 : k = c[i]
    BY <2>1
  <2>4. /\ (l + w * r + k) % Base \in 0 .. Base - 1
        /\ ((l + w * r + k) % Base) + ((l + w * r + k) \div Base) * Base = l + w * r + k
    BY <1>1, DoubleWord
  <2>5. e[i] = (l + w * r + k) % Base /\ c[i + 1] = (l + w * r + k) \div Base
    BY <1>2, <1>3, <2>2, <2>3
  <2>6. QED
    BY <2>2, <2>3, <2>4, <2>5
<1>5. e \in Element
  <2>1. e = [i \in Places |-> e[i]]
    BY <1>2, <1>3
  <2>2. \A i \in Places : e[i] \in 0 .. Base - 1
    BY <1>4
  <2>3. QED
    BY <2>1, <2>2 DEF Element
<1>6. \A i \in 0 .. FE_WORDS : c[i] \in Int
  BY <1>1, <1>2
<1>7. Value(e) + c[FE_WORDS] * Radix = Value(left) + w * Value(right) + c[0]
  <2>1. \A i \in Places : e[i] + c[i + 1] * Base = left[i] + w * right[i] + c[i]
    BY <1>4
  <2>2. w \in Int
    OBVIOUS
  <2>3. QED
    BY <1>5, <1>6, <2>1, <2>2, Chain
<1>8. s.fe = e /\ s.carry = c[FE_WORDS] /\ c[FE_WORDS] \in 0 .. Base - 1
  BY <1>1, <1>2, <1>3
<1>9. e[0] = (left[0] + w * right[0] + first) % Base
  <2>1. 0 \in Places
    BY <1>1 DEF Places
  <2>2. QED
    BY <1>2, <1>3, <2>1
<1>10. QED
  BY <1>2, <1>5, <1>7, <1>8, <1>9

LEMMA MultiplyAdd ==
  ASSUME NEW left \in Element, NEW right \in Element,
         NEW w \in 0 .. Base - 1, NEW first \in 0 .. Base - 1,
         NEW s, s = sb_mult_add_add(left, w, right, first)
  PROVE  /\ s.fe \in Element /\ s.carry \in 0 .. Base - 1
         /\ Value(s.fe) + s.carry * Radix = Value(left) + w * Value(right) + first
<1>1. /\ s.fe \in Element /\ s.carry \in 0 .. Base - 1
      /\ Value(s.fe) + s.carry * Radix = Value(left) + w * Value(right) + first
      /\ s.fe[0] = (left[0] + w * right[0] + first) % Base
  BY MultiplyAddWords
<1>2. QED
  BY <1>1

LEMMA LowestWord ==
  ASSUME NEW left \in Element, NEW right \in Element,
         NEW w \in 0 .. Base - 1, NEW first \in 0 .. Base - 1,
         NEW s, s = sb_mult_add_add(left, w, right, first)
  PROVE  s.fe[0] = (left[0] + w * right[0] + first) % Base
BY MultiplyAddWords

(* The difference of two words and a borrow as a double word: its high     *)
(* word is all ones if it is negative. *)
LEMMA DoubleDifference ==
  ASSUME NEW b \in Nat, b >= 2, NEW l \in 0 .. b - 1, NEW r \in 0 .. b - 1, NEW c \in 0 .. 1
  PROVE  /\ ((l - (r + c)) % (b * b)) % b \in 0 .. b - 1
         /\ (-(((l - (r + c)) % (b * b)) \div b)) % b \in 0 .. 1
         /\ (((l - (r + c)) % (b * b)) % b) - ((-(((l - (r + c)) % (b * b)) \div b)) % b) * b = l - r - c
<1>1. PICK x \in Int : x = l - (r + c) /\ x <= b - 1 /\ x >= -b
  OBVIOUS
<1>2. PICK bb \in Nat \ {0} : bb = b * b /\ bb >= b
  <2>1. 1 * b <= b * b /\ b * b \in Int /\ 1 * b = b
    BY Product
  <2>2. QED
    BY <2>1
<1>3. (x % bb) % b \in 0 .. b - 1 /\ (-((x % bb) \div b)) % b \in 0 .. 1
      /\ ((x % bb) % b) - ((-((x % bb) \div b)) % b) * b = x
  <2>1. CASE x >= 0
    <3>1. x % bb = x
      BY <1>1, <1>2, <2>1, Below
    <3>2. x \div b = 0 /\ x % b = x
      <4>1. (0 * b + x) \div b = 0 /\ (0 * b + x) % b = x
        BY <1>1, <2>1, Quotient
      <4>2. 0 * b + x = x
        BY <2>1
      <4>3. QED
        BY <4>1, <4>2
    <3>3. (-0) % b = 0
      BY Below
    <3>4. QED
      BY <1>1, <2>1, <3>1, <3>2, <3>3
  <2>2. CASE x < 0
    <3>1. PICK y \in 0 .. b - 1 : y = x + b
      BY <1>1, <2>2
    <3>2. PICK z \in Nat : z = x + bb /\ z < bb
      BY <1>1, <1>2, <2>2
    <3>3. x % bb = z
      <4>1. ((-1) * bb + z) % bb = z
        BY <1>2, <3>2, WholeQuotient
      <4>2. (-1) * bb + z = x
        BY <1>2, <3>2
      <4>3. QED
        BY <4>1, <4>2
    <3>4. z \div b = b - 1 /\ z % b = y
      <4>0. PICK h \in Nat : h = b - 1
        OBVIOUS
      <4>01. y \in Nat /\ y < b /\ b \in Nat \ {0}
        OBVIOUS
      <4>02. (h * b + y) \div b = h /\ (h * b + y) % b = y
        BY <4>0, <4>01, Quotient
      <4>1. ((b - 1) * b + y) \div b = b - 1 /\ ((b - 1) * b + y) % b = y
        BY <4>0, <4>02
      <4>2. (b - 1) * b = b * b - b
        OBVIOUS
      <4>3. (b - 1) * b + y = z
        BY <1>2, <3>1, <3>2, <4>2
      <4>4. QED
        BY <4>1, <4>3
    <3>5. (-(b - 1)) % b = 1
      <4>1. ((-1) * b + 1) % b = 1
        BY WholeQuotient
      <4>2. (-1) * b + 1 = -(b - 1)
        OBVIOUS
      <4>3. QED
        BY <4>1, <4>2
    <3>6. (-((x % bb) \div b)) % b = 1 /\ (x % bb) % b = y
      BY <3>3, <3>4, <3>5
    <3>7. y - 1 * b = x
      BY <3>1
    <3>8. QED
      BY <3>6, <3>7
  <2>3. QED
    BY <1>1, <2>1, <2>2
<1>4. QED
  <2>1. l - r - c = x
    BY <1>1
  <2>2. QED
    BY <1>1, <1>2, <1>3, <2>1

LEMMA BorrowChain ==
  ASSUME NEW left \in Element, NEW right \in Element, NEW first \in 0 .. 1
  PROVE  \E c : /\ \A i \in 0 .. FE_WORDS : c[i] \in 0 .. 1
                /\ c[0] = first
                /\ \A i \in Places : c[i + 1] = (-(((left[i] - (right[i] + c[i])) % (Base * Base)) \div Base)) % Base
                /\ sb_fe_sub_borrow(left, right, first) =
                     [fe |-> [i \in Places |-> ((left[i] - (right[i] + c[i])) % (Base * Base)) % Base],
                      carry |-> c[FE_WORDS]]
<1>1. FE_WORDS \in Nat \ {0} /\ Base \in Nat /\ Base >= 2
  BY Weights
<1>0. PICK S : S = 0 .. 1
  OBVIOUS
<1> DEFINE step == [i \in Nat |-> [v \in S |->
                      IF i < FE_WORDS
                      THEN (-(((left[i] - (right[i] + v)) % (Base * Base)) \div Base)) % Base ELSE v]]
<1>2. \A i \in Places : left[i] \in 0 .. Base - 1 /\ right[i] \in 0 .. Base - 1
  BY DEF Element
<1>3. ASSUME NEW i \in Places, NEW v \in S
      PROVE  (-(((left[i] - (right[i] + v)) % (Base * Base)) \div Base)) % Base \in S
  <2>1. PICK l \in 0 .. Base - 1, r \in 0 .. Base - 1 : l = left[i] /\ r = right[i]
    BY <1>2
  <2>2. (-(((l - (r + v)) % (Base * Base)) \div Base)) % Base \in 0 .. 1
    BY <1>0, <1>1, DoubleDifference
  <2>3. QED
    BY <1>0, <2>1, <2>2
<1>4. Steps(step, S)
  BY <1>1, <1>3 DEF Steps, Places
<1>5. \A i \in Nat, v \in S : i < FE_WORDS =>
        step[i][v] = (-(((left[i] - (right[i] + v)) % (Base * Base)) \div Base)) % Base
  OBVIOUS
<1>6. first \in S
  BY <1>0
<1> HIDE DEF step
<1>7. PICK t : UpTo(FE_WORDS, t, first, step, S)
  BY <1>1, <1>4, <1>6, RecursionTo
<1>8. /\ t = [i \in 0 .. FE_WORDS |-> t[i]] /\ t[0] = first /\ \A i \in 0 .. FE_WORDS : t[i] \in S
      /\ \A i \in 0 .. FE_WORDS : i # 0 => i - 1 \in 0 .. FE_WORDS /\ t[i] = step[i - 1][t[i - 1]]
  BY <1>1, <1>7, UpToIs
<1>9. ASSUME NEW i \in 0 .. FE_WORDS, i # 0
      PROVE  t[i] = (-(((left[i - 1] - (right[i - 1] + t[i - 1])) % (Base * Base)) \div Base)) % Base
  <2>0. i - 1 \in 0 .. FE_WORDS /\ t[i] = step[i - 1][t[i - 1]]
    BY <1>8, <1>9
  <2>1. i - 1 \in Nat /\ i - 1 < FE_WORDS /\ t[i - 1] \in S /\ t[i] = step[i - 1][t[i - 1]]
    BY <1>1, <1>8, <2>0
  <2>2. QED
    BY <1>5, <2>1
<1>10. \E u : u = [i \in 0 .. FE_WORDS |->
                     IF i = 0 THEN first
                     ELSE (-(((left[i - 1] - (right[i - 1] + u[i - 1])) % (Base * Base)) \div Base)) % Base]
  <2>1. \A i \in 0 .. FE_WORDS :
          t[i] = IF i = 0 THEN first
                 ELSE (-(((left[i - 1] - (right[i - 1] + t[i - 1])) % (Base * Base)) \div Base)) % Base
    BY <1>8, <1>9
  <2>2. t = [i \in 0 .. FE_WORDS |->
               IF i = 0 THEN first
               ELSE (-(((left[i - 1] - (right[i - 1] + t[i - 1])) % (Base * Base)) \div Base)) % Base]
    BY <1>8, <2>1
  <2>3. QED
    BY <2>2
<1> DEFINE c == CHOOSE u : u = [i \in 0 .. FE_WORDS |->
                     IF i = 0 THEN first
                     ELSE (-(((left[i - 1] - (right[i - 1] + u[i - 1])) % (Base * Base)) \div Base)) % Base]
<1>12. c = [i \in 0 .. FE_WORDS |->
              IF i = 0 THEN first
              ELSE (-(((left[i - 1] - (right[i - 1] + c[i - 1])) % (Base * Base)) \div Base)) % Base]
  BY <1>10, Zenon
<1>13. sb_fe_sub_borrow(left, right, first) =
         [fe |-> [i \in Places |-> ((left[i] - (right[i] + c[i])) % (Base * Base)) % Base],
          carry |-> c[FE_WORDS]]
  BY DEF sb_fe_sub_borrow
<1> HIDE DEF c
<1>14. c[0] = first
  BY <1>1, <1>12
<1>15. ASSUME NEW i \in Places
       PROVE  c[i + 1] = (-(((left[i] - (right[i] + c[i])) % (Base * Base)) \div Base)) % Base
  <2>1. i + 1 \in 0 .. FE_WORDS /\ i + 1 # 0 /\ (i + 1) - 1 = i
    BY <1>1 DEF Places
  <2>2. c[i + 1] = (-(((left[(i + 1) - 1] - (right[(i + 1) - 1] + c[(i + 1) - 1])) % (Base * Base)) \div Base)) % Base
    BY <1>12, <2>1
  <2>3. QED
    BY <2>1, <2>2
<1> DEFINE L == {i \in Nat : i <= FE_WORDS => c[i] \in S}
<1>16. 0 \in L
  BY <1>6, <1>14
<1>17. ASSUME NEW i \in Nat, i \in L PROVE i + 1 \in L
  <2> SUFFICES ASSUME i + 1 <= FE_WORDS PROVE c[i + 1] \in S
    OBVIOUS
  <2>1. i \in Places /\ c[i] \in S
    BY <1>1, <1>17 DEF Places
  <2>2. c[i + 1] = (-(((left[i] - (right[i] + c[i])) % (Base * Base)) \div Base)) % Base
    BY <1>15, <2>1
  <2>3. QED
    BY <1>3, <2>1, <2>2
<1> HIDE DEF L
<1>18. Nat \subseteq L
  BY <1>16, <1>17, Induction
<1>19. \A i \in 0 .. FE_WORDS : c[i] \in S
  BY <1>1, <1>18 DEF L
<1>21. QED
  BY <1>0, <1>13, <1>14, <1>15, <1>19

LEMMA SubtractBorrow ==
  ASSUME NEW left \in Element, NEW right \in Element, NEW first \in 0 .. 1,
         NEW s, s = sb_fe_sub_borrow(left, right, first)
  PROVE  /\ s.fe \in Element /\ s.carry \in 0 .. 1
         /\ Value(s.fe) - s.carry * Radix = Value(left) - Value(right) - first
         /\ s.fe[0] = ((left[0] - (right[0] + first)) % (Base * Base)) % Base
<1>1. FE_WORDS \in Nat \ {0} /\ Base \in Nat /\ Base >= 2
  BY Weights
<1>2. PICK c : /\ \A i \in 0 .. FE_WORDS : c[i] \in 0 .. 1
               /\ c[0] = first
               /\ \A i \in Places : c[i + 1] = (-(((left[i] - (right[i] + c[i])) % (Base * Base)) \div Base)) % Base
               /\ sb_fe_sub_borrow(left, right, first) =
                    [fe |-> [i \in Places |-> ((left[i] - (right[i] + c[i])) % (Base * Base)) % Base],
                     carry |-> c[FE_WORDS]]
  BY BorrowChain
<1>3. PICK e : e = [i \in Places |-> ((left[i] - (right[i] + c[i])) % (Base * Base)) % Base]
  OBVIOUS
<1>31. PICK n : n = [i \in 0 .. FE_WORDS |-> -c[i]]
  OBVIOUS
<1>4. ASSUME NEW i \in Places
      PROVE  /\ e[i] \in 0 .. Base - 1
             /\ e[i] + n[i + 1] * Base = left[i] + (-1) * right[i] + n[i]
  <2>1. i \in 0 .. FE_WORDS /\ i + 1 \in 0 .. FE_WORDS /\ c[i] \in 0 .. 1 /\ c[i + 1] \in 0 .. 1
    BY <1>1, <1>2 DEF Places
  <2>2. PICK l \in 0 .. Base - 1, r \in 0 .. Base - 1 : l = left[i] /\ r = right[i]
    BY DEF Element
  <2>3. PICK k \in 0 .. 1, d \in 0 .. 1 : k = c[i] /\ d = c[i + 1]
    BY <2>1
  <2>40. PICK b \in Nat : b = Base /\ b >= 2
    BY <1>1
  <2>41. /\ ((l - (r + k)) % (b * b)) % b \in 0 .. b - 1
         /\ (-(((l - (r + k)) % (b * b)) \div b)) % b \in 0 .. 1
         /\ (((l - (r + k)) % (b * b)) % b) - ((-(((l - (r + k)) % (b * b)) \div b)) % b) * b = l - r - k
    BY <2>40, DoubleDifference
  <2>4. /\ ((l - (r + k)) % (Base * Base)) % Base \in 0 .. Base - 1
        /\ (-(((l - (r + k)) % (Base * Base)) \div Base)) % Base \in 0 .. 1
        /\ (((l - (r + k)) % (Base * Base)) % Base) - ((-(((l - (r + k)) % (Base * Base)) \div Base)) % Base) * Base = l - r - k
    BY <2>40, <2>41
  <2>5. e[i] = ((l - (r + k)) % (Base * Base)) % Base /\ d = (-(((l - (r + k)) % (Base * Base)) \div Base)) % Base
    BY <1>2, <1>3, <2>2, <2>3
  <2>6. PICK x \in 0 .. Base - 1 : x = e[i] /\ x - d * Base = l - r - k
    BY <2>4, <2>5
  <2>7. n[i] = -k /\ n[i + 1] = -d
    BY <1>31, <2>1, <2>3
  <2>8. (-d) * Base = -(d * Base) /\ (-1) * r = -r /\ d * Base \in Int
    BY <1>1
  <2>9. x + (-d) * Base = l + (-1) * r + (-k)
    BY <2>6, <2>8
  <2>10. QED
    BY <2>2, <2>6, <2>7, <2>9
<1>5. e \in Element
  <2>1. e = [i \in Places |-> e[i]]
    BY <1>3
  <2>2. \A i \in Places : e[i] \in 0 .. Base - 1
    BY <1>4
  <2>3. QED
    BY <2>1, <2>2 DEF Element
<1>6. \A i \in 0 .. FE_WORDS : n[i] \in Int
  BY <1>1, <1>2, <1>31
<1>7. Value(e) + n[FE_WORDS] * Radix = Value(left) + (-1) * Value(right) + n[0]
  <2>1. \A i \in Places : e[i] + n[i + 1] * Base = left[i] + (-1) * right[i] + n[i]
    BY <1>4
  <2>2. -1 \in Int
    OBVIOUS
  <2>3. QED
    BY <1>5, <1>6, <2>1, <2>2, Chain
<1>8. s.fe = e /\ s.carry = c[FE_WORDS] /\ c[FE_WORDS] \in 0 .. 1
  BY <1>1, <1>2, <1>3
<1>9. e[0] = ((left[0] - (right[0] + first)) % (Base * Base)) % Base
  <2>1. 0 \in Places
    BY <1>1 DEF Places
  <2>2. QED
    BY <1>2, <1>3, <2>1
<1>10. Value(e) - c[FE_WORDS] * Radix = Value(left) - Value(right) - first
  <2>1. PICK d \in 0 .. 1 : d = c[FE_WORDS]
    BY <1>8
  <2>2. n[FE_WORDS] = -d /\ n[0] = -first
    BY <1>1, <1>2, <1>31, <2>1
  <2>3. Value(e) \in Int /\ Value(left) \in Int /\ Value(right) \in Int /\ Radix \in Nat
    BY <1>5, ValueBelow, Weights
  <2>4. (-d) * Radix = -(d * Radix) /\ d * Radix \in Int /\ (-1) * Value(right) = -Value(right)
    BY <2>3
  <2>5. Value(e) + (-d) * Radix = Value(left) + (-1) * Value(right) + (-first)
    BY <1>7, <2>2
  <2>6. Value(e) - d * Radix = Value(left) - Value(right) - first
    BY <2>3, <2>4, <2>5
  <2>7. QED
    BY <2>1, <2>6
<1>11. QED
  BY <1>2, <1>5, <1>8, <1>9, <1>10

--------------------------------------------------------------------------------
(* A word is found in the number.                                          *)

LEMMA HighPart ==
  ASSUME NEW a \in Element, NEW i \in 0 .. FE_WORDS
  PROVE  \E h \in Nat : Value(a) = h * Weight(i) + Lowest(a)[i]
<1>1. /\ FE_WORDS \in Nat \ {0} /\ Base \in Nat
      /\ \A j \in 0 .. FE_WORDS : Weight(j) \in Nat \ {0}
      /\ \A j \in 0 .. FE_WORDS - 1 : Weight(j + 1) = Base * Weight(j)
  BY Weights
<1>2. \A j \in Places : a[j] \in Nat
  BY <1>1 DEF Element
<1>3. PICK u : u = Lowest(a)
  OBVIOUS
<1>4. /\ \A j \in 0 .. FE_WORDS : u[j] \in Nat
      /\ \A j \in Places : u[j + 1] = u[j] + a[j] * Weight(j)
  BY <1>2, <1>3, LowestIs
<1>5. PICK v \in Nat \ {0} : v = Weight(i)
  BY <1>1
<1> DEFINE L == {n \in Nat : i + n <= FE_WORDS =>
                   /\ \E k \in Nat : Weight(i + n) = k * v
                   /\ \E h \in Nat : u[i + n] = h * v + u[i]}
<1>6. 0 \in L
  <2>1. i + 0 = i /\ Weight(i) = 1 * v /\ u[i] = 0 * v + u[i]
    BY <1>4, <1>5
  <2>2. QED
    BY <2>1
<1>7. ASSUME NEW n \in Nat, n \in L PROVE n + 1 \in L
  <2> SUFFICES ASSUME i + (n + 1) <= FE_WORDS
               PROVE  /\ \E k \in Nat : Weight(i + (n + 1)) = k * v
                      /\ \E h \in Nat : u[i + (n + 1)] = h * v + u[i]
    OBVIOUS
  <2>1. PICK m \in Places : m = i + n /\ m + 1 = i + (n + 1) /\ m \in 0 .. FE_WORDS /\ m \in 0 .. FE_WORDS - 1
    BY <1>1 DEF Places
  <2>2. i + n <= FE_WORDS
    BY <1>1
  <2>3. PICK k \in Nat : Weight(m) = k * v
    BY <1>7, <2>1, <2>2
  <2>4. PICK h \in Nat : u[m] = h * v + u[i]
    BY <1>7, <2>1, <2>2
  <2>5. PICK d \in Nat : d = a[m]
    BY <1>2, <2>1
  <2>6. PICK x \in Nat : x = u[i]
    BY <1>4
  <2>7. Weight(m + 1) = Base * (k * v) /\ Base * (k * v) = (Base * k) * v /\ Base * k \in Nat
    <3>1. Weight(m + 1) = Base * (k * v)
      BY <1>1, <2>1, <2>3
    <3>2. \A p, q, r \in Nat : p * (q * r) = (p * q) * r
      OBVIOUS
    <3>3. Base * k \in Nat
      BY <1>1
    <3>4. QED
      BY <1>1, <3>1, <3>2, <3>3
  <2>8. u[m + 1] = (h + d * k) * v + x /\ h + d * k \in Nat
    <3>1. u[m + 1] = (h * v + x) + d * (k * v)
      BY <1>4, <2>1, <2>3, <2>4, <2>5, <2>6
    <3>2. (h * v + x) + d * (k * v) = (h + d * k) * v + x
      OBVIOUS
    <3>3. QED
      BY <3>1, <3>2
  <2>9. QED
    BY <2>1, <2>6, <2>7, <2>8
<1> HIDE DEF L
<1>8. Nat \subseteq L
  BY <1>6, <1>7, Induction
<1>9. PICK n \in Nat : i + n = FE_WORDS
  BY <1>1
<1>10. \E h \in Nat : u[i + n] = h * v + u[i]
  BY <1>1, <1>8, <1>9 DEF L
<1>11. QED
  BY <1>3, <1>5, <1>9, <1>10 DEF Value

LEMMA Parts ==
  ASSUME NEW a \in Element, NEW i \in Places
  PROVE  \E h \in Nat : /\ Value(a) = h * (Base * Weight(i)) + (a[i] * Weight(i) + Lowest(a)[i])
                        /\ a[i] \in 0 .. Base - 1 /\ Weight(i) \in Nat \ {0}
                        /\ Lowest(a)[i] \in 0 .. Weight(i) - 1
<1>1. /\ FE_WORDS \in Nat \ {0} /\ Base \in Nat
      /\ \A j \in 0 .. FE_WORDS : Weight(j) \in Nat \ {0}
      /\ \A j \in 0 .. FE_WORDS - 1 : Weight(j + 1) = Base * Weight(j)
  BY Weights
<1>2. i \in 0 .. FE_WORDS /\ i + 1 \in 0 .. FE_WORDS /\ i \in 0 .. FE_WORDS - 1
  BY <1>1 DEF Places
<1>3. PICK h \in Nat : Value(a) = h * Weight(i + 1) + Lowest(a)[i + 1]
  BY <1>2, HighPart
<1>4. Lowest(a)[i + 1] = Lowest(a)[i] + a[i] * Weight(i) /\ Lowest(a)[i] \in Nat
  <2>1. \A j \in Places : a[j] \in Nat
    BY <1>1 DEF Element
  <2>2. QED
    BY <1>2, <2>1, LowestIs
<1>5. a[i] \in 0 .. Base - 1 /\ Weight(i) \in Nat \ {0}
  BY <1>1, <1>2 DEF Element
<1>6. Lowest(a)[i] \in 0 .. Weight(i) - 1
  BY <1>2, LowestBelow
<1>7. Weight(i + 1) = Base * Weight(i)
  BY <1>1, <1>2
<1>8. Lowest(a)[i + 1] = a[i] * Weight(i) + Lowest(a)[i]
  <2>1. PICK x \in Nat, y \in Nat : x = Lowest(a)[i] /\ y = a[i] * Weight(i)
    <3>1. a[i] * Weight(i) \in Int /\ a[i] * Weight(i) >= 0
      BY <1>5, Product
    <3>2. QED
      BY <1>4, <3>1
  <2>2. Lowest(a)[i + 1] = x + y
    BY <1>4, <2>1
  <2>3. QED
    BY <2>1, <2>2
<1>9. QED
  BY <1>3, <1>5, <1>6, <1>7, <1>8

LEMMA WordIs ==
  ASSUME NEW a \in Element, NEW i \in Places
  PROVE  a[i] = (Value(a) \div Weight(i)) % Base
<1>1. Base \in Nat \ {0}
  BY Weights
<1>2. PICK h \in Nat : /\ Value(a) = h * (Base * Weight(i)) + (a[i] * Weight(i) + Lowest(a)[i])
                       /\ a[i] \in 0 .. Base - 1 /\ Weight(i) \in Nat \ {0}
                       /\ Lowest(a)[i] \in 0 .. Weight(i) - 1
  BY Parts
<1>3. PICK v \in Nat \ {0}, x \in Nat : v = Weight(i) /\ x = Lowest(a)[i] /\ x < v
  BY <1>2
<1>4. PICK d \in 0 .. Base - 1 : d = a[i]
  BY <1>2
<1>5. PICK q \in Nat : q = h * Base + d
  BY <1>1
<1>6. Value(a) = q * v + x
  <2>1. h * (Base * v) + (d * v + x) = (h * Base + d) * v + x
    BY <1>1
  <2>2. QED
    BY <1>2, <1>3, <1>4, <1>5, <2>1
<1>7. Value(a) \div v = q
  <2>1. x \in Nat /\ x < v
    BY <1>3
  <2>2. (q * v + x) \div v = q
    BY <2>1, Quotient
  <2>3. QED
    BY <1>6, <2>2
<1>8. q % Base = d
  BY <1>1, <1>5, Quotient
<1>9. QED
  BY <1>3, <1>4, <1>7, <1>8

LEMMA Same ==
  ASSUME NEW a \in Element, NEW b \in Element
  PROVE  (Value(a) = Value(b)) = (a = b)
<1>1. ASSUME Value(a) = Value(b) PROVE a = b
  <2>1. \A i \in Places : a[i] = b[i]
    BY <1>1, WordIs
  <2>2. QED
    BY <2>1 DEF Element
<1>2. QED
  BY <1>1

LEMMA EqualIs ==
  ASSUME NEW a \in Element, NEW b \in Element
  PROVE  sb_fe_equal(a, b) = (Value(a) = Value(b))
<1>1. ASSUME \A i \in Places : a[i] = b[i] PROVE a = b
  BY <1>1 DEF Element
<1>2. QED
  BY <1>1, Same DEF sb_fe_equal

LEMMA ZeroIs == SB_FE_ZERO \in Element /\ Value(SB_FE_ZERO) = 0
<1>1. /\ FE_WORDS \in Nat \ {0} /\ Base \in Nat /\ Base >= 2
      /\ \A j \in 0 .. FE_WORDS : Weight(j) \in Nat \ {0}
  BY Weights
<1>2. PICK a : a = SB_FE_ZERO
  OBVIOUS
<1>3. \A i \in Places : a[i] = 0
  BY <1>2 DEF SB_FE_ZERO
<1>4. a \in Element
  BY <1>1, <1>2 DEF SB_FE_ZERO, Element
<1>5. PICK u : u = Lowest(a)
  OBVIOUS
<1>6. u[0] = 0 /\ \A j \in Places : u[j + 1] = u[j] + a[j] * Weight(j)
  BY <1>3, <1>5, LowestIs
<1> DEFINE L == {n \in Nat : n <= FE_WORDS => u[n] = 0}
<1>7. 0 \in L
  BY <1>6
<1>8. ASSUME NEW n \in Nat, n \in L PROVE n + 1 \in L
  <2> SUFFICES ASSUME n + 1 <= FE_WORDS PROVE u[n + 1] = 0
    OBVIOUS
  <2>1. n \in Places /\ u[n] = 0 /\ Weight(n) \in Nat
    BY <1>1, <1>8 DEF Places
  <2>2. QED
    BY <1>3, <1>6, <2>1
<1> HIDE DEF L
<1>9. Nat \subseteq L
  BY <1>7, <1>8, Induction
<1>10. u[FE_WORDS] = 0
  BY <1>1, <1>9 DEF L
<1>11. QED
  BY <1>2, <1>4, <1>5, <1>10 DEF Value

LEMMA OneIs == SB_FE_ONE \in Element /\ Value(SB_FE_ONE) = 1
<1>1. /\ FE_WORDS \in Nat \ {0} /\ Base \in Nat /\ Base >= 2
      /\ \A j \in 0 .. FE_WORDS : Weight(j) \in Nat \ {0}
      /\ Weight(0) = 1
  BY Weights
<1>2. PICK a : a = SB_FE_ONE
  OBVIOUS
<1>3. \A i \in Places : a[i] = IF i = 0 THEN 1 ELSE 0
  BY <1>2 DEF SB_FE_ONE
<1>4. a \in Element
  BY <1>1, <1>2 DEF SB_FE_ONE, Element
<1>5. PICK u : u = Lowest(a)
  OBVIOUS
<1>6. u[0] = 0 /\ \A j \in Places : u[j + 1] = u[j] + a[j] * Weight(j)
  <2>1. \A i \in Places : a[i] \in Nat
    BY <1>3
  <2>2. QED
    BY <1>5, <2>1, LowestIs
<1> DEFINE L == {n \in Nat : n + 1 <= FE_WORDS => u[n + 1] = 1}
<1>7. 0 \in L
  <2>1. 0 \in Places /\ 0 + 1 = 1
    BY <1>1 DEF Places
  <2>2. u[0 + 1] = u[0] + a[0] * Weight(0) /\ a[0] = 1
    BY <1>3, <1>6, <2>1
  <2>3. u[0 + 1] = 1
    BY <1>1, <1>6, <2>2
  <2>4. QED
    BY <2>3
<1>8. ASSUME NEW n \in Nat, n \in L PROVE n + 1 \in L
  <2> SUFFICES ASSUME (n + 1) + 1 <= FE_WORDS PROVE u[(n + 1) + 1] = 1
    OBVIOUS
  <2>1. PICK m \in Places : m = n + 1 /\ m # 0 /\ m \in 0 .. FE_WORDS
    BY <1>1 DEF Places
  <2>2. u[m] = 1 /\ Weight(m) \in Nat
    BY <1>1, <1>8, <2>1
  <2>3. u[m + 1] = u[m] + a[m] * Weight(m) /\ a[m] = 0
    BY <1>3, <1>6, <2>1
  <2>4. u[m + 1] = 1
    BY <2>2, <2>3
  <2>5. QED
    BY <2>1, <2>4
<1> HIDE DEF L
<1>9. Nat \subseteq L
  BY <1>7, <1>8, Induction
<1>10. u[FE_WORDS] = 1
  <2>1. PICK n \in Nat : n + 1 = FE_WORDS
    BY <1>1
  <2>2. QED
    BY <1>1, <1>9, <2>1 DEF L
<1>11. QED
  BY <1>2, <1>4, <1>5, <1>10 DEF Value

(* The sum, the difference, the order. *)
LEMMA AddIs ==
  ASSUME NEW l \in Element, NEW r \in Element, NEW s, s = sb_fe_add(l, r)
  PROVE  /\ s.fe \in Element /\ s.carry \in 0 .. 1
         /\ Value(s.fe) + s.carry * Radix = Value(l) + Value(r)
<1>1. Base \in Nat /\ Base >= 2 /\ Radix \in Nat \ {0}
  BY Weights
<1>2. 1 \in 0 .. Base - 1 /\ 0 \in 0 .. Base - 1
  BY <1>1
<1>3. s = sb_mult_add_add(l, 1, r, 0)
  BY DEF sb_fe_add
<1>4. /\ s.fe \in Element /\ s.carry \in 0 .. Base - 1
      /\ Value(s.fe) + s.carry * Radix = Value(l) + 1 * Value(r) + 0
  BY <1>2, <1>3, MultiplyAdd
<1>5. Value(l) \in 0 .. Radix - 1 /\ Value(r) \in 0 .. Radix - 1 /\ Value(s.fe) \in 0 .. Radix - 1
  BY <1>4, ValueBelow
<1>6. PICK c \in Nat : c = s.carry
  BY <1>1, <1>4
<1>7. c \in 0 .. 1
  <2>1. SUFFICES ASSUME 2 <= c PROVE FALSE
    OBVIOUS
  <2>2. 2 * Radix <= c * Radix /\ c * Radix \in Int
    BY <1>1, <2>1, Product
  <2>3. QED
    BY <1>1, <1>4, <1>5, <1>6, <2>2
<1>8. QED
  BY <1>4, <1>5, <1>6, <1>7

LEMMA LessIs ==
  ASSUME NEW l \in Element, NEW r \in Element
  PROVE  /\ sb_fe_lt(l, r) = (Value(l) < Value(r)) /\ sb_fe_lt(l, r) \in BOOLEAN
         /\ \A s : s = sb_fe_sub_borrow(l, r, 0) =>
                     s.carry = IF Value(l) < Value(r) THEN 1 ELSE 0
<1>1. Radix \in Nat \ {0}
  BY Weights
<1>2. PICK s : s = sb_fe_sub_borrow(l, r, 0)
  OBVIOUS
<1>3. /\ s.fe \in Element /\ s.carry \in 0 .. 1
      /\ Value(s.fe) - s.carry * Radix = Value(l) - Value(r) - 0
  BY <1>2, SubtractBorrow
<1>4. Value(l) \in 0 .. Radix - 1 /\ Value(r) \in 0 .. Radix - 1 /\ Value(s.fe) \in 0 .. Radix - 1
  BY <1>3, ValueBelow
<1>5. (s.carry = 1) = (Value(l) < Value(r))
  <2>1. CASE s.carry = 0
    BY <1>1, <1>3, <1>4, <2>1
  <2>2. CASE s.carry = 1
    BY <1>1, <1>3, <1>4, <2>2
  <2>3. QED
    BY <1>3, <2>1, <2>2
<1>6. QED
  BY <1>2, <1>3, <1>5 DEF sb_fe_lt

--------------------------------------------------------------------------------
(* Digits of a word are digits of the number.                              *)

LEMMA Nested ==
  ASSUME NEW x \in Nat, NEW a \in Nat \ {0}, NEW b \in Nat \ {0}
  PROVE  (x \div a) \div b = x \div (a * b) /\ a * b \in Nat \ {0}
<1>1. PICK q \in Nat, r \in Nat : q = x \div a /\ r = x % a /\ r < a /\ x = q * a + r
  BY Division
<1>2. PICK d \in Nat, e \in Nat : d = q \div b /\ e = q % b /\ e < b /\ q = d * b + e
  BY Division
<1>3. a * b \in Nat \ {0}
  <2>1. a * b = (a - 1) * b + b /\ (a - 1) * b \in Int /\ (a - 1) * b >= 0
    BY Product
  <2> DEFINE ab == a * b
             cb == (a - 1) * b
  <2>2. ab = cb + b /\ cb \in Int /\ cb >= 0
    BY <2>1
  <2> HIDE DEF ab, cb
  <2>3. ab \in Nat \ {0}
    BY <2>2
  <2>4. QED
    BY <2>3 DEF ab
<1>4. x = d * (a * b) + (e * a + r)
  <2>1. (d * b + e) * a + r = d * (a * b) + (e * a + r)
    OBVIOUS
  <2>2. QED
    BY <1>1, <1>2, <2>1
<1>5. e * a + r \in Nat /\ e * a + r < a * b
  <2>1. e + 1 <= b /\ e + 1 \in Int /\ b \in Int
    BY <1>2
  <2>2. (e + 1) * a <= b * a /\ (e + 1) * a = e * a + a /\ e * a \in Int /\ e * a >= 0 /\ b * a \in Int
    BY <2>1, Product
  <2>3. b * a = a * b
    OBVIOUS
  <2> DEFINE ea == e * a
             ba == b * a
             fa == (e + 1) * a
  <2>4. fa <= ba /\ fa = ea + a /\ ea \in Int /\ ea >= 0 /\ ba \in Int
    BY <2>2
  <2> HIDE DEF ea, ba, fa
  <2>5. ea + r \in Nat /\ ea + r < ba
    BY <1>1, <2>4
  <2>6. QED
    BY <2>3, <2>5 DEF ea, ba
<1>6. x \div (a * b) = d
  <2>1. PICK m \in Nat \ {0}, s \in Nat : m = a * b /\ s = e * a + r
    BY <1>3, <1>5
  <2>2. s < m
    BY <1>5, <2>1
  <2>3. (d * m + s) \div m = d
    BY <2>1, <2>2, Quotient
  <2>4. QED
    BY <1>4, <2>1, <2>3
<1>7. QED
  BY <1>1, <1>2, <1>3, <1>6

LEMMA TwoOf ==
  ASSUME NEW n \in 0 .. FE_BITS
  PROVE  Two[n] \in Nat \ {0} /\ \A k \in 0 .. n : Two[n] = Two[n - k] * Two[k] /\ n - k \in Nat
<1>1. FE_BITS \in Nat
  BY Sizes
<1>2. ASSUME NEW k \in 0 .. n PROVE Two[n] = Two[n - k] * Two[k] /\ n - k \in Nat
  <2>1. PICK m \in Nat : m = n - k /\ m + k = n /\ k \in Nat /\ m + k <= FE_BITS
    BY <1>1
  <2>2. Two[m + k] = Two[m] * Two[k]
    BY <2>1, TwoSum
  <2>3. QED
    BY <2>1, <2>2
<1>3. QED
  BY <1>2, TwoIs

LEMMA Digits ==
  ASSUME NEW a \in Element, NEW i \in Places, NEW m \in Nat, NEW n \in Nat, m + n <= WORD_BITS
  PROVE  /\ WORD_BITS * i + m \in 0 .. FE_BITS
         /\ (a[i] \div Two[m]) % Two[n] = (Value(a) \div Two[WORD_BITS * i + m]) % Two[n]
<1>1. /\ WORD_BITS \in Nat \ {0} /\ FE_WORDS \in Nat \ {0} /\ FE_BITS \in Nat
      /\ WORD_BITS * i \in 0 .. FE_BITS /\ WORD_BITS * i + WORD_BITS \in 0 .. FE_BITS
      /\ WORD_BITS \in 0 .. FE_BITS
  <2>1. i \in 0 .. FE_WORDS /\ i + 1 \in 0 .. FE_WORDS /\ i \in 0 .. FE_WORDS - 1 /\ 1 \in 0 .. FE_WORDS
    BY Sizes DEF Places
  <2>2. WORD_BITS * (i + 1) \in 0 .. FE_BITS /\ WORD_BITS * (i + 1) = WORD_BITS * i + WORD_BITS
    BY <2>1, Sizes
  <2>3. WORD_BITS * 1 \in 0 .. FE_BITS /\ WORD_BITS * 1 = WORD_BITS
    BY <2>1, Sizes
  <2>4. QED
    BY <2>1, <2>2, <2>3, Sizes
<1>2. PICK h \in Nat : /\ Value(a) = h * (Base * Weight(i)) + (a[i] * Weight(i) + Lowest(a)[i])
                       /\ a[i] \in 0 .. Base - 1 /\ Weight(i) \in Nat \ {0}
                       /\ Lowest(a)[i] \in 0 .. Weight(i) - 1
  BY Parts
<1>3. PICK v \in Nat \ {0}, x \in Nat : v = Weight(i) /\ x = Lowest(a)[i] /\ x < v
  BY <1>2
<1>4. PICK d \in Nat : d = a[i]
  BY <1>2, Weights
<1>5. PICK t \in Nat \ {0}, w \in Nat \ {0} : t = Two[m] /\ w = Two[n]
  BY <1>1, TwoIs
<1>6. PICK k \in Nat : Base = (k * w) * t
  <2>1. m \in 0 .. WORD_BITS /\ WORD_BITS - m \in 0 .. FE_BITS /\ n \in 0 .. WORD_BITS - m
    BY <1>1
  <2>2. Two[WORD_BITS] = Two[WORD_BITS - m] * Two[m]
    BY <1>1, <2>1, TwoOf
  <2>3. Two[WORD_BITS - m] = Two[(WORD_BITS - m) - n] * Two[n] /\ (WORD_BITS - m) - n \in Nat
    BY <2>1, TwoOf
  <2>4. (WORD_BITS - m) - n \in 0 .. FE_BITS
    BY <1>1, <2>3
  <2>5. Two[(WORD_BITS - m) - n] \in Nat
    BY <2>4, TwoIs
  <2>6. QED
    BY <1>5, <2>2, <2>3, <2>5 DEF Base
<1>7. Two[WORD_BITS * i + m] = v * t /\ WORD_BITS * i + m \in 0 .. FE_BITS
  <2>1. PICK c \in Nat : c = WORD_BITS * i /\ c + m <= FE_BITS
    BY <1>1
  <2>2. Two[c + m] = Two[c] * Two[m]
    BY <2>1, TwoSum
  <2>3. QED
    BY <1>1, <1>3, <1>5, <2>1, <2>2 DEF Weight
<1>8. PICK y \in Nat : y = d \div t
  BY <1>5, Division
<1>9. Value(a) \div v = h * Base + d
  <2>1. Value(a) = (h * Base + d) * v + x
    <3>1. Base \in Nat
      BY Weights
    <3>2. h * (Base * v) + (d * v + x) = (h * Base + d) * v + x
      BY <3>1
    <3>3. QED
      BY <1>2, <1>3, <1>4, <3>2
  <2>2. PICK q \in Nat : q = h * Base + d
    BY Weights
  <2>3. (q * v + x) \div v = q
    BY <1>3, <2>2, Quotient
  <2>4. QED
    BY <2>1, <2>2, <2>3
<1>10. (h * Base + d) \div t = (h * k) * w + y
  <2>0. PICK z \in Nat, r \in Nat : z = d \div t /\ r = d % t /\ r < t /\ d = z * t + r
    BY Division
  <2>1. r = d % t /\ r < t /\ d = y * t + r
    BY <1>8, <2>0
  <2>2. h * ((k * w) * t) + (y * t + r) = ((h * k) * w + y) * t + r
    BY <1>5
  <2>3. PICK q \in Nat : q = (h * k) * w + y
    BY <1>5
  <2>4. h * Base + d = q * t + r
    BY <1>6, <2>1, <2>2, <2>3
  <2>5. (q * t + r) \div t = q
    BY <2>1, <2>3, Quotient
  <2>6. QED
    BY <2>3, <2>4, <2>5
<1>11. ((h * k) * w + y) % w = y % w
  <2>1. PICK q \in Nat, r \in Nat : q = y \div w /\ r = y % w /\ r < w /\ y = q * w + r
    BY Division
  <2>2. PICK g \in Nat : g = h * k
    OBVIOUS
  <2>3. g * w + (q * w + r) = (g + q) * w + r
    OBVIOUS
  <2>4. g + q \in Nat
    OBVIOUS
  <2>5. ((g + q) * w + r) % w = r
    BY <2>1, <2>4, Quotient
  <2>6. QED
    BY <2>1, <2>2, <2>3, <2>5
<1>12. Value(a) \div (v * t) = (h * k) * w + y
  <2>1. Value(a) \in Nat
    BY ValueBelow, Weights
  <2>2. (Value(a) \div v) \div t = Value(a) \div (v * t)
    BY <2>1, Nested
  <2>3. QED
    BY <1>9, <1>10, <2>2
<1>13. QED
  BY <1>4, <1>5, <1>7, <1>8, <1>11, <1>12

LEMMA BitIs ==
  ASSUME NEW a \in Element, NEW k \in 0 .. FE_BITS - 1
  PROVE  sb_fe_test_bit(a, k) = (Value(a) \div Two[k]) % 2
<1>1. WORD_BITS \in Nat \ {0} /\ FE_WORDS \in Nat \ {0} /\ FE_BITS = WORD_BITS * FE_WORDS /\ FE_BITS \in Nat
  BY Sizes
<1>2. PICK i \in Nat, m \in Nat : i = k \div WORD_BITS /\ m = k % WORD_BITS /\ m < WORD_BITS /\ k = i * WORD_BITS + m
  BY <1>1, Division
<1>3. i \in Places
  <2>1. SUFFICES ASSUME FE_WORDS <= i PROVE FALSE
    BY <1>1 DEF Places
  <2>2. FE_WORDS * WORD_BITS <= i * WORD_BITS /\ i * WORD_BITS \in Int
    BY <1>1, <2>1, Product
  <2>3. FE_WORDS * WORD_BITS = FE_BITS
    BY <1>1
  <2> DEFINE iw == i * WORD_BITS
  <2>4. FE_BITS <= iw /\ iw \in Int /\ k = iw + m
    BY <1>2, <2>2, <2>3
  <2> HIDE DEF iw
  <2>5. QED
    BY <1>1, <1>2, <2>4
<1>4. Two[1] = 2
  <2>1. 0 \in 0 .. FE_BITS - 1
    BY <1>1, Sizes
  <2>2. Two[0 + 1] = 2 * Two[0] /\ Two[0] = 1
    BY <2>1, TwoIs
  <2>3. QED
    BY <2>2
<1>5. (a[i] \div Two[m]) % Two[1] = (Value(a) \div Two[WORD_BITS * i + m]) % Two[1]
  <2>1. m + 1 <= WORD_BITS
    BY <1>1, <1>2
  <2>2. QED
    BY <1>3, <2>1, Digits
<1>6. WORD_BITS * i + m = k
  <2>1. WORD_BITS * i = i * WORD_BITS
    BY <1>1
  <2>2. QED
    BY <1>2, <2>1
<1>7. QED
  BY <1>2, <1>4, <1>5, <1>6 DEF sb_fe_test_bit

--------------------------------------------------------------------------------
(* Numbers modulo another.                                                 *)

Congruent(x, y, p) == \E k \in Int : x = y + k * p

LEMMA CongruentRest ==
  ASSUME NEW x \in Int, NEW y \in Int, NEW p \in Nat \ {0}
  PROVE  Congruent(x, y, p) = (x % p = y % p)
<1>1. ASSUME Congruent(x, y, p) PROVE x % p = y % p
  <2>1. PICK k \in Int : x = y + k * p
    BY <1>1 DEF Congruent
  <2>2. PICK q \in Int, r \in Nat : r = y % p /\ r < p /\ y = q * p + r
    BY WholeDivision
  <2>3. (q * p + r) + k * p = (q + k) * p + r
    OBVIOUS
  <2>4. q + k \in Int
    OBVIOUS
  <2>5. ((q + k) * p + r) % p = r
    BY <2>2, <2>4, WholeQuotient
  <2>6. QED
    BY <2>1, <2>2, <2>3, <2>5
<1>2. ASSUME x % p = y % p PROVE Congruent(x, y, p)
  <2>1. PICK q \in Int, r \in Nat : r = y % p /\ r < p /\ y = q * p + r
    BY WholeDivision
  <2>2. PICK d \in Int, e \in Nat : e = x % p /\ e < p /\ x = d * p + e
    BY WholeDivision
  <2>3. d * p + r = (q * p + r) + (d - q) * p /\ d - q \in Int
    OBVIOUS
  <2>4. x = y + (d - q) * p
    BY <1>2, <2>1, <2>2, <2>3
  <2>5. QED
    BY <2>3, <2>4 DEF Congruent
<1>3. QED
  BY <1>1, <1>2 DEF Congruent

LEMMA RestCongruent ==
  ASSUME NEW x \in Int, NEW y \in Int, NEW p \in Nat \ {0}, x % p = y % p
  PROVE  Congruent(x, y, p)
<1>1. (x % p = y % p) = Congruent(x, y, p)
  BY CongruentRest, Zenon
<1>2. QED
  BY <1>1, Zenon

LEMMA CongruentHasRest ==
  ASSUME NEW x \in Int, NEW y \in Int, NEW p \in Nat \ {0}, Congruent(x, y, p)
  PROVE  x % p = y % p
<1>1. Congruent(x, y, p) = (x % p = y % p)
  BY CongruentRest
<1>2. QED
  BY <1>1, Zenon

LEMMA CongruentSame ==
  ASSUME NEW x \in Int, NEW p \in Nat
  PROVE  Congruent(x, x, p)
<1>1. x = x + 0 * p /\ 0 \in Int
  OBVIOUS
<1>2. QED
  BY <1>1 DEF Congruent

LEMMA CongruentBack ==
  ASSUME NEW x \in Int, NEW y \in Int, NEW p \in Nat, Congruent(x, y, p)
  PROVE  Congruent(y, x, p)
<1>1. PICK k \in Int : x = y + k * p
  BY DEF Congruent
<1>2. y = (y + k * p) + (-k) * p /\ -k \in Int
  OBVIOUS
<1>3. QED
  BY <1>1, <1>2 DEF Congruent

LEMMA CongruentThrough ==
  ASSUME NEW x \in Int, NEW y \in Int, NEW z \in Int, NEW p \in Nat,
         Congruent(x, y, p), Congruent(y, z, p)
  PROVE  Congruent(x, z, p)
<1>1. PICK k \in Int : x = y + k * p
  BY DEF Congruent
<1>2. PICK m \in Int : y = z + m * p
  BY DEF Congruent
<1>3. (z + m * p) + k * p = z + (m + k) * p /\ m + k \in Int
  OBVIOUS
<1>4. QED
  BY <1>1, <1>2, <1>3 DEF Congruent

LEMMA CongruentTimes ==
  ASSUME NEW x \in Int, NEW y \in Int, NEW u \in Int, NEW v \in Int, NEW p \in Nat,
         Congruent(x, y, p), Congruent(u, v, p)
  PROVE  Congruent(x * u, y * v, p)
<1>1. PICK k \in Int : x = y + k * p
  BY DEF Congruent
<1>2. PICK m \in Int : u = v + m * p
  BY DEF Congruent
<1>3. (y + k * p) * (v + m * p) = y * v + (y * m + k * v + k * (m * p)) * p
  OBVIOUS
<1>4. y * m + k * v + k * (m * p) \in Int
  OBVIOUS
<1>5. QED
  BY <1>1, <1>2, <1>3, <1>4 DEF Congruent

LEMMA CongruentUnique ==
  ASSUME NEW p \in Nat \ {0}, NEW x \in 1 .. p, NEW y \in 1 .. p, Congruent(x, y, p)
  PROVE  x = y
<1>1. PICK k \in Int : x = y + k * p
  BY DEF Congruent
<1>2. ~(k >= 1)
  <2>1. SUFFICES ASSUME 1 <= k PROVE FALSE
    OBVIOUS
  <2>2. 1 * p <= k * p /\ k * p \in Int /\ 1 * p = p
    BY <2>1, Product
  <2>3. QED
    BY <1>1, <2>2
<1>3. ~(k <= -1)
  <2>1. SUFFICES ASSUME k <= -1 PROVE FALSE
    OBVIOUS
  <2>2. k * p <= (-1) * p /\ k * p \in Int /\ (-1) * p = -p
    BY <2>1, Product
  <2>3. QED
    BY <1>1, <2>2
<1>4. k = 0
  BY <1>2, <1>3
<1>5. 0 * p = 0
  OBVIOUS
<1>6. QED
  BY <1>1, <1>4, <1>5

LEMMA CongruentHalf ==
  ASSUME NEW x \in Int, NEW y \in Int, NEW p \in Nat, p % 2 = 1, Congruent(2 * x, 2 * y, p)
  PROVE  Congruent(x, y, p)
<1>1. PICK k \in Int : 2 * x = 2 * y + k * p
  BY DEF Congruent
<1>2. PICK h \in Int : p = 2 * h + 1
  OBVIOUS
<1>3. k * (2 * h + 1) = 2 * (k * h) + k /\ k * h \in Int
  OBVIOUS
<1>4. PICK m \in Int : k = 2 * m
  <2>1. 2 * x = 2 * y + (2 * (k * h) + k)
    BY <1>1, <1>2, <1>3
  <2>2. k = 2 * (x - y - k * h) /\ x - y - k * h \in Int
    BY <1>3, <2>1
  <2>3. QED
    BY <2>2
<1>5. (2 * m) * p = 2 * (m * p) /\ m * p \in Int
  OBVIOUS
<1>6. 2 * x = 2 * y + 2 * (m * p)
  BY <1>1, <1>4, <1>5
<1>7. x = y + m * p
  <2> DEFINE mp == m * p
  <2>1. 2 * x = 2 * y + 2 * mp /\ mp \in Int
    BY <1>5, <1>6
  <2> HIDE DEF mp
  <2>2. x = y + mp
    BY <2>1
  <2>3. QED
    BY <2>2 DEF mp
<1>8. QED
  BY <1>7 DEF Congruent

LEMMA CongruentCancel ==
  ASSUME NEW x \in Int, NEW y \in Int, NEW p \in Nat, p % 2 = 1,
         NEW n \in 0 .. FE_BITS, Congruent(Two[n] * x, Two[n] * y, p)
  PROVE  Congruent(x, y, p)
<1>1. FE_BITS \in Nat
  BY Sizes
<1> DEFINE L == {k \in Nat : k <= FE_BITS =>
                   (Congruent(Two[k] * x, Two[k] * y, p) => Congruent(x, y, p))}
<1>2. 0 \in L
  <2>1. Two[0] = 1 /\ 1 * x = x /\ 1 * y = y
    BY TwoIs
  <2>2. QED
    BY <2>1
<1>3. ASSUME NEW k \in Nat, k \in L PROVE k + 1 \in L
  <2> SUFFICES ASSUME k + 1 <= FE_BITS, Congruent(Two[k + 1] * x, Two[k + 1] * y, p)
               PROVE  Congruent(x, y, p)
    OBVIOUS
  <2>1. k \in 0 .. FE_BITS - 1 /\ k \in 0 .. FE_BITS /\ k <= FE_BITS
    BY <1>1
  <2>2. PICK t \in Nat : t = Two[k] /\ Two[k + 1] = 2 * t
    BY <2>1, TwoIs
  <2>3. (2 * t) * x = 2 * (t * x) /\ (2 * t) * y = 2 * (t * y) /\ t * x \in Int /\ t * y \in Int
    OBVIOUS
  <2>4. Congruent(2 * (t * x), 2 * (t * y), p)
    BY <2>2, <2>3
  <2>5. Congruent(t * x, t * y, p)
    BY <2>3, <2>4, CongruentHalf
  <2>6. QED
    BY <1>3, <2>1, <2>2, <2>5
<1> HIDE DEF L
<1>4. Nat \subseteq L
  BY <1>2, <1>3, Induction
<1>5. QED
  BY <1>1, <1>4 DEF L

--------------------------------------------------------------------------------
(* The prime of a field.                                                   *)

LEMMA BaseEven == \E h \in Nat : Base = 4 * h
<1>1. WORD_BITS \in Nat \ {0, 1} /\ FE_BITS \in Nat /\ WORD_BITS <= FE_BITS
  <2>1. WORD_BITS * 1 \in 0 .. FE_BITS /\ WORD_BITS * 1 = WORD_BITS
    BY Sizes
  <2>2. WORD_BITS \in Nat \ {0, 1}
    BY FieldAssumption DEF FieldAssumption
  <2>3. QED
    BY <2>1, <2>2, Sizes
<1>2. PICK n \in Nat : WORD_BITS = (n + 1) + 1
  BY <1>1
<1>3. n \in 0 .. FE_BITS - 1 /\ n + 1 \in 0 .. FE_BITS - 1 /\ n \in 0 .. FE_BITS
  BY <1>1, <1>2
<1>4. Two[(n + 1) + 1] = 2 * Two[n + 1] /\ Two[n + 1] = 2 * Two[n] /\ Two[n] \in Nat
  BY <1>3, TwoIs
<1>5. PICK h \in Nat : h = Two[n]
  BY <1>4
<1>6. Base = 4 * h
  BY <1>2, <1>4, <1>5 DEF Base
<1>7. QED
  BY <1>6

LEMMA FieldIs ==
  ASSUME NEW f \in Fields
  PROVE  /\ f.p \in Element /\ f.r_mod_p \in Element /\ f.r2_mod_p \in Element
         /\ f.p_minus_two_f1 \in Element /\ f.p_minus_two_f2 \in Element
         /\ 2 * Value(f.p) > Radix /\ Value(f.p) + 1 < Radix /\ f.bits = FE_BITS
         /\ f.p_mp \in 0 .. Base - 1 /\ (f.p[0] * f.p_mp) % Base = Base - 1
         /\ Value(f.r_mod_p) = Radix % Value(f.p)
         /\ Value(f.r2_mod_p) > 0 /\ Value(f.r2_mod_p) = (Radix * Radix) % Value(f.p)
         /\ Value(f.p_minus_two_f1) * Value(f.p_minus_two_f2) = Value(f.p) - 2
         /\ \A b \in 1 .. Value(f.p) - 1 : Powers(b, Value(f.p), Value(f.p))[Value(f.p) - 1] = 1
BY FieldAssumption DEF FieldAssumption

LEMMA Parity ==
  ASSUME NEW a \in Element
  PROVE  a[0] % 2 = Value(a) % 2 /\ a[0] % 4 = Value(a) % 4 /\ a[0] = Value(a) % Base
<1>1. PICK h \in Nat : Base = 4 * h
  BY BaseEven
<1>2. 0 \in Places /\ Weight(0) = 1
  BY Weights DEF Places
<1>3. PICK k \in Nat : /\ Value(a) = k * (Base * Weight(0)) + (a[0] * Weight(0) + Lowest(a)[0])
                       /\ a[0] \in 0 .. Base - 1
                       /\ Lowest(a)[0] \in 0 .. Weight(0) - 1
  BY <1>2, Parts
<1>4. PICK d \in Nat : d = a[0] /\ d < Base
  BY <1>3, Weights
<1>5. Value(a) = k * Base + d
  <2>1. Lowest(a)[0] = 0
    BY <1>2, <1>3
  <2>2. Base \in Nat /\ Base * 1 = Base /\ d * 1 = d
    BY Weights
  <2>3. QED
    BY <1>2, <1>3, <1>4, <2>1, <2>2
<1>6. PICK q \in Nat : q = k * h
  OBVIOUS
<1>7. k * (4 * h) = 4 * (k * h)
  OBVIOUS
<1>8. Value(a) = 4 * q + d
  BY <1>1, <1>5, <1>6, <1>7
<1>9. Value(a) % 4 = d % 4 /\ Value(a) % 2 = d % 2
  BY <1>8
<1>10. (k * Base + d) % Base = d
  <2>1. Base \in Nat \ {0}
    BY Weights
  <2>2. QED
    BY <1>4, <2>1, Quotient
<1>11. QED
  BY <1>4, <1>5, <1>9, <1>10

LEMMA PrimeIs ==
  ASSUME NEW f \in Fields
  PROVE  /\ f.p \in Element /\ Value(f.p) \in Nat /\ Value(f.p) >= 3 /\ Value(f.p) % 2 = 1
         /\ 2 * Value(f.p) > Radix /\ Value(f.p) + 1 < Radix /\ Radix \in Nat
<1>1. /\ f.p \in Element /\ 2 * Value(f.p) > Radix /\ Value(f.p) + 1 < Radix
      /\ f.p_mp \in 0 .. Base - 1 /\ (f.p[0] * f.p_mp) % Base = Base - 1
      /\ Value(f.p_minus_two_f1) * Value(f.p_minus_two_f2) = Value(f.p) - 2
      /\ f.p_minus_two_f1 \in Element /\ f.p_minus_two_f2 \in Element
  BY FieldIs
<1>2. Radix \in Nat \ {0}
  BY Weights
<1>3. Value(f.p) \in Nat
  BY <1>1, <1>2, ValueBelow
<1>4. PICK h \in Nat : Base = 4 * h
  BY BaseEven
<1>5. PICK d \in Nat, m \in Nat : d = f.p[0] /\ m = f.p_mp
  <2>1. f.p[0] \in 0 .. Base - 1 /\ Base \in Nat
    BY <1>1, Weights DEF Element, Places
  <2>2. QED
    BY <1>1, <2>1
<1>6. d % 2 = 1
  <2>1. SUFFICES ASSUME d % 2 = 0 PROVE FALSE
    BY <1>5
  <2>2. PICK k \in Nat : d = 2 * k
    BY <2>1
  <2>3. PICK n \in Nat : n = k * m
    OBVIOUS
  <2>4. d * m = 2 * n /\ d * m \in Nat
    <3>1. (2 * k) * m = 2 * (k * m)
      OBVIOUS
    <3>2. QED
      BY <2>2, <2>3, <3>1
  <2>5. PICK q \in Nat : 2 * n = q * Base + (Base - 1)
    <3>1. Base \in Nat \ {0}
      BY Weights
    <3>2. 2 * n = ((2 * n) \div Base) * Base + ((2 * n) % Base) /\ (2 * n) \div Base \in Nat
      BY <3>1, Division
    <3>3. (2 * n) % Base = Base - 1
      BY <1>1, <1>5, <2>4
    <3>4. QED
      BY <3>2, <3>3
  <2>6. q * (4 * h) = 4 * (q * h) /\ q * h \in Int
    OBVIOUS
  <2>7. 2 * n = 4 * (q * h) + 4 * h - 1
    BY <1>4, <2>5, <2>6
  <2>8. QED
    BY <2>6, <2>7
<1>7. Value(f.p) % 2 = 1
  BY <1>1, <1>5, <1>6, Parity
<1>8. Value(f.p) >= 2
  <2>1. Value(f.p_minus_two_f1) \in Nat /\ Value(f.p_minus_two_f2) \in Nat
    BY <1>1, <1>2, ValueBelow
  <2>2. PICK x \in Nat, y \in Nat : x = Value(f.p_minus_two_f1) /\ y = Value(f.p_minus_two_f2)
    BY <2>1
  <2>3. x * y >= 0 /\ x * y \in Int
    BY Product
  <2>4. x * y = Value(f.p) - 2
    BY <1>1, <2>2
  <2>5. QED
    BY <1>3, <2>3, <2>4
<1>9. QED
  BY <1>1, <1>2, <1>3, <1>7, <1>8

--------------------------------------------------------------------------------
(* Reduction.                                                              *)

(* A number of at most two primes is quasi-reduced. *)
LEMMA QuasiReduced ==
  ASSUME NEW f \in Fields, NEW d \in Element, NEW c \in 0 .. 1, NEW n \in Nat,
         n = Value(d) + c * Radix, n >= 1, n <= 2 * Value(f.p),
         NEW q, q = sb_fe_qr(d, c, f)
  PROVE  /\ q \in Element
         /\ Value(q) = IF n > Value(f.p) THEN n - Value(f.p) ELSE n
<1>1. /\ f.p \in Element /\ Value(f.p) \in Nat
      /\ 2 * Value(f.p) > Radix /\ Value(f.p) + 1 < Radix /\ Radix \in Nat
  BY PrimeIs
<1>2. Value(d) \in 0 .. Radix - 1
  BY ValueBelow
<1>3. sb_fe_lt(f.p, d) = (Value(f.p) < Value(d))
  BY <1>1, LessIs
<1>4. CASE c = 1 \/ Value(f.p) < Value(d)
  <2>1. q = sb_fe_sub_borrow(d, f.p, 0).fe
    BY <1>3, <1>4 DEF sb_fe_qr, sb_fe_cond_sub_p
  <2>2. PICK s : s = sb_fe_sub_borrow(d, f.p, 0)
    OBVIOUS
  <2>3. /\ s.fe \in Element /\ s.carry \in 0 .. 1
        /\ Value(s.fe) - s.carry * Radix = Value(d) - Value(f.p) - 0
    BY <1>1, <2>2, SubtractBorrow
  <2>4. Value(s.fe) \in 0 .. Radix - 1
    BY <2>3, ValueBelow
  <2>5. Value(s.fe) = n - Value(f.p) /\ n > Value(f.p)
    <3>1. CASE c = 1
      <4>1. n = Value(d) + Radix
        BY <1>1, <1>2, <3>1
      <4>2. CASE s.carry = 0
        <5>1. Value(s.fe) = Value(d) - Value(f.p)
          BY <1>1, <1>2, <2>3, <2>4, <4>2
        <5>2. QED
          BY <1>1, <1>2, <2>4, <4>1, <5>1
      <4>3. CASE s.carry = 1
        <5>1. Value(s.fe) - Radix = Value(d) - Value(f.p)
          BY <1>1, <1>2, <2>3, <2>4, <4>3
        <5>2. QED
          BY <1>1, <1>2, <2>4, <4>1, <5>1
      <4>4. QED
        BY <2>3, <4>2, <4>3
    <3>2. CASE c = 0
      <4>1. n = Value(d) /\ Value(f.p) < Value(d)
        BY <1>1, <1>2, <1>4, <3>2
      <4>2. CASE s.carry = 0
        BY <1>1, <1>2, <2>3, <2>4, <4>1, <4>2
      <4>3. CASE s.carry = 1
        BY <1>1, <1>2, <2>3, <2>4, <4>1, <4>3
      <4>4. QED
        BY <2>3, <4>2, <4>3
    <3>3. QED
      BY <3>1, <3>2
  <2>6. QED
    BY <2>1, <2>2, <2>3, <2>5
<1>5. CASE ~(c = 1 \/ Value(f.p) < Value(d))
  <2>1. q = d
    BY <1>3, <1>5 DEF sb_fe_qr, sb_fe_cond_sub_p
  <2>2. n = Value(d) /\ n <= Value(f.p)
    BY <1>1, <1>2, <1>5
  <2>3. QED
    BY <1>1, <2>1, <2>2
<1>6. QED
  BY <1>4, <1>5

LEMMA ModSubIs ==
  ASSUME NEW f \in Fields, NEW l \in Element, NEW r \in Element,
         Value(r) <= Value(l) + Value(f.p), NEW d, d = sb_fe_mod_sub(l, r, f)
  PROVE  /\ d \in Element
         /\ Value(d) = IF Value(l) > Value(r) THEN Value(l) - Value(r)
                       ELSE Value(l) - Value(r) + Value(f.p)
<1>1. /\ f.p \in Element /\ Value(f.p) \in Nat
      /\ 2 * Value(f.p) > Radix /\ Value(f.p) + 1 < Radix /\ Radix \in Nat
  BY PrimeIs
<1>2. Value(l) \in 0 .. Radix - 1 /\ Value(r) \in 0 .. Radix - 1
  BY ValueBelow
<1>3. PICK s : s = sb_fe_sub_borrow(l, r, 1)
  OBVIOUS
<1>4. /\ s.fe \in Element /\ s.carry \in 0 .. 1
      /\ Value(s.fe) - s.carry * Radix = Value(l) - Value(r) - 1
  BY <1>3, SubtractBorrow
<1>5. Value(s.fe) \in 0 .. Radix - 1
  BY <1>4, ValueBelow
<1>6. PICK w \in 0 .. 1 : w = s.carry
  BY <1>4
<1>7. d = sb_mult_add_add(s.fe, w, f.p, 1).fe
  <2>1. w = IF s.carry = 1 THEN 1 ELSE 0
    BY <1>6
  <2>2. QED
    BY <1>3, <2>1 DEF sb_fe_mod_sub, sb_fe_cond_add_p_1
<1>8. PICK t : t = sb_mult_add_add(s.fe, w, f.p, 1)
  OBVIOUS
<1>9. Base \in Nat /\ Base >= 2 /\ w \in 0 .. Base - 1 /\ 1 \in 0 .. Base - 1
  BY Weights
<1>10. /\ t.fe \in Element /\ t.carry \in 0 .. Base - 1
       /\ Value(t.fe) + t.carry * Radix = Value(s.fe) + w * Value(f.p) + 1
  <2>1. PICK x \in Element, y \in Element : x = s.fe /\ y = f.p
    BY <1>1, <1>4
  <2>2. PICK v \in 0 .. Base - 1, u \in 0 .. Base - 1 : v = w /\ u = 1
    BY <1>9
  <2>3. t = sb_mult_add_add(x, v, y, u)
    BY <1>8, <2>1, <2>2
  <2>4. /\ t.fe \in Element /\ t.carry \in 0 .. Base - 1
        /\ Value(t.fe) + t.carry * Radix = Value(x) + v * Value(y) + u
    BY <2>3, MultiplyAdd
  <2>5. QED
    BY <2>1, <2>2, <2>4
<1>11. Value(t.fe) \in 0 .. Radix - 1
  BY <1>10, ValueBelow
<1>12. PICK k \in Nat : k = t.carry
  BY <1>9, <1>10
<1>13. k = 0 \/ (k * Radix >= Radix /\ k * Radix \in Int)
  <2>1. CASE 1 <= k
    <3>1. 1 * Radix <= k * Radix /\ k * Radix \in Int /\ 1 * Radix = Radix
      BY <1>1, <2>1, Product
    <3>2. QED
      BY <3>1
  <2>2. QED
    BY <2>1
<1>14. Value(t.fe) = IF Value(l) > Value(r) THEN Value(l) - Value(r)
                     ELSE Value(l) - Value(r) + Value(f.p)
  <2>1. CASE w = 0
    <3>1. Value(s.fe) = Value(l) - Value(r) - 1
      BY <1>1, <1>2, <1>4, <1>5, <1>6, <2>1
    <3>2. Value(t.fe) + k * Radix = Value(l) - Value(r)
      BY <1>1, <1>2, <1>5, <1>10, <1>12, <2>1, <3>1
    <3>3. k = 0
      BY <1>1, <1>2, <1>11, <1>13, <3>2
    <3>4. Value(t.fe) = Value(l) - Value(r)
      BY <1>1, <1>2, <1>11, <3>2, <3>3
    <3>5. QED
      BY <1>2, <1>5, <3>1, <3>4
  <2>2. CASE w = 1
    <3>1. Value(s.fe) = Value(l) - Value(r) - 1 + Radix
      BY <1>1, <1>2, <1>4, <1>5, <1>6, <2>2
    <3>2. Value(t.fe) + k * Radix = Value(l) - Value(r) + Value(f.p) + Radix
      BY <1>1, <1>2, <1>5, <1>10, <1>12, <2>2, <3>1
    <3>3. Value(l) <= Value(r)
      BY <1>1, <1>2, <1>5, <3>1
    <3>4. k = 1
      <4>1. k # 0
        BY <1>1, <1>2, <1>11, <3>2
      <4>2. ~(2 <= k)
        <5>1. SUFFICES ASSUME 2 <= k PROVE FALSE
          OBVIOUS
        <5>2. 2 * Radix <= k * Radix /\ k * Radix \in Int
          BY <1>1, <5>1, Product
        <5>3. QED
          BY <1>1, <1>2, <1>11, <3>2, <3>3, <5>2
      <4>3. QED
        BY <4>1, <4>2
    <3>5. Value(t.fe) = Value(l) - Value(r) + Value(f.p)
      <4>1. 1 * Radix = Radix
        BY <1>1
      <4>2. Value(t.fe) + Radix = Value(l) - Value(r) + Value(f.p) + Radix
        BY <3>2, <3>4, <4>1
      <4>3. PICK x \in Int, y \in Int : x = Value(t.fe) /\ y = Value(l)
        BY <1>1, <1>2, <1>11
      <4>4. PICK z \in Int, o \in Int : z = Value(r) /\ o = Value(f.p)
        BY <1>1, <1>2
      <4>5. PICK n \in Int : n = Radix
        BY <1>1
      <4>6. x + n = y - z + o + n
        BY <4>2, <4>3, <4>4, <4>5
      <4>7. x = y - z + o
        BY <4>6
      <4>8. QED
        BY <4>3, <4>4, <4>7
    <3>6. QED
      BY <1>2, <3>3, <3>5
  <2>3. QED
    BY <2>1, <2>2
<1>15. QED
  BY <1>7, <1>8, <1>10, <1>14

LEMMA Residue ==
  ASSUME NEW x \in Int, NEW n \in Int, NEW p \in Nat \ {0}, x = n \/ x = n - p \/ x = n + p
  PROVE  x % p = n % p
<1>1. CASE x = n
  BY <1>1
<1>2. CASE x = n - p
  <2>1. x = n + (-1) * p /\ -1 \in Int
    BY <1>2
  <2>2. Congruent(x, n, p)
    BY <2>1 DEF Congruent
  <2>3. QED
    BY <2>2, CongruentRest
<1>3. CASE x = n + p
  <2>1. x = n + 1 * p /\ 1 \in Int
    BY <1>3
  <2>2. Congruent(x, n, p)
    BY <2>1 DEF Congruent
  <2>3. QED
    BY <2>2, CongruentRest
<1>4. QED
  BY <1>1, <1>2, <1>3

LEMMA ModReduceIs ==
  ASSUME NEW f \in Fields, NEW a \in Element, NEW r, r = sb_fe_mod_reduce(a, f)
  PROVE  r \in Element /\ Is(r, Value(a), Value(f.p))
<1>1. /\ f.p \in Element /\ Value(f.p) \in Nat /\ Value(f.p) >= 3
      /\ 2 * Value(f.p) > Radix /\ Value(f.p) + 1 < Radix /\ Radix \in Nat
  BY PrimeIs
<1>2. Value(a) \in 0 .. Radix - 1
  BY ValueBelow
<1>3. PICK s : s = sb_fe_add(a, SB_FE_ONE)
  OBVIOUS
<1>4. /\ s.fe \in Element /\ s.carry \in 0 .. 1
      /\ Value(s.fe) + s.carry * Radix = Value(a) + Value(SB_FE_ONE)
  BY <1>3, OneIs, AddIs
<1>5. PICK d \in Element, c \in 0 .. 1 : d = s.fe /\ c = s.carry
  BY <1>4
<1>6. PICK n \in Nat : n = Value(a) + 1 /\ n >= 1 /\ n <= 2 * Value(f.p)
  BY <1>1, <1>2
<1>7. n = Value(d) + c * Radix
  BY <1>4, <1>5, <1>6, OneIs
<1>8. PICK q : q = sb_fe_qr(d, c, f)
  OBVIOUS
<1>9. q \in Element /\ Value(q) = IF n > Value(f.p) THEN n - Value(f.p) ELSE n
  BY <1>6, <1>7, <1>8, QuasiReduced
<1>10. r = sb_fe_mod_sub(q, SB_FE_ONE, f)
  BY <1>3, <1>5, <1>8 DEF sb_fe_mod_reduce
<1>11. PICK one \in Element : one = SB_FE_ONE /\ Value(one) = 1
  BY OneIs
<1>12. Value(one) <= Value(q) + Value(f.p)
  BY <1>1, <1>2, <1>6, <1>9, <1>11
<1>13. /\ r \in Element
       /\ Value(r) = IF Value(q) > Value(one) THEN Value(q) - Value(one)
                     ELSE Value(q) - Value(one) + Value(f.p)
  BY <1>9, <1>10, <1>11, <1>12, ModSubIs
<1>14. PICK x \in Int, p \in Nat : x = Value(a) /\ p = Value(f.p)
  BY <1>1, <1>2
<1>15. Value(r) \in 1 .. p /\ (Value(r) = x \/ Value(r) = x - p \/ Value(r) = x + p)
  <2>1. CASE n > p
    <3>1. Value(q) = x + 1 - p
      BY <1>6, <1>9, <1>14, <2>1
    <3>2. CASE x + 1 - p > 1
      BY <1>1, <1>2, <1>6, <1>11, <1>13, <1>14, <2>1, <3>1, <3>2
    <3>3. CASE ~(x + 1 - p > 1)
      <4>1. Value(r) = x + 1 - p - 1 + p
        BY <1>11, <1>13, <1>14, <3>1, <3>3
      <4>2. x = p /\ p >= 3 /\ p \in Nat
        BY <1>1, <1>2, <1>6, <1>14, <2>1, <3>3
      <4>3. Value(r) = x
        BY <4>1, <4>2
      <4>4. QED
        BY <4>2, <4>3
    <3>4. QED
      BY <3>2, <3>3
  <2>2. CASE ~(n > p)
    <3>1. Value(q) = x + 1
      BY <1>6, <1>9, <1>14, <2>2
    <3>2. CASE x > 0
      BY <1>1, <1>2, <1>6, <1>11, <1>13, <1>14, <2>2, <3>1, <3>2
    <3>3. CASE ~(x > 0)
      BY <1>1, <1>2, <1>6, <1>11, <1>13, <1>14, <2>2, <3>1, <3>3
    <3>4. QED
      BY <3>2, <3>3
  <2>3. QED
    BY <2>1, <2>2
<1>16. Value(r) % p = x % p
  BY <1>1, <1>14, <1>15, Residue
<1>17. QED
  BY <1>13, <1>14, <1>15, <1>16 DEF Is

LEMMA ReduceFullIs ==
  ASSUME NEW f \in Fields, NEW a \in Element, Value(a) \in 1 .. Value(f.p),
         NEW r, r = sb_fe_mod_reduce_full(a, f)
  PROVE  r \in Element /\ Value(r) = Value(a) % Value(f.p)
<1>1. /\ f.p \in Element /\ Value(f.p) \in Nat /\ Value(f.p) >= 3
      /\ 2 * Value(f.p) > Radix /\ Value(f.p) + 1 < Radix /\ Radix \in Nat
  BY PrimeIs
<1>2. sb_fe_lt(a, f.p) = (Value(a) < Value(f.p))
  BY <1>1, LessIs
<1>3. CASE Value(a) < Value(f.p)
  <2>1. r = a
    BY <1>2, <1>3 DEF sb_fe_mod_reduce_full, sb_fe_cond_sub_p
  <2>2. QED
    BY <1>1, <1>3, <2>1, Below
<1>4. CASE Value(a) = Value(f.p)
  <2>1. PICK s : s = sb_fe_sub_borrow(a, f.p, 0)
    OBVIOUS
  <2>9. ~(Value(a) < Value(f.p))
    BY <1>1, <1>4
  <2>0. ~sb_fe_lt(a, f.p)
    BY <1>2, <2>9, Zenon
  <2>2. r = s.fe
    BY <2>0, <2>1 DEF sb_fe_mod_reduce_full, sb_fe_cond_sub_p
  <2>3. /\ s.fe \in Element /\ s.carry \in 0 .. 1
        /\ Value(s.fe) - s.carry * Radix = Value(a) - Value(f.p) - 0
    BY <1>1, <2>1, SubtractBorrow
  <2>4. Value(s.fe) \in 0 .. Radix - 1
    BY <2>3, ValueBelow
  <2>5. Value(s.fe) = 0
    <3>1. CASE s.carry = 0
      BY <1>1, <1>4, <2>3, <2>4, <3>1
    <3>2. CASE s.carry = 1
      BY <1>1, <1>4, <2>3, <2>4, <3>2
    <3>3. QED
      BY <2>3, <3>1, <3>2
  <2>6. PICK p \in Nat \ {0} : p = Value(f.p)
    BY <1>1
  <2>7. (1 * p + 0) % p = 0 /\ 1 * p + 0 = p
    BY Quotient
  <2>8. QED
    BY <1>4, <2>2, <2>3, <2>5, <2>6, <2>7
<1>5. QED
  BY <1>1, <1>3, <1>4

LEMMA ModAddIs ==
  ASSUME NEW f \in Fields, NEW a \in Element, Value(a) \in 1 .. Value(f.p),
         NEW b \in Element, Value(b) \in 1 .. Value(f.p),
         NEW r, r = sb_fe_mod_add(a, b, f)
  PROVE  r \in Element /\ Is(r, Value(a) + Value(b), Value(f.p))
<1>1. /\ f.p \in Element /\ Value(f.p) \in Nat /\ Value(f.p) >= 3 /\ Radix \in Nat
  BY PrimeIs
<1>2. PICK s : s = sb_fe_add(a, b)
  OBVIOUS
<1>3. /\ s.fe \in Element /\ s.carry \in 0 .. 1
      /\ Value(s.fe) + s.carry * Radix = Value(a) + Value(b)
  BY <1>2, AddIs
<1>4. PICK d \in Element, c \in 0 .. 1 : d = s.fe /\ c = s.carry
  BY <1>3
<1>5. PICK n \in Nat : n = Value(a) + Value(b) /\ n >= 1 /\ n <= 2 * Value(f.p)
  BY <1>1
<1>6. n = Value(d) + c * Radix
  BY <1>3, <1>4, <1>5
<1>7. r = sb_fe_qr(d, c, f)
  BY <1>2, <1>4 DEF sb_fe_mod_add
<1>8. r \in Element /\ Value(r) = IF n > Value(f.p) THEN n - Value(f.p) ELSE n
  BY <1>5, <1>6, <1>7, QuasiReduced
<1>9. PICK p \in Nat \ {0} : p = Value(f.p)
  BY <1>1
<1>10. Value(r) \in 1 .. p /\ (Value(r) = n \/ Value(r) = n - p \/ Value(r) = n + p)
  BY <1>5, <1>8, <1>9
<1>11. Value(r) % p = n % p
  BY <1>10, Residue
<1>12. QED
  BY <1>5, <1>8, <1>9, <1>10, <1>11 DEF Is

LEMMA ModSubtractIs ==
  ASSUME NEW f \in Fields, NEW a \in Element, Value(a) \in 1 .. Value(f.p),
         NEW b \in Element, Value(b) \in 1 .. Value(f.p),
         NEW r, r = sb_fe_mod_sub(a, b, f)
  PROVE  r \in Element /\ Is(r, Value(a) - Value(b), Value(f.p))
<1>1. PICK p \in Nat \ {0} : p = Value(f.p)
  BY PrimeIs
<1>2. PICK x \in 1 .. p, y \in 1 .. p : x = Value(a) /\ y = Value(b)
  BY <1>1
<1>3. /\ r \in Element
      /\ Value(r) = IF Value(a) > Value(b) THEN Value(a) - Value(b)
                    ELSE Value(a) - Value(b) + Value(f.p)
  <2>1. Value(b) <= Value(a) + Value(f.p)
    BY <1>1, <1>2
  <2>2. QED
    BY <2>1, ModSubIs
<1>4. Value(r) \in 1 .. p /\ (Value(r) = x - y \/ Value(r) = x - y - p \/ Value(r) = x - y + p)
  BY <1>1, <1>2, <1>3
<1>5. Value(r) % p = (x - y) % p
  <2>1. x - y \in Int
    OBVIOUS
  <2>2. QED
    BY <1>4, <2>1, Residue
<1>6. QED
  BY <1>1, <1>2, <1>3, <1>4, <1>5 DEF Is

LEMMA NegateIs ==
  ASSUME NEW f \in Fields, NEW a \in Element, Value(a) \in 1 .. Value(f.p),
         NEW r, r = sb_fe_mod_negate(a, f)
  PROVE  r \in Element /\ Is(r, -Value(a), Value(f.p))
<1>1. PICK p \in Nat \ {0} : p = Value(f.p) /\ f.p \in Element
  BY PrimeIs
<1>2. PICK x \in 1 .. p : x = Value(a)
  BY <1>1
<1>3. r = sb_fe_mod_sub(f.p, a, f)
  BY DEF sb_fe_mod_negate
<1>4. PICK m \in Element : m = f.p /\ Value(m) = p
  BY <1>1
<1>5. r = sb_fe_mod_sub(m, a, f) /\ Value(m) \in 1 .. Value(f.p)
  BY <1>1, <1>3, <1>4
<1>6. r \in Element /\ Is(r, Value(m) - Value(a), Value(f.p))
  BY <1>5, ModSubtractIs
<1>7. Value(r) \in 1 .. p /\ Value(r) % p = (p - x) % p
  BY <1>1, <1>2, <1>4, <1>6 DEF Is
<1>8. (p - x) % p = (-x) % p
  <2>1. p - x = -x + p /\ -x \in Int /\ p - x \in Int
    OBVIOUS
  <2>2. QED
    BY <2>1, Residue
<1>9. QED
  BY <1>1, <1>2, <1>6, <1>7, <1>8 DEF Is

LEMMA DoubleIs ==
  ASSUME NEW f \in Fields, NEW a \in Element, Value(a) \in 1 .. Value(f.p),
         NEW r, r = sb_fe_mod_double(a, f)
  PROVE  r \in Element /\ Is(r, 2 * Value(a), Value(f.p))
<1>1. r \in Element /\ Is(r, Value(a) + Value(a), Value(f.p))
  BY ModAddIs DEF sb_fe_mod_double
<1>2. Value(a) + Value(a) = 2 * Value(a)
  BY PrimeIs
<1>3. QED
  BY <1>1, <1>2

--------------------------------------------------------------------------------
(* Halving.                                                                *)

LEMMA ShiftIs ==
  ASSUME NEW a \in Element, NEW e, e = sb_fe_rshift_w(a, 1)
  PROVE  e \in Element /\ Value(a) = 2 * Value(e) + (Value(a) % 2)
<1>1. /\ FE_WORDS \in Nat \ {0} /\ Base \in Nat /\ Base >= 2 /\ Radix \in Nat \ {0}
  BY Weights
<1>2. PICK h \in Nat \ {0} : h = Two[WORD_BITS - 1] /\ Base = 2 * h
  <2>1. WORD_BITS - 1 \in 0 .. FE_BITS - 1 /\ (WORD_BITS - 1) + 1 = WORD_BITS
        /\ WORD_BITS - 1 \in 0 .. FE_BITS
    <3>1. WORD_BITS * 1 \in 0 .. FE_BITS /\ WORD_BITS * 1 = WORD_BITS
      BY Sizes
    <3>2. QED
      BY <3>1, Sizes
  <2>2. Two[(WORD_BITS - 1) + 1] = 2 * Two[WORD_BITS - 1] /\ Two[WORD_BITS - 1] \in Nat \ {0}
    BY <2>1, TwoIs
  <2>3. QED
    BY <2>1, <2>2 DEF Base
<1>3. Two[1] = 2
  <2>1. 0 \in 0 .. FE_BITS - 1
    <3>1. FE_BITS >= 1
      <4>1. WORD_BITS * 1 \in 0 .. FE_BITS /\ WORD_BITS * 1 = WORD_BITS
        BY Sizes
      <4>2. QED
        BY <4>1, Sizes
    <3>2. QED
      BY <3>1, Sizes
  <2>2. Two[0 + 1] = 2 * Two[0] /\ Two[0] = 1
    BY <2>1, TwoIs
  <2>3. QED
    BY <2>2
<1>4. PICK c : c = [i \in 0 .. FE_WORDS |-> IF i < FE_WORDS THEN a[i] % 2 ELSE 0]
  OBVIOUS
<1>5. \A i \in Places : a[i] \in 0 .. Base - 1
  BY DEF Element
<1>6. e = [i \in Places |-> a[i] \div 2
             + (IF i = FE_WORDS - 1 THEN 0 ELSE (a[i + 1] * h) % Base)]
  BY <1>2, <1>3 DEF sb_fe_rshift_w
<1>7. ASSUME NEW i \in Places PROVE e[i] = a[i] \div 2 + c[i + 1] * h
  <2>1. i + 1 \in 0 .. FE_WORDS /\ i \in Nat /\ i < FE_WORDS
    BY <1>1 DEF Places
  <2>2. CASE i = FE_WORDS - 1
    <3>1. c[i + 1] = 0
      BY <1>1, <1>4, <2>1, <2>2
    <3>2. 0 * h = 0 /\ a[i] \div 2 \in Int
      BY <1>1, <1>5
    <3>3. QED
      BY <1>6, <2>2, <3>1, <3>2
  <2>3. CASE i # FE_WORDS - 1
    <3>1. i + 1 \in Places /\ i + 1 < FE_WORDS
      BY <1>1, <2>1, <2>3 DEF Places
    <3>2. PICK d \in Nat : d = a[i + 1]
      BY <1>1, <1>5, <3>1
    <3>3. c[i + 1] = d % 2
      BY <1>4, <2>1, <3>1, <3>2
    <3>4. PICK q \in Nat, r \in 0 .. 1 : r = d % 2 /\ d = 2 * q + r
      BY <3>2
    <3>5. d * h = q * Base + r * h
      <4>1. (2 * q + r) * h = q * (2 * h) + r * h
        OBVIOUS
      <4>2. QED
        BY <1>2, <3>4, <4>1
    <3>6. r * h \in Nat /\ r * h < Base
      <4>1. CASE r = 0
        BY <1>1, <1>2, <4>1
      <4>2. CASE r = 1
        BY <1>1, <1>2, <4>2
      <4>3. QED
        BY <4>1, <4>2
    <3>7. (d * h) % Base = r * h
      <4>1. PICK m \in Nat, b \in Nat \ {0} : m = r * h /\ b = Base /\ m < b
        BY <1>1, <3>6
      <4>2. (q * b + m) % b = m
        BY <4>1, Quotient
      <4>3. QED
        BY <3>5, <4>1, <4>2
    <3>8. e[i] = a[i] \div 2 + ((a[i + 1] * h) % Base)
      BY <1>6, <2>3
    <3>9. QED
      BY <3>2, <3>3, <3>4, <3>7, <3>8
  <2>4. QED
    BY <2>2, <2>3
<1>8. \A i \in 0 .. FE_WORDS : c[i] \in 0 .. 1
  <2> SUFFICES ASSUME NEW i \in 0 .. FE_WORDS PROVE c[i] \in 0 .. 1
    OBVIOUS
  <2>1. CASE i < FE_WORDS
    <3>1. i \in Places
      BY <1>1, <2>1 DEF Places
    <3>2. PICK d \in Nat : d = a[i]
      BY <1>1, <1>5, <3>1
    <3>3. c[i] = d % 2
      BY <1>4, <2>1, <3>2
    <3>4. QED
      BY <3>3
  <2>2. CASE ~(i < FE_WORDS)
    BY <1>4, <2>2
  <2>3. QED
    BY <2>1, <2>2
<1>9. ASSUME NEW i \in Places
      PROVE  /\ e[i] \in 0 .. Base - 1
             /\ a[i] + c[i + 1] * Base = 0 + 2 * e[i] + c[i]
  <2>1. i + 1 \in 0 .. FE_WORDS /\ i \in Nat /\ i < FE_WORDS /\ i \in 0 .. FE_WORDS
    BY <1>1 DEF Places
  <2>2. PICK d \in Nat : d = a[i] /\ d <= Base - 1
    BY <1>1, <1>5
  <2>3. c[i] = d % 2
    BY <1>4, <2>1, <2>2
  <2>4. PICK q \in Nat, r \in 0 .. 1 : q = d \div 2 /\ r = d % 2 /\ d = 2 * q + r
    BY <2>2
  <2>5. PICK k \in 0 .. 1 : k = c[i + 1]
    BY <1>8, <2>1
  <2>6. e[i] = q + k * h
    BY <1>7, <2>2, <2>4, <2>5
  <2>7. CASE k = 0
    <3>1. e[i] = q
      BY <1>2, <2>6, <2>7
    <3>2. QED
      BY <1>1, <1>2, <2>2, <2>3, <2>4, <2>5, <2>7, <3>1
  <2>8. CASE k = 1
    <3>1. e[i] = q + h
      BY <1>2, <2>6, <2>8
    <3>2. q < h
      BY <1>2, <2>2, <2>4
    <3>3. QED
      BY <1>1, <1>2, <2>2, <2>3, <2>4, <2>5, <2>8, <3>1, <3>2
  <2>9. QED
    BY <2>7, <2>8
<1>10. e \in Element
  <2>1. e = [i \in Places |-> e[i]]
    BY <1>6
  <2>2. \A i \in Places : e[i] \in 0 .. Base - 1
    BY <1>9
  <2>3. QED
    BY <2>1, <2>2 DEF Element
<1>11. PICK z \in Element : (\A i \in Places : z[i] = 0) /\ Value(z) = 0
  <2>1. \A i \in Places : SB_FE_ZERO[i] = 0
    BY DEF SB_FE_ZERO
  <2>2. QED
    BY <2>1, ZeroIs
<1>12. Value(a) + c[FE_WORDS] * Radix = Value(z) + 2 * Value(e) + c[0]
  <2>1. \A i \in Places : a[i] + c[i + 1] * Base = z[i] + 2 * e[i] + c[i]
    BY <1>9, <1>11
  <2>2. \A i \in 0 .. FE_WORDS : c[i] \in Int
    BY <1>8
  <2>3. 2 \in Int
    OBVIOUS
  <2>4. QED
    BY <1>10, <2>1, <2>2, <2>3, Chain
<1>13. c[FE_WORDS] = 0 /\ c[0] = a[0] % 2
  BY <1>1, <1>4
<1>14. a[0] % 2 = Value(a) % 2
  BY Parity
<1>15. Value(a) \in Nat /\ Value(e) \in Nat
  BY <1>1, <1>10, ValueBelow
<1>16. QED
  BY <1>1, <1>10, <1>11, <1>12, <1>13, <1>14, <1>15

LEMMA HalveIs ==
  ASSUME NEW f \in Fields, NEW a \in Element, Value(a) \in 1 .. Value(f.p),
         NEW r, r = sb_fe_mod_halve(a, f)
  PROVE  /\ r \in Element /\ Value(r) \in 1 .. Value(f.p)
         /\ (2 * Value(r)) % Value(f.p) = Value(a) % Value(f.p)
<1>1. PICK p \in Nat \ {0} : p = Value(f.p) /\ p >= 3 /\ p % 2 = 1 /\ p < Radix /\ Radix \in Nat
  BY PrimeIs
<1>2. PICK x \in 1 .. p : x = Value(a)
  BY <1>1
<1>3. PICK m \in Element : m = f.p
  BY PrimeIs
<1>4. sb_fe_test_bit(a, 0) = x % 2
  <2>1. 0 \in 0 .. FE_BITS - 1
    <3>1. WORD_BITS * 1 \in 0 .. FE_BITS /\ WORD_BITS * 1 = WORD_BITS
      BY Sizes
    <3>2. QED
      BY <3>1, Sizes
  <2>2. sb_fe_test_bit(a, 0) = (Value(a) \div Two[0]) % 2
    BY <2>1, BitIs
  <2>3. Two[0] = 1 /\ x \div 1 = x
    BY TwoIs
  <2>4. QED
    BY <1>2, <2>2, <2>3
<1>5. CASE x % 2 = 0
  <2>1. r = sb_fe_rshift_w(a, 1)
    BY <1>4, <1>5 DEF sb_fe_mod_halve
  <2>2. r \in Element /\ Value(a) = 2 * Value(r) + (Value(a) % 2)
    BY <2>1, ShiftIs
  <2>3. Value(r) \in Nat
    BY <2>2, ValueBelow, Weights
  <2>4. x = 2 * Value(r)
    BY <1>2, <1>5, <2>2, <2>3
  <2>5. QED
    BY <1>1, <1>2, <2>2, <2>3, <2>4
<1>6. CASE x % 2 # 0
  <2>1. r = sb_fe_sub(f.p, sb_fe_rshift_w(sb_fe_sub(f.p, a).fe, 1)).fe
    BY <1>4, <1>6 DEF sb_fe_mod_halve
  <2>2. PICK s : s = sb_fe_sub_borrow(m, a, 0)
    OBVIOUS
  <2>3. /\ s.fe \in Element /\ s.carry \in 0 .. 1
        /\ Value(s.fe) - s.carry * Radix = Value(m) - Value(a) - 0
    BY <2>2, SubtractBorrow
  <2>4. PICK d \in Element : d = s.fe /\ Value(d) \in 0 .. Radix - 1
    BY <2>3, ValueBelow
  <2>5. Value(d) = p - x
    <3>1. CASE s.carry = 0
      BY <1>1, <1>2, <1>3, <2>3, <2>4, <3>1
    <3>2. CASE s.carry = 1
      BY <1>1, <1>2, <1>3, <2>3, <2>4, <3>2
    <3>3. QED
      BY <2>3, <3>1, <3>2
  <2>6. PICK e : e = sb_fe_rshift_w(d, 1)
    OBVIOUS
  <2>7. e \in Element /\ Value(d) = 2 * Value(e) + (Value(d) % 2)
    BY <2>6, ShiftIs
  <2>8. PICK y \in Nat : y = Value(e)
    BY <2>7, ValueBelow, Weights
  <2>9. p - x = 2 * y
    <3>1. (p - x) % 2 = 0
      BY <1>1, <1>6
    <3>2. QED
      BY <2>5, <2>7, <2>8, <3>1
  <2>10. PICK t : t = sb_fe_sub_borrow(m, e, 0)
    OBVIOUS
  <2>11. /\ t.fe \in Element /\ t.carry \in 0 .. 1
         /\ Value(t.fe) - t.carry * Radix = Value(m) - Value(e) - 0
    BY <2>7, <2>10, SubtractBorrow
  <2>12. r = t.fe
    BY <1>3, <2>1, <2>2, <2>4, <2>6, <2>10 DEF sb_fe_sub
  <2>13. Value(t.fe) \in 0 .. Radix - 1
    BY <2>11, ValueBelow
  <2>14. Value(r) = p - y
    <3>1. CASE t.carry = 0
      BY <1>1, <1>2, <1>3, <2>8, <2>9, <2>11, <2>12, <2>13, <3>1
    <3>2. CASE t.carry = 1
      BY <1>1, <1>2, <1>3, <2>8, <2>9, <2>11, <2>12, <2>13, <3>2
    <3>3. QED
      BY <2>11, <3>1, <3>2
  <2>15. 2 * Value(r) = x + p /\ Value(r) \in 1 .. p
    BY <2>9, <2>14
  <2>16. (x + p) % p = x % p
    BY Residue
  <2>17. QED
    BY <1>1, <1>2, <2>11, <2>12, <2>15, <2>16
<1>7. QED
  BY <1>5, <1>6

--------------------------------------------------------------------------------
(* Montgomery's multiplication.                                            *)

Accumulator == [A : Element, hw : Nat]
Total(acc) == Value(acc.A) + acc.hw * Radix

LEMMA TotalIs ==
  ASSUME NEW acc \in Accumulator
  PROVE  /\ acc.A \in Element /\ acc.hw \in Nat /\ Value(acc.A) \in 0 .. Radix - 1
         /\ acc.hw * Radix \in Nat /\ Total(acc) \in Nat
<1>1. acc.A \in Element /\ acc.hw \in Nat
  BY DEF Accumulator
<1>2. Value(acc.A) \in 0 .. Radix - 1 /\ Radix \in Nat
  BY <1>1, ValueBelow, Weights
<1>3. acc.hw * Radix \in Int /\ acc.hw * Radix >= 0
  BY <1>1, <1>2, Product
<1>4. QED
  BY <1>1, <1>2, <1>3 DEF Total

LEMMA DropIs ==
  ASSUME NEW hw \in Nat, NEW s, s.fe \in Element, s.fe[0] = 0, s.carry \in Nat,
         NEW d, d = DropWord(hw, s)
  PROVE  d \in Accumulator /\ Base * Total(d) = Value(s.fe) + (hw + s.carry) * Radix
<1>1. /\ FE_WORDS \in Nat \ {0} /\ Base \in Nat \ {0} /\ Base >= 2 /\ Radix \in Nat \ {0}
  BY Weights
<1>2. PICK m \in Element : m = s.fe
  OBVIOUS
<1>3. PICK top \in Nat : top = hw + s.carry
  OBVIOUS
<1>4. PICK q \in Nat, o \in Nat : q = top \div Base /\ o = top % Base /\ o < Base /\ top = q * Base + o
  BY <1>1, Division
<1>5. PICK c : c = [i \in 0 .. FE_WORDS |-> IF i < FE_WORDS THEN m[i] ELSE o]
  OBVIOUS
<1>6. \A i \in Places : m[i] \in 0 .. Base - 1
  BY DEF Element
<1>7. PICK e : e = [j \in Places |-> IF j = FE_WORDS - 1 THEN o ELSE m[j + 1]]
  OBVIOUS
<1>8. d = [A |-> e, hw |-> q]
  BY <1>2, <1>3, <1>4, <1>7 DEF DropWord
<1>9. ASSUME NEW i \in Places
      PROVE  /\ e[i] \in 0 .. Base - 1 /\ c[i + 1] = e[i] /\ c[i] = m[i] /\ c[i] \in Int
  <2>1. i + 1 \in 0 .. FE_WORDS /\ i \in 0 .. FE_WORDS /\ i < FE_WORDS /\ i \in Nat
    BY <1>1 DEF Places
  <2>2. c[i] = m[i] /\ c[i] \in Int
    BY <1>1, <1>5, <1>6, <2>1
  <2>3. CASE i = FE_WORDS - 1
    BY <1>1, <1>4, <1>5, <1>7, <2>1, <2>2, <2>3
  <2>4. CASE i # FE_WORDS - 1
    <3>1. i + 1 \in Places /\ i + 1 < FE_WORDS
      BY <1>1, <2>1, <2>4 DEF Places
    <3>2. e[i] = m[i + 1] /\ c[i + 1] = m[i + 1]
      BY <1>5, <1>7, <2>1, <2>4, <3>1
    <3>3. QED
      BY <1>6, <2>2, <3>1, <3>2
  <2>5. QED
    BY <2>3, <2>4
<1>10. e \in Element
  <2>1. e = [i \in Places |-> e[i]]
    BY <1>7
  <2>2. \A i \in Places : e[i] \in 0 .. Base - 1
    BY <1>9
  <2>3. QED
    BY <2>1, <2>2 DEF Element
<1>11. \A i \in 0 .. FE_WORDS : c[i] \in Int
  <2> SUFFICES ASSUME NEW i \in 0 .. FE_WORDS PROVE c[i] \in Int
    OBVIOUS
  <2>1. CASE i < FE_WORDS
    <3>1. i \in Places
      BY <1>1, <2>1 DEF Places
    <3>2. QED
      BY <1>9, <3>1
  <2>2. CASE ~(i < FE_WORDS)
    <3>1. c[i] = o
      BY <1>5, <2>2
    <3>2. QED
      BY <3>1
  <2>3. QED
    BY <2>1, <2>2
<1>12. PICK z \in Element : (\A i \in Places : z[i] = 0) /\ Value(z) = 0
  <2>1. \A i \in Places : SB_FE_ZERO[i] = 0
    BY DEF SB_FE_ZERO
  <2>2. QED
    BY <2>1, ZeroIs
<1>13. \A i \in Places : m[i] + c[i + 1] * Base = z[i] + Base * e[i] + c[i]
  <2> SUFFICES ASSUME NEW i \in Places
               PROVE  m[i] + c[i + 1] * Base = z[i] + Base * e[i] + c[i]
    OBVIOUS
  <2>1. PICK x \in Int, y \in Int : x = m[i] /\ y = e[i]
    BY <1>1, <1>6, <1>9
  <2>2. x + y * Base = 0 + Base * y + x
    BY <1>1
  <2>3. QED
    BY <1>9, <1>12, <2>1, <2>2
<1>14. Value(m) + c[FE_WORDS] * Radix = Value(z) + Base * Value(e) + c[0]
  <2>1. Base \in Int
    BY <1>1
  <2>2. QED
    BY <1>10, <1>11, <1>13, <2>1, Chain
<1>15. c[FE_WORDS] = o /\ c[0] = 0
  BY <1>1, <1>2, <1>5
<1>16. PICK x \in Nat, y \in Nat : x = Value(m) /\ y = Value(e)
  BY <1>1, <1>10, ValueBelow
<1>17. x + o * Radix = Base * y
  BY <1>1, <1>12, <1>14, <1>15, <1>16
<1>18. Base * (y + q * Radix) = x + top * Radix
  <2>1. Base * (y + q * Radix) = Base * y + (q * Base) * Radix
    BY <1>1
  <2>2. (q * Base + o) * Radix = (q * Base) * Radix + o * Radix /\ (q * Base) * Radix \in Int /\ o * Radix \in Int
    BY <1>1
  <2> DEFINE or == o * Radix
             qr == (q * Base) * Radix
             by == Base * y
             tr == top * Radix
             all == Base * (y + q * Radix)
  <2>3. all = by + qr /\ tr = qr + or /\ x + or = by /\ qr \in Int /\ or \in Int
    BY <1>4, <1>17, <2>1, <2>2
  <2> HIDE DEF or, qr, by, tr, all
  <2>4. all = x + tr
    BY <2>3
  <2>5. QED
    BY <2>4 DEF all, tr
<1>19. d \in Accumulator
  BY <1>8, <1>10 DEF Accumulator
<1>20. Total(d) = y + q * Radix
  BY <1>8, <1>16 DEF Total
<1>21. QED
  BY <1>2, <1>3, <1>16, <1>18, <1>19, <1>20

(* What is added makes the lowest word zero. *)
LEMMA LowestCleared ==
  ASSUME NEW b \in Nat \ {0}, NEW x \in Nat, NEW p \in Nat, NEW m \in Nat, (p * m) % b = b - 1
  PROVE  (x + ((x * m) % b) * p + 0) % b = 0 /\ (x * m) % b \in 0 .. b - 1
<1>1. p * m \in Nat /\ x * m \in Nat
  BY Product
<1>2. PICK k \in Nat : p * m = k * b + (b - 1)
  <2>1. PICK n \in Nat : n = p * m
    BY <1>1
  <2>2. n = (n \div b) * b + (n % b) /\ n \div b \in Nat
    BY <2>1, Division
  <2>3. QED
    BY <2>1, <2>2
<1>3. PICK q \in Nat, u \in Nat : u = (x * m) % b /\ u < b /\ x * m = q * b + u
  <2>1. PICK n \in Nat : n = x * m
    BY <1>1
  <2>2. n = (n \div b) * b + (n % b) /\ n \div b \in Nat /\ n % b \in Nat /\ n % b < b
    BY <2>1, Division
  <2>3. QED
    BY <2>1, <2>2
<1>4. u * p = (x * m - q * b) * p
  <2> DEFINE xm == x * m
             qb == q * b
  <2>1. xm = qb + u /\ xm \in Int /\ qb \in Int
    BY <1>1, <1>3
  <2> HIDE DEF xm, qb
  <2>2. u = xm - qb
    BY <2>1
  <2>3. u = x * m - q * b
    BY <2>2 DEF xm, qb
  <2>4. QED
    BY <2>3
<1>5. (x * m - q * b) * p = x * (p * m) - (q * p) * b
  OBVIOUS
<1>6. x * (k * b + (b - 1)) = (x * k + x) * b - x
  OBVIOUS
<1>7. x + u * p = (x * k + x - q * p) * b
  <2>1. u * p = (x * k + x) * b - x - (q * p) * b
    BY <1>2, <1>4, <1>5, <1>6
  <2>2. (x * k + x - q * p) * b = (x * k + x) * b - (q * p) * b
    OBVIOUS
  <2>3. (x * k + x) * b \in Int /\ (q * p) * b \in Int
    OBVIOUS
  <2> DEFINE up == u * p
             xb == (x * k + x) * b
             qb == (q * p) * b
             all == (x * k + x - q * p) * b
  <2>4. up = xb - x - qb /\ all = xb - qb /\ xb \in Int /\ qb \in Int
    BY <2>1, <2>2, <2>3
  <2> HIDE DEF up, xb, qb, all
  <2>5. x + up = all
    BY <2>4
  <2>6. QED
    BY <2>5 DEF up, all
<1>8. PICK n \in Int : n = x * k + x - q * p
  OBVIOUS
<1>9. (n * b + 0) % b = 0 /\ n * b + 0 = n * b
  BY WholeQuotient
<1>10. x + u * p + 0 = n * b
  BY <1>7, <1>8
<1>11. QED
  BY <1>3, <1>9, <1>10

LEMMA MultiplyWordIs ==
  ASSUME NEW f \in Fields, NEW acc \in Accumulator, NEW w \in 0 .. Base - 1, NEW b \in Element,
         NEW n, n = MultiplyWord(acc, w, b, f)
  PROVE  /\ n \in Accumulator
         /\ \E u \in 0 .. Base - 1 :
              Base * Total(n) = Total(acc) + w * Value(b) + u * Value(f.p)
<1>1. Base \in Nat \ {0} /\ Base >= 2 /\ Radix \in Nat \ {0} /\ 0 \in Places
  BY Weights DEF Places
<1>2. /\ f.p \in Element /\ f.p_mp \in 0 .. Base - 1 /\ (f.p[0] * f.p_mp) % Base = Base - 1
  BY FieldIs
<1>3. PICK p \in Element : p = f.p
  BY <1>2
<1>4. acc.A \in Element /\ acc.hw \in Nat /\ Value(acc.A) \in 0 .. Radix - 1
  BY TotalIs
<1>5. PICK a \in Element, h \in Nat : a = acc.A /\ h = acc.hw
  BY <1>4
<1>6. PICK zero \in 0 .. Base - 1 : zero = 0
  BY <1>1
<1>7. PICK s : s = sb_mult_add_add(a, w, b, zero)
  OBVIOUS
<1>8. /\ s.fe \in Element /\ s.carry \in 0 .. Base - 1
      /\ Value(s.fe) + s.carry * Radix = Value(a) + w * Value(b) + zero
  BY <1>7, MultiplyAdd
<1>9. PICK e \in Element : e = s.fe
  BY <1>8
<1>10. PICK u \in 0 .. Base - 1 : u = (e[0] * f.p_mp) % Base
  <2>1. PICK x \in Nat, m \in Nat : x = e[0] /\ m = f.p_mp
    BY <1>1, <1>2 DEF Element
  <2>2. x * m \in Nat
    BY <2>1, Product
  <2>3. (x * m) % Base \in 0 .. Base - 1
    BY <1>1, <2>2, Division
  <2>4. QED
    BY <2>1, <2>3
<1>11. PICK t : t = sb_mult_add_add(e, u, p, zero)
  OBVIOUS
<1>12. /\ t.fe \in Element /\ t.carry \in 0 .. Base - 1
       /\ Value(t.fe) + t.carry * Radix = Value(e) + u * Value(p) + zero
       /\ t.fe[0] = (e[0] + u * p[0] + zero) % Base
  <2>1. /\ t.fe \in Element /\ t.carry \in 0 .. Base - 1
        /\ Value(t.fe) + t.carry * Radix = Value(e) + u * Value(p) + zero
    BY <1>11, MultiplyAdd
  <2>2. t.fe[0] = (e[0] + u * p[0] + zero) % Base
    BY <1>11, LowestWord
  <2>3. QED
    BY <2>1, <2>2
<1>13. n = DropWord(h + s.carry, t)
  BY <1>3, <1>5, <1>6, <1>7, <1>9, <1>10, <1>11 DEF MultiplyWord, ReduceWord
<1>14. t.fe[0] = 0
  <2>1. PICK x \in Nat, m \in Nat : x = e[0] /\ m = f.p_mp
    BY <1>1, <1>2 DEF Element
  <2>2. PICK y \in Nat : y = p[0]
    BY <1>1 DEF Element
  <2>3. (y * m) % Base = Base - 1
    BY <1>2, <1>3, <2>1, <2>2
  <2>4. (x + ((x * m) % Base) * y + 0) % Base = 0
    BY <1>1, <2>3, LowestCleared
  <2>5. QED
    BY <1>6, <1>10, <1>12, <2>1, <2>2, <2>4
<1>15. PICK c \in Nat, d \in Nat : c = s.carry /\ d = t.carry
  BY <1>1, <1>8, <1>12
<1>16. n \in Accumulator /\ Base * Total(n) = Value(t.fe) + ((h + c) + d) * Radix
  <2>1. PICK g \in Nat : g = h + c
    OBVIOUS
  <2>2. n = DropWord(g, t) /\ t.carry \in Nat
    BY <1>13, <1>15, <2>1
  <2>3. n \in Accumulator /\ Base * Total(n) = Value(t.fe) + (g + t.carry) * Radix
    BY <1>12, <1>14, <2>2, DropIs
  <2>4. QED
    BY <1>15, <2>1, <2>3
<1>17. Base * Total(n) = Total(acc) + w * Value(b) + u * Value(p)
  <2>1. PICK x \in Nat, y \in Nat : x = Value(t.fe) /\ y = Value(e)
    BY <1>1, <1>12, ValueBelow
  <2>2. PICK z \in Nat, o \in Nat : z = Value(a) /\ o = Value(b)
    BY <1>1, ValueBelow
  <2>3. PICK k \in Nat : k = Value(p)
    BY <1>1, ValueBelow
  <2> DEFINE wo == w * o
             uk == u * k
             hr == h * Radix
             cr == c * Radix
             dr == d * Radix
  <2>4. ((h + c) + d) * Radix = hr + cr + dr
    BY <1>1
  <2>5. wo \in Int /\ uk \in Int /\ hr \in Int /\ cr \in Int /\ dr \in Int
    BY <1>1
  <2>6. y + cr = z + wo /\ x + dr = y + uk
    <3>1. Value(e) + c * Radix = Value(a) + w * Value(b) + 0
      BY <1>6, <1>8, <1>9, <1>15
    <3>2. Value(t.fe) + d * Radix = Value(e) + u * Value(p) + 0
      BY <1>6, <1>12, <1>15
    <3>3. y + cr = z + wo + 0
      BY <2>1, <2>2, <3>1
    <3>4. x + dr = y + uk + 0
      BY <2>1, <2>3, <3>2
    <3> HIDE DEF wo, uk, cr, dr
    <3>5. QED
      BY <2>5, <3>3, <3>4
  <2>7. Base * Total(n) = x + (hr + cr + dr)
    BY <1>16, <2>1, <2>4
  <2>8. Total(acc) = z + hr
    BY <1>5, <2>2 DEF Total
  <2> HIDE DEF wo, uk, hr, cr, dr
  <2>9. Base * Total(n) = (z + hr) + wo + uk
    BY <2>5, <2>6, <2>7
  <2>10. Base * Total(n) = Total(acc) + wo + uk
    BY <2>8, <2>9
  <2>11. QED
    BY <2>2, <2>3, <2>10 DEF wo, uk
<1>18. QED
  BY <1>3, <1>16, <1>17

LEMMA RoundsAre ==
  ASSUME NEW f \in Fields, NEW a \in Element, NEW b \in Element
  PROVE  \E r : /\ \A i \in 0 .. FE_WORDS : r[i] \in Accumulator
                /\ r[0] = [A |-> SB_FE_ZERO, hw |-> 0]
                /\ \A i \in Places : r[i + 1] = MultiplyWord(r[i], a[i], b, f)
                /\ Rounds(a, b, f) = r[FE_WORDS]
<1>1. FE_WORDS \in Nat \ {0} /\ Base \in Nat /\ Base >= 2
  BY Weights
<1>0. PICK S, none : S = Accumulator /\ none = [A |-> SB_FE_ZERO, hw |-> 0]
  OBVIOUS
<1> DEFINE step == [i \in Nat |-> [v \in S |->
                      IF i < FE_WORDS THEN MultiplyWord(v, a[i], b, f) ELSE v]]
<1>2. ASSUME NEW i \in Places, NEW v \in S PROVE MultiplyWord(v, a[i], b, f) \in S
  <2>1. PICK w \in 0 .. Base - 1 : w = a[i]
    BY DEF Element
  <2>2. v \in Accumulator
    BY <1>0
  <2>3. PICK n : n = MultiplyWord(v, w, b, f)
    OBVIOUS
  <2>4. n \in Accumulator
    BY <2>2, <2>3, MultiplyWordIs
  <2>5. QED
    BY <1>0, <2>1, <2>3, <2>4
<1>3. Steps(step, S)
  BY <1>1, <1>2 DEF Steps, Places
<1>4. \A i \in Nat, v \in S : i < FE_WORDS => step[i][v] = MultiplyWord(v, a[i], b, f)
  OBVIOUS
<1>5. none \in S
  BY <1>0, ZeroIs DEF Accumulator
<1> HIDE DEF step
<1>6. PICK t : UpTo(FE_WORDS, t, none, step, S)
  BY <1>1, <1>3, <1>5, RecursionTo
<1>7. /\ t = [i \in 0 .. FE_WORDS |-> t[i]] /\ t[0] = none /\ \A i \in 0 .. FE_WORDS : t[i] \in S
      /\ \A i \in 0 .. FE_WORDS : i # 0 => i - 1 \in 0 .. FE_WORDS /\ t[i] = step[i - 1][t[i - 1]]
  BY <1>1, <1>6, UpToIs
<1>8. ASSUME NEW i \in 0 .. FE_WORDS, i # 0
      PROVE  t[i] = MultiplyWord(t[i - 1], a[i - 1], b, f)
  <2>0. i - 1 \in 0 .. FE_WORDS /\ t[i] = step[i - 1][t[i - 1]]
    BY <1>7, <1>8
  <2>1. i - 1 \in Nat /\ i - 1 < FE_WORDS /\ t[i - 1] \in S /\ t[i] = step[i - 1][t[i - 1]]
    BY <1>1, <1>7, <2>0
  <2>2. QED
    BY <1>4, <2>1
<1>9. \E u : u = [i \in 0 .. FE_WORDS |->
                    IF i = 0 THEN [A |-> SB_FE_ZERO, hw |-> 0]
                    ELSE MultiplyWord(u[i - 1], a[i - 1], b, f)]
  <2>1. \A i \in 0 .. FE_WORDS :
          t[i] = IF i = 0 THEN [A |-> SB_FE_ZERO, hw |-> 0]
                 ELSE MultiplyWord(t[i - 1], a[i - 1], b, f)
    BY <1>0, <1>7, <1>8
  <2>2. t = [i \in 0 .. FE_WORDS |->
               IF i = 0 THEN [A |-> SB_FE_ZERO, hw |-> 0]
               ELSE MultiplyWord(t[i - 1], a[i - 1], b, f)]
    BY <1>7, <2>1
  <2>3. QED
    BY <2>2
<1> DEFINE r == CHOOSE u : u = [i \in 0 .. FE_WORDS |->
                    IF i = 0 THEN [A |-> SB_FE_ZERO, hw |-> 0]
                    ELSE MultiplyWord(u[i - 1], a[i - 1], b, f)]
<1>10. r = [i \in 0 .. FE_WORDS |->
              IF i = 0 THEN [A |-> SB_FE_ZERO, hw |-> 0]
              ELSE MultiplyWord(r[i - 1], a[i - 1], b, f)]
  BY <1>9, Zenon
<1>11. Rounds(a, b, f) = r[FE_WORDS]
  BY DEF Rounds
<1> HIDE DEF r
<1>12. r[0] = [A |-> SB_FE_ZERO, hw |-> 0]
  BY <1>1, <1>10
<1>13. ASSUME NEW i \in Places PROVE r[i + 1] = MultiplyWord(r[i], a[i], b, f)
  <2>1. i + 1 \in 0 .. FE_WORDS /\ i + 1 # 0 /\ (i + 1) - 1 = i
    BY <1>1 DEF Places
  <2>2. r[i + 1] = MultiplyWord(r[(i + 1) - 1], a[(i + 1) - 1], b, f)
    BY <1>10, <2>1
  <2>3. QED
    BY <2>1, <2>2
<1> DEFINE L == {i \in Nat : i <= FE_WORDS => r[i] \in S}
<1>14. 0 \in L
  BY <1>0, <1>5, <1>12
<1>15. ASSUME NEW i \in Nat, i \in L PROVE i + 1 \in L
  <2> SUFFICES ASSUME i + 1 <= FE_WORDS PROVE r[i + 1] \in S
    OBVIOUS
  <2>1. i \in Places /\ r[i] \in S
    BY <1>1, <1>15 DEF Places
  <2>2. MultiplyWord(r[i], a[i], b, f) \in S
    BY <1>2, <2>1
  <2>3. QED
    BY <1>13, <2>1, <2>2
<1> HIDE DEF L
<1>16. Nat \subseteq L
  BY <1>14, <1>15, Induction
<1>17. \A i \in 0 .. FE_WORDS : r[i] \in S
  BY <1>1, <1>16 DEF L
<1>18. QED
  BY <1>0, <1>11, <1>12, <1>13, <1>17

(* From round to round: what has been multiplied, up to multiples of the   *)
(* prime, and never more than the factor and the prime. *)
LEMMA RoundsKeep ==
  ASSUME NEW f \in Fields, NEW a \in Element, NEW b \in Element,
         NEW n, n = Rounds(a, b, f)
  PROVE  /\ n \in Accumulator
         /\ Total(n) < Value(b) + Value(f.p)
         /\ \E u \in Nat : Total(n) * Radix = Value(a) * Value(b) + u * Value(f.p)
<1>1. /\ FE_WORDS \in Nat \ {0} /\ Base \in Nat /\ Base >= 2 /\ Radix \in Nat \ {0}
      /\ \A i \in 0 .. FE_WORDS : Weight(i) \in Nat \ {0}
      /\ Weight(0) = 1 /\ \A i \in 0 .. FE_WORDS - 1 : Weight(i + 1) = Base * Weight(i)
      /\ Weight(FE_WORDS) = Radix
  BY Weights
<1>2. PICK p \in Nat : p = Value(f.p) /\ p >= 3
  BY PrimeIs
<1>3. PICK y \in Nat : y = Value(b)
  BY <1>1, ValueBelow
<1>4. \A i \in Places : a[i] \in Nat /\ a[i] \in 0 .. Base - 1
  BY <1>1 DEF Element
<1>5. PICK x : x = Lowest(a)
  OBVIOUS
<1>6. /\ x[0] = 0 /\ \A i \in 0 .. FE_WORDS : x[i] \in Nat
      /\ \A i \in Places : x[i + 1] = x[i] + a[i] * Weight(i)
  BY <1>4, <1>5, LowestIs
<1>7. PICK r : /\ \A i \in 0 .. FE_WORDS : r[i] \in Accumulator
               /\ r[0] = [A |-> SB_FE_ZERO, hw |-> 0]
               /\ \A i \in Places : r[i + 1] = MultiplyWord(r[i], a[i], b, f)
               /\ Rounds(a, b, f) = r[FE_WORDS]
  BY RoundsAre
<1>8. PICK t : t = [i \in 0 .. FE_WORDS |-> Total(r[i])]
  OBVIOUS
<1>9. \A i \in 0 .. FE_WORDS : t[i] \in Nat /\ t[i] = Total(r[i])
  BY <1>7, <1>8, TotalIs
<1>10. t[0] = 0
  <2>1. 0 \in 0 .. FE_WORDS
    BY <1>1
  <2>2. Total(r[0]) = Value(SB_FE_ZERO) + 0 * Radix
    BY <1>7 DEF Total
  <2>3. 0 * Radix = 0
    BY <1>1
  <2>4. QED
    BY <1>9, <2>1, <2>2, <2>3, ZeroIs
<1>11. ASSUME NEW i \in Places
       PROVE  \E u \in 0 .. Base - 1 : Base * t[i + 1] = t[i] + a[i] * y + u * p
  <2>1. i \in 0 .. FE_WORDS /\ i + 1 \in 0 .. FE_WORDS
    BY <1>1 DEF Places
  <2>2. PICK acc \in Accumulator : acc = r[i]
    BY <1>7, <2>1
  <2>3. PICK w \in 0 .. Base - 1 : w = a[i]
    BY <1>4
  <2>4. PICK m : m = MultiplyWord(acc, w, b, f)
    OBVIOUS
  <2>5. PICK u \in 0 .. Base - 1 : Base * Total(m) = Total(acc) + w * Value(b) + u * Value(f.p)
    BY <2>4, MultiplyWordIs
  <2>6. m = r[i + 1]
    BY <1>7, <2>2, <2>3, <2>4
  <2>7. t[i] = Total(acc) /\ t[i + 1] = Total(m)
    BY <1>9, <2>1, <2>2, <2>6
  <2>8. QED
    BY <1>2, <1>3, <2>3, <2>5, <2>7
<1> DEFINE L == {i \in Nat : i <= FE_WORDS =>
                   /\ t[i] < y + p
                   /\ \E u \in Nat : t[i] * Weight(i) = x[i] * y + u * p}
<1>12. 0 \in L
  <2>1. t[0] * Weight(0) = 0 /\ x[0] * y = 0 /\ 0 * p = 0
    BY <1>1, <1>6, <1>10
  <2>2. t[0] * Weight(0) = x[0] * y + 0 * p
    BY <2>1
  <2>3. t[0] < y + p
    BY <1>2, <1>10
  <2>4. QED
    BY <2>2, <2>3
<1>13. ASSUME NEW i \in Nat, i \in L PROVE i + 1 \in L
  <2>0. i + 1 \in Nat
    OBVIOUS
  <2> SUFFICES ASSUME i + 1 <= FE_WORDS
               PROVE  /\ t[i + 1] < y + p
                      /\ \E u \in Nat : t[i + 1] * Weight(i + 1) = x[i + 1] * y + u * p
    BY <2>0, Zenon
  <2>1. i \in Places /\ i \in 0 .. FE_WORDS /\ i + 1 \in 0 .. FE_WORDS /\ i \in 0 .. FE_WORDS - 1 /\ i <= FE_WORDS
    BY <1>1 DEF Places
  <2>2. PICK u \in 0 .. Base - 1 : Base * t[i + 1] = t[i] + a[i] * y + u * p
    BY <1>11, <2>1
  <2>3. PICK v \in Nat : t[i] * Weight(i) = x[i] * y + v * p
    BY <1>13, <2>1
  <2>4. PICK s \in Nat, z \in Nat : s = t[i] /\ z = t[i + 1] /\ s < y + p
    BY <1>9, <1>13, <2>1
  <2>5. PICK w \in Nat : w = Weight(i) /\ Weight(i + 1) = Base * w
    BY <1>1, <2>1
  <2>6. PICK d \in Nat : d = a[i] /\ d <= Base - 1
    BY <1>1, <1>4, <2>1
  <2>7. PICK o \in Nat : o = x[i] /\ x[i + 1] = o + d * w
    BY <1>6, <2>1, <2>5, <2>6
  <2>8. Base * z = s + d * y + u * p
    BY <2>2, <2>4, <2>6
  <2>9. s * w = o * y + v * p
    BY <2>3, <2>4, <2>5, <2>7
  <2>10. z < y + p
    <3>1. SUFFICES ASSUME y + p <= z PROVE FALSE
      BY <2>4
    <3>2. (y + p) * Base <= z * Base /\ z * Base \in Int /\ z * Base = Base * z
      BY <1>1, <1>2, <1>3, <2>4, <3>1, Product
    <3>3. d * y <= (Base - 1) * y /\ d * y \in Int
      BY <1>1, <1>3, <2>6, Product
    <3>4. u * p <= (Base - 1) * p /\ u * p \in Int
      <4>1. u \in Int /\ u <= Base - 1 /\ Base - 1 \in Int
        BY <1>1
      <4>2. QED
        BY <1>2, <4>1, Product
    <3>5. (y + p) * Base = (Base - 1) * y + (Base - 1) * p + y + p
          /\ (Base - 1) * y \in Int /\ (Base - 1) * p \in Int
      BY <1>1, <1>2, <1>3
    <3> DEFINE zb == z * Base
               dy == d * y
               up == u * p
               by == (Base - 1) * y
               bp == (Base - 1) * p
               all == (y + p) * Base
    <3>6. all <= zb /\ zb \in Int /\ zb = s + dy + up /\ dy <= by /\ up <= bp
          /\ dy \in Int /\ up \in Int /\ by \in Int /\ bp \in Int /\ all = by + bp + y + p
      BY <2>8, <3>2, <3>3, <3>4, <3>5
    <3> HIDE DEF zb, dy, up, by, bp, all
    <3>7. QED
      BY <1>2, <1>3, <2>4, <3>6
  <2>11. z * (Base * w) = (o + d * w) * y + (v + u * w) * p
    <3>1. z * (Base * w) = (s + d * y + u * p) * w
      <4>1. z * (Base * w) = (Base * z) * w
        BY <1>1
      <4>2. QED
        BY <2>8, <4>1
    <3>2. (s + d * y + u * p) * w = s * w + (d * w) * y + (u * w) * p
      OBVIOUS
    <3>3. (o + d * w) * y + (v + u * w) * p = (o * y + v * p) + (d * w) * y + (u * w) * p
      OBVIOUS
    <3>4. QED
      BY <2>9, <3>1, <3>2, <3>3
  <2>12. PICK k \in Nat : k = v + u * w
    OBVIOUS
  <2>13. t[i + 1] * Weight(i + 1) = x[i + 1] * y + k * p
    BY <2>4, <2>5, <2>7, <2>11, <2>12
  <2>14. t[i + 1] < y + p
    BY <2>4, <2>10
  <2>15. QED
    BY <2>13, <2>14
<1> HIDE DEF L
<1>14. Nat \subseteq L
  BY <1>12, <1>13, Induction
<1>15. t[FE_WORDS] < y + p /\ \E u \in Nat : t[FE_WORDS] * Weight(FE_WORDS) = x[FE_WORDS] * y + u * p
  BY <1>1, <1>14 DEF L
<1>16. FE_WORDS \in 0 .. FE_WORDS /\ n = r[FE_WORDS]
  BY <1>1, <1>7
<1>17. n \in Accumulator /\ Total(n) = t[FE_WORDS]
  BY <1>7, <1>9, <1>16
<1>18. x[FE_WORDS] = Value(a)
  BY <1>5 DEF Value
<1>19. QED
  BY <1>1, <1>2, <1>3, <1>15, <1>17, <1>18

(* The product, divided by the radix. *)
LEMMA MontgomeryIs ==
  ASSUME NEW f \in Fields, NEW a \in Element, Value(a) >= 1,
         NEW b \in Element, Value(b) \in 1 .. Value(f.p),
         NEW q, q = sb_fe_mont_mult(a, b, f)
  PROVE  /\ q \in Element /\ Value(q) \in 1 .. Value(f.p)
         /\ Congruent(Value(q) * Radix, Value(a) * Value(b), Value(f.p))
<1>1. Radix \in Nat \ {0}
  BY Weights
<1>2. PICK p \in Nat : p = Value(f.p) /\ p >= 3 /\ 2 * p > Radix /\ p < Radix
  BY PrimeIs
<1>3. PICK x \in Nat, y \in 1 .. p : x = Value(a) /\ y = Value(b) /\ x >= 1
  BY <1>1, <1>2, ValueBelow
<1>4. PICK n : n = Rounds(a, b, f)
  OBVIOUS
<1>5. /\ n \in Accumulator
      /\ Total(n) < Value(b) + Value(f.p)
      /\ \E u \in Nat : Total(n) * Radix = Value(a) * Value(b) + u * Value(f.p)
  BY <1>4, RoundsKeep
<1>6. /\ n.A \in Element /\ n.hw \in Nat /\ Value(n.A) \in 0 .. Radix - 1
      /\ n.hw * Radix \in Nat /\ Total(n) \in Nat
  BY <1>5, TotalIs
<1>7. PICK t \in Nat, h \in Nat : t = Total(n) /\ h = n.hw /\ t = Value(n.A) + h * Radix
  BY <1>6 DEF Total
<1>8. PICK d \in Element : d = n.A
  BY <1>6
<1>9. PICK u \in Nat : t * Radix = x * y + u * p
  BY <1>2, <1>3, <1>5, <1>7
<1>10. t < y + p
  BY <1>2, <1>3, <1>5, <1>7
<1>11. h \in 0 .. 1
  <2>1. SUFFICES ASSUME 2 <= h PROVE FALSE
    OBVIOUS
  <2>2. 2 * Radix <= h * Radix /\ h * Radix \in Int
    BY <1>1, <2>1, Product
  <2>3. QED
    BY <1>1, <1>2, <1>6, <1>7, <1>10, <2>2
<1>12. t >= 1
  <2>1. SUFFICES ASSUME t = 0 PROVE FALSE
    OBVIOUS
  <2>2. 0 * Radix = 0
    BY <1>1
  <2>3. u * p >= 0 /\ u * p \in Int
    BY Product
  <2>4. 1 * y <= x * y /\ x * y \in Int /\ 1 * y = y
    BY <1>3, Product
  <2> DEFINE up == u * p
             xy == x * y
  <2>5. 0 = xy + up /\ up >= 0 /\ up \in Int /\ xy \in Int /\ y <= xy
    BY <1>9, <2>1, <2>2, <2>3, <2>4
  <2> HIDE DEF up, xy
  <2>6. QED
    BY <2>5
<1>13. q = sb_fe_qr(d, h, f)
  BY <1>4, <1>7, <1>8 DEF sb_fe_mont_mult
<1>14. q \in Element /\ Value(q) = IF t > Value(f.p) THEN t - Value(f.p) ELSE t
  <2>1. t = Value(d) + h * Radix /\ t <= 2 * Value(f.p)
    BY <1>2, <1>7, <1>8, <1>10
  <2>2. QED
    BY <1>11, <1>12, <1>13, <2>1, QuasiReduced
<1>15. PICK v \in Int : v = Value(q) /\ v \in 1 .. p
  BY <1>2, <1>10, <1>12, <1>14
<1>16. PICK k \in 0 .. 1 : v = t - k * p
  <2>1. CASE t > p
    <3>1. v = t - 1 * p
      BY <1>2, <1>14, <1>15, <2>1
    <3>2. 1 \in 0 .. 1
      OBVIOUS
    <3>3. QED
      BY <3>1, <3>2
  <2>2. CASE ~(t > p)
    <3>1. v = t - 0 * p
      BY <1>2, <1>14, <1>15, <2>2
    <3>2. 0 \in 0 .. 1
      OBVIOUS
    <3>3. QED
      BY <3>1, <3>2
  <2>3. QED
    BY <2>1, <2>2
<1>17. v * Radix = x * y + (u - k * Radix) * p
  <2>1. (t - k * p) * Radix = t * Radix - (k * Radix) * p
    BY <1>1
  <2>2. (u - k * Radix) * p = u * p - (k * Radix) * p
    BY <1>1
  <2>3. u * p \in Int /\ (k * Radix) * p \in Int /\ x * y \in Int /\ t * Radix \in Int
    BY <1>1
  <2> DEFINE up == u * p
             kp == (k * Radix) * p
             xy == x * y
             tr == t * Radix
             dp == (u - k * Radix) * p
             vr == v * Radix
  <2>4. vr = tr - kp /\ dp = up - kp /\ tr = xy + up /\ up \in Int /\ kp \in Int /\ xy \in Int
    BY <1>9, <1>16, <2>1, <2>2, <2>3
  <2> HIDE DEF up, kp, xy, tr, dp, vr
  <2>5. vr = xy + dp
    BY <2>4
  <2>6. QED
    BY <2>5 DEF vr, xy, dp
<1>18. PICK m \in Int : m = u - k * Radix
  BY <1>1
<1>19. Congruent(v * Radix, x * y, p)
  <2>1. v * Radix = x * y + m * p
    BY <1>17, <1>18
  <2>2. QED
    BY <2>1 DEF Congruent
<1>20. QED
  BY <1>2, <1>3, <1>14, <1>15, <1>19

--------------------------------------------------------------------------------
(* Powers.                                                                 *)

Exp(b) == CHOOSE t : /\ t \in [Nat -> Int] /\ t[0] = 1
                     /\ \A n \in Nat : t[n + 1] = t[n] * b

LEMMA ExpIs ==
  ASSUME NEW b \in Int
  PROVE  /\ \A n \in Nat : Exp(b)[n] \in Int /\ Exp(b)[n + 1] = Exp(b)[n] * b
         /\ Exp(b)[0] = 1
<1> DEFINE step == [i \in Nat |-> [v \in Int |-> v * b]]
<1>1. Steps(step, Int)
  BY DEF Steps
<1>2. \A i \in Nat, v \in Int : step[i][v] = v * b
  OBVIOUS
<1> HIDE DEF step
<1>3. PICK t : Iterates(t, 1, step, Int)
  BY <1>1, Recursion
<1>4. /\ t \in [Nat -> Int] /\ t[0] = 1
      /\ \A n \in Nat : t[n + 1] = t[n] * b
  <2>1. t \in [Nat -> Int] /\ t[0] = 1 /\ \A n \in Nat : t[n + 1] = step[n][t[n]]
    BY <1>3 DEF Iterates
  <2>2. ASSUME NEW n \in Nat PROVE t[n + 1] = t[n] * b
    <3>1. t[n] \in Int /\ t[n + 1] = step[n][t[n]]
      BY <2>1
    <3>2. QED
      BY <1>2, <3>1
  <2>3. QED
    BY <2>1, <2>2
<1>5. /\ Exp(b) \in [Nat -> Int] /\ Exp(b)[0] = 1
      /\ \A n \in Nat : Exp(b)[n + 1] = Exp(b)[n] * b
  BY <1>4, Zenon DEF Exp
<1>6. QED
  BY <1>5

LEMMA ExpSum ==
  ASSUME NEW b \in Int, NEW m \in Nat, NEW n \in Nat
  PROVE  Exp(b)[m + n] = Exp(b)[m] * Exp(b)[n]
<1>1. PICK t : t = Exp(b)
  OBVIOUS
<1>2. t[0] = 1 /\ \A k \in Nat : t[k] \in Int /\ t[k + 1] = t[k] * b
  BY <1>1, ExpIs
<1> DEFINE L == {k \in Nat : t[m + k] = t[m] * t[k]}
<1>3. 0 \in L
  <2>1. m + 0 = m /\ t[m] \in Int
    BY <1>2
  <2>2. t[m + 0] = t[m] * t[0]
    BY <1>2, <2>1
  <2>3. QED
    BY <2>2
<1>4. ASSUME NEW k \in Nat, k \in L PROVE k + 1 \in L
  <2>1. PICK x \in Int, y \in Int : x = t[m] /\ y = t[k]
    BY <1>2
  <2>2. t[m + k] = x * y /\ t[k + 1] = y * b
    BY <1>2, <1>4, <2>1
  <2>3. m + (k + 1) = (m + k) + 1 /\ m + k \in Nat
    OBVIOUS
  <2>4. t[m + (k + 1)] = (x * y) * b
    BY <1>2, <2>2, <2>3
  <2>5. (x * y) * b = x * (y * b)
    OBVIOUS
  <2>6. t[m + (k + 1)] = t[m] * t[k + 1]
    BY <2>1, <2>2, <2>4, <2>5
  <2>7. QED
    BY <2>6
<1> HIDE DEF L
<1>5. Nat \subseteq L
  BY <1>3, <1>4, Induction
<1>6. QED
  BY <1>1, <1>5 DEF L

(* The powers of a product are the products of the powers.                 *)
IsProduct(t, u, v) == \A n \in Nat : t[n] = u[n] * v[n]

LEMMA ExpProduct ==
  ASSUME NEW a \in Int, NEW b \in Int, NEW c, c = a * b
  PROVE  IsProduct(Exp(c), Exp(a), Exp(b))
<1>1. c \in Int /\ c = a * b
  OBVIOUS
<1>2. PICK t, u, v : t = Exp(c) /\ u = Exp(a) /\ v = Exp(b)
  OBVIOUS
<1>3. t[0] = 1 /\ \A k \in Nat : t[k] \in Int /\ t[k + 1] = t[k] * c
  BY <1>2, ExpIs
<1>4. u[0] = 1 /\ \A k \in Nat : u[k] \in Int /\ u[k + 1] = u[k] * a
  BY <1>2, ExpIs
<1>5. v[0] = 1 /\ \A k \in Nat : v[k] \in Int /\ v[k + 1] = v[k] * b
  BY <1>2, ExpIs
<1> DEFINE L == {k \in Nat : t[k] = u[k] * v[k]}
<1>6. 0 \in L
  BY <1>3, <1>4, <1>5
<1>7. ASSUME NEW k \in Nat, k \in L PROVE k + 1 \in L
  <2>1. PICK x \in Int, y \in Int : x = u[k] /\ y = v[k]
    BY <1>4, <1>5
  <2>2. t[k] = x * y
    BY <1>7, <2>1
  <2>3. t[k + 1] = (x * y) * (a * b) /\ u[k + 1] = x * a /\ v[k + 1] = y * b
    BY <1>1, <1>3, <1>4, <1>5, <2>1, <2>2
  <2>4. (x * y) * (a * b) = (x * a) * (y * b)
    OBVIOUS
  <2>5. t[k + 1] = u[k + 1] * v[k + 1]
    BY <2>3, <2>4
  <2>6. QED
    BY <2>5
<1> HIDE DEF L
<1>8. Nat \subseteq L
  BY <1>6, <1>7, Induction
<1>9. QED
  BY <1>1, <1>2, <1>8 DEF L, IsProduct

LEMMA ExpPower ==
  ASSUME NEW b \in Int, NEW m \in Nat, NEW n \in Nat
  PROVE  Exp(Exp(b)[m])[n] = Exp(b)[m * n] /\ m * n \in Nat
<1>1. PICK t : t = Exp(b)
  OBVIOUS
<1>2. t[0] = 1 /\ \A k \in Nat : t[k] \in Int /\ t[k + 1] = t[k] * b
  BY <1>1, ExpIs
<1>3. PICK c \in Int : c = t[m]
  BY <1>2
<1>4. PICK u : u = Exp(c)
  OBVIOUS
<1>5. u[0] = 1 /\ \A k \in Nat : u[k] \in Int /\ u[k + 1] = u[k] * c
  BY <1>4, ExpIs
<1>6. \A k \in Nat : m * k \in Nat /\ m * (k + 1) = m * k + m
  <2> SUFFICES ASSUME NEW k \in Nat PROVE m * k \in Nat /\ m * (k + 1) = m * k + m
    OBVIOUS
  <2>1. m * k \in Int /\ m * k >= 0
    BY Product
  <2>2. m * (k + 1) = m * k + m
    OBVIOUS
  <2>3. QED
    BY <2>1, <2>2
<1> DEFINE L == {k \in Nat : u[k] = t[m * k]}
<1>7. 0 \in L
  <2>1. m * 0 = 0
    OBVIOUS
  <2>2. u[0] = t[m * 0]
    BY <1>2, <1>5, <2>1
  <2>3. QED
    BY <2>2
<1>8. ASSUME NEW k \in Nat, k \in L PROVE k + 1 \in L
  <2>1. PICK o \in Nat : o = m * k /\ m * (k + 1) = o + m
    BY <1>6
  <2>2. u[k] = t[o]
    BY <1>8, <2>1
  <2>3. t[o + m] = t[o] * t[m]
    BY <1>1, ExpSum
  <2>4. u[k + 1] = t[o] * t[m]
    BY <1>3, <1>5, <2>2
  <2>5. u[k + 1] = t[m * (k + 1)]
    BY <2>1, <2>3, <2>4
  <2>6. QED
    BY <2>5
<1> HIDE DEF L
<1>9. Nat \subseteq L
  BY <1>7, <1>8, Induction
<1>10. u[n] = t[m * n]
  BY <1>9 DEF L
<1>11. QED
  BY <1>1, <1>3, <1>4, <1>6, <1>10

LEMMA ExpCongruent ==
  ASSUME NEW a \in Int, NEW b \in Int, NEW p \in Nat, Congruent(a, b, p), NEW n \in Nat
  PROVE  Congruent(Exp(a)[n], Exp(b)[n], p)
<1>1. PICK u, v : u = Exp(a) /\ v = Exp(b)
  OBVIOUS
<1>2. u[0] = 1 /\ \A k \in Nat : u[k] \in Int /\ u[k + 1] = u[k] * a
  BY <1>1, ExpIs
<1>3. v[0] = 1 /\ \A k \in Nat : v[k] \in Int /\ v[k + 1] = v[k] * b
  BY <1>1, ExpIs
<1> DEFINE L == {k \in Nat : Congruent(u[k], v[k], p)}
<1>4. 0 \in L
  BY <1>2, <1>3, CongruentSame
<1>5. ASSUME NEW k \in Nat, k \in L PROVE k + 1 \in L
  <2>1. PICK x \in Int, y \in Int : x = u[k] /\ y = v[k]
    BY <1>2, <1>3
  <2>2. Congruent(x, y, p)
    BY <1>5, <2>1
  <2>3. Congruent(x * a, y * b, p)
    BY <2>2, CongruentTimes
  <2>4. u[k + 1] = x * a /\ v[k + 1] = y * b
    BY <1>2, <1>3, <2>1
  <2>5. QED
    BY <2>3, <2>4
<1> HIDE DEF L
<1>6. Nat \subseteq L
  BY <1>4, <1>5, Induction
<1>7. QED
  BY <1>1, <1>6 DEF L

LEMMA PowersAre ==
  ASSUME NEW b \in Nat, NEW m \in Nat \ {0}, NEW max \in Nat
  PROVE  \A n \in 0 .. max : /\ Powers(b, m, max)[n] \in Nat
                             /\ Congruent(Powers(b, m, max)[n], Exp(b)[n], m)
<1> DEFINE step == [i \in Nat |-> [v \in Nat |-> (v * b) % m]]
<1>1. \A v \in Nat : v * b \in Nat /\ (v * b) % m \in Nat
  BY Product, Division
<1>2. Steps(step, Nat)
  BY <1>1 DEF Steps
<1>3. \A i \in Nat, v \in Nat : step[i][v] = (v * b) % m
  OBVIOUS
<1> HIDE DEF step
<1>4. PICK t : UpTo(max, t, 1, step, Nat)
  BY <1>2, RecursionTo
<1>5. /\ t = [i \in 0 .. max |-> t[i]] /\ t[0] = 1 /\ \A i \in 0 .. max : t[i] \in Nat
      /\ \A i \in 0 .. max : i # 0 => i - 1 \in 0 .. max /\ t[i] = step[i - 1][t[i - 1]]
  BY <1>4, UpToIs
<1>6. ASSUME NEW i \in 0 .. max, i # 0 PROVE t[i] = (t[i - 1] * b) % m
  <2>1. i - 1 \in 0 .. max /\ t[i] = step[i - 1][t[i - 1]]
    BY <1>5, <1>6
  <2>2. i - 1 \in Nat /\ t[i - 1] \in Nat
    BY <1>5, <2>1
  <2>3. QED
    BY <1>3, <2>1, <2>2
<1>7. \E u : u = [n \in 0 .. max |-> IF n = 0 THEN 1 ELSE (u[n - 1] * b) % m]
  <2>1. \A n \in 0 .. max : t[n] = IF n = 0 THEN 1 ELSE (t[n - 1] * b) % m
    BY <1>5, <1>6
  <2>2. t = [n \in 0 .. max |-> IF n = 0 THEN 1 ELSE (t[n - 1] * b) % m]
    BY <1>5, <2>1
  <2>3. QED
    BY <2>2
<1> DEFINE u == CHOOSE w : w = [n \in 0 .. max |-> IF n = 0 THEN 1 ELSE (w[n - 1] * b) % m]
<1>8. u = [n \in 0 .. max |-> IF n = 0 THEN 1 ELSE (u[n - 1] * b) % m]
  BY <1>7, Zenon
<1>9. Powers(b, m, max) = u
  BY DEF Powers
<1> HIDE DEF u
<1>10. u[0] = 1
  BY <1>8
<1>11. ASSUME NEW n \in Nat, n + 1 <= max PROVE u[n + 1] = (u[n] * b) % m
  <2>1. n + 1 \in 0 .. max /\ n + 1 # 0 /\ (n + 1) - 1 = n
    BY <1>11
  <2>2. u[n + 1] = (u[(n + 1) - 1] * b) % m
    BY <1>8, <2>1
  <2>3. QED
    BY <2>1, <2>2
<1>12. PICK e : e = Exp(b)
  OBVIOUS
<1>13. e[0] = 1 /\ \A k \in Nat : e[k] \in Int /\ e[k + 1] = e[k] * b
  BY <1>12, ExpIs
<1> DEFINE L == {n \in Nat : n <= max => u[n] \in Nat /\ Congruent(u[n], e[n], m)}
<1>14. 0 \in L
  BY <1>10, <1>13, CongruentSame
<1>15. ASSUME NEW n \in Nat, n \in L PROVE n + 1 \in L
  <2> SUFFICES ASSUME n + 1 <= max PROVE u[n + 1] \in Nat /\ Congruent(u[n + 1], e[n + 1], m)
    OBVIOUS
  <2>1. PICK x \in Nat, y \in Int : x = u[n] /\ y = e[n]
    BY <1>13, <1>15
  <2>2. Congruent(x, y, m)
    BY <1>15, <2>1
  <2>3. Congruent(b, b, m)
    BY CongruentSame
  <2>4. Congruent(x * b, y * b, m)
    BY <2>2, <2>3, CongruentTimes
  <2>5. PICK z \in Nat, o \in Int : z = x * b /\ o = y * b
    BY Product
  <2>6. PICK r \in Nat : r = z % m /\ r < m
    BY Division
  <2>7. r % m = r
    BY <2>6, Below
  <2>8. Congruent(r, z, m)
    BY <2>6, <2>7, RestCongruent
  <2>9. Congruent(z, o, m)
    BY <2>4, <2>5
  <2>10. Congruent(r, o, m)
    BY <2>8, <2>9, CongruentThrough
  <2>11. u[n + 1] = r
    BY <1>11, <2>1, <2>5, <2>6
  <2>12. e[n + 1] = o
    BY <1>13, <2>1, <2>5
  <2>13. QED
    BY <2>10, <2>11, <2>12
<1> HIDE DEF L
<1>16. Nat \subseteq L
  BY <1>14, <1>15, Induction
<1>17. \A n \in 0 .. max : u[n] \in Nat /\ Congruent(u[n], e[n], m)
  BY <1>16 DEF L
<1>18. QED
  BY <1>9, <1>12, <1>17

(* Fermat's little theorem, as it is assumed of a field's prime. *)
LEMMA Fermat ==
  ASSUME NEW f \in Fields, NEW x \in Int, ~Congruent(x, 0, Value(f.p))
  PROVE  Congruent(Exp(x)[Value(f.p) - 1], 1, Value(f.p))
<1>1. PICK p \in Nat \ {0} : p = Value(f.p) /\ p >= 3
  BY PrimeIs
<1>2. PICK r \in Nat : r = x % p /\ r < p
  BY WholeDivision
<1>3. r % p = r /\ 0 % p = 0
  BY <1>1, <1>2, Below
<1>4. r \in 1 .. p - 1
  <2>1. ASSUME r = 0 PROVE FALSE
    <3>1. x % p = 0 % p
      BY <1>2, <1>3, <2>1
    <3>2. Congruent(x, 0, p)
      BY <3>1, RestCongruent
    <3>3. QED
      BY <1>1, <3>2
  <2>2. QED
    BY <1>2, <2>1
<1>5. Powers(r, p, p)[p - 1] = 1
  BY <1>1, <1>4, FieldIs
<1>6. Congruent(Powers(r, p, p)[p - 1], Exp(r)[p - 1], p)
  <2>1. p - 1 \in 0 .. p
    BY <1>1
  <2>2. QED
    BY <2>1, PowersAre
<1>7. PICK n \in Nat : n = p - 1
  BY <1>1
<1>8. PICK y \in Int, z \in Int : y = Exp(r)[n] /\ z = Exp(x)[n]
  BY <1>7, ExpIs
<1>9. Congruent(1, y, p)
  BY <1>5, <1>6, <1>7, <1>8
<1>10. Congruent(y, 1, p)
  BY <1>9, CongruentBack
<1>11. Congruent(x, r, p)
  BY <1>2, <1>3, RestCongruent
<1>12. Congruent(z, y, p)
  BY <1>8, <1>11, ExpCongruent
<1>13. Congruent(z, 1, p)
  BY <1>10, <1>12, CongruentThrough
<1>14. QED
  BY <1>1, <1>7, <1>8, <1>13

LEMMA CongruentScale ==
  ASSUME NEW x \in Int, NEW y \in Int, NEW c \in Int, NEW p \in Nat, Congruent(x, y, p)
  PROVE  Congruent(x * c, y * c, p) /\ Congruent(c * x, c * y, p)
<1>1. Congruent(c, c, p)
  BY CongruentSame
<1>2. QED
  BY <1>1, CongruentTimes

LEMMA ZeroScale ==
  ASSUME NEW x \in Int, NEW c \in Int, NEW p \in Nat, Congruent(x, 0, p)
  PROVE  Congruent(c * x, 0, p)
<1>1. PICK z \in Int : z = 0 /\ c * z = 0
  OBVIOUS
<1>2. Congruent(x, z, p)
  BY <1>1
<1>3. Congruent(c * x, c * z, p)
  BY <1>2, CongruentScale
<1>4. QED
  BY <1>1, <1>3

(* The radix can be cancelled. *)
LEMMA CancelRadix ==
  ASSUME NEW f \in Fields, NEW x \in Int, NEW y \in Int,
         Congruent(x * Radix, y * Radix, Value(f.p))
  PROVE  Congruent(x, y, Value(f.p))
<1>1. PICK p \in Nat : p = Value(f.p) /\ p % 2 = 1
  BY PrimeIs
<1>2. FE_BITS \in 0 .. FE_BITS
  BY Sizes
<1>3. PICK t \in Nat : t = Two[FE_BITS] /\ t = Radix
  BY Weights DEF Radix
<1>4. x * t = t * x /\ y * t = t * y
  OBVIOUS
<1>5. Congruent(Two[FE_BITS] * x, Two[FE_BITS] * y, p)
  BY <1>1, <1>3, <1>4
<1>6. Congruent(x, y, p)
  BY <1>1, <1>2, <1>5, CongruentCancel
<1>7. QED
  BY <1>1, <1>6

LEMMA ConvertIs ==
  ASSUME NEW f \in Fields, NEW a \in Element, Value(a) >= 1,
         NEW q, q = sb_fe_mont_convert(a, f)
  PROVE  /\ q \in Element /\ Value(q) \in 1 .. Value(f.p)
         /\ Congruent(Value(q), Value(a) * Radix, Value(f.p))
<1>1. PICK p \in Nat \ {0} : p = Value(f.p) /\ p >= 3
  BY PrimeIs
<1>2. PICK R \in Nat : R = Radix
  BY Weights
<1>3. PICK b \in Element : b = f.r2_mod_p /\ Value(b) > 0 /\ Value(b) = (R * R) % p
  BY <1>1, <1>2, FieldIs
<1>4. PICK y \in Nat, rr \in Nat : y = Value(b) /\ rr = R * R /\ y = rr % p /\ y < p /\ y >= 1
  <2>1. PICK rr \in Nat : rr = R * R
    BY Product
  <2>2. rr % p \in Nat /\ rr % p < p
    BY Division
  <2>3. QED
    BY <1>3, <2>1, <2>2
<1>5. Value(b) \in 1 .. Value(f.p)
  BY <1>1, <1>4
<1>6. q = sb_fe_mont_mult(a, b, f)
  BY <1>3 DEF sb_fe_mont_convert
<1>7. /\ q \in Element /\ Value(q) \in 1 .. Value(f.p)
      /\ Congruent(Value(q) * Radix, Value(a) * Value(b), Value(f.p))
  BY <1>5, <1>6, MontgomeryIs
<1>8. PICK x \in Int, z \in Int : x = Value(a) /\ z = Value(q)
  BY <1>1, <1>7, ValueBelow, Weights
<1>9. Congruent(y, rr, p)
  <2>1. y % p = y
    BY <1>4, Below
  <2>2. QED
    BY <1>4, <2>1, RestCongruent
<1>10. Congruent(x * y, x * rr, p)
  BY <1>9, CongruentScale
<1>11. Congruent(z * R, x * y, p)
  BY <1>1, <1>2, <1>4, <1>7, <1>8
<1>12. PICK m \in Int, n \in Int : m = x * y /\ n = z * R
  OBVIOUS
<1>13. PICK k \in Int : k = x * R
  OBVIOUS
<1>14. x * (R * R) = (x * R) * R
  OBVIOUS
<1>15. PICK o \in Int : o = k * R /\ o = x * rr
  BY <1>4, <1>13, <1>14
<1>16. Congruent(n, o, p)
  <2>1. Congruent(n, m, p) /\ Congruent(m, o, p)
    BY <1>10, <1>11, <1>12, <1>15
  <2>2. QED
    BY <2>1, CongruentThrough
<1>17. Congruent(z * Radix, k * Radix, Value(f.p))
  BY <1>1, <1>2, <1>12, <1>15, <1>16
<1>18. Congruent(z, k, Value(f.p))
  BY <1>17, CancelRadix
<1>19. QED
  BY <1>2, <1>7, <1>8, <1>13, <1>18

LEMMA FromMontgomery ==
  ASSUME NEW f \in Fields, NEW a \in Element, Value(a) >= 1,
         NEW q, q = sb_fe_mont_reduce(a, f)
  PROVE  /\ q \in Element /\ Value(q) \in 1 .. Value(f.p)
         /\ Congruent(Value(q) * Radix, Value(a), Value(f.p))
<1>1. PICK b \in Element : b = SB_FE_ONE /\ Value(b) = 1
  BY OneIs
<1>2. Value(b) \in 1 .. Value(f.p)
  BY <1>1, PrimeIs
<1>3. q = sb_fe_mont_mult(a, b, f)
  BY <1>1 DEF sb_fe_mont_reduce
<1>4. /\ q \in Element /\ Value(q) \in 1 .. Value(f.p)
      /\ Congruent(Value(q) * Radix, Value(a) * Value(b), Value(f.p))
  BY <1>2, <1>3, MontgomeryIs
<1>5. Value(a) * Value(b) = Value(a)
  BY <1>1, ValueBelow, Weights
<1>6. QED
  BY <1>4, <1>5

--------------------------------------------------------------------------------
(* Exponentiation.                                                         *)

Residues(f) == {a \in Element : Value(a) \in 1 .. Value(f.p)}
Running(f) == [by : BOOLEAN, t2 : Residues(f), x : Residues(f)]

(* t is the n-th power of x, both in Montgomery form. *)
IsPower(t, n, x, p) == Congruent(t * Exp(Radix)[n], Radix * Exp(x)[n], p)

LEMMA SquareKeeps ==
  ASSUME NEW f \in Fields, NEW t \in Residues(f), NEW x \in Int, NEW n \in Nat,
         IsPower(Value(t), n, x, Value(f.p)), NEW s, s = sb_fe_mont_square(t, f)
  PROVE  s \in Residues(f) /\ IsPower(Value(s), 2 * n, x, Value(f.p))
<1>1. PICK p \in Nat \ {0} : p = Value(f.p) /\ p >= 3
  BY PrimeIs
<1>2. PICK R \in Nat : R = Radix
  BY Weights
<1>3. t \in Element /\ Value(t) \in 1 .. Value(f.p) /\ Value(t) >= 1
  BY <1>1 DEF Residues
<1>4. s = sb_fe_mont_mult(t, t, f)
  BY DEF sb_fe_mont_square
<1>5. /\ s \in Element /\ Value(s) \in 1 .. Value(f.p)
      /\ Congruent(Value(s) * Radix, Value(t) * Value(t), Value(f.p))
  BY <1>3, <1>4, MontgomeryIs
<1>6. PICK v \in Int, w \in Int : v = Value(t) /\ w = Value(s)
  BY <1>1, <1>3, <1>5
<1>7. PICK a \in Int, b \in Int : a = Exp(Radix)[n] /\ b = Exp(x)[n]
  <2>1. Exp(R)[n] \in Int /\ Exp(x)[n] \in Int
    BY ExpIs
  <2>2. QED
    BY <1>2, <2>1
<1>8. Exp(Radix)[2 * n] = a * a /\ Exp(x)[2 * n] = b * b
  <2>1. PICK m \in Nat : m = n
    OBVIOUS
  <2>2. Exp(R)[m + n] = Exp(R)[m] * Exp(R)[n] /\ Exp(x)[m + n] = Exp(x)[m] * Exp(x)[n]
    BY ExpSum
  <2>3. m + n = 2 * n
    BY <2>1
  <2>4. QED
    BY <1>2, <1>7, <2>1, <2>2, <2>3
<1>9. PICK c \in Int, d \in Int : c = v * a /\ d = R * b
  OBVIOUS
<1>10. Congruent(c, d, p)
  BY <1>1, <1>2, <1>6, <1>7, <1>9 DEF IsPower
<1>11. Congruent(c * c, d * d, p)
  BY <1>10, CongruentTimes
<1>12. PICK aa \in Int, bb \in Int, vv \in Int, wr \in Int : aa = a * a /\ bb = b * b /\ vv = v * v /\ wr = w * R
  OBVIOUS
<1>13. Congruent(wr, vv, p)
  BY <1>1, <1>2, <1>5, <1>6, <1>12
<1>14. Congruent(wr * aa, vv * aa, p)
  BY <1>13, CongruentScale
<1>15. c * c = vv * aa
  <2>1. (v * a) * (v * a) = (v * v) * (a * a)
    OBVIOUS
  <2>2. QED
    BY <1>9, <1>12, <2>1
<1>16. d * d = (R * bb) * R
  <2>1. (R * b) * (R * b) = (R * (b * b)) * R
    OBVIOUS
  <2>2. QED
    BY <1>9, <1>12, <2>1
<1>17. wr * aa = (w * aa) * R
  <2>1. (w * R) * aa = (w * aa) * R
    OBVIOUS
  <2>2. QED
    BY <1>12, <2>1
<1>18. PICK l \in Int, m \in Int, r \in Int : l = wr * aa /\ m = vv * aa /\ r = d * d
  OBVIOUS
<1>19. Congruent(l, r, p)
  <2>1. Congruent(l, m, p) /\ Congruent(m, r, p)
    BY <1>11, <1>14, <1>15, <1>18
  <2>2. QED
    BY <2>1, CongruentThrough
<1>20. PICK g \in Int, h \in Int : g = w * aa /\ h = R * bb
  OBVIOUS
<1>21. Congruent(g * Radix, h * Radix, Value(f.p))
  BY <1>1, <1>2, <1>16, <1>17, <1>18, <1>19, <1>20
<1>22. Congruent(g, h, Value(f.p))
  BY <1>21, CancelRadix
<1>23. IsPower(Value(s), 2 * n, x, Value(f.p))
  BY <1>2, <1>6, <1>8, <1>12, <1>20, <1>22 DEF IsPower
<1>24. QED
  BY <1>5, <1>23 DEF Residues

LEMMA TimesKeeps ==
  ASSUME NEW f \in Fields, NEW t \in Residues(f), NEW x \in Residues(f), NEW n \in Nat,
         IsPower(Value(t), n, Value(x), Value(f.p)), NEW s, s = sb_fe_mont_mult(t, x, f)
  PROVE  s \in Residues(f) /\ IsPower(Value(s), n + 1, Value(x), Value(f.p))
<1>1. PICK p \in Nat \ {0} : p = Value(f.p) /\ p >= 3
  BY PrimeIs
<1>2. PICK R \in Nat : R = Radix
  BY Weights
<1>3. /\ t \in Element /\ Value(t) \in 1 .. Value(f.p) /\ Value(t) >= 1
      /\ x \in Element /\ Value(x) \in 1 .. Value(f.p)
  BY <1>1 DEF Residues
<1>4. /\ s \in Element /\ Value(s) \in 1 .. Value(f.p)
      /\ Congruent(Value(s) * Radix, Value(t) * Value(x), Value(f.p))
  BY <1>3, MontgomeryIs
<1>5. PICK v \in Int, w \in Int, X \in Int : v = Value(t) /\ w = Value(s) /\ X = Value(x)
  BY <1>1, <1>3, <1>4
<1>6. PICK a \in Int, b \in Int : a = Exp(Radix)[n] /\ b = Exp(X)[n]
  <2>1. Exp(R)[n] \in Int /\ Exp(X)[n] \in Int
    BY ExpIs
  <2>2. QED
    BY <1>2, <2>1
<1>7. Exp(Radix)[n + 1] = a * R /\ Exp(X)[n + 1] = b * X
  BY <1>2, <1>6, ExpIs
<1>8. PICK va \in Int, rb \in Int, wr \in Int, vx \in Int :
        va = v * a /\ rb = R * b /\ wr = w * R /\ vx = v * X
  OBVIOUS
<1>9. Congruent(va, rb, p) /\ Congruent(wr, vx, p)
  BY <1>1, <1>2, <1>4, <1>5, <1>6, <1>8 DEF IsPower
<1>10. Congruent(va * X, rb * X, p) /\ Congruent(wr * a, vx * a, p)
  BY <1>9, CongruentScale
<1>11. va * X = vx * a
  <2>1. (v * a) * X = (v * X) * a
    OBVIOUS
  <2>2. QED
    BY <1>8, <2>1
<1>12. rb * X = R * (b * X)
  <2>1. (R * b) * X = R * (b * X)
    OBVIOUS
  <2>2. QED
    BY <1>8, <2>1
<1>13. wr * a = w * (a * R)
  <2>1. (w * R) * a = w * (a * R)
    OBVIOUS
  <2>2. QED
    BY <1>8, <2>1
<1>14. PICK l \in Int, m \in Int, r \in Int : l = wr * a /\ m = vx * a /\ r = rb * X
  OBVIOUS
<1>15. Congruent(l, m, p) /\ Congruent(m, r, p)
  BY <1>10, <1>11, <1>14
<1>16. Congruent(l, r, p)
  BY <1>15, CongruentThrough
<1>17. IsPower(Value(s), n + 1, Value(x), Value(f.p))
  BY <1>1, <1>2, <1>5, <1>7, <1>12, <1>13, <1>14, <1>16 DEF IsPower
<1>18. QED
  BY <1>4, <1>17 DEF Residues

LEMMA PowerIs ==
  ASSUME NEW f \in Fields, NEW acc \in Running(f), NEW bit \in 0 .. 1,
         NEW q, q = Power(acc, bit, f)
  PROVE  /\ q \in Running(f) /\ q.x = acc.x
         /\ \A n \in Nat : /\ IsPower(Value(acc.t2), n, Value(acc.x), Value(f.p))
                           /\ ~acc.by => n = 0
                           => /\ IsPower(Value(q.t2), 2 * n + bit, Value(acc.x), Value(f.p))
                              /\ ~q.by => 2 * n + bit = 0
<1>1. acc.by \in BOOLEAN /\ acc.t2 \in Residues(f) /\ acc.x \in Residues(f)
  BY DEF Running
<1>2. CASE ~acc.by /\ bit = 0
  <2>1. q = acc
    BY <1>2 DEF Power
  <2>2. 2 * 0 + bit = 0
    BY <1>2
  <2>3. QED
    BY <1>2, <2>1, <2>2
<1>3. CASE ~(~acc.by /\ bit = 0)
  <2>1. PICK t \in Residues(f), x \in Residues(f) : t = acc.t2 /\ x = acc.x
    BY <1>1
  <2>2. PICK s : s = sb_fe_mont_square(t, f)
    OBVIOUS
  <2>3. q.by = TRUE /\ q.t2 = Times(bit, s, x, f) /\ q.x = x
        /\ q = [by |-> TRUE, t2 |-> Times(bit, s, x, f), x |-> x]
    BY <1>3, <2>1, <2>2 DEF Power, Running
  <2>4. PICK X \in Int : X = Value(x)
    BY ValueBelow, Weights DEF Residues
  <2>5. s \in Residues(f)
        /\ \A n \in Nat : IsPower(Value(t), n, X, Value(f.p)) => IsPower(Value(s), 2 * n, X, Value(f.p))
    <3>1. t \in Element /\ Value(t) \in 1 .. Value(f.p) /\ Value(t) >= 1
      BY PrimeIs DEF Residues
    <3>2. s = sb_fe_mont_mult(t, t, f)
      BY <2>2 DEF sb_fe_mont_square
    <3>3. s \in Element /\ Value(s) \in 1 .. Value(f.p)
      BY <3>1, <3>2, MontgomeryIs
    <3>4. QED
      BY <2>2, <3>3, SquareKeeps DEF Residues
  <2>6. CASE bit = 0
    <3>1. q.t2 = s
      BY <2>3, <2>6 DEF Times
    <3>2. q \in Running(f)
      BY <2>3, <2>5, <3>1 DEF Running
    <3>3. \A n \in Nat : 2 * n + bit = 2 * n
      BY <2>6
    <3>4. QED
      BY <2>1, <2>3, <2>4, <2>5, <3>1, <3>2, <3>3
  <2>7. CASE bit = 1
    <3>1. PICK m : m = sb_fe_mont_mult(s, x, f)
      OBVIOUS
    <3>2. q.t2 = m
      BY <2>3, <2>7, <3>1 DEF Times
    <3>3. m \in Residues(f)
      <4>1. /\ s \in Element /\ Value(s) \in 1 .. Value(f.p) /\ Value(s) >= 1
            /\ x \in Element /\ Value(x) \in 1 .. Value(f.p)
        BY <2>5, PrimeIs DEF Residues
      <4>2. m \in Element /\ Value(m) \in 1 .. Value(f.p)
        BY <3>1, <4>1, MontgomeryIs
      <4>3. QED
        BY <4>2 DEF Residues
    <3>4. q \in Running(f)
      BY <2>3, <3>2, <3>3 DEF Running
    <3>5. ASSUME NEW n \in Nat, IsPower(Value(t), n, X, Value(f.p))
          PROVE  IsPower(Value(m), 2 * n + bit, X, Value(f.p))
      <4>1. IsPower(Value(s), 2 * n, X, Value(f.p))
        BY <2>5, <3>5
      <4>2. PICK k \in Nat : k = 2 * n
        OBVIOUS
      <4>3. IsPower(Value(s), k, Value(x), Value(f.p))
        BY <2>4, <4>1, <4>2
      <4>4. IsPower(Value(m), k + 1, Value(x), Value(f.p))
        BY <2>5, <3>1, <4>3, TimesKeeps
      <4>5. QED
        BY <2>4, <2>7, <4>2, <4>4
    <3>6. QED
      BY <2>1, <2>3, <2>4, <3>2, <3>4, <3>5
  <2>8. QED
    BY <2>6, <2>7
<1>4. QED
  BY <1>2, <1>3

(* The bits above a place, and the bit at it. *)
LEMMA Prefix ==
  ASSUME NEW x \in Nat, NEW m \in 0 .. FE_BITS - 1
  PROVE  /\ x \div Two[m] \in Nat /\ x \div Two[m + 1] \in Nat /\ (x \div Two[m]) % 2 \in 0 .. 1
         /\ x \div Two[m] = 2 * (x \div Two[m + 1]) + ((x \div Two[m]) % 2)
<1>1. FE_BITS \in Nat /\ m \in 0 .. FE_BITS /\ m + 1 \in 0 .. FE_BITS
  BY Sizes
<1>2. PICK t \in Nat \ {0} : t = Two[m] /\ Two[m + 1] = 2 * t
  BY <1>1, TwoIs
<1>3. (x \div t) \div 2 = x \div (t * 2)
  BY Nested
<1>4. t * 2 = 2 * t
  OBVIOUS
<1>5. PICK y \in Nat : y = x \div t
  BY Division
<1>6. y \div 2 \in Nat /\ y % 2 \in 0 .. 1 /\ y = 2 * (y \div 2) + (y % 2)
  OBVIOUS
<1>7. QED
  BY <1>2, <1>3, <1>4, <1>5, <1>6

LEMMA StartIs ==
  ASSUME NEW f \in Fields
  PROVE  f.r_mod_p \in Residues(f) /\ \A x \in Int : IsPower(Value(f.r_mod_p), 0, x, Value(f.p))
<1>1. PICK p \in Nat \ {0}, R \in Nat :
        p = Value(f.p) /\ R = Radix /\ 2 * p > R /\ p + 1 < R
  BY PrimeIs
<1>2. PICK r \in Nat : r = R % p /\ r < p
  BY Division
<1>3. r = R - p
  <2>1. R = 1 * p + (R - p) /\ R - p \in Nat /\ R - p < p
    BY <1>1
  <2>2. (1 * p + (R - p)) % p = R - p
    BY <1>1, WholeQuotient
  <2>3. QED
    BY <1>2, <2>1, <2>2
<1>4. f.r_mod_p \in Element /\ Value(f.r_mod_p) = r
  BY <1>1, <1>2, FieldIs
<1>5. f.r_mod_p \in Residues(f)
  BY <1>1, <1>2, <1>3, <1>4 DEF Residues
<1>6. r % p = r
  BY <1>2, Below
<1>7. Congruent(r, R, p)
  BY <1>2, <1>6, RestCongruent
<1>8. ASSUME NEW x \in Int PROVE IsPower(Value(f.r_mod_p), 0, x, Value(f.p))
  <2>1. Exp(R)[0] = 1 /\ Exp(x)[0] = 1
    BY ExpIs
  <2>2. r * 1 = r /\ R * 1 = R
    OBVIOUS
  <2>3. Congruent(r * Exp(Radix)[0], Radix * Exp(x)[0], p)
    BY <1>1, <1>7, <2>1, <2>2
  <2>4. QED
    BY <1>1, <1>4, <2>3 DEF IsPower
<1>9. QED
  BY <1>5, <1>8

LEMMA PowersRun ==
  ASSUME NEW f \in Fields, NEW x \in Residues(f), NEW e \in Element,
         NEW shift \in Nat, shift <= FE_BITS
  PROVE  \E r : /\ \A k \in 0 .. FE_BITS - shift : r[k] \in Running(f)
                /\ r[0] = [by |-> FALSE, t2 |-> f.r_mod_p, x |-> x]
                /\ \A k \in 0 .. (FE_BITS - shift) - 1 :
                     r[k + 1] = Power(r[k], sb_fe_test_bit(e, FE_BITS - (k + 1)), f)
                /\ sb_fe_mod_expt_r(x, e, shift, f) = r[FE_BITS - shift].t2
<1>1. PICK M \in Nat : M = FE_BITS - shift /\ f.bits - shift = M /\ f.bits = FE_BITS /\ M <= FE_BITS
  BY FieldIs, Sizes
<1>0. PICK S, none : S = Running(f) /\ none = [by |-> FALSE, t2 |-> f.r_mod_p, x |-> x]
  OBVIOUS
<1>a. PICK bit : bit = [k \in 1 .. M |-> sb_fe_test_bit(e, f.bits - k)]
  OBVIOUS
<1>b. ASSUME NEW k \in 1 .. M PROVE bit[k] \in 0 .. 1 /\ bit[k] = sb_fe_test_bit(e, FE_BITS - k)
                                    /\ bit[k] = sb_fe_test_bit(e, f.bits - k)
  <2>1. bit[k] = sb_fe_test_bit(e, FE_BITS - k) /\ bit[k] = sb_fe_test_bit(e, f.bits - k)
    BY <1>1, <1>a
  <2>2. PICK m \in 0 .. FE_BITS - 1 : m = FE_BITS - k
    BY <1>1, Sizes
  <2>3. Value(e) \in Nat
    BY ValueBelow, Weights
  <2>4. (Value(e) \div Two[m]) % 2 \in 0 .. 1
    BY <2>3, Prefix
  <2>5. sb_fe_test_bit(e, m) = (Value(e) \div Two[m]) % 2
    BY BitIs
  <2>6. QED
    BY <2>1, <2>2, <2>4, <2>5
<1> DEFINE step == [i \in Nat |-> [v \in S |-> IF i < M THEN Power(v, bit[i + 1], f) ELSE v]]
<1>2. ASSUME NEW i \in Nat, i < M, NEW v \in S PROVE Power(v, bit[i + 1], f) \in S
  <2>1. PICK w \in 0 .. 1 : w = bit[i + 1]
    BY <1>2, <1>b
  <2>2. v \in Running(f)
    BY <1>0
  <2>3. PICK n : n = Power(v, w, f)
    OBVIOUS
  <2>4. n \in Running(f)
    BY <2>2, <2>3, PowerIs
  <2>5. QED
    BY <1>0, <2>1, <2>3, <2>4
<1>3. Steps(step, S)
  BY <1>2 DEF Steps
<1>4. \A i \in Nat, v \in S : i < M => step[i][v] = Power(v, bit[i + 1], f)
  OBVIOUS
<1>5. none \in S
  BY <1>0, StartIs DEF Running
<1> HIDE DEF step
<1>6. PICK t : UpTo(M, t, none, step, S)
  BY <1>3, <1>5, RecursionTo
<1>7. /\ t = [i \in 0 .. M |-> t[i]] /\ t[0] = none /\ \A i \in 0 .. M : t[i] \in S
      /\ \A i \in 0 .. M : i # 0 => i - 1 \in 0 .. M /\ t[i] = step[i - 1][t[i - 1]]
  BY <1>6, UpToIs
<1>8. ASSUME NEW k \in 0 .. M, k # 0
      PROVE  t[k] = Power(t[k - 1], sb_fe_test_bit(e, f.bits - k), f)
  <2>0. k - 1 \in 0 .. M /\ t[k] = step[k - 1][t[k - 1]]
    BY <1>7, <1>8
  <2>1. k - 1 \in Nat /\ k - 1 < M /\ t[k - 1] \in S /\ k \in 1 .. M /\ (k - 1) + 1 = k
    BY <1>7, <1>8, <2>0
  <2>2. step[k - 1][t[k - 1]] = Power(t[k - 1], bit[(k - 1) + 1], f)
    BY <1>4, <2>1
  <2>3. bit[k] = sb_fe_test_bit(e, f.bits - k)
    BY <1>b, <2>1
  <2>4. QED
    BY <2>0, <2>1, <2>2, <2>3
<1>9. \E u : u = [k \in 0 .. f.bits - shift |->
                    IF k = 0 THEN [by |-> FALSE, t2 |-> f.r_mod_p, x |-> x]
                    ELSE Power(u[k - 1], sb_fe_test_bit(e, f.bits - k), f)]
  <2>1. \A k \in 0 .. M :
          t[k] = IF k = 0 THEN [by |-> FALSE, t2 |-> f.r_mod_p, x |-> x]
                 ELSE Power(t[k - 1], sb_fe_test_bit(e, f.bits - k), f)
    BY <1>0, <1>7, <1>8
  <2>2. t = [k \in 0 .. M |->
               IF k = 0 THEN [by |-> FALSE, t2 |-> f.r_mod_p, x |-> x]
               ELSE Power(t[k - 1], sb_fe_test_bit(e, f.bits - k), f)]
    BY <1>7, <2>1
  <2>3. QED
    BY <1>1, <2>2
<1> DEFINE r == CHOOSE u : u = [k \in 0 .. f.bits - shift |->
                    IF k = 0 THEN [by |-> FALSE, t2 |-> f.r_mod_p, x |-> x]
                    ELSE Power(u[k - 1], sb_fe_test_bit(e, f.bits - k), f)]
<1>10. r = [k \in 0 .. f.bits - shift |->
                    IF k = 0 THEN [by |-> FALSE, t2 |-> f.r_mod_p, x |-> x]
                    ELSE Power(r[k - 1], sb_fe_test_bit(e, f.bits - k), f)]
  BY <1>9, Zenon
<1>11. sb_fe_mod_expt_r(x, e, shift, f) = r[f.bits - shift].t2
  BY DEF sb_fe_mod_expt_r
<1> HIDE DEF r
<1>12. r[0] = [by |-> FALSE, t2 |-> f.r_mod_p, x |-> x]
  <2>1. 0 \in 0 .. f.bits - shift
    BY <1>1
  <2>2. QED
    BY <1>10, <2>1
<1>13. ASSUME NEW k \in 0 .. M - 1
       PROVE  /\ r[k + 1] = Power(r[k], sb_fe_test_bit(e, FE_BITS - (k + 1)), f)
              /\ r[k + 1] = Power(r[k], bit[k + 1], f)
  <2>1. k + 1 \in 0 .. f.bits - shift /\ k + 1 # 0 /\ (k + 1) - 1 = k /\ k + 1 \in 1 .. M
    BY <1>1
  <2>2. r[k + 1] = Power(r[(k + 1) - 1], sb_fe_test_bit(e, f.bits - (k + 1)), f)
    BY <1>10, <2>1
  <2>3. QED
    BY <1>1, <1>b, <2>1, <2>2
<1> DEFINE L == {i \in Nat : i <= M => r[i] \in S}
<1>14. 0 \in L
  BY <1>0, <1>5, <1>12
<1>15. ASSUME NEW i \in Nat, i \in L PROVE i + 1 \in L
  <2> SUFFICES ASSUME i + 1 <= M PROVE r[i + 1] \in S
    OBVIOUS
  <2>1. i \in 0 .. M - 1 /\ i < M /\ r[i] \in S
    BY <1>15
  <2>2. Power(r[i], bit[i + 1], f) \in S
    BY <1>2, <2>1
  <2>3. QED
    BY <1>13, <2>1, <2>2
<1> HIDE DEF L
<1>16. Nat \subseteq L
  BY <1>14, <1>15, Induction
<1>17. \A k \in 0 .. M : r[k] \in S
  BY <1>16 DEF L
<1>18. QED
  BY <1>0, <1>1, <1>11, <1>12, <1>13, <1>17

LEMMA ExptIs ==
  ASSUME NEW f \in Fields, NEW x \in Residues(f), NEW e \in Element,
         NEW shift \in Nat, shift <= FE_BITS, NEW t, t = sb_fe_mod_expt_r(x, e, shift, f)
  PROVE  /\ t \in Residues(f) /\ Value(e) \div Two[shift] \in Nat
         /\ IsPower(Value(t), Value(e) \div Two[shift], Value(x), Value(f.p))
<1>1. PICK M \in Nat : M = FE_BITS - shift /\ M <= FE_BITS /\ FE_BITS \in Nat
  BY Sizes
<1>2. PICK r : /\ \A k \in 0 .. FE_BITS - shift : r[k] \in Running(f)
               /\ r[0] = [by |-> FALSE, t2 |-> f.r_mod_p, x |-> x]
               /\ \A k \in 0 .. (FE_BITS - shift) - 1 :
                    r[k + 1] = Power(r[k], sb_fe_test_bit(e, FE_BITS - (k + 1)), f)
               /\ sb_fe_mod_expt_r(x, e, shift, f) = r[FE_BITS - shift].t2
  BY PowersRun
<1>3. PICK E \in Nat : E = Value(e) /\ E < Radix
  BY ValueBelow, Weights
<1>4. PICK X \in Int : X = Value(x)
  BY ValueBelow, Weights DEF Residues
<1>5. PICK n : n = [k \in 0 .. FE_BITS |-> E \div Two[FE_BITS - k]]
  OBVIOUS
<1>6. n[0] = 0
  <2>1. Two[FE_BITS] = Radix /\ Radix \in Nat \ {0}
    BY Weights DEF Radix
  <2>2. E = 0 * Radix + E
    BY <2>1
  <2>3. (0 * Radix + E) \div Radix = 0
    BY <1>3, <2>1, Quotient
  <2>4. E \div Radix = 0
    BY <2>2, <2>3
  <2>5. 0 \in 0 .. FE_BITS /\ FE_BITS - 0 = FE_BITS
    BY <1>1
  <2>6. n[0] = E \div Two[FE_BITS - 0]
    BY <1>5, <2>5
  <2>7. QED
    BY <2>1, <2>4, <2>5, <2>6
<1>7. ASSUME NEW k \in 0 .. FE_BITS - 1
      PROVE  /\ n[k] \in Nat /\ n[k + 1] \in Nat
             /\ sb_fe_test_bit(e, FE_BITS - (k + 1)) \in 0 .. 1
             /\ n[k + 1] = 2 * n[k] + sb_fe_test_bit(e, FE_BITS - (k + 1))
  <2>1. PICK m \in 0 .. FE_BITS - 1 : m = FE_BITS - (k + 1) /\ m + 1 = FE_BITS - k
    BY <1>1
  <2>2. k \in 0 .. FE_BITS /\ k + 1 \in 0 .. FE_BITS
    BY <1>1
  <2>3. n[k] = E \div Two[m + 1] /\ n[k + 1] = E \div Two[m]
    BY <1>5, <2>1, <2>2
  <2>4. /\ E \div Two[m] \in Nat /\ E \div Two[m + 1] \in Nat /\ (E \div Two[m]) % 2 \in 0 .. 1
        /\ E \div Two[m] = 2 * (E \div Two[m + 1]) + ((E \div Two[m]) % 2)
    BY Prefix
  <2>5. sb_fe_test_bit(e, m) = (E \div Two[m]) % 2
    BY <1>3, BitIs
  <2>6. QED
    BY <2>1, <2>3, <2>4, <2>5
<1> DEFINE L == {k \in Nat : k <= M => /\ IsPower(Value(r[k].t2), n[k], X, Value(f.p))
                                       /\ r[k].x = x /\ n[k] \in Nat
                                       /\ ~r[k].by => n[k] = 0}
<1>8. 0 \in L
  <2>1. r[0].t2 = f.r_mod_p /\ r[0].x = x
    BY <1>2
  <2>2. IsPower(Value(f.r_mod_p), 0, X, Value(f.p))
    BY StartIs
  <2>3. QED
    BY <1>6, <2>1, <2>2
<1>9. ASSUME NEW k \in Nat, k \in L PROVE k + 1 \in L
  <2>0. k + 1 \in Nat
    OBVIOUS
  <2> SUFFICES ASSUME k + 1 <= M
               PROVE  /\ IsPower(Value(r[k + 1].t2), n[k + 1], X, Value(f.p))
                      /\ r[k + 1].x = x /\ n[k + 1] \in Nat
                      /\ ~r[k + 1].by => n[k + 1] = 0
    BY <2>0, Zenon
  <2>1. k <= M /\ k \in 0 .. FE_BITS - shift /\ k \in 0 .. (FE_BITS - shift) - 1 /\ k \in 0 .. FE_BITS - 1
    BY <1>1
  <2>2. /\ IsPower(Value(r[k].t2), n[k], X, Value(f.p))
        /\ r[k].x = x /\ n[k] \in Nat /\ (~r[k].by => n[k] = 0)
    BY <1>9, <2>1
  <2>3. PICK acc \in Running(f) : acc = r[k]
    BY <1>2, <2>1
  <2>4. PICK bit \in 0 .. 1 : bit = sb_fe_test_bit(e, FE_BITS - (k + 1))
    BY <1>7, <2>1
  <2>5. PICK q : q = r[k + 1]
    OBVIOUS
  <2>6. q = Power(acc, bit, f)
    BY <1>2, <2>1, <2>3, <2>4, <2>5
  <2>7. /\ q \in Running(f) /\ q.x = acc.x
        /\ \A j \in Nat : /\ IsPower(Value(acc.t2), j, Value(acc.x), Value(f.p))
                          /\ ~acc.by => j = 0
                          => /\ IsPower(Value(q.t2), 2 * j + bit, Value(acc.x), Value(f.p))
                             /\ ~q.by => 2 * j + bit = 0
    BY <2>6, PowerIs
  <2>8. PICK j \in Nat : j = n[k]
    BY <2>2
  <2>9. IsPower(Value(acc.t2), j, Value(acc.x), Value(f.p)) /\ (~acc.by => j = 0)
    BY <1>4, <2>2, <2>3, <2>8
  <2>10. IsPower(Value(q.t2), 2 * j + bit, Value(acc.x), Value(f.p)) /\ (~q.by => 2 * j + bit = 0)
    BY <2>7, <2>9
  <2>11. n[k + 1] = 2 * j + bit /\ n[k + 1] \in Nat
    BY <1>7, <2>1, <2>4, <2>8
  <2>12. q.x = x /\ Value(acc.x) = X
    BY <1>4, <2>2, <2>3, <2>7
  <2>13. QED
    BY <2>5, <2>10, <2>11, <2>12
<1> HIDE DEF L
<1>10. Nat \subseteq L
  BY <1>8, <1>9, Induction
<1>11. IsPower(Value(r[M].t2), n[M], X, Value(f.p)) /\ n[M] \in Nat
  BY <1>10 DEF L
<1>12. n[M] = E \div Two[shift]
  <2>1. M \in 0 .. FE_BITS /\ FE_BITS - M = shift
    BY <1>1
  <2>2. QED
    BY <1>5, <2>1
<1>13. r[M] \in Running(f) /\ t = r[M].t2
  BY <1>1, <1>2
<1>14. QED
  BY <1>3, <1>4, <1>11, <1>12, <1>13 DEF Running

--------------------------------------------------------------------------------
(* Inversion.                                                              *)

LEMMA CancelPower ==
  ASSUME NEW f \in Fields, NEW x \in Int, NEW y \in Int, NEW n \in Nat,
         Congruent(x * Exp(Radix)[n], y * Exp(Radix)[n], Value(f.p))
  PROVE  Congruent(x, y, Value(f.p))
<1>1. PICK p \in Nat \ {0} : p = Value(f.p)
  BY PrimeIs
<1>2. PICK R \in Nat : R = Radix
  BY Weights
<1>3. PICK t : t = Exp(R)
  OBVIOUS
<1>4. t[0] = 1 /\ \A k \in Nat : t[k] \in Int /\ t[k + 1] = t[k] * R
  BY <1>3, ExpIs
<1> DEFINE L == {k \in Nat : Congruent(x * t[k], y * t[k], p) => Congruent(x, y, p)}
<1>5. 0 \in L
  BY <1>4
<1>6. ASSUME NEW k \in Nat, k \in L PROVE k + 1 \in L
  <2>0. k + 1 \in Nat
    OBVIOUS
  <2> SUFFICES ASSUME Congruent(x * t[k + 1], y * t[k + 1], p) PROVE Congruent(x, y, p)
    BY <2>0, Zenon
  <2>1. PICK v \in Int : v = t[k] /\ t[k + 1] = v * R
    BY <1>4
  <2>2. x * (v * R) = (x * v) * R /\ y * (v * R) = (y * v) * R
    OBVIOUS
  <2>3. PICK g \in Int, h \in Int : g = x * v /\ h = y * v
    OBVIOUS
  <2>4. Congruent(g * Radix, h * Radix, Value(f.p))
    BY <1>1, <1>2, <2>1, <2>2, <2>3
  <2>5. Congruent(g, h, Value(f.p))
    BY <2>4, CancelRadix
  <2>6. Congruent(x * t[k], y * t[k], p)
    BY <1>1, <2>1, <2>3, <2>5
  <2>7. QED
    BY <1>6, <2>6
<1> HIDE DEF L
<1>7. Nat \subseteq L
  BY <1>5, <1>6, Induction
<1>8. QED
  BY <1>1, <1>2, <1>3, <1>7 DEF L

LEMMA OneNotZero ==
  ASSUME NEW p \in Nat, p >= 2
  PROVE  ~Congruent(1, 0, p) /\ Congruent(p, 0, p)
<1>1. 1 % p = 1 /\ 0 % p = 0
  BY Below
<1>2. ASSUME Congruent(1, 0, p) PROVE FALSE
  <2>1. 1 % p = 0 % p
    BY <1>2, CongruentHasRest
  <2>2. QED
    BY <1>1, <2>1
<1>3. p = 0 + 1 * p
  OBVIOUS
<1>4. QED
  BY <1>2, <1>3 DEF Congruent

LEMMA RadixNotZero ==
  ASSUME NEW f \in Fields
  PROVE  ~Congruent(Radix, 0, Value(f.p))
<1>1. PICK p \in Nat, R \in Nat : p = Value(f.p) /\ p >= 3 /\ R = Radix
  BY PrimeIs
<1>2. ASSUME Congruent(R, 0, p) PROVE FALSE
  <2>1. 1 * Radix = R /\ 0 * Radix = 0
    BY <1>1
  <2>2. Congruent(1 * Radix, 0 * Radix, Value(f.p))
    BY <1>1, <1>2, <2>1
  <2>3. Congruent(1, 0, Value(f.p))
    BY <2>2, CancelRadix
  <2>4. QED
    BY <1>1, <2>3, OneNotZero
<1>3. QED
  BY <1>1, <1>2

(* A power of the prime, which stands for zero. *)
LEMMA PowerOfZero ==
  ASSUME NEW x \in Int, NEW p \in Nat, Congruent(x, 0, p), NEW n \in Nat \ {0}
  PROVE  Congruent(Exp(x)[n], 0, p)
<1>1. PICK k \in Nat : n = k + 1
  <2>1. n - 1 \in Nat /\ n = (n - 1) + 1
    OBVIOUS
  <2>2. QED
    BY <2>1
<1>2. PICK v \in Int : v = Exp(x)[k] /\ Exp(x)[k + 1] = v * x
  BY ExpIs
<1>3. Congruent(v * x, 0, p)
  BY ZeroScale
<1>4. QED
  BY <1>1, <1>2, <1>3

LEMMA PowerOfPrime ==
  ASSUME NEW f \in Fields, NEW t \in 1 .. Value(f.p), NEW n \in Nat \ {0},
         IsPower(t, n, Value(f.p), Value(f.p))
  PROVE  t = Value(f.p)
<1>1. PICK p \in Nat \ {0} : p = Value(f.p) /\ p >= 3
  BY PrimeIs
<1>2. PICK R \in Nat : R = Radix
  BY Weights
<1>3. PICK a \in Int, b \in Int : a = Exp(R)[n] /\ b = Exp(p)[n]
  <2>1. Exp(R)[n] \in Int /\ Exp(p)[n] \in Int
    BY ExpIs
  <2>2. QED
    BY <2>1
<1>4. Congruent(b, 0, p)
  <2>1. Congruent(p, 0, p)
    BY <1>1, OneNotZero
  <2>2. QED
    BY <1>3, <2>1, PowerOfZero
<1>5. Congruent(R * b, 0, p)
  <2>1. PICK c \in Int, q \in Nat : c = R /\ q = p
    OBVIOUS
  <2>2. Congruent(c * b, 0, q)
    BY <1>4, <2>1, ZeroScale
  <2>3. QED
    BY <2>1, <2>2
<1>6. t \in Int
  BY <1>1
<1>7. PICK rb \in Int, ta \in Int : rb = R * b /\ ta = t * a
  BY <1>6
<1>8. Congruent(ta, rb, p)
  BY <1>1, <1>2, <1>3, <1>7 DEF IsPower
<1>9. 0 * a = 0
  OBVIOUS
<1>10. Congruent(rb, 0, p)
  BY <1>5, <1>7
<1>11. Congruent(ta, 0, p)
  BY <1>8, <1>10, CongruentThrough
<1>12. Congruent(t * Exp(Radix)[n], 0 * Exp(Radix)[n], Value(f.p))
  BY <1>1, <1>2, <1>3, <1>7, <1>9, <1>11
<1>13. Congruent(t, 0, Value(f.p))
  BY <1>6, <1>12, CancelPower
<1>14. Congruent(0, p, p)
  BY <1>1, OneNotZero, CongruentBack
<1>15. Congruent(t, p, p)
  BY <1>1, <1>6, <1>13, <1>14, CongruentThrough
<1>16. p \in 1 .. p /\ t \in 1 .. p
  BY <1>1
<1>17. t = p
  BY <1>15, <1>16, CongruentUnique
<1>18. QED
  BY <1>1, <1>17

(* A power of a power. *)
LEMMA PowerOfPower ==
  ASSUME NEW f \in Fields, NEW x \in Int, NEW y \in Int, NEW z \in Int,
         NEW m \in Nat, NEW n \in Nat,
         IsPower(y, m, x, Value(f.p)), IsPower(z, n, y, Value(f.p))
  PROVE  m * n \in Nat /\ IsPower(z, m * n, x, Value(f.p))
<1>1. PICK p \in Nat \ {0} : p = Value(f.p)
  BY PrimeIs
<1>2. PICK R \in Nat : R = Radix
  BY Weights
<1>3. PICK o \in Nat : o = m * n /\ Exp(Exp(R)[m])[n] = Exp(R)[o] /\ Exp(Exp(x)[m])[n] = Exp(x)[o]
  BY ExpPower
<1>4. PICK rm \in Int, xm \in Int : rm = Exp(R)[m] /\ xm = Exp(x)[m]
  <2>1. Exp(R)[m] \in Int /\ Exp(x)[m] \in Int
    BY ExpIs
  <2>2. QED
    BY <2>1
<1>5. PICK rn \in Int, yn \in Int, ro \in Int, xo \in Int :
        rn = Exp(R)[n] /\ yn = Exp(y)[n] /\ ro = Exp(R)[o] /\ xo = Exp(x)[o]
  <2>1. Exp(R)[n] \in Int /\ Exp(y)[n] \in Int /\ Exp(R)[o] \in Int /\ Exp(x)[o] \in Int
    BY ExpIs
  <2>2. QED
    BY <2>1
<1>6. Exp(y * rm)[n] = yn * ro
  <2>1. PICK g0 : g0 = y * rm
    OBVIOUS
  <2>2. IsProduct(Exp(g0), Exp(y), Exp(rm))
    BY <2>1, ExpProduct
  <2>3. Exp(g0)[n] = Exp(y)[n] * Exp(rm)[n]
    BY <2>2 DEF IsProduct
  <2>4. QED
    BY <1>3, <1>4, <1>5, <2>1, <2>3
<1>7. Exp(R * xm)[n] = rn * xo
  <2>1. PICK g0 : g0 = R * xm
    OBVIOUS
  <2>2. IsProduct(Exp(g0), Exp(R), Exp(xm))
    BY <2>1, ExpProduct
  <2>3. Exp(g0)[n] = Exp(R)[n] * Exp(xm)[n]
    BY <2>2 DEF IsProduct
  <2>4. QED
    BY <1>3, <1>4, <1>5, <2>1, <2>3
<1>8. PICK g \in Int, h \in Int : g = y * rm /\ h = R * xm
  OBVIOUS
<1>9. Congruent(g, h, p)
  BY <1>1, <1>2, <1>4, <1>8 DEF IsPower
<1>10. Congruent(Exp(g)[n], Exp(h)[n], p)
  BY <1>9, ExpCongruent
<1>11. PICK gn \in Int, hn \in Int : gn = yn * ro /\ hn = rn * xo
  OBVIOUS
<1>12. Congruent(gn, hn, p)
  BY <1>6, <1>7, <1>8, <1>10, <1>11
<1>13. PICK zr \in Int, ry \in Int : zr = z * rn /\ ry = R * yn
  OBVIOUS
<1>14. Congruent(zr, ry, p)
  BY <1>1, <1>2, <1>5, <1>13 DEF IsPower
<1>15. Congruent(zr * ro, ry * ro, p) /\ Congruent(R * gn, R * hn, p)
  BY <1>12, <1>14, CongruentScale
<1>16. ry * ro = R * gn
  <2>1. (R * yn) * ro = R * (yn * ro)
    OBVIOUS
  <2>2. QED
    BY <1>11, <1>13, <2>1
<1>17. R * hn = (R * xo) * rn
  <2>1. R * (rn * xo) = (R * xo) * rn
    OBVIOUS
  <2>2. QED
    BY <1>11, <2>1
<1>18. zr * ro = (z * ro) * rn
  <2>1. (z * rn) * ro = (z * ro) * rn
    OBVIOUS
  <2>2. QED
    BY <1>13, <2>1
<1>19. PICK l \in Int, c \in Int, r \in Int : l = zr * ro /\ c = ry * ro /\ r = R * hn
  OBVIOUS
<1>20. Congruent(l, c, p) /\ Congruent(c, r, p)
  BY <1>15, <1>16, <1>19
<1>21. Congruent(l, r, p)
  BY <1>20, CongruentThrough
<1>22. PICK a \in Int, b \in Int : a = z * ro /\ b = R * xo
  OBVIOUS
<1>23. Congruent(a * Exp(Radix)[n], b * Exp(Radix)[n], Value(f.p))
  BY <1>1, <1>2, <1>5, <1>17, <1>18, <1>19, <1>21, <1>22
<1>24. Congruent(a, b, Value(f.p))
  BY <1>23, CancelPower
<1>25. IsPower(z, o, x, Value(f.p))
  BY <1>2, <1>5, <1>22, <1>24 DEF IsPower
<1>26. QED
  BY <1>3, <1>25

LEMMA PowerInverts ==
  ASSUME NEW f \in Fields, NEW x \in Int, ~Congruent(x, 0, Value(f.p)), NEW z \in Int,
         NEW n \in Nat, n = Value(f.p) - 2, IsPower(z, n, x, Value(f.p))
  PROVE  Congruent(z * x, Radix * Radix, Value(f.p))
<1>1. PICK p \in Nat : p = Value(f.p) /\ p - 1 = n + 1
  BY PrimeIs
<1>2. PICK R \in Int : R = Radix
  BY Weights
<1>3. PICK a \in Int, b \in Int : /\ a = Exp(R)[n] /\ Exp(R)[n + 1] = a * R
                                  /\ b = Exp(x)[n] /\ Exp(x)[n + 1] = b * x
  <2>1. Exp(R)[n] \in Int /\ Exp(x)[n] \in Int /\ Exp(R)[n + 1] = Exp(R)[n] * R
        /\ Exp(x)[n + 1] = Exp(x)[n] * x
    BY ExpIs
  <2>2. QED
    BY <2>1
<1>4. PICK ar \in Int, bx \in Int, za \in Int, rb \in Int, rx \in Int, zx \in Int, rr \in Int :
        /\ ar = a * R /\ bx = b * x /\ za = z * a /\ rb = R * b
        /\ rx = R * x /\ zx = z * x /\ rr = R * R
  OBVIOUS
<1>5. Congruent(za, rb, p)
  BY <1>1, <1>2, <1>3, <1>4 DEF IsPower
<1>6. Congruent(za * rx, rb * rx, p)
  BY <1>5, CongruentScale
<1>7. Congruent(ar, 1, p)
  <2>1. ~Congruent(R, 0, Value(f.p))
    BY <1>2, RadixNotZero
  <2>2. Congruent(Exp(R)[Value(f.p) - 1], 1, Value(f.p))
    BY <2>1, Fermat
  <2>3. QED
    BY <1>1, <1>3, <1>4, <2>2
<1>8. Congruent(bx, 1, p)
  <2>1. Congruent(Exp(x)[Value(f.p) - 1], 1, Value(f.p))
    BY Fermat
  <2>2. QED
    BY <1>1, <1>3, <1>4, <2>1
<1>9. PICK o \in Int : o = 1 /\ zx * o = zx /\ rr * o = rr
  OBVIOUS
<1>10. Congruent(zx * ar, zx * o, p) /\ Congruent(rr * bx, rr * o, p)
  <2>1. Congruent(ar, o, p) /\ Congruent(bx, o, p)
    BY <1>7, <1>8, <1>9
  <2>2. QED
    BY <2>1, CongruentScale
<1>11. za * rx = zx * ar
  <2>1. (z * a) * (R * x) = (z * x) * (a * R)
    OBVIOUS
  <2>2. QED
    BY <1>4, <2>1
<1>12. rb * rx = rr * bx
  <2>1. (R * b) * (R * x) = (R * R) * (b * x)
    OBVIOUS
  <2>2. QED
    BY <1>4, <2>1
<1>13. PICK l \in Int, r \in Int : l = zx * ar /\ r = rr * bx
  OBVIOUS
<1>14. Congruent(l, r, p) /\ Congruent(l, zx, p) /\ Congruent(r, rr, p)
  BY <1>6, <1>9, <1>10, <1>11, <1>12, <1>13
<1>15. Congruent(zx, l, p)
  BY <1>14, CongruentBack
<1>16. Congruent(zx, r, p)
  BY <1>14, <1>15, CongruentThrough
<1>17. Congruent(zx, rr, p)
  BY <1>14, <1>16, CongruentThrough
<1>18. QED
  BY <1>1, <1>2, <1>4, <1>17

(* A residue but the prime is not zero. *)
LEMMA ResidueNotZero ==
  ASSUME NEW p \in Nat \ {0}, NEW x \in 1 .. p, x # p
  PROVE  ~Congruent(x, 0, p)
<1>1. p = 0 + 1 * p
  OBVIOUS
<1>2. Congruent(p, 0, p)
  BY <1>1 DEF Congruent
<1>3. Congruent(0, p, p)
  BY <1>2, CongruentBack
<1>4. ASSUME Congruent(x, 0, p) PROVE FALSE
  <2>1. Congruent(x, p, p)
    BY <1>3, <1>4, CongruentThrough
  <2>2. x = p
    BY <2>1, CongruentUnique
  <2>3. QED
    BY <2>2
<1>5. QED
  BY <1>4

LEMMA WholePower ==
  ASSUME NEW f \in Fields, NEW x \in Residues(f), NEW e \in Element,
         NEW t, t = sb_fe_mod_expt_r(x, e, 0, f)
  PROVE  t \in Residues(f) /\ IsPower(Value(t), Value(e), Value(x), Value(f.p))
<1>1. 0 \in Nat /\ 0 <= FE_BITS
  BY Sizes
<1>2. /\ t \in Residues(f)
      /\ IsPower(Value(t), Value(e) \div Two[0], Value(x), Value(f.p))
  BY <1>1, ExptIs
<1>3. PICK E \in Nat : E = Value(e)
  BY ValueBelow, Weights
<1>4. E \div 1 = E
  BY <1>3
<1>5. QED
  BY <1>2, <1>3, <1>4, TwoIs

LEMMA InverseIs ==
  ASSUME NEW f \in Fields, NEW x \in Residues(f), NEW z, z = sb_fe_mod_inv_r(x, f)
  PROVE  /\ z \in Residues(f)
         /\ Value(x) = Value(f.p) => Value(z) = Value(f.p)
         /\ Value(x) # Value(f.p) => Congruent(Value(z) * Value(x), Radix * Radix, Value(f.p))
<1>1. PICK p \in Nat : p = Value(f.p) /\ p >= 3
  BY PrimeIs
<1>2. PICK e \in Element, g \in Element :
        e = f.p_minus_two_f1 /\ g = f.p_minus_two_f2 /\ Value(e) * Value(g) = p - 2
  BY <1>1, FieldIs
<1>3. PICK m \in Nat, n \in Nat : m = Value(e) /\ n = Value(g) /\ m * n = p - 2
  <2>1. Value(e) \in Nat /\ Value(g) \in Nat
    BY ValueBelow, Weights
  <2>2. QED
    BY <1>2, <2>1
<1>4. m # 0 /\ n # 0
  <2>1. 0 * n = 0 /\ m * 0 = 0
    OBVIOUS
  <2>2. QED
    BY <1>1, <1>3, <2>1
<1>5. PICK y : y = sb_fe_mod_expt_r(x, e, 0, f)
  OBVIOUS
<1>6. y \in Residues(f) /\ IsPower(Value(y), m, Value(x), Value(f.p))
  BY <1>3, <1>5, WholePower
<1>7. z = sb_fe_mod_expt_r(y, g, 0, f)
  BY <1>2, <1>5 DEF sb_fe_mod_inv_r
<1>8. z \in Residues(f) /\ IsPower(Value(z), n, Value(y), Value(f.p))
  BY <1>3, <1>6, <1>7, WholePower
<1>9. PICK X \in 1 .. p, Y \in 1 .. p, Z \in 1 .. p : X = Value(x) /\ Y = Value(y) /\ Z = Value(z)
  BY <1>1, <1>6, <1>8 DEF Residues
<1>10. ASSUME X = p PROVE Z = p
  <2>1. Y \in 1 .. Value(f.p) /\ IsPower(Y, m, Value(f.p), Value(f.p))
    BY <1>1, <1>6, <1>9, <1>10
  <2>2. Y = Value(f.p)
    BY <1>4, <2>1, PowerOfPrime
  <2>3. Z \in 1 .. Value(f.p) /\ IsPower(Z, n, Value(f.p), Value(f.p))
    BY <1>1, <1>8, <1>9, <2>2
  <2>4. Z = Value(f.p)
    BY <1>4, <2>3, PowerOfPrime
  <2>5. QED
    BY <1>1, <2>4
<1>11. ASSUME X # p PROVE Congruent(Z * X, Radix * Radix, Value(f.p))
  <2>1. X \in Int /\ Y \in Int /\ Z \in Int
    BY <1>1
  <2>2. IsPower(Y, m, X, Value(f.p)) /\ IsPower(Z, n, Y, Value(f.p))
    BY <1>6, <1>8, <1>9
  <2>3. m * n \in Nat /\ IsPower(Z, m * n, X, Value(f.p))
    BY <2>1, <2>2, PowerOfPower
  <2>4. PICK k \in Nat : k = m * n
    BY <2>3
  <2>5. k = Value(f.p) - 2 /\ IsPower(Z, k, X, Value(f.p))
    BY <1>1, <1>3, <2>3, <2>4
  <2>6. ~Congruent(X, 0, p)
    BY <1>1, <1>11, ResidueNotZero
  <2>7. ~Congruent(X, 0, Value(f.p))
    BY <1>1, <2>6
  <2>8. QED
    BY <2>1, <2>5, <2>7, PowerInverts
<1>12. QED
  BY <1>1, <1>8, <1>9, <1>10, <1>11

--------------------------------------------------------------------------------
(* The square root.                                                        *)

(* A power of a number in Montgomery form. *)
LEMMA ConvertedPower ==
  ASSUME NEW f \in Fields, NEW x \in Int, NEW y \in Int, Congruent(y, x * Radix, Value(f.p)),
         NEW t \in Int, NEW n \in Nat, IsPower(t, n, y, Value(f.p))
  PROVE  Congruent(t, Radix * Exp(x)[n], Value(f.p))
<1>1. PICK p \in Nat : p = Value(f.p)
  BY PrimeIs
<1>2. PICK R \in Int : R = Radix
  BY Weights
<1>3. PICK a \in Int, b \in Int, c \in Int : a = Exp(R)[n] /\ b = Exp(x)[n] /\ c = Exp(y)[n]
  <2>1. Exp(R)[n] \in Int /\ Exp(x)[n] \in Int /\ Exp(y)[n] \in Int
    BY ExpIs
  <2>2. QED
    BY <2>1
<1>4. PICK xr \in Int, ba \in Int, ta \in Int, rc \in Int, rb \in Int :
        xr = x * R /\ ba = b * a /\ ta = t * a /\ rc = R * c /\ rb = R * b
  OBVIOUS
<1>5. Exp(xr)[n] = ba
  <2>1. IsProduct(Exp(xr), Exp(x), Exp(R))
    BY <1>4, ExpProduct
  <2>2. QED
    BY <1>3, <1>4, <2>1 DEF IsProduct
<1>6. Congruent(y, xr, p)
  BY <1>1, <1>2, <1>4
<1>7. Congruent(Exp(y)[n], Exp(xr)[n], p)
  BY <1>6, ExpCongruent
<1>8. Congruent(c, ba, p)
  BY <1>3, <1>5, <1>7
<1>9. Congruent(R * c, R * ba, p)
  BY <1>8, CongruentScale
<1>10. Congruent(ta, rc, p)
  BY <1>1, <1>2, <1>3, <1>4 DEF IsPower
<1>11. PICK g \in Int : g = R * ba /\ g = rb * a
  <2>1. R * (b * a) = (R * b) * a
    OBVIOUS
  <2>2. QED
    BY <1>4, <2>1
<1>12. Congruent(rc, g, p)
  BY <1>4, <1>9, <1>11
<1>13. Congruent(ta, g, p)
  BY <1>10, <1>12, CongruentThrough
<1>14. Congruent(t * Exp(Radix)[n], rb * Exp(Radix)[n], Value(f.p))
  BY <1>1, <1>2, <1>3, <1>4, <1>11, <1>13
<1>15. Congruent(t, rb, Value(f.p))
  BY <1>14, CancelPower
<1>16. QED
  BY <1>2, <1>3, <1>4, <1>15

(* If x has a root, its power by a quarter of p + 1 is one. *)
LEMMA PowerIsRoot ==
  ASSUME NEW f \in Fields, NEW m \in Nat, 4 * m = Value(f.p) + 1,
         NEW x \in Int, NEW s \in Int, Congruent(s * s, x, Value(f.p))
  PROVE  Congruent(Exp(x)[m] * Exp(x)[m], x, Value(f.p))
<1>1. PICK p \in Nat, k \in Nat : p = Value(f.p) /\ p >= 3 /\ k = p - 1 /\ 4 * m = k + 2
  BY PrimeIs
<1>2. PICK a \in Int, b \in Int, c \in Int, q \in Int :
        a = Exp(x)[m] /\ b = Exp(s)[m] /\ c = Exp(s)[2 * m] /\ q = Exp(s)[k]
  <2>1. PICK n \in Nat : n = 2 * m
    OBVIOUS
  <2>2. Exp(x)[m] \in Int /\ Exp(s)[m] \in Int /\ Exp(s)[n] \in Int /\ Exp(s)[k] \in Int
    BY ExpIs
  <2>3. QED
    BY <2>1, <2>2
<1>3. PICK bb \in Int, ss \in Int, aa \in Int, qs \in Int :
        bb = b * b /\ ss = s * s /\ aa = a * a /\ qs = q * ss
  OBVIOUS
<1>4. c = bb
  <2>1. PICK n \in Nat : n = m /\ n + m = 2 * m
    OBVIOUS
  <2>2. Exp(s)[n + m] = Exp(s)[n] * Exp(s)[m]
    BY ExpSum
  <2>3. QED
    BY <1>2, <1>3, <2>1, <2>2
<1>5. bb * bb = qs
  <2>1. PICK n \in Nat, o \in Nat : n = 2 * m /\ o = n /\ n + o = k + 2
    BY <1>1
  <2>2. Exp(s)[n + o] = Exp(s)[n] * Exp(s)[o]
    BY ExpSum
  <2>3. PICK two \in Nat : two = 2
    OBVIOUS
  <2>4. Exp(s)[k + two] = Exp(s)[k] * Exp(s)[two]
    BY ExpSum
  <2>5. Exp(s)[two] = ss
    <3>1. Exp(s)[0] = 1 /\ Exp(s)[0 + 1] = Exp(s)[0] * s /\ Exp(s)[1 + 1] = Exp(s)[1] * s
      BY ExpIs
    <3>2. 1 * s = s
      OBVIOUS
    <3>3. QED
      BY <1>3, <2>3, <3>1, <3>2
  <2>6. QED
    BY <1>2, <1>3, <1>4, <2>1, <2>2, <2>3, <2>4, <2>5
<1>6. Congruent(a, bb, p)
  <2>1. Congruent(ss, x, p)
    BY <1>1, <1>3
  <2>2. Congruent(x, ss, p)
    BY <2>1, CongruentBack
  <2>3. Congruent(Exp(x)[m], Exp(ss)[m], p)
    BY <2>2, ExpCongruent
  <2>4. IsProduct(Exp(ss), Exp(s), Exp(s))
    BY <1>3, ExpProduct
  <2>5. Exp(ss)[m] = Exp(s)[m] * Exp(s)[m]
    BY <2>4 DEF IsProduct
  <2>6. QED
    BY <1>2, <1>3, <2>3, <2>5
<1>7. Congruent(aa, qs, p)
  <2>1. Congruent(a * a, bb * bb, p)
    BY <1>6, CongruentTimes
  <2>2. QED
    BY <1>3, <1>5, <2>1
<1>8. Congruent(qs, ss, p)
  <2>1. CASE Congruent(s, 0, p)
    <3>1. Congruent(s * s, 0, p)
      BY <2>1, ZeroScale
    <3>2. Congruent(ss, 0, p)
      BY <1>3, <3>1
    <3>3. Congruent(q * ss, 0, p)
      BY <3>2, ZeroScale
    <3>4. Congruent(qs, 0, p)
      BY <1>3, <3>3
    <3>5. Congruent(0, ss, p)
      BY <3>2, CongruentBack
    <3>6. QED
      BY <3>4, <3>5, CongruentThrough
  <2>2. CASE ~Congruent(s, 0, p)
    <3>1. ~Congruent(s, 0, Value(f.p))
      BY <1>1, <2>2
    <3>2. Congruent(Exp(s)[Value(f.p) - 1], 1, Value(f.p))
      BY <3>1, Fermat
    <3>3. PICK o \in Int : o = 1 /\ o * ss = ss
      OBVIOUS
    <3>4. Congruent(q, o, p)
      BY <1>1, <1>2, <3>2, <3>3
    <3>5. Congruent(q * ss, o * ss, p)
      BY <3>4, CongruentScale
    <3>6. QED
      BY <1>3, <3>3, <3>5
  <2>3. QED
    BY <2>1, <2>2
<1>9. Congruent(aa, ss, p)
  BY <1>7, <1>8, CongruentThrough
<1>10. Congruent(ss, x, p)
  BY <1>1, <1>3
<1>11. Congruent(aa, x, p)
  BY <1>9, <1>10, CongruentThrough
<1>12. QED
  BY <1>1, <1>2, <1>3, <1>11

LEMMA Quarter ==
  ASSUME NEW f \in Fields, Value(f.p) % 4 = 3, NEW e, e = sb_fe_add(f.p, SB_FE_ONE).fe
  PROVE  /\ e \in Element /\ 2 <= FE_BITS
         /\ \E m \in Nat : 4 * m = Value(f.p) + 1 /\ Value(e) \div Two[2] = m
<1>1. PICK p \in Nat, R \in Nat : p = Value(f.p) /\ p >= 3 /\ R = Radix /\ p + 1 < R
  BY PrimeIs
<1>2. PICK m \in Nat : 4 * m = p + 1
  <2>1. p % 4 = 3
    BY <1>1
  <2>2. (p + 1) \div 4 \in Nat /\ 4 * ((p + 1) \div 4) = p + 1
    BY <2>1
  <2>3. QED
    BY <2>2
<1>3. PICK s : s = sb_fe_add(f.p, SB_FE_ONE)
  OBVIOUS
<1>4. f.p \in Element /\ SB_FE_ONE \in Element
  BY PrimeIs, OneIs
<1>5. /\ s.fe \in Element /\ s.carry \in 0 .. 1
      /\ Value(s.fe) + s.carry * Radix = Value(f.p) + Value(SB_FE_ONE)
  BY <1>3, <1>4, AddIs
<1>6. e \in Element /\ e = s.fe
  BY <1>3, <1>5
<1>7. PICK v \in Nat : v = Value(e)
  BY <1>6, ValueBelow, Weights
<1>8. v = p + 1
  <2>1. s.carry = 0 \/ s.carry = 1
    BY <1>5
  <2>2. 0 * Radix = 0 /\ 1 * Radix = R
    BY <1>1
  <2>3. v + s.carry * Radix = p + 1
    BY <1>1, <1>5, <1>6, <1>7, OneIs
  <2>4. QED
    BY <1>1, <2>1, <2>2, <2>3
<1>9. FE_BITS \in Nat /\ 2 <= FE_BITS
  <2>1. WORD_BITS \in Nat /\ 2 <= WORD_BITS
    BY FieldAssumption DEF FieldAssumption
  <2>2. FE_WORDS \in Nat \ {0} /\ FE_BITS \in Nat /\ FE_BITS = WORD_BITS * FE_WORDS
    BY Sizes
  <2>3. WORD_BITS * FE_WORDS = FE_WORDS * WORD_BITS /\ 1 * WORD_BITS = WORD_BITS
    BY <2>1, <2>2
  <2>4. 1 * WORD_BITS <= FE_WORDS * WORD_BITS
    BY <2>1, <2>2, Product
  <2>5. QED
    BY <2>1, <2>2, <2>3, <2>4
<1>10. Two[2] = 4
  <2>1. 0 \in 0 .. FE_BITS - 1 /\ 1 \in 0 .. FE_BITS - 1
    BY <1>9
  <2>2. Two[0] = 1 /\ Two[0 + 1] = 2 * Two[0] /\ Two[1 + 1] = 2 * Two[1]
    BY <2>1, TwoIs
  <2>3. QED
    BY <2>2
<1>11. v \div 4 = m
  BY <1>2, <1>8
<1>12. QED
  BY <1>1, <1>2, <1>6, <1>7, <1>9, <1>10, <1>11

LEMMA SquareIs ==
  ASSUME NEW f \in Fields, NEW t \in Residues(f), NEW s, s = sb_fe_mont_square(t, f)
  PROVE  s \in Residues(f) /\ Congruent(Value(s) * Radix, Value(t) * Value(t), Value(f.p))
<1>1. t \in Element /\ Value(t) \in 1 .. Value(f.p) /\ Value(t) >= 1
  BY PrimeIs DEF Residues
<1>2. s = sb_fe_mont_mult(t, t, f)
  BY DEF sb_fe_mont_square
<1>3. /\ s \in Element /\ Value(s) \in 1 .. Value(f.p)
      /\ Congruent(Value(s) * Radix, Value(t) * Value(t), Value(f.p))
  BY <1>1, <1>2, MontgomeryIs
<1>4. QED
  BY <1>3 DEF Residues

(* The candidate is a root just if its square is the number. *)
LEMMA RootFits ==
  ASSUME NEW f \in Fields, NEW x \in Int, NEW r \in Residues(f), NEW t \in Residues(f),
         NEW b \in Int, Congruent(Value(r), x * Radix, Value(f.p)),
         Congruent(Value(t), Radix * b, Value(f.p)),
         NEW s, s = sb_fe_mont_square(t, f)
  PROVE  sb_fe_equal(s, r) <=> Congruent(b * b, x, Value(f.p))
<1>1. PICK p \in Nat \ {0} : p = Value(f.p)
  BY PrimeIs
<1>2. PICK R \in Int : R = Radix
  BY Weights
<1>3. s \in Residues(f) /\ Congruent(Value(s) * Radix, Value(t) * Value(t), Value(f.p))
  BY SquareIs
<1>4. PICK S \in 1 .. p, T \in 1 .. p, Y \in 1 .. p : S = Value(s) /\ T = Value(t) /\ Y = Value(r)
  BY <1>1, <1>3 DEF Residues
<1>5. S \in Int /\ T \in Int /\ Y \in Int
  BY <1>1
<1>6. PICK rb \in Int, bb \in Int, xr \in Int, sr \in Int, tt \in Int :
        rb = R * b /\ bb = b * b /\ xr = x * R /\ sr = S * R /\ tt = T * T
  BY <1>5
<1>7. Congruent(sr, tt, p) /\ Congruent(T, rb, p) /\ Congruent(Y, xr, p)
  BY <1>1, <1>2, <1>3, <1>4, <1>6
<1>8. Congruent(tt, rb * rb, p)
  BY <1>5, <1>6, <1>7, CongruentTimes
<1>9. PICK c \in Int : c = rb * rb
  OBVIOUS
<1>10. PICK g \in Int : g = bb * R /\ c = g * R
  <2>1. (R * b) * (R * b) = ((b * b) * R) * R
    OBVIOUS
  <2>2. QED
    BY <1>6, <1>9, <2>1
<1>11. Congruent(sr, c, p)
  BY <1>7, <1>8, <1>9, CongruentThrough
<1>12. Congruent(S * Radix, g * Radix, Value(f.p))
  BY <1>1, <1>2, <1>6, <1>10, <1>11
<1>13. Congruent(S, g, p)
  BY <1>1, <1>5, <1>12, CancelRadix
<1>14. ASSUME sb_fe_equal(s, r) PROVE Congruent(b * b, x, Value(f.p))
  <2>1. S = Y
    <3>1. s \in Element /\ r \in Element
      BY <1>3 DEF Residues
    <3>2. sb_fe_equal(s, r) = (Value(s) = Value(r))
      BY <3>1, EqualIs
    <3>3. Value(s) = Value(r)
      BY <1>14, <3>2, Zenon
    <3>4. QED
      BY <1>4, <3>3
  <2>2. Congruent(g, S, p)
    BY <1>5, <1>13, CongruentBack
  <2>3. Congruent(g, xr, p)
    BY <1>5, <1>7, <2>1, <2>2, CongruentThrough
  <2>4. Congruent(bb * Radix, x * Radix, Value(f.p))
    BY <1>1, <1>2, <1>6, <1>10, <2>3
  <2>5. Congruent(bb, x, Value(f.p))
    BY <2>4, CancelRadix
  <2>6. QED
    BY <1>6, <2>5
<1>15. ASSUME Congruent(b * b, x, Value(f.p)) PROVE sb_fe_equal(s, r)
  <2>1. Congruent(bb, x, p)
    BY <1>1, <1>6, <1>15
  <2>2. Congruent(bb * R, x * R, p)
    BY <2>1, CongruentScale
  <2>3. Congruent(g, xr, p)
    BY <1>6, <1>10, <2>2
  <2>4. Congruent(S, xr, p)
    BY <1>5, <1>13, <2>3, CongruentThrough
  <2>5. Congruent(xr, Y, p)
    BY <1>5, <1>7, CongruentBack
  <2>6. Congruent(S, Y, p)
    BY <1>5, <2>4, <2>5, CongruentThrough
  <2>7. S = Y
    BY <2>6, CongruentUnique
  <2>8. s \in Element /\ r \in Element
    BY <1>3 DEF Residues
  <2>9. sb_fe_equal(s, r) = (Value(s) = Value(r))
    BY <2>8, EqualIs
  <2>10. Value(s) = Value(r)
    BY <1>4, <2>7
  <2>11. QED
    BY <2>9, <2>10, Zenon
<1>16. QED
  BY <1>14, <1>15 DEF sb_fe_equal

LEMMA RootIs ==
  ASSUME NEW f \in Fields, NEW a \in Residues(f), NEW o, o = sb_fe_mod_sqrt(a, f)
  PROVE  /\ o.fe \in Residues(f) /\ o.ok \in BOOLEAN
         /\ o.ok => /\ Value(f.p) % 4 = 3
                    /\ Congruent(Value(o.fe) * Value(o.fe), Value(a), Value(f.p))
         /\ \A s \in Int : Value(f.p) % 4 = 3 /\ Congruent(s * s, Value(a), Value(f.p)) => o.ok
<1>1. PICK p \in Nat \ {0} : p = Value(f.p) /\ p >= 3
  BY PrimeIs
<1>2. PICK R \in Int : R = Radix
  BY Weights
<1>3. a \in Element /\ Value(a) \in 1 .. Value(f.p) /\ Value(a) >= 1
  BY <1>1 DEF Residues
<1>4. PICK x \in Int : x = Value(a)
  BY <1>1, <1>3
<1>5. PICK r : r = sb_fe_mont_convert(a, f)
  OBVIOUS
<1>6. r \in Residues(f) /\ Congruent(Value(r), x * Radix, Value(f.p))
  <2>1. /\ r \in Element /\ Value(r) \in 1 .. Value(f.p)
        /\ Congruent(Value(r), Value(a) * Radix, Value(f.p))
    BY <1>3, <1>5, ConvertIs
  <2>2. QED
    BY <1>4, <2>1 DEF Residues
<1>7. PICK root : root = sb_fe_mod_sqrt_r(r, f)
  OBVIOUS
<1>8. o = [root EXCEPT !.fe = sb_fe_mont_reduce(@, f)]
  BY <1>5, <1>7 DEF sb_fe_mod_sqrt
<1>9. f.p[0] % 4 = p % 4
  BY <1>1, FieldIs, Parity
<1>10. CASE p % 4 # 3
  <2>1. root = [fe |-> r, ok |-> FALSE]
    BY <1>7, <1>9, <1>10 DEF sb_fe_mod_sqrt_r
  <2>2. PICK z : z = sb_fe_mont_reduce(r, f)
    OBVIOUS
  <2>3. o.fe = z /\ o.ok = FALSE
    BY <1>8, <2>1, <2>2
  <2>4. z \in Residues(f)
    <3>1. r \in Element /\ Value(r) >= 1
      BY <1>1, <1>6 DEF Residues
    <3>2. z \in Element /\ Value(z) \in 1 .. Value(f.p)
      BY <2>2, <3>1, FromMontgomery
    <3>3. QED
      BY <3>2 DEF Residues
  <2>5. QED
    BY <1>1, <1>10, <2>3, <2>4
<1>11. CASE p % 4 = 3
  <2>1. PICK e : e = sb_fe_add(f.p, SB_FE_ONE).fe
    OBVIOUS
  <2>2. /\ e \in Element /\ 2 <= FE_BITS /\ 2 \in Nat
        /\ \E m \in Nat : 4 * m = Value(f.p) + 1 /\ Value(e) \div Two[2] = m
    BY <1>1, <1>11, <2>1, Quarter
  <2>3. PICK m \in Nat : 4 * m = Value(f.p) + 1 /\ Value(e) \div Two[2] = m
    BY <2>2
  <2>4. PICK t : t = sb_fe_mod_expt_r(r, e, 2, f)
    OBVIOUS
  <2>5. t \in Residues(f) /\ IsPower(Value(t), Value(e) \div Two[2], Value(r), Value(f.p))
    BY <1>6, <2>2, <2>4, ExptIs
  <2>6. PICK T \in Int, Y \in Int : T = Value(t) /\ Y = Value(r)
    BY <1>1, <1>6, <2>5 DEF Residues
  <2>7. PICK b \in Int : b = Exp(x)[m]
    BY ExpIs
  <2>8. Congruent(T, Radix * b, Value(f.p))
    <3>1. IsPower(T, m, Y, Value(f.p)) /\ Congruent(Y, x * Radix, Value(f.p))
      BY <1>6, <2>3, <2>5, <2>6
    <3>2. QED
      BY <2>7, <3>1, ConvertedPower
  <2>9. PICK s : s = sb_fe_mont_square(t, f)
    OBVIOUS
  <2>10. PICK ok \in BOOLEAN : ok = sb_fe_equal(s, r)
    BY DEF sb_fe_equal
  <2>11. ok <=> Congruent(b * b, x, Value(f.p))
    <3>1. sb_fe_equal(s, r) <=> Congruent(b * b, x, Value(f.p))
      BY <1>6, <2>5, <2>6, <2>8, <2>9, RootFits
    <3>2. QED
      BY <2>10, <3>1, Zenon
  <2>12. root = [fe |-> t, ok |-> ok]
    <3>1. root = CheckedRoot(t, r, f)
      BY <1>7, <1>9, <1>11, <2>1, <2>4 DEF sb_fe_mod_sqrt_r
    <3>2. CheckedRoot(t, r, f) = [fe |-> t, ok |-> sb_fe_equal(s, r)]
      BY <2>9 DEF CheckedRoot
    <3>3. QED
      BY <2>10, <3>1, <3>2, Zenon
  <2>13. PICK z : z = sb_fe_mont_reduce(t, f)
    OBVIOUS
  <2>14. o.fe = z /\ o.ok = ok
    BY <1>8, <2>12, <2>13
  <2>15. z \in Residues(f) /\ Congruent(Value(z) * Radix, Value(t), Value(f.p))
    <3>1. t \in Element /\ Value(t) >= 1
      BY <1>1, <2>5 DEF Residues
    <3>2. /\ z \in Element /\ Value(z) \in 1 .. Value(f.p)
          /\ Congruent(Value(z) * Radix, Value(t), Value(f.p))
      BY <2>13, <3>1, FromMontgomery
    <3>3. QED
      BY <3>2 DEF Residues
  <2>16. PICK Z \in Int : Z = Value(z)
    BY <1>1, <2>15 DEF Residues
  <2>17. Congruent(Z, b, p)
    <3>1. PICK zr \in Int, rb \in Int : zr = Z * R /\ rb = R * b /\ rb = b * R
      OBVIOUS
    <3>2. Congruent(zr, T, p) /\ Congruent(T, rb, p)
      BY <1>1, <1>2, <2>6, <2>8, <2>15, <2>16, <3>1
    <3>3. Congruent(zr, rb, p)
      BY <3>2, CongruentThrough
    <3>4. Congruent(Z * Radix, b * Radix, Value(f.p))
      BY <1>1, <1>2, <3>1, <3>3
    <3>5. Congruent(Z, b, Value(f.p))
      BY <3>4, CancelRadix
    <3>6. QED
      BY <1>1, <3>5
  <2>18. ASSUME ok PROVE Congruent(Z * Z, x, p)
    <3>1. Congruent(b * b, x, p)
      BY <1>1, <2>11, <2>18
    <3>2. Congruent(Z * Z, b * b, p)
      BY <2>17, CongruentTimes
    <3>3. PICK zz \in Int, bb \in Int : zz = Z * Z /\ bb = b * b
      OBVIOUS
    <3>4. Congruent(zz, bb, p) /\ Congruent(bb, x, p)
      BY <3>1, <3>2, <3>3
    <3>5. Congruent(zz, x, p)
      BY <3>4, CongruentThrough
    <3>6. QED
      BY <3>3, <3>5
  <2>19. ASSUME NEW q \in Int, Congruent(q * q, x, Value(f.p)) PROVE ok
    <3>1. Congruent(Exp(x)[m] * Exp(x)[m], x, Value(f.p))
      BY <2>3, <2>19, PowerIsRoot
    <3>2. QED
      BY <2>7, <2>11, <3>1
  <2>20. QED
    BY <1>1, <1>4, <1>11, <2>14, <2>15, <2>16, <2>18, <2>19
<1>12. QED
  BY <1>10, <1>11

--------------------------------------------------------------------------------
(* Bytes.                                                                  *)

LEMMA ByteSizes ==
  /\ PER_WORD \in Nat \ {0} /\ BYTES \in Nat \ {0} /\ BYTE_BITS \in Nat \ {0}
  /\ FE_WORDS \in Nat \ {0} /\ WORD_BITS \in Nat \ {0} /\ FE_BITS \in Nat
  /\ BYTES = FE_WORDS * PER_WORD /\ WORD_BITS = BYTE_BITS * PER_WORD
  /\ BYTE_BITS * BYTES = FE_BITS
  /\ \A n \in 0 .. BYTES : BYTE_BITS * n \in 0 .. FE_BITS
<1>1. /\ BYTE_BITS \in Nat \ {0} /\ WORD_BITS \in Nat \ {0} /\ FE_WORDS \in Nat \ {0}
      /\ WORD_BITS % BYTE_BITS = 0 /\ FE_BITS \in Nat /\ FE_BITS = WORD_BITS * FE_WORDS
  BY Sizes, FieldAssumption DEF FieldAssumption
<1>2. PICK q \in Nat : q = PER_WORD /\ WORD_BITS = q * BYTE_BITS
  <2>1. PICK q \in Nat : q = WORD_BITS \div BYTE_BITS /\ WORD_BITS = q * BYTE_BITS + 0
    BY <1>1, Division
  <2>2. q * BYTE_BITS \in Int
    BY <1>1
  <2>3. QED
    BY <2>1, <2>2 DEF PER_WORD
<1>3. q # 0
  <2>1. 0 * BYTE_BITS = 0
    BY <1>1
  <2>2. QED
    BY <1>1, <1>2, <2>1
<1>4. PICK b \in Nat : b = BYTES /\ b = FE_WORDS * q
  BY <1>1, <1>2 DEF BYTES
<1>5. b # 0
  <2>1. 1 * q <= FE_WORDS * q /\ 1 * q = q
    BY <1>1, Product
  <2>2. QED
    BY <1>3, <1>4, <2>1
<1>6. BYTE_BITS * b = FE_BITS
  <2>1. BYTE_BITS * (FE_WORDS * q) = (q * BYTE_BITS) * FE_WORDS
    BY <1>1
  <2>2. QED
    BY <1>1, <1>2, <1>4, <2>1
<1>7. ASSUME NEW n \in 0 .. b PROVE BYTE_BITS * n \in 0 .. FE_BITS
  <2>1. n * BYTE_BITS <= b * BYTE_BITS /\ n * BYTE_BITS >= 0 /\ n * BYTE_BITS \in Int
    BY <1>1, Product
  <2>2. n * BYTE_BITS = BYTE_BITS * n /\ b * BYTE_BITS = BYTE_BITS * b
    BY <1>1
  <2>3. QED
    BY <1>1, <1>6, <2>1, <2>2
<1>8. WORD_BITS = BYTE_BITS * q
  <2>1. q * BYTE_BITS = BYTE_BITS * q
    BY <1>1
  <2>2. QED
    BY <1>2, <2>1
<1>9. QED
  BY <1>1, <1>2, <1>3, <1>4, <1>5, <1>6, <1>7, <1>8

(* The place of a byte, in bits. *)
Place(n) == BYTE_BITS * n

LEMMA PlaceIs ==
  /\ \A n \in 0 .. BYTES : Place(n) \in 0 .. FE_BITS /\ Two[Place(n)] \in Nat \ {0}
  /\ Place(0) = 0 /\ Place(1) = BYTE_BITS /\ Place(BYTES) = FE_BITS
  /\ \A m \in Nat, n \in Nat : m + n <= BYTES =>
       Place(m + n) = Place(m) + Place(n) /\ Two[Place(m + n)] = Two[Place(m)] * Two[Place(n)]
  /\ Place(PER_WORD) = WORD_BITS /\ Two[Place(PER_WORD)] = Base
<1>1. \A n \in 0 .. BYTES : Place(n) \in 0 .. FE_BITS /\ Two[Place(n)] \in Nat \ {0}
  <2>1. \A n \in 0 .. BYTES : Place(n) \in 0 .. FE_BITS
    BY ByteSizes DEF Place
  <2>2. QED
    BY <2>1, TwoIs
<1>2. Place(0) = 0 /\ Place(1) = BYTE_BITS /\ Place(BYTES) = FE_BITS /\ Place(PER_WORD) = WORD_BITS
  BY ByteSizes DEF Place
<1>3. ASSUME NEW m \in Nat, NEW n \in Nat, m + n <= BYTES
      PROVE  Place(m + n) = Place(m) + Place(n) /\ Two[Place(m + n)] = Two[Place(m)] * Two[Place(n)]
  <2>1. PICK b \in Nat : b = BYTE_BITS
    BY ByteSizes
  <2>2. b * (m + n) = b * m + b * n
    OBVIOUS
  <2>3. Place(m + n) = Place(m) + Place(n)
    BY <2>1, <2>2 DEF Place
  <2>4. m + n \in 0 .. BYTES /\ m \in 0 .. BYTES /\ n \in 0 .. BYTES
    BY <1>3, ByteSizes
  <2>5. PICK u \in Nat, v \in Nat : u = Place(m) /\ v = Place(n) /\ u + v <= FE_BITS /\ Place(m + n) = u + v
    BY <1>1, <2>3, <2>4, ByteSizes
  <2>6. Two[u + v] = Two[u] * Two[v]
    BY <2>5, TwoSum
  <2>7. QED
    BY <2>5, <2>6
<1>4. QED
  BY <1>1, <1>2, <1>3 DEF Base

LEMMA ByteIs == Two[BYTE_BITS] \in Nat \ {0} /\ Two[BYTE_BITS] = Two[Place(1)]
<1>1. 1 \in 0 .. BYTES
  BY ByteSizes
<1>2. Two[Place(1)] \in Nat \ {0} /\ Place(1) = BYTE_BITS
  BY <1>1, PlaceIs
<1>3. QED
  BY <1>2

LEMMA SplitRest ==
  ASSUME NEW v \in Nat, NEW a \in Nat \ {0}, NEW b \in Nat \ {0}
  PROVE  v % (a * b) = ((v \div b) % a) * b + (v % b)
<1>1. PICK u \in Nat, r \in Nat : u = v \div b /\ r = v % b /\ r < b /\ v = u * b + r
  BY Division
<1>2. PICK q \in Nat, s \in Nat : q = u \div a /\ s = u % a /\ s < a /\ u = q * a + s
  BY Division
<1>3. PICK ab \in Nat \ {0}, sb \in Nat : ab = a * b /\ sb = s * b /\ sb + r < ab
  <2>1. s * b <= (a - 1) * b /\ s * b >= 0 /\ s * b \in Int /\ (a - 1) * b = a * b - b /\ a * b \in Int
    BY <1>2, Product
  <2>2. a * b # 0
    BY <1>1, <2>1
  <2> DEFINE ab == a * b
             sb == s * b
             cb == (a - 1) * b
  <2>3. sb <= cb /\ sb >= 0 /\ sb \in Int /\ cb = ab - b /\ ab \in Int
    BY <2>1
  <2> HIDE DEF ab, sb, cb
  <2>4. ab \in Nat \ {0} /\ sb \in Nat /\ sb + r < ab
    BY <1>1, <2>3
  <2>5. QED
    BY <2>4 DEF ab, sb
<1>4. (q * a + s) * b + r = q * (a * b) + (s * b + r)
  OBVIOUS
<1>5. v = q * ab + (sb + r)
  BY <1>1, <1>2, <1>3, <1>4
<1>6. PICK w \in Nat : w = sb + r
  OBVIOUS
<1>7. (q * ab + w) % ab = w
  BY <1>3, <1>6, Quotient
<1>8. QED
  BY <1>1, <1>2, <1>3, <1>5, <1>6, <1>7

(* The bytes of a number, the most significant first. *)
IsBytes(b, x) ==
  /\ b = [k \in 1 .. BYTES |-> b[k]]
  /\ \A k \in 1 .. BYTES : b[k] = (x \div Two[Place(BYTES - k)]) % Two[BYTE_BITS]

(* r[j] has been read after j bytes, and in the end n. *)
Reads(r, b, first, count, n) ==
  /\ \A j \in 0 .. count : r[j] \in Nat
  /\ r[0] = 0
  /\ \A j \in 0 .. count - 1 : r[j + 1] = r[j] * Two[BYTE_BITS] + b[first + (j + 1)]
  /\ n = r[count]

LEMMA ReadsRun ==
  ASSUME NEW b, NEW first \in Nat, NEW count \in Nat,
         \A j \in 1 .. count : b[first + j] \in Nat,
         NEW n, n = Read(b, first, count)
  PROVE  \E r : Reads(r, b, first, count, n)
<1>1. PICK w \in Nat : w = Two[BYTE_BITS]
  BY ByteIs
<1> DEFINE step == [i \in Nat |-> [v \in Nat |-> IF i < count THEN v * w + b[first + (i + 1)] ELSE v]]
<1>2. ASSUME NEW i \in Nat, i < count, NEW v \in Nat PROVE v * w + b[first + (i + 1)] \in Nat
  <2>1. i + 1 \in 1 .. count
    BY <1>2
  <2>2. PICK c \in Nat : c = b[first + (i + 1)]
    BY <2>1
  <2>3. v * w + c \in Nat
    BY Product
  <2>4. QED
    BY <2>2, <2>3
<1>3. Steps(step, Nat)
  BY <1>2 DEF Steps
<1>4. \A i \in Nat, v \in Nat : i < count => step[i][v] = v * w + b[first + (i + 1)]
  OBVIOUS
<1> HIDE DEF step
<1>5. PICK t : UpTo(count, t, 0, step, Nat)
  BY <1>3, RecursionTo
<1>6. /\ t = [i \in 0 .. count |-> t[i]] /\ t[0] = 0 /\ \A i \in 0 .. count : t[i] \in Nat
      /\ \A i \in 0 .. count : i # 0 => i - 1 \in 0 .. count /\ t[i] = step[i - 1][t[i - 1]]
  BY <1>5, UpToIs
<1>7. ASSUME NEW j \in 0 .. count, j # 0
      PROVE  t[j] = t[j - 1] * w + b[first + j]
  <2>0. j - 1 \in 0 .. count /\ t[j] = step[j - 1][t[j - 1]]
    BY <1>6, <1>7
  <2>1. j - 1 \in Nat /\ j - 1 < count /\ t[j - 1] \in Nat /\ (j - 1) + 1 = j
    BY <1>6, <1>7, <2>0
  <2>2. step[j - 1][t[j - 1]] = t[j - 1] * w + b[first + ((j - 1) + 1)]
    BY <1>4, <2>1
  <2>3. QED
    BY <2>0, <2>1, <2>2
<1>8. \E u : u = [j \in 0 .. count |-> IF j = 0 THEN 0 ELSE u[j - 1] * Two[BYTE_BITS] + b[first + j]]
  <2>1. \A j \in 0 .. count : t[j] = IF j = 0 THEN 0 ELSE t[j - 1] * w + b[first + j]
    BY <1>6, <1>7
  <2>2. t = [j \in 0 .. count |-> IF j = 0 THEN 0 ELSE t[j - 1] * w + b[first + j]]
    BY <1>6, <2>1
  <2>3. QED
    BY <1>1, <2>2
<1> DEFINE r == CHOOSE u : u = [j \in 0 .. count |->
                  IF j = 0 THEN 0 ELSE u[j - 1] * Two[BYTE_BITS] + b[first + j]]
<1>9. r = [j \in 0 .. count |-> IF j = 0 THEN 0 ELSE r[j - 1] * Two[BYTE_BITS] + b[first + j]]
  BY <1>8, Zenon
<1>10. n = r[count]
  BY DEF Read
<1> HIDE DEF r
<1>11. r[0] = 0
  BY <1>9
<1>12. ASSUME NEW j \in 0 .. count - 1 PROVE r[j + 1] = r[j] * w + b[first + (j + 1)]
  <2>1. j + 1 \in 0 .. count /\ j + 1 # 0 /\ (j + 1) - 1 = j
    OBVIOUS
  <2>2. r[j + 1] = r[(j + 1) - 1] * w + b[first + (j + 1)]
    BY <1>1, <1>9, <2>1
  <2>3. QED
    BY <2>1, <2>2
<1> DEFINE L == {i \in Nat : i <= count => r[i] \in Nat}
<1>13. 0 \in L
  BY <1>11
<1>14. ASSUME NEW i \in Nat, i \in L PROVE i + 1 \in L
  <2>0. i + 1 \in Nat
    OBVIOUS
  <2> SUFFICES ASSUME i + 1 <= count PROVE r[i + 1] \in Nat
    BY <2>0, Zenon
  <2>1. i \in 0 .. count - 1 /\ i < count /\ r[i] \in Nat
    BY <1>14
  <2>2. r[i] * w + b[first + (i + 1)] \in Nat
    BY <1>2, <2>1
  <2>3. QED
    BY <1>12, <2>1, <2>2
<1> HIDE DEF L
<1>15. Nat \subseteq L
  BY <1>13, <1>14, Induction
<1>16. \A j \in 0 .. count : r[j] \in Nat
  BY <1>15 DEF L
<1>17. QED
  BY <1>1, <1>10, <1>11, <1>12, <1>16 DEF Reads

LEMMA ReadIs ==
  ASSUME NEW x \in Nat, NEW b, IsBytes(b, x), NEW first \in Nat, NEW count \in Nat,
         first + count <= BYTES
  PROVE  Read(b, first, count)
           = (x \div Two[Place(BYTES - (first + count))]) % Two[Place(count)]
<1>1. PICK B \in Nat : B = BYTES
  BY ByteSizes
<1>2. PICK w \in Nat \ {0} : w = Two[BYTE_BITS] /\ w = Two[Place(1)]
  BY ByteIs
<1>3. ASSUME NEW j \in 1 .. count
      PROVE  /\ B - (first + j) \in 0 .. BYTES
             /\ b[first + j] = (x \div Two[Place(B - (first + j))]) % w
             /\ b[first + j] \in Nat
  <2>1. first + j \in 1 .. BYTES /\ B - (first + j) \in 0 .. BYTES
    BY <1>1
  <2>2. PICK v \in Nat \ {0} : v = Two[Place(B - (first + j))]
    BY <2>1, PlaceIs
  <2>3. b[first + j] = (x \div v) % w
    BY <1>1, <1>2, <2>1, <2>2 DEF IsBytes
  <2>4. x \div v \in Nat
    BY Division
  <2>5. (x \div v) % w \in Nat
    BY <2>4, Division
  <2>6. QED
    BY <2>1, <2>2, <2>3, <2>5
<1>0. PICK n : n = Read(b, first, count)
  OBVIOUS
<1>a. \A j \in 1 .. count : b[first + j] \in Nat
  BY <1>3
<1>b. PICK r : Reads(r, b, first, count, n)
  BY <1>0, <1>a, ReadsRun
<1>4. /\ \A j \in 0 .. count : r[j] \in Nat
      /\ r[0] = 0
      /\ \A j \in 0 .. count - 1 : r[j + 1] = r[j] * Two[BYTE_BITS] + b[first + (j + 1)]
      /\ n = r[count]
  BY <1>b DEF Reads
<1> DEFINE L == {j \in Nat : j <= count =>
                   r[j] = (x \div Two[Place(B - (first + j))]) % Two[Place(j)]}
<1>5. 0 \in L
  <2>1. Two[Place(0)] = 1
    BY PlaceIs, TwoIs
  <2>2. B - (first + 0) \in 0 .. BYTES
    BY <1>1
  <2>3. PICK v \in Nat \ {0} : v = Two[Place(B - (first + 0))]
    BY <2>2, PlaceIs
  <2>4. x \div v \in Nat
    BY Division
  <2>5. (x \div v) % 1 = 0
    BY <2>4
  <2>6. QED
    BY <1>4, <2>1, <2>3, <2>5
<1>6. ASSUME NEW j \in Nat, j \in L PROVE j + 1 \in L
  <2>0. j + 1 \in Nat
    OBVIOUS
  <2> SUFFICES ASSUME j + 1 <= count
               PROVE  r[j + 1] = (x \div Two[Place(B - (first + (j + 1)))]) % Two[Place(j + 1)]
    BY <2>0, Zenon
  <2>1. j <= count /\ j \in 0 .. count - 1 /\ j + 1 \in 1 .. count
    OBVIOUS
  <2>2. PICK m \in Nat : m = B - (first + (j + 1)) /\ m + 1 = B - (first + j) /\ m + 1 <= BYTES
                         /\ m \in 0 .. BYTES /\ j \in 0 .. BYTES /\ j + 1 <= BYTES
    BY <1>1, <2>1
  <2>3. PICK v \in Nat \ {0}, a \in Nat \ {0} : v = Two[Place(m)] /\ a = Two[Place(j)]
    BY <2>2, PlaceIs
  <2>4. Two[Place(m + 1)] = v * w /\ Two[Place(j + 1)] = a * w
    <3>1. 1 \in Nat
      OBVIOUS
    <3>2. QED
      BY <1>2, <2>2, <2>3, <3>1, PlaceIs
  <2>5. PICK y \in Nat : y = x \div v
    BY Division
  <2>6. y \div w = x \div (v * w)
    BY <2>5, Nested
  <2>7. r[j] = (y \div w) % a
    BY <1>6, <2>1, <2>2, <2>3, <2>4, <2>6
  <2>8. b[first + (j + 1)] = y % w
    BY <1>3, <2>1, <2>2, <2>3, <2>5
  <2>9. r[j + 1] = ((y \div w) % a) * w + (y % w)
    BY <1>2, <1>4, <2>1, <2>7, <2>8
  <2>10. y % (a * w) = ((y \div w) % a) * w + (y % w)
    BY SplitRest
  <2>11. QED
    BY <2>2, <2>3, <2>4, <2>5, <2>9, <2>10
<1> HIDE DEF L
<1>7. Nat \subseteq L
  BY <1>5, <1>6, Induction
<1>8. r[count] = (x \div Two[Place(B - (first + count))]) % Two[Place(count)]
  BY <1>7 DEF L
<1>9. QED
  BY <1>0, <1>1, <1>4, <1>8

LEMMA ToBytesIs ==
  ASSUME NEW a \in Element, NEW e
  PROVE  \E b : IsBytes(b, Value(a)) /\ sb_fe_to_bytes(a, e) = Ordered(b, e)
<1>1. PICK n \in Nat \ {0}, w \in Nat \ {0}, c \in Nat \ {0} :
        /\ n = FE_WORDS /\ w = PER_WORD /\ c = BYTE_BITS
        /\ BYTES = n * w /\ WORD_BITS = c * w /\ n * w \in Nat
  BY ByteSizes
<1>2. PICK x \in Nat : x = Value(a)
  BY ValueBelow, Weights
<1> DEFINE ByteOf(k) == LET i == FE_WORDS - 1 - (k \div PER_WORD)
                            j == k % PER_WORD
                        IN  (a[i] \div Two[WORD_BITS - (j + 1) * BYTE_BITS]) % Two[BYTE_BITS]
           b == [k \in 1 .. BYTES |-> ByteOf(k - 1)]
<1>3. sb_fe_to_bytes(a, e) = Ordered(b, e)
  BY DEF sb_fe_to_bytes
<1>4. ASSUME NEW k \in 1 .. BYTES
      PROVE  ByteOf(k - 1) = (x \div Two[Place(BYTES - k)]) % Two[BYTE_BITS]
  <2>1. PICK d \in Nat : d = k - 1 /\ d < n * w
    BY <1>1, <1>4
  <2>2. PICK q \in Nat, j \in Nat : q = d \div w /\ j = d % w /\ j < w /\ d = q * w + j
    BY Division
  <2>3. q < n
    <3>1. SUFFICES ASSUME n <= q PROVE FALSE
      OBVIOUS
    <3>2. n * w <= q * w /\ q * w \in Int
      BY <3>1, Product
    <3> DEFINE qw == q * w
               nw == n * w
    <3>3. nw <= qw /\ qw \in Int /\ d = qw + j /\ d < nw /\ nw \in Int
      BY <1>1, <2>1, <2>2, <3>2
    <3> HIDE DEF qw, nw
    <3>4. QED
      BY <3>3
  <2>4. PICK i \in Places : i = n - 1 - q
    BY <1>1, <2>3 DEF Places
  <2>5. (j + 1) * c <= w * c /\ (j + 1) * c \in Int /\ (j + 1) * c = j * c + c
        /\ j * c >= 0 /\ j * c \in Int
    <3>1. j + 1 <= w
      BY <2>2
    <3>2. QED
      BY <3>1, Product
  <2>6. PICK m \in Nat : m = WORD_BITS - (j + 1) * c /\ m + c <= WORD_BITS
    <3>1. w * c = c * w /\ c * w \in Int
      OBVIOUS
    <3> DEFINE jc == (j + 1) * c
               wc == w * c
               oc == j * c
    <3>2. jc <= wc /\ jc \in Int /\ WORD_BITS = wc /\ wc \in Int /\ jc = oc + c /\ oc >= 0 /\ oc \in Int
      BY <1>1, <2>5, <3>1
    <3> HIDE DEF jc, wc, oc
    <3>3. WORD_BITS - jc \in Nat /\ (WORD_BITS - jc) + c <= WORD_BITS
      BY <3>2
    <3>4. QED
      BY <3>3 DEF jc
  <2>7. (a[i] \div Two[m]) % Two[c] = (Value(a) \div Two[WORD_BITS * i + m]) % Two[c]
    BY <2>6, Digits
  <2>8. WORD_BITS * i + m = Place(BYTES - k)
    <3>1. (c * w) * (n - 1 - q) + (c * w - (j + 1) * c) = c * (n * w - ((q * w + j) + 1))
      OBVIOUS
    <3>2. n * w - ((q * w + j) + 1) = BYTES - k
      <4>1. (q * w + j) + 1 = k
        BY <2>1, <2>2
      <4>2. QED
        BY <1>1, <4>1
    <3>3. QED
      BY <1>1, <2>4, <2>6, <3>1, <3>2 DEF Place
  <2>9. ByteOf(k - 1) = (a[i] \div Two[m]) % Two[c]
    BY <1>1, <2>1, <2>2, <2>4, <2>6
  <2>10. QED
    BY <1>1, <1>2, <2>7, <2>8, <2>9
<1>5. IsBytes(b, x)
  <2> DEFINE Other(k) == ByteOf(k - 1)
  <2>1. \A k \in 1 .. BYTES : Other(k) = (x \div Two[Place(BYTES - k)]) % Two[BYTE_BITS]
    BY <1>4
  <2>2. b = [k \in 1 .. BYTES |-> Other(k)]
    OBVIOUS
  <2> HIDE DEF b, Other
  <2>3. QED
    BY <2>1, <2>2 DEF IsBytes
<1> HIDE DEF b
<1>6. QED
  BY <1>2, <1>3, <1>5

LEMMA OrderedTwice ==
  ASSUME NEW b, NEW x, IsBytes(b, x), NEW e \in {"big", "little"}
  PROVE  Ordered(Ordered(b, e), e) = b
<1>1. PICK n \in Nat : n = BYTES
  BY ByteSizes
<1>2. b = [k \in 1 .. n |-> b[k]]
  BY <1>1 DEF IsBytes
<1>3. CASE e = "big"
  BY <1>3 DEF Ordered
<1>4. CASE e = "little"
  <2>1. PICK c : c = [k \in 1 .. n |-> b[n + 1 - k]]
    OBVIOUS
  <2>2. Ordered(b, e) = c
    BY <1>1, <1>4, <2>1 DEF Ordered
  <2>3. Ordered(c, e) = [k \in 1 .. n |-> c[n + 1 - k]]
    BY <1>1, <1>4 DEF Ordered
  <2>4. \A k \in 1 .. n : c[n + 1 - k] = b[k]
    <3> SUFFICES ASSUME NEW k \in 1 .. n PROVE c[n + 1 - k] = b[k]
      OBVIOUS
    <3>1. n + 1 - k \in 1 .. n /\ n + 1 - (n + 1 - k) = k
      OBVIOUS
    <3>2. c[n + 1 - k] = b[n + 1 - (n + 1 - k)]
      BY <2>1, <3>1
    <3>3. QED
      BY <3>1, <3>2
  <2>5. [k \in 1 .. n |-> c[n + 1 - k]] = b
    BY <1>2, <2>4
  <2>6. QED
    BY <2>2, <2>3, <2>5
<1>5. QED
  BY <1>3, <1>4

LEMMA BytesAre ==
  ASSUME NEW a \in Element, NEW e \in {"big", "little"},
         NEW bytes, bytes = sb_fe_to_bytes(a, e)
  PROVE  sb_fe_from_bytes(bytes, e) = a /\ Read(Ordered(bytes, e), 0, BYTES) = Value(a)
<1>1. PICK n \in Nat \ {0}, w \in Nat \ {0}, c \in Nat \ {0} :
        /\ n = FE_WORDS /\ w = PER_WORD /\ c = BYTE_BITS
        /\ BYTES = n * w /\ WORD_BITS = c * w /\ n * w \in Nat
  BY ByteSizes
<1>2. PICK x \in Nat : x = Value(a) /\ x < Radix
  BY ValueBelow, Weights
<1>3. PICK b : IsBytes(b, x) /\ bytes = Ordered(b, e)
  BY <1>2, ToBytesIs
<1>4. Ordered(bytes, e) = b
  BY <1>3, OrderedTwice
<1>5. Read(b, 0, BYTES) = x
  <2>1. PICK B \in Nat : B = BYTES
    BY ByteSizes
  <2>2. 0 + B <= BYTES /\ 0 \in Nat
    BY <2>1
  <2>3. Read(b, 0, B) = (x \div Two[Place(BYTES - (0 + B))]) % Two[Place(B)]
    BY <1>3, <2>2, ReadIs
  <2>4. BYTES - (0 + B) = 0 /\ Two[Place(0)] = 1 /\ x \div 1 = x
    BY <2>1, PlaceIs, TwoIs
  <2>5. Two[Place(B)] = Radix /\ Radix \in Nat \ {0}
    BY <2>1, PlaceIs, Weights DEF Radix
  <2>6. x % Radix = x
    BY <1>2, <2>5, Below
  <2>7. QED
    BY <2>1, <2>3, <2>4, <2>5, <2>6
<1>6. ASSUME NEW i \in Places PROVE Read(b, (FE_WORDS - 1 - i) * PER_WORD, PER_WORD) = a[i]
  <2>1. PICK d \in Nat : d = n - 1 - i
    BY <1>1 DEF Places
  <2>2. PICK first \in Nat : first = d * w
    BY Product
  <2>3. i \in Nat
    BY <1>1 DEF Places
  <2>4. (n - 1 - i) * w + w = n * w - i * w /\ i * w \in Int
    BY <2>3
  <2>5. i * w >= 0
    BY <2>3, Product
  <2>6. first + w = BYTES - i * w /\ first + w <= BYTES /\ BYTES - (first + w) = i * w
    <3> DEFINE iw == i * w
    <3>1. first + w = BYTES - iw /\ iw \in Int /\ iw >= 0 /\ BYTES \in Int
      BY <1>1, <2>1, <2>2, <2>4, <2>5
    <3> HIDE DEF iw
    <3>2. first + w = BYTES - iw /\ first + w <= BYTES /\ BYTES - (first + w) = iw
      BY <3>1
    <3>3. QED
      BY <3>2 DEF iw
  <2>7. Read(b, first, w) = (x \div Two[Place(BYTES - (first + w))]) % Two[Place(w)]
    BY <1>3, <2>6, ReadIs
  <2>8. Place(i * w) = WORD_BITS * i
    <3>1. c * (i * w) = (c * w) * i
      BY <2>3
    <3>2. QED
      BY <1>1, <3>1 DEF Place
  <2>9. Two[Place(w)] = Base
    BY <1>1, PlaceIs
  <2>10. a[i] = (x \div Weight(i)) % Base
    BY <1>2, WordIs
  <2>11. QED
    BY <1>1, <2>1, <2>2, <2>6, <2>7, <2>8, <2>9, <2>10 DEF Weight
<1>7. sb_fe_from_bytes(bytes, e) = [i \in Places |-> Read(b, (FE_WORDS - 1 - i) * PER_WORD, PER_WORD)]
  BY <1>4 DEF sb_fe_from_bytes
<1>8. a = [i \in Places |-> a[i]]
  BY DEF Element
<1>9. [i \in Places |-> Read(b, (FE_WORDS - 1 - i) * PER_WORD, PER_WORD)] = a
  BY <1>6, <1>8
<1>10. QED
  BY <1>2, <1>4, <1>5, <1>7, <1>9

--------------------------------------------------------------------------------
(* What the operations give.                                               *)

(* What each operation must have given, by its name. *)
Right(f, x, y, op, o) ==
  LET X == Value(x)
      Y == Value(y)
      p == Value(f.p)
  IN  /\ op = "compare" => /\ o.equal = (X = Y) /\ o.lt = (X < Y)
                           /\ \A i \in 0 .. FE_BITS - 1 : o.bits[i] = (X \div Two[i]) % 2
      /\ op = "add" => Value(o.fe) + o.carry * Radix = X + Y
      /\ op = "subtract" => Value(o.fe) - o.carry * Radix = X - Y
      /\ op = "subtract one more" => Value(o.fe) - o.carry * Radix = X - Y - 1
      /\ op \in {"big", "little"} => o.back = x /\ Read(Ordered(o.bytes, op), 0, BYTES) = X
      /\ op = "reduce" => Is(o, X, p)
      /\ op = "reduce full" => Value(o) = X % p
      /\ op = "mod add" => Is(o, X + Y, p)
      /\ op = "mod double" => Is(o, 2 * X, p)
      /\ op = "mod subtract" => Is(o, X - Y, p)
      /\ op = "negate" => Is(o, -X, p)
      /\ op = "halve" => Value(o) \in 1 .. p /\ (2 * Value(o)) % p = X % p
      /\ op = "multiply" => Value(o) \in 1 .. p /\ (Value(o) * Radix) % p = (X * Y) % p
      /\ op = "convert" => Is(o, X * Radix, p)
      /\ op = "invert" =>
           IF X = p THEN Value(o) = p
           ELSE Value(o) \in 1 .. p /\ (Value(o) * X) % p = (Radix * Radix) % p
      /\ op = "root" =>
           /\ Value(o.fe) \in 1 .. p
           /\ o.ok <=> p % 4 = 3 /\ \E s \in 1 .. p : (s * s) % p = X % p
           /\ o.ok => (Value(o.fe) * Value(o.fe)) % p = X % p

LEMMA RightIs == Right(field, fe_x, fe_y, did, out) => FieldComputes
<1> SUFFICES ASSUME Right(field, fe_x, fe_y, did, out) PROVE FieldComputes
  OBVIOUS
<1>1. WordsAreNumbers
  BY DEF Right, WordsAreNumbers
<1>2. ReducesModularly
  BY DEF Right, ReducesModularly
<1>3. MontgomeryMultiplies
  BY DEF Right, MontgomeryMultiplies
<1>4. QED
  BY <1>1, <1>2, <1>3 DEF FieldComputes

LEMMA ComparesRight ==
  ASSUME NEW f \in Fields, NEW x \in Element, NEW y \in Element, NEW o,
         o = [equal |-> sb_fe_equal(x, y), lt |-> sb_fe_lt(x, y),
              bits |-> [i \in 0 .. FE_BITS - 1 |-> sb_fe_test_bit(x, i)]]
  PROVE  Right(f, x, y, "compare", o)
<1>1. o.equal = (Value(x) = Value(y))
  <2>1. o.equal = sb_fe_equal(x, y)
    OBVIOUS
  <2>2. sb_fe_equal(x, y) = (Value(x) = Value(y))
    BY EqualIs
  <2>3. QED
    BY <2>1, <2>2, Zenon
<1>2. o.lt = (Value(x) < Value(y))
  <2>1. o.lt = sb_fe_lt(x, y)
    OBVIOUS
  <2>2. sb_fe_lt(x, y) = (Value(x) < Value(y))
    BY LessIs
  <2>3. QED
    BY <2>1, <2>2, Zenon
<1>3. \A i \in 0 .. FE_BITS - 1 : o.bits[i] = (Value(x) \div Two[i]) % 2
  BY BitIs
<1>4. QED
  BY <1>1, <1>2, <1>3 DEF Right

LEMMA AddsRight ==
  ASSUME NEW f \in Fields, NEW x \in Element, NEW y \in Element, NEW o, o = sb_fe_add(x, y)
  PROVE  Right(f, x, y, "add", o)
BY AddIs DEF Right

LEMMA SubtractsRight ==
  ASSUME NEW f \in Fields, NEW x \in Element, NEW y \in Element, NEW o
  PROVE  /\ o = sb_fe_sub(x, y) => Right(f, x, y, "subtract", o)
         /\ o = sb_fe_sub_borrow(x, y, 1) => Right(f, x, y, "subtract one more", o)
<1>1. ASSUME o = sb_fe_sub(x, y) PROVE Right(f, x, y, "subtract", o)
  <2>1. o = sb_fe_sub_borrow(x, y, 0)
    BY <1>1 DEF sb_fe_sub
  <2>2. PICK first \in 0 .. 1 : first = 0
    OBVIOUS
  <2>3. Value(o.fe) - o.carry * Radix = Value(x) - Value(y)
    BY <2>1, SubtractBorrow, ValueBelow, Weights
  <2>4. QED
    BY <2>3 DEF Right
<1>2. ASSUME o = sb_fe_sub_borrow(x, y, 1) PROVE Right(f, x, y, "subtract one more", o)
  <2>1. Value(o.fe) - o.carry * Radix = Value(x) - Value(y) - 1
    BY <1>2, SubtractBorrow, ValueBelow, Weights
  <2>2. QED
    BY <2>1 DEF Right
<1>3. QED
  BY <1>1, <1>2

LEMMA BytesRight ==
  ASSUME NEW f \in Fields, NEW x \in Element, NEW e \in {"big", "little"}, NEW o,
         o = [bytes |-> sb_fe_to_bytes(x, e),
              back |-> sb_fe_from_bytes(sb_fe_to_bytes(x, e), e)]
  PROVE  Right(f, x, x, e, o)
<1>1. PICK bytes : bytes = sb_fe_to_bytes(x, e)
  OBVIOUS
<1>2. o.bytes = bytes /\ o.back = sb_fe_from_bytes(bytes, e)
  BY <1>1
<1>3. o.back = x /\ Read(Ordered(o.bytes, e), 0, BYTES) = Value(x)
  BY <1>1, <1>2, BytesAre
<1>4. QED
  BY <1>3 DEF Right

LEMMA MultipliesRight ==
  ASSUME NEW f \in Fields, NEW x \in Residues(f), NEW y \in Residues(f),
         NEW o, o = sb_fe_mont_mult(x, y, f)
  PROVE  Right(f, x, y, "multiply", o)
<1>1. PICK p \in Nat \ {0} : p = Value(f.p) /\ p >= 3
  BY PrimeIs
<1>2. x \in Element /\ Value(x) \in 1 .. Value(f.p) /\ Value(x) >= 1 /\ y \in Element /\ Value(y) \in 1 .. Value(f.p)
  BY <1>1 DEF Residues
<1>3. /\ Value(o) \in 1 .. Value(f.p)
      /\ Congruent(Value(o) * Radix, Value(x) * Value(y), Value(f.p))
  BY <1>2, MontgomeryIs
<1>4. PICK a \in Int, b \in Int : a = Value(o) * Radix /\ b = Value(x) * Value(y)
  BY <1>1, <1>2, <1>3, Weights
<1>5. a % p = b % p
  BY <1>1, <1>3, <1>4, CongruentHasRest
<1>6. QED
  BY <1>1, <1>3, <1>4, <1>5 DEF Right

LEMMA ConvertsRight ==
  ASSUME NEW f \in Fields, NEW x \in Residues(f), NEW o, o = sb_fe_mont_convert(x, f)
  PROVE  Right(f, x, x, "convert", o)
<1>1. PICK p \in Nat \ {0} : p = Value(f.p) /\ p >= 3
  BY PrimeIs
<1>2. x \in Element /\ Value(x) \in 1 .. Value(f.p) /\ Value(x) >= 1
  BY <1>1 DEF Residues
<1>3. /\ Value(o) \in 1 .. Value(f.p)
      /\ Congruent(Value(o), Value(x) * Radix, Value(f.p))
  BY <1>2, ConvertIs
<1>4. PICK a \in Int, b \in Int : a = Value(o) /\ b = Value(x) * Radix
  BY <1>1, <1>2, <1>3, Weights
<1>5. a % p = b % p
  BY <1>1, <1>3, <1>4, CongruentHasRest
<1>6. Is(o, Value(x) * Radix, Value(f.p))
  BY <1>1, <1>3, <1>4, <1>5 DEF Is
<1>7. QED
  BY <1>6 DEF Right

LEMMA InvertsRight ==
  ASSUME NEW f \in Fields, NEW x \in Residues(f), NEW o, o = sb_fe_mod_inv_r(x, f)
  PROVE  Right(f, x, x, "invert", o)
<1>1. PICK p \in Nat \ {0} : p = Value(f.p) /\ p >= 3
  BY PrimeIs
<1>2. /\ o \in Residues(f)
      /\ Value(x) = Value(f.p) => Value(o) = Value(f.p)
      /\ Value(x) # Value(f.p) => Congruent(Value(o) * Value(x), Radix * Radix, Value(f.p))
  BY InverseIs
<1>3. Value(o) \in 1 .. p /\ Value(x) \in 1 .. p
  BY <1>1, <1>2 DEF Residues
<1>4. PICK a \in Int, b \in Int : a = Value(o) * Value(x) /\ b = Radix * Radix
  BY <1>1, <1>3, Weights
<1>5. Value(x) # Value(f.p) => a % p = b % p
  <2> SUFFICES ASSUME Value(x) # Value(f.p) PROVE a % p = b % p
    OBVIOUS
  <2>1. Congruent(a, b, p)
    BY <1>1, <1>2, <1>4
  <2>2. QED
    BY <2>1, CongruentHasRest
<1>6. QED
  BY <1>1, <1>2, <1>3, <1>4, <1>5 DEF Right

LEMMA RootsRight ==
  ASSUME NEW f \in Fields, NEW x \in Residues(f), NEW o, o = sb_fe_mod_sqrt(x, f)
  PROVE  Right(f, x, x, "root", o)
<1>1. PICK p \in Nat \ {0} : p = Value(f.p) /\ p >= 3
  BY PrimeIs
<1>2. /\ o.fe \in Residues(f) /\ o.ok \in BOOLEAN
      /\ o.ok => /\ Value(f.p) % 4 = 3
                 /\ Congruent(Value(o.fe) * Value(o.fe), Value(x), Value(f.p))
      /\ \A s \in Int : Value(f.p) % 4 = 3 /\ Congruent(s * s, Value(x), Value(f.p)) => o.ok
  BY RootIs
<1>3. PICK X \in 1 .. p, Z \in 1 .. p : X = Value(x) /\ Z = Value(o.fe)
  BY <1>1, <1>2 DEF Residues
<1>4. X \in Int /\ Z \in Int
  BY <1>1
<1>5. PICK zz \in Int : zz = Z * Z
  BY <1>4
<1>6. ASSUME o.ok PROVE p % 4 = 3 /\ (Z * Z) % p = X % p
  <2>1. p % 4 = 3 /\ Congruent(zz, X, p)
    BY <1>1, <1>2, <1>3, <1>5, <1>6
  <2>2. zz % p = X % p
    BY <1>4, <2>1, CongruentHasRest
  <2>3. QED
    BY <1>5, <2>1, <2>2
<1>7. ASSUME p % 4 = 3, NEW s \in 1 .. p, (s * s) % p = X % p PROVE o.ok
  <2>1. PICK ss \in Int : ss = s * s /\ s \in Int
    BY <1>1
  <2>2. ss % p = X % p
    BY <1>7, <2>1
  <2>3. Congruent(ss, X, p)
    BY <1>4, <2>2, RestCongruent
  <2>4. Congruent(s * s, Value(x), Value(f.p))
    BY <1>1, <1>3, <2>1, <2>3
  <2>5. QED
    BY <1>1, <1>2, <1>7, <2>1, <2>4
<1>8. o.ok <=> p % 4 = 3 /\ \E s \in 1 .. p : (s * s) % p = X % p
  BY <1>2, <1>6, <1>7
<1>9. QED
  BY <1>1, <1>3, <1>6, <1>8 DEF Right

LEMMA ReducesRight ==
  ASSUME NEW f \in Fields, NEW x \in Residues(f), NEW y \in Residues(f), NEW o
  PROVE  /\ o = sb_fe_mod_reduce_full(x, f) => Right(f, x, x, "reduce full", o)
         /\ o = sb_fe_mod_add(x, y, f) => Right(f, x, y, "mod add", o)
         /\ o = sb_fe_mod_double(x, f) => Right(f, x, x, "mod double", o)
         /\ o = sb_fe_mod_sub(x, y, f) => Right(f, x, y, "mod subtract", o)
         /\ o = sb_fe_mod_negate(x, f) => Right(f, x, x, "negate", o)
         /\ o = sb_fe_mod_halve(x, f) => Right(f, x, x, "halve", o)
<1>1. /\ x \in Element /\ Value(x) \in 1 .. Value(f.p)
      /\ y \in Element /\ Value(y) \in 1 .. Value(f.p)
  BY DEF Residues
<1>2. o = sb_fe_mod_reduce_full(x, f) => Value(o) = Value(x) % Value(f.p)
  BY <1>1, ReduceFullIs
<1>3. o = sb_fe_mod_add(x, y, f) => Is(o, Value(x) + Value(y), Value(f.p))
  BY <1>1, ModAddIs
<1>4. o = sb_fe_mod_double(x, f) => Is(o, 2 * Value(x), Value(f.p))
  BY <1>1, DoubleIs
<1>5. o = sb_fe_mod_sub(x, y, f) => Is(o, Value(x) - Value(y), Value(f.p))
  BY <1>1, ModSubtractIs
<1>6. o = sb_fe_mod_negate(x, f) => Is(o, -Value(x), Value(f.p))
  BY <1>1, NegateIs
<1>7. o = sb_fe_mod_halve(x, f) => /\ Value(o) \in 1 .. Value(f.p)
                                   /\ (2 * Value(o)) % Value(f.p) = Value(x) % Value(f.p)
  BY <1>1, HalveIs
<1>8. QED
  BY <1>2, <1>3, <1>4, <1>5, <1>6, <1>7 DEF Right

(* The operands are elements of the field's words, and what an operation   *)
(* has given is right. *)
FieldInv ==
  /\ field \in Fields /\ fe_x \in Element /\ fe_y \in Element
  /\ Right(field, fe_x, fe_y, did, out)

LEMMA FieldInitially == FieldInit => FieldInv
BY DEF FieldInit, FieldInv, Right

LEMMA FieldStep == FieldInv /\ [FieldNext]_operation => FieldInv'
<1> SUFFICES ASSUME FieldInv, [FieldNext]_operation PROVE FieldInv'
  OBVIOUS
<1>1. /\ field \in Fields /\ fe_x \in Element /\ fe_y \in Element
      /\ Right(field, fe_x, fe_y, did, out)
  BY DEF FieldInv
<1>2. ASSUME NEW op, NEW o, Gives(op, o), Right(field, fe_x, fe_y, op, o) PROVE FieldInv'
  BY <1>1, <1>2 DEF Gives, FieldInv
<1>3. ASSUME Reduced(fe_x) PROVE fe_x \in Residues(field)
  BY <1>1, <1>3 DEF Reduced, Residues
<1>4. ASSUME Reduced(fe_y) PROVE fe_y \in Residues(field)
  BY <1>1, <1>4 DEF Reduced, Residues
<1>5. CASE Compare
  <2>1. PICK o : /\ o = [equal |-> sb_fe_equal(fe_x, fe_y), lt |-> sb_fe_lt(fe_x, fe_y),
                         bits |-> [i \in 0 .. FE_BITS - 1 |-> sb_fe_test_bit(fe_x, i)]]
                 /\ Gives("compare", o)
    BY <1>5, Zenon DEF Compare
  <2>2. QED
    BY <1>1, <1>2, <2>1, ComparesRight
<1>6. CASE AddWords
  <2>1. PICK o : o = sb_fe_add(fe_x, fe_y) /\ Gives("add", o)
    BY <1>6, Zenon DEF AddWords
  <2>2. QED
    BY <1>1, <1>2, <2>1, AddsRight
<1>7. CASE SubtractWords
  <2>1. CASE Gives("subtract", sb_fe_sub(fe_x, fe_y))
    <3>1. PICK o : o = sb_fe_sub(fe_x, fe_y) /\ Gives("subtract", o)
      BY <2>1, Zenon
    <3>2. QED
      BY <1>1, <1>2, <3>1, SubtractsRight
  <2>2. CASE Gives("subtract one more", sb_fe_sub_borrow(fe_x, fe_y, 1))
    <3>1. PICK o : o = sb_fe_sub_borrow(fe_x, fe_y, 1) /\ Gives("subtract one more", o)
      BY <2>2, Zenon
    <3>2. QED
      BY <1>1, <1>2, <3>1, SubtractsRight
  <2>3. QED
    BY <1>7, <2>1, <2>2 DEF SubtractWords
<1>8. CASE ToBytes
  <2>1. PICK e \in {"big", "little"} :
          /\ fe_y = fe_x
          /\ Gives(e, [bytes |-> sb_fe_to_bytes(fe_x, e),
                       back |-> sb_fe_from_bytes(sb_fe_to_bytes(fe_x, e), e)])
    BY <1>8, Zenon DEF ToBytes
  <2>2. PICK o : /\ o = [bytes |-> sb_fe_to_bytes(fe_x, e),
                         back |-> sb_fe_from_bytes(sb_fe_to_bytes(fe_x, e), e)]
                 /\ Gives(e, o)
    BY <2>1, Zenon
  <2>3. Right(field, fe_x, fe_x, e, o)
    BY <1>1, <2>2, BytesRight
  <2>4. QED
    BY <1>2, <2>1, <2>2, <2>3
<1>9. CASE Reduce
  <2>1. PICK o : o = sb_fe_mod_reduce(fe_x, field) /\ fe_y = fe_x /\ Gives("reduce", o)
    BY <1>9, Zenon DEF Reduce
  <2>2. Is(o, Value(fe_x), Value(field.p))
    BY <1>1, <2>1, ModReduceIs
  <2>3. Right(field, fe_x, fe_y, "reduce", o)
    BY <2>2 DEF Right
  <2>4. QED
    BY <1>2, <2>1, <2>3
<1>10. CASE ReduceFull
  <2>1. PICK o : o = sb_fe_mod_reduce_full(fe_x, field) /\ Alone /\ Gives("reduce full", o)
    BY <1>10, Zenon DEF ReduceFull
  <2>2. fe_y = fe_x /\ fe_x \in Residues(field)
    BY <1>3, <2>1 DEF Alone
  <2>3. QED
    BY <1>1, <1>2, <2>1, <2>2, ReducesRight
<1>11. CASE ModAdd
  <2>1. PICK o : o = sb_fe_mod_add(fe_x, fe_y, field) /\ Both /\ Gives("mod add", o)
    BY <1>11, Zenon DEF ModAdd
  <2>2. fe_x \in Residues(field) /\ fe_y \in Residues(field)
    BY <1>3, <1>4, <2>1 DEF Both
  <2>3. QED
    BY <1>1, <1>2, <2>1, <2>2, ReducesRight
<1>12. CASE ModDouble
  <2>1. PICK o : o = sb_fe_mod_double(fe_x, field) /\ Alone /\ Gives("mod double", o)
    BY <1>12, Zenon DEF ModDouble
  <2>2. fe_y = fe_x /\ fe_x \in Residues(field)
    BY <1>3, <2>1 DEF Alone
  <2>3. QED
    BY <1>1, <1>2, <2>1, <2>2, ReducesRight
<1>13. CASE ModSubtract
  <2>1. PICK o : o = sb_fe_mod_sub(fe_x, fe_y, field) /\ Both /\ Gives("mod subtract", o)
    BY <1>13, Zenon DEF ModSubtract
  <2>2. fe_x \in Residues(field) /\ fe_y \in Residues(field)
    BY <1>3, <1>4, <2>1 DEF Both
  <2>3. QED
    BY <1>1, <1>2, <2>1, <2>2, ReducesRight
<1>14. CASE Negate
  <2>1. PICK o : o = sb_fe_mod_negate(fe_x, field) /\ Alone /\ Gives("negate", o)
    BY <1>14, Zenon DEF Negate
  <2>2. fe_y = fe_x /\ fe_x \in Residues(field)
    BY <1>3, <2>1 DEF Alone
  <2>3. QED
    BY <1>1, <1>2, <2>1, <2>2, ReducesRight
<1>15. CASE Halve
  <2>1. PICK o : o = sb_fe_mod_halve(fe_x, field) /\ Alone /\ Gives("halve", o)
    BY <1>15, Zenon DEF Halve
  <2>2. fe_y = fe_x /\ fe_x \in Residues(field)
    BY <1>3, <2>1 DEF Alone
  <2>3. QED
    BY <1>1, <1>2, <2>1, <2>2, ReducesRight
<1>16. CASE MultiplyWords
  <2>1. PICK o : o = sb_fe_mont_mult(fe_x, fe_y, field) /\ Both /\ Gives("multiply", o)
    BY <1>16, Zenon DEF MultiplyWords
  <2>2. fe_x \in Residues(field) /\ fe_y \in Residues(field)
    BY <1>3, <1>4, <2>1 DEF Both
  <2>3. QED
    BY <1>1, <1>2, <2>1, <2>2, MultipliesRight
<1>17. CASE Convert
  <2>1. PICK o : o = sb_fe_mont_convert(fe_x, field) /\ Alone /\ Gives("convert", o)
    BY <1>17, Zenon DEF Convert
  <2>2. fe_y = fe_x /\ fe_x \in Residues(field)
    BY <1>3, <2>1 DEF Alone
  <2>3. QED
    BY <1>1, <1>2, <2>1, <2>2, ConvertsRight
<1>18. CASE Invert
  <2>1. PICK o : o = sb_fe_mod_inv_r(fe_x, field) /\ Alone /\ Gives("invert", o)
    BY <1>18, Zenon DEF Invert
  <2>2. fe_y = fe_x /\ fe_x \in Residues(field)
    BY <1>3, <2>1 DEF Alone
  <2>3. QED
    BY <1>1, <1>2, <2>1, <2>2, InvertsRight
<1>19. CASE Root
  <2>1. PICK o : o = sb_fe_mod_sqrt(fe_x, field) /\ Alone /\ Gives("root", o)
    BY <1>19, Zenon DEF Root
  <2>2. fe_y = fe_x /\ fe_x \in Residues(field)
    BY <1>3, <2>1 DEF Alone
  <2>3. QED
    BY <1>1, <1>2, <2>1, <2>2, RootsRight
<1>20. CASE UNCHANGED operation
  BY <1>20 DEF operation, FieldInv
<1>21. QED
  BY <1>5, <1>6, <1>7, <1>8, <1>9, <1>10, <1>11, <1>12, <1>13, <1>14, <1>15, <1>16,
     <1>17, <1>18, <1>19, <1>20 DEF FieldNext

(* Arithmetic on field elements computes, on words with carries and        *)
(* borrows, what it does on numbers, for every size of word and of         *)
(* element, every prime of that size and every operand: comparison, bytes, *)
(* addition and subtraction, reduction, halving, Montgomery's product, the *)
(* inverse by two exponents and the square root of sb_fe.c.                *)
THEOREM FieldsCompute == FieldSpec => []FieldComputes
<1>1. FieldInit => FieldInv
  BY FieldInitially
<1>2. FieldInv /\ [FieldNext]_operation => FieldInv'
  BY FieldStep
<1>3. FieldInv => FieldComputes
  BY RightIs DEF FieldInv
<1>4. QED
  BY <1>1, <1>2, <1>3, PTL DEF FieldSpec
================================================================================
