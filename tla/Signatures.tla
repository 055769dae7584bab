------------------------------- MODULE Signatures -------------------------------
(***************************************************************************)
(* ECDSA as the app computes it: Ecdsa.kt signs with the key of the file   *)
(* (secp256k1), the key store with the processor's (secp256r1); signatures *)
(* travel as bytes, and RecoverableEcdsa looks for the id that leads from  *)
(* them back to the public key.  The curves are small, the algorithms the  *)
(* code's.  RefMultiple, Valid and what they are made of is the reference: *)
(* affine points, <<>> the infinite one.                                   *)
(***************************************************************************)
EXTENDS Integers, Sequences, SequencesExt

CONSTANTS
  App,    \* [P, N, A, B, G] of the curve of the app's key
  Store,  \* and of the key store's
  Hashes, \* what may be signed
  Base,   \* values of a byte
  Size    \* bytes in a padded number

VARIABLES
  use,       \* of the signature: Ethereum's, Acurast's or Tezos' way
  key,       \* the private key
  digest,    \* of the payload
  nonce,     \* k of the signature
  signed,    \* r and s as they were computed
  signature, \* the bytes that leave the app
  found,     \* what findRecoverId found
  stage

vars == <<use, key, digest, nonce, signed, signature, found, stage>>

Curve == IF use = "ethereum" THEN App ELSE Store

Coordinates(c) == 0 .. c.P - 1
OnCurve(c, x, y) == (y * y) % c.P = (x * x * x + c.A * x + c.B) % c.P

ASSUME SignaturesAssumption ==
  /\ Base \in Nat /\ Base > 1 /\ Base % 2 = 0 /\ Size \in Nat
  /\ Hashes \subseteq 0 .. Base ^ Size - 1
  /\ \A c \in {App, Store} :
       c.N < c.P /\ c.P < Base ^ Size /\ c.P % 4 = 3 /\ OnCurve(c, c.G[1], c.G[2])

--------------------------------------------------------------------------------
(* Reference: the group of a curve.                                        *)

RefInverse(a, n) == CHOOSE b \in 1 .. n - 1 : (a * b) % n = 1

RefSum(c, p, q) ==
  IF p = <<>> THEN q
  ELSE IF q = <<>> THEN p
  ELSE IF p[1] = q[1] /\ (p[2] + q[2]) % c.P = 0 THEN <<>>
  ELSE LET rise == IF p = q THEN 3 * p[1] * p[1] + c.A ELSE q[2] - p[2]
           run == IF p = q THEN 2 * p[2] ELSE q[1] - p[1]
           slope == (rise * RefInverse(run % c.P, c.P)) % c.P
           x == (slope * slope - p[1] - q[1]) % c.P
       IN  <<x, (slope * (p[1] - x) - p[2]) % c.P>>

RefMultiples ==
  [c \in {App, Store} |->
     [n \in 0 .. c.N - 1 |-> FoldLeft(LAMBDA p, i : RefSum(c, p, c.G), <<>>, [i \in 1 .. n |-> i])]]
RefMultiple(c, n) == RefMultiples[c][n % c.N]

(* Every point is a multiple of G. *)
RefLog(c, p) == CHOOSE n \in 0 .. c.N - 1 : RefMultiple(c, n) = p
RefTimes(c, p, n) == RefMultiple(c, RefLog(c, p) * n)

Valid(c, publicKey, hash, r, s) ==
  /\ r \in 1 .. c.N - 1 /\ s \in 1 .. c.N - 1
  /\ LET w == RefInverse(s, c.N)
         p == RefSum(c, RefMultiple(c, hash * w), RefTimes(c, publicKey, r * w))
     IN  p # <<>> /\ p[1] % c.N = r

--------------------------------------------------------------------------------
(* Ecdsa.kt: Jacobian points <<x, y, z>>; <<0, 0, 1>> stands for the       *)
(* infinite one, which fastAdd does not know.                              *)

RECURSIVE Reduced(_, _, _, _)
Reduced(lm, hm, low, high) ==
  IF low <= 1 THEN lm
  ELSE LET r == high \div low IN Reduced(hm - lm * r, lm, high - low * r, low)

inv(a, b) == IF a = 0 THEN 0 ELSE Reduced(1, 0, a % b, b) % b

Identity == <<0, 0, 1>>

fastDouble(c, p) ==
  LET ysq == (p[2] ^ 2) % c.P
      s == (ysq * p[1] * 4) % c.P
      m == (p[1] ^ 2 * 3 + p[3] ^ 4 * c.A) % c.P
      nx == (m ^ 2 - s * 2) % c.P
  IN  <<nx, (m * (s - nx) - ysq ^ 2 * 8) % c.P, (p[2] * p[3] * 2) % c.P>>

fastAdd(c, p, q) ==
  LET u1 == (q[3] ^ 2 * p[1]) % c.P
      u2 == (p[3] ^ 2 * q[1]) % c.P
      s1 == (q[3] ^ 3 * p[2]) % c.P
      s2 == (p[3] ^ 3 * q[2]) % c.P
      h == u2 - u1
      r == s2 - s1
      h2 == (h ^ 2) % c.P
      h3 == (h2 * h) % c.P
      u1h2 == (u1 * h2) % c.P
      nx == (r ^ 2 - h3 - u1h2 * 2) % c.P
  IN  CASE u1 = u2 /\ s1 = s2 -> fastDouble(c, p)
        [] u1 = u2 /\ s1 # s2 -> Identity
        [] OTHER -> <<nx, (r * (u1h2 - nx) - s1 * h3) % c.P, (h * p[3] * q[3]) % c.P>>

RECURSIVE fastMultiply(_, _, _)
fastMultiply(c, p, n) ==
  CASE p[2] = 0 \/ n = 0 -> Identity
    [] p[2] # 0 /\ n = 1 -> p
    [] p[2] # 0 /\ (n < 0 \/ n >= c.N) -> fastMultiply(c, p, n % c.N)
    [] OTHER -> LET d == fastDouble(c, fastMultiply(c, p, n \div 2))
                IN  IF n % 2 = 0 THEN d ELSE fastAdd(c, d, p)

Jacobian(p) == <<p[1], p[2], 1>>

Affine(c, p) == LET z == inv(p[3], c.P) IN <<(z ^ 2 * p[1]) % c.P, (z ^ 3 * p[2]) % c.P>>

(* Mutant of sign: s is not made small. *)
signRaw(c, priv, hash, k) ==
  LET r == Affine(c, fastMultiply(c, Jacobian(c.G), k))[1]
  IN  [r |-> r, s |-> (inv(k, c.N) * (hash + r * priv)) % c.N]

(* k is read as a signed number.  r is left modulo P. *)
sign(c, priv, hash, k) ==
  LET r == Affine(c, fastMultiply(c, Jacobian(c.G), k))[1]
      sRaw == (inv(k, c.N) * (hash + r * priv)) % c.N
  IN  [r |-> r, s |-> IF sRaw * 2 < c.N THEN sRaw ELSE c.N - sRaw]

verify(c, publicKey, hash, sig) ==
  LET w == inv(sig.s, c.N)
      p == Affine(c, fastMultiply(c, Jacobian(c.G), (hash * w) % c.N))
      q == Affine(c, fastMultiply(c, Jacobian(publicKey), (sig.r * w) % c.N))
  IN  /\ sig.r % c.N # 0 /\ sig.s % c.N # 0
      /\ sig.r = Affine(c, fastAdd(c, Jacobian(p), Jacobian(q)))[1]

--------------------------------------------------------------------------------
(* Bytes, the first one the highest.                                       *)

Bytes(n, length) == [i \in 1 .. length |-> (n \div Base ^ (length - i)) % Base]
Number(bytes) == FoldLeft(LAMBDA n, b : n * Base + b, 0, bytes)
toBytesPadded(n) == Bytes(n, Size)

(* Of a number that is not negative: the shortest that begins with a clear *)
(* sign bit.                                                               *)
toByteArray(n) ==
  Bytes(n, CHOOSE l \in 1 .. Size + 1 :
             /\ 2 * n < Base ^ l
             /\ \A k \in 1 .. l - 1 : 2 * n >= Base ^ k)

trim(bytes) ==
  LET More(result, b) == IF b = 0 /\ result = <<>> THEN result ELSE Append(result, b)
  IN  FoldLeft(More, <<>>, bytes)

(* The sign byte would go if it were the smallest byte, which none begins  *)
(* with.                                                                   *)
bigIntToBytes(n) ==
  IF 2 * Head(toByteArray(n)) = Base THEN Tail(toByteArray(n)) ELSE toByteArray(n)

(* What the second arraycopy leaves of the first; <<>> if it throws. *)
privateKeyToPublicKey(c, priv) ==
  LET p == Affine(c, fastMultiply(c, Jacobian(c.G), priv))
      xBs == bigIntToBytes(p[1])
      yBs == bigIntToBytes(p[2])
      At(i) == IF i \in Size + 1 .. Size + Len(yBs) THEN yBs[i - Size]
               ELSE IF i \in 1 .. Len(xBs) THEN xBs[i] ELSE 0
  IN  IF priv > c.N \/ Len(yBs) > Size THEN <<>> ELSE [i \in 1 .. 2 * Size |-> At(i)]

(* y to the power (P + 1) / 4, modulo P *)
RECURSIVE modPow(_, _, _)
modPow(n, m, mod) == IF m = 0 THEN 1 ELSE (n * modPow(n, m - 1, mod)) % mod

(* v: the last byte of the signature, whose parity is that of y.  <<>> if  *)
(* it throws.                                                              *)
recoverToPublicKey(c, hash, sig, v) ==
  LET num == (sig.r ^ 3 + sig.r * c.A + c.B) % c.P
      root == modPow(num, (c.P + 1) \div 4, c.P)
      y == IF root % 2 = (v + 27) % 2 THEN c.P - root ELSE root
      GZ == fastMultiply(c, Jacobian(c.G), (c.N - hash) % c.N)
      XY == fastMultiply(c, Jacobian(<<sig.r, y>>), sig.s)
      Q == Affine(c, fastMultiply(c, fastAdd(c, GZ, XY), inv(sig.r, c.N)))
  IN  IF \/ sig.r % c.N = 0 \/ sig.s % c.N = 0 \/ v + 27 \notin 27 .. 34
         \/ (y ^ 2 - num) % c.P # 0
        THEN <<>> ELSE bigIntToBytes(Q[1]) \o bigIntToBytes(Q[2])

--------------------------------------------------------------------------------
(* RecoverableEcdsa.kt, on the curves of a library.                        *)

(* Mutant of candidateX: every id another x. *)
candidateXUnshifted(c, r, recId) == r + recId * c.N

candidateX(c, r, recId) == r + (recId \div 2) * c.N

(* The points decodePoint may return. *)
decompressKey(c, x, yBit) ==
  {p \in {x} \X Coordinates(c) : OnCurve(c, p[1], p[2]) /\ p[2] % 2 = yBit}

(* No candidate beyond the field: null.  No point, or no inverse of r: the *)
(* library throws.                                                         *)
recoverThrows(c, r, recId) ==
  LET x == candidateX(c, r, recId)
  IN  x < c.P /\ (decompressKey(c, x, recId % 2) = {} \/ r % c.N = 0)

recoverFromSignature(c, r, s, recId, message) ==
  LET x == candidateX(c, r, recId)
      rInv == RefInverse(r % c.N, c.N)
  IN  IF x >= c.P THEN {}
      ELSE {RefSum(c, RefMultiple(c, rInv * ((-message) % c.N)), RefTimes(c, R, rInv * s)) :
              R \in decompressKey(c, x, recId % 2)}

NotFound == -1

(* The first id that leads to the key; it throws before it has tried the   *)
(* others if a candidate is no point.                                      *)
findRecoverId(c, r, s, publicKey, message) ==
  LET stops == {i \in 0 .. 3 : \/ recoverThrows(c, r, i)
                               \/ publicKey \in recoverFromSignature(c, r, s, i, message)}
  IN  IF stops = {} \/ recoverThrows(c, r, Min(stops)) THEN NotFound ELSE Min(stops)

--------------------------------------------------------------------------------
PublicKey == RefMultiple(Curve, key)

Init ==
  /\ use \in {"ethereum", "acurast", "tezos"}
  /\ key \in 1 .. Curve.N - 1 /\ digest \in Hashes
  /\ nonce = 0 /\ signed = [r |-> 0, s |-> 0] /\ signature = <<>>
  /\ found = NotFound /\ stage = "start"

RandomBytes == - (Base ^ Size \div 2) .. Base ^ Size \div 2 - 1

(* GenericEcdsa.rawSign *)
rawSign ==
  /\ use = "ethereum" /\ stage = "start"
  /\ \E k \in RandomBytes :
       /\ nonce' = k
       /\ signed' = sign(App, key, digest, k)
       /\ signature' = toBytesPadded(signed'.r) \o toBytesPadded(signed'.s)
  /\ stage' = "signed"
  /\ UNCHANGED <<use, key, digest, found>>

(* Ethereum.fulfill takes the signature apart. *)
fulfill ==
  /\ use = "ethereum" /\ stage = "signed"
  /\ found' = findRecoverId(App, Number(SubSeq(signature, 1, Size)),
                            Number(SubSeq(signature, Size + 1, 2 * Size)), PublicKey, digest)
  /\ stage' = "done"
  /\ UNCHANGED <<use, key, digest, nonce, signed, signature>>

(* The key store: any valid signature. *)
KeyStoreSigns ==
  /\ use # "ethereum" /\ stage = "start"
  /\ \E k \in 1 .. Store.N - 1 :
       LET r == RefMultiple(Store, k)[1] % Store.N
           s == (RefInverse(k, Store.N) * (digest + r * key)) % Store.N
       IN  /\ r # 0 /\ s # 0
           /\ nonce' = k
           /\ \E t \in {s, Store.N - s} : signed' = [r |-> r, s |-> t]
  /\ stage' = "signed"
  /\ UNCHANGED <<use, key, digest, signature, found>>

(* CryptoLegacy.acurastSign *)
acurastSign ==
  /\ use = "acurast" /\ stage = "signed"
  /\ LET r == toByteArray(signed.r)
         s == toByteArray(signed.s)
         v == findRecoverId(Store, Number(r), Number(s), PublicKey, digest)
     IN  /\ found' = v
         /\ signature' = (IF v = NotFound THEN <<>> ELSE trim(r) \o trim(s) \o <<v>>)
  /\ stage' = "done"
  /\ UNCHANGED <<use, key, digest, nonce, signed>>

(* P256.rawSign, CryptoLegacy.rawSign *)
ecSign ==
  /\ use = "tezos" /\ stage = "signed"
  /\ signature' = trim(toByteArray(signed.r)) \o trim(toByteArray(signed.s))
  /\ stage' = "done"
  /\ UNCHANGED <<use, key, digest, nonce, signed, found>>

Next == rawSign \/ fulfill \/ KeyStoreSigns \/ acurastSign \/ ecSign

Spec == Init /\ [][Next]_vars

--------------------------------------------------------------------------------
(* x of the point that made r. *)
nonceX == RefMultiple(Curve, nonce)[1]

(* sign computes a valid signature with a small s, for any key, digest and *)
(* random bytes, unless these happen to give no point, no r or no s, or an *)
(* x that is not below N: nothing is tried again.                          *)
AppSignsValid ==
  use = "ethereum" /\ stage # "start" =>
    \/ Valid(App, PublicKey, digest, signed.r, signed.s) /\ 2 * signed.s < App.N
    \/ nonce % App.N = 0
    \/ nonceX \notin 1 .. App.N - 1
    \/ (digest + nonceX * key) % App.N = 0

(* findRecoverId leads back to the signer's key, with an id that tells x   *)
(* from x + N (Ethereum knows the first only).  It fails for signatures    *)
(* that are invalid, and for the key store's in one case: x is not below N *)
(* and x - N is no point, so that an earlier candidate throws.             *)
RecoversUnlessBeyondN ==
  stage = "done" /\ use # "tezos" =>
    CASE use = "ethereum" /\ found # NotFound -> found \in {0, 1}
      [] use = "ethereum" /\ found = NotFound -> signed.r % App.N = 0 \/ signed.s % App.N = 0
      [] use = "acurast" /\ found # NotFound -> found >= 2 <=> nonceX >= Store.N
      [] use = "acurast" /\ found = NotFound ->
           nonceX >= Store.N /\ \A y \in Coordinates(Store) : ~OnCurve(Store, nonceX - Store.N, y)

(* The functions of Ecdsa agree.  privateKeyToPublicKey gives the two      *)
(* coordinates exactly when they fill their bytes and leave the sign bit   *)
(* clear.  verify and recoverToPublicKey accept what sign made, but for a  *)
(* digest that is a multiple of N: its point is added as one of the curve. *)
EcdsaAgrees ==
  use = "ethereum" =>
    LET x == toByteArray(PublicKey[1])
        y == toByteArray(PublicKey[2])
    IN  /\ privateKeyToPublicKey(App, key) = toBytesPadded(PublicKey[1]) \o toBytesPadded(PublicKey[2])
             <=> Len(x) = Size /\ Len(y) = Size
        /\ stage = "signed" /\ 0 \notin {signed.r % App.N, signed.s % App.N, digest % App.N} =>
             /\ verify(App, PublicKey, digest, signed)
             /\ \E v \in {0, 1} : recoverToPublicKey(App, digest, signed, v) = x \o y

(* A signature of two full numbers is read back as it was made; all others *)
(* have another length, which shows that a leading zero was trimmed.       *)
SplitsBack ==
  stage = "done" /\ use # "ethereum" /\ signature # <<>> =>
    LET rs == IF use = "acurast" THEN Front(signature) ELSE signature
        full == signed.r >= Base ^ (Size - 1) /\ signed.s >= Base ^ (Size - 1)
    IN  /\ Len(rs) = 2 * Size <=> full
        /\ full => /\ Number(SubSeq(rs, 1, Size)) = signed.r
                   /\ Number(SubSeq(rs, Size + 1, 2 * Size)) = signed.s

(* What the app's own curve makes is a signature by the standard, and its  *)
(* own functions take it for one.                                          *)
EcdsaHolds == AppSignsValid /\ EcdsaAgrees

(* Receivers find in what is sent the numbers that were signed with, and   *)
(* the key.                                                                *)
ReadsBack == RecoversUnlessBeyondN /\ SplitsBack
================================================================================
