--------------------------------- MODULE SbHash ---------------------------------
(***************************************************************************)
(* SHA256, HMAC-SHA256 and HKDF of the C library, called in pieces: one    *)
(* object that a caller initializes, feeds chunk by chunk and finishes, as *)
(* a hash, an HMAC or an HKDF.  The compression function is free (it is in *)
(* SbCompression): an intermediate hash is the sequence of blocks it was   *)
(* made of, a byte of it a symbol.                                         *)
(***************************************************************************)
EXTENDS Integers, Sequences

CONSTANTS
  BLOCK,     \* SB_SHA256_BLOCK_SIZE
  SIZE,      \* SB_SHA256_SIZE
  LENGTH,    \* SB_SHA256_LENGTH_BYTES
  TotalMod,  \* sb_size_t counts modulo this
  MaxFed,    \* bound: bytes of a message
  Chunks,    \* sizes of the pieces
  KeySizes,  \* of keys, salts and infos
  Outputs,   \* sizes of derived keys
  IterMod    \* the counter of sb_hkdf_expand counts modulo this

ASSUME HashAssumption ==
  /\ BLOCK \in Nat /\ SIZE \in 1 .. BLOCK /\ BLOCK = 2 * SIZE
  /\ LENGTH \in 1 .. BLOCK
  /\ TotalMod \in Nat \ {0} /\ TotalMod % BLOCK = 0
  /\ Chunks \subseteq Nat /\ KeySizes \subseteq Nat /\ Outputs \subseteq Nat
  /\ IterMod \in Nat \ {0}

VARIABLES
  use,      \* what the object is used as
  object,   \* sb_hkdf_state_t, with the HMAC and the hash inside
  secret,   \* the HMAC key, or the HKDF salt, as the caller gave it
  fed,      \* what was fed since the object was initialized
  produced, \* the last output
  stage

vars == <<use, object, secret, fed, produced, stage>>

--------------------------------------------------------------------------------
(* Bytes.  A byte of a hash is named by the hash and its place; pads: what *)
(* it was xored with.                                                      *)

Byte(n) == [of |-> <<>>, at |-> n, pads |-> {}]
Zeros(n) == [i \in 1 .. n |-> Byte(0)]
FinalBit == Byte(128)
Number(n) == [i \in 1 .. LENGTH |-> Byte((n \div 256 ^ (LENGTH - i)) % 256)]
Digest(ihash) == [i \in 1 .. SIZE |-> [of |-> ihash, at |-> i, pads |-> {}]]
Padded(bytes, pad) ==
  [i \in DOMAIN bytes |->
     [bytes[i] EXCEPT !.pads = IF pad \in @ THEN @ \ {pad} ELSE @ \cup {pad}]]
(* memset to pad *)
AllPad(n, pad) == Padded(Zeros(n), pad)

(* What callers give: bytes told apart by who gave them and by their place. *)
Given(who, from, to) == [i \in 1 .. to - from |-> Byte(1000 * who + from + i)]

--------------------------------------------------------------------------------
(* sb_sha256.c *)

sb_sha256_init == [ihash |-> <<>>, buffer |-> Zeros(BLOCK), total |-> 0]
Nullified == sb_sha256_init  \* of a hash that is not used before it is initialized

sb_sha256_process_block(sha, M) == [sha EXCEPT !.ihash = Append(@, M)]

CopyTo(buffer, at, bytes) ==
  [i \in DOMAIN buffer |-> IF i \in at + 1 .. at + Len(bytes) THEN bytes[i - at] ELSE buffer[i]]

(* The loop's body for the bytes it takes. *)
Absorb(sha, bytes) ==
  LET fill == sha.total % BLOCK
      counted == [sha EXCEPT !.total = (@ + Len(bytes)) % TotalMod]
      copied == [counted EXCEPT !.buffer = CopyTo(@, fill, bytes)]
  IN  IF fill = 0 /\ Len(bytes) = BLOCK THEN sb_sha256_process_block(counted, bytes)
      ELSE IF counted.total % BLOCK = 0 THEN sb_sha256_process_block(copied, copied.buffer)
      ELSE copied

(* A turn of the loop: as many bytes as the block has place for. *)
UpdateTurn(s, input) ==
  LET left == Len(input) - s.done
      remaining == BLOCK - (s.sha.total % BLOCK)
      take == IF left > remaining THEN remaining ELSE left
  IN  IF left = 0 THEN s
      ELSE [done |-> s.done + take,
            sha |-> Absorb(s.sha, SubSeq(input, s.done + 1, s.done + take))]

sb_sha256_update(sha, input) ==
  LET turn[i \in 0 .. Len(input)] ==
        IF i = 0 THEN [done |-> 0, sha |-> sha] ELSE UpdateTurn(turn[i - 1], input)
  IN  turn[Len(input)].sha

(* Mutant of finish_internal: the block whose padding leaves no place for  *)
(* the length is not processed. *)
finishWithoutExtra(sha) ==
  LET bit == sb_sha256_update(sha, <<FinalBit>>)
      fill == bit.total % BLOCK
      cleared == CopyTo(bit.buffer, fill, Zeros(BLOCK - fill))
      last == CopyTo(cleared, BLOCK - LENGTH, Number(sha.total * 8))
  IN  sb_sha256_process_block([bit EXCEPT !.buffer = last], last)

sb_sha256_finish_internal(sha) ==
  LET bit == sb_sha256_update(sha, <<FinalBit>>)
      fill == bit.total % BLOCK
      cleared == CopyTo(bit.buffer, fill, Zeros(BLOCK - fill))
      next == IF BLOCK - fill < LENGTH
                THEN [sb_sha256_process_block(bit, cleared) EXCEPT !.buffer = Zeros(BLOCK)]
                ELSE [bit EXCEPT !.buffer = cleared]
      last == CopyTo(next.buffer, BLOCK - LENGTH, Number(sha.total * 8))
  IN  sb_sha256_process_block([next EXCEPT !.buffer = last], last)

sb_sha256_finish_to_buffer(sha) ==
  LET end == sb_sha256_finish_internal(sha)
  IN  [end EXCEPT !.buffer = CopyTo(@, 0, Digest(end.ihash))]

(* The output; the state is nullified. *)
sb_sha256_finish(sha) == Digest(sb_sha256_finish_internal(sha).ihash)

sb_sha256_message(input) == sb_sha256_finish(sb_sha256_update(sb_sha256_init, input))

--------------------------------------------------------------------------------
(* sb_hmac_sha256.c: on an object o, whose sha and key are the HMAC's.     *)

key_pad(o, pad) == [o EXCEPT !.key = Padded(@, pad)]

sb_hmac_sha256_reinit(o) ==
  LET p == key_pad(o, "ipad")
  IN  key_pad([p EXCEPT !.sha = sb_sha256_update(sb_sha256_init, p.key)], "ipad")

sb_hmac_sha256_init(o, key) ==
  LET short == IF Len(key) > BLOCK THEN sb_sha256_message(key) ELSE key
  IN  sb_hmac_sha256_reinit([o EXCEPT !.sha = Nullified, !.key = CopyTo(Zeros(BLOCK), 0, short)])

sb_hmac_sha256_update(o, input) == [o EXCEPT !.sha = sb_sha256_update(@, input)]

(* The object and the output. *)
sb_hmac_sha256_finish(o) ==
  LET p == key_pad(o, "opad")
      outer == sb_sha256_update(sb_sha256_init, p.key)
  IN  <<key_pad([p EXCEPT !.sha = Nullified], "opad"),
        sb_sha256_finish(sb_sha256_update(outer, sb_sha256_finish(o.sha)))>>

(* For a key of SIZE bytes: the second half of the block is free. *)
sb_hmac_sha256_finish_to_key(o) ==
  LET p == CopyTo(key_pad(o, "opad").key, SIZE, sb_sha256_finish(o.sha))
      first == sb_sha256_update(sb_sha256_init, SubSeq(p, 1, SIZE))
      second == sb_sha256_update(first, AllPad(SIZE, "opad"))
      inner == sb_sha256_update(second, SubSeq(p, SIZE + 1, BLOCK))
  IN  sb_hmac_sha256_reinit(
        [o EXCEPT !.sha = Nullified, !.key = sb_sha256_finish(inner) \o Zeros(SIZE)])

--------------------------------------------------------------------------------
(* sb_hkdf.c *)

Cleared == [sha |-> Nullified, key |-> Zeros(BLOCK), output |-> Zeros(SIZE)]

sb_hkdf_extract_init(salt) ==
  sb_hmac_sha256_init(Cleared, IF salt = <<>> THEN Cleared.output ELSE salt)

sb_hkdf_extract_finish(o) ==
  LET end == sb_hmac_sha256_finish(o)
  IN  sb_hmac_sha256_init([end[1] EXCEPT !.output = Zeros(SIZE)], end[2])

sb_hkdf_kdf_init(input) == sb_hmac_sha256_init(Cleared, input)

(* A turn of the loop: the next SIZE bytes, or what is left to make. *)
ExpandTurn(s, info, length) ==
  IF Len(s.made) >= length THEN s
  ELSE LET left == length - Len(s.made)
           fedBack == IF s.made # <<>> THEN sb_hmac_sha256_update(s.object, s.object.output)
                      ELSE s.object
           input == sb_hmac_sha256_update(sb_hmac_sha256_update(fedBack, info), <<Byte(s.iter)>>)
           end == sb_hmac_sha256_finish(input)
       IN  [object |-> [sb_hmac_sha256_reinit(end[1]) EXCEPT !.output = end[2]],
            made |-> s.made \o SubSeq(end[2], 1, IF left > SIZE THEN SIZE ELSE left),
            iter |-> (s.iter + 1) % IterMod]

expandFrom(o, info, length, first) ==
  LET turn[i \in 0 .. length] ==
        IF i = 0 THEN [object |-> o, made |-> <<>>, iter |-> first]
        ELSE ExpandTurn(turn[i - 1], info, length)
  IN  <<[turn[length].object EXCEPT !.output = Zeros(SIZE)], turn[length].made>>

(* Mutant of sb_hkdf_expand: the blocks are counted from zero. *)
expandFromZero(o, info, length) == expandFrom(o, info, length, 0)

sb_hkdf_expand(o, info, length) == expandFrom(o, info, length, 1)

--------------------------------------------------------------------------------
(* The caller.                                                             *)

Nothing == [bytes |-> <<>>, info |-> <<>>]

Init ==
  /\ use \in {"hash", "hmac", "hkdf", "kdf"} /\ secret = <<>> /\ fed = <<>>
  /\ object = Cleared /\ produced = Nothing
  /\ stage = "fresh"

Goes(from, to) == stage \in from /\ stage' = to /\ UNCHANGED use

Hashing == use = "hash" /\ UNCHANGED secret

HashInit ==
  /\ Hashing /\ Goes({"fresh", "done"}, "feeding")
  /\ object' = [object EXCEPT !.sha = sb_sha256_init]
  /\ fed' = <<>> /\ produced' = Nothing

(* Of any of the three: a chunk of n bytes. *)
Update(n) ==
  LET chunk == Given(1, Len(fed), Len(fed) + n)
  IN  /\ Goes({"feeding"}, "feeding") /\ Len(fed) + n <= MaxFed
      /\ object' = sb_hmac_sha256_update(object, chunk)
      /\ fed' = fed \o chunk
      /\ UNCHANGED <<secret, produced>>

HashFinish ==
  /\ Hashing /\ Goes({"feeding"}, "done")
  /\ object' = [object EXCEPT !.sha = Nullified]
  /\ produced' = [Nothing EXCEPT !.bytes = sb_sha256_finish(object.sha)]
  /\ UNCHANGED fed

HashFinishToBuffer ==
  /\ Hashing /\ Goes({"feeding"}, "done")
  /\ object' = [object EXCEPT !.sha = sb_sha256_finish_to_buffer(@)]
  /\ produced' = [Nothing EXCEPT !.bytes = SubSeq(object'.sha.buffer, 1, SIZE)]
  /\ UNCHANGED fed

(* A key, or a salt, or key material for the KDF. *)
Start(n) ==
  LET given == Given(2, 0, n)
  IN  /\ use \in {"hmac", "hkdf", "kdf"}
      /\ Goes({"fresh"}, IF use = "kdf" THEN "derived" ELSE "feeding")
      /\ object' = CASE use = "hmac" -> sb_hmac_sha256_init(object, given)
                     [] use = "hkdf" -> sb_hkdf_extract_init(given)
                     [] use = "kdf" -> sb_hkdf_kdf_init(given)
      /\ secret' = given
      /\ UNCHANGED <<fed, produced>>

HmacFinish ==
  /\ use = "hmac" /\ Goes({"feeding"}, "done")
  /\ LET end == sb_hmac_sha256_finish(object)
     IN  object' = end[1] /\ produced' = [Nothing EXCEPT !.bytes = end[2]]
  /\ UNCHANGED <<secret, fed>>

HmacReinit ==
  /\ use = "hmac" /\ Goes({"done"}, "feeding")
  /\ object' = sb_hmac_sha256_reinit(object)
  /\ fed' = <<>> /\ produced' = Nothing
  /\ UNCHANGED secret

(* The HMAC becomes the key. *)
HmacFinishToKey ==
  /\ use = "hmac" /\ Len(secret) = SIZE /\ Goes({"feeding"}, "keyed")
  /\ object' = sb_hmac_sha256_finish_to_key(object)
  /\ UNCHANGED <<secret, fed, produced>>

ExtractFinish ==
  /\ use = "hkdf" /\ Goes({"feeding"}, "derived")
  /\ object' = sb_hkdf_extract_finish(object)
  /\ UNCHANGED <<secret, fed, produced>>

(* May be called again and again. *)
Expand(n, length) ==
  /\ Goes({"derived"}, "derived")
  /\ LET info == Given(3, 0, n)
         end == sb_hkdf_expand(object, info, length)
     IN  object' = end[1] /\ produced' = [bytes |-> end[2], info |-> info]
  /\ UNCHANGED <<secret, fed>>

Next ==
  \/ HashInit \/ HashFinish \/ HashFinishToBuffer
  \/ \E n \in Chunks : Update(n)
  \/ \E n \in KeySizes : Start(n)
  \/ HmacFinish \/ HmacReinit \/ HmacFinishToKey \/ ExtractFinish
  \/ \E n \in KeySizes, length \in Outputs : Expand(n, length)

Spec == Init /\ [][Next]_vars

--------------------------------------------------------------------------------
(* Reference: FIPS 180-4, RFC 2104 and RFC 5869 on whole messages.         *)

RefBlocks(m) ==
  [b \in 1 .. Len(m) \div BLOCK |-> SubSeq(m, (b - 1) * BLOCK + 1, b * BLOCK)]

RefPadded(m) ==
  LET zeros == CHOOSE z \in 0 .. BLOCK - 1 : (Len(m) + 1 + z + LENGTH) % BLOCK = 0
  IN  m \o <<FinalBit>> \o Zeros(zeros) \o Number(8 * Len(m))

RefHash(m) == Digest(RefBlocks(RefPadded(m)))

RefHmac(key, m) ==
  LET k == (IF Len(key) > BLOCK THEN RefHash(key) ELSE key) \o Zeros(BLOCK)
      k0 == SubSeq(k, 1, BLOCK)
  IN  RefHash(Padded(k0, "opad") \o RefHash(Padded(k0, "ipad") \o m))

(* T(1), T(2) and so on, one after the other. *)
RefExpand(prk, info, length) ==
  LET T[i \in 0 .. length] ==
        IF i = 0 THEN <<>> ELSE RefHmac(prk, T[i - 1] \o info \o <<Byte(i)>>)
  IN  [k \in 1 .. length |-> T[1 + ((k - 1) \div SIZE)][1 + ((k - 1) % SIZE)]]

Prk == IF use = "kdf" THEN secret
       ELSE RefHmac(IF secret = <<>> THEN Zeros(SIZE) ELSE secret, fed)

(* However a message is cut, and whatever the object was used for before,  *)
(* its hash is that of the message in one piece, and its HMAC that of the  *)
(* message with the key, also when it becomes the next key; as long as no  *)
(* count of bytes reaches the modulus of sb_size_t.                        *)
HashesFed ==
  /\ use = "hash" /\ stage = "done" /\ Len(fed) < TotalMod => produced.bytes = RefHash(fed)
  /\ use = "hmac" /\ Len(secret) < TotalMod /\ BLOCK + Len(fed) < TotalMod =>
       /\ stage = "done" => produced.bytes = RefHmac(secret, fed)
       /\ stage = "keyed" =>
            object = sb_hmac_sha256_init(object, RefHmac(secret, fed))

(* Every key derived from the material is RFC 5869's, with whatever infos  *)
(* and lengths keys were derived before, until a counter wraps.            *)
DerivesKeys ==
  /\ stage = "derived"
  /\ Len(secret) < TotalMod /\ BLOCK + Len(fed) < TotalMod
  /\ BLOCK + SIZE + Len(produced.info) + 1 < TotalMod
  /\ Len(produced.bytes) <= (IterMod - 1) * SIZE
  => produced.bytes = RefExpand(Prk, produced.info, Len(produced.bytes))
================================================================================
