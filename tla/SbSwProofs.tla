------------------------------- MODULE SbSwProofs -------------------------------
(***************************************************************************)
(* Proofs about the elliptic curve interface and its DRBG.  The DRBG part  *)
(* of the inductive invariant ties the reseed counter to the successful    *)
(* calls since the seeding, which is what makes the answer to a query hold *)
(* for the calls that follow it; the other part says what the context      *)
(* holds at every stage of the operation that was started last.            *)
(***************************************************************************)
EXTENDS SbSw, TLAPS

USE DrbgAssumption, SwAssumption

State == [K : Int, V : Int, reseed_counter : Nat]

(* What is kept is neither put out nor older than what was. *)
Good(d) == d \in State /\ (d.reseed_counter > 0 => d.K > 0 /\ d.V > 0)

(* n calls made of the DRBG d, none of them refused. *)
Ran(g, d, n) ==
  /\ g.errors = {} /\ g.repeats = FALSE /\ g.made = n
  /\ Good(g.drbg) /\ g.drbg.reseed_counter = d.reseed_counter + n

DrbgInv ==
  /\ Good(drbg) /\ seeded \in BOOLEAN /\ age \in Nat /\ repeated = FALSE
  /\ seeded => drbg.reseed_counter = age + 1 /\ age <= INTERVAL
  /\ ~seeded => drbg.reseed_counter = 0 /\ age = 0

(* What a caller was told, whom no call fails after the first. *)
Told ==
  /\ answer.reseed => age + answer.calls > INTERVAL
  /\ ~answer.failed => age - answer.made + answer.calls <= INTERVAL
  /\ answer.failed => answer.made = 0

--------------------------------------------------------------------------------
(* The DRBG.                                                               *)

(* An update keys with HMAC values newer than V: update_vec.               *)
LEMMA StepGrows ==
  ASSUME NEW d \in State
  PROVE  LET u == sb_hmac_drbg_update_step(d)
         IN  /\ u \in State /\ u.reseed_counter = d.reseed_counter
             /\ u.K > d.K /\ u.K > d.V /\ u.V > u.K
<1> DEFINE key == Hmac(d.K, d.V)
           V == Hmac(key, d.V)
<1>1. key \in Int /\ key > d.K /\ key > d.V
  BY DEF State, Hmac
<1>2. V \in Int /\ V > key
  BY <1>1 DEF State, Hmac
<1>3. sb_hmac_drbg_update_step(d) = [d EXCEPT !.K = key, !.V = V]
  BY DEF sb_hmac_drbg_update_step
<1> QED
  BY <1>1, <1>2, <1>3 DEF State

(* An update leaves a later key and a later value than those it began with. *)
LEMMA UpdateGrows ==
  ASSUME NEW d \in State, NEW any \in BOOLEAN
  PROVE  LET u == sb_hmac_drbg_update_vec(d, any)
         IN  /\ u \in State /\ u.reseed_counter = d.reseed_counter
             /\ u.K > d.K /\ u.K > d.V /\ u.V > u.K
<1> DEFINE first == sb_hmac_drbg_update_step(d)
           second == sb_hmac_drbg_update_step(first)
<1>1. /\ first \in State /\ first.reseed_counter = d.reseed_counter
      /\ first.K > d.K /\ first.K > d.V /\ first.V > first.K
  BY StepGrows
<1>2. /\ second \in State /\ second.reseed_counter = first.reseed_counter
      /\ second.K > first.K /\ second.V > second.K
  BY <1>1, StepGrows
<1>3. second.K > d.K /\ second.K > d.V
  <2>1. first.K \in Int /\ second.K \in Int /\ d.K \in Int /\ d.V \in Int
    BY <1>1, <1>2 DEF State
  <2> QED
    BY <1>1, <1>2, <2>1
<1>4. sb_hmac_drbg_update_vec(d, any) = IF any THEN second ELSE first
  BY DEF sb_hmac_drbg_update_vec
<1> HIDE DEF first, second
<1>5. CASE any
  BY <1>1, <1>2, <1>3, <1>4, <1>5
<1>6. CASE ~any
  BY <1>1, <1>4, <1>6
<1> QED
  BY <1>5, <1>6

(* A call that is made puts out nothing that was put out before, and what  *)
(* is kept after it is new: the end of generate_additional_vec_opt.        *)
LEMMA CallIsFresh ==
  ASSUME NEW d, Good(d), d.reseed_counter > 0,
         NEW length \in Nat, NEW additional \in Nat
  PROVE  LET c == updateAndOutput(d, length, additional)
         IN  /\ Good(c.drbg) /\ c.repeats = FALSE
             /\ c.drbg.reseed_counter = d.reseed_counter + 1
<1> DEFINE start == Provided(d, additional)
           n == Blocks(length)
           end == Output(start, n)
           next == sb_hmac_drbg_update_vec(end, additional > 0)
<1>1. d \in State /\ d.K > 0 /\ d.V > 0
  BY DEF Good
<1>2. /\ start \in State /\ start.reseed_counter = d.reseed_counter
      /\ start.K > 0 /\ start.V > 0
  <2> DEFINE u == sb_hmac_drbg_update_vec(d, TRUE)
  <2>1. /\ u \in State /\ u.reseed_counter = d.reseed_counter
        /\ u.K > d.K /\ u.V > u.K
    BY <1>1, UpdateGrows
  <2>2. start = IF additional > 0 THEN u ELSE d
    BY DEF Provided
  <2> HIDE DEF u, start
  <2>3. CASE additional > 0
    BY <1>1, <2>1, <2>2, <2>3 DEF State
  <2>4. CASE ~(additional > 0)
    BY <1>1, <2>2, <2>4
  <2> QED
    BY <2>3, <2>4
<1> HIDE DEF start
<1>3. n \in Int
  BY DEF DrbgAssumption, Blocks
<1> HIDE DEF n
<1>4. Hmac(start.K, start.V) \in Int /\ Hmac(start.K, start.V) > 0
  BY <1>2 DEF State, Hmac
<1>5. end \in State /\ end.reseed_counter = d.reseed_counter /\ end.V >= 0
  <2>1. CASE n = 0
    BY <1>2, <2>1 DEF Output, State
  <2>2. CASE n # 0
    <3>1. start.K - (Hmac(start.K, start.V) + n - 1) \in Int
      BY <1>2, <1>3, <1>4 DEF State
    <3>2. end = [start EXCEPT !.K = start.K - (Hmac(start.K, start.V) + n - 1), !.V = 0]
      BY <2>2 DEF Output
    <3> DEFINE K == start.K - (Hmac(start.K, start.V) + n - 1)
    <3> HIDE DEF K
    <3>3. K \in Int
      BY <3>1 DEF K
    <3> DEFINE keyed == [start EXCEPT !.K = K]
    <3>4. keyed \in State /\ keyed.reseed_counter = start.reseed_counter
      BY <1>2, <3>3 DEF State
    <3>5. end = [keyed EXCEPT !.V = 0]
      BY <3>2 DEF K
    <3> HIDE DEF keyed, end
    <3> QED
      BY <1>2, <3>4, <3>5 DEF State
  <2> QED
    BY <2>1, <2>2
<1> HIDE DEF end
<1>6. /\ next \in State /\ next.reseed_counter = d.reseed_counter
      /\ next.K > 0 /\ next.V > 0
  <2>1. (additional > 0) \in BOOLEAN
    OBVIOUS
  <2>2. /\ next \in State /\ next.reseed_counter = end.reseed_counter
        /\ next.K > end.V /\ next.V > next.K
    BY <1>5, <2>1, UpdateGrows
  <2> HIDE DEF next
  <2> QED
    BY <1>5, <2>2 DEF State
<1> HIDE DEF next
<1> DEFINE after == [next EXCEPT !.reseed_counter = next.reseed_counter + 1]
           again == n > 0 /\ Hmac(start.K, start.V) <= 0
<1>7. updateAndOutput(d, length, additional) = [drbg |-> after, repeats |-> again]
  BY DEF updateAndOutput, next, end, start, n
<1>8. Good(after) /\ after.reseed_counter = d.reseed_counter + 1
  BY <1>6 DEF Good, State
<1>9. again = FALSE
  BY <1>4
<1> DEFINE c == updateAndOutput(d, length, additional)
<1> HIDE DEF after, again, c
<1>10. c = [drbg |-> after, repeats |-> again]
  BY <1>7 DEF c
<1>11. c.drbg = after /\ c.repeats = again
  BY <1>10
<1> QED
  BY <1>8, <1>9, <1>11 DEF c

(* A request that has made no call yet. *)
LEMMA FreshRan ==
  ASSUME NEW d, Good(d)
  PROVE  Ran(Fresh(d), d, 0)
BY DEF Ran, Fresh, Good, State

(* One more call goes through while the counter and the lengths allow it.  *)
LEMMA CallRuns ==
  ASSUME NEW g, NEW d, NEW n \in Nat, Ran(g, d, n), Good(d),
         NEW length \in Nat, NEW additional \in Nat, NEW required \in BOOLEAN,
         d.reseed_counter > 0, d.reseed_counter + n <= INTERVAL,
         length <= MAX_BYTES, additional <= MAX_ADDITIONAL, required => additional > 0
  PROVE  Ran(sb_hmac_drbg_generate_additional_vec_opt(g, length, additional, required),
             d, n + 1)
<1>1. d.reseed_counter \in Nat /\ g.drbg.reseed_counter = d.reseed_counter + n
  BY DEF Good, State, Ran
<1>2. refused(g.drbg, length, additional, required) = {}
  BY <1>1 DEF refused, If, DrbgAssumption
<1> DEFINE done == updateAndOutput(g.drbg, length, additional)
<1>3. Good(g.drbg) /\ g.drbg.reseed_counter > 0
  BY <1>1 DEF Ran
<1>4. /\ Good(done.drbg) /\ done.repeats = FALSE
      /\ done.drbg.reseed_counter = g.drbg.reseed_counter + 1
  BY <1>3, CallIsFresh
<1>5. sb_hmac_drbg_generate_additional_vec_opt(g, length, additional, required) =
        [drbg |-> done.drbg, errors |-> g.errors, made |-> g.made + 1,
         repeats |-> g.repeats \/ done.repeats]
  BY <1>2 DEF sb_hmac_drbg_generate_additional_vec_opt
<1> DEFINE h == sb_hmac_drbg_generate_additional_vec_opt(g, length, additional, required)
           again == g.repeats \/ done.repeats
<1>6. g.made = n /\ g.errors = {} /\ again = FALSE
  BY <1>4 DEF Ran
<1> HIDE DEF done, h, again
<1>7. h = [drbg |-> done.drbg, errors |-> g.errors, made |-> g.made + 1, repeats |-> again]
  BY <1>5 DEF h, done, again
<1>8. h.drbg = done.drbg /\ h.errors = {} /\ h.made = n + 1 /\ h.repeats = FALSE
  BY <1>6, <1>7
<1>9. h.drbg.reseed_counter = d.reseed_counter + (n + 1)
  BY <1>1, <1>4, <1>8
<1>10. Ran(h, d, n + 1)
  BY <1>4, <1>8, <1>9 DEF Ran
<1> QED
  BY <1>10 DEF h

(* The calls of the interface, each within the limits of one request.      *)
LEMMA DummyRuns ==
  ASSUME NEW g, NEW d, NEW n \in Nat, Ran(g, d, n), Good(d),
         d.reseed_counter > 0, d.reseed_counter + n <= INTERVAL
  PROVE  Ran(Dummy(g), d, n + 1)
<1>1. ELEM \in Nat /\ ELEM <= MAX_BYTES /\ 1 <= MAX_ADDITIONAL
  BY DEF ELEM, DrbgAssumption
<1>2. 1 \in Nat /\ 1 > 0 /\ TRUE \in BOOLEAN
  OBVIOUS
<1>3. Ran(sb_hmac_drbg_generate_additional_vec_opt(g, ELEM, 1, TRUE), d, n + 1)
  BY <1>1, <1>2, CallRuns
<1> QED
  BY <1>3 DEF Dummy, sb_hmac_drbg_generate_additional_dummy

(* The same for a candidate drawn without additional input. *)
LEMMA PlainRuns ==
  ASSUME NEW g, NEW d, NEW n \in Nat, Ran(g, d, n), Good(d),
         d.reseed_counter > 0, d.reseed_counter + n <= INTERVAL
  PROVE  Ran(Plain(g), d, n + 1)
<1>1. ELEM \in Nat /\ ELEM <= MAX_BYTES /\ 0 <= MAX_ADDITIONAL
  BY DEF ELEM, DrbgAssumption
<1> QED
  BY <1>1, CallRuns DEF Plain, sb_hmac_drbg_generate

(* A DRBG that is seeded at all has one call counted: init.                *)
LEMMA SeedingIsFresh ==
  ASSUME NEW entropy, NEW nonce, NEW personalization
  PROVE  LET g == Seeded(entropy, nonce, personalization)
         IN  /\ Good(g.drbg) /\ g.made = 0 /\ g.repeats = FALSE
             /\ g.errors = {} => g.drbg.reseed_counter = 1
             /\ g.errors # {} => g.drbg.reseed_counter = 0
<1> DEFINE errors ==
             If(entropy < MIN_ENTROPY \/ nonce < MIN_NONCE, "INSUFFICIENT_ENTROPY") \union
             If(\/ entropy > MAX_ENTROPY \/ nonce > MAX_ENTROPY
                \/ personalization > MAX_PERSONALIZATION, "INPUT_TOO_LARGE")
           start == sb_hmac_drbg_update_vec(Zero, TRUE)
           next == [start EXCEPT !.reseed_counter = 1]
           d == IF errors # {} THEN Zero ELSE next
           g == Seeded(entropy, nonce, personalization)
<1>1. Zero \in State /\ Zero.K = 0 /\ Zero.V = 0 /\ Zero.reseed_counter = 0
  BY DEF Zero, State
<1>2. start \in State /\ start.K > 0 /\ start.V > start.K
  BY <1>1, UpdateGrows
<1>3. g = [Fresh(d) EXCEPT !.errors = errors]
  BY DEF Seeded
<1> HIDE DEF start
<1>4. Good(next) /\ next.reseed_counter = 1
  BY <1>2 DEF Good, State
<1> HIDE DEF next, errors
<1>5. Good(d) /\ d.reseed_counter = IF errors = {} THEN 1 ELSE 0
  <2>1. CASE errors = {}
    BY <1>4, <2>1
  <2>2. CASE errors # {}
    BY <1>1, <2>2 DEF Good
  <2> QED
    BY <2>1, <2>2
<1> HIDE DEF d, g
<1>6. g = [drbg |-> d, errors |-> errors, made |-> 0, repeats |-> FALSE]
  BY <1>3 DEF Fresh
<1> QED
  BY <1>5, <1>6 DEF g

(* The DRBG of RFC 6979 is seeded with a key and a digest.                 *)
LEMMA Rfc6979Seeded ==
  Ran(Seeded(ELEM, ELEM, 0), Seeded(ELEM, ELEM, 0).drbg, 0)
    /\ Seeded(ELEM, ELEM, 0).drbg.reseed_counter = 1
<1> DEFINE none == 0
           g == Seeded(ELEM, ELEM, none)
<1>1. /\ ~(ELEM < MIN_ENTROPY \/ ELEM < MIN_NONCE)
      /\ ~(ELEM > MAX_ENTROPY \/ ELEM > MAX_ENTROPY \/ 0 > MAX_PERSONALIZATION)
  BY DEF DrbgAssumption, SwAssumption, ELEM
<1>2. g.errors = {}
  BY <1>1 DEF Seeded, Fresh, If
<1> HIDE DEF none
<1>3. /\ Good(g.drbg) /\ g.made = 0 /\ g.repeats = FALSE
      /\ g.errors = {} => g.drbg.reseed_counter = 1
  BY SeedingIsFresh
<1> HIDE DEF g
<1>4. g.drbg.reseed_counter = g.drbg.reseed_counter + 0
  BY <1>2, <1>3
<1> QED
  BY <1>2, <1>3, <1>4 DEF Ran, g, none

(* The answer to a query counts the calls that are to follow:              *)
(* sb_hmac_drbg_reseed_required.                                           *)
LEMMA QueryCounts ==
  ASSUME NEW d, Good(d), NEW calls \in Nat
  PROVE  LET e == sb_hmac_drbg_reseed_required(d, calls)
         IN  /\ e = {} => d.reseed_counter > 0 /\ d.reseed_counter + calls <= INTERVAL + 1
             /\ "RESEED_REQUIRED" \in e => d.reseed_counter + calls > INTERVAL + 1
<1>1. d.reseed_counter \in Nat
  BY DEF Good, State
<1> DEFINE e == sb_hmac_drbg_reseed_required(d, calls)
           empty == d.reseed_counter = 0
           over == d.reseed_counter + calls > INTERVAL + 1
<1>2. "DRBG_UNINITIALIZED" \in e <=> empty
  BY DEF sb_hmac_drbg_reseed_required, If
<1>3. "RESEED_REQUIRED" \in e <=> over
  BY DEF sb_hmac_drbg_reseed_required, If
<1> HIDE DEF e
<1>4. e = {} => ~empty /\ ~over
  BY <1>2, <1>3
<1> QED
  BY <1>1, <1>3, <1>4 DEF e, DrbgAssumption

--------------------------------------------------------------------------------
(* What a use of the DRBG leaves.                                          *)

(* The fields of an answer. *)
LEMMA AnswerSays ==
  ASSUME NEW e, NEW calls, NEW made
  PROVE  LET a == Answer(e, calls, made)
         IN  /\ a.failed <=> e # {}
             /\ a.reseed <=> "RESEED_REQUIRED" \in e
             /\ a.calls = calls /\ a.made = made
<1> DEFINE failed == e # {}
           reseed == "RESEED_REQUIRED" \in e
           a == Answer(e, calls, made)
<1>1. a = [failed |-> failed, reseed |-> reseed, calls |-> calls, made |-> made]
  BY DEF Answer
<1>2. failed \in BOOLEAN /\ reseed \in BOOLEAN
  OBVIOUS
<1> HIDE DEF a, failed, reseed
<1>3. a.failed = failed /\ a.reseed = reseed /\ a.calls = calls /\ a.made = made
  BY <1>1
<1>4. (a.failed <=> failed) /\ (a.reseed <=> reseed)
  BY <1>2, <1>3
<1> QED
  BY <1>3, <1>4 DEF a, failed, reseed

(* A use that was asked about first, or was refused.                       *)
LEMMA UseKeeps ==
  ASSUME DrbgInv, NEW calls \in Nat, NEW n \in Nat, n <= calls,
         NEW early, NEW g, Ran(g, drbg, n), early # {} => n = 0,
         early = {} => drbg.reseed_counter > 0
                         /\ drbg.reseed_counter + calls <= INTERVAL + 1,
         "RESEED_REQUIRED" \in early => drbg.reseed_counter + calls > INTERVAL + 1,
         Use(calls, early, g)
  PROVE  DrbgInv' /\ Told'
<1>1. /\ drbg' = g.drbg /\ age' = age + n /\ seeded' = seeded
      /\ repeated' = FALSE
  BY DEF Use, Ran, DrbgInv
<1>2. answer' = Answer(early, calls, n)
  BY DEF Use, Ran
<1>3. /\ answer'.failed <=> early # {}
      /\ answer'.reseed <=> "RESEED_REQUIRED" \in early
      /\ answer'.calls = calls /\ answer'.made = n
  BY <1>2, AnswerSays
<1>4. Good(drbg') /\ drbg'.reseed_counter = drbg.reseed_counter + n
  BY <1>1 DEF Ran
<1>5. drbg.reseed_counter \in Nat /\ age \in Nat /\ INTERVAL \in Nat
  BY DEF DrbgInv, Good, State, DrbgAssumption
<1>6. age' \in Nat
  BY <1>1, <1>5
<1>7. CASE seeded
  <2>1. drbg.reseed_counter = age + 1 /\ age <= INTERVAL
    BY <1>7 DEF DrbgInv
  <2>2. drbg'.reseed_counter = age' + 1 /\ age' <= INTERVAL
    BY <1>1, <1>4, <1>5, <2>1
  <2>3. Told'
    BY <1>1, <1>3, <1>5, <2>1 DEF Told
  <2> QED
    BY <1>1, <1>4, <1>6, <1>7, <2>2, <2>3 DEF DrbgInv
<1>8. CASE ~seeded
  <2>1. drbg.reseed_counter = 0 /\ age = 0
    BY <1>8 DEF DrbgInv
  <2>2. early # {} /\ n = 0
    BY <2>1
  <2>3. drbg'.reseed_counter = 0 /\ age' = 0
    BY <1>1, <1>4, <2>1, <2>2
  <2>4. Told'
    BY <1>1, <1>3, <1>5, <2>1, <2>2 DEF Told
  <2> QED
    BY <1>1, <1>4, <1>6, <1>8, <2>3, <2>4 DEF DrbgInv
<1> QED
  BY <1>7, <1>8 DEF DrbgInv

(* A step that does not use the DRBG. *)
LEMMA LeaveKeeps ==
  ASSUME DrbgInv, LeaveDrbg
  PROVE  DrbgInv' /\ Told'
<1>1. /\ drbg' = drbg /\ seeded' = seeded /\ age' = age /\ repeated' = repeated
      /\ answer' = Answer({}, 0, 0)
  BY DEF LeaveDrbg, Quiet
<1>2. DrbgInv'
  BY <1>1 DEF DrbgInv, Good
<1>3. age \in Nat /\ age <= INTERVAL
  BY DEF DrbgInv, DrbgAssumption
<1>4. /\ ~answer'.failed /\ ~answer'.reseed
      /\ answer'.calls = 0 /\ answer'.made = 0
  BY <1>1, AnswerSays
<1> QED
  BY <1>1, <1>2, <1>3, <1>4 DEF Told

(* sb_hmac_drbg_init *)
LEMMA InitKeeps ==
  ASSUME DrbgInv, NEW e, NEW n, NEW p, sb_hmac_drbg_init(e, n, p)
  PROVE  DrbgInv' /\ Told'
<1> DEFINE g == Seeded(e, n, p)
<1>1. /\ Good(g.drbg)
      /\ g.errors = {} => g.drbg.reseed_counter = 1
      /\ g.errors # {} => g.drbg.reseed_counter = 0
  BY SeedingIsFresh, ZenonT(60)
<1>2. /\ drbg' = g.drbg /\ answer' = Answer(g.errors, 0, 0)
      /\ seeded' = (g.errors = {}) /\ age' = 0 /\ repeated' = FALSE
  BY DEF sb_hmac_drbg_init
<1>3. "RESEED_REQUIRED" \notin g.errors
  BY DEF Seeded, Fresh, If
<1> HIDE DEF g
<1>4. ~answer'.reseed /\ answer'.calls = 0 /\ answer'.made = 0
  BY <1>2, <1>3, AnswerSays
<1>5. INTERVAL \in Nat
  BY DEF DrbgAssumption
<1>6. Told'
  BY <1>2, <1>3, <1>4, <1>5 DEF Told
<1>7. CASE g.errors = {}
  <2>1. seeded' = TRUE
    BY <1>2, <1>7
  <2> QED
    BY <1>1, <1>2, <1>5, <1>6, <1>7, <2>1 DEF DrbgInv
<1>8. CASE g.errors # {}
  <2>1. seeded' = FALSE
    BY <1>2, <1>8
  <2> QED
    BY <1>1, <1>2, <1>5, <1>6, <1>8, <2>1 DEF DrbgInv
<1> QED
  BY <1>7, <1>8

(* sb_hmac_drbg_reseed *)
LEMMA ReseedKeeps ==
  ASSUME DrbgInv, NEW e, NEW a, sb_hmac_drbg_reseed(e, a)
  PROVE  DrbgInv' /\ Told'
<1> DEFINE errors ==
             If(drbg.reseed_counter = 0, "DRBG_UNINITIALIZED") \union
             If(e < MIN_ENTROPY, "INSUFFICIENT_ENTROPY") \union
             If(e > MAX_ENTROPY \/ a > MAX_ADDITIONAL, "INPUT_TOO_LARGE")
           u == sb_hmac_drbg_update_vec(drbg, TRUE)
           next == [u EXCEPT !.reseed_counter = 1]
<1>1. /\ drbg' = IF errors # {} THEN drbg ELSE next
      /\ answer' = Answer(errors, 0, 0)
      /\ age' = IF errors # {} THEN age ELSE 0
      /\ seeded' = seeded /\ repeated' = repeated
  BY DEF sb_hmac_drbg_reseed
<1>2. "RESEED_REQUIRED" \notin errors /\ (errors = {} => drbg.reseed_counter # 0)
  BY DEF If
<1>3. drbg \in State /\ drbg.reseed_counter \in Nat
  BY DEF DrbgInv, Good, State
<1>4. /\ u \in State /\ u.reseed_counter = drbg.reseed_counter
      /\ u.K > drbg.K /\ u.V > u.K
  BY <1>3, UpdateGrows
<1> HIDE DEF u, errors
<1>5. next \in State /\ next.reseed_counter = 1 /\ next.K = u.K /\ next.V = u.V
  BY <1>4 DEF State
<1> HIDE DEF next
<1>6. ~answer'.reseed /\ answer'.calls = 0 /\ answer'.made = 0
  BY <1>1, <1>2, AnswerSays
<1>7. INTERVAL \in Nat /\ age \in Nat /\ age <= INTERVAL
  BY DEF DrbgAssumption, DrbgInv
<1>8. CASE errors # {}
  <2>1. DrbgInv'
    BY <1>1, <1>8 DEF DrbgInv, Good
  <2>2. Told'
    BY <1>1, <1>2, <1>6, <1>7, <1>8 DEF Told
  <2> QED
    BY <2>1, <2>2
<1>9. CASE errors = {}
  <2>1. seeded /\ drbg.K > 0
    BY <1>2, <1>3, <1>9 DEF DrbgInv, Good
  <2>2. Good(next)
    BY <1>3, <1>4, <1>5, <2>1 DEF Good, State
  <2>3. DrbgInv'
    BY <1>1, <1>5, <1>7, <1>9, <2>1, <2>2 DEF DrbgInv
  <2>4. Told'
    BY <1>1, <1>6, <1>7, <1>9 DEF Told
  <2> QED
    BY <2>3, <2>4
<1> QED
  BY <1>8, <1>9

(* sb_hmac_drbg_reseed_required *)
LEMMA AskKeeps ==
  ASSUME DrbgInv, NEW count \in Nat, Query(count)
  PROVE  DrbgInv' /\ Told'
<1> DEFINE e == sb_hmac_drbg_reseed_required(drbg, count)
<1>1. Good(drbg) /\ Ran(Fresh(drbg), drbg, 0)
  BY FreshRan DEF DrbgInv
<1>2. /\ e = {} => drbg.reseed_counter > 0 /\ drbg.reseed_counter + count <= INTERVAL + 1
      /\ "RESEED_REQUIRED" \in e => drbg.reseed_counter + count > INTERVAL + 1
  BY <1>1, QueryCounts
<1>3. Use(count, e, Fresh(drbg))
  <2>1. /\ answer' = Answer(e, count, 0)
        /\ drbg' = drbg /\ seeded' = seeded /\ age' = age /\ repeated' = repeated
    BY DEF Query
  <2> HIDE DEF e
  <2>2. age + 0 = age /\ repeated = FALSE
    BY DEF DrbgInv
  <2> QED
    BY <2>1, <2>2 DEF Use, Fresh
<1> HIDE DEF e
<1> QED
  BY <1>1, <1>2, <1>3, UseKeeps

(* One call made by the caller: sb_hmac_drbg_generate_additional_vec_opt.  *)
LEMMA GenerateKeeps ==
  ASSUME DrbgInv, NEW length \in Nat, NEW additional \in Nat,
         NEW required \in BOOLEAN,
         Use(1, {}, sb_hmac_drbg_generate_additional_vec_opt(Fresh(drbg), length,
                                                             additional, required))
  PROVE  DrbgInv' /\ Told'
<1> DEFINE errors == refused(drbg, length, additional, required)
           g == sb_hmac_drbg_generate_additional_vec_opt(Fresh(drbg), length, additional, required)
<1>1. Good(drbg) /\ Ran(Fresh(drbg), drbg, 0) /\ Fresh(drbg).drbg = drbg
  BY FreshRan DEF DrbgInv, Fresh
<1>2. drbg.reseed_counter \in Nat /\ INTERVAL \in Nat /\ MAX_BYTES \in Nat
        /\ MAX_ADDITIONAL \in Nat
  BY <1>1 DEF Good, State, DrbgAssumption
<1>3. CASE errors = {}
  <2>1. /\ drbg.reseed_counter > 0 /\ drbg.reseed_counter <= INTERVAL
        /\ length <= MAX_BYTES /\ additional <= MAX_ADDITIONAL
        /\ required => additional > 0
    BY <1>2, <1>3 DEF refused, If
  <2>2. Ran(g, drbg, 0 + 1)
    BY <1>1, <1>2, <2>1, CallRuns
  <2> HIDE DEF g
  <2>3. Ran(g, drbg, 1)
    BY <2>2
  <2>4. drbg.reseed_counter + 1 <= INTERVAL + 1
    BY <1>2, <2>1
  <2> QED
    BY <2>1, <2>3, <2>4, UseKeeps DEF g
<1>4. CASE errors # {}
  <2>1. g = [Fresh(drbg) EXCEPT !.errors = Fresh(drbg).errors \union errors]
    BY <1>1, <1>4 DEF sb_hmac_drbg_generate_additional_vec_opt
  <2>2. "RESEED_REQUIRED" \in errors => drbg.reseed_counter + 1 > INTERVAL + 1
    BY <1>2 DEF refused, If
  <2> HIDE DEF g, errors
  <2>3. g = [drbg |-> drbg, errors |-> errors, made |-> 0, repeats |-> FALSE]
    BY <2>1 DEF Fresh
  <2>4. Use(1, {}, g)
    BY DEF g
  <2>5. Use(1, errors, Fresh(drbg))
    <3>1. g.drbg = drbg /\ g.errors = errors /\ g.made = 0 /\ g.repeats = FALSE
      BY <2>3
    <3>2. {} \union g.errors = errors \union Fresh(drbg).errors
      BY <3>1 DEF Fresh
    <3>3. /\ Fresh(drbg).drbg = g.drbg /\ Fresh(drbg).made = g.made
          /\ Fresh(drbg).repeats = g.repeats
      BY <3>1 DEF Fresh
    <3> QED
      BY <2>4, <3>2, <3>3 DEF Use
  <2> QED
    BY <1>1, <1>4, <2>2, <2>5, UseKeeps
<1> QED
  BY <1>3, <1>4

(* Each of the DRBG's own operations. *)
LEMMA DrbgStepKeeps ==
  ASSUME DrbgInv, DrbgNext
  PROVE  DrbgInv' /\ Told'
<1>1. Lengths \subseteq Nat /\ Counts \subseteq Nat
  BY DEF DrbgAssumption
<1>2. CASE \E e, n, p \in Lengths : sb_hmac_drbg_init(e, n, p)
  BY <1>2, InitKeeps
<1>3. CASE \E e, a \in Lengths : sb_hmac_drbg_reseed(e, a)
  BY <1>3, ReseedKeeps
<1>4. CASE \E count \in Counts : Query(count)
  BY <1>1, <1>4, AskKeeps
<1>5. CASE \E n \in Lengths : Generate(n)
  BY <1>1, <1>5, GenerateKeeps DEF Generate, sb_hmac_drbg_generate
<1>6. CASE \E n, a \in Lengths : GenerateAdditional(n, a)
  BY <1>1, <1>6, GenerateKeeps DEF GenerateAdditional, sb_hmac_drbg_generate_additional_vec
<1> QED
  BY <1>2, <1>3, <1>4, <1>5, <1>6 DEF DrbgNext


--------------------------------------------------------------------------------
(* What an operation of the interface leaves of the DRBG.                  *)

(* What an operation that is given a DRBG is told at its beginning.        *)
LEMMA EarlyTells ==
  ASSUME DrbgInv, NEW curve, NEW calls \in Nat, NEW e, e = Early(curve, TRUE, calls)
  PROVE  /\ e = {} => drbg.reseed_counter > 0 /\ drbg.reseed_counter + calls <= INTERVAL + 1
         /\ "RESEED_REQUIRED" \in e => drbg.reseed_counter + calls > INTERVAL + 1
<1> DEFINE told == sb_hmac_drbg_reseed_required(drbg, calls)
           unknown == sb_sw_curve_from_id(curve)
<1>1. /\ told = {} => drbg.reseed_counter > 0 /\ drbg.reseed_counter + calls <= INTERVAL + 1
      /\ "RESEED_REQUIRED" \in told => drbg.reseed_counter + calls > INTERVAL + 1
  BY QueryCounts DEF DrbgInv
<1>2. "RESEED_REQUIRED" \notin unknown
  BY DEF sb_sw_curve_from_id, If
<1>3. e = unknown \union told
  BY DEF Early
<1> HIDE DEF told, unknown
<1>4. e = {} => told = {}
  BY <1>3
<1>5. "RESEED_REQUIRED" \in e => "RESEED_REQUIRED" \in told
  BY <1>2, <1>3
<1> QED
  BY <1>1, <1>4, <1>5

(* An operation that makes no more calls than it asked for.                *)
LEMMA AskedKeeps ==
  ASSUME DrbgInv, NEW curve, NEW calls \in Nat, NEW e, e = Early(curve, TRUE, calls),
         NEW n \in Nat, n <= calls, e # {} => n = 0,
         NEW g, Ran(g, drbg, n), Use(calls, e, g)
  PROVE  DrbgInv' /\ Told'
<1>1. /\ e = {} => drbg.reseed_counter > 0 /\ drbg.reseed_counter + calls <= INTERVAL + 1
      /\ "RESEED_REQUIRED" \in e => drbg.reseed_counter + calls > INTERVAL + 1
  BY EarlyTells
<1> QED
  BY <1>1, UseKeeps

(* The one call for Z: sb_sw_generate_z.                                   *)
LEMMA ZKeeps ==
  ASSUME DrbgInv, NEW curve, NEW provided \in BOOLEAN, NEW additional \in Nat,
         additional > 0, additional <= 256
  PROVE  LET e == Early(curve, provided, 1)
             g == sb_sw_generate_z(provided, e, additional)
         IN  g.errors = {} /\ (Consult(provided, 1, e, g) => DrbgInv' /\ Told')
<1> DEFINE e == Early(curve, provided, 1)
           g == sb_sw_generate_z(provided, e, additional)
           length == CANDIDATES * ELEM
<1>1. Good(drbg) /\ Ran(Fresh(drbg), drbg, 0)
  BY FreshRan DEF DrbgInv
<1>2. length \in Nat /\ length <= MAX_BYTES /\ additional <= MAX_ADDITIONAL
  BY DEF CANDIDATES, ELEM, DrbgAssumption
<1>3. drbg.reseed_counter \in Nat /\ INTERVAL \in Nat
  BY <1>1 DEF Good, State, DrbgAssumption
<1> DEFINE one == 1
<1>0. one = 1 /\ one \in Nat /\ 0 \in Nat /\ 0 <= one /\ one <= one
  OBVIOUS
<1>4. provided => e = Early(curve, TRUE, one)
  BY DEF Early
<1>5. CASE provided /\ e = {}
  <2>1. g = sb_hmac_drbg_generate_additional_vec_opt(Fresh(drbg), length, additional, TRUE)
    BY <1>5 DEF sb_sw_generate_z, sb_hmac_drbg_generate_additional_vec
  <2>2. Consult(provided, 1, e, g) => Use(one, e, g)
    BY <1>5 DEF Consult
  <2> HIDE DEF length, g, e, one
  <2>3. drbg.reseed_counter > 0 /\ drbg.reseed_counter + 1 <= INTERVAL + 1
    BY <1>0, <1>4, <1>5, EarlyTells
  <2>4. drbg.reseed_counter + 0 <= INTERVAL /\ 0 \in Nat /\ TRUE \in BOOLEAN
    BY <1>3, <2>3
  <2>5. Ran(g, drbg, 0 + 1)
    BY <1>1, <1>2, <2>1, <2>3, <2>4, CallRuns
  <2>6. Ran(g, drbg, one) /\ g.errors = {}
    BY <1>0, <2>5 DEF Ran
  <2>7. ASSUME Use(one, e, g) PROVE DrbgInv' /\ Told'
    BY <1>0, <1>4, <1>5, <2>6, <2>7, AskedKeeps
  <2> QED
    BY <2>2, <2>6, <2>7 DEF g, e
<1>6. CASE ~(provided /\ e = {})
  <2>1. g = Fresh(drbg)
    BY <1>6 DEF sb_sw_generate_z
  <2>2. Consult(provided, 1, e, g) => IF provided THEN Use(one, e, g) ELSE LeaveDrbg
    BY DEF Consult
  <2> HIDE DEF g, e, one
  <2>3. Ran(g, drbg, 0) /\ g.errors = {}
    BY <1>1, <2>1 DEF Ran
  <2>4. CASE provided
    <3>1. ASSUME Use(one, e, g) PROVE DrbgInv' /\ Told'
      BY <1>0, <1>4, <1>6, <2>3, <2>4, <3>1, AskedKeeps
    <3> QED
      BY <2>2, <2>3, <2>4, <3>1 DEF g, e
  <2>5. CASE ~provided
    BY <2>2, <2>3, <2>5, LeaveKeeps DEF g, e
  <2> QED
    BY <2>4, <2>5
<1> QED
  BY <1>5, <1>6

(* The four calls for a private key: sb_sw_generate_private_key.           *)
LEMMA PrivateKeyKeeps ==
  ASSUME DrbgInv, NEW curve
  PROVE  LET e == Early(curve, TRUE, CANDIDATES)
             g == IF e = {} THEN Dummy(Dummy(Dummy(Dummy(Fresh(drbg))))) ELSE Fresh(drbg)
         IN  g.errors = {} /\ (Consult(TRUE, CANDIDATES, e, g) => DrbgInv' /\ Told')
<1> DEFINE e == Early(curve, TRUE, CANDIDATES)
           first == Dummy(Fresh(drbg))
           second == Dummy(first)
           third == Dummy(second)
           g == IF e = {} THEN Dummy(third) ELSE Fresh(drbg)
<1>1. Good(drbg) /\ Ran(Fresh(drbg), drbg, 0)
  BY FreshRan DEF DrbgInv
<1>2. CANDIDATES \in Nat /\ CANDIDATES = 4 /\ e = Early(curve, TRUE, CANDIDATES)
  BY DEF CANDIDATES
<1>3. drbg.reseed_counter \in Nat /\ INTERVAL \in Nat
  BY <1>1 DEF Good, State, DrbgAssumption
<1>4. Consult(TRUE, CANDIDATES, e, g) => Use(CANDIDATES, e, g)
  BY DEF Consult
<1> HIDE DEF e
<1>5. CASE e = {}
  <2>1. drbg.reseed_counter > 0 /\ drbg.reseed_counter + CANDIDATES <= INTERVAL + 1
    BY <1>2, <1>5, EarlyTells
  <2>2. drbg.reseed_counter + 3 <= INTERVAL
    BY <1>2, <1>3, <2>1
  <2>3. Ran(first, drbg, 0 + 1)
    BY <1>1, <1>3, <2>1, <2>2, DummyRuns
  <2> HIDE DEF first
  <2>4. Ran(second, drbg, 1 + 1)
    BY <1>1, <1>3, <2>1, <2>2, <2>3, DummyRuns
  <2> HIDE DEF second
  <2>5. Ran(third, drbg, 2 + 1)
    BY <1>1, <1>3, <2>1, <2>2, <2>4, DummyRuns
  <2> HIDE DEF third
  <2>6. Ran(Dummy(third), drbg, 3 + 1)
    BY <1>1, <1>3, <2>1, <2>2, <2>5, DummyRuns
  <2>7. Ran(g, drbg, 4)
    BY <1>5, <2>6
  <2> HIDE DEF g
  <2>8. g.errors = {}
    BY <2>7 DEF Ran
  <2>9. ASSUME Use(CANDIDATES, e, g) PROVE DrbgInv' /\ Told'
    <3>1. 4 \in Nat /\ 4 <= CANDIDATES
      BY <1>2
    <3> QED
      BY <1>2, <1>5, <2>7, <2>9, <3>1, AskedKeeps
  <2> QED
    BY <1>4, <2>8, <2>9 DEF g, third, second, first, e
<1>6. CASE e # {}
  <2>1. g = Fresh(drbg)
    BY <1>6
  <2> HIDE DEF g
  <2>2. Ran(g, drbg, 0) /\ g.errors = {}
    BY <1>1, <2>1 DEF Ran
  <2>3. ASSUME Use(CANDIDATES, e, g) PROVE DrbgInv' /\ Told'
    <3>1. 0 \in Nat /\ 0 <= CANDIDATES
      BY <1>2
    <3> QED
      BY <1>2, <1>6, <2>2, <2>3, <3>1, AskedKeeps
  <2> QED
    BY <1>4, <2>2, <2>3 DEF g, third, second, first, e
<1> QED
  BY <1>5, <1>6

(* The calls for the secret and the one for Z, of the DRBG provided or of  *)
(* the one of RFC 6979.                                                    *)
LEMMA SecretRuns ==
  ASSUME NEW d, Good(d), d.reseed_counter > 0, d.reseed_counter + 4 <= INTERVAL,
         NEW secret, Ran(secret, d, 4)
  PROVE  Ran(sb_hmac_drbg_generate_additional_dummy(secret, 4 * ELEM), d, 5)
<1> DEFINE length == 4 * ELEM
<1>1. length \in Nat /\ length <= MAX_BYTES /\ 1 <= MAX_ADDITIONAL
  BY DEF ELEM, DrbgAssumption
<1>2. 1 \in Nat /\ 1 > 0 /\ TRUE \in BOOLEAN
  OBVIOUS
<1>3. sb_hmac_drbg_generate_additional_dummy(secret, length) =
        sb_hmac_drbg_generate_additional_vec_opt(secret, length, 1, TRUE)
  BY DEF sb_hmac_drbg_generate_additional_dummy
<1> HIDE DEF length
<1>4. Ran(sb_hmac_drbg_generate_additional_vec_opt(secret, length, 1, TRUE), d, 4 + 1)
  BY <1>1, <1>2, CallRuns
<1>5. 4 + 1 = 5
  OBVIOUS
<1>6. Ran(sb_hmac_drbg_generate_additional_dummy(secret, length), d, 5)
  BY <1>3, <1>4, <1>5
<1> QED
  BY <1>6 DEF length

(* A secret number from the caller's DRBG is four of its calls. *)
LEMMA SecretFromProvided ==
  ASSUME NEW d, d = drbg, Good(d), d.reseed_counter > 0, d.reseed_counter + 4 <= INTERVAL
  PROVE  Ran(SecretFrom(TRUE), d, 4)
<1> DEFINE vec == sb_hmac_drbg_generate_additional_vec(Fresh(drbg), ELEM, 2 * ELEM)
           second == Dummy(vec)
           third == Dummy(second)
           length == ELEM
           additional == 2 * ELEM
<1>1. Ran(Fresh(drbg), d, 0)
  BY FreshRan
<1>2. /\ length \in Nat /\ length <= MAX_BYTES
      /\ additional \in Nat /\ additional > 0 /\ additional <= MAX_ADDITIONAL
  BY DEF ELEM, DrbgAssumption
<1>3. d.reseed_counter \in Nat /\ INTERVAL \in Nat
  BY DEF Good, State, DrbgAssumption
<1>4. vec = sb_hmac_drbg_generate_additional_vec_opt(Fresh(drbg), length, additional, TRUE)
  BY DEF sb_hmac_drbg_generate_additional_vec
<1>5. SecretFrom(TRUE) = Dummy(third)
  BY DEF SecretFrom
<1> HIDE DEF vec, length, additional
<1>6. d.reseed_counter + 0 <= INTERVAL /\ 0 \in Nat /\ TRUE \in BOOLEAN
  BY <1>3
<1>7. Ran(vec, d, 0 + 1)
  BY <1>1, <1>2, <1>4, <1>6, CallRuns
<1>8. Ran(second, d, 1 + 1)
  BY <1>3, <1>7, DummyRuns
<1> HIDE DEF second
<1>9. Ran(third, d, 2 + 1)
  BY <1>3, <1>8, DummyRuns
<1> HIDE DEF third
<1>10. Ran(Dummy(third), d, 3 + 1)
  BY <1>3, <1>9, DummyRuns
<1>11. 3 + 1 = 4
  OBVIOUS
<1> QED
  BY <1>5, <1>10, <1>11

(* A secret number after RFC 6979 is four calls of a DRBG of its own. *)
LEMMA SecretFromKey ==
  ASSUME NEW d, d = Seeded(ELEM, ELEM, 0).drbg
  PROVE  /\ Ran(SecretFrom(FALSE), d, 4)
         /\ Good(d) /\ d.reseed_counter > 0 /\ d.reseed_counter + 4 <= INTERVAL
<1> DEFINE g == Seeded(ELEM, ELEM, 0)
           first == Plain(g)
           second == Plain(first)
           third == Plain(second)
<1>1. Ran(g, d, 0) /\ d.reseed_counter = 1
  BY Rfc6979Seeded
<1>2. SecretFrom(FALSE) = Plain(third)
  BY DEF SecretFrom
<1> HIDE DEF g
<1>3. Good(d)
  BY <1>1 DEF Ran, g
<1>4. INTERVAL \in Nat /\ d.reseed_counter > 0 /\ d.reseed_counter + 4 <= INTERVAL
  BY <1>1 DEF DrbgAssumption
<1>5. Ran(first, d, 0 + 1)
  BY <1>1, <1>3, <1>4, PlainRuns
<1> HIDE DEF first
<1>6. Ran(second, d, 1 + 1)
  BY <1>1, <1>3, <1>4, <1>5, PlainRuns
<1> HIDE DEF second
<1>7. Ran(third, d, 2 + 1)
  BY <1>1, <1>3, <1>4, <1>6, PlainRuns
<1> HIDE DEF third
<1>8. Ran(Plain(third), d, 3 + 1)
  BY <1>1, <1>3, <1>4, <1>7, PlainRuns
<1>9. 3 + 1 = 4
  OBVIOUS
<1> QED
  BY <1>2, <1>3, <1>4, <1>8, <1>9

(* sb_sw_sign_message_digest_start *)
SignDrawn(provided, early, noSecret) ==
  IF early # {} THEN Fresh(drbg)
  ELSE IF noSecret THEN SecretFrom(provided)
  ELSE sb_hmac_drbg_generate_additional_dummy(SecretFrom(provided), 4 * ELEM)

(* The requests of a signature are within what reseed_required was asked. *)
LEMMA SignKeeps ==
  ASSUME DrbgInv, NEW curve, NEW provided \in BOOLEAN, NEW noSecret
  PROVE  LET e == Early(curve, provided, SignCalls)
             g == SignDrawn(provided, e, noSecret)
         IN  /\ g.errors = {}
             /\ e = {} => SecretFrom(provided).errors = {}
                            /\ sb_hmac_drbg_generate_additional_dummy(SecretFrom(provided),
                                                                      4 * ELEM).errors = {}
             /\ Consult(provided, SignCalls, e, g) => DrbgInv' /\ Told'
<1> DEFINE e == Early(curve, provided, SignCalls)
           secret == SecretFrom(provided)
           z == sb_hmac_drbg_generate_additional_dummy(secret, 4 * ELEM)
           g == SignDrawn(provided, e, noSecret)
<1>1. Good(drbg) /\ Ran(Fresh(drbg), drbg, 0)
  BY FreshRan DEF DrbgInv
<1>2. SignCalls = 5
  BY DEF SignCalls, CANDIDATES
<1>3. drbg.reseed_counter \in Nat /\ INTERVAL \in Nat
  BY <1>1 DEF Good, State, DrbgAssumption
<1>4. g = IF e # {} THEN Fresh(drbg) ELSE IF noSecret THEN secret ELSE z
  BY DEF SignDrawn
<1>5. Consult(provided, SignCalls, e, g) =>
        IF provided THEN Use(SignCalls, e, g) ELSE LeaveDrbg
  BY DEF Consult
<1>6. provided => e = Early(curve, TRUE, SignCalls) /\ secret = SecretFrom(TRUE)
  BY DEF Early
<1>7. ~provided => secret = SecretFrom(FALSE)
  OBVIOUS
<1> DEFINE asked == SignCalls
<1> HIDE DEF asked, e, g
<1>8. asked = 5 /\ asked \in Nat /\ 0 \in Nat /\ 4 \in Nat /\ 5 \in Nat
        /\ 0 <= asked /\ 4 <= asked /\ 5 <= asked
  BY <1>2 DEF asked
<1>9. CASE provided
  <2>1. e = Early(curve, TRUE, asked)
    BY <1>6, <1>9 DEF asked
  <2>2. CASE e = {}
    <3>1. drbg.reseed_counter > 0 /\ drbg.reseed_counter + asked <= INTERVAL + 1
      <4>1. asked \in Nat
        BY <1>8
      <4> QED
        BY <2>1, <2>2, <4>1, EarlyTells
    <3>2. drbg.reseed_counter > 0 /\ drbg.reseed_counter + 4 <= INTERVAL
      BY <1>3, <1>8, <3>1
    <3>3. Ran(secret, drbg, 4)
      BY <1>1, <1>6, <1>9, <3>2, SecretFromProvided
    <3> HIDE DEF secret
    <3>4. Ran(z, drbg, 5)
      BY <1>1, <3>2, <3>3, SecretRuns
    <3> HIDE DEF z
    <3>5. Ran(g, drbg, 4) \/ Ran(g, drbg, 5)
      BY <1>4, <2>2, <3>3, <3>4
    <3>6. g.errors = {} /\ secret.errors = {} /\ z.errors = {}
      BY <3>3, <3>4, <3>5 DEF Ran
    <3>7. ASSUME Use(asked, e, g) PROVE DrbgInv' /\ Told'
      <4>1. ASSUME NEW n \in Nat, n <= asked, Ran(g, drbg, n)
            PROVE  DrbgInv' /\ Told'
        <5>1. asked \in Nat /\ (e # {} => n = 0)
          BY <1>8, <2>2
        <5> QED
          BY <2>1, <3>7, <4>1, <5>1, AskedKeeps, ZenonT(60)
      <4>2. CASE Ran(g, drbg, 4)
        BY <1>8, <4>1, <4>2
      <4>3. CASE Ran(g, drbg, 5)
        BY <1>8, <4>1, <4>3
      <4> QED
        BY <3>5, <4>2, <4>3
    <3> QED
      BY <1>5, <1>9, <3>6, <3>7 DEF asked, e, g, secret, z
  <2>3. CASE e # {}
    <3>1. g = Fresh(drbg)
      BY <1>4, <2>3
    <3>2. Ran(g, drbg, 0) /\ g.errors = {}
      BY <1>1, <3>1 DEF Ran
    <3>3. ASSUME Use(asked, e, g) PROVE DrbgInv' /\ Told'
      BY <1>8, <2>1, <2>3, <3>2, <3>3, AskedKeeps
    <3> QED
      BY <1>5, <1>9, <2>3, <3>2, <3>3 DEF asked, e, g
  <2> QED
    BY <2>2, <2>3
<1>10. CASE ~provided
  <2> DEFINE d == Seeded(ELEM, ELEM, 0).drbg
  <2>1. /\ Ran(SecretFrom(FALSE), d, 4)
        /\ Good(d) /\ d.reseed_counter > 0 /\ d.reseed_counter + 4 <= INTERVAL
    BY SecretFromKey
  <2> HIDE DEF d
  <2>2. Ran(secret, d, 4)
    BY <1>7, <1>10, <2>1
  <2> HIDE DEF secret
  <2>3. Ran(z, d, 5)
    BY <2>1, <2>2, SecretRuns
  <2> HIDE DEF z
  <2>4. secret.errors = {} /\ z.errors = {} /\ Fresh(drbg).errors = {}
    BY <1>1, <2>2, <2>3 DEF Ran
  <2>5. g.errors = {}
    BY <1>4, <2>4
  <2>6. LeaveDrbg => DrbgInv' /\ Told'
    BY LeaveKeeps
  <2> QED
    BY <1>5, <1>10, <2>4, <2>5, <2>6 DEF e, g, secret, z
<1> QED
  BY <1>9, <1>10

--------------------------------------------------------------------------------
(* The context.                                                            *)

Products == {"COMPUTE_PUBLIC_KEY", "SHARED_SECRET", "POINT_MULTIPLY"}

Contexts ==
  [operation : Operations, curve : Curves, stage : 0 .. 4, i : Int, res : BOOLEAN,
   holds : {"nothing", "product", "signature"} \union Signatures]

(* The context c is that of the operation o, as far as its stage says.     *)
Sound(c, o) ==
  /\ c \in Contexts /\ o = [operation |-> c.operation, holds |-> o.holds]
  /\ c.operation \in Products =>
       o.holds = "product" /\ (c.stage = MultDone => c.holds = "product")
  /\ c.operation = "SIGN_MESSAGE_DIGEST" =>
       o.holds = "signature" /\ (c.stage = SignDone => c.holds = "signature")
  /\ c.operation = "VERIFY_SIGNATURE" =>
       o.holds = c.holds /\ (c.stage = VerifyDone /\ c.res => c.holds = "genuine")

ContextInv ==
  /\ ctx = Null \/ (Sound(ctx, open) /\ output.failed = FALSE /\ output.wrote = Nothing)
  /\ output.wrote = Nothing \/ output.wrote.operation = "NONE"
       \/ (output.wrote = open /\ output.wrote.holds \in {"product", "signature", "genuine"})
  /\ output.asserts = TRUE /\ output.failed \in BOOLEAN

Outcome(operation) ==
  ContextInv' /\ (output'.failed = FALSE => ctx'.operation = operation)

(* A context that is in use has an operation. *)
LEMMA SoundIsNotNull ==
  ASSUME NEW c, NEW o, Sound(c, o)
  PROVE  c # Null /\ c.operation \in Operations /\ o.operation = c.operation
BY DEF Sound, Contexts, Null, Operations

(* Two fields of a context that change together.                           *)
WithIndex(c, i, stage) == [c EXCEPT !.i = i, !.stage = stage]
WithValue(c, stage, holds) == [c EXCEPT !.stage = stage, !.holds = holds]
WithResult(c, stage, res) == [c EXCEPT !.stage = stage, !.res = res]

(* c in another stage. *)
At(d, c, stage, holds, res) ==
  /\ d \in Contexts /\ d.operation = c.operation
  /\ d.stage = stage /\ d.holds = holds /\ d.res = res

(* The two fields of WithIndex. *)
LEMMA Indexed ==
  ASSUME NEW c \in Contexts, NEW n \in Int, NEW s \in 0 .. 4
  PROVE  At(WithIndex(c, n, s), c, s, c.holds, c.res)
<1> DEFINE first == [c EXCEPT !.i = n]
           d == WithIndex(c, n, s)
<1>1. d = [first EXCEPT !.stage = s]
  BY DEF WithIndex
<1>2. /\ first \in Contexts /\ first.operation = c.operation
      /\ first.stage = c.stage /\ first.holds = c.holds /\ first.res = c.res
  BY DEF Contexts
<1> HIDE DEF first, d
<1>3. d \in Contexts /\ d.operation = c.operation
  BY <1>1, <1>2 DEF Contexts
<1>4. d.stage = s /\ d.holds = c.holds /\ d.res = c.res
  BY <1>1, <1>2 DEF Contexts
<1> QED
  BY <1>3, <1>4 DEF At, d

(* The two fields of WithValue. *)
LEMMA Computed ==
  ASSUME NEW c \in Contexts, NEW s \in 0 .. 4, NEW v \in {"product", "signature"}
  PROVE  At(WithValue(c, s, v), c, s, v, c.res)
<1> DEFINE first == [c EXCEPT !.stage = s]
           d == WithValue(c, s, v)
<1>1. d = [first EXCEPT !.holds = v]
  BY DEF WithValue
<1>2. /\ first \in Contexts /\ first.operation = c.operation
      /\ first.stage = s /\ first.holds = c.holds /\ first.res = c.res
  BY DEF Contexts
<1> HIDE DEF first, d
<1>3. d \in Contexts /\ d.operation = c.operation
  BY <1>1, <1>2 DEF Contexts
<1>4. d.stage = s /\ d.holds = v /\ d.res = c.res
  BY <1>1, <1>2 DEF Contexts
<1> QED
  BY <1>3, <1>4 DEF At, d

(* The two fields of WithResult. *)
LEMMA Judged ==
  ASSUME NEW c \in Contexts, NEW s \in 0 .. 4, NEW r \in BOOLEAN
  PROVE  At(WithResult(c, s, r), c, s, c.holds, r)
<1> DEFINE first == [c EXCEPT !.stage = s]
           d == WithResult(c, s, r)
<1>1. d = [first EXCEPT !.res = r]
  BY DEF WithResult
<1>2. /\ first \in Contexts /\ first.operation = c.operation
      /\ first.stage = s /\ first.holds = c.holds /\ first.res = c.res
  BY DEF Contexts
<1> HIDE DEF first, d
<1>3. d \in Contexts /\ d.operation = c.operation
  BY <1>1, <1>2 DEF Contexts
<1>4. d.stage = s /\ d.holds = c.holds /\ d.res = r
  BY <1>1, <1>2 DEF Contexts
<1> QED
  BY <1>3, <1>4 DEF At, d

(* sb_sw_point_mult_continue *)
LEMMA MultContinues ==
  ASSUME NEW c, NEW o, Sound(c, o), c.operation \in Products
  PROVE  LET d == sb_sw_point_mult_continue(c)
         IN  Sound(d, o) /\ d.operation = c.operation
<1> DEFINE i == IF c.i > ITERATIONS THEN c.i - ITERATIONS ELSE 0
           stage == IF i = 0 THEN InvZ ELSE Ladder
           d == sb_sw_point_mult_continue(c)
<1>1. c \in Contexts /\ c.i \in Int /\ ITERATIONS \in Int
  BY DEF Sound, Contexts, SwAssumption
<1>2. i \in Int /\ stage \in 0 .. 4 /\ stage # MultDone /\ MultDone \in 0 .. 4
  BY <1>1 DEF InvZ, Ladder, MultDone
<1>3. o.holds = "product" /\ o = [operation |-> c.operation, holds |-> o.holds]
        /\ c.operation # "SIGN_MESSAGE_DIGEST" /\ c.operation # "VERIFY_SIGNATURE"
  BY DEF Sound, Products
<1>4. CASE c.stage = Ladder
  <2>1. d = WithIndex(c, i, stage)
    BY <1>4 DEF sb_sw_point_mult_continue, Ladder, InvZ, WithIndex
  <2> HIDE DEF i, stage, d
  <2>2. At(d, c, stage, c.holds, c.res)
    BY <1>1, <1>2, <2>1, Indexed
  <2> QED
    BY <1>2, <1>3, <2>2 DEF Sound, At, d
<1>5. CASE c.stage = InvZ
  <2>1. d = WithValue(c, MultDone, "product")
    BY <1>5 DEF sb_sw_point_mult_continue, InvZ, Ladder, WithValue
  <2> HIDE DEF d
  <2>2. At(d, c, MultDone, "product", c.res)
    BY <1>1, <1>2, <2>1, Computed
  <2> QED
    BY <1>3, <2>2 DEF Sound, At, d
<1>6. CASE c.stage # Ladder /\ c.stage # InvZ
  <2>1. d = c
    BY <1>6 DEF sb_sw_point_mult_continue
  <2> QED
    BY <2>1
<1> QED
  BY <1>4, <1>5, <1>6

(* sb_sw_sign_continue *)
LEMMA SignContinues ==
  ASSUME NEW c, NEW o, Sound(c, o), c.operation = "SIGN_MESSAGE_DIGEST"
  PROVE  LET d == sb_sw_sign_continue(c)
         IN  Sound(d, o) /\ d.operation = c.operation
<1> DEFINE i == IF c.i > ITERATIONS THEN c.i - ITERATIONS ELSE 0
           stage == IF i = 0 THEN InvZ ELSE Ladder
           d == sb_sw_sign_continue(c)
<1>1. c \in Contexts /\ c.i \in Int /\ ITERATIONS \in Int
  BY DEF Sound, Contexts, SwAssumption
<1>2. i \in Int /\ stage \in 0 .. 4 /\ stage # SignDone
  BY <1>1 DEF InvZ, Ladder, SignDone
<1>3. o.holds = "signature" /\ o = [operation |-> c.operation, holds |-> o.holds]
        /\ c.operation \notin Products /\ c.operation # "VERIFY_SIGNATURE"
  BY DEF Sound, Products
<1>4. MultDone \in 0 .. 4 /\ SignDone \in 0 .. 4 /\ MultDone # SignDone
  BY DEF MultDone, SignDone
<1>5. CASE c.stage = Ladder
  <2>1. d = WithIndex(c, i, stage)
    BY <1>5 DEF sb_sw_sign_continue, sb_sw_point_mult_continue, SignDone, SignInv, Ladder, InvZ, WithIndex
  <2> HIDE DEF i, stage, d
  <2>2. At(d, c, stage, c.holds, c.res)
    BY <1>1, <1>2, <2>1, Indexed
  <2> QED
    BY <1>2, <1>3, <2>2 DEF Sound, At, d
<1>6. CASE c.stage = InvZ
  <2>1. d = WithValue(c, MultDone, "product")
    BY <1>6 DEF sb_sw_sign_continue, sb_sw_point_mult_continue, SignDone, SignInv, InvZ, Ladder, WithValue
  <2> HIDE DEF d
  <2>2. At(d, c, MultDone, "product", c.res)
    BY <1>1, <1>4, <2>1, Computed
  <2> QED
    BY <1>3, <1>4, <2>2 DEF Sound, At, d
<1>7. CASE c.stage = SignInv
  <2>1. d = WithValue(c, SignDone, "signature")
    BY <1>7 DEF sb_sw_sign_continue, SignDone, SignInv, WithValue
  <2> HIDE DEF d
  <2>2. At(d, c, SignDone, "signature", c.res)
    BY <1>1, <1>4, <2>1, Computed
  <2> QED
    BY <1>3, <2>2 DEF Sound, At, d
<1>8. CASE c.stage \notin {Ladder, InvZ, SignInv}
  <2>1. d = c
    BY <1>8 DEF sb_sw_sign_continue, sb_sw_point_mult_continue
  <2> QED
    BY <2>1
<1> QED
  BY <1>5, <1>6, <1>7, <1>8

(* sb_sw_verify_continue: what is judged genuine at the end was so.        *)
LEMMA VerifyContinues ==
  ASSUME NEW c, NEW o, Sound(c, o), c.operation = "VERIFY_SIGNATURE"
  PROVE  LET d == sb_sw_verify_continue(c)
         IN  Sound(d, o) /\ d.operation = c.operation
<1> DEFINE d == sb_sw_verify_continue(c)
<1>1. c \in Contexts /\ c.i \in Int /\ c.res \in BOOLEAN
  BY DEF Sound, Contexts
<1>2. o.holds = c.holds /\ o = [operation |-> c.operation, holds |-> o.holds]
        /\ c.operation \notin Products /\ c.operation # "SIGN_MESSAGE_DIGEST"
  BY DEF Sound, Products
<1>3. VerifyInvZ \in 0 .. 4 /\ VerifyInvZ # VerifyDone /\ VerifyDone \in 0 .. 4
  BY DEF VerifyInvZ, VerifyDone
<1>4. CASE c.stage = VerifyInvS
  <2> DEFINE res == c.res /\ c.holds # "out of range"
  <2>1. d = WithResult(c, VerifyInvZ, res)
    BY <1>4 DEF sb_sw_verify_continue, VerifyInvS, VerifyInvZ, VerifyLadder, VerifyTest, WithResult
  <2>2. res \in BOOLEAN
    OBVIOUS
  <2> HIDE DEF res, d
  <2>3. At(d, c, VerifyInvZ, c.holds, res)
    BY <1>1, <1>3, <2>1, <2>2, Judged
  <2> QED
    BY <1>2, <1>3, <2>3 DEF Sound, At, d
<1>5. CASE c.stage \in {VerifyInvZ, VerifyLadder}
  <2> DEFINE ops == IF c.i + 1 > ITERATIONS THEN ITERATIONS ELSE c.i + 1
             wrapped == (c.i + SizeMod - ops) % SizeMod
             i == IF c.stage = VerifyInvZ THEN BITS - 1 ELSE wrapped
             stage == IF c.stage = VerifyInvZ THEN VerifyLadder
                      ELSE IF wrapped >= BITS THEN VerifyTest ELSE VerifyLadder
  <2>1. d = sb_sw_point_mult_add_z_continue(c)
    BY <1>5 DEF sb_sw_verify_continue, VerifyInvS, VerifyInvZ, VerifyLadder, VerifyTest
  <2>2. ops \in Int /\ BITS - 1 \in Int /\ SizeMod \in Int /\ SizeMod > 0
    BY <1>1 DEF SwAssumption
  <2> HIDE DEF ops, d
  <2>3. wrapped \in Int
    BY <1>1, <2>2
  <2>4. i \in Int /\ stage \in 0 .. 4 /\ stage # VerifyDone
    BY <2>2, <2>3 DEF VerifyLadder, VerifyTest, VerifyDone
  <2>5. d = WithIndex(c, i, stage)
    <3>1. CASE c.stage = VerifyInvZ
      BY <2>1, <3>1 DEF sb_sw_point_mult_add_z_continue, WithIndex
    <3>2. CASE c.stage # VerifyInvZ
      BY <2>1, <3>2 DEF sb_sw_point_mult_add_z_continue, ops, WithIndex
    <3> QED
      BY <3>1, <3>2
  <2> HIDE DEF i, stage
  <2>6. At(d, c, stage, c.holds, c.res)
    BY <1>1, <2>4, <2>5, Indexed
  <2> QED
    BY <1>2, <2>4, <2>6 DEF Sound, At, d
<1>6. CASE c.stage = VerifyTest
  <2> DEFINE genuine == c.holds = "genuine"
             res == c.res /\ genuine
  <2>1. d = WithResult(c, VerifyDone, res)
    BY <1>6 DEF sb_sw_verify_continue, VerifyInvS, VerifyInvZ, VerifyLadder, VerifyTest, WithResult
  <2>2. res \in BOOLEAN /\ (res => genuine)
    OBVIOUS
  <2> HIDE DEF res, d
  <2>3. At(d, c, VerifyDone, c.holds, res)
    BY <1>1, <1>3, <2>1, <2>2, Judged
  <2>4. d.res => d.holds = "genuine"
    BY <2>2, <2>3 DEF At
  <2> QED
    BY <1>2, <2>3, <2>4 DEF Sound, At, d
<1>7. CASE c.stage \notin {VerifyInvS, VerifyInvZ, VerifyLadder, VerifyTest}
  <2>1. d = c
    BY <1>7 DEF sb_sw_verify_continue
  <2> QED
    BY <2>1
<1> QED
  BY <1>4, <1>5, <1>6, <1>7

--------------------------------------------------------------------------------
(* What calls leave in the context and put out.                            *)

(* The fields of an output. *)
LEMMA OutputSays ==
  ASSUME NEW err, NEW w, NEW d, NEW a,
         output' = [failed |-> err # {}, wrote |-> w, done |-> d, asserts |-> a]
  PROVE  /\ err = {} => output'.failed = FALSE
         /\ err # {} => output'.failed = TRUE
         /\ output'.wrote = w /\ output'.asserts = a
<1> DEFINE f == err # {}
<1>1. (err = {} => f = FALSE) /\ (err # {} => f = TRUE)
  OBVIOUS
<1>2. output' = [failed |-> f, wrote |-> w, done |-> d, asserts |-> a]
  OBVIOUS
<1> HIDE DEF f
<1>3. output'.failed = f /\ output'.wrote = w /\ output'.asserts = a
  BY <1>2
<1> QED
  BY <1>1, <1>3

(* A call that keeps the context unless it fails. *)
LEMMA Yields ==
  ASSUME NEW err, NEW c, NEW d, NEW a, a = TRUE, Yield(err, c, d, a),
         err = {} => Sound(c, open')
  PROVE  ContextInv' /\ (output'.failed = FALSE => ctx' = c)
<1>1. /\ ctx' = IF err # {} THEN Null ELSE c
      /\ output' = [failed |-> err # {}, wrote |-> Nothing, done |-> d, asserts |-> a]
  BY DEF Yield
<1>2. /\ err = {} => output'.failed = FALSE
      /\ err # {} => output'.failed = TRUE
      /\ output'.wrote = Nothing /\ output'.asserts = TRUE
  BY <1>1, OutputSays
<1>3. CASE err = {}
  <2>1. ctx' = c /\ Sound(c, open')
    BY <1>1, <1>3
  <2>2. Sound(ctx', open')
    BY <2>1
  <2> QED
    BY <1>2, <1>3, <2>1, <2>2 DEF ContextInv
<1>4. CASE err # {}
  BY <1>1, <1>2, <1>4 DEF ContextInv
<1> QED
  BY <1>3, <1>4

(* A call that ends with the context cleared. *)
LEMMA Returns ==
  ASSUME NEW call, NEW err, NEW value, NEW a, a = TRUE, Return(call, err, value, a),
         \/ call = "NONE"
         \/ err = {} => /\ open' = [operation |-> call, holds |-> value]
                        /\ value \in {"product", "signature", "genuine"}
  PROVE  ContextInv' /\ ctx' = Null
<1> DEFINE w == [operation |-> call, holds |-> value]
<1>1. /\ ctx' = Null
      /\ output' = [failed |-> err # {}, wrote |-> Written(call, err, value),
                    done |-> FALSE, asserts |-> a]
  BY DEF Return
<1>2. /\ output'.failed \in BOOLEAN /\ output'.asserts = TRUE
      /\ output'.wrote = IF err # {} THEN Nothing ELSE w
  <2> DEFINE put == Written(call, err, value)
  <2>1. put = IF err # {} THEN Nothing ELSE w
    BY DEF Written
  <2> HIDE DEF put, w
  <2>2. output' = [failed |-> err # {}, wrote |-> put, done |-> FALSE, asserts |-> a]
    BY <1>1 DEF put
  <2>3. /\ err = {} => output'.failed = FALSE
        /\ err # {} => output'.failed = TRUE
        /\ output'.wrote = put /\ output'.asserts = a
    BY <2>2, OutputSays
  <2>4. output'.failed \in BOOLEAN
    BY <2>3
  <2> QED
    BY <2>1, <2>3, <2>4
<1>3. w.operation = call /\ w.holds = value
  OBVIOUS
<1>4. CASE err = {} /\ call # "NONE"
  <2>1. open' = w /\ w.holds \in {"product", "signature", "genuine"}
    BY <1>3, <1>4
  <2> HIDE DEF w
  <2> QED
    BY <1>1, <1>2, <1>4, <2>1 DEF ContextInv
<1>5. CASE err # {} \/ call = "NONE"
  <2> HIDE DEF w
  <2> QED
    BY <1>1, <1>2, <1>3, <1>5 DEF ContextInv
<1> QED
  BY <1>4, <1>5

(* The operation in progress, if a call for it finds it. *)
LEMMA InProgress ==
  ASSUME ContextInv, NEW operation \in Operations, Incorrect(operation, ctx) = {}
  PROVE  Sound(ctx, open) /\ ctx.operation = operation
<1>1. ctx.operation = operation
  BY DEF Incorrect, If
<1>2. ctx # Null
  BY <1>1 DEF Null, Operations
<1> QED
  BY <1>1, <1>2 DEF ContextInv

(* Continue calls keep the operation in progress, and the DRBG. *)
LEMMA Continues ==
  ASSUME DrbgInv, NEW err, NEW c, NEW d, Continue(err, c, d), err = {} => Sound(c, open)
  PROVE  /\ DrbgInv' /\ Told' /\ ContextInv'
         /\ output'.failed = FALSE => ctx' = c
<1> DEFINE a == TRUE
<1>1. a = TRUE /\ Yield(err, c, d, a) /\ LeaveDrbg
      /\ open' = IF err # {} THEN Nothing ELSE open
  BY DEF Continue
<1> HIDE DEF a
<1>2. err = {} => Sound(c, open')
  BY <1>1
<1>3. ContextInv' /\ (output'.failed = FALSE => ctx' = c)
  BY <1>1, <1>2, Yields
<1>4. DrbgInv' /\ Told'
  BY <1>1, LeaveKeeps
<1> QED
  BY <1>3, <1>4

(* A finish that writes only what the context was started for. *)
LEMMA Finishes ==
  ASSUME DrbgInv, NEW operation, NEW err, NEW value, Finish(operation, err, value),
         err = {} => /\ open = [operation |-> operation, holds |-> value]
                     /\ value \in {"product", "signature", "genuine"}
  PROVE  DrbgInv' /\ Told' /\ ContextInv'
<1> DEFINE a == TRUE
           w == [operation |-> operation, holds |-> value]
<1>1. a = TRUE /\ Return(operation, err, value, a) /\ LeaveDrbg
      /\ open' = IF err # {} THEN Nothing ELSE open
  BY DEF Finish
<1> HIDE DEF a
<1>2. err = {} => open' = w /\ value \in {"product", "signature", "genuine"}
  BY <1>1
<1>3. ContextInv'
  BY <1>1, <1>2, Returns
<1>4. DrbgInv' /\ Told'
  BY <1>1, LeaveKeeps
<1> QED
  BY <1>3, <1>4

(* A call that starts an operation and yields, whatever it draws before.   *)
Begun(operation) ==
  /\ DrbgInv' /\ Told' /\ ContextInv'
  /\ output'.failed = FALSE => ctx'.operation = operation

(* A start without errors was given a curve it knows. *)
LEMMA CurveKnown ==
  ASSUME NEW curve, NEW provided, NEW calls
  PROVE  Early(curve, provided, calls) = {} => curve \in Curves
BY DEF Early, sb_sw_curve_from_id, If

(* What the starts of the public key, the shared secret and the product leave. *)
LEMMA StartSound ==
  ASSUME NEW operation \in Products, NEW curve \in Curves
  PROVE  /\ Sound(Started(operation, curve), [operation |-> operation, holds |-> "product"])
         /\ Started(operation, curve).operation = operation
<1> DEFINE c == Started(operation, curve)
           o == [operation |-> operation, holds |-> "product"]
<1>1. c = [operation |-> operation, curve |-> curve, stage |-> 0, i |-> BITS - 1,
           res |-> FALSE, holds |-> "nothing"]
  BY DEF Started, Ladder
<1>2. BITS - 1 \in Int /\ operation \in Operations
  BY DEF SwAssumption, Products, Operations
<1>3. c \in Contexts /\ c.operation = operation /\ c.stage # MultDone
  BY <1>1, <1>2 DEF Contexts, MultDone
<1>4. operation # "SIGN_MESSAGE_DIGEST" /\ operation # "VERIFY_SIGNATURE"
  BY DEF Products
<1>5. o.holds = "product" /\ o = [operation |-> operation, holds |-> o.holds]
  OBVIOUS
<1> HIDE DEF c, o
<1>6. Sound(c, o)
  BY <1>3, <1>4, <1>5 DEF Sound
<1> QED
  BY <1>3, <1>6 DEF c, o

(* What the start of a signature leaves. *)
LEMMA SignSound ==
  ASSUME NEW curve \in Curves
  PROVE  /\ Sound(Started("SIGN_MESSAGE_DIGEST", curve),
                  [operation |-> "SIGN_MESSAGE_DIGEST", holds |-> "signature"])
         /\ Started("SIGN_MESSAGE_DIGEST", curve).operation = "SIGN_MESSAGE_DIGEST"
<1> DEFINE operation == "SIGN_MESSAGE_DIGEST"
           c == Started(operation, curve)
           o == [operation |-> operation, holds |-> "signature"]
<1>1. c = [operation |-> operation, curve |-> curve, stage |-> 0, i |-> BITS - 1,
           res |-> FALSE, holds |-> "nothing"]
  BY DEF Started, Ladder
<1>2. BITS - 1 \in Int /\ operation \in Operations
  BY DEF SwAssumption, Operations
<1> HIDE DEF operation
<1>3. c \in Contexts /\ c.operation = operation /\ c.stage # SignDone
  BY <1>1, <1>2 DEF Contexts, SignDone
<1>4. operation \notin Products /\ operation # "VERIFY_SIGNATURE"
  BY DEF Products, operation
<1>5. o.holds = "signature" /\ o = [operation |-> operation, holds |-> o.holds]
  OBVIOUS
<1> HIDE DEF c, o
<1>6. Sound(c, o)
  BY <1>3, <1>4, <1>5 DEF Sound, operation
<1> QED
  BY <1>3, <1>6 DEF c, o, operation

VerifyStarted(curve, signature) ==
  [operation |-> "VERIFY_SIGNATURE", curve |-> curve, stage |-> VerifyInvS,
   i |-> 0, res |-> TRUE, holds |-> signature]

(* What the start of a verification leaves. *)
LEMMA VerifySound ==
  ASSUME NEW curve \in Curves, NEW signature \in Signatures
  PROVE  /\ Sound(VerifyStarted(curve, signature),
                  [operation |-> "VERIFY_SIGNATURE", holds |-> signature])
         /\ VerifyStarted(curve, signature).operation = "VERIFY_SIGNATURE"
<1> DEFINE operation == "VERIFY_SIGNATURE"
           c == VerifyStarted(curve, signature)
           o == [operation |-> operation, holds |-> signature]
<1>1. c = [operation |-> operation, curve |-> curve, stage |-> 0, i |-> 0,
           res |-> TRUE, holds |-> signature]
  BY DEF VerifyStarted, VerifyInvS
<1>2. operation \in Operations
  BY DEF Operations
<1>3. c \in Contexts /\ c.operation = operation /\ c.stage # VerifyDone /\ c.holds = signature
  BY <1>1, <1>2 DEF Contexts, VerifyDone
<1>4. operation \notin Products /\ operation # "SIGN_MESSAGE_DIGEST"
  BY DEF Products
<1>5. o.holds = signature /\ o = [operation |-> operation, holds |-> o.holds]
  OBVIOUS
<1> HIDE DEF c, o
<1>6. Sound(c, o)
  BY <1>3, <1>4, <1>5 DEF Sound
<1> QED
  BY <1>3, <1>6 DEF c, o

(* sb_sw_compute_public_key_start and sb_sw_multiply_shared_start *)
LEMMA MultBegins ==
  ASSUME DrbgInv, NEW operation \in Products, NEW curve, NEW provided \in BOOLEAN,
         NEW additional \in Nat, additional > 0, additional <= 256, NEW late,
         sb_sw_point_mult_started(operation, curve, Early(curve, provided, 1),
           sb_sw_generate_z(provided, Early(curve, provided, 1), additional), late, provided)
  PROVE  Begun(operation)
<1> DEFINE early == Early(curve, provided, 1)
           g == sb_sw_generate_z(provided, early, additional)
           err == IF early # {} THEN early ELSE g.errors \union late
           c == Started(operation, curve)
           o == [operation |-> operation, holds |-> "product"]
<1>1. g.errors = {} /\ (Consult(provided, 1, early, g) => DrbgInv' /\ Told')
  BY ZKeeps
<1>2. early = {} => curve \in Curves
  BY CurveKnown
<1>3. /\ Consult(provided, 1, early, g)
      /\ Yield(err, c, FALSE, g.errors = {})
      /\ open' = IF err # {} THEN Nothing ELSE o
  BY DEF sb_sw_point_mult_started
<1>4. err = {} => early = {}
  OBVIOUS
<1>5. curve \in Curves => Sound(c, o) /\ c.operation = operation
  BY StartSound
<1> HIDE DEF early, g, err, c, o
<1>6. err = {} => Sound(c, open')
  BY <1>2, <1>3, <1>4, <1>5
<1> DEFINE a == g.errors = {}
           d == FALSE
<1>7. a = TRUE /\ Yield(err, c, d, a)
  BY <1>1, <1>3
<1> HIDE DEF a, d
<1>8. ContextInv' /\ (output'.failed = FALSE => ctx' = c)
  BY <1>6, <1>7, Yields
<1>9. err # {} => output'.failed = TRUE
  BY <1>7, OutputSays DEF Yield
<1>10. output'.failed = FALSE => ctx'.operation = operation
  <2>1. output'.failed = FALSE => c.operation = operation
    BY <1>2, <1>4, <1>5, <1>9
  <2> QED
    BY <1>8, <2>1
<1> QED
  BY <1>1, <1>3, <1>8, <1>10 DEF Begun

(* sb_sw_sign_message_digest_start *)
LEMMA SignBegins ==
  ASSUME DrbgInv, NEW curve, NEW provided \in BOOLEAN, NEW bad,
         sb_sw_sign_message_digest_start(curve, provided, bad)
  PROVE  Begun("SIGN_MESSAGE_DIGEST")
<1> DEFINE early == Early(curve, provided, SignCalls)
           secret == SecretFrom(provided)
           none == secret.errors \union sb_sw_k_from_buf(bad)
           noSecret == none # {}
           z == sb_hmac_drbg_generate_additional_dummy(secret, 4 * ELEM)
           late == z.errors \union sb_sw_z_from_buf(bad)
           g == SignDrawn(provided, early, noSecret)
           err == IF early # {} THEN early
                  ELSE IF none # {} THEN none
                  ELSE IF late # {} THEN late
                  ELSE InvalidPrivate(bad)
           c == Started("SIGN_MESSAGE_DIGEST", curve)
           o == [operation |-> "SIGN_MESSAGE_DIGEST", holds |-> "signature"]
           a == g.errors = {}
           d == FALSE
<1>1. g.errors = {} /\ (Consult(provided, SignCalls, early, g) => DrbgInv' /\ Told')
  BY SignKeeps
<1>2. early = {} => curve \in Curves
  BY CurveKnown
<1>3. /\ Consult(provided, SignCalls, early, g)
      /\ Yield(err, c, d, a)
      /\ open' = IF err # {} THEN Nothing ELSE o
  BY DEF sb_sw_sign_message_digest_start, SignDrawn
<1>4. err = {} => early = {}
  OBVIOUS
<1>5. curve \in Curves => Sound(c, o) /\ c.operation = "SIGN_MESSAGE_DIGEST"
  BY SignSound
<1>6. a = TRUE
  BY <1>1
<1> HIDE DEF early, secret, none, noSecret, z, late, g, err, c, o, a, d
<1>7. err = {} => Sound(c, open')
  BY <1>2, <1>3, <1>4, <1>5
<1>8. ContextInv' /\ (output'.failed = FALSE => ctx' = c)
  BY <1>3, <1>6, <1>7, Yields
<1>9. err # {} => output'.failed = TRUE
  BY <1>3, OutputSays DEF Yield
<1>10. output'.failed = FALSE => ctx'.operation = "SIGN_MESSAGE_DIGEST"
  <2>1. output'.failed = FALSE => c.operation = "SIGN_MESSAGE_DIGEST"
    BY <1>2, <1>4, <1>5, <1>9
  <2> QED
    BY <1>8, <2>1
<1> QED
  BY <1>1, <1>3, <1>8, <1>10 DEF Begun

(* sb_sw_verify_signature_start *)
LEMMA VerifyBegins ==
  ASSUME DrbgInv, NEW curve, NEW provided \in BOOLEAN, NEW bad, NEW signature \in Signatures,
         sb_sw_verify_signature_start(curve, provided, bad, signature)
  PROVE  Begun("VERIFY_SIGNATURE")
<1> DEFINE early == Early(curve, provided, 1)
           additional == 4 * ELEM + 23
           g == sb_sw_generate_z(provided, early, additional)
           late == sb_sw_z_from_buf(bad) \union InvalidPublic(bad)
           err == IF early # {} THEN early ELSE g.errors \union late
           c == VerifyStarted(curve, signature)
           o == [operation |-> "VERIFY_SIGNATURE", holds |-> signature]
           a == g.errors = {}
           d == FALSE
<1>0. additional \in Nat /\ additional > 0 /\ additional <= 256
  BY DEF ELEM
<1>3. /\ Consult(provided, 1, early, g)
      /\ Yield(err, c, d, a)
      /\ open' = IF err # {} THEN Nothing ELSE o
  BY DEF sb_sw_verify_signature_start, VerifyStarted
<1> HIDE DEF additional
<1>1. g.errors = {} /\ (Consult(provided, 1, early, g) => DrbgInv' /\ Told')
  BY <1>0, ZKeeps
<1>2. early = {} => curve \in Curves
  BY CurveKnown
<1>4. err = {} => early = {}
  OBVIOUS
<1>5. curve \in Curves => Sound(c, o) /\ c.operation = "VERIFY_SIGNATURE"
  BY VerifySound
<1>6. a = TRUE
  BY <1>1
<1> HIDE DEF early, late, g, err, c, o, a, d
<1>7. err = {} => Sound(c, open')
  BY <1>2, <1>3, <1>4, <1>5
<1>8. ContextInv' /\ (output'.failed = FALSE => ctx' = c)
  BY <1>3, <1>6, <1>7, Yields
<1>9. err # {} => output'.failed = TRUE
  BY <1>3, OutputSays DEF Yield
<1>10. output'.failed = FALSE => ctx'.operation = "VERIFY_SIGNATURE"
  <2>1. output'.failed = FALSE => c.operation = "VERIFY_SIGNATURE"
    BY <1>2, <1>4, <1>5, <1>9
  <2> QED
    BY <1>8, <2>1
<1> QED
  BY <1>1, <1>3, <1>8, <1>10 DEF Begun

(* The starts of products. *)
LEMMA ProductBegins ==
  ASSUME DrbgInv, NEW curve, NEW provided \in BOOLEAN, NEW bad
  PROVE  /\ sb_sw_compute_public_key_start(curve, provided, bad) => Begun("COMPUTE_PUBLIC_KEY")
         /\ sb_sw_shared_secret_start(curve, provided, bad) => Begun("SHARED_SECRET")
         /\ sb_sw_point_multiply_start(curve, provided, bad) => Begun("POINT_MULTIPLY")
<1> DEFINE small == ELEM + 25
           large == 2 * ELEM + 22
<1>1. /\ small \in Nat /\ small > 0 /\ small <= 256
      /\ large \in Nat /\ large > 0 /\ large <= 256
  BY DEF ELEM
<1>2. ASSUME sb_sw_compute_public_key_start(curve, provided, bad)
      PROVE  Begun("COMPUTE_PUBLIC_KEY")
  <2> DEFINE late == sb_sw_z_from_buf(bad) \union InvalidPrivate(bad)
  <2>1. sb_sw_point_mult_started("COMPUTE_PUBLIC_KEY", curve, Early(curve, provided, 1),
          sb_sw_generate_z(provided, Early(curve, provided, 1), small), late, provided)
    BY <1>2 DEF sb_sw_compute_public_key_start
  <2>2. "COMPUTE_PUBLIC_KEY" \in Products
    BY DEF Products
  <2> HIDE DEF small, late
  <2> QED
    BY <1>1, <2>1, <2>2, MultBegins
<1>3. ASSUME NEW operation \in Products,
             sb_sw_multiply_shared_start(operation, curve, provided, bad)
      PROVE  Begun(operation)
  <2> DEFINE late == sb_sw_z_from_buf(bad) \union InvalidPrivate(bad)
                       \union InvalidPublic(bad)
  <2>1. sb_sw_point_mult_started(operation, curve, Early(curve, provided, 1),
          sb_sw_generate_z(provided, Early(curve, provided, 1), large), late, provided)
    BY <1>3 DEF sb_sw_multiply_shared_start
  <2> HIDE DEF large, late
  <2> QED
    BY <1>1, <2>1, MultBegins
<1>4. "SHARED_SECRET" \in Products /\ "POINT_MULTIPLY" \in Products
  BY DEF Products
<1> QED
  BY <1>2, <1>3, <1>4 DEF sb_sw_shared_secret_start, sb_sw_point_multiply_start

(* Functions without steps leave the context cleared. *)
LEMMA WholeLeaves ==
  ASSUME NEW err, NEW a, a = TRUE, Whole(err, a)
  PROVE  ContextInv' /\ ctx' = Null
BY Returns DEF Whole

(* A function that only checks its arguments. *)
LEMMA CheckedLeaves ==
  ASSUME DrbgInv, NEW curve, NEW invalid, Checked(curve, invalid)
  PROVE  DrbgInv' /\ Told' /\ ContextInv'
<1> DEFINE early == sb_sw_curve_from_id(curve)
           err == IF early # {} THEN early ELSE invalid
           a == TRUE
<1>1. LeaveDrbg /\ Whole(err, a) /\ a = TRUE
  BY DEF Checked
<1> HIDE DEF err, a
<1>2. ContextInv'
  BY <1>1, WholeLeaves
<1> QED
  BY <1>1, <1>2, LeaveKeeps

(* An inversion draws one Z and has no context. *)
LEMMA InvertedLeaves ==
  ASSUME DrbgInv, NEW curve, NEW provided \in BOOLEAN, NEW bad,
         NEW additional \in Nat, additional > 0, additional <= 256,
         Inverted(curve, provided, bad, additional)
  PROVE  DrbgInv' /\ Told' /\ ContextInv'
<1> DEFINE early == Early(curve, provided, 1)
           g == sb_sw_generate_z(provided, early, additional)
           late == sb_sw_k_from_buf(bad) \union InvalidPrivate(bad)
           err == IF early # {} THEN early ELSE g.errors \union late
           a == g.errors = {}
<1>1. g.errors = {} /\ (Consult(provided, 1, early, g) => DrbgInv' /\ Told')
  BY ZKeeps
<1>2. Consult(provided, 1, early, g) /\ Whole(err, a)
  BY DEF Inverted
<1>3. a = TRUE
  BY <1>1
<1> HIDE DEF early, g, late, err, a
<1>4. ContextInv'
  BY <1>2, <1>3, WholeLeaves
<1> QED
  BY <1>1, <1>2, <1>4

(* A new private key draws its candidates and has no context. *)
LEMMA PrivateKeyLeaves ==
  ASSUME DrbgInv, NEW curve, NEW bad, sb_sw_generate_private_key(curve, bad)
  PROVE  DrbgInv' /\ Told' /\ ContextInv'
<1> DEFINE early == Early(curve, TRUE, CANDIDATES)
           g == IF early = {} THEN Dummy(Dummy(Dummy(Dummy(Fresh(drbg))))) ELSE Fresh(drbg)
           err == IF early # {} THEN early
                  ELSE IF g.errors # {} THEN g.errors ELSE sb_sw_k_from_buf(bad)
           a == g.errors = {}
<1>1. g.errors = {} /\ (Consult(TRUE, CANDIDATES, early, g) => DrbgInv' /\ Told')
  BY PrivateKeyKeeps
<1>2. Consult(TRUE, CANDIDATES, early, g) /\ Whole(err, a)
  BY DEF sb_sw_generate_private_key
<1>3. a = TRUE
  BY <1>1
<1> HIDE DEF early, g, err, a
<1>4. ContextInv'
  BY <1>2, <1>3, WholeLeaves
<1> QED
  BY <1>1, <1>2, <1>4

(* Every function that is done in one call. *)
LEMMA SimpleLeaves ==
  ASSUME DrbgInv, Simple
  PROVE  DrbgInv' /\ Told' /\ ContextInv'
<1>1. PICK in \in Inputs :
        \/ sb_sw_generate_private_key(in.curve, in.bad)
        \/ sb_sw_hkdf_expand_private_key(in.curve, in.bad)
        \/ \E provided \in BOOLEAN :
             \/ sb_sw_invert_private_key(in.curve, provided, in.bad)
             \/ sb_sw_composite_sign_wrap_message_digest(in.curve, provided, in.bad)
        \/ \E signature \in Signatures :
             sb_sw_composite_sign_unwrap_signature(in.curve, in.bad, signature)
        \/ sb_sw_valid_private_key(in.curve, in.bad)
        \/ sb_sw_decompress_public_key(in.curve, in.bad)
        \/ jniCompressPublicKey(in.curve, in.bad)
        \/ jniVerifyPublicKey(in.curve, in.bad)
  BY DEF Simple
<1>2. CASE sb_sw_generate_private_key(in.curve, in.bad)
  BY <1>2, PrivateKeyLeaves
<1>3. CASE \E provided \in BOOLEAN :
             \/ sb_sw_invert_private_key(in.curve, provided, in.bad)
             \/ sb_sw_composite_sign_wrap_message_digest(in.curve, provided, in.bad)
  <2> DEFINE small == ELEM
             large == 2 * ELEM
  <2>1. /\ small \in Nat /\ small > 0 /\ small <= 256
        /\ large \in Nat /\ large > 0 /\ large <= 256
    BY DEF ELEM
  <2>2. PICK provided \in BOOLEAN : \/ Inverted(in.curve, provided, in.bad, small)
                                    \/ Inverted(in.curve, provided, in.bad, large)
    BY <1>3 DEF sb_sw_invert_private_key, sb_sw_composite_sign_wrap_message_digest
  <2> HIDE DEF small, large
  <2> QED
    BY <2>1, <2>2, InvertedLeaves
<1>4. CASE sb_sw_hkdf_expand_private_key(in.curve, in.bad)
  BY <1>4, CheckedLeaves DEF sb_sw_hkdf_expand_private_key
<1>5. CASE \E signature \in Signatures :
             sb_sw_composite_sign_unwrap_signature(in.curve, in.bad, signature)
  <2>1. PICK signature \in Signatures :
          sb_sw_composite_sign_unwrap_signature(in.curve, in.bad, signature)
    BY <1>5
  <2> DEFINE invalid == InvalidPrivate(in.bad) \union
                          If(signature = "out of range", "SIGNATURE_INVALID")
  <2>2. Checked(in.curve, invalid)
    BY <2>1 DEF sb_sw_composite_sign_unwrap_signature
  <2> HIDE DEF invalid
  <2> QED
    BY <2>2, CheckedLeaves
<1>6. CASE sb_sw_valid_private_key(in.curve, in.bad) \/ jniVerifyPublicKey(in.curve, in.bad)
  BY <1>6, CheckedLeaves DEF sb_sw_valid_private_key, jniVerifyPublicKey, sb_sw_valid_public_key
<1>7. CASE sb_sw_decompress_public_key(in.curve, in.bad)
             \/ jniCompressPublicKey(in.curve, in.bad)
  BY <1>7, CheckedLeaves
  DEF sb_sw_decompress_public_key, jniCompressPublicKey, sb_sw_compress_public_key
<1> QED
  BY <1>1, <1>2, <1>3, <1>4, <1>5, <1>6, <1>7

(* Continue and finish calls. *)
LEMMA ContinueAnyKeeps ==
  ASSUME DrbgInv, ContextInv, NEW operation \in Operations, NEW unlucky \in BOOLEAN,
         ContinueAny(operation, unlucky)
  PROVE  Begun(operation)
<1>1. ASSUME NEW err, NEW c, NEW d, Continue(err, c, d),
             err = {} => Incorrect(operation, ctx) = {},
             Sound(ctx, open) /\ ctx.operation = operation =>
               Sound(c, open) /\ c.operation = operation
      PROVE  Begun(operation)
  <2>1. err = {} => Sound(c, open) /\ c.operation = operation
    BY <1>1, InProgress
  <2>2. /\ DrbgInv' /\ Told' /\ ContextInv'
        /\ output'.failed = FALSE => ctx' = c
    BY <1>1, <2>1, Continues
  <2>3. err # {} => output'.failed = TRUE
    BY <1>1, OutputSays DEF Continue, Yield
  <2> QED
    BY <2>1, <2>2, <2>3 DEF Begun
<1>2. CASE operation \in Products
  <2> DEFINE known == IF operation = "COMPUTE_PUBLIC_KEY" THEN {}
                      ELSE sb_sw_curve_from_id(ctx.curve)
             err == Incorrect(operation, ctx) \union known
             c == sb_sw_point_mult_continue(ctx)
             d == sb_sw_point_mult_is_finished(c)
  <2>1. Continue(err, c, d)
    <3>1. CASE operation = "COMPUTE_PUBLIC_KEY"
      BY <3>1 DEF ContinueAny, sb_sw_compute_public_key_continue
    <3>2. CASE operation = "SHARED_SECRET"
      BY <3>2 DEF ContinueAny, sb_sw_shared_secret_continue
    <3>3. CASE operation = "POINT_MULTIPLY"
      BY <3>3 DEF ContinueAny, sb_sw_point_multiply_continue
    <3> QED
      BY <1>2, <3>1, <3>2, <3>3 DEF Products
  <2>2. Sound(ctx, open) /\ ctx.operation = operation =>
          Sound(c, open) /\ c.operation = operation
    BY <1>2, MultContinues
  <2>3. err = {} => Incorrect(operation, ctx) = {}
    OBVIOUS
  <2> HIDE DEF err, c, d
  <2> QED
    BY <1>1, <2>1, <2>2, <2>3
<1>3. CASE operation = "SIGN_MESSAGE_DIGEST"
  <2> DEFINE first == Incorrect(operation, ctx) \union sb_sw_curve_from_id(ctx.curve)
             late == If(unlucky /\ ctx.stage = SignInv, "DRBG_FAILURE")
             err == IF first # {} THEN first ELSE late
             c == sb_sw_sign_continue(ctx)
             d == sb_sw_sign_is_finished(c)
  <2>1. Continue(err, c, d)
    BY <1>3 DEF ContinueAny, sb_sw_sign_message_digest_continue
  <2>2. Sound(ctx, open) /\ ctx.operation = operation =>
          Sound(c, open) /\ c.operation = operation
    BY <1>3, SignContinues
  <2> HIDE DEF late
  <2>3. err = {} => Incorrect(operation, ctx) = {}
    OBVIOUS
  <2> HIDE DEF err, c, d
  <2> QED
    BY <1>1, <2>1, <2>2, <2>3
<1>4. CASE operation = "VERIFY_SIGNATURE"
  <2> DEFINE err == Incorrect(operation, ctx) \union sb_sw_curve_from_id(ctx.curve)
             c == sb_sw_verify_continue(ctx)
             d == sb_sw_verify_is_finished(c)
  <2>1. Continue(err, c, d)
    BY <1>4 DEF ContinueAny, sb_sw_verify_signature_continue
  <2>2. Sound(ctx, open) /\ ctx.operation = operation =>
          Sound(c, open) /\ c.operation = operation
    BY <1>4, VerifyContinues
  <2>3. err = {} => Incorrect(operation, ctx) = {}
    OBVIOUS
  <2> HIDE DEF err, c, d
  <2> QED
    BY <1>1, <2>1, <2>2, <2>3
<1> QED
  BY <1>2, <1>3, <1>4 DEF Products, Operations

(* Every finish. *)
LEMMA FinishAnyKeeps ==
  ASSUME DrbgInv, ContextInv, NEW operation \in Operations, FinishAny(operation)
  PROVE  DrbgInv' /\ Told' /\ ContextInv'
<1> DEFINE w == [operation |-> operation, holds |-> ctx.holds]
<1>1. ASSUME NEW err, Finish(operation, err, ctx.holds),
             err = {} => Incorrect(operation, ctx) = {},
             err = {} /\ Sound(ctx, open) /\ ctx.operation = operation =>
               open.holds = ctx.holds /\ ctx.holds \in {"product", "signature", "genuine"}
      PROVE  DrbgInv' /\ Told' /\ ContextInv'
  <2>1. err = {} => Sound(ctx, open) /\ ctx.operation = operation
    BY <1>1, InProgress
  <2>2. Sound(ctx, open) => open = [operation |-> ctx.operation, holds |-> open.holds]
    BY DEF Sound
  <2>3. err = {} => open = w /\ ctx.holds \in {"product", "signature", "genuine"}
    BY <1>1, <2>1, <2>2
  <2> QED
    BY <1>1, <2>3, Finishes
<1>2. CASE operation \in Products
  <2> DEFINE known == IF operation = "COMPUTE_PUBLIC_KEY" THEN {}
                      ELSE sb_sw_curve_from_id(ctx.curve)
             first == Incorrect(operation, ctx) \union known
             late == Unfinished(sb_sw_point_mult_is_finished(ctx))
             err == IF first # {} THEN first ELSE late
  <2>1. Finish(operation, err, ctx.holds)
    <3>1. CASE operation = "COMPUTE_PUBLIC_KEY"
      BY <3>1 DEF FinishAny, sb_sw_compute_public_key_finish
    <3>2. CASE operation = "SHARED_SECRET"
      BY <3>2 DEF FinishAny, sb_sw_shared_secret_finish
    <3>3. CASE operation = "POINT_MULTIPLY"
      BY <3>3 DEF FinishAny, sb_sw_point_multiply_finish
    <3> QED
      BY <1>2, <3>1, <3>2, <3>3 DEF Products
  <2>2. late = {} => ctx.stage = MultDone
    BY DEF Unfinished, If, sb_sw_point_mult_is_finished
  <2> HIDE DEF known, late
  <2>3. err = {} => Incorrect(operation, ctx) = {} /\ late = {}
    OBVIOUS
  <2> HIDE DEF err
  <2>4. err = {} /\ Sound(ctx, open) /\ ctx.operation = operation =>
          open.holds = ctx.holds /\ ctx.holds \in {"product", "signature", "genuine"}
    BY <1>2, <2>2, <2>3 DEF Sound
  <2> QED
    BY <1>1, <2>1, <2>3, <2>4
<1>3. CASE operation = "SIGN_MESSAGE_DIGEST"
  <2> DEFINE first == Incorrect(operation, ctx)
             late == Unfinished(sb_sw_sign_is_finished(ctx))
             err == IF first # {} THEN first ELSE late
  <2>1. Finish(operation, err, ctx.holds)
    BY <1>3 DEF FinishAny, sb_sw_sign_message_digest_finish
  <2>2. late = {} => ctx.stage = SignDone
    BY DEF Unfinished, If, sb_sw_sign_is_finished
  <2> HIDE DEF late
  <2>3. err = {} => Incorrect(operation, ctx) = {} /\ late = {}
    OBVIOUS
  <2> HIDE DEF err
  <2>4. err = {} /\ Sound(ctx, open) /\ ctx.operation = operation =>
          open.holds = ctx.holds /\ ctx.holds \in {"product", "signature", "genuine"}
    BY <1>3, <2>2, <2>3 DEF Sound
  <2> QED
    BY <1>1, <2>1, <2>3, <2>4
<1>4. CASE operation = "VERIFY_SIGNATURE"
  <2> DEFINE first == Incorrect(operation, ctx)
             late == Unfinished(sb_sw_verify_is_finished(ctx))
             invalid == If(~ctx.res, "SIGNATURE_INVALID")
             err == IF first # {} THEN first ELSE IF late # {} THEN late ELSE invalid
  <2>1. Finish(operation, err, ctx.holds)
    BY <1>4 DEF FinishAny, sb_sw_verify_signature_finish
  <2>2. (late = {} => ctx.stage = VerifyDone) /\ (invalid = {} => ctx.res)
    BY DEF Unfinished, If, sb_sw_verify_is_finished
  <2> HIDE DEF late, invalid
  <2>3. err = {} => Incorrect(operation, ctx) = {} /\ late = {} /\ invalid = {}
    OBVIOUS
  <2> HIDE DEF err
  <2>4. err = {} /\ Sound(ctx, open) /\ ctx.operation = operation =>
          open.holds = ctx.holds /\ ctx.holds \in {"product", "signature", "genuine"}
    BY <1>4, <2>2, <2>3 DEF Sound
  <2> QED
    BY <1>1, <2>1, <2>3, <2>4
<1> QED
  BY <1>2, <1>3, <1>4 DEF Products, Operations

--------------------------------------------------------------------------------
(* The inductive invariant. *)

IInv ==
  /\ DrbgInv /\ Told /\ ContextInv
  /\ calling \in Operations \union {"NONE"}
  /\ calling # "NONE" => ctx.operation = calling

(* The invariant holds at first. *)
LEMMA InitIInv == SwInit => IInv
<1> SUFFICES ASSUME SwInit PROVE IInv
  OBVIOUS
<1>1. /\ drbg = Zero /\ answer = Answer({}, 0, 0)
      /\ seeded = FALSE /\ age = 0 /\ repeated = FALSE
      /\ ctx = Null /\ calling = "NONE" /\ open = Nothing
  BY DEF SwInit, DrbgInit, Quiet
<1>2. DrbgInv
  <2>1. drbg \in State /\ drbg.reseed_counter = 0
    BY <1>1 DEF Zero, State
  <2>2. ~seeded /\ seeded \in BOOLEAN
    BY <1>1
  <2> QED
    BY <1>1, <2>1, <2>2 DEF DrbgInv, Good
<1>3. Told
  <2>1. ~answer.failed /\ ~answer.reseed /\ answer.calls = 0 /\ answer.made = 0
    BY <1>1, AnswerSays
  <2> QED
    BY <1>1, <2>1 DEF Told, DrbgAssumption
<1>4. ContextInv
  BY <1>1 DEF SwInit, NoOutput, ContextInv
<1> QED
  BY <1>1, <1>2, <1>3, <1>4 DEF IInv

(* An operation performed at once is in progress until it is called off. *)
LEMMA AtOnceKeeps ==
  ASSUME NEW operation \in Operations, Begun(operation), AtOnce(operation)
  PROVE  IInv'
<1>1. output'.failed \in BOOLEAN
  BY DEF Begun, ContextInv
<1>2. CASE output'.failed = TRUE
  <2>1. calling' = "NONE"
    BY <1>2 DEF AtOnce
  <2> QED
    BY <2>1 DEF Begun, IInv
<1>3. CASE output'.failed = FALSE
  <2>1. calling' = operation /\ ctx'.operation = operation
    BY <1>3 DEF AtOnce, Begun
  <2> QED
    BY <2>1 DEF Begun, IInv
<1> QED
  BY <1>1, <1>2, <1>3

(* Every start. *)
LEMMA StartBegins ==
  ASSUME DrbgInv, Start
  PROVE  DrbgInv' /\ Told' /\ ContextInv'
<1>1. PICK in \in Inputs, provided \in BOOLEAN :
        \/ sb_sw_compute_public_key_start(in.curve, provided, in.bad)
        \/ sb_sw_shared_secret_start(in.curve, provided, in.bad)
        \/ sb_sw_point_multiply_start(in.curve, provided, in.bad)
        \/ sb_sw_sign_message_digest_start(in.curve, provided, in.bad)
        \/ \E signature \in Signatures :
             sb_sw_verify_signature_start(in.curve, provided, in.bad, signature)
  BY DEF Start, sb_sw_sign_message_sha256_start, sb_sw_verify_signature_sha256_start
<1>2. \E operation : Begun(operation)
  BY <1>1, ProductBegins, SignBegins, VerifyBegins
<1> QED
  BY <1>2 DEF Begun

(* Every operation that is done at once begins with its start. *)
LEMMA PerformBegins ==
  ASSUME DrbgInv, Perform \/ PerformJni
  PROVE  IInv'
<1>1. Perform => \E in \in Inputs, provided \in BOOLEAN :
        \/ sb_sw_point_multiply(in.curve, provided, in.bad)
        \/ sb_sw_sign_message_digest(in.curve, provided, in.bad)
        \/ \E signature \in Signatures :
             sb_sw_verify_signature(in.curve, provided, in.bad, signature)
  BY DEF Perform, sb_sw_sign_message_sha256, sb_sw_verify_signature_sha256
<1>2. PICK in \in Inputs, provided \in BOOLEAN :
        \/ sb_sw_compute_public_key(in.curve, provided, in.bad)
        \/ sb_sw_shared_secret(in.curve, provided, in.bad)
        \/ sb_sw_point_multiply(in.curve, provided, in.bad)
        \/ sb_sw_sign_message_digest(in.curve, provided, in.bad)
        \/ \E signature \in Signatures :
             sb_sw_verify_signature(in.curve, provided, in.bad, signature)
  <2>1. CASE Perform
    BY <1>1, <2>1
  <2>2. CASE PerformJni
    <3> DEFINE none == FALSE
    <3>1. none \in BOOLEAN
      OBVIOUS
    <3>2. \E in \in Inputs :
            \/ sb_sw_compute_public_key(in.curve, none, in.bad)
            \/ sb_sw_shared_secret(in.curve, none, in.bad)
            \/ sb_sw_sign_message_digest(in.curve, none, in.bad)
      BY <2>2 DEF PerformJni, jniComputePublicKey, jniGenerateSharedSecret, jniSignMessageDigest
    <3> HIDE DEF none
    <3> QED
      BY <3>1, <3>2
  <2> QED
    BY <2>1, <2>2
<1>3. /\ "COMPUTE_PUBLIC_KEY" \in Operations /\ "SHARED_SECRET" \in Operations
      /\ "POINT_MULTIPLY" \in Operations /\ "SIGN_MESSAGE_DIGEST" \in Operations
      /\ "VERIFY_SIGNATURE" \in Operations
  BY DEF Operations
<1>4. CASE sb_sw_compute_public_key(in.curve, provided, in.bad)
  BY <1>3, <1>4, ProductBegins, AtOnceKeeps DEF sb_sw_compute_public_key
<1>5. CASE sb_sw_shared_secret(in.curve, provided, in.bad)
  BY <1>3, <1>5, ProductBegins, AtOnceKeeps DEF sb_sw_shared_secret
<1>6. CASE sb_sw_point_multiply(in.curve, provided, in.bad)
  BY <1>3, <1>6, ProductBegins, AtOnceKeeps DEF sb_sw_point_multiply
<1>7. CASE sb_sw_sign_message_digest(in.curve, provided, in.bad)
  BY <1>3, <1>7, SignBegins, AtOnceKeeps DEF sb_sw_sign_message_digest
<1>8. CASE \E signature \in Signatures :
             sb_sw_verify_signature(in.curve, provided, in.bad, signature)
  BY <1>3, <1>8, VerifyBegins, AtOnceKeeps DEF sb_sw_verify_signature
<1> QED
  BY <1>2, <1>4, <1>5, <1>6, <1>7, <1>8

(* Every step preserves the invariant. *)
LEMMA NextIInv == IInv /\ [SwNext]_vars => IInv'
<1> SUFFICES ASSUME IInv, [SwNext]_vars PROVE IInv'
  OBVIOUS
<1>1. DrbgInv /\ Told /\ ContextInv
  BY DEF IInv
<1>2. ASSUME calling = "NONE", UNCHANGED calling, DrbgInv' /\ Told' /\ ContextInv'
      PROVE  IInv'
  BY <1>2 DEF IInv
<1>3. CASE /\ calling = "NONE" /\ DrbgNext
           /\ output' = NoOutput /\ open' = IF ctx = Null THEN Nothing ELSE open
           /\ UNCHANGED <<ctx, calling>>
  <2>1. output'.failed = FALSE /\ output'.wrote = Nothing /\ output'.asserts = TRUE
    BY <1>3 DEF NoOutput
  <2>2. ctx' = Null \/ Sound(ctx', open')
    BY <1>1, <1>3 DEF ContextInv
  <2>3. ContextInv'
    BY <2>1, <2>2 DEF ContextInv
  <2> QED
    BY <1>1, <1>2, <1>3, <2>3, DrbgStepKeeps
<1>4. CASE calling = "NONE" /\ Start /\ UNCHANGED calling
  BY <1>1, <1>2, <1>4, StartBegins
<1>5. CASE calling = "NONE" /\ (Perform \/ PerformJni)
  BY <1>1, <1>5, PerformBegins
<1>6. CASE calling = "NONE" /\ Simple /\ UNCHANGED calling
  BY <1>1, <1>2, <1>6, SimpleLeaves
<1>7. CASE /\ calling = "NONE"
           /\ \E operation \in Operations, unlucky \in BOOLEAN : ContinueAny(operation, unlucky)
           /\ UNCHANGED calling
  <2>1. PICK operation \in Operations, unlucky \in BOOLEAN : ContinueAny(operation, unlucky)
    BY <1>7
  <2>2. Begun(operation)
    BY <1>1, <2>1, ContinueAnyKeeps
  <2> QED
    BY <1>2, <1>7, <2>2 DEF Begun
<1>8. CASE /\ calling = "NONE" /\ (\E operation \in Operations : FinishAny(operation))
           /\ UNCHANGED calling
  BY <1>1, <1>2, <1>8, FinishAnyKeeps
<1>9. CASE Step
  <2>1. calling \in Operations
    BY <1>9 DEF Step, IInv
  <2>2. CASE (\E unlucky \in BOOLEAN : ContinueAny(calling, unlucky)) /\ AtOnce(calling)
    <3>1. Begun(calling)
      BY <1>1, <2>1, <2>2, ContinueAnyKeeps
    <3> QED
      BY <2>1, <2>2, <3>1, AtOnceKeeps
  <2>3. CASE FinishAny(calling) /\ calling' = "NONE"
    BY <1>1, <2>1, <2>3, FinishAnyKeeps DEF IInv
  <2> QED
    BY <1>9, <2>2, <2>3 DEF Step
<1>10. CASE UNCHANGED vars
  BY <1>10 DEF vars, drbgVars, swVars, IInv, DrbgInv, Told, ContextInv, Good
<1> QED
  BY <1>3, <1>4, <1>5, <1>6, <1>7, <1>8, <1>9, <1>10 DEF SwNext

(* The inductive invariant, for any curves, lengths, counts and limits.    *)
THEOREM Inductive == SwSpec => []IInv
BY InitIInv, NextIInv, PTL DEF SwSpec

(* Every variable keeps its type: no counter leaves its interval, and an   *)
(* operation performed at once is the one in the context.                  *)
THEOREM TypeCorrect == SwSpec => []TypeOK
<1>1. IInv => TypeOK
  <2> SUFFICES ASSUME IInv PROVE TypeOK
    OBVIOUS
  <2>1. drbg.reseed_counter \in 0 .. INTERVAL + 1 /\ seeded \in BOOLEAN
    BY DEF IInv, DrbgInv, Good, State, DrbgAssumption
  <2>2. ctx.operation \in Operations \union {"NONE"} /\ ctx.curve \in Curves
    <3>1. CASE ctx = Null
      BY <3>1 DEF Null, SwAssumption
    <3>2. CASE ctx # Null
      <4>1. ctx \in Contexts
        BY <3>2 DEF IInv, ContextInv, Sound
      <4> QED
        BY <4>1 DEF Contexts
    <3> QED
      BY <3>1, <3>2
  <2> QED
    BY <2>1, <2>2 DEF TypeOK, IInv
<1> QED
  BY <1>1, Inductive, PTL

(* No block is put out twice between two inits, whatever calls are made in *)
(* whatever order, and neither the V nor the key kept was put out.         *)
THEOREM Unrepeated == SwSpec => []NeverRepeats
<1>1. IInv => NeverRepeats
  BY DEF IInv, DrbgInv, Good, NeverRepeats
<1> QED
  BY <1>1, Inductive, PTL

(* A DRBG that puts out was seeded, at most INTERVAL calls ago, and who    *)
(* asks for a number of calls is told to reseed just when it must.         *)
THEOREM FreshlySeeded == SwSpec => []OnlyFreshlySeeded
<1>1. IInv => OnlyFreshlySeeded
  BY DEF IInv, DrbgInv, Told, OnlyFreshlySeeded
<1> QED
  BY <1>1, Inductive, PTL

(* No assertion about the DRBG fails: an operation that has asked for its  *)
(* calls at the beginning gets them all.                                   *)
THEOREM NoAssertFails == SwSpec => []AssertsHold
<1>1. IInv => AssertsHold
  BY DEF IInv, ContextInv, Told, AssertsHold
<1> QED
  BY <1>1, Inductive, PTL

(* A finish that succeeds delivers what the operation started last was to  *)
(* compute, and confirms only signatures that are genuine.                 *)
THEOREM Delivered == SwSpec => []Delivers
<1>1. IInv => Delivers
  <2> SUFFICES ASSUME IInv, output.wrote.operation \in Operations
               PROVE  output.wrote = open /\ output.wrote.holds \notin {"other", "out of range"}
    BY DEF Delivers
  <2>1. output.wrote # Nothing /\ output.wrote.operation # "NONE"
    BY DEF Nothing, Operations
  <2>2. output.wrote = open /\ output.wrote.holds \in {"product", "signature", "genuine"}
    BY <2>1 DEF IInv, ContextInv
  <2> QED
    BY <2>2
<1> QED
  BY <1>1, Inductive, PTL

(* What stays in the context belongs to an operation in progress; a call   *)
(* that failed or delivered leaves it cleared.                             *)
THEOREM Wiped == SwSpec => []WipesSecrets
<1>1. IInv => WipesSecrets
  BY SoundIsNotNull DEF IInv, ContextInv, WipesSecrets
<1> QED
  BY <1>1, Inductive, PTL
================================================================================
