--------------------------------- MODULE SbDrbg ---------------------------------
(***************************************************************************)
(* HMAC-DRBG of the C library: seeding, reseeding, the query whether a     *)
(* batch of calls can be made, and generation.  Inputs and outputs are     *)
(* given by their lengths.  A value of HMAC is named by its depth, which   *)
(* is one more than that of its key and of the V in its message: values of *)
(* different depths come from different inputs.  Depth counts from the     *)
(* block last put out, which has depth 0; blocks before it have none above.*)
(***************************************************************************)
EXTENDS Integers

CONSTANTS
  SIZE,              \* SB_SHA256_SIZE
  INTERVAL,          \* SB_HMAC_DRBG_RESEED_INTERVAL
  MAX_BYTES,         \* SB_HMAC_DRBG_MAX_BYTES_PER_REQUEST
  MIN_ENTROPY, MAX_ENTROPY, MIN_NONCE, MAX_PERSONALIZATION, MAX_ADDITIONAL,
  Lengths,           \* of the inputs, and of outputs
  Counts,            \* of the batches asked about
  MaxDepth           \* bound: depth at which calls that put out nothing are made

(* The limits the headers check when they are compiled. *)
ASSUME DrbgAssumption ==
  /\ SIZE \in Nat \ {0} /\ INTERVAL \in Nat /\ INTERVAL >= 18
  /\ MAX_BYTES \in Nat /\ MAX_BYTES >= 128
  /\ MIN_ENTROPY \in Nat /\ MIN_NONCE \in Nat
  /\ MAX_ENTROPY \in Nat /\ MAX_ENTROPY >= 256
  /\ MAX_PERSONALIZATION = MAX_ENTROPY /\ MAX_ADDITIONAL = MAX_ENTROPY
  /\ Lengths \subseteq Nat /\ Counts \subseteq Nat /\ MaxDepth \in Nat

VARIABLES
  drbg,      \* sb_hmac_drbg_state_t
  answer,    \* what the last call got from the DRBG: an error, the advice to
             \* reseed, the generate calls it was to make and those it made
  seeded,    \* the last init succeeded
  age,       \* successful generate calls since the last seeding
  repeated   \* a block was put out that no depth tells from an earlier one

drbgVars == <<drbg, answer, seeded, age, repeated>>

--------------------------------------------------------------------------------

Hmac(key, V) == 1 + IF key > V THEN key ELSE V

Zero == [K |-> 0, V |-> 0, reseed_counter |-> 0]

(* K = HMAC(K, V || r || provided), V = HMAC(K, V) *)
sb_hmac_drbg_update_step(d) ==
  LET key == Hmac(d.K, d.V)
  IN  [d EXCEPT !.K = key, !.V = Hmac(key, d.V)]

sb_hmac_drbg_update_vec(d, any_provided) ==
  LET first == sb_hmac_drbg_update_step(d)
  IN  IF any_provided THEN sb_hmac_drbg_update_step(first) ELSE first

Blocks(length) == (length + SIZE - 1) \div SIZE

(* Blocks of output: V = HMAC(K, V) for each.  The last one, V itself, is  *)
(* the one depths count from.                                              *)
Output(d, n) ==
  IF n = 0 THEN d ELSE [d EXCEPT !.K = d.K - (Hmac(d.K, d.V) + n - 1), !.V = 0]

Provided(d, additional) == IF additional > 0 THEN sb_hmac_drbg_update_vec(d, TRUE) ELSE d

(* Mutant of updateAndOutput: the key is not updated after the output. *)
outputOnly(d, length, additional) ==
  LET start == Provided(d, additional)
  IN  [drbg |-> [Output(start, Blocks(length)) EXCEPT !.reseed_counter = @ + 1],
       repeats |-> Blocks(length) > 0 /\ Hmac(start.K, start.V) <= 0]

(* A generate call that is not refused: the state after it, and whether    *)
(* its first block may be one put out before.                              *)
updateAndOutput(d, length, additional) ==
  LET start == Provided(d, additional)
      end == Output(start, Blocks(length))
  IN  [drbg |-> [sb_hmac_drbg_update_vec(end, additional > 0) EXCEPT !.reseed_counter = @ + 1],
       repeats |-> Blocks(length) > 0 /\ Hmac(start.K, start.V) <= 0]

If(condition, error) == IF condition THEN {error} ELSE {}

(* Mutant of refused: an interval may be exceeded by one call. *)
refusedLate(d, length, additional, required) ==
  If(d.reseed_counter = 0, "DRBG_UNINITIALIZED") \union
  If(length > MAX_BYTES, "REQUEST_TOO_LARGE") \union
  If(required /\ additional = 0, "ADDITIONAL_INPUT_REQUIRED") \union
  If(additional > MAX_ADDITIONAL, "INPUT_TOO_LARGE") \union
  If(d.reseed_counter > INTERVAL + 1, "RESEED_REQUIRED")

(* Why generate_additional_vec_opt refuses a call. *)
refused(d, length, additional, required) ==
  If(d.reseed_counter = 0, "DRBG_UNINITIALIZED") \union
  If(length > MAX_BYTES, "REQUEST_TOO_LARGE") \union
  If(required /\ additional = 0, "ADDITIONAL_INPUT_REQUIRED") \union
  If(additional > MAX_ADDITIONAL, "INPUT_TOO_LARGE") \union
  If(d.reseed_counter > INTERVAL, "RESEED_REQUIRED")

(* A caller that makes several calls adds up their errors and goes on: g   *)
(* is the DRBG with the errors so far, and the calls made.                 *)
Fresh(d) == [drbg |-> d, errors |-> {}, made |-> 0, repeats |-> FALSE]

(* What init makes of a DRBG, whatever it was. *)
Seeded(entropy, nonce, personalization) ==
  LET errors ==
        If(entropy < MIN_ENTROPY \/ nonce < MIN_NONCE, "INSUFFICIENT_ENTROPY") \union
        If(\/ entropy > MAX_ENTROPY \/ nonce > MAX_ENTROPY
           \/ personalization > MAX_PERSONALIZATION, "INPUT_TOO_LARGE")
      start == sb_hmac_drbg_update_vec(Zero, TRUE)
  IN  [Fresh(IF errors # {} THEN Zero ELSE [start EXCEPT !.reseed_counter = 1])
         EXCEPT !.errors = errors]

sb_hmac_drbg_generate_additional_vec_opt(g, length, additional, required) ==
  LET errors == refused(g.drbg, length, additional, required)
      done == updateAndOutput(g.drbg, length, additional)
  IN  IF errors # {}
      THEN [g EXCEPT !.errors = @ \union errors]
      ELSE [drbg |-> done.drbg, errors |-> g.errors, made |-> g.made + 1,
            repeats |-> g.repeats \/ done.repeats]

sb_hmac_drbg_generate(g, length) ==
  sb_hmac_drbg_generate_additional_vec_opt(g, length, 0, FALSE)
sb_hmac_drbg_generate_additional_vec(g, length, additional) ==
  sb_hmac_drbg_generate_additional_vec_opt(g, length, additional, TRUE)
(* One byte of additional input. *)
sb_hmac_drbg_generate_additional_dummy(g, length) ==
  sb_hmac_drbg_generate_additional_vec_opt(g, length, 1, TRUE)

sb_hmac_drbg_reseed_required(d, count) ==
  If(d.reseed_counter = 0, "DRBG_UNINITIALIZED") \union
  If(d.reseed_counter + count > INTERVAL + 1, "RESEED_REQUIRED")

--------------------------------------------------------------------------------

Answer(errors, calls, made) ==
  [failed |-> errors # {}, reseed |-> "RESEED_REQUIRED" \in errors,
   calls |-> calls, made |-> made]
Quiet == Answer({}, 0, 0)

DrbgInit ==
  /\ drbg = Zero /\ answer = Quiet
  /\ seeded = FALSE /\ age = 0 /\ repeated = FALSE

Bounded == drbg.V <= MaxDepth

(* The state is cleared, and keyed, before the inputs are checked. *)
sb_hmac_drbg_init(entropy, nonce, personalization) ==
  LET g == Seeded(entropy, nonce, personalization)
  IN  /\ drbg' = g.drbg
      /\ answer' = Answer(g.errors, 0, 0)
      /\ seeded' = (g.errors = {}) /\ age' = 0 /\ repeated' = FALSE

sb_hmac_drbg_reseed(entropy, additional) ==
  LET errors ==
        If(drbg.reseed_counter = 0, "DRBG_UNINITIALIZED") \union
        If(entropy < MIN_ENTROPY, "INSUFFICIENT_ENTROPY") \union
        If(entropy > MAX_ENTROPY \/ additional > MAX_ADDITIONAL, "INPUT_TOO_LARGE")
      next == sb_hmac_drbg_update_vec(drbg, TRUE)
  IN  /\ Bounded
      /\ drbg' = IF errors # {} THEN drbg ELSE [next EXCEPT !.reseed_counter = 1]
      /\ answer' = Answer(errors, 0, 0)
      /\ age' = IF errors # {} THEN age ELSE 0
      /\ UNCHANGED <<seeded, repeated>>

Query(count) ==
  LET errors == sb_hmac_drbg_reseed_required(drbg, count)
  IN  /\ answer' = Answer(errors, count, 0)
      /\ UNCHANGED <<drbg, seeded, age, repeated>>

(* An operation of so many calls that went as g says; or that was refused  *)
(* before its first call, and left the DRBG alone.                         *)
Use(calls, early, g) ==
  /\ drbg' = g.drbg
  /\ answer' = Answer(early \union g.errors, calls, g.made)
  /\ age' = age + g.made
  /\ repeated' = (repeated \/ g.repeats)
  /\ UNCHANGED seeded

(* A call that has nothing to do with the DRBG. *)
LeaveDrbg ==
  answer' = Quiet /\ UNCHANGED <<drbg, seeded, age, repeated>>

Generate(length) ==
  (length = 0 => Bounded) /\ Use(1, {}, sb_hmac_drbg_generate(Fresh(drbg), length))
GenerateAdditional(length, additional) ==
  (length = 0 => Bounded) /\ Use(1, {}, sb_hmac_drbg_generate_additional_vec(Fresh(drbg), length, additional))

DrbgNext ==
  \/ \E e, n, p \in Lengths : sb_hmac_drbg_init(e, n, p)
  \/ \E e, a \in Lengths : sb_hmac_drbg_reseed(e, a)
  \/ \E count \in Counts : Query(count)
  \/ \E n \in Lengths : Generate(n)
  \/ \E n, a \in Lengths : GenerateAdditional(n, a)

--------------------------------------------------------------------------------

(* Between two inits no block is put out twice, and neither the V nor the  *)
(* key that are kept was put out, by any mix of calls of any lengths, of   *)
(* operations and of reseedings.  More is not said: after a call without   *)
(* additional input, the V kept is HMAC of the last block under the key    *)
(* kept, so that the state tells whether a guess of that block is right.   *)
(* sb_hmac_drbg.h warns that generate may not be backtracking resistant.   *)
NeverRepeats ==
  /\ ~repeated
  /\ drbg.reseed_counter > 0 => drbg.K > 0 /\ drbg.V > 0

(* What is put out comes from a DRBG whose last init succeeded, at most    *)
(* INTERVAL times since it was last seeded; and who asks for a number of   *)
(* calls, in an operation or with reseed_required, is told to reseed just  *)
(* when they would be more than that.                                      *)
OnlyFreshlySeeded ==
  /\ age > 0 => seeded /\ age <= INTERVAL
  /\ answer.reseed => age + answer.calls > INTERVAL
  /\ ~answer.failed => age - answer.made + answer.calls <= INTERVAL
================================================================================
