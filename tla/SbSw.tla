---------------------------------- MODULE SbSw ----------------------------------
(***************************************************************************)
(* The elliptic curve interface of the C library: one context, in which    *)
(* callers perform operations at once or start, continue and finish them,  *)
(* with a DRBG or without; and the functions Kotlin calls.  Keys, digests  *)
(* and signatures are given by whether they are valid, what a field holds  *)
(* by what was computed into it.  The numbers themselves are in SbPoint.   *)
(***************************************************************************)
EXTENDS SbDrbg

CONSTANTS
  Curves,     \* those compiled in; a curve_id may be any other number
  BITS,       \* SB_FE_BITS
  ITERATIONS, \* SB_SW_POINT_ITERATIONS
  SizeMod,    \* sb_size_t counts modulo this
  CurveIds,   \* passed by callers
  Faults      \* sets of what is wrong with the inputs of a call

CANDIDATES == 4   \* SB_SW_FIPS186_4_CANDIDATES
ELEM == 32        \* SB_ELEM_BYTES

ASSUME SwAssumption ==
  /\ Curves \subseteq {"P256", "SECP256K1"} /\ "P256" \in Curves
  /\ BITS \in Nat \ {0} /\ ITERATIONS \in Nat \ {0}
  /\ SizeMod \in Nat /\ SizeMod > BITS
  /\ MIN_ENTROPY <= ELEM /\ MIN_NONCE <= ELEM
  /\ Faults \subseteq SUBSET {"secret", "Z", "private", "public"}

VARIABLES
  ctx,     \* sb_sw_context_t: the saved state, and what the rest holds
  calling, \* the function in progress that performs an operation at once
  output,  \* of the last call: whether it failed, what a finish wrote,
           \* *done, and whether its assertions about the DRBG held
  open     \* the operation started last, if no call failed since

swVars == <<ctx, calling, output, open>>
vars == <<drbgVars, swVars>>

--------------------------------------------------------------------------------

Operations ==
  {"COMPUTE_PUBLIC_KEY", "SHARED_SECRET", "POINT_MULTIPLY", "SIGN_MESSAGE_DIGEST",
   "VERIFY_SIGNATURE"}
Signatures == {"genuine", "other", "out of range"}

(* sb_sw_point_mult_op_stage_t, sb_sw_sign_op_stage_t and                  *)
(* sb_sw_verify_op_stage_t share numbers.                                  *)
Ladder == 0
InvZ == 1
MultDone == 2
SignInv == 2
SignDone == 3
VerifyInvS == 0
VerifyInvZ == 1
VerifyLadder == 2
VerifyTest == 3
VerifyDone == 4

(* All zeros; curve_id 0 is P-256. *)
Null ==
  [operation |-> "NONE", curve |-> "P256", stage |-> 0, i |-> 0, res |-> FALSE, holds |-> "nothing"]

Nothing == [operation |-> "NONE", holds |-> "nothing"]
NoOutput == [failed |-> FALSE, wrote |-> Nothing, done |-> FALSE, asserts |-> TRUE]

sb_sw_curve_from_id(curve) == If(curve \notin Curves, "CURVE_INVALID")

(* A call that keeps the context unless it fails: SB_RETURN_ERRORS. *)
Yield(err, c, done, asserts) ==
  /\ ctx' = IF err # {} THEN Null ELSE c
  /\ output' = [failed |-> err # {}, wrote |-> Nothing, done |-> done, asserts |-> asserts]

(* What a finish wrote: its output was cleared when it began, and stays so *)
(* if it fails.                                                            *)
Written(call, err, value) ==
  IF err # {} THEN Nothing ELSE [operation |-> call, holds |-> value]

(* Mutant of Return: an error returns early, before the context is cleared. *)
returnEarly(call, err, value, asserts) ==
  /\ ctx' = IF err # {} THEN ctx ELSE Null
  /\ output' = [failed |-> err # {}, wrote |-> Written(call, err, value),
                done |-> FALSE, asserts |-> asserts]

(* A call that ends with the context cleared: SB_RETURN. *)
Return(call, err, value, asserts) ==
  /\ ctx' = Null
  /\ output' = [failed |-> err # {}, wrote |-> Written(call, err, value),
                done |-> FALSE, asserts |-> asserts]

(* Curve and DRBG are asked before anything else. *)
Early(curve, provided, calls) ==
  sb_sw_curve_from_id(curve) \union
    IF provided THEN sb_hmac_drbg_reseed_required(drbg, calls) ELSE {}

Consult(provided, calls, early, g) ==
  IF provided THEN Use(calls, early, g) ELSE LeaveDrbg

Dummy(g) == sb_hmac_drbg_generate_additional_dummy(g, ELEM)
(* The RFC 6979 generator has no additional input. *)
Plain(g) == sb_hmac_drbg_generate(g, ELEM)

(* What is wrong with a call, if anything: the candidates for a secret, or *)
(* for Z, are all invalid; the private or the public key is invalid.       *)
sb_sw_k_from_buf(bad) == If("secret" \in bad, "DRBG_FAILURE")
sb_sw_z_from_buf(bad) == If("Z" \in bad, "DRBG_FAILURE")
InvalidPrivate(bad) == If("private" \in bad, "PRIVATE_KEY_INVALID")
InvalidPublic(bad) == If("public" \in bad, "PUBLIC_KEY_INVALID")

(* The candidates for Z come from the DRBG, or from an HKDF. *)
sb_sw_generate_z(provided, early, additional) ==
  IF provided /\ early = {}
  THEN sb_hmac_drbg_generate_additional_vec(Fresh(drbg), CANDIDATES * ELEM, additional)
  ELSE Fresh(drbg)

--------------------------------------------------------------------------------
(* Operations in steps.  A continue function takes and returns the context. *)

Started(operation, curve) ==
  [operation |-> operation, curve |-> curve, stage |-> Ladder, i |-> BITS - 1, res |-> FALSE,
   holds |-> "nothing"]

(* Mutant of sb_sw_point_mult_continue: the stage is not saved. *)
continueInLadder(c) ==
  CASE c.stage = Ladder ->
         [c EXCEPT !.i = IF c.i > ITERATIONS THEN c.i - ITERATIONS ELSE 0]
    [] c.stage = InvZ -> [c EXCEPT !.stage = MultDone, !.holds = "product"]
    [] OTHER -> c

(* ITERATIONS bits of the scalar at a time, and the recovery of Z. *)
sb_sw_point_mult_continue(c) ==
  CASE c.stage = Ladder ->
         LET i == IF c.i > ITERATIONS THEN c.i - ITERATIONS ELSE 0
         IN  [c EXCEPT !.i = i, !.stage = IF i = 0 THEN InvZ ELSE Ladder]
    [] c.stage = InvZ -> [c EXCEPT !.stage = MultDone, !.holds = "product"]
    [] OTHER -> c

sb_sw_point_mult_is_finished(c) == c.stage = MultDone
sb_sw_sign_is_finished(c) == c.stage = SignDone
sb_sw_verify_is_finished(c) == c.stage = VerifyDone

(* The stage after the product's last one inverts the secret. *)
sb_sw_sign_continue(c) ==
  CASE c.stage = SignDone -> c
    [] c.stage = SignInv -> [c EXCEPT !.stage = SignDone, !.holds = "signature"]
    [] OTHER -> sb_sw_point_mult_continue(c)

(* The loop ends when the index has gone below 0, that is wrapped. *)
sb_sw_point_mult_add_z_continue(c) ==
  IF c.stage = VerifyInvZ THEN [c EXCEPT !.i = BITS - 1, !.stage = VerifyLadder]
  ELSE LET ops == IF c.i + 1 > ITERATIONS THEN ITERATIONS ELSE c.i + 1
           i == (c.i + SizeMod - ops) % SizeMod
       IN  [c EXCEPT !.i = i, !.stage = IF i >= BITS THEN VerifyTest ELSE VerifyLadder]

sb_sw_verify_continue(c) ==
  CASE c.stage = VerifyInvS ->
         [c EXCEPT !.stage = VerifyInvZ, !.res = (@ /\ c.holds # "out of range")]
    [] c.stage \in {VerifyInvZ, VerifyLadder} -> sb_sw_point_mult_add_z_continue(c)
    [] c.stage = VerifyTest ->
         [c EXCEPT !.stage = VerifyDone, !.res = (@ /\ c.holds = "genuine")]
    [] OTHER -> c

(* Mutant of Incorrect: the operation is not checked. *)
neverIncorrect(operation, c) == {}

Incorrect(operation, c) == If(c.operation # operation, "INCORRECT_OPERATION")

(* *done is set by the call that reaches the last stage, and by any after. *)
Continue(err, c, done) ==
  /\ Yield(err, c, done, TRUE)
  /\ open' = IF err # {} THEN Nothing ELSE open
  /\ LeaveDrbg

sb_sw_compute_public_key_continue ==
  LET err == Incorrect("COMPUTE_PUBLIC_KEY", ctx)
      c == sb_sw_point_mult_continue(ctx)
  IN  Continue(err, c, sb_sw_point_mult_is_finished(c))

sb_sw_shared_secret_continue ==
  LET err == Incorrect("SHARED_SECRET", ctx) \union sb_sw_curve_from_id(ctx.curve)
      c == sb_sw_point_mult_continue(ctx)
  IN  Continue(err, c, sb_sw_point_mult_is_finished(c))

sb_sw_point_multiply_continue ==
  LET err == Incorrect("POINT_MULTIPLY", ctx) \union sb_sw_curve_from_id(ctx.curve)
      c == sb_sw_point_mult_continue(ctx)
  IN  Continue(err, c, sb_sw_point_mult_is_finished(c))

(* unlucky: r or s came out as zero. *)
sb_sw_sign_message_digest_continue(unlucky) ==
  LET err == Incorrect("SIGN_MESSAGE_DIGEST", ctx) \union sb_sw_curve_from_id(ctx.curve)
      c == sb_sw_sign_continue(ctx)
      late == If(unlucky /\ ctx.stage = SignInv, "DRBG_FAILURE")
  IN  Continue(IF err # {} THEN err ELSE late, c, sb_sw_sign_is_finished(c))

sb_sw_verify_signature_continue ==
  LET err == Incorrect("VERIFY_SIGNATURE", ctx) \union sb_sw_curve_from_id(ctx.curve)
      c == sb_sw_verify_continue(ctx)
  IN  Continue(err, c, sb_sw_verify_is_finished(c))

--------------------------------------------------------------------------------
(* Starts.                                                                 *)

sb_sw_point_mult_started(operation, curve, early, g, late, provided) ==
  LET err == IF early # {} THEN early ELSE g.errors \union late
  IN  /\ Consult(provided, 1, early, g)
      /\ Yield(err, Started(operation, curve), FALSE, g.errors = {})
      /\ open' = IF err # {} THEN Nothing ELSE [operation |-> operation, holds |-> "product"]

sb_sw_compute_public_key_start(curve, provided, bad) ==
  LET early == Early(curve, provided, 1)
      g == sb_sw_generate_z(provided, early, ELEM + 25)
      late == sb_sw_z_from_buf(bad) \union InvalidPrivate(bad)
  IN  sb_sw_point_mult_started("COMPUTE_PUBLIC_KEY", curve, early, g, late, provided)

sb_sw_multiply_shared_start(operation, curve, provided, bad) ==
  LET early == Early(curve, provided, 1)
      g == sb_sw_generate_z(provided, early, 2 * ELEM + 22)
      late == sb_sw_z_from_buf(bad) \union InvalidPrivate(bad)
                \union InvalidPublic(bad)
  IN  sb_sw_point_mult_started(operation, curve, early, g, late, provided)

sb_sw_shared_secret_start(curve, provided, bad) ==
  sb_sw_multiply_shared_start("SHARED_SECRET", curve, provided, bad)
sb_sw_point_multiply_start(curve, provided, bad) ==
  sb_sw_multiply_shared_start("POINT_MULTIPLY", curve, provided, bad)

(* Mutant of SignCalls: the call for Z is not counted. *)
candidatesOnly == CANDIDATES

SignCalls == CANDIDATES + 1

(* The calls for the secret, of the DRBG provided or of one seeded with    *)
(* the key and the message.                                                *)
SecretFrom(provided) ==
  IF provided
  THEN Dummy(Dummy(Dummy(sb_hmac_drbg_generate_additional_vec(Fresh(drbg), ELEM, 2 * ELEM))))
  ELSE Plain(Plain(Plain(Plain(Seeded(ELEM, ELEM, 0)))))

(* The DRBG of RFC 6979 is cleared before the operation starts. *)
sb_sw_sign_message_digest_start(curve, provided, bad) ==
  LET early == Early(curve, provided, SignCalls)
      secret == SecretFrom(provided)
      noSecret == secret.errors \union sb_sw_k_from_buf(bad)
      z == sb_hmac_drbg_generate_additional_dummy(secret, 4 * ELEM)
      late == z.errors \union sb_sw_z_from_buf(bad)
      g == IF early # {} THEN Fresh(drbg) ELSE IF noSecret # {} THEN secret ELSE z
      err == IF early # {} THEN early
             ELSE IF noSecret # {} THEN noSecret
             ELSE IF late # {} THEN late
             ELSE InvalidPrivate(bad)
  IN  /\ Consult(provided, SignCalls, early, g)
      /\ Yield(err, Started("SIGN_MESSAGE_DIGEST", curve), FALSE, g.errors = {})
      /\ open' = IF err # {} THEN Nothing
                 ELSE [operation |-> "SIGN_MESSAGE_DIGEST", holds |-> "signature"]

(* The digest is the hash's; the rest is the same. *)
sb_sw_sign_message_sha256_start(curve, provided, bad) ==
  sb_sw_sign_message_digest_start(curve, provided, bad)

sb_sw_verify_signature_start(curve, provided, bad, signature) ==
  LET early == Early(curve, provided, 1)
      g == sb_sw_generate_z(provided, early, 4 * ELEM + 23)
      late == sb_sw_z_from_buf(bad) \union InvalidPublic(bad)
      err == IF early # {} THEN early ELSE g.errors \union late
      c == [operation |-> "VERIFY_SIGNATURE", curve |-> curve, stage |-> VerifyInvS,
            i |-> 0, res |-> TRUE, holds |-> signature]
  IN  /\ Consult(provided, 1, early, g)
      /\ Yield(err, c, FALSE, g.errors = {})
      /\ open' = IF err # {} THEN Nothing
                 ELSE [operation |-> "VERIFY_SIGNATURE", holds |-> signature]

sb_sw_verify_signature_sha256_start(curve, provided, bad, signature) ==
  sb_sw_verify_signature_start(curve, provided, bad, signature)

--------------------------------------------------------------------------------
(* Finishes: refused, and the context cleared, when another operation is    *)
(* in progress or this one is not at its end.                              *)

Unfinished(finished) == If(~finished, "NOT_FINISHED")

Finish(operation, err, value) ==
  /\ Return(operation, err, value, TRUE)
  /\ open' = IF err # {} THEN Nothing ELSE open
  /\ LeaveDrbg

sb_sw_compute_public_key_finish ==
  LET err == Incorrect("COMPUTE_PUBLIC_KEY", ctx)
      late == Unfinished(sb_sw_point_mult_is_finished(ctx))
  IN  Finish("COMPUTE_PUBLIC_KEY", IF err # {} THEN err ELSE late, ctx.holds)

sb_sw_shared_secret_finish ==
  LET err == Incorrect("SHARED_SECRET", ctx) \union sb_sw_curve_from_id(ctx.curve)
      late == Unfinished(sb_sw_point_mult_is_finished(ctx))
  IN  Finish("SHARED_SECRET", IF err # {} THEN err ELSE late, ctx.holds)

sb_sw_point_multiply_finish ==
  LET err == Incorrect("POINT_MULTIPLY", ctx) \union sb_sw_curve_from_id(ctx.curve)
      late == Unfinished(sb_sw_point_mult_is_finished(ctx))
  IN  Finish("POINT_MULTIPLY", IF err # {} THEN err ELSE late, ctx.holds)

sb_sw_sign_message_digest_finish ==
  LET err == Incorrect("SIGN_MESSAGE_DIGEST", ctx)
      late == Unfinished(sb_sw_sign_is_finished(ctx))
  IN  Finish("SIGN_MESSAGE_DIGEST", IF err # {} THEN err ELSE late, ctx.holds)

sb_sw_verify_signature_finish ==
  LET err == Incorrect("VERIFY_SIGNATURE", ctx)
      late == Unfinished(sb_sw_verify_is_finished(ctx))
      invalid == If(~ctx.res, "SIGNATURE_INVALID")
  IN  Finish("VERIFY_SIGNATURE",
             IF err # {} THEN err ELSE IF late # {} THEN late ELSE invalid, ctx.holds)

--------------------------------------------------------------------------------
(* Operations at once: do { continue } while (!done), and finish.          *)

AtOnce(operation) == calling' = IF output'.failed THEN "NONE" ELSE operation

sb_sw_compute_public_key(curve, provided, bad) ==
  /\ sb_sw_compute_public_key_start(curve, provided, bad)
  /\ AtOnce("COMPUTE_PUBLIC_KEY")

sb_sw_shared_secret(curve, provided, bad) ==
  /\ sb_sw_shared_secret_start(curve, provided, bad)
  /\ AtOnce("SHARED_SECRET")

sb_sw_point_multiply(curve, provided, bad) ==
  /\ sb_sw_point_multiply_start(curve, provided, bad)
  /\ AtOnce("POINT_MULTIPLY")

sb_sw_sign_message_digest(curve, provided, bad) ==
  /\ sb_sw_sign_message_digest_start(curve, provided, bad)
  /\ AtOnce("SIGN_MESSAGE_DIGEST")

(* The digest is computed in the context, which the start clears. *)
sb_sw_sign_message_sha256(curve, provided, bad) ==
  sb_sw_sign_message_digest(curve, provided, bad)

sb_sw_verify_signature(curve, provided, bad, signature) ==
  /\ sb_sw_verify_signature_start(curve, provided, bad, signature)
  /\ AtOnce("VERIFY_SIGNATURE")

sb_sw_verify_signature_sha256(curve, provided, bad, signature) ==
  sb_sw_verify_signature(curve, provided, bad, signature)

ContinueAny(operation, unlucky) ==
  CASE operation = "COMPUTE_PUBLIC_KEY" -> sb_sw_compute_public_key_continue
    [] operation = "SHARED_SECRET" -> sb_sw_shared_secret_continue
    [] operation = "POINT_MULTIPLY" -> sb_sw_point_multiply_continue
    [] operation = "SIGN_MESSAGE_DIGEST" -> sb_sw_sign_message_digest_continue(unlucky)
    [] OTHER -> sb_sw_verify_signature_continue

FinishAny(operation) ==
  CASE operation = "COMPUTE_PUBLIC_KEY" -> sb_sw_compute_public_key_finish
    [] operation = "SHARED_SECRET" -> sb_sw_shared_secret_finish
    [] operation = "POINT_MULTIPLY" -> sb_sw_point_multiply_finish
    [] operation = "SIGN_MESSAGE_DIGEST" -> sb_sw_sign_message_digest_finish
    [] OTHER -> sb_sw_verify_signature_finish

Step ==
  /\ calling # "NONE"
  /\ \/ /\ ~output.done
        /\ \E unlucky \in BOOLEAN : ContinueAny(calling, unlucky)
        /\ AtOnce(calling)
     \/ /\ output.done
        /\ FinishAny(calling)
        /\ calling' = "NONE"

--------------------------------------------------------------------------------
(* Functions without steps.  They clear the context, whatever was in       *)
(* progress; what they compute is in SbPoint, and what they write is not   *)
(* followed here.  The two that make a private key write the candidate     *)
(* even when none was valid and they fail.                                 *)

Whole(err, asserts) == Return("NONE", err, "nothing", asserts) /\ open' = Nothing

sb_sw_generate_private_key(curve, bad) ==
  LET early == Early(curve, TRUE, CANDIDATES)
      g == IF early = {} THEN Dummy(Dummy(Dummy(Dummy(Fresh(drbg))))) ELSE Fresh(drbg)
      err == IF early # {} THEN early ELSE IF g.errors # {} THEN g.errors ELSE sb_sw_k_from_buf(bad)
  IN  Consult(TRUE, CANDIDATES, early, g) /\ Whole(err, g.errors = {})

(* Checks of inputs, and what follows from them alone. *)
Checked(curve, invalid) ==
  LET early == sb_sw_curve_from_id(curve)
  IN  LeaveDrbg /\ Whole(IF early # {} THEN early ELSE invalid, TRUE)

sb_sw_hkdf_expand_private_key(curve, bad) == Checked(curve, sb_sw_k_from_buf(bad))

(* A scalar inverted behind a factor the DRBG, or an HKDF, draws. *)
Inverted(curve, provided, bad, additional) ==
  LET early == Early(curve, provided, 1)
      g == sb_sw_generate_z(provided, early, additional)
      late == sb_sw_k_from_buf(bad) \union InvalidPrivate(bad)
  IN  /\ Consult(provided, 1, early, g)
      /\ Whole(IF early # {} THEN early ELSE g.errors \union late, g.errors = {})

sb_sw_invert_private_key(curve, provided, bad) == Inverted(curve, provided, bad, ELEM)

sb_sw_composite_sign_wrap_message_digest(curve, provided, bad) ==
  Inverted(curve, provided, bad, 2 * ELEM)

sb_sw_composite_sign_unwrap_signature(curve, bad, signature) ==
  Checked(curve, InvalidPrivate(bad) \union
                   If(signature = "out of range", "SIGNATURE_INVALID"))

sb_sw_valid_private_key(curve, bad) == Checked(curve, InvalidPrivate(bad))
sb_sw_valid_public_key(curve, bad) == Checked(curve, InvalidPublic(bad))
sb_sw_compress_public_key(curve, bad) == Checked(curve, InvalidPublic(bad))
sb_sw_decompress_public_key(curve, bad) == Checked(curve, InvalidPublic(bad))

--------------------------------------------------------------------------------
(* The functions Kotlin calls: without a DRBG, any number for the curve,   *)
(* and null for any error.                                                 *)

jniComputePublicKey(curve, bad) ==
  sb_sw_compute_public_key(curve, FALSE, bad)
jniGenerateSharedSecret(curve, bad) ==
  sb_sw_shared_secret(curve, FALSE, bad)
jniSignMessageDigest(curve, bad) ==
  sb_sw_sign_message_digest(curve, FALSE, bad)
jniCompressPublicKey(curve, bad) == sb_sw_compress_public_key(curve, bad)
jniVerifyPublicKey(curve, bad) == sb_sw_valid_public_key(curve, bad)

--------------------------------------------------------------------------------

SwInit ==
  /\ DrbgInit
  /\ ctx = Null /\ calling = "NONE" /\ open = Nothing
  /\ output = NoOutput

(* A curve that is not compiled in is refused before the rest is looked at. *)
Inputs ==
  {in \in [curve : CurveIds, bad : Faults] : in.curve \in Curves \/ in.bad = {}}

Start ==
  \E in \in Inputs, provided \in BOOLEAN :
    \/ sb_sw_compute_public_key_start(in.curve, provided, in.bad)
    \/ sb_sw_shared_secret_start(in.curve, provided, in.bad)
    \/ sb_sw_point_multiply_start(in.curve, provided, in.bad)
    \/ sb_sw_sign_message_sha256_start(in.curve, provided, in.bad)
    \/ \E signature \in Signatures :
         sb_sw_verify_signature_sha256_start(in.curve, provided, in.bad, signature)

Perform ==
  \E in \in Inputs, provided \in BOOLEAN :
    \/ sb_sw_point_multiply(in.curve, provided, in.bad)
    \/ sb_sw_sign_message_sha256(in.curve, provided, in.bad)
    \/ \E signature \in Signatures :
         sb_sw_verify_signature_sha256(in.curve, provided, in.bad, signature)

PerformJni ==
  \E in \in Inputs :
    \/ jniComputePublicKey(in.curve, in.bad)
    \/ jniGenerateSharedSecret(in.curve, in.bad)
    \/ jniSignMessageDigest(in.curve, in.bad)

Simple ==
  \E in \in Inputs :
    \/ sb_sw_generate_private_key(in.curve, in.bad)
    \/ sb_sw_hkdf_expand_private_key(in.curve, in.bad)
    \/ \E provided \in BOOLEAN :
         \/ sb_sw_invert_private_key(in.curve, provided, in.bad)
         \/ sb_sw_composite_sign_wrap_message_digest(in.curve, provided, in.bad)
    \/ \E signature \in Signatures : sb_sw_composite_sign_unwrap_signature(in.curve, in.bad, signature)
    \/ sb_sw_valid_private_key(in.curve, in.bad)
    \/ sb_sw_decompress_public_key(in.curve, in.bad)
    \/ jniCompressPublicKey(in.curve, in.bad)
    \/ jniVerifyPublicKey(in.curve, in.bad)

(* The DRBG is the caller's, who seeds it, asks it and draws from it. *)
SwNext ==
  \/ /\ calling = "NONE" /\ DrbgNext
     /\ output' = NoOutput /\ open' = IF ctx = Null THEN Nothing ELSE open
     /\ UNCHANGED <<ctx, calling>>
  \/ calling = "NONE" /\ Start /\ UNCHANGED calling
  \/ calling = "NONE" /\ (Perform \/ PerformJni)
  \/ calling = "NONE" /\ Simple /\ UNCHANGED calling
  \/ /\ calling = "NONE"
     /\ \E operation \in Operations, unlucky \in BOOLEAN : ContinueAny(operation, unlucky)
     /\ UNCHANGED calling
  \/ calling = "NONE" /\ (\E operation \in Operations : FinishAny(operation)) /\ UNCHANGED calling
  \/ Step

SwSpec == SwInit /\ [][SwNext]_vars /\ WF_vars(Step)

--------------------------------------------------------------------------------

TypeOK ==
  /\ drbg.reseed_counter \in 0 .. INTERVAL + 1 /\ seeded \in BOOLEAN
  /\ ctx.operation \in Operations \union {"NONE"} /\ ctx.curve \in Curves
  /\ calling \in {"NONE", ctx.operation}

(* What the assertions say: once an operation has asked for as many calls  *)
(* as it makes, the DRBG refuses none of them, so that no operation gives  *)
(* up halfway, with a secret drawn; and one that the DRBG refuses has left *)
(* it alone.                                                               *)
AssertsHold ==
  /\ output.asserts
  /\ answer.failed => answer.made = 0

(* A finish that succeeds delivers the outcome of the operation started    *)
(* last, carried to its end, whichever calls came between; and of a        *)
(* signature it says that it is genuine only when it is.                   *)
Delivers ==
  output.wrote.operation \in Operations =>
    output.wrote = open /\ output.wrote.holds \notin {"other", "out of range"}

(* After a call that failed or ended the context is all zeros: a secret    *)
(* stays in it only while the operation started last is in progress.       *)
WipesSecrets ==
  ctx # Null =>
    /\ ~output.failed /\ output.wrote = Nothing
    /\ ctx.operation = open.operation

(* An operation performed at once comes back. *)
CallReturns == calling # "NONE" ~> calling = "NONE"
================================================================================
