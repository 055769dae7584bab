---------------------------- MODULE ExtrinsicsProofs ----------------------------
(***************************************************************************)
(* For any list of jobs, any number of coroutines, requests and failures,  *)
(* and any era: at most one extrinsic of the device waits for the chain,   *)
(* and what follows from it.                                               *)
(***************************************************************************)
EXTENDS Extrinsics, FiniteSetTheorems, TLAPS

(* The pool holds one extrinsic at most, with the next nonce.              *)
OneWaits ==
  /\ \A x \in pool : x.nonce = chain.nonce
  /\ \A x, y \in pool : x = y

Underway(r) == req[r].stage \in {"header", "submit"}

NoncesUsable ==
  \A r \in Requests : Underway(r) => req[r].nonce <= chain.nonce

CallsKnown ==
  /\ \A r \in Acks : req[r].stage \in Active \cup {"idle"}
  /\ \A r \in Acks : req[r].stage \in Active => req[r].call \in JobSet
  /\ \A o \in Own : req[o].stage # "idle" => req[o].call = o

(* Who has met no rival still has the next nonce to itself. *)
Unrivalled ==
  \A o \in Own : Underway(o) /\ "rival" \notin excuse[o] =>
                   req[o].nonce = chain.nonce /\ pool = {}

(* Only late coroutines acknowledge an acknowledged job with a usable nonce. *)
LateKnown ==
  /\ \A r \in Acks : Underway(r) /\ req[r].nonce = chain.nonce /\ req[r].call \in chain.acked
                       => req[r].call \in late
  /\ \A x \in pool : x.call \in chain.acked => x.call \in late

Typed == TypeOK /\ CallsKnown
TypeInv == Typed /\ OneWaits /\ NoncesUsable

IInv ==
  TypeInv /\ Unrivalled /\ LateKnown /\ OnlyRivalsLose /\ WastedOnlyIfLate
--------------------------------------------------------------------------------
LEMMA CurrentIsJob ==
  ASSUME NEW f, Visiting(f)
  PROVE  Current(f) \in JobSet
  BY DEF Visiting, Current, JobSet

LEMMA VisitingInRange ==
  ASSUME NEW f \in Fetches, TypeOK, Visiting(f)
  PROVE  fetch[f].at + 1 \in 0 .. (Len(Jobs) + 1)
  BY ExtrinsicsAssumption DEF TypeOK, Visiting, ExtrinsicsAssumption

LEMMA IdleTyped == Idle \in RequestState
  BY ExtrinsicsAssumption DEF Idle, RequestState, Active, ExtrinsicsAssumption

LEMMA StartTyped == ASSUME NEW c \in Calls PROVE Starting(c) \in RequestState
  BY ExtrinsicsAssumption DEF Starting, RequestState, Active, ExtrinsicsAssumption

LEMMA OneFaultLess ==
  ASSUME TypeOK, faults > 0
  PROVE  faults - 1 \in 0 .. Faults
  <1>1. faults \in 0 .. Faults
    BY DEF TypeOK
  <1> QED BY <1>1, ExtrinsicsAssumption DEF ExtrinsicsAssumption

(* What a finished coroutine leaves is well typed. *)
LEMMA EndTyped ==
  ASSUME NEW r \in Requests, NEW how \in {"ok", "failed"}
  PROVE  /\ Ended(r, how) \in RequestState
         /\ Ended(r, how).stage \notin Active
         /\ r \in Acks => Ended(r, how).stage = "idle"
         /\ r \in Own => Ended(r, how).stage = how /\ Ended(r, how).call = r
  BY ExtrinsicsAssumption
  DEF Ended, Idle, RequestState, Requests, Calls, Active, ExtrinsicsAssumption

LEMMA OverTyped ==
  ASSUME Typed, NEW r \in Requests, NEW how \in {"ok", "failed"}, Over(r, how)
  PROVE  req' \in [Requests -> RequestState] /\ CallsKnown'
  BY EndTyped DEF Typed, TypeOK, CallsKnown, Over, Requests

(* The call a coroutine submits is one. *)
LEMMA ActiveCalls ==
  ASSUME Typed, NEW r \in Requests, req[r].stage \in Active
  PROVE  req[r].call \in Calls
  BY DEF Typed, CallsKnown, Requests, Calls, Active

LEMMA JoinTyped ==
  ASSUME Typed, NEW r \in Requests, Join(r)
  PROVE  pool' \subseteq Extrinsic
  <1>1. req[r].call \in Calls /\ req[r].nonce \in Nat /\ req[r].life \in 1 .. Era
    BY ActiveCalls, ExtrinsicsAssumption
    DEF Typed, TypeOK, RequestState, Join, Active, ExtrinsicsAssumption
  <1>2. [call |-> req[r].call, nonce |-> req[r].nonce, life |-> req[r].life] \in Extrinsic
    BY <1>1 DEF Extrinsic
  <1> QED BY <1>2 DEF Join, Typed, TypeOK

(* A block takes nothing of the device, or all that waits: one extrinsic.  *)
LEMMA TakenIsPool ==
  ASSUME TypeInv, NEW S \in SUBSET pool, Block(S)
  PROVE  \/ S = {} /\ Cardinality(S) = 0 /\ chain'.nonce = chain.nonce
         \/ S = pool /\ Cardinality(S) = 1 /\ chain'.nonce = chain.nonce + 1
  <1>1. chain.nonce \in Nat
    BY DEF TypeInv, Typed, TypeOK
  <1>2. chain'.nonce = chain.nonce + Cardinality(S)
    BY DEF Block
  <1>3. CASE S = {}
    BY <1>1, <1>2, <1>3, FS_EmptySet
  <1>4. CASE S # {}
    <2>1. PICK x : S = {x} /\ pool = {x}
      BY <1>4 DEF TypeInv, OneWaits
    <2>2. Cardinality(S) = 1
      BY <2>1, FS_Singleton
    <2> QED BY <1>2, <2>1, <2>2
  <1> QED BY <1>3, <1>4

LEMMA BlockTyped ==
  ASSUME Typed, NEW S \in SUBSET pool, Block(S)
  PROVE  /\ req' \in [Requests -> RequestState]
         /\ \A r \in Requests : req'[r].stage = req[r].stage /\ req'[r].call = req[r].call
                                /\ req'[r].nonce = req[r].nonce
         /\ pool' \subseteq Extrinsic
  <1>1. ASSUME NEW r \in Requests
        PROVE  /\ req'[r] \in RequestState
               /\ req'[r].stage = req[r].stage /\ req'[r].call = req[r].call
               /\ req'[r].nonce = req[r].nonce
    <2>1. req[r] \in RequestState
      BY DEF Typed, TypeOK
    <2>2. req'[r] = IF req[r].life > 0 THEN [req[r] EXCEPT !.life = @ - 1] ELSE req[r]
      BY DEF Block
    <2> QED BY <2>1, <2>2, ExtrinsicsAssumption DEF RequestState, ExtrinsicsAssumption
  <1>2. req' \in [Requests -> RequestState]
    BY <1>1 DEF Block
  <1>3. ASSUME NEW x \in Left(S)
        PROVE  [x EXCEPT !.life = @ - 1] \in Extrinsic
    BY <1>3, ExtrinsicsAssumption DEF Left, Typed, TypeOK, Extrinsic, ExtrinsicsAssumption
  <1>4. pool' \subseteq Extrinsic
    BY <1>3 DEF Block
  <1> QED BY <1>1, <1>2, <1>4

LEMMA TypedInit == Init => Typed
  <1> SUFFICES ASSUME Init PROVE Typed
    OBVIOUS
  <1>1. Idle \in RequestState
    BY IdleTyped
  <1>2. Resting \in [stage : {"idle", "list", "visit"}, seen : SUBSET JobSet,
                    at : 0 .. (Len(Jobs) + 1)]
    BY ExtrinsicsAssumption DEF Resting, ExtrinsicsAssumption
  <1>3. TypeOK
    BY <1>1, <1>2, ExtrinsicsAssumption DEF Init, TypeOK, ExtrinsicsAssumption
  <1>4. CallsKnown
    BY DEF Init, CallsKnown, Idle, Requests, Active
  <1> QED BY <1>3, <1>4 DEF Typed

LEMMA TypedStep == TypeInv /\ [Next]_vars => Typed'
  <1> SUFFICES ASSUME TypeInv, [Next]_vars PROVE Typed'
    OBVIOUS
  <1>0. Typed
    BY DEF TypeInv
  <1> USE <1>0 DEF Typed
  <1>1. ASSUME NEW f \in Fetches, FetchSteps(f) \/ FetchFails(f)
        PROVE  Typed'
    <2>1. CASE StartFetch(f)
      <3>1. fetch' \in [Fetches -> [stage : {"idle", "list", "visit"}, seen : SUBSET JobSet,
                                    at : 0 .. (Len(Jobs) + 1)]]
        <4>1. fetch' = [fetch EXCEPT ![f] = [fetch[f] EXCEPT !.stage = "list"]]
          BY <2>1 DEF StartFetch
        <4>2. fetch \in [Fetches -> [stage : {"idle", "list", "visit"}, seen : SUBSET JobSet,
                                     at : 0 .. (Len(Jobs) + 1)]]
          BY DEF TypeOK
        <4> QED BY <4>1, <4>2
      <3>2. CallsKnown'
        BY <2>1 DEF StartFetch, CallsKnown
      <3> QED BY <2>1, <3>1, <3>2 DEF StartFetch, TypeOK
    <2>2. CASE ReadList(f)
      BY <2>2, ExtrinsicsAssumption DEF ReadList, TypeOK, CallsKnown, ExtrinsicsAssumption
    <2>3. CASE ScheduleJob(f)
      <3>1. Current(f) \in JobSet /\ fetch[f].at + 1 \in 0 .. (Len(Jobs) + 1)
        BY <2>3, CurrentIsJob, VisitingInRange DEF ScheduleJob
      <3>2. fetch' \in [Fetches -> [stage : {"idle", "list", "visit"}, seen : SUBSET JobSet,
                                    at : 0 .. (Len(Jobs) + 1)]]
        <4>1. fetch' = [fetch EXCEPT ![f].at = @ + 1]
          BY <2>3 DEF ScheduleJob, Advance
        <4>2. fetch \in [Fetches -> [stage : {"idle", "list", "visit"}, seen : SUBSET JobSet,
                                     at : 0 .. (Len(Jobs) + 1)]]
          BY DEF TypeOK
        <4> QED BY <3>1, <4>1, <4>2
      <3>3. CallsKnown'
        BY <2>3 DEF ScheduleJob, CallsKnown
      <3> QED BY <2>3, <3>1, <3>2, <3>3 DEF ScheduleJob, TypeOK
    <2>4. CASE \E a \in Acks : AcknowledgeJob(f, a)
      <3>1. PICK a \in Acks : AcknowledgeJob(f, a)
        BY <2>4
      <3>2. Current(f) \in JobSet /\ fetch[f].at + 1 \in 0 .. (Len(Jobs) + 1)
        BY <3>1, CurrentIsJob, VisitingInRange DEF AcknowledgeJob
      <3>3. Starting(Current(f)) \in RequestState
        BY <3>2, StartTyped DEF Calls
      <3>4. req' \in [Requests -> RequestState]
        BY <3>1, <3>3 DEF AcknowledgeJob, TypeOK, Requests
      <3>5. CallsKnown'
        BY <3>1, <3>2, ExtrinsicsAssumption
        DEF AcknowledgeJob, TypeOK, CallsKnown, Starting, Requests, Active, ExtrinsicsAssumption
      <3> QED BY <3>1, <3>2, <3>4, <3>5 DEF AcknowledgeJob, Advance, TypeOK
    <2>5. CASE EndFetch(f)
      BY <2>5, ExtrinsicsAssumption DEF EndFetch, Resting, TypeOK, CallsKnown, ExtrinsicsAssumption
    <2>6. CASE FetchFails(f)
      BY <2>6, OneFaultLess, ExtrinsicsAssumption
      DEF FetchFails, Resting, TypeOK, CallsKnown, ExtrinsicsAssumption
    <2> QED BY <1>1, <2>1, <2>2, <2>3, <2>4, <2>5, <2>6 DEF FetchSteps
  <1>2. ASSUME NEW o \in Own, Request(o)
        PROVE  Typed'
    <2>1. req' \in [Requests -> RequestState]
      BY <1>2, StartTyped DEF Request, TypeOK, Requests, Calls
    <2>2. CallsKnown'
      BY <1>2, ExtrinsicsAssumption
      DEF Request, TypeOK, CallsKnown, Starting, Requests, Active, ExtrinsicsAssumption
    <2> QED BY <1>2, <2>1, <2>2 DEF Request, TypeOK
  <1>3. ASSUME NEW r \in Requests, ReadNonce(r)
        PROVE  Typed'
    <2>1. chain.nonce \in Nat /\ req[r].call \in Calls
      BY <1>3, ActiveCalls DEF ReadNonce, Take, TypeOK, Active
    <2>2. req' \in [Requests -> RequestState]
      <3>1. req[r] \in RequestState /\ req \in [Requests -> RequestState]
        BY DEF TypeOK
      <3>2. req' = [req EXCEPT ![r] = [req[r] EXCEPT !.stage = "header", !.nonce = chain.nonce]]
        BY <1>3 DEF ReadNonce, Take
      <3>3. [req[r] EXCEPT !.stage = "header", !.nonce = chain.nonce] \in RequestState
        BY <2>1, <3>1 DEF RequestState, Active
      <3> QED BY <3>1, <3>2, <3>3
    <2>3. CallsKnown'
      BY <1>3 DEF ReadNonce, Take, TypeOK, CallsKnown, RequestState, Requests, Active
    <2>4. excuse' \in [Own -> SUBSET {"rival", "cut", "expired"}] /\ late' \subseteq JobSet
      BY <1>3 DEF ReadNonce, Take, TypeOK
    <2> QED BY <1>3, <2>2, <2>3, <2>4 DEF ReadNonce, Take, TypeOK
  <1>4. ASSUME NEW r \in Requests, ReadHeader(r)
        PROVE  Typed'
    <2>1. req' \in [Requests -> RequestState]
      <3>1. Era \in 0 .. Era
        BY ExtrinsicsAssumption DEF ExtrinsicsAssumption
      <3>2. req[r] \in RequestState /\ req \in [Requests -> RequestState]
        BY DEF TypeOK
      <3>3. req' = [req EXCEPT ![r] = [req[r] EXCEPT !.stage = "submit", !.life = Era]]
        BY <1>4 DEF ReadHeader, Born
      <3>4. [req[r] EXCEPT !.stage = "submit", !.life = Era] \in RequestState
        BY <3>1, <3>2 DEF RequestState, Active
      <3> QED BY <3>2, <3>3, <3>4
    <2>2. CallsKnown'
      BY <1>4 DEF ReadHeader, Born, TypeOK, CallsKnown, RequestState, Requests, Active
    <2> QED BY <1>4, <2>1, <2>2 DEF ReadHeader, Born, TypeOK
  <1>5. ASSUME NEW r \in Requests, Submit(r) \/ SubmitUnheard(r)
        PROVE  Typed'
    <2>1. Over(r, "ok") \/ Over(r, "failed")
      BY <1>5 DEF Submit, SubmitUnheard
    <2>2. req' \in [Requests -> RequestState] /\ CallsKnown'
      BY <2>1, OverTyped
    <2>3. pool' \subseteq Extrinsic
      BY <1>5, JoinTyped DEF Submit, SubmitUnheard
    <2>4. excuse' \in [Own -> SUBSET {"rival", "cut", "expired"}]
      BY <1>5 DEF Submit, SubmitUnheard, TypeOK
    <2>5. faults' \in 0 .. Faults
      BY <1>5, OneFaultLess DEF Submit, SubmitUnheard, TypeOK
    <2> QED BY <1>5, <2>2, <2>3, <2>4, <2>5 DEF Submit, SubmitUnheard, TypeOK
  <1>6. ASSUME NEW r \in Requests, Refused(r) \/ CutOff(r)
        PROVE  Typed'
    <2>1. req' \in [Requests -> RequestState] /\ CallsKnown'
      BY <1>6, OverTyped DEF Refused, CutOff
    <2>2. excuse' \in [Own -> SUBSET {"rival", "cut", "expired"}]
      BY <1>6 DEF Refused, CutOff, TypeOK
    <2>3. faults' \in 0 .. Faults
      BY <1>6, OneFaultLess DEF Refused, CutOff, TypeOK
    <2> QED BY <1>6, <2>1, <2>2, <2>3 DEF Refused, CutOff, TypeOK
  <1>7. CASE Crash
    <2>1. Resting \in [stage : {"idle", "list", "visit"}, seen : SUBSET JobSet,
                      at : 0 .. (Len(Jobs) + 1)]
      BY ExtrinsicsAssumption DEF Resting, ExtrinsicsAssumption
    <2>2. \A r \in Requests : req'[r] = IF req[r].stage \in Active THEN Ended(r, "failed")
                                        ELSE req[r]
      BY <1>7 DEF Crash
    <2>3. req' \in [Requests -> RequestState]
      BY <1>7, <2>2, EndTyped DEF Crash, TypeOK
    <2>4. CallsKnown'
      BY <2>2, EndTyped DEF CallsKnown, Requests
    <2>5. excuse' \in [Own -> SUBSET {"rival", "cut", "expired"}]
      BY <1>7 DEF Crash, TypeOK
    <2>6. faults' \in 0 .. Faults
      BY <1>7, OneFaultLess DEF Crash
    <2> QED BY <1>7, <2>1, <2>3, <2>4, <2>5, <2>6 DEF Crash, TypeOK
  <1>8. ASSUME NEW S \in SUBSET pool, Block(S)
        PROVE  Typed'
    <2>1. /\ req' \in [Requests -> RequestState]
          /\ \A r \in Requests : req'[r].stage = req[r].stage /\ req'[r].call = req[r].call
          /\ pool' \subseteq Extrinsic
      BY <1>8, BlockTyped
    <2>2. CallsKnown'
      BY <2>1 DEF CallsKnown, Requests
    <2>3. excuse' \in [Own -> SUBSET {"rival", "cut", "expired"}]
      BY <1>8 DEF Block, TypeOK
    <2>4. chain' \in [nonce : Nat, acked : SUBSET JobSet, taken : SUBSET Own]
      <3>1. chain.nonce + Cardinality(S) \in Nat
        BY <1>8, TakenIsPool DEF TypeOK
      <3> QED BY <1>8, <3>1 DEF Block, TypeOK
    <2>5. wasted' \subseteq JobSet
      BY <1>8 DEF Block, TypeOK
    <2> QED BY <1>8, <2>1, <2>2, <2>3, <2>4, <2>5 DEF Block, TypeOK
  <1>9. CASE UNCHANGED vars
    BY <1>9 DEF vars, TypeOK, CallsKnown
  <1> QED BY <1>1, <1>2, <1>3, <1>4, <1>5, <1>6, <1>7, <1>8, <1>9 DEF Next, RequestSteps

--------------------------------------------------------------------------------
(* Nonces and calls of the coroutines underway stay what they were. *)
Steady ==
  \A r \in Requests : Underway(r)' =>
    Underway(r) /\ req'[r].nonce = req[r].nonce /\ req'[r].call = req[r].call

(* A step that leaves the chain and the pool alone, and reads no nonce. *)
Aside ==
  /\ UNCHANGED <<pool, chain, late, wasted>>
  /\ Steady
  /\ \A o \in Own : excuse[o] \subseteq excuse'[o]

LEMMA OverSteady ==
  ASSUME Typed, NEW r \in Requests, NEW how \in {"ok", "failed"}, Over(r, how)
  PROVE  Steady
  BY EndTyped DEF Typed, TypeOK, Over, Steady, Underway, Active

(* What a step can be, to everything below. *)
LEMMA StepKinds ==
  ASSUME TypeInv, [Next]_vars
  PROVE  \/ Aside
         \/ \E r \in Requests : ReadNonce(r)
         \/ \E r \in Requests : Submit(r) \/ SubmitUnheard(r)
         \/ \E S \in SUBSET pool : Block(S)
  <1>0. Typed
    BY DEF TypeInv
  <1>1. ASSUME NEW f \in Fetches, FetchSteps(f) \/ FetchFails(f)
        PROVE  Aside
    <2>1. CASE \E a \in Acks : AcknowledgeJob(f, a)
      <3>1. PICK a \in Acks : AcknowledgeJob(f, a)
        BY <2>1
      <3>2. Steady
        BY <1>0, <3>1 DEF AcknowledgeJob, Starting, Steady, Underway, Typed, TypeOK
      <3> QED BY <3>1, <3>2 DEF AcknowledgeJob, Aside
    <2>2. CASE ~ \E a \in Acks : AcknowledgeJob(f, a)
      BY <1>1, <2>2
      DEF FetchSteps, StartFetch, ReadList, ScheduleJob, EndFetch, FetchFails, Aside, Steady, Underway
    <2> QED BY <2>1, <2>2
  <1>2. ASSUME NEW o \in Own, Request(o)
        PROVE  Aside
    <2>1. Steady
      BY <1>0, <1>2 DEF Request, Starting, Steady, Underway, Typed, TypeOK
    <2> QED BY <1>2, <2>1 DEF Request, Aside
  <1>3. ASSUME NEW r \in Requests, ReadHeader(r)
        PROVE  Aside
    <2>1. Steady
      BY <1>0, <1>3 DEF ReadHeader, Born, Steady, Underway, Typed, TypeOK, RequestState
    <2> QED BY <1>3, <2>1 DEF ReadHeader, Born, Aside
  <1>4. ASSUME NEW r \in Requests, Refused(r) \/ CutOff(r)
        PROVE  Aside
    <2>1. Steady
      BY <1>0, <1>4, OverSteady DEF Refused, CutOff
    <2>2. \A o \in Own : excuse[o] \subseteq excuse'[o]
      BY <1>4 DEF Refused, CutOff
    <2> QED BY <1>4, <2>1, <2>2 DEF Refused, CutOff, Aside
  <1>5. ASSUME Crash
        PROVE  Aside
    <2>1. Steady
      BY <1>5, EndTyped DEF Crash, Steady, Underway, Active
    <2>2. \A o \in Own : excuse[o] \subseteq excuse'[o]
      BY <1>5 DEF Crash
    <2> QED BY <1>5, <2>1, <2>2 DEF Crash, Aside
  <1>6. CASE UNCHANGED vars
    BY <1>6 DEF vars, Aside, Steady, Underway
  <1> QED BY <1>1, <1>2, <1>3, <1>4, <1>5, <1>6 DEF Next, RequestSteps

(* Reading a nonce concerns one coroutine. *)
LEMMA NonceRead ==
  ASSUME Typed, NEW r \in Requests, ReadNonce(r)
  PROVE  /\ req'[r].nonce = chain.nonce /\ req'[r].call = req[r].call
         /\ \A s \in Requests \ {r} : req'[s] = req[s]
         /\ UNCHANGED <<pool, chain, wasted>>
  BY DEF ReadNonce, Take, Typed, TypeOK, RequestState

(* Whatever joins the pool has the next nonce, and is alone there. *)
LEMMA JoinsAlone ==
  ASSUME TypeInv, NEW r \in Requests, Join(r)
  PROVE  /\ req[r].nonce = chain.nonce
         /\ pool' = {[call |-> req[r].call, nonce |-> req[r].nonce, life |-> req[r].life]}
         /\ SameSlot(r) = pool
  <1>1. req[r].nonce \in Nat /\ chain.nonce \in Nat
    BY DEF TypeInv, Typed, TypeOK, RequestState
  <1>2. req[r].nonce = chain.nonce
    BY <1>1 DEF Join, TypeInv, NoncesUsable, Underway
  <1>3. SameSlot(r) = pool
    BY <1>2 DEF TypeInv, OneWaits, SameSlot
  <1> QED BY <1>2, <1>3 DEF Join

LEMMA SubmitSteady ==
  ASSUME TypeInv, NEW r \in Requests, Submit(r) \/ SubmitUnheard(r)
  PROVE  /\ Steady /\ ~Underway(r)' /\ Join(r)
         /\ UNCHANGED <<chain, late, wasted>>
  <1>1. Over(r, "ok") \/ Over(r, "failed")
    BY DEF Submit, SubmitUnheard
  <1>2. Steady
    BY <1>1, OverSteady DEF TypeInv
  <1>3. ~Underway(r)'
    BY <1>1, EndTyped DEF TypeInv, Typed, TypeOK, Over, Underway, Active
  <1> QED BY <1>2, <1>3 DEF Submit, SubmitUnheard

LEMMA BlockSteady ==
  ASSUME TypeInv, NEW S \in SUBSET pool, Block(S)
  PROVE  Steady /\ late' = late
  BY BlockTyped DEF Block, TypeInv, Steady, Underway

(* A block that takes nothing leaves what waits, one that takes leaves nothing. *)
LEMMA BlockLeaves ==
  ASSUME TypeInv, NEW S \in SUBSET pool, Block(S)
  PROVE  /\ S = {} => \A y \in pool' : \E x \in pool : x.call = y.call /\ x.nonce = y.nonce /\ x.life > 1
         /\ S = {} => \A x, y \in pool' : x = y
         /\ S = pool => pool' = {}
         /\ S = {} => \A x \in pool : x.life > 1 => \E y \in pool' : y.call = x.call
  <1>1. pool' = {[x EXCEPT !.life = @ - 1] : x \in Left(S)}
    BY DEF Block
  <1>2. \A x \in pool : x \in Extrinsic
    BY DEF TypeInv, Typed, TypeOK
  <1>3. \A x \in pool : LET y == [x EXCEPT !.life = @ - 1] IN y.call = x.call /\ y.nonce = x.nonce
    BY <1>2 DEF Extrinsic
  <1>4. S = {} => \A x \in pool : x.life > 1 => x \in Left(S)
    <2>1. SUFFICES ASSUME S = {}, NEW x \in pool, x.life > 1 PROVE x \in Left(S)
      OBVIOUS
    <2>2. Cardinality(S) = 0 /\ chain.nonce \in Nat
      BY <2>1, FS_EmptySet DEF TypeInv, Typed, TypeOK
    <2> QED BY <2>1, <2>2 DEF Left, TypeInv, OneWaits
  <1>5. Left(S) \subseteq pool \ S /\ \A x \in Left(S) : x.life > 1
    BY DEF Left
  <1>6. \A x, y \in pool : x = y
    BY DEF TypeInv, OneWaits
  <1>7. S = pool => pool' = {}
    BY <1>1, <1>5
  <1>8. S = {} => \A y \in pool' : \E x \in pool : x.call = y.call /\ x.nonce = y.nonce /\ x.life > 1
    BY <1>1, <1>3, <1>5
  <1>9. \A x, y \in pool' : x = y
    BY <1>1, <1>5, <1>6
  <1>10. S = {} => \A x \in pool : x.life > 1 => \E y \in pool' : y.call = x.call
    BY <1>1, <1>3, <1>4
  <1> QED BY <1>7, <1>8, <1>9, <1>10

LEMMA PoolStep == TypeInv /\ [Next]_vars => OneWaits' /\ NoncesUsable'
  <1> SUFFICES ASSUME TypeInv, [Next]_vars PROVE OneWaits' /\ NoncesUsable'
    OBVIOUS
  <1>0. OneWaits /\ NoncesUsable /\ Typed /\ chain.nonce \in Nat
    BY DEF TypeInv, Typed, TypeOK
  <1>1. CASE Aside
    BY <1>0, <1>1 DEF Aside, Steady, OneWaits, NoncesUsable
  <1>2. ASSUME NEW r \in Requests, ReadNonce(r)
        PROVE  OneWaits' /\ NoncesUsable'
    BY <1>0, <1>2, NonceRead DEF OneWaits, NoncesUsable, Underway
  <1>3. ASSUME NEW r \in Requests, Submit(r) \/ SubmitUnheard(r)
        PROVE  OneWaits' /\ NoncesUsable'
    <2>1. Steady /\ chain' = chain /\ Join(r)
      BY <1>3, SubmitSteady
    <2>2. OneWaits'
      BY <2>1, JoinsAlone DEF OneWaits
    <2> QED BY <1>0, <2>1, <2>2 DEF Steady, NoncesUsable
  <1>4. ASSUME NEW S \in SUBSET pool, Block(S)
        PROVE  OneWaits' /\ NoncesUsable'
    <2>1. Steady
      BY <1>4, BlockSteady
    <2>2. chain'.nonce >= chain.nonce /\ chain'.nonce \in Nat
      BY <1>0, <1>4, TakenIsPool
    <2>3. \A r \in Requests : req[r].nonce \in Nat
      BY <1>0 DEF Typed, TypeOK, RequestState
    <2>4. NoncesUsable'
      BY <1>0, <2>1, <2>2, <2>3 DEF Steady, NoncesUsable
    <2>5. OneWaits'
      BY <1>0, <1>4, TakenIsPool, BlockLeaves DEF OneWaits
    <2> QED BY <2>4, <2>5
  <1> QED BY <1>1, <1>2, <1>3, <1>4, StepKinds

--------------------------------------------------------------------------------
LEMMA ExcusesGrow ==
  ASSUME TypeInv, [Next]_vars, NEW o \in Own
  PROVE  excuse[o] \subseteq excuse'[o]
  <1>1. CASE Aside
    BY <1>1 DEF Aside
  <1>2. ASSUME NEW r \in Requests, ReadNonce(r)
        PROVE  excuse[o] \subseteq excuse'[o]
    BY <1>2 DEF ReadNonce, Take
  <1>3. ASSUME NEW r \in Requests, Submit(r) \/ SubmitUnheard(r)
        PROVE  excuse[o] \subseteq excuse'[o]
    BY <1>3 DEF Submit, SubmitUnheard
  <1>4. ASSUME NEW S \in SUBSET pool, Block(S)
        PROVE  excuse[o] \subseteq excuse'[o]
    BY <1>4 DEF Block
  <1> QED BY <1>1, <1>2, <1>3, <1>4, StepKinds

Finished(o) == req[o].stage \in {"ok", "failed"}

LEMMA OverOthers ==
  ASSUME Typed, NEW r \in Requests, NEW how, Over(r, how), NEW o \in Own, o # r
  PROVE  req'[o] = req[o]
  BY DEF Typed, TypeOK, Over, Requests

(* A request that ends is in the pool, or excused. *)
LEMMA Finishing ==
  ASSUME TypeInv, Unrivalled, [Next]_vars, NEW o \in Own, Finished(o)', ~Finished(o)
  PROVE  excuse'[o] # {} \/ Pooled(o)'
  <1>0. /\ Typed /\ o \in Requests /\ o \notin Acks
        /\ req[o].nonce \in Nat /\ chain.nonce \in Nat /\ req[o].life \in Nat
        /\ DOMAIN excuse = Own
    BY ExtrinsicsAssumption
    DEF TypeInv, Typed, TypeOK, RequestState, Requests, ExtrinsicsAssumption
  <1>1. ASSUME NEW f \in Fetches, FetchSteps(f) \/ FetchFails(f)
        PROVE  FALSE
    <2>1. ASSUME NEW a \in Acks, AcknowledgeJob(f, a)
          PROVE  req'[o] = req[o]
      BY <1>0, <2>1 DEF AcknowledgeJob, Typed, TypeOK
    <2>2. CASE ~ \E a \in Acks : AcknowledgeJob(f, a)
      BY <1>1, <2>2
      DEF FetchSteps, StartFetch, ReadList, ScheduleJob, EndFetch, FetchFails, Finished
    <2> QED BY <2>1, <2>2 DEF Finished
  <1>2. ASSUME NEW p \in Own, Request(p)
        PROVE  FALSE
    BY <1>0, <1>2 DEF Request, Starting, Finished, Typed, TypeOK
  <1>3. ASSUME NEW r \in Requests, ReadNonce(r) \/ ReadHeader(r)
        PROVE  FALSE
    <2>1. req \in [Requests -> RequestState]
      BY <1>0 DEF Typed, TypeOK
    <2>2. CASE ReadNonce(r)
      BY <1>0, <2>1, <2>2 DEF ReadNonce, Take, Finished, RequestState
    <2>3. CASE ReadHeader(r)
      BY <1>0, <2>1, <2>3 DEF ReadHeader, Born, Finished, RequestState
    <2> QED BY <1>3, <2>2, <2>3
  <1>4. ASSUME NEW r \in Requests, Submit(r) \/ SubmitUnheard(r)
        PROVE  Pooled(o)'
    <2>1. Over(r, "ok") \/ Over(r, "failed")
      BY <1>4 DEF Submit, SubmitUnheard
    <2>2. r = o
      BY <1>0, <2>1, OverOthers DEF Finished
    <2>3. Join(o) /\ req[o].call = o
      BY <1>4, <2>2 DEF Submit, SubmitUnheard, Join, TypeInv, Typed, CallsKnown
    <2>4. [call |-> req[o].call, nonce |-> req[o].nonce, life |-> req[o].life] \in pool'
      BY <2>3 DEF Join
    <2> QED BY <2>3, <2>4 DEF Pooled
  <1>5. ASSUME NEW r \in Requests, Refused(r)
        PROVE  excuse'[o] # {}
    <2>1. Over(r, "failed")
      BY <1>5 DEF Refused
    <2>2. r = o
      BY <1>0, <2>1, OverOthers DEF Finished
    <2>3. CASE req[o].life = 0
      BY <1>5, <2>2, <2>3 DEF Refused
    <2>4. CASE req[o].life # 0
      <3>1. Underway(o) /\ (req[o].nonce < chain.nonce \/ pool # {})
        BY <1>5, <2>2, <2>4 DEF Refused, Underway, SameSlot
      <3>2. "rival" \in excuse[o]
        BY <1>0, <3>1 DEF Unrivalled
      <3> QED BY <3>2, ExcusesGrow
    <2> QED BY <2>3, <2>4
  <1>6. ASSUME NEW r \in Requests, CutOff(r)
        PROVE  excuse'[o] # {}
    <2>1. Over(r, "failed")
      BY <1>6 DEF CutOff
    <2>2. r = o
      BY <1>0, <2>1, OverOthers DEF Finished
    <2> QED BY <1>6, <2>2 DEF CutOff
  <1>7. ASSUME Crash
        PROVE  excuse'[o] # {}
    <2>1. req'[o] = IF req[o].stage \in Active THEN Ended(o, "failed") ELSE req[o]
      BY <1>0, <1>7 DEF Crash
    <2>2. req[o].stage \in Active
      BY <2>1 DEF Finished
    <2> QED BY <1>7, <2>2 DEF Crash
  <1>8. ASSUME NEW S \in SUBSET pool, Block(S)
        PROVE  FALSE
    BY <1>0, <1>8, BlockTyped DEF Finished
  <1>9. CASE UNCHANGED vars
    BY <1>9 DEF vars, Finished
  <1> QED BY <1>1, <1>2, <1>3, <1>4, <1>5, <1>6, <1>7, <1>8, <1>9 DEF Next, RequestSteps

LEMMA LoseStep == IInv /\ [Next]_vars => OnlyRivalsLose'
  <1> SUFFICES ASSUME IInv, [Next]_vars, NEW o \in Own,
                      Finished(o)', o \notin chain'.taken, ~Pooled(o)'
               PROVE  excuse'[o] # {}
    BY DEF OnlyRivalsLose, Finished
  <1>0. TypeInv /\ Unrivalled /\ OnlyRivalsLose
    BY DEF IInv
  <1>1. CASE ~Finished(o)
    BY <1>0, <1>1, Finishing
  <1>2. CASE Finished(o) /\ ~Pooled(o) /\ o \notin chain.taken
    BY <1>0, <1>2, ExcusesGrow DEF OnlyRivalsLose, Finished
  <1>3. CASE Finished(o) /\ (Pooled(o) \/ o \in chain.taken)
    <2>1. CASE Aside
      BY <1>3, <2>1 DEF Aside, Pooled
    <2>2. ASSUME NEW r \in Requests, ReadNonce(r)
          PROVE  FALSE
      BY <1>3, <2>2 DEF ReadNonce, Take, Pooled
    <2>3. ASSUME NEW r \in Requests, Submit(r) \/ SubmitUnheard(r)
          PROVE  excuse'[o] # {}
      <3>1. Join(r) /\ chain' = chain
        BY <1>0, <2>3, SubmitSteady
      <3>2. Pooled(o) /\ o # r
        BY <1>3, <3>1 DEF Finished, Join
      <3>3. \E x \in SameSlot(r) : x.call = o
        BY <1>0, <3>1, <3>2, JoinsAlone DEF Pooled
      <3>4. o \in Outrun(r)
        BY <3>2, <3>3 DEF Outrun
      <3>5. excuse'[o] = excuse[o] \cup {"rival"}
        BY <2>3, <3>4 DEF Submit, SubmitUnheard
      <3> QED BY <3>5
    <2>4. ASSUME NEW S \in SUBSET pool, Block(S)
          PROVE  excuse'[o] # {}
      <3>1. chain'.taken = chain.taken \cup ({x.call : x \in S} \cap Own)
        BY <2>4 DEF Block
      <3>2. PICK x \in pool : x.call = o /\ x \notin S
        BY <1>3, <3>1 DEF Pooled
      <3>3. S = {}
        BY <1>0, <2>4, <3>2, TakenIsPool
      <3>4. x.life = 1
        <4>1. x.life \in 1 .. Era
          BY <1>0 DEF TypeInv, Typed, TypeOK, Extrinsic
        <4>2. ~(x.life > 1)
          BY <1>0, <2>4, <3>2, <3>3, BlockLeaves DEF Pooled
        <4> QED BY <4>1, <4>2, ExtrinsicsAssumption DEF ExtrinsicsAssumption
      <3>5. excuse'[o] = excuse[o] \cup {"expired"}
        BY <2>4, <3>2, <3>4 DEF Block
      <3> QED BY <3>5
    <2> QED BY <1>0, <2>1, <2>2, <2>3, <2>4, StepKinds
  <1> QED BY <1>1, <1>2, <1>3

LEMMA UnrivalledStep == IInv /\ [Next]_vars => Unrivalled'
  <1> SUFFICES ASSUME IInv, [Next]_vars, NEW o \in Own, Underway(o)', "rival" \notin excuse'[o]
               PROVE  req'[o].nonce = chain'.nonce /\ pool' = {}
    BY DEF Unrivalled
  <1>0. TypeInv /\ Unrivalled /\ o \in Requests /\ "rival" \notin excuse[o]
    BY ExcusesGrow DEF IInv, Requests
  <1>1. CASE Aside
    BY <1>0, <1>1 DEF Aside, Steady, Unrivalled
  <1>2. ASSUME NEW r \in Requests, ReadNonce(r)
        PROVE  req'[o].nonce = chain'.nonce /\ pool' = {}
    <2>1. CASE r = o
      <3>1. pool = {}
        BY <1>2, <2>1 DEF ReadNonce, Take
      <3> QED BY <1>0, <1>2, <2>1, <3>1, NonceRead DEF TypeInv
    <2>2. CASE r # o
      BY <1>0, <1>2, <2>2, NonceRead DEF TypeInv, Unrivalled, Underway
    <2> QED BY <2>1, <2>2
  <1>3. ASSUME NEW r \in Requests, Submit(r) \/ SubmitUnheard(r)
        PROVE  FALSE
    <2>1. o # r /\ Underway(o)
      BY <1>0, <1>3, SubmitSteady DEF Steady
    <2>2. o \in Outrun(r)
      BY <2>1 DEF Outrun, Underway
    <2> QED BY <1>3, <2>2 DEF Submit, SubmitUnheard
  <1>4. ASSUME NEW S \in SUBSET pool, Block(S)
        PROVE  req'[o].nonce = chain'.nonce /\ pool' = {}
    <2>1. Underway(o) /\ req'[o].nonce = req[o].nonce
      BY <1>0, <1>4, BlockSteady DEF Steady
    <2>2. req[o].nonce = chain.nonce /\ pool = {}
      BY <1>0, <2>1 DEF Unrivalled
    <2>3. S = {} /\ chain'.nonce = chain.nonce
      BY <1>0, <1>4, <2>2, TakenIsPool, FS_EmptySet
    <2>4. pool' = {}
      BY <1>0, <1>4, <2>2, <2>3, BlockLeaves
    <2> QED BY <2>1, <2>2, <2>3, <2>4
  <1> QED BY <1>0, <1>1, <1>2, <1>3, <1>4, StepKinds

LEMMA LateStep == IInv /\ [Next]_vars => LateKnown' /\ WastedOnlyIfLate'
  <1> SUFFICES ASSUME IInv, [Next]_vars PROVE LateKnown' /\ WastedOnlyIfLate'
    OBVIOUS
  <1>0. TypeInv /\ LateKnown /\ WastedOnlyIfLate /\ Acks \subseteq Requests
    BY DEF IInv, Requests
  <1>1. CASE Aside
    BY <1>0, <1>1 DEF Aside, Steady, LateKnown, WastedOnlyIfLate
  <1>2. ASSUME NEW r \in Requests, ReadNonce(r)
        PROVE  LateKnown' /\ WastedOnlyIfLate'
    <2>1. late' = late \cup ({req[r].call} \cap chain.acked)
      BY <1>2 DEF ReadNonce, Take
    <2>2. /\ req'[r].call = req[r].call
          /\ \A s \in Requests \ {r} : req'[s] = req[s]
          /\ UNCHANGED <<pool, chain, wasted>>
      BY <1>0, <1>2, NonceRead DEF TypeInv
    <2> QED BY <1>0, <2>1, <2>2 DEF LateKnown, WastedOnlyIfLate, Underway
  <1>3. ASSUME NEW r \in Requests, Submit(r) \/ SubmitUnheard(r)
        PROVE  LateKnown' /\ WastedOnlyIfLate'
    <2>1. Steady /\ Join(r) /\ UNCHANGED <<chain, late, wasted>>
      BY <1>0, <1>3, SubmitSteady
    <2>2. req[r].call \in chain.acked => req[r].call \in late
      <3>1. CASE r \in Acks
        BY <1>0, <2>1, <3>1, JoinsAlone DEF LateKnown, Join, Underway
      <3>2. CASE r \in Own
        BY <1>0, <2>1, <3>2, ExtrinsicsAssumption
        DEF TypeInv, Typed, TypeOK, CallsKnown, Join, ExtrinsicsAssumption
      <3> QED BY <3>1, <3>2 DEF Requests
    <2>3. \A x \in pool' : x.call = req[r].call
      BY <1>0, <2>1, JoinsAlone
    <2> QED BY <1>0, <2>1, <2>2, <2>3 DEF LateKnown, WastedOnlyIfLate, Steady
  <1>4. ASSUME NEW S \in SUBSET pool, Block(S)
        PROVE  LateKnown' /\ WastedOnlyIfLate'
    <2>1. Steady /\ late' = late
      BY <1>0, <1>4, BlockSteady
    <2>2. chain'.acked = chain.acked \cup ({x.call : x \in S} \cap JobSet)
      BY <1>4 DEF Block
    <2>3. WastedOnlyIfLate'
      <3>1. wasted' = wasted \cup ({x.call : x \in S} \cap chain.acked)
        BY <1>4 DEF Block
      <3> QED BY <1>0, <2>1, <3>1 DEF LateKnown, WastedOnlyIfLate
    <2>4. CASE S = {}
      <3>1. chain'.nonce = chain.nonce /\ chain'.acked = chain.acked
        BY <1>0, <1>4, <2>2, <2>4, TakenIsPool, FS_EmptySet
      <3>2. \A y \in pool' : \E x \in pool : x.call = y.call
        BY <1>0, <1>4, <2>4, BlockLeaves
      <3>3. LateKnown'
        BY <1>0, <2>1, <3>1, <3>2 DEF LateKnown, Steady
      <3> QED BY <2>3, <3>3
    <2>5. CASE S = pool /\ chain'.nonce = chain.nonce + 1
      <3>1. pool' = {}
        BY <1>0, <1>4, <2>5, BlockLeaves
      <3>2. ASSUME NEW r \in Requests, Underway(r)'
            PROVE  req'[r].nonce # chain'.nonce
        <4>1. Underway(r) /\ req'[r].nonce = req[r].nonce
          BY <2>1, <3>2 DEF Steady
        <4>2. req[r].nonce <= chain.nonce /\ req[r].nonce \in Nat /\ chain.nonce \in Nat
          BY <1>0, <4>1 DEF TypeInv, NoncesUsable, Typed, TypeOK, RequestState
        <4> QED BY <2>5, <4>1, <4>2
      <3>3. LateKnown'
        BY <1>0, <3>1, <3>2 DEF LateKnown
      <3> QED BY <2>3, <3>3
    <2> QED BY <1>0, <1>4, <2>4, <2>5, TakenIsPool
  <1> QED BY <1>0, <1>1, <1>2, <1>3, <1>4, StepKinds

LEMMA IInvInit == Init => IInv
  <1> SUFFICES ASSUME Init PROVE IInv
    OBVIOUS
  <1>1. OneWaits /\ NoncesUsable
    BY DEF Init, OneWaits, NoncesUsable, Underway, Idle
  <1>2. Unrivalled /\ LateKnown /\ OnlyRivalsLose /\ WastedOnlyIfLate
    BY DEF Init, Unrivalled, LateKnown, OnlyRivalsLose, WastedOnlyIfLate, Underway, Idle, Requests
  <1> QED BY <1>1, <1>2, TypedInit DEF IInv, TypeInv

LEMMA IInvStep == IInv /\ [Next]_vars => IInv'
  <1> SUFFICES ASSUME IInv, [Next]_vars PROVE IInv'
    OBVIOUS
  <1>1. TypeInv'
    BY TypedStep, PoolStep DEF IInv, TypeInv
  <1> QED BY <1>1, UnrivalledStep, LateStep, LoseStep DEF IInv

(* The inductive invariant. *)
THEOREM Inductive == Spec => []IInv
  BY IInvInit, IInvStep, PTL DEF Spec

(* Every variable of Extrinsics keeps its type. *)
THEOREM TypeCorrect == Spec => []TypeOK
  <1>1. IInv => TypeOK
    BY DEF IInv, TypeInv, Typed
  <1> QED BY <1>1, Inductive, PTL

(* prepareOperation's nonces: whatever a request meets, only another       *)
(* request of the device, a failure or the end of its era can lose it.     *)
THEOREM LostToRivals == Spec => []OnlyRivalsLose
  <1>1. IInv => OnlyRivalsLose
    BY DEF IInv
  <1> QED BY <1>1, Inductive, PTL

(* fetchJobs: a second acknowledgement is charged for only when the list   *)
(* was read before the first was taken and the nonce after it.             *)
THEOREM WasteIsLate == Spec => []WastedOnlyIfLate
  <1>1. IInv => WastedOnlyIfLate
    BY DEF IInv
  <1> QED BY <1>1, Inductive, PTL

(* A block takes one extrinsic of the device at most. *)
THEOREM OneTakenPerBlock == Spec => OnePerBlock
  <1>1. ASSUME IInv, [Next]_vars
        PROVE  chain'.nonce <= chain.nonce + 1 \/ UNCHANGED vars
    <2>0. TypeInv /\ chain.nonce \in Nat
      BY <1>1 DEF IInv, TypeInv, Typed, TypeOK
    <2>1. ASSUME NEW S \in SUBSET pool, Block(S)
          PROVE  chain'.nonce <= chain.nonce + 1
      BY <2>0, <2>1, TakenIsPool
    <2>2. CASE Aside
      BY <2>0, <2>2 DEF Aside
    <2>3. ASSUME NEW r \in Requests, ReadNonce(r)
          PROVE  chain' = chain
      BY <2>3 DEF ReadNonce, Take
    <2>4. ASSUME NEW r \in Requests, Submit(r) \/ SubmitUnheard(r)
          PROVE  chain' = chain
      BY <2>4 DEF Submit, SubmitUnheard
    <2> QED BY <1>1, <2>0, <2>1, <2>2, <2>3, <2>4, StepKinds
  <1>2. IInv /\ [Next]_vars => [chain'.nonce <= chain.nonce + 1]_vars
    BY <1>1
  <1> QED BY <1>2, Inductive, PTL DEF Spec, OnePerBlock
================================================================================
