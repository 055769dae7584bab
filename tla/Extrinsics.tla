------------------------------- MODULE Extrinsics -------------------------------
(***************************************************************************)
(* The extrinsics the device sends to the Acurast chain.  Each is sent by  *)
(* a coroutine that reads the account's nonce from the best block, reads   *)
(* the header for the mortal era, and submits: nothing orders the          *)
(* coroutines, nothing counts what is still waiting to be taken, nothing   *)
(* is sent again.  Acknowledgements of jobs come from the repeated fetch   *)
(* of the job list; heartbeats, reports, fulfilments, advertisements and   *)
(* attestations are requests of their own.                                 *)
(***************************************************************************)
EXTENDS Integers, Sequences, FiniteSets

CONSTANTS
  Jobs,        \* the jobs matched with the device, in the order of the list
  Unreadable,  \* those whose registration cannot be read or decoded
  Fetches,     \* coroutines of fetchJobs at a time
  Acks,        \* coroutines of acknowledgeJob at a time
  Own,         \* the other requests, each made once
  NoCall,      \* no call
  Era,         \* blocks an extrinsic lives
  Faults       \* failures of the network and of the process, a bound

JobSet == {Jobs[i] : i \in DOMAIN Jobs}

ASSUME ExtrinsicsAssumption ==
  /\ Jobs \in Seq(JobSet) /\ Unreadable \subseteq JobSet
  /\ Acks \cap Own = {} /\ JobSet \cap Own = {} /\ NoCall \notin JobSet \cup Own
  /\ Era \in Nat \ {0} /\ Faults \in Nat

VARIABLES
  fetch,      \* [Fetches -> [stage, seen: acknowledged when listed, at: job]]
  req,        \* [Acks \cup Own -> [stage, call, nonce, life]]
  pool,       \* extrinsics of the device the node holds for the next blocks
  chain,      \* [nonce, acked: acknowledged jobs, taken: Own requests]
  scheduled,  \* jobs handed to Scheduler.scheduleV8Execution
  faults,     \* failures left
  \* history
  excuse,     \* [Own -> what may have come between the request and the chain]
  late,       \* jobs acknowledged on a nonce read after they were acknowledged
  wasted      \* jobs the chain took a second acknowledgement for

vars == <<fetch, req, pool, chain, scheduled, faults, excuse, late, wasted>>

Requests == Acks \cup Own
Calls    == JobSet \cup Own
Idle     == [stage |-> "idle", call |-> NoCall, nonce |-> 0, life |-> 0]
Starting(c) == [stage |-> "nonce", call |-> c, nonce |-> 0, life |-> 0]
Resting  == [stage |-> "idle", seen |-> {}, at |-> 0]
Extrinsic == [call : Calls, nonce : Nat, life : 1 .. Era]
Active   == {"nonce", "header", "submit"}
RequestState == [stage : Active \cup {"idle", "ok", "failed"},
                 call : Calls \cup {NoCall}, nonce : Nat, life : 0 .. Era]

Init ==
  /\ fetch = [f \in Fetches |-> Resting]
  /\ req = [r \in Requests |-> Idle]
  /\ pool = {}
  /\ chain = [nonce |-> 0, acked |-> {}, taken |-> {}]
  /\ scheduled = {} /\ faults = Faults
  /\ excuse = [o \in Own |-> {}] /\ late = {} /\ wasted = {}

--------------------------------------------------------------------------------
(* fetchJobs *)

StartFetch(f) ==
  /\ fetch[f].stage = "idle"
  /\ fetch' = [fetch EXCEPT ![f].stage = "list"]
  /\ UNCHANGED <<req, pool, chain, scheduled, faults, excuse, late, wasted>>

(* getAssignedJobs: the whole list, as it is in one block. *)
ReadList(f) ==
  /\ fetch[f].stage = "list"
  /\ fetch' = [fetch EXCEPT ![f] = [stage |-> "visit", seen |-> chain.acked, at |-> 1]]
  /\ UNCHANGED <<req, pool, chain, scheduled, faults, excuse, late, wasted>>

Current(f)  == Jobs[fetch[f].at]
Visiting(f) == fetch[f].stage = "visit" /\ fetch[f].at \in DOMAIN Jobs
Advance(f)  == fetch' = [fetch EXCEPT ![f].at = @ + 1]

ScheduleJob(f) ==
  /\ Visiting(f) /\ Current(f) \notin Unreadable /\ Current(f) \in fetch[f].seen
  /\ scheduled' = scheduled \cup {Current(f)}
  /\ Advance(f)
  /\ UNCHANGED <<req, pool, chain, faults, excuse, late, wasted>>

(* acknowledgeJob returns at once; its coroutine a goes on. *)
AcknowledgeJob(f, a) ==
  /\ Visiting(f) /\ Current(f) \notin Unreadable /\ Current(f) \notin fetch[f].seen
  /\ req[a].stage = "idle"
  /\ req' = [req EXCEPT ![a] = Starting(Current(f))]
  /\ Advance(f)
  /\ UNCHANGED <<pool, chain, scheduled, faults, excuse, late, wasted>>

(* One job whose registration cannot be read ends the loop over all. *)
EndFetch(f) ==
  /\ fetch[f].stage = "visit"
  /\ Visiting(f) => Current(f) \in Unreadable
  /\ fetch' = [fetch EXCEPT ![f] = Resting]
  /\ UNCHANGED <<req, pool, chain, scheduled, faults, excuse, late, wasted>>

FetchFails(f) ==
  /\ fetch[f].stage # "idle" /\ faults > 0
  /\ fetch' = [fetch EXCEPT ![f] = Resting]
  /\ faults' = faults - 1
  /\ UNCHANGED <<req, pool, chain, scheduled, excuse, late, wasted>>

--------------------------------------------------------------------------------
(* A request *)

Pooled(c)  == \E x \in pool : x.call = c

(* heartbeat, report, fulfill, submitAttestation, pairWithManager, advertise *)
Request(o) ==
  /\ req[o].stage = "idle"
  /\ req' = [req EXCEPT ![o] = Starting(o)]
  /\ UNCHANGED <<fetch, pool, chain, scheduled, faults, excuse, late, wasted>>

Take(r, nonce) ==
  /\ req[r].stage = "nonce"
  /\ req' = [req EXCEPT ![r].stage = "header", ![r].nonce = nonce]
  /\ excuse' = [o \in Own |-> IF o = r /\ pool # {} THEN excuse[o] \cup {"rival"}
                                                     ELSE excuse[o]]
  /\ late' = late \cup ({req[r].call} \cap chain.acked)
  /\ UNCHANGED <<fetch, pool, chain, scheduled, faults, wasted>>

(* Mutants: the nonce counts the pool, is the last one used, or one ahead. *)
ReadNextIndex(r)  == Take(r, chain.nonce + Cardinality(pool))
ReadLastNonce(r)  == Take(r, IF chain.nonce = 0 THEN 0 ELSE chain.nonce - 1)
ReadNonceAhead(r) == Take(r, chain.nonce + 1)

(* getAccountInfo: the nonce of the best block, whatever waits in the pool. *)
ReadNonce(r) == Take(r, chain.nonce)

Born(r, life) ==
  /\ req[r].stage = "header"
  /\ req' = [req EXCEPT ![r].stage = "submit", ![r].life = life]
  /\ UNCHANGED <<fetch, pool, chain, scheduled, faults, excuse, late, wasted>>

(* The header and its hash: the era begins with the best block. *)
ReadHeader(r) == Born(r, Era)

(* The coroutine is over.  Nobody waits for an acknowledgement. *)
Ended(r, how) ==
  IF r \in Acks THEN Idle ELSE [stage |-> how, call |-> r, nonce |-> 0, life |-> 0]

Over(r, how) == req' = [req EXCEPT ![r] = Ended(r, how)]

SameSlot(r) == {x \in pool : x.nonce = req[r].nonce}

(* The node keeps one extrinsic for a nonce, the older one or, if its      *)
(* priority is higher, the newer one.                                      *)
Join(r) ==
  /\ req[r].stage = "submit" /\ req[r].nonce >= chain.nonce /\ req[r].life > 0
  /\ pool' = (pool \ SameSlot(r)) \cup
               {[call |-> req[r].call, nonce |-> req[r].nonce, life |-> req[r].life]}

(* Every other request that is on its way, or displaced, has met a rival. *)
Outrun(r) ==
  {o \in Own \ {r} : req[o].stage \in {"header", "submit"}
                     \/ \E x \in SameSlot(r) : x.call = o}

Submit(r) ==
  /\ Join(r)
  /\ Over(r, "ok")
  /\ excuse' = [o \in Own |-> IF o \in Outrun(r) THEN excuse[o] \cup {"rival"} ELSE excuse[o]]
  /\ UNCHANGED <<fetch, chain, scheduled, faults, late, wasted>>

(* The node took the extrinsic, and its answer is lost. *)
SubmitUnheard(r) ==
  /\ faults > 0 /\ Join(r)
  /\ Over(r, "failed")
  /\ faults' = faults - 1
  /\ excuse' = [o \in Own |-> IF o \in Outrun(r) THEN excuse[o] \cup {"rival"} ELSE excuse[o]]
  /\ UNCHANGED <<fetch, chain, scheduled, late, wasted>>

(* submitExtrinsic throws: the exception is logged, or told to the user,   *)
(* and forgotten.                                                          *)
Refused(r) ==
  /\ req[r].stage = "submit"
  /\ req[r].nonce < chain.nonce \/ req[r].life = 0 \/ SameSlot(r) # {}
  /\ Over(r, "failed")
  /\ excuse' = [o \in Own |-> IF o = r /\ req[r].life = 0 THEN excuse[o] \cup {"expired"}
                                                           ELSE excuse[o]]
  /\ UNCHANGED <<fetch, pool, chain, scheduled, faults, late, wasted>>

(* The key store or the network fails, or the signature is malformed:      *)
(* acurastSign drops leading zeros of r and s, and the chain cannot decode *)
(* what is left.                                                           *)
CutOff(r) ==
  /\ req[r].stage \in Active /\ faults > 0
  /\ Over(r, "failed")
  /\ faults' = faults - 1
  /\ excuse' = [o \in Own |-> IF o = r THEN excuse[o] \cup {"cut"} ELSE excuse[o]]
  /\ UNCHANGED <<fetch, pool, chain, scheduled, late, wasted>>

(* The process ends: coroutines are not kept anywhere. *)
Crash ==
  /\ faults > 0
  /\ fetch' = [f \in Fetches |-> Resting]
  /\ req' = [r \in Requests |-> IF req[r].stage \in Active THEN Ended(r, "failed") ELSE req[r]]
  /\ excuse' = [o \in Own |-> IF req[o].stage \in Active THEN excuse[o] \cup {"cut"}
                                                         ELSE excuse[o]]
  /\ faults' = faults - 1
  /\ UNCHANGED <<pool, chain, scheduled, late, wasted>>

--------------------------------------------------------------------------------
(* The chain: external. *)

(* A block takes extrinsics with consecutive nonces. *)
Fits(S) ==
  /\ \A x, y \in S : x.nonce = y.nonce => x = y
  /\ {x.nonce : x \in S} = chain.nonce .. (chain.nonce + Cardinality(S) - 1)

Left(S) == {x \in pool \ S : x.life > 1 /\ x.nonce >= chain.nonce + Cardinality(S)}

Block(S) ==
  LET called == {x.call : x \in S} IN
  /\ Fits(S)
  /\ chain' = [nonce |-> chain.nonce + Cardinality(S),
               acked |-> chain.acked \cup (called \cap JobSet),
               taken |-> chain.taken \cup (called \cap Own)]
  /\ wasted' = wasted \cup (called \cap chain.acked)
  /\ pool' = {[x EXCEPT !.life = @ - 1] : x \in Left(S)}
  /\ req' = [r \in Requests |-> IF req[r].life > 0 THEN [req[r] EXCEPT !.life = @ - 1]
                                                   ELSE req[r]]
  /\ excuse' = [o \in Own |-> IF \E x \in pool \ S : x.call = o /\ x.life = 1
                              THEN excuse[o] \cup {"expired"} ELSE excuse[o]]
  /\ UNCHANGED <<fetch, scheduled, faults, late>>

FetchSteps(f) ==
  StartFetch(f) \/ ReadList(f) \/ ScheduleJob(f) \/ EndFetch(f) \/ \E a \in Acks : AcknowledgeJob(f, a)

RequestSteps(r) == ReadNonce(r) \/ ReadHeader(r) \/ Submit(r) \/ Refused(r)

Next ==
  \/ \E f \in Fetches : FetchSteps(f) \/ FetchFails(f)
  \/ \E o \in Own : Request(o)
  \/ \E r \in Requests : RequestSteps(r) \/ SubmitUnheard(r) \/ CutOff(r)
  \/ Crash
  \/ \E S \in SUBSET pool : Block(S)

Spec == Init /\ [][Next]_vars

(* The fetch is repeated every minute, coroutines run and requests are     *)
(* answered, not every one of them later than its era, which is many       *)
(* blocks; the chain does not pass the device over for ever.               *)
Fairness ==
  /\ \A f \in Fetches : WF_vars(FetchSteps(f))
  /\ \A r \in Requests : WF_vars(RequestSteps(r)) /\ SF_vars(SameSlot(r) = {} /\ Submit(r))
  /\ SF_vars(\E S \in SUBSET pool \ {{}} : Block(S))

FairSpec == Spec /\ Fairness

--------------------------------------------------------------------------------
(* Every variable keeps its type. *)
TypeOK ==
  /\ fetch \in [Fetches -> [stage : {"idle", "list", "visit"}, seen : SUBSET JobSet,
                            at : 0 .. (Len(Jobs) + 1)]]
  /\ req \in [Requests -> RequestState]
  /\ pool \subseteq Extrinsic
  /\ chain \in [nonce : Nat, acked : SUBSET JobSet, taken : SUBSET Own]
  /\ scheduled \subseteq JobSet /\ faults \in 0 .. Faults
  /\ excuse \in [Own -> SUBSET {"rival", "cut", "expired"}]
  /\ late \subseteq JobSet /\ wasted \subseteq JobSet

(* However many extrinsics the device sends, a block takes one at most:    *)
(* prepareOperation reads the nonce without what waits in the pool.        *)
OnePerBlock == [][chain'.nonce <= chain.nonce + 1]_vars

(* A request that is over and reached the chain in no block, and will in   *)
(* none, met another request of this device on its way, was cut off, or    *)
(* outlived its era: alone, a request that is answered is taken or waits.  *)
OnlyRivalsLose ==
  \A o \in Own :
    req[o].stage \in {"ok", "failed"} /\ o \notin chain.taken /\ ~Pooled(o) => excuse[o] # {}

(* The chain takes, and charges for, a second acknowledgement of a job     *)
(* only if the first was taken between fetchJobs' reading of the list and  *)
(* the second's reading of the nonce.                                      *)
WastedOnlyIfLate == wasted \subseteq late

(* Every job is acknowledged and then scheduled at last, although its      *)
(* acknowledgements collide with each other and with other requests,       *)
(* unless a job before it in the list cannot be read.                      *)
EveryJobScheduled ==
  \A i \in DOMAIN Jobs :
    (\A k \in 1 .. i : Jobs[k] \notin Unreadable) => <>(Jobs[i] \in scheduled)
================================================================================
