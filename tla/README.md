# Acurast data processor: a TLA+ verification project

The data processor is an Android app (Kotlin, package `com.acurast.attested.executor`, and
Sweet B, an elliptic curve library in C, with its binding). It fetches the jobs assigned to the device from Tezos or from the Acurast
chain, arms an alarm for each run, executes the job's javascript in V8 when the alarm goes off,
and gives scripts the means to fetch data, to attest, to sign, and to send operations to Tezos,
Ethereum and Acurast. This directory holds TLA+ models of the parts whose behaviour depends on
order, on failures or on state that outlives a call, TLC runs that check them on small instances,
and TLAPS proofs.

Paths below are relative to `src/app/src/main/java/com/acurast/attested/executor/` unless they
begin with `src/` or `cpp/` (`src/app/src/main/cpp/`).

## 1. Inventory

| component | code | state | operations | interacts with |
| --- | --- | --- | --- | --- |
| V8 script execution | `v8/V8Executor.kt`, `v8/V8Utils.kt` | an executor thread, a runtime and its lock per execution | `execute`, `httpGET`, `httpPOST`, `attest`, `withV8Lock` | networking pool, main thread, protocols, services |
| Networking | `utils/Networking.kt` | a pool of 10 threads and its queue | `httpsRequest`, `HttpClient.call` | called by scripts and by every protocol |
| Tezos operations | `protocol/tezos/Tezos.kt`, `TezosRPC.kt`, `Operation.kt`, `utils/Tezos.kt`, `utils/Once.kt` | counter, time of its fetch, `IS_REVEALED` in preferences; a single-threaded queue; coroutines | `init`, `fulfill`, `ack`, `fetchBranch`, `fetchCounter`, `injectOperation` | node lookup, preferences, chain |
| Tezos node lookup | `protocol/tezos/Utils.kt` | a latch and a list per lookup | `getSyncedNodes` | Tezos executor |
| Job scheduling | `utils/Scheduler.kt`, `utils/IPFS.kt`, `V8ExecutorBroadcastReceiver.kt` | request codes in preferences, Android's alarms | `scheduleV8Execution`, `resolveUri` | job lists of Tezos and Acurast; alarms start services |
| Timers, receivers, services | `*BroadcastReceiver.kt`, `services/*.kt`, `ui/MainActivity.kt`, `Scheduler.scheduleFetcher` and `scheduleHeartbeat` | the armed fetch and heartbeat alarms, started services | `onReceive`, `onStartCommand`, `stopSelf` | start executions, fetches and heartbeats |
| Key of the secp256k1 signer | `crypto/curves/GenericEcdsa.kt` | a file and a key-store entry | `getOrCreatePrivateKey`, `getPublicKey`, `rawSign` | every signer, on any thread |
| Processor key | `crypto/CryptoLegacy.kt`, `P256.kt`, `Attestation.kt` | one key-store entry | `generateKeyPair`, `acurastSign`, `rawSign` | extrinsics, Tezos operations |
| Acurast extrinsics | `protocol/acurast/*.kt` | none: the nonce is read from the last block | `fetchJobs`, `acknowledgeJob`, `heartbeat`, `report`, `fulfill` | timers, executions |
| Ethereum transactions | `protocol/ethereum/*.kt` | none: the nonce is read from the chain | `fulfill` | scripts, under the V8 lock |
| Shared preferences, bootstrap | `App.kt` | preferences in memory, and a file behind | `onCreate`, `writeSharedPreferences*` | Tezos operations, scheduling |
| Elliptic curves, signatures | `crypto/curves/Ecdsa.kt`, `RecoverableEcdsa.kt`, `Curve.kt`, `Scheduler.kt` (`trim`) | none | `sign`, `verify`, `findRecoverId`, encodings | key file, processor key, extrinsics, transactions |
| Native signer | `native/SweetBSigner.kt`, `cpp/sweet_b_signer.c` | none | public key, shared secret, sign, compress, verify a key | `GenericEcdsa`, Sweet B |
| Sweet B: interface | `cpp/sb_sw_lib.c`, `cpp/include/sb_sw_context.h`, `sb_error.h` | a context: saved state, stage, index, what was computed | operations at once or as `start`, `continue`, `finish`; checks and conversions of keys | its callers; the DRBG, points |
| Sweet B: random bits | `cpp/sb_hmac_drbg.c` | key, value and reseed counter | `init`, `reseed`, `reseed_required`, `generate*` | HMAC; the interface |
| Sweet B: points, scalars, signatures | `cpp/sb_sw_lib.c`, `sb_sw_curves.h` | the rest of the context | ladder, two-scalar multiplication, sign, verify, validate | field elements |
| Sweet B: field elements | `cpp/sb_fe.c`, `sb_fe.h` | none | words with carries; arithmetic modulo a prime | points |
| Sweet B: hashes | `cpp/sb_sha256.c`, `sb_hmac_sha256.c`, `sb_hkdf.c` | buffer, intermediate hash, total; HMAC key; output | `init`, `update`, `finish`, `reinit`, `expand` | DRBG; callers |
| V8 prelude, encodings, UI | `v8/prelude/*.kt`, `protocol/tezos/Micheline.kt`, `utils/Encoding.kt`, `ui/` | none of their own | argument conversion, screens | everything above |

How they meet: an alarm starts a service; `V8ExecutorService` calls `V8Executor.execute`, whose
script runs on a thread of its own while its asynchronous calls run on the pool of `Networking`
or end on the main thread and come back through `withV8Lock`. When an execution is over, and
for each `fulfill` of a script, an operation is sent. `JobFetcherService` fetches the list of
jobs and hands every job to `Scheduler.scheduleV8Execution`, on whatever thread the answer
arrived.

What is hard, and what must hold:

* **V8**: threads that never synchronise except by polling a lock; callbacks that arrive while
  the runtime is being closed or after; javascript that throws while a lock is held. One thread
  at a time inside a runtime, nobody inside a runtime that is being closed, one outcome and one
  report per execution, every execution and every call comes to an end.
* **Tezos operations**: a counter read, cached and used in three different tasks; answers lost
  after the chain took the operation; retries; a cache written to disk later. No operation twice
  on the chain, no two operations with one counter, at most one callback, success only when true.
* **Job scheduling**: overlapping fetches, downloads that finish in any order, alarms that outlive
  the process while unwritten preferences do not, interval arithmetic at the first and last slot.
  No run skipped, none repeated, none that replaces another's alarm, the last report flagged.
* **Key file**: creation by several threads, a crash between two writes, a failure in any step.
  One key for the life of the installation.
* **Extrinsics**: coroutines that each read the nonce of the best block and submit, unordered; nobody
  resends. What is lost is lost to a rival, a failure or its era; a job is acknowledged in the end,
  and a second acknowledgement is paid for only in a named race.
* **Timers, receivers, services**: kills between the statements of a receiver, starts refused in the
  background, a permission that comes and goes, reboots that one of two receivers hears of, services
  restarted with a null intent, executions that end in any order. A chain of alarms ends only by the
  system's hand; the service stands around the latest execution; fetches come back.
* **Signatures**: numbers at their edges, of which random tests meet one in 256 or one in 2^32: a short `r`
  or `s`, an `x` beyond the order, a coordinate with its top bit set. A signature made is valid, leads
  back to its key, and its bytes to its numbers; where not, the edge that excuses it is named.
* **Sweet B, interface**: one context for operations of all kinds, which number their stages alike; a
  caller that continues or finishes what another call has started; errors that add up and leave early,
  with half of a secret in the context; a DRBG that is asked once whether it will last for calls made
  later. A finish delivers what the last start began, the context is wiped when an operation failed or
  ended, no operation is refused halfway, no output repeats.
* **Sweet B, numbers**: the last carry of a Montgomery product, zero kept as the prime, scalars next to
  zero and to the order, points with `x` = 0, an `x` beyond the order, a loop that ends by the wrapping of
  an unsigned index. Words compute what numbers would, and the ladders what the group would, wherever
  they are interrupted.
* **Sweet B, hashes**: messages in pieces, lengths that do not fit behind the message, objects used
  again. Every hash, HMAC and key is the standard's for the whole message.
* **Node lookup**: see the plan in section 6.

`PROJECT.json` lists every hazard with its source line and the properties that cover it.

## 2. Modules

| module | what it is |
| --- | --- |
| `V8Runtime` | contract of a runtime: live at most once, one actor inside at a time, over only while empty |
| `V8Execution` | `execute`, the calls of a script, the pool, the main thread and `withV8Lock`; `Contract` is the refinement mapping to `V8Runtime` |
| `V8ExecutionProofs` | the theorems about `V8Execution` and `Timers` |
| `MCV8Execution` | its instances |
| `Submission` | contract of sending operations: taken at most once, one answer at most, success only for what was taken |
| `TezosOperations` | `fulfill`, `ack` and `init` down to the node; `Promise` is the refinement mapping to `Submission` |
| `TezosOperationsProofs` | the theorems about `TezosOperations` |
| `JobSchedule` | from the fetched list to the alarm that goes off |
| `JobScheduleProofs` | the theorems about `JobSchedule` |
| `MCJobSchedule` | its jobs: a behavior is one of Tezos or one of Acurast |
| `KeyFile` | creating, reading and losing the secp256k1 key |
| `KeyFileProofs` | the theorems about `KeyFile` |
| `Extrinsics` | `fetchJobs`, and every extrinsic from its request to the block that takes it |
| `ExtrinsicsProofs` | the theorems about `Extrinsics` |
| `MCExtrinsics` | its list of jobs |
| `Timers` | alarms, receivers, the activity, the services and the process |
| `Signatures` | ECDSA in Kotlin and through the key store, recovery ids, bytes |
| `MCSignatures` | its curves and hashes |
| `SbHash` | SHA256, HMAC and HKDF in pieces |
| `SbCompression` | the compression function, round by round |
| `MCSbHash` | composes the two: constants, blocks and the bitwise operators |
| `SbField` | elements of a prime field in words |
| `SbProofs` | the theorems about `SbHash`, `SbCompression` and `SbField` |
| `SbPoint` | points, scalars, signatures: the steps of the long operations |
| `SbPointProofs` | the theorems about `SbPoint` |
| `MCSbNumbers` | composes the two: primes, curves and tasks |
| `SbDrbg` | the HMAC-DRBG |
| `SbSw` | extends it by the interface: contexts, operations, errors; and the native signer |
| `SbSwProofs` | the theorems about `SbSw` and `SbDrbg` |

### V8Execution

`pc[j]` is the line at which the executor thread of execution `j` stands: `init` (creating
the runtime and registering the prelude), `script` (`executeVoidScript`), `sleeping` (the
`EXECUTION_TIME_LIMIT`), `acquiring` (the `tryAcquire` loop), `closing`, `finish` (the outer
`finally`), `done`. `owner[j]` is the lock's thread, `terminating[j]` a termination asked for and
not yet met by javascript. A call is `queued`, `active` on a pool thread, `wait*` in the loop of
`withV8Lock`, `in*` inside the callback, `done`; an attestation is `asked` until the token's
listener runs on the main thread. Every `catch` and `finally` of `execute` is an action or part of
one. Javascript is abstract: where it runs it may issue calls, return, or throw. An exception that
leaves a listener on the main thread ends the app (`crashed`). J2V8's lock is
modelled from its use: `tryAcquire` succeeds on a free lock and on one's own, and only its owner
releases it.

### TezosOperations

An operation goes through four stages (`key`, `branch`, `counter`, `inject`); for each,
a task of `TezosRPC.executor` looks a node up (`pool`) and a coroutine asks it (`rpcs`). `single`
is the queue of `singleThreadedExecutor`, where counters are fetched (`FetchCached`,
`FetchRemote`) and stored with the operation signed (`Store`): the code's counter is used one
later than it was stored. `mem` and `disk` are the preferences and their file; `fresh` says that
`LAST_COUNTER_FETCH` is younger than 30 seconds. `fired` is the state of the `Once` wrappers.
`InjectTaken`, `InjectAgain`, `InjectRefused`, `InjectTimesOut` are one POST each, with its answer,
without one, or with a request that arrives later. The chain is external: it takes the operation
whose counter follows the last one, a transaction only when the key is known. `getSyncedNodes` is
what the code returns, one random synchronised node; an empty list throws inside the task.

### JobSchedule

A call of `scheduleV8Execution` is a record that goes through `resolve` (the script is being
downloaded), `place` (the counter was read, the request code is not yet given) and `arm`. `NextAt`
and `IsLast` are the code's expressions; `Unit` is the factor `USING_ACURAST` chooses. Calls that
know the same are one element of a set: which of two such calls goes on is indistinguishable.
Alarms are external: one per request code, replaced by `setExactAndAllowWhileIdle` for the same
code, surviving the process and not a reboot. The history variables `overlapped`, `forgot`,
`blocks` and `slow` do not influence any step; properties use them to say when the code promises
something.

### KeyFile

A thread calls `getPublicKey` or wants the private key; each read, write, key-store
operation of `getOrCreatePrivateKey` is a step. `linked[t]` says whether the stream `t` holds
still belongs to the file of that name (a deleted file keeps its streams, and their writes are
lost). The `catch` block, `Delete`, follows a failed step (`OperationFails`) and bytes that do
not decrypt (`DecryptFails`).

### Extrinsics

`fetch[f]` is one `thread` of `fetchJobs`: the list as it was in one block, and the place in the loop
over it. `req[r]` is the coroutine of one request: `nonce` (`getAccountInfo`), `header` (header and
block hash), `submit`, and how it ended. The acknowledgements are anonymous (`Acks`): their callbacks
only log, so that a coroutine that is over is free for the next. The others (`Own`: heartbeat,
pairing, report, fulfilment, advertisement, attestation) are made once each; they differ in their
call data only. The call data, the key and the signature are abstract; a signature that is malformed
because `trim` shortened `r` or `s` is a failure (`CutOff`). The node's pool and the chain are
external: one extrinsic per nonce, the older or the newer one according to its priority; a block takes
any run of consecutive nonces; the era is counted in blocks. `excuse`, `late` and `wasted` are history.

### Timers

`armed` is Android's table of alarms for the two chains and the hourly one; the alarms of
executions are `JobSchedule`'s, here `V8Alarm`. `main` holds the statements that the handler on the
main thread has still to execute: a kill loses them, and nothing else runs on that thread before
they are through. `started` is what Android knows of services and survives the process, `created`
the instances in it; a service that is started and not created, with no intent underway, is what
`START_STICKY` restarts with a null intent. `JobFetcherService` and `HeartbeatService` take a null
intent; `V8ExecutorService` does not (`intent: Intent`), and the process ends
(`StickyCrash`) until Android gives the service up. `StartRefused` is the exception of `startService`
that no receiver catches. An execution is over in `ExecutionEnds`, by way of any of the three
`stopSelf(startId)`. What Android does (kills, reboots, permissions, when it restarts or refuses) is
external. An execution older than the one started last may be left without its service, since
`stopSelf` with the latest id stops it: `Sheltered` promises no more.

### Signatures

Pure functions, and one signature at a time: `rawSign` and `fulfill` (Ethereum), `KeyStoreSigns` and
`acurastSign`, or `KeyStoreSigns` and `ecSign` (Tezos). `fastMultiply`, `fastAdd`, `fastDouble`, `inv`,
`sign`, `verify`, `privateKeyToPublicKey`, `recoverToPublicKey` and `findRecoverId` are the code's, with
its Jacobian coordinates and its infinite point (0, 0, 1). The reference is the group in affine
coordinates (`RefSum`, `RefMultiple`) and ECDSA's equation (`Valid`). `App` and `Store` stand for secp256k1
and secp256r1; bytes have `Base` values and a padded number `Size` of them, with Java's sign bit
(`toByteArray`). The randomness of `sign` is every signed number of `Size` bytes. The key store is external:
any valid signature. `RecoverableEcdsa` works on a library's curves; its arithmetic is the reference's,
its order of attempts and its exceptions are the code's. `TypeOK` says where numbers are reduced.

### Sweet B

Six modules, each of which takes the next one down for granted as the run of that one shows it.

`SbHash`: one object is initialized, fed and finished, as a hash, an HMAC or an HKDF, with every
buffer, pad and counter of the C structures. An intermediate hash is the sequence of blocks it was made
of, a byte a symbol with the pads it was xored with: equal symbols mean equal bytes whatever the
compression function does. The two loops (`UpdateTurn`, `ExpandTurn`) are functions from the number of
turns. `SbCompression` is that function: a step is a round on the rotating windows `W` and `a_h`, next to
it the same round on the schedule and the eight variables of FIPS 180-4; `XOR`, `AND` and `OR` of words are
constants, which `MCSbHash` takes from `Bitwise`. A behavior is one of either.

`SbField`: an element is a function from places to words. `sb_fe_mont_mult`, `sb_fe_qr` and the other
operations are the code's loops with their carries: a recursive function of the place, the round or the
bit a loop has come to (`sb_mult_add_add`, `Rounds`, `Power`); what masks choose is chosen. A behavior
applies one operation to two elements. `SbPoint` has the same operations on numbers, quasi-reduced (`Q`: zero is
the prime), and above them the formulas of the ladder in their order, which registers of the context
hold what, and what a call may do before it returns (`POINT_ITERATIONS`). Registers that a `continue`
does not save are `Lost`. A behavior performs one task, started and continued to its end.

`SbDrbg`: a value of HMAC is its depth, one more than that of the key and the V it was made from, so that
values of different depths were made from different inputs. Depth counts from the block put out last:
`repeated` is set when a block put out is not deeper than those before. `answer` is what the caller was
told: errors, and how many calls it asked about and made.

`SbSw`: `ctx` is the saved state (operation, curve, stage, index, result) and `holds`, what was computed
into the rest; `open` is the operation started last, as long as no call has failed. Every public function
is an action: starts, continues and finishes of the five operations, the operations at once, which are a start
and then `Step`s of the same thread (`calling`), and those without a context. `Early` is what is checked
before anything is drawn, `Consult` what is drawn then; errors add up in the order of the code, and
`Yield`, `Return` and `returnEarly` are its macros, with their wiping. `Faults` says what is wrong with
the inputs of a call. The functions of `sweet_b_signer.c` are operations without a DRBG.

## 3. Runs

Every run is exhaustive. `Deadlock` is off where the system may stop: each cfg says why.

| run | instance | what it shows |
| --- | --- | --- |
| `V8Execution` | 2 executions, 2 HTTP calls, 1 attestation, 2 pool threads, fairness | quiet when closed; exact outcomes; locks leak by throwing callbacks only; `V8Runtime` is implemented; executions end and calls are settled, unless a lock is left behind |
| `TezosOperations` | `init`, `fulfill`, 2 nodes, 2 retries, fairness | counters are distinct except in the races `raced` names; an operation is taken once, and answered once, whatever is lost or late: `Submission` is implemented; every operation is answered or lost in a way `OnlyLookupLoses` names |
| `JobSchedule` | either two requesters of one script on Tezos, a periodic and a one-shot job, 3 ticks; or one periodic job on Acurast, its slots and its end, 5 ticks; two calls at a time, crashes, reboots | no slot a job was scheduled for in time is skipped, repeats are explained, the last report is flagged; the twins, and nobody else, replace each other's alarms |
| `KeyFile` | 2 threads, 2 creations, 2 faults | one key, no garbled public key, a finished key stays unless something fails |
| `KeyDeleted` | as `KeyFile`, 1 fault | *violated*: see Findings |
| `Timers` | 2 executions, 2 faults, 1 restart after a crash, fairness | a chain of alarms ends only by the system or for want of the permission, never by a refused start, and serves its service for ever otherwise; the hourly alarm repairs the fetch chain; the latest execution keeps its service |
| `Extrinsics` | 2 jobs, the second unreadable, 1 fetch, 2 acknowledgements at a time, a report, era of 2 blocks, 1 failure, fairness | what is lost has met a rival, a failure or its era; when an acknowledgement is paid twice; the job before the unreadable one is scheduled, collisions or not |
| `Signatures` | curves of order 31 and 53, every key, every nonce, 9 hashes | the app's signatures are valid, verify, and are recovered but at named edges; recovery fails for the key store's in one case; trimmed bytes are unambiguous exactly when nothing was trimmed |
| `SbHash` | blocks of 4 bytes, 2 of them for the length, totals that wrap at 12, messages of up to 13 bytes in pieces of 1 to 6, keys of 0 to 5; 13 blocks of 16-bit words | hashes, HMACs and derived keys are the standards', up to the two counters that wrap |
| `SbNumbers` | three primes of 6 bits in 3 words, all operations on all pairs; curves of order 23 (5 bits, `a` = -3) and 67 (7 bits, `a` = 0), 3 iterations per call | field operations are right on all operands; products for every point and scalar, with whatever Z; signatures and their verification at and beyond the ends of the ranges; what is taken for a point, a scalar, a Z |
| `SbZeroX` | as `SbNumbers` | *violated*: see Findings |
| `SbSw` | one context, one DRBG of the least interval allowed (18), batches of 3, lengths 0, 33, 257, indices modulo 16, 3 bits with 2 iterations per call, no, one or several bad inputs, fairness of `Step` | no output repeats and none without a seed or beyond the interval; no operation is refused halfway; finishes deliver what was started, contexts are wiped; calls return |

Why the bounds are enough. In V8Execution the hazards need two contenders for one lock, a third
party whose request waits behind them in the pool, and a main-thread callback: all present; the
theorems then drop the bounds. In TezosOperations a counter race needs two operations, a
reveal and a transaction carry one counter each; retries only matter per operation, and two of
them let a retry fail. In JobSchedule two calls overlap, and the clock reaches
the first slot (of the twins) or the last one before the end of the job, which lies between two slots
(of the job alone: start 3, interval 2, end 6). In KeyFile two threads are the smallest race, two
creations the smallest replacement, and two faults allow a failure after a crash. In Extrinsics a
fetch that comes again before its acknowledgement is in a block acknowledges one job twice, and a report
is the rival with another call; an era of two blocks
can end in each stage of a request; one failure is enough to lose an answer, a coroutine or the
process. In Timers an execution ends while another runs or is on its way; two faults are any two of
a kill, a refusal, a reboot, a stop by the user and a loss of the permission. In Signatures the curves
have prime order below `P`, as the real ones, `A` = 0 and `A` = -3, points with `x` at or beyond the order, and among
these some for which `x - N` belongs to a point and some for which it does not; with a base of 8 and
two bytes, coordinates are short, full, or have their top bit set. In SbHash a message ends in every place of a block, with and without
room for its length; several keys come from one object. In SbField three words are a first, a middle and
a last one; six bits allow every pair of operands. In SbPoint the curves have the relations the real
ones have (`PointAssumption`: prime order below the prime, both with their top bit set; of a number and its
opposite one is a square, as for primes that are 3 modulo 4; a generator whose `x` is not 0), one with points
of `x` = 0; three iterations per call interrupt each loop in its middle. In SbSw an interval of 18 is the
least the header allows, so that an operation of five calls, a batch and single calls all meet its end;
three bits end a loop within a call and at its edge. `MaxTime`, `MaxCalls`, `MaxFed`, `MaxDepth`, `Creations`, `Era`, `MaxRuns`,
`MaxCrashes` and `Faults` are the only counters with a bound in the guards.

Fairness. *V8*: each executor thread, each handler and each pool thread is weakly fair. Android
schedules threads; `httpsRequest` sets both timeouts; a token request is answered; and the code has
no defence against javascript that never returns, since termination is asked for only after the
script is over, so that its end is an assumption. Issuing a call is not fair. *Tezos*: pool,
coroutines and the single thread are weakly fair, requests are answered or time out; nothing is
assumed of the chain. *Extrinsics*: the fetch alarm goes off every minute, coroutines run (weak); a
request is not answered later than its era every time, and the chain, which may be busy with the
extrinsics of others, does not pass the device over for ever (strong: both may be disabled and
enabled again by a rival). *Timers*: alarms go off and the looper serves its queue in
order, so that an alarm or a command which is ready again and again is served (strong: another handler
may have the thread, a kill may take it away). *SbSw*: an operation at once is a
`do` loop of one thread, which goes on (weak); callers need not continue what they started. The models of
jobs, keys and numbers are checked for safety only: neither alarms nor callers are promised, and the functions end.

Where a property has an exception, the exception is the code's: nothing excludes two calls between
the reading and the writing of the request counter (`overlapped`), `apply()` may be lost
(`forgot`), and two fetches of the Tezos counter may overlap (`raced`). Each exception is a history
variable set by exactly the step that causes it, so that the property still speaks about all
other interleavings.

## 4. Findings

* `KeyDeleted` (`crypto/curves/GenericEcdsa.kt:81`). The comment in the `catch` block says that a key
  that was already created must never be deleted. The block deletes the file whichever step
  failed, the decryption of an existing key included; the next caller makes a new key. TLC's
  trace: a thread creates the key, the next use fails in the key store, the file is gone.
* `SbZeroX` (`cpp/sb_sw_lib.c:1071`). The comment above the check says that signing cannot continue when
  the nonce's point has `x` = 0. The check compares with the order after `mod_reduce` modulo the order; but
  an `x` of zero is kept as the prime, and becomes the prime minus the order. Signing goes on, and `r` is that
  number. The signature is not valid. Such a nonce exists on P-256 only, and is as likely as any other.

## 5. Proofs

`V8ExecutionProofs` proves of `V8Execution`, for every number of executions, calls and pool threads and from the two
named assumptions of `V8Execution` only:

* `TypeCorrect`: `Spec => []TypeOK`.
* `Inductive`: `Spec => []IInv`, the inductive invariant. `MutualExclusion` is not inductive: it does
  not say why the script's thread cannot find a callback inside when it takes the lock. `IInv` adds,
  for each runtime, who may own the lock in which state of the executor thread, that a callback
  inside means its thread owns the lock, which states of a call have a thread, and that a thread
  has one call.
* `Exclusion`, `Quiet`: `MutualExclusion` and `QuietWhenClosed` from `IInv`.
* `Outcome`: `ExactOutcome`, by its own invariant that ties `failed`, `errors`, `successes` and
  `reports` to `pc`.
* `LeaksByThrows`: the action property `OnlyThrowsLeak`.
* `ImplementsV8Runtime`: the initial states map to initial states of `V8Runtime`, and every step to a
  step or a stutter, given `IInv`.

`JobScheduleProofs` proves, from `JobsAssumption`, for every set of jobs with any start, end and
interval, any number of calls and any length of time:

* `TypeCorrect`, and `Inductive`: as long as nothing overlaps or is forgotten, codes given out are
  below the counter and in bijection with what they name, at most one call stands between the
  counter's reading and its writing and has read what is there, and every call and alarm holds a
  code given out for it. `CodesDistinct` alone is not inductive: it does not say that the counter is
  unused.
* `UniqueCodes` and `NoReplacement` follow from it.
* `SlotsServed`: `EverySlotServed`, while `Undisturbed` (no two calls overlapped over the request counter,
  no code was lost by a crash or reboot), as for `UniqueCodes`, `NoReplacement` and `RunsOnce`. Besides
  the codes it needs arithmetic: a call that computes its time in block `b` gets the slot of block `b + 1`, or the first one (`SlotAt`, from
  `SameRemainder` and `Division`), and that arming replaces only the job's own alarm.
* `LastIsFlagged`: `LastRuns`. Times are slots or the end (`AtIsSlot`), and adding the interval
  passes the end exactly at the last of them (`LastIsLast`).
* `RunsOnce`: `OnceEach`, which is not inductive: it does not say why an alarm is not armed again for a
  run that happened. With `OnceInv`: a call that knows its time is ahead of the clock (`NextIsLater`: the
  next time is, by the code's division), runs are behind it, no alarm is left for a run that was
  started, and one alarm has one code; but for what `Excused` names.

`KeyFileProofs` proves, from `KeyFileAssumption`, for any number of threads, keys and failures:

* `TypeCorrect`, and `Inductive`: without an overlap, one thread creates at a time, nobody reads
  meanwhile, the file holds what that thread has written so far, and otherwise nothing, the
  beginning of a creation or all of one; readers have read what is there.
* `NotGarbled`, `CompleteStays`: from it. `SingleKey` (`OneKey`) with the additional invariant that
  without failures the first creation is the only one.

`ExtrinsicsProofs` proves, from `ExtrinsicsAssumption`, for any list of jobs, any number of
coroutines and requests, any era and any number of failures:

* `TypeCorrect`, and `Inductive`: at most one extrinsic of the device waits at the node, and with the
  chain's next nonce; no nonce underway is ahead of the chain (nonces are read from the best block,
  which does not count the pool); a request underway without a rival still has the next nonce to
  itself; an acknowledgement that is underway or waiting for a job that is acknowledged already
  is `late`. The properties alone do not say who holds the next nonce.
* `LostToRivals`, `WasteIsLate` (`OnlyRivalsLose`, `WastedOnlyIfLate`): from it.
* `OneTakenPerBlock` (`OnePerBlock`): what a block takes is a subset of a pool of one.

`V8ExecutionProofs` also proves of `Timers`, from `TimersAssumption`, for any number of executions, crashes and faults:

* `TimersTypeCorrect`, and `TimersInductive`: startIds reach the service in the order in which they were given,
  so that while the latest runs nothing is on its way, and no other id stops the service.
  `LatestSheltered` (`Sheltered`) is part of it.
* `ChainsGoOn` (`OnlySystemStops`), with one more invariant: without the activity, what a handler
  has still to arm comes first, so a refused start finds nothing left to arm.

`SbSwProofs` proves, from `DrbgAssumption` and `SwAssumption`, for every interval of at least 18, every
set of lengths and batches, every width of an element and every number of iterations per call:

* `Inductive`: `SwSpec => []IInv`, with three parts. `DrbgInv` ties the reseed counter to `age`, the
  successful calls since the seeding (`reseed_counter = age + 1` once seeded); without it
  `OnlyFreshlySeeded` is not inductive, since what the code compares is the counter. `Told` says what the
  answer to a query promises for the calls that follow it; each operation is one query and a sequence of
  calls, and `Ran(g, d, n)` counts them down: a call goes through while the counter allows it
  (`CallRuns`), so a query answered well lets as many calls through as it was asked about
  (`EarlyTells`, `AskedKeeps`). `ContextInv` says what the context holds at each stage of each operation
  (`Sound`): stages of different operations have the same numbers, so it is by the operation saved with
  them that a finish knows what it writes.
* `TypeCorrect`; `Unrepeated` (`NeverRepeats`): every output leaves a deeper K and V behind
  (`UpdateGrows`), so that neither they nor a later block are that output; `FreshlySeeded`, `NoAssertFails`, `Delivered`, `Wiped`: `OnlyFreshlySeeded`,
  `AssertsHold`, `Delivers` and `WipesSecrets`.

`TezosOperationsProofs` proves, from `OpsAssumption`, for any operations, nodes and number of retries:

* `TypeCorrect`, and `Inductive`, which says of an operation where it is: one party at a time works for
  it (`One`: a task of the pool, a coroutine, or a task of the single thread), it has begun and has not
  been answered while somebody does, no `Once` callback of a later stage was called, and its counter is
  given from the injection on (`Working`). Without it nothing excludes that a callback answers a caller
  that was answered before. Of the chain it says that an operation is taken once, since its counter is
  passed then, and that only operations with a counter are late (`OpInv`); of the preferences, that a key
  known as revealed is known to the chain (`KeyInv`).
* `LookupLoses` (`OnlyLookupLoses`): any other step hands the operation on or answers it, and leaves the
  work for others alone (`Kept`).
* `Submits` (`ImplementsSubmission`): the initial states and each step, given `Inductive` and that only
  `ensureRevealed` asks for the key (`KeyAsked`).
* `CountersSerial` (`SerialCounters`), with one more invariant: while nothing raced, one counter is under
  way at a time, and neither it nor the cached one is below a counter given away. The counters alone do
  not say what the next one is compared with.

`SbProofs` proves of `SbHash` and `SbCompression`, from `HashAssumption`, for every size of blocks, hashes and lengths, every modulus of
the two counters, messages of any length in pieces of any sizes, keys and infos of any length:

* `HashInductive`: `Spec => []HashInv`. What an object holds is a predicate (`Holds`): the blocks made of the
  message so far, the rest of it at the beginning of the buffer, its length modulo that of the counter. The
  properties speak of outputs only; the invariant says at every stage of every use what is held and with
  which key (`MacHolds`, `KeysHold`), also that an HMAC or a derivation leaves its key behind.
* `HashIsOfWhole` (`HashesFed`) and `KeysAreDerived` (`DerivesKeys`).
* `CompressionIsStandard`: `CompressionSpec => []CompressionFollowsStandard`, with the state of a compression
  alone. The invariant (`Follows`) says where after `t` rounds each of the eight variables and of the last
  sixteen words is found; `SameWord` that the code's four reads are the schedule's words
  `t - 2`, `t - 7`, `t - 15` and `t - 16`; `RoundFollows` that what a round writes over the oldest word and
  two variables is what moves the others on. What the functions of the standard do with the bits of a word
  plays no part, so that the theorem needs no assumption on `XOR`, `AND`, `OR`, `K` or `Bits`.

The lemmas underneath say what each function of the code does to what is held: `UpdateHolds` (any number
of bytes, the loop of `sb_sha256_update`), `FinishHolds` (the padding, with or without a block more:
`Padding` and `OneWay` say that the zeros are those the standard wants), `FinishMac`, `FinishKey` (the
halves of the key's block), `ExpandHolds` (the loop of `sb_hkdf_expand`, against `T(i)`). The two loops need
induction over data. The library's theorems for it have an operator for a parameter, and no prover here
can instantiate that; `Induction` is instead about a set of numbers that has 0 and with each number the
next, and follows from `WFMin`, which has none. A recursive function is to the prover any function that
satisfies its definition, if there is one; `UpdateTurns`, `ExpandTurns` and `RefTurns` show, by induction
over prefixes, that there is one. Nothing is said of a message whose length reaches the modulus of
`sb_size_t`, nor of a key beyond the last value of `sb_hkdf_expand`'s counter: there the code departs from the
standard, as the hypotheses of the two properties name it.

It proves of `SbField`, from `FieldAssumption`, for every width of a word and of a byte, every number of
words and every operand, `FieldsCompute`: `FieldSpec => []FieldComputes`. The assumption says of each prime
what `sb_fe.h` asks of `sb_prime_field_t`: it has all the bits of an element (and is not the greatest
number), `p_mp` is the negative of its inverse modulo a word, `r_mod_p` and `r2_mod_p` are the residues of
the radix and of its square, and the two factors of the exponent `p` - 2 give it. That it is prime is
assumed as what Fermat's little theorem says of it, which holds of primes only. A word has two bits at
least. TLC evaluates the assumption for its three primes.

The invariant (`FieldInv`) is that the result is `Right` for what was done; the work is in what each
function returns, and the proof goes up the file as the code does:

* `Recursion` shows that a function which a loop's step defines exists; `LowestIs` and `ValueBelow` that
  an element is a number below the radix, and `Same` that it is one element's only.
* `AddChain` and `BorrowChain`: at each place, the words so far and the carry, or the borrow, are the sum
  or the difference of the numbers in the words so far. `MultiplyAdd`, `SubtractBorrow`, `LessIs`, `BitIs`
  and `ShiftIs` follow, and with `Digits` and `ReadIs` the bytes of either order (`BytesAre`).
* `QuasiReduced`: what is at most 2 `p`, with its carry, is in 1 .. `p` after one conditional subtraction.
  The sums, differences, negation, doubling, halving and reductions rest on it (`ModAddIs` to `HalveIs`).
* `RoundsKeep`: after `i` rounds, accumulator and high word times the radix of `i` words is the product
  of the lowest `i` words of `a` by `b`, up to multiples of `p`, and the total is less than `b` + `p`, so
  that `hw` is a bit and no carry is lost.
  `MontgomeryIs` is the product; `CancelRadix`, which takes the radix off both sides of a congruence, is
  Fermat's.
* `ExptIs`: after `k` bits, `t2` is the base to the power of the exponent's highest `k` bits, in
  Montgomery's form, whether or not the first bit set has been met. `InverseIs` composes two exponents;
  `RootIs` shows that a root is found if there is one, since a square to (`p` - 1) / 2 is 1, and that the
  last comparison refuses everything else.

`SbPointProofs` proves of `SbPoint`, from `PointAssumption` and `TasksAssumption`, for every curve of the kind,
every task and every number of bits a call goes through, the four properties that `SbNumbers` checks: `InputsChecked`
(`ChecksInputs`), `ScalarsMultiplied` (`MultipliesByScalar`), `SignaturesValid` (`SignsValidly`) and
`VerificationSound` (`VerifiesValid`). The assumption says of a curve that its points are a cyclic group of order
`n`: points are named by the multiple of the generator they are, the sum of two is the third point of their
chord or tangent, told without division, and no other point is on the curve. That a curve is such a group is
the mathematics the code takes for granted; TLC evaluates it for its two. Nothing is assumed of what the
code computes: what is proved is that its registers hold the multiples they should. The proof goes up the
file again:

* Numbers: `E` is a number in the Montgomery domain, and each operation of a field is that on numbers up to
  multiples of the prime (`EAdd` to `EInverse`).
* Points: a register holds a point's coordinates times the square and the cube of some `Z` that is not
  zero (`First`, `Second`). `ZupIs`, `ConjAddIs` and `InitialDoubleIs` show that the formulas find the third
  point of a chord, or of a tangent; `AddUpdateStep` and its kin, that registers go from `i` and `j` to
  `i` + `j` whenever those are neither equal, nor opposite, nor zero (`Differ`). `Apart`: two points of one
  `x` are the same or opposite.
* The ladder: between two bits it holds `m` and `m` + 1 times the point, `m` the bits so far (`Held`), from
  which it can go on (`Passable`). `Nondegenerate` shows that with the scalar regularized, and the
  upper half exchanged for its opposite, no addition but those of the scalar 1 meets equal or opposite points;
  of 1 the registers collapse to zeros (`CollapseStep`), and what the code adds at the end is the
  point itself. A point with `x` = 0, whose inverse of `Z` could not be recovered, is doubled and the
  scalar halved (`Exchanged`).
* The operations, each with an inductive invariant of what a context holds between two calls:
  `CheckInvariant`, `MultiplyInvariant`, `SignInvariant`, `VerifyInvariant`. The properties speak of
  answers only, and say nothing of a context before.
* Signing: `Parts` are `x` modulo `n` and (`e` + `r` `d`) / `k`; that this is valid is arithmetic
  modulo `n` (`PartsSign`). The scalar must have come back from the ladder as it was.
* Verification adds one of `H`, `G` + `H`, `P` + `H` and `P` + `G` + `H` for each pair of bits (`Table`,
  `SelectIs`). `Path` is what it comes through; at its end the multiples of `H` add up to
  (2^(bits + 1) - 1) `H` = `G`, which is the `G` the code takes off the scalar at the start (`PathEnds`, with
  `Combined`). `Exceptional` names the keys for which an addition meets equal or opposite points; as
  it remembers any that did, without it none did (`PathIs`). `TestIs` shows that comparing `r` and `r` + `n`
  with `x`, times the square of `Z`, is comparing `x` modulo `n` with `r`, and `ValidIs` that this is FIPS 186-4's
  condition. What was out of range at first is refused however it goes on (`Refusing`).

Only model-checked: liveness (fairness and `ENABLED` are out of the prover's reach), and `Signatures`
(`EcdsaHolds`, `ReadsBack`), whose recursive operators are out of it too. For keys of `Exceptional`, and for
the signature of a nonce whose point has `x` = 0, `SbPoint` states no property: see section 7 and Findings.

## 6. Plan

Done, in this order, most important behaviour first: V8 execution (model, refinement, proofs),
Tezos operations (model, refinement, proofs), job scheduling (model, proofs), the key file (model, proofs), extrinsics (model,
proofs), timers and services (model, proofs), signatures (model), Sweet B from its hashes to its interface
(models; proofs for all of them).

Next, modules and their runs:

1. `EthereumTransactions`: a nonce read from the account for each transaction, 1 when the answer is
   an error, and callbacks that are entered while the V8 lock is held.
2. `NodeLookup`: `getSyncedNodes`' latch and timeouts, tasks that wait on their own executor, and
   the two-coroutine race in `Once` if more than one node were returned. Its comment
   ("returning in random order the ones that are synchronized") is to be compared with what it
   returns.
3. `EvmSlots`: the 32-byte slots of Ethereum call data against a reference encoding.
4. `ProcessorKey`: the key-store entry that any thread creates when it is missing.
5. A composition of `V8Execution` with the calls that run under its lock (`fulfill` on Ethereum).

Next, theorems: that the bytes of `Signatures` read back (`ReadsBack`), by the lemmas on the bytes of
`SbField`, once its recursion is written as functions; and the safety of the modules to come.

## 7. Not modelled, and why

The certificate pins and the HTTP client (pure I/O), what the key store does inside (external;
`KeyStoreSigns` is its result), the prelude and the encodings (pure argument conversion, except where
section 6 plans them), and the screens (the one with an effect, clearing the preferences, is `ClearCache`
of `TezosOperations`).

Of Sweet B: the assembly of `sb_fe_armv7.s`, whose C equivalents are
`SbField`'s; the tests and what is compiled only for them (`SB_TEST`); that running times and memory
accesses do not depend on secrets, which the masks are there for; and buffers that overlap or are shorter
than their types, which the callers must not pass (the binding copies Java arrays without a look at their
length; in `SbSw` a key is valid or not). `reseed_required` adds the caller's number to the counter,
a sum that wraps for numbers near the greatest; batches here are small. `SbSw` does not tell apart the
values that functions without steps write: `sb_sw_generate_private_key` and `sb_sw_hkdf_expand_private_key`
write the candidate also when they fail because none was valid; the library calls such output junk. Nor
does it state backtracking resistance of the DRBG. `NeverRepeats` is that no block is put out twice between two
inits and that the K and V kept were not put out; after `sb_hmac_drbg_generate`, which has no additional input,
the V kept is HMAC of the last block under the K kept, so that the state confirms a guess of that block, as
`cpp/include/sb_hmac_drbg.h:256` warns.

What the models show and no property states, because the library's documents do not promise otherwise:
`sb_sw_compute_public_key_finish` does not reduce `x` and `y` fully, so that it may write the prime for
zero, which the validation of points refuses; and the signature of a message that is zero modulo the order
is made, but refused by verification. Keys whose verification meets the same point twice are left out of
`VerifiesValid` (`Exceptional`), as the comment at `cpp/sb_sw_lib.c:1150` leaves them out.
