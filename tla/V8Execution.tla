------------------------------ MODULE V8Execution ------------------------------
(***************************************************************************)
(* Execution of job scripts: V8Executor.execute, one thread and one V8     *)
(* runtime per execution, the asynchronous calls a script makes (httpGET,  *)
(* httpPOST, attest), the pool of Networking.executor that serves the HTTP *)
(* ones, the main thread that delivers the attestation answers, and        *)
(* V8Utils.withV8Lock, through which an answer enters the runtime.         *)
(*                                                                         *)
(* Javascript is abstract: while it runs it may issue calls, return or     *)
(* throw.  V8Locker and V8 (the J2V8 library) and the Play integrity       *)
(* service are modelled from how this code uses them.                      *)
(***************************************************************************)
EXTENDS Naturals, Sequences

CONSTANTS
  Runs,         \* executions; a run also stands for its executor thread
  HttpCalls,    \* calls to httpGET and httpPOST
  AttestCalls,  \* calls to attest
  RunOf,        \* the execution that makes each call
  PoolThreads,  \* the threads of Networking.executor
  Main,         \* the main thread of the app
  NoThread,
  Requested     \* the executions started with a requester in their extras

Calls == HttpCalls \cup AttestCalls
Threads == PoolThreads \cup {Main}

ASSUME CallsAssumption ==
  /\ RunOf \in [Calls -> Runs]
  /\ HttpCalls \cap AttestCalls = {}
  /\ Requested \subseteq Runs
ASSUME ThreadsAssumption ==
  /\ Main \notin PoolThreads
  /\ NoThread \notin Threads \cup Runs
  /\ Runs \cap Threads = {}

VARIABLES
  pc,           \* where the executor thread of each run stands
  failed,       \* execute's local flag of the same name
  successes,    \* how often each run's onSuccess was called
  errors,       \* how often each run's onError was called
  reports,      \* how often each run was reported on chain
  owner,        \* V8Locker.thread of each runtime
  released,     \* V8.isReleased of each runtime
  terminating,  \* terminateExecution asked, not yet met by any javascript
  call,         \* how far each asynchronous call is
  thread,       \* the thread that handles its answer
  queue,        \* Networking.executor's task queue
  crashed       \* an exception left a listener on the main thread

outcome == <<failed, successes, errors, reports>>
runtime == <<owner, released, terminating>>
asynchronous == <<call, thread, queue>>
vars == <<pc, outcome, runtime, asynchronous, crashed>>

RunStates == {"init", "script", "sleeping", "acquiring", "closing", "finish", "done"}
Waiting == {"waitSuccess", "waitError"}
InCallback == {"inSuccess", "inError"}
CallStates == {"unused", "queued", "asked", "active", "done"} \cup Waiting \cup InCallback

(* Values a run's executor thread and a call's thread can take. *)
TypeOK ==
  /\ pc \in [Runs -> RunStates]
  /\ failed \in [Runs -> BOOLEAN]
  /\ successes \in [Runs -> Nat] /\ errors \in [Runs -> Nat] /\ reports \in [Runs -> Nat]
  /\ owner \in [Runs -> Runs \cup Threads \cup {NoThread}]
  /\ released \in [Runs -> BOOLEAN]
  /\ terminating \in [Runs -> BOOLEAN]
  /\ call \in [Calls -> CallStates]
  /\ thread \in [Calls -> Threads \cup {NoThread}]
  /\ queue \in Seq(HttpCalls)
  /\ crashed \in BOOLEAN

Init ==
  /\ pc = [j \in Runs |-> "init"]
  /\ failed = [j \in Runs |-> FALSE]
  /\ successes = [j \in Runs |-> 0]
  /\ errors = [j \in Runs |-> 0]
  /\ reports = [j \in Runs |-> 0]
  /\ owner = [j \in Runs |-> NoThread]
  /\ released = [j \in Runs |-> FALSE]
  /\ terminating = [j \in Runs |-> FALSE]
  /\ call = [c \in Calls |-> "unused"]
  /\ thread = [c \in Calls |-> NoThread]
  /\ queue = <<>>
  /\ crashed = FALSE

Goto(j, from, to) ==
  /\ pc[j] = from
  /\ pc' = [pc EXCEPT ![j] = to]

(* V8Locker.tryAcquire succeeds on a free lock and on one's own. *)
tryAcquire(j, t) ==
  /\ owner[j] \in {NoThread, t}
  /\ owner' = [owner EXCEPT ![j] = t]

(* A catch block of execute: failed = true; onError(e). *)
Fail(j) ==
  /\ failed' = [failed EXCEPT ![j] = TRUE]
  /\ errors' = [errors EXCEPT ![j] = @ + 1]
  /\ UNCHANGED <<successes, reports>>

--------------------------------------------------------------------------------
(* The executor thread, V8Executor.execute.                                *)

(* Mutant of CreateRuntime: the lock is released before the script runs. *)
CreateUnlocked(j) ==
  /\ Goto(j, "init", "script")
  /\ UNCHANGED <<outcome, runtime, asynchronous, crashed>>

(* createV8Runtime leaves the new runtime locked by this thread, which     *)
(* registers the prelude and enters the script.                            *)
CreateRuntime(j) ==
  /\ Goto(j, "init", "script")
  /\ owner' = [owner EXCEPT ![j] = j]
  /\ UNCHANGED <<outcome, released, terminating, asynchronous, crashed>>

(* Setting the runtime up throws, before or after it was created: the      *)
(* outer catch block.                                                      *)
SetupThrows(j) ==
  /\ Goto(j, "init", "finish")
  /\ Fail(j)
  /\ \E holder \in {NoThread, j} : owner' = [owner EXCEPT ![j] = holder]
  /\ UNCHANGED <<released, terminating, asynchronous, crashed>>

(* executeVoidScript returns; finally, the lock is released. *)
ScriptReturns(j) ==
  /\ Goto(j, "script", "sleeping")
  /\ owner' = [owner EXCEPT ![j] = NoThread]
  /\ UNCHANGED <<outcome, released, terminating, asynchronous, crashed>>

(* Mutant of ScriptThrows: the inner catch block forgets failed = true. *)
ScriptThrowsUnmarked(j) ==
  /\ Goto(j, "script", "sleeping")
  /\ errors' = [errors EXCEPT ![j] = @ + 1]
  /\ owner' = [owner EXCEPT ![j] = NoThread]
  /\ UNCHANGED <<failed, successes, reports, released, terminating, asynchronous, crashed>>

(* executeVoidScript throws: the inner catch block, then the same finally. *)
ScriptThrows(j) ==
  /\ Goto(j, "script", "sleeping")
  /\ Fail(j)
  /\ owner' = [owner EXCEPT ![j] = NoThread]
  /\ UNCHANGED <<released, terminating, asynchronous, crashed>>

(* After EXECUTION_TIME_LIMIT the javascript that runs now, or the next to *)
(* run, is made to throw.                                                  *)
Terminate(j) ==
  /\ Goto(j, "sleeping", "acquiring")
  /\ terminating' = [terminating EXCEPT ![j] = TRUE]
  /\ UNCHANGED <<outcome, owner, released, asynchronous, crashed>>

(* Mutant of Reacquire: the runtime is closed without waiting for its lock. *)
CloseAnyway(j) ==
  /\ Goto(j, "acquiring", "closing")
  /\ UNCHANGED <<outcome, runtime, asynchronous, crashed>>

(* Mutant of Reacquire: hasLock, which never takes the lock, is polled. *)
PollHasLock(j) ==
  /\ Goto(j, "acquiring", "closing")
  /\ owner[j] = j
  /\ UNCHANGED <<outcome, runtime, asynchronous, crashed>>

(* while (!v8.locker.tryAcquire()) sleep *)
Reacquire(j) ==
  /\ Goto(j, "acquiring", "closing")
  /\ tryAcquire(j, j)
  /\ UNCHANGED <<outcome, released, terminating, asynchronous, crashed>>

(* The namespace objects are closed and the runtime is released; the lock  *)
(* is not.                                                                 *)
ReleaseRuntime(j) ==
  /\ Goto(j, "closing", "finish")
  /\ released' = [released EXCEPT ![j] = TRUE]
  /\ UNCHANGED <<outcome, owner, terminating, asynchronous, crashed>>

(* Closing throws: the outer catch block; the runtime stays. *)
CleanupThrows(j) ==
  /\ Goto(j, "closing", "finish")
  /\ Fail(j)
  /\ UNCHANGED <<runtime, asynchronous, crashed>>

(* The outer finally: report on chain when there is a requester, and call  *)
(* onSuccess unless an error was reported.                                 *)
Finish(j) ==
  /\ Goto(j, "finish", "done")
  /\ reports' = IF j \in Requested THEN [reports EXCEPT ![j] = @ + 1] ELSE reports
  /\ successes' = IF failed[j] THEN successes ELSE [successes EXCEPT ![j] = @ + 1]
  /\ UNCHANGED <<failed, errors, runtime, asynchronous, crashed>>

--------------------------------------------------------------------------------
(* Asynchronous calls: javascript, Networking.executor and the main thread. *)

(* The calls whose answer is being handled by javascript of run j. *)
CallbacksOf(j) == {c \in Calls : RunOf[c] = j /\ call[c] \in InCallback}

(* Javascript of run j is running: its script, or a callback of its calls. *)
Scripting(j) == pc[j] = "script" \/ CallbacksOf(j) # {}

(* httpGET, httpPOST: Networking.httpsRequest submits to its pool. *)
IssueHttp(c) ==
  /\ c \in HttpCalls
  /\ call[c] = "unused"
  /\ Scripting(RunOf[c])
  /\ call' = [call EXCEPT ![c] = "queued"]
  /\ queue' = Append(queue, c)
  /\ UNCHANGED <<pc, outcome, runtime, thread, crashed>>

(* attest: Scheduler.sendSafetyNetRequest asks for a token. *)
IssueAttest(c) ==
  /\ c \in AttestCalls
  /\ call[c] = "unused"
  /\ Scripting(RunOf[c])
  /\ call' = [call EXCEPT ![c] = "asked"]
  /\ UNCHANGED <<pc, outcome, runtime, thread, queue, crashed>>

Idle(t) == \A c \in Calls : thread[c] # t

(* A thread of the pool takes the next task. *)
Take(t) ==
  /\ queue # <<>>
  /\ Idle(t)
  /\ call' = [call EXCEPT ![Head(queue)] = "active"]
  /\ thread' = [thread EXCEPT ![Head(queue)] = t]
  /\ queue' = Tail(queue)
  /\ UNCHANGED <<pc, outcome, runtime, crashed>>

(* The request of call c and its answer: 2xx leads to successCallback,     *)
(* everything else to errorCallback.                                       *)
Respond(c, answer) ==
  /\ call[c] = "active"
  /\ call' = [call EXCEPT ![c] = answer]
  /\ UNCHANGED <<pc, outcome, runtime, thread, queue, crashed>>

(* The thread is through with call c. *)
Settle(c) ==
  /\ call' = [call EXCEPT ![c] = "done"]
  /\ thread' = [thread EXCEPT ![c] = NoThread]
  /\ UNCHANGED queue

(* openConnection, or its cast, throws before the try: nobody is called. *)
CannotOpen(c) ==
  /\ call[c] = "active"
  /\ Settle(c)
  /\ UNCHANGED <<pc, outcome, runtime, crashed>>

(* A listener of the token task runs on the main thread. *)
AttestAnswer(c, answer) ==
  /\ call[c] = "asked"
  /\ Idle(Main)
  /\ call' = [call EXCEPT ![c] = answer]
  /\ thread' = [thread EXCEPT ![c] = Main]
  /\ UNCHANGED <<pc, outcome, runtime, queue, crashed>>

(* withV8Lock gets the lock and calls the javascript callback. *)
EnterCallback(c) ==
  /\ call[c] \in Waiting
  /\ tryAcquire(RunOf[c], thread[c])
  /\ call' = [call EXCEPT ![c] = IF @ = "waitSuccess" THEN "inSuccess" ELSE "inError"]
  /\ UNCHANGED <<pc, outcome, released, terminating, thread, queue, crashed>>

(* Mutant of Abandon: withV8Lock polls without looking at isReleased. *)
NeverAbandon(c) == FALSE

(* withV8Lock finds the lock taken and the runtime released, and gives up. *)
Abandon(c) ==
  /\ call[c] \in Waiting
  /\ owner[RunOf[c]] \notin {NoThread, thread[c]}
  /\ released[RunOf[c]]
  /\ Settle(c)
  /\ UNCHANGED <<pc, outcome, runtime, crashed>>

(* Mutant of CallbackReturns: withV8Lock keeps the lock. *)
CallbackKeepsLock(c) ==
  /\ call[c] \in InCallback
  /\ ~terminating[RunOf[c]]
  /\ Settle(c)
  /\ UNCHANGED <<pc, outcome, runtime, crashed>>

(* The callback returns and withV8Lock releases the lock. *)
CallbackReturns(c) ==
  /\ call[c] \in InCallback
  /\ ~terminating[RunOf[c]]
  /\ owner' = [owner EXCEPT ![RunOf[c]] = NoThread]
  /\ Settle(c)
  /\ UNCHANGED <<pc, outcome, released, terminating, crashed>>

(* The callback throws: withV8Lock does not release the lock.  On the      *)
(* pool, the exception of a success callback is answered by calling the    *)
(* error callback, that of an error callback ends the task; on the main    *)
(* thread either ends the app.                                             *)
CallbackThrows(c) ==
  /\ call[c] \in InCallback
  /\ terminating' = [terminating EXCEPT ![RunOf[c]] = FALSE]
  /\ \/ /\ c \in HttpCalls /\ call[c] = "inSuccess"
        /\ call' = [call EXCEPT ![c] = "waitError"]
        /\ UNCHANGED <<thread, queue, crashed>>
     \/ /\ c \in HttpCalls /\ call[c] = "inError"
        /\ Settle(c)
        /\ UNCHANGED crashed
     \/ /\ c \in AttestCalls
        /\ Settle(c)
        /\ crashed' = TRUE
  /\ UNCHANGED <<pc, outcome, owner, released>>

--------------------------------------------------------------------------------
ExecutorStep(j) ==
  \/ CreateRuntime(j) \/ SetupThrows(j)
  \/ ScriptReturns(j) \/ ScriptThrows(j)
  \/ Terminate(j) \/ Reacquire(j)
  \/ ReleaseRuntime(j) \/ CleanupThrows(j)
  \/ Finish(j)

Issue(c) == IssueHttp(c) \/ IssueAttest(c)

HandlerStep(c) ==
  \/ \E answer \in Waiting : Respond(c, answer) \/ AttestAnswer(c, answer)
  \/ CannotOpen(c)
  \/ EnterCallback(c) \/ Abandon(c)
  \/ CallbackReturns(c) \/ CallbackThrows(c)

Next ==
  /\ ~crashed
  /\ \/ \E j \in Runs : ExecutorStep(j)
     \/ \E c \in Calls : Issue(c) \/ HandlerStep(c)
     \/ \E t \in PoolThreads : Take(t)

Spec == Init /\ [][Next]_vars

(***************************************************************************)
(* Threads are scheduled, requests and token requests are answered (both   *)
(* HTTP timeouts are set), and javascript ends by itself: nothing in the   *)
(* code stops a script that does not.  A script need not issue any call.   *)
(***************************************************************************)
Fairness ==
  /\ \A j \in Runs : WF_vars(~crashed /\ ExecutorStep(j))
  /\ \A c \in Calls : WF_vars(~crashed /\ HandlerStep(c))
  /\ \A t \in PoolThreads : WF_vars(~crashed /\ Take(t))

FairSpec == Spec /\ Fairness

--------------------------------------------------------------------------------
(* Correctness.                                                            *)

(* Who runs javascript in the runtime of run j: the executor thread and    *)
(* the handlers of its calls.                                              *)
Inside(j) ==
  (IF pc[j] = "script" THEN {j} ELSE {}) \cup {thread[c] : c \in CallbacksOf(j)}

(* V8 isolates are not thread safe: the script and the callbacks of one    *)
(* runtime exclude each other, which V8Executor.execute and withV8Lock     *)
(* ensure with the lock only.                                              *)
MutualExclusion ==
  \A j \in Runs :
    /\ pc[j] = "script" => CallbacksOf(j) = {}
    /\ \A c, d \in CallbacksOf(j) : c = d

(* Once execute closes the runtime, nothing runs in it any more: no        *)
(* callback outlives the handles, the report on chain or onSuccess.        *)
QuietWhenClosed ==
  \A j \in Runs :
    pc[j] \in {"closing", "finish", "done"} \/ released[j] => Inside(j) = {}

(* V8ExecutorService hears of success exactly once or of failure (twice,   *)
(* if the script and the clean-up both throw), never of both, and the      *)
(* requester's report is sent exactly once, whatever threw.                *)
ExactOutcome ==
  \A j \in Runs :
    /\ successes[j] + errors[j] \in (IF pc[j] = "done" THEN 1 .. 2 ELSE 0 .. 2)
    /\ successes[j] \in {0, 1} /\ (successes[j] = 1 => errors[j] = 0)
    /\ reports[j] = (IF pc[j] = "done" /\ j \in Requested THEN 1 ELSE 0)

(* A handler's thread keeps the lock of j, yet runs none of its callbacks. *)
LockLeaked(j) == owner[j] \in Threads /\ CallbacksOf(j) = {}

(* withV8Lock leaves the lock behind only when the callback throws.        *)
OnlyThrowsLeak ==
  [][\A j \in Runs :
       LockLeaked(j)' /\ ~LockLeaked(j) =>
         \E c \in Calls : RunOf[c] = j /\ CallbackThrows(c)]_vars

(* The lock, the polling loops and isReleased implement the contract of    *)
(* V8Runtime: one actor inside at a time, disposed of once, while empty.   *)
Phase(j) ==
  CASE pc[j] = "init" -> "none"
    [] pc[j] \in {"finish", "done"} -> "over"
    [] OTHER -> "live"

Contract == INSTANCE V8Runtime WITH
  Actors <- Runs \cup Threads,
  phase <- [j \in Runs |-> Phase(j)],
  inside <- [j \in Runs |-> Inside(j)]

ImplementsContract == Contract!RSpec

(* An execution ends, unless a callback that threw keeps its lock for      *)
(* good (execute polls tryAcquire for ever) or the app crashes.            *)
RunEnds ==
  \A j \in Runs : <>(pc[j] = "done" \/ crashed) \/ <>[]LockLeaked(j)

(* The lock of j stays taken: a callback threw, or closing the runtime     *)
(* threw, after which execute neither disposes of it nor unlocks it.       *)
LockLeftBehind(j) ==
  LockLeaked(j) \/ (pc[j] = "done" /\ owner[j] = j /\ ~released[j])

(* An asynchronous call is settled, its runtime gone or not, unless        *)
(* withV8Lock polls for good a lock that was left behind: that thread is   *)
(* lost to the calls of every run.                                         *)
CallSettles ==
  \/ \A c \in Calls : call[c] # "unused" ~> call[c] = "done" \/ crashed
  \/ \E c \in Calls : <>[](call[c] \in Waiting /\ LockLeftBehind(RunOf[c]))
================================================================================
