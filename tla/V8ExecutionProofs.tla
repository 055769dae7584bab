--------------------------- MODULE V8ExecutionProofs ---------------------------
(***************************************************************************)
(* What V8Execution guarantees for any number of runs, calls and threads.  *)
(* The argument: whoever runs javascript in a runtime holds its lock, a    *)
(* thread handles one call at a time, and an execution that starts closing *)
(* its runtime keeps the lock for ever.  And, further down, what Timers    *)
(* guarantees for any number of executions, crashes and faults.            *)
(***************************************************************************)
EXTENDS V8Execution, Timers, SequenceTheorems, TLAPS

Busy == {"active"} \cup Waiting \cup InCallback

(* A task waits in the pool's queue once, and for a call not yet taken. *)
QueueInv ==
  /\ \A i \in 1 .. Len(queue) : call[queue[i]] = "queued"
  /\ \A i, k \in 1 .. Len(queue) : queue[i] = queue[k] => i = k

(* A call is being handled exactly while it has a thread, its own. *)
ThreadInv ==
  /\ \A c \in Calls : call[c] \in Busy <=> thread[c] # NoThread
  /\ \A c, d \in Calls : thread[c] = thread[d] /\ thread[c] # NoThread => c = d

(* Javascript runs under the lock; the executor never gives it back once   *)
(* it closes the runtime; and an execution that got no runtime has no call. *)
LockInv ==
  /\ \A c \in Calls : call[c] \in InCallback => owner[RunOf[c]] = thread[c]
  /\ \A j \in Runs :
       /\ pc[j] \in {"script", "closing"} => owner[j] = j
       /\ pc[j] \in {"finish", "done"} =>
            owner[j] = j \/ \A c \in Calls : RunOf[c] = j => call[c] = "unused"
       /\ pc[j] = "init" => \A c \in Calls : RunOf[c] = j => call[c] = "unused"
       /\ released[j] => pc[j] \in {"finish", "done"}

IInv == TypeOK /\ QueueInv /\ ThreadInv /\ LockInv

(* The outcome an execution has collected at each point of execute. *)
OutcomeInv ==
  \A j \in Runs :
    /\ failed[j] <=> errors[j] # 0
    /\ pc[j] \in {"init", "script"} => errors[j] = 0
    /\ pc[j] \in {"sleeping", "acquiring", "closing"} => errors[j] \in 0 .. 1
    /\ errors[j] \in 0 .. 2
    /\ successes[j] = (IF pc[j] = "done" /\ errors[j] = 0 THEN 1 ELSE 0)
    /\ reports[j] = (IF pc[j] = "done" /\ j \in Requested THEN 1 ELSE 0)

--------------------------------------------------------------------------------
LEMMA InitInv == Init => IInv /\ OutcomeInv
<1> SUFFICES ASSUME Init PROVE IInv /\ OutcomeInv
  OBVIOUS
<1> USE CallsAssumption, ThreadsAssumption DEF Init
<1>1. TypeOK
  <2>1. pc \in [Runs -> RunStates] /\ call \in [Calls -> CallStates]
    BY DEF RunStates, CallStates
  <2>2. queue \in Seq(HttpCalls)
    OBVIOUS
  <2> QED BY <2>1, <2>2 DEF TypeOK
<1>2. QueueInv /\ ThreadInv /\ LockInv
  BY DEF QueueInv, ThreadInv, LockInv, Busy, Waiting, InCallback
<1>3. ASSUME NEW j \in Runs
      PROVE  /\ pc[j] = "init" /\ ~failed[j]
             /\ errors[j] = 0 /\ successes[j] = 0 /\ reports[j] = 0
  OBVIOUS
<1> HIDE DEF Init
<1>4. OutcomeInv
  <2> SUFFICES ASSUME NEW j \in Runs
               PROVE  /\ failed[j] <=> errors[j] # 0
                      /\ pc[j] \in {"init", "script"} => errors[j] = 0
                      /\ pc[j] \in {"sleeping", "acquiring", "closing"} => errors[j] \in 0 .. 1
                      /\ errors[j] \in 0 .. 2
                      /\ successes[j] = (IF pc[j] = "done" /\ errors[j] = 0 THEN 1 ELSE 0)
                      /\ reports[j] = (IF pc[j] = "done" /\ j \in Requested THEN 1 ELSE 0)
    BY DEF OutcomeInv
  <2> QED BY <1>3
<1> QED BY <1>1, <1>2, <1>4 DEF IInv

(* Every step keeps the types: one step of the proof per action. *)
LEMMA TypeStep == TypeOK /\ [Next]_vars => TypeOK'
<1> SUFFICES ASSUME TypeOK, [Next]_vars PROVE TypeOK'
  OBVIOUS
<1> USE CallsAssumption, ThreadsAssumption DEF TypeOK, outcome, runtime, asynchronous
<1>1. ASSUME NEW j \in Runs, CreateRuntime(j) PROVE TypeOK'
  BY <1>1 DEF CreateRuntime, Goto, RunStates
<1>2. ASSUME NEW j \in Runs, SetupThrows(j) PROVE TypeOK'
  BY <1>2 DEF SetupThrows, Goto, Fail, RunStates
<1>3. ASSUME NEW j \in Runs, ScriptReturns(j) PROVE TypeOK'
  BY <1>3 DEF ScriptReturns, Goto, RunStates
<1>4. ASSUME NEW j \in Runs, ScriptThrows(j) PROVE TypeOK'
  BY <1>4 DEF ScriptThrows, Goto, Fail, RunStates
<1>5. ASSUME NEW j \in Runs, Terminate(j) PROVE TypeOK'
  BY <1>5 DEF Terminate, Goto, RunStates
<1>6. ASSUME NEW j \in Runs, Reacquire(j) PROVE TypeOK'
  BY <1>6 DEF Reacquire, Goto, tryAcquire, RunStates
<1>7. ASSUME NEW j \in Runs, ReleaseRuntime(j) PROVE TypeOK'
  BY <1>7 DEF ReleaseRuntime, Goto, RunStates
<1>8. ASSUME NEW j \in Runs, CleanupThrows(j) PROVE TypeOK'
  BY <1>8 DEF CleanupThrows, Goto, Fail, RunStates
<1>9. ASSUME NEW j \in Runs, Finish(j) PROVE TypeOK'
  BY <1>9 DEF Finish, Goto, RunStates
<1>10. ASSUME NEW c \in Calls, IssueHttp(c) PROVE TypeOK'
  BY <1>10 DEF IssueHttp, CallStates
<1>11. ASSUME NEW c \in Calls, IssueAttest(c) PROVE TypeOK'
  BY <1>11 DEF IssueAttest, CallStates
<1>12. ASSUME NEW t \in PoolThreads, Take(t) PROVE TypeOK'
  BY <1>12 DEF Take, CallStates, Calls, Threads
<1>13. ASSUME NEW c \in Calls, NEW answer \in Waiting, Respond(c, answer) PROVE TypeOK'
  BY <1>13 DEF Respond, CallStates, Threads
<1>14. ASSUME NEW c \in Calls, NEW answer \in Waiting, AttestAnswer(c, answer) PROVE TypeOK'
  BY <1>14 DEF AttestAnswer, CallStates, Threads
<1>15. ASSUME NEW c \in Calls, CannotOpen(c) PROVE TypeOK'
  BY <1>15 DEF CannotOpen, Settle, CallStates, Waiting, InCallback
<1>16. ASSUME NEW c \in Calls, EnterCallback(c) PROVE TypeOK'
  BY <1>16 DEF EnterCallback, tryAcquire, CallStates, Waiting, InCallback
<1>17. ASSUME NEW c \in Calls, Abandon(c) PROVE TypeOK'
  BY <1>17 DEF Abandon, Settle, CallStates, Waiting, InCallback
<1>18. ASSUME NEW c \in Calls, CallbackReturns(c) PROVE TypeOK'
  BY <1>18 DEF CallbackReturns, Settle, CallStates, Waiting, InCallback
<1>19. ASSUME NEW c \in Calls, CallbackThrows(c) PROVE TypeOK'
  BY <1>19 DEF CallbackThrows, Settle, CallStates, Waiting, InCallback
<1>20. CASE UNCHANGED vars
  BY <1>20 DEF vars
<1> QED BY <1>1, <1>2, <1>3, <1>4, <1>5, <1>6, <1>7, <1>8, <1>9, <1>10, <1>11, <1>12, <1>13, <1>14, <1>15, <1>16, <1>17, <1>18, <1>19, <1>20 DEF Next, ExecutorStep, Issue, HandlerStep
(* Tasks enter the queue unused and leave it at the head. *)
LEMMA QueueStep == TypeOK /\ QueueInv /\ [Next]_vars => QueueInv'
<1> SUFFICES ASSUME TypeOK /\ QueueInv, [Next]_vars PROVE QueueInv'
  OBVIOUS
<1> USE CallsAssumption, ThreadsAssumption DEF TypeOK, QueueInv, outcome, runtime, asynchronous
<1>1. ASSUME NEW j \in Runs, CreateRuntime(j) PROVE QueueInv'
  BY <1>1 DEF CreateRuntime, Goto, Waiting, InCallback
<1>2. ASSUME NEW j \in Runs, SetupThrows(j) PROVE QueueInv'
  BY <1>2 DEF SetupThrows, Goto, Waiting, InCallback
<1>3. ASSUME NEW j \in Runs, ScriptReturns(j) PROVE QueueInv'
  BY <1>3 DEF ScriptReturns, Goto, Waiting, InCallback
<1>4. ASSUME NEW j \in Runs, ScriptThrows(j) PROVE QueueInv'
  BY <1>4 DEF ScriptThrows, Goto, Waiting, InCallback
<1>5. ASSUME NEW j \in Runs, Terminate(j) PROVE QueueInv'
  BY <1>5 DEF Terminate, Goto, Waiting, InCallback
<1>6. ASSUME NEW j \in Runs, Reacquire(j) PROVE QueueInv'
  BY <1>6 DEF Reacquire, Goto, tryAcquire, Waiting, InCallback
<1>7. ASSUME NEW j \in Runs, ReleaseRuntime(j) PROVE QueueInv'
  BY <1>7 DEF ReleaseRuntime, Goto, Waiting, InCallback
<1>8. ASSUME NEW j \in Runs, CleanupThrows(j) PROVE QueueInv'
  BY <1>8 DEF CleanupThrows, Goto, Waiting, InCallback
<1>9. ASSUME NEW j \in Runs, Finish(j) PROVE QueueInv'
  BY <1>9 DEF Finish, Goto, Waiting, InCallback
<1>10. ASSUME NEW c \in Calls, IssueHttp(c) PROVE QueueInv'
  BY <1>10 DEF IssueHttp, Scripting, CallbacksOf, Waiting, InCallback
<1>11. ASSUME NEW c \in Calls, IssueAttest(c) PROVE QueueInv'
  BY <1>11 DEF IssueAttest, Scripting, CallbacksOf, Waiting, InCallback
<1>12. ASSUME NEW t \in PoolThreads, Take(t) PROVE QueueInv'
  BY <1>12 DEF Take, Idle, Waiting, InCallback
<1>13. ASSUME NEW c \in Calls, NEW answer \in Waiting, Respond(c, answer) PROVE QueueInv'
  BY <1>13 DEF Respond, Waiting, InCallback
<1>14. ASSUME NEW c \in Calls, NEW answer \in Waiting, AttestAnswer(c, answer) PROVE QueueInv'
  BY <1>14 DEF AttestAnswer, Idle, Waiting, InCallback
<1>15. ASSUME NEW c \in Calls, CannotOpen(c) PROVE QueueInv'
  BY <1>15 DEF CannotOpen, Settle, Waiting, InCallback
<1>16. ASSUME NEW c \in Calls, EnterCallback(c) PROVE QueueInv'
  BY <1>16 DEF EnterCallback, tryAcquire, Waiting, InCallback
<1>17. ASSUME NEW c \in Calls, Abandon(c) PROVE QueueInv'
  BY <1>17 DEF Abandon, Settle, Waiting, InCallback
<1>18. ASSUME NEW c \in Calls, CallbackReturns(c) PROVE QueueInv'
  BY <1>18 DEF CallbackReturns, Settle, Waiting, InCallback
<1>19. ASSUME NEW c \in Calls, CallbackThrows(c) PROVE QueueInv'
  <2>1. queue' = queue /\ call[c] # "queued"
    BY <1>19 DEF CallbackThrows, Settle, InCallback
  <2>2. \A d \in Calls : d # c => call'[d] = call[d]
    BY <1>19 DEF CallbackThrows, Settle
  <2>3. \A i \in 1 .. Len(queue) : queue[i] \in Calls /\ queue[i] # c
    BY <2>1 DEF Calls
  <2>4. \A i \in 1 .. Len(queue) : call'[queue[i]] = "queued"
    BY <2>2, <2>3
  <2> QED BY <2>1, <2>4
<1>20. CASE UNCHANGED vars
  BY <1>20 DEF vars, Waiting, InCallback
<1> QED
  BY <1>1, <1>2, <1>3, <1>4, <1>5, <1>6, <1>7, <1>8, <1>9, <1>10, <1>11, <1>12, <1>13, <1>14, <1>15, <1>16, <1>17, <1>18, <1>19, <1>20
  DEF Next, ExecutorStep, Issue, HandlerStep

(* A thread takes a call only when it has none. *)
LEMMA ThreadStep == TypeOK /\ QueueInv /\ ThreadInv /\ [Next]_vars => ThreadInv'
<1> SUFFICES ASSUME TypeOK /\ QueueInv /\ ThreadInv, [Next]_vars PROVE ThreadInv'
  OBVIOUS
<1> USE CallsAssumption, ThreadsAssumption DEF TypeOK, ThreadInv, Busy, Waiting, InCallback, outcome, runtime, asynchronous
<1>1. ASSUME NEW j \in Runs, CreateRuntime(j) PROVE ThreadInv'
  BY <1>1 DEF CreateRuntime, Goto, Calls, Threads
<1>2. ASSUME NEW j \in Runs, SetupThrows(j) PROVE ThreadInv'
  BY <1>2 DEF SetupThrows, Goto, Calls, Threads
<1>3. ASSUME NEW j \in Runs, ScriptReturns(j) PROVE ThreadInv'
  BY <1>3 DEF ScriptReturns, Goto, Calls, Threads
<1>4. ASSUME NEW j \in Runs, ScriptThrows(j) PROVE ThreadInv'
  BY <1>4 DEF ScriptThrows, Goto, Calls, Threads
<1>5. ASSUME NEW j \in Runs, Terminate(j) PROVE ThreadInv'
  BY <1>5 DEF Terminate, Goto, Calls, Threads
<1>6. ASSUME NEW j \in Runs, Reacquire(j) PROVE ThreadInv'
  BY <1>6 DEF Reacquire, Goto, tryAcquire, Calls, Threads
<1>7. ASSUME NEW j \in Runs, ReleaseRuntime(j) PROVE ThreadInv'
  BY <1>7 DEF ReleaseRuntime, Goto, Calls, Threads
<1>8. ASSUME NEW j \in Runs, CleanupThrows(j) PROVE ThreadInv'
  BY <1>8 DEF CleanupThrows, Goto, Calls, Threads
<1>9. ASSUME NEW j \in Runs, Finish(j) PROVE ThreadInv'
  BY <1>9 DEF Finish, Goto, Calls, Threads
<1>10. ASSUME NEW c \in Calls, IssueHttp(c) PROVE ThreadInv'
  BY <1>10 DEF IssueHttp, Scripting, CallbacksOf, Calls, Threads
<1>11. ASSUME NEW c \in Calls, IssueAttest(c) PROVE ThreadInv'
  BY <1>11 DEF IssueAttest, Scripting, CallbacksOf, Calls, Threads
<1>12. ASSUME NEW t \in PoolThreads, Take(t) PROVE ThreadInv'
  BY <1>12 DEF Take, Idle, Calls, Threads
<1>13. ASSUME NEW c \in Calls, NEW answer \in Waiting, Respond(c, answer) PROVE ThreadInv'
  BY <1>13 DEF Respond, Calls, Threads
<1>14. ASSUME NEW c \in Calls, NEW answer \in Waiting, AttestAnswer(c, answer) PROVE ThreadInv'
  BY <1>14 DEF AttestAnswer, Idle, Calls, Threads
<1>15. ASSUME NEW c \in Calls, CannotOpen(c) PROVE ThreadInv'
  BY <1>15 DEF CannotOpen, Settle, Calls, Threads
<1>16. ASSUME NEW c \in Calls, EnterCallback(c) PROVE ThreadInv'
  BY <1>16 DEF EnterCallback, tryAcquire, Calls, Threads
<1>17. ASSUME NEW c \in Calls, Abandon(c) PROVE ThreadInv'
  BY <1>17 DEF Abandon, Settle, Calls, Threads
<1>18. ASSUME NEW c \in Calls, CallbackReturns(c) PROVE ThreadInv'
  BY <1>18 DEF CallbackReturns, Settle, Calls, Threads
<1>19. ASSUME NEW c \in Calls, CallbackThrows(c) PROVE ThreadInv'
  BY <1>19 DEF CallbackThrows, Settle, Calls, Threads
<1>20. CASE UNCHANGED vars
  BY <1>20 DEF vars, Calls, Threads
<1> QED
  BY <1>1, <1>2, <1>3, <1>4, <1>5, <1>6, <1>7, <1>8, <1>9, <1>10, <1>11, <1>12, <1>13, <1>14, <1>15, <1>16, <1>17, <1>18, <1>19, <1>20
  DEF Next, ExecutorStep, Issue, HandlerStep

(* The lock changes hands only while nobody runs javascript. *)
LEMMA LockStep == TypeOK /\ QueueInv /\ ThreadInv /\ LockInv /\ [Next]_vars => LockInv'
<1> SUFFICES ASSUME TypeOK /\ QueueInv /\ ThreadInv /\ LockInv, [Next]_vars PROVE LockInv'
  OBVIOUS
<1> USE CallsAssumption, ThreadsAssumption DEF TypeOK, ThreadInv, LockInv, Busy, Waiting, InCallback, outcome, runtime, asynchronous
<1>1. ASSUME NEW j \in Runs, CreateRuntime(j) PROVE LockInv'
  BY <1>1 DEF CreateRuntime, Goto, Calls, Threads
<1>2. ASSUME NEW j \in Runs, SetupThrows(j) PROVE LockInv'
  BY <1>2 DEF SetupThrows, Goto, Calls, Threads
<1>3. ASSUME NEW j \in Runs, ScriptReturns(j) PROVE LockInv'
  BY <1>3 DEF ScriptReturns, Goto, Calls, Threads
<1>4. ASSUME NEW j \in Runs, ScriptThrows(j) PROVE LockInv'
  BY <1>4 DEF ScriptThrows, Goto, Calls, Threads
<1>5. ASSUME NEW j \in Runs, Terminate(j) PROVE LockInv'
  BY <1>5 DEF Terminate, Goto, Calls, Threads
<1>6. ASSUME NEW j \in Runs, Reacquire(j) PROVE LockInv'
  BY <1>6 DEF Reacquire, Goto, tryAcquire, Calls, Threads
<1>7. ASSUME NEW j \in Runs, ReleaseRuntime(j) PROVE LockInv'
  BY <1>7 DEF ReleaseRuntime, Goto, Calls, Threads
<1>8. ASSUME NEW j \in Runs, CleanupThrows(j) PROVE LockInv'
  BY <1>8 DEF CleanupThrows, Goto, Calls, Threads
<1>9. ASSUME NEW j \in Runs, Finish(j) PROVE LockInv'
  BY <1>9 DEF Finish, Goto, Calls, Threads
<1>10. ASSUME NEW c \in Calls, IssueHttp(c) PROVE LockInv'
  BY <1>10 DEF IssueHttp, Scripting, CallbacksOf, Calls, Threads
<1>11. ASSUME NEW c \in Calls, IssueAttest(c) PROVE LockInv'
  BY <1>11 DEF IssueAttest, Scripting, CallbacksOf, Calls, Threads
<1>12. ASSUME NEW t \in PoolThreads, Take(t) PROVE LockInv'
  <2>1. PICK c \in Calls :
          /\ call[c] = "queued"
          /\ call' = [call EXCEPT ![c] = "active"]
          /\ thread' = [thread EXCEPT ![c] = t]
    <3>1. 1 \in 1 .. Len(queue) /\ Head(queue) = queue[1] /\ queue[1] \in Calls
      BY <1>12 DEF Take, Calls
    <3>2. call[Head(queue)] = "queued"
      BY <3>1 DEF QueueInv
    <3> QED BY <1>12, <3>1, <3>2 DEF Take
  <2>2. UNCHANGED <<pc, owner, released>>
    BY <1>12 DEF Take
  <2> QED BY <2>1, <2>2
<1>13. ASSUME NEW c \in Calls, NEW answer \in Waiting, Respond(c, answer) PROVE LockInv'
  BY <1>13 DEF Respond, Calls, Threads
<1>14. ASSUME NEW c \in Calls, NEW answer \in Waiting, AttestAnswer(c, answer) PROVE LockInv'
  BY <1>14 DEF AttestAnswer, Idle, Calls, Threads
<1>15. ASSUME NEW c \in Calls, CannotOpen(c) PROVE LockInv'
  BY <1>15 DEF CannotOpen, Settle, Calls, Threads
<1>16. ASSUME NEW c \in Calls, EnterCallback(c) PROVE LockInv'
  BY <1>16 DEF EnterCallback, tryAcquire, Calls, Threads
<1>17. ASSUME NEW c \in Calls, Abandon(c) PROVE LockInv'
  BY <1>17 DEF Abandon, Settle, Calls, Threads
<1>18. ASSUME NEW c \in Calls, CallbackReturns(c) PROVE LockInv'
  BY <1>18 DEF CallbackReturns, Settle, Calls, Threads
<1>19. ASSUME NEW c \in Calls, CallbackThrows(c) PROVE LockInv'
  <2>1. UNCHANGED <<pc, owner, released>>
    BY <1>19 DEF CallbackThrows
  <2>2. call[c] # "unused" /\ call'[c] \notin InCallback /\ call'[c] # "unused"
    BY <1>19 DEF CallbackThrows, Settle
  <2>3. \A d \in Calls : d # c => call'[d] = call[d] /\ thread'[d] = thread[d]
    BY <1>19 DEF CallbackThrows, Settle
  <2>4. \A d \in Calls : call'[d] \in InCallback => owner'[RunOf[d]] = thread'[d]
    BY <2>1, <2>2, <2>3
  <2>5. \A d \in Calls : call[d] = "unused" <=> call'[d] = "unused"
    BY <2>2, <2>3
  <2> QED BY <2>1, <2>4, <2>5
<1>20. CASE UNCHANGED vars
  BY <1>20 DEF vars, Calls, Threads
<1> QED
  BY <1>1, <1>2, <1>3, <1>4, <1>5, <1>6, <1>7, <1>8, <1>9, <1>10, <1>11, <1>12, <1>13, <1>14, <1>15, <1>16, <1>17, <1>18, <1>19, <1>20
  DEF Next, ExecutorStep, Issue, HandlerStep

(* Only the executor thread of a run touches its outcome. *)
LEMMA OutcomeStep == TypeOK /\ OutcomeInv /\ [Next]_vars => OutcomeInv'
<1> SUFFICES ASSUME TypeOK, OutcomeInv, [Next]_vars PROVE OutcomeInv'
  OBVIOUS
<1> USE CallsAssumption, ThreadsAssumption
    DEF TypeOK, OutcomeInv, outcome, runtime, asynchronous, Goto, Fail
<1>1. ASSUME NEW j \in Runs, CreateRuntime(j) PROVE OutcomeInv'
  BY <1>1 DEF CreateRuntime
<1>2. ASSUME NEW j \in Runs, SetupThrows(j) PROVE OutcomeInv'
  BY <1>2 DEF SetupThrows
<1>3. ASSUME NEW j \in Runs, ScriptReturns(j) PROVE OutcomeInv'
  BY <1>3 DEF ScriptReturns
<1>4. ASSUME NEW j \in Runs, ScriptThrows(j) PROVE OutcomeInv'
  BY <1>4 DEF ScriptThrows
<1>5. ASSUME NEW j \in Runs, Terminate(j) PROVE OutcomeInv'
  BY <1>5 DEF Terminate
<1>6. ASSUME NEW j \in Runs, Reacquire(j) PROVE OutcomeInv'
  BY <1>6 DEF Reacquire
<1>7. ASSUME NEW j \in Runs, ReleaseRuntime(j) PROVE OutcomeInv'
  BY <1>7 DEF ReleaseRuntime
<1>8. ASSUME NEW j \in Runs, CleanupThrows(j) PROVE OutcomeInv'
  BY <1>8 DEF CleanupThrows
<1>9. ASSUME NEW j \in Runs, Finish(j) PROVE OutcomeInv'
  BY <1>9 DEF Finish
<1>10. ASSUME UNCHANGED <<pc, outcome>> PROVE OutcomeInv'
  BY <1>10
<1>11. ASSUME NEW c \in Calls, Issue(c) \/ HandlerStep(c) PROVE UNCHANGED <<pc, outcome>>
  BY <1>11 DEF Issue, IssueHttp, IssueAttest, HandlerStep, Respond, AttestAnswer,
               CannotOpen, EnterCallback, Abandon, CallbackReturns, CallbackThrows
<1>12. ASSUME NEW t \in PoolThreads, Take(t) PROVE UNCHANGED <<pc, outcome>>
  BY <1>12 DEF Take
<1>13. CASE UNCHANGED vars
  BY <1>10, <1>13 DEF vars
<1> QED
  BY <1>1, <1>2, <1>3, <1>4, <1>5, <1>6, <1>7, <1>8, <1>9, <1>10, <1>11, <1>12, <1>13
  DEF Next, ExecutorStep

--------------------------------------------------------------------------------
(* Every value of every variable keeps to its type. *)
THEOREM TypeCorrect == Spec => []TypeOK
<1>1. Init => TypeOK
  BY InitInv DEF IInv
<1> QED BY <1>1, TypeStep, PTL DEF Spec

(* The inductive invariant: queue, threads, locks and outcomes together. *)
THEOREM Inductive == Spec => [](IInv /\ OutcomeInv)
<1>1. IInv /\ OutcomeInv /\ [Next]_vars => IInv' /\ OutcomeInv'
  BY TypeStep, QueueStep, ThreadStep, LockStep, OutcomeStep DEF IInv
<1> QED BY <1>1, InitInv, PTL DEF Spec

(* Whoever runs javascript holds the lock, and handles one call only. *)
LEMMA InvExclusion == IInv => MutualExclusion
<1> SUFFICES ASSUME IInv, NEW j \in Runs
             PROVE  /\ pc[j] = "script" => CallbacksOf(j) = {}
                    /\ \A c, d \in CallbacksOf(j) : c = d
  BY DEF MutualExclusion
<1>1. ASSUME NEW c \in CallbacksOf(j)
      PROVE  c \in Calls /\ thread[c] = owner[j] /\ thread[c] \in Threads
  BY DEF CallbacksOf, IInv, LockInv, ThreadInv, TypeOK, Busy
<1>2. pc[j] = "script" => CallbacksOf(j) = {}
  BY <1>1, ThreadsAssumption DEF IInv, LockInv
<1>3. ASSUME NEW c \in CallbacksOf(j), NEW d \in CallbacksOf(j) PROVE c = d
  BY <1>1, ThreadsAssumption DEF IInv, ThreadInv
<1> QED BY <1>2, <1>3

(* The script and the callbacks of one run exclude each other: withV8Lock  *)
(* and execute never let two of them into the runtime.                     *)
THEOREM Exclusion == Spec => []MutualExclusion
BY Inductive, InvExclusion, PTL

(* From the moment execute starts closing it holds the lock for good. *)
LEMMA InvQuiet == IInv => QuietWhenClosed
<1> SUFFICES ASSUME IInv, NEW j \in Runs,
                    pc[j] \in {"closing", "finish", "done"} \/ released[j]
             PROVE  Inside(j) = {}
  BY DEF QuietWhenClosed
<1>1. pc[j] \in {"closing", "finish", "done"}
  BY DEF IInv, LockInv
<1>2. owner[j] = j \/ \A c \in Calls : RunOf[c] = j => call[c] = "unused"
  BY <1>1 DEF IInv, LockInv
<1>3. ASSUME NEW c \in CallbacksOf(j) PROVE FALSE
  <2>1. c \in Calls /\ RunOf[c] = j /\ call[c] \in InCallback
    BY DEF CallbacksOf
  <2>2. owner[j] = thread[c] /\ thread[c] \in Threads
    BY <2>1 DEF IInv, LockInv, ThreadInv, TypeOK, Busy
  <2> QED BY <1>2, <2>1, <2>2, ThreadsAssumption DEF InCallback
<1> QED BY <1>1, <1>3 DEF Inside

(* Nothing runs in a runtime once execute closes it. *)
THEOREM Quiet == Spec => []QuietWhenClosed
BY Inductive, InvQuiet, PTL

(* What the flag failed and the point of execute say of the outcome. *)
LEMMA InvOutcome == IInv /\ OutcomeInv => ExactOutcome
<1> SUFFICES ASSUME IInv, OutcomeInv, NEW j \in Runs
             PROVE  /\ successes[j] + errors[j] \in (IF pc[j] = "done" THEN 1 .. 2 ELSE 0 .. 2)
                    /\ successes[j] \in {0, 1} /\ (successes[j] = 1 => errors[j] = 0)
                    /\ reports[j] = (IF pc[j] = "done" /\ j \in Requested THEN 1 ELSE 0)
  BY DEF ExactOutcome
<1> QED BY DEF OutcomeInv

(* onSuccess once, or onError once or twice, and one report if requested:  *)
(* what V8ExecutorService and the chain learn of an execution.             *)
THEOREM Outcome == Spec => []ExactOutcome
BY Inductive, InvOutcome, PTL

--------------------------------------------------------------------------------
(* Who is inside a runtime changes only by the steps that enter and leave. *)
LEMMA SameInside ==
  ASSUME NEW j \in Runs, pc'[j] = "script" <=> pc[j] = "script",
         \A c \in Calls : RunOf[c] = j =>
           /\ call'[c] \in InCallback <=> call[c] \in InCallback
           /\ call[c] \in InCallback => thread'[c] = thread[c]
  PROVE  Inside(j)' = Inside(j) /\ CallbacksOf(j)' = CallbacksOf(j)
<1>1. CallbacksOf(j)' = CallbacksOf(j)
  BY DEF CallbacksOf
<1>2. \A c \in CallbacksOf(j) : thread'[c] = thread[c]
  BY DEF CallbacksOf
<1> QED BY <1>1, <1>2 DEF Inside

(* A lock is left behind by no step but a callback that throws: every      *)
(* other way out of withV8Lock releases it.                                *)
LEMMA LeakStep ==
  IInv /\ [Next]_vars =>
    [\A j \in Runs : LockLeaked(j)' /\ ~LockLeaked(j) =>
       \E c \in Calls : RunOf[c] = j /\ CallbackThrows(c)]_vars
<1> SUFFICES ASSUME IInv, Next, NEW j \in Runs, LockLeaked(j)', ~LockLeaked(j)
             PROVE  \E c \in Calls : RunOf[c] = j /\ CallbackThrows(c)
  OBVIOUS
<1> USE CallsAssumption, ThreadsAssumption DEF LockLeaked, IInv, TypeOK
<1>1. owner'[j] \in Threads /\ CallbacksOf(j)' = {}
  OBVIOUS
<1>2. owner[j] \notin Threads \/ \E c \in Calls : RunOf[c] = j /\ call[c] \in InCallback
  BY DEF CallbacksOf
<1>3. ~ \E c \in Calls : RunOf[c] = j /\ call'[c] \in InCallback
  BY <1>1 DEF CallbacksOf
<1>4. ASSUME NEW i \in Runs, ExecutorStep(i) PROVE FALSE
  <2>1. call' = call
    BY <1>4 DEF ExecutorStep, CreateRuntime, SetupThrows, ScriptReturns, ScriptThrows,
         Terminate, Reacquire, ReleaseRuntime, CleanupThrows, Finish, asynchronous
  <2>2. owner'[j] \in Threads => owner[j] = owner'[j]
    BY <1>4 DEF ExecutorStep, CreateRuntime, SetupThrows, ScriptReturns, ScriptThrows,
         Terminate, Reacquire, ReleaseRuntime, CleanupThrows, Finish, runtime, tryAcquire
  <2> QED BY <1>1, <1>2, <1>3, <2>1, <2>2
<1>5. ASSUME NEW c \in Calls, Issue(c) PROVE FALSE
  BY <1>1, <1>2, <1>3, <1>5 DEF Issue, IssueHttp, IssueAttest, runtime, InCallback
<1>6. ASSUME NEW t \in PoolThreads, Take(t) PROVE FALSE
  <2>1. owner' = owner /\ \A d \in Calls : call[d] \in InCallback => call'[d] = call[d]
    <3>1. Head(queue) \in Calls /\ call[Head(queue)] = "queued"
      <4>1. 1 \in 1 .. Len(queue) /\ Head(queue) = queue[1] /\ queue[1] \in Calls
        BY <1>6 DEF Take, Calls
      <4> QED BY <4>1 DEF QueueInv
    <3> QED BY <1>6, <3>1 DEF Take, runtime, InCallback
  <2> QED BY <1>1, <1>2, <1>3, <2>1
<1>7. ASSUME NEW c \in Calls, HandlerStep(c) PROVE RunOf[c] = j /\ CallbackThrows(c)
  <2>1. ASSUME NEW answer \in Waiting, Respond(c, answer) \/ AttestAnswer(c, answer) PROVE FALSE
    BY <1>1, <1>2, <1>3, <2>1 DEF Respond, AttestAnswer, runtime, InCallback
  <2>2. ASSUME CannotOpen(c) \/ Abandon(c) PROVE FALSE
    BY <1>1, <1>2, <1>3, <2>2 DEF CannotOpen, Abandon, Settle, runtime, InCallback, Waiting
  <2>3. ASSUME EnterCallback(c) PROVE FALSE
    BY <1>1, <1>2, <1>3, <2>3 DEF EnterCallback, tryAcquire, InCallback, Waiting
  <2>4. ASSUME CallbackReturns(c) PROVE FALSE
    BY <1>1, <1>2, <1>3, <2>4 DEF CallbackReturns, Settle, InCallback
  <2>5. CASE CallbackThrows(c)
    <3>1. \A d \in Calls : d # c => call'[d] = call[d]
      BY <2>5 DEF CallbackThrows, Settle
    <3>2. owner' = owner
      BY <2>5 DEF CallbackThrows
    <3> QED BY <1>1, <1>2, <1>3, <2>5, <3>1, <3>2
  <2> QED BY <1>7, <2>1, <2>2, <2>3, <2>4, <2>5 DEF HandlerStep
<1> QED BY <1>4, <1>5, <1>6, <1>7 DEF Next

(* withV8Lock leaves a lock behind only when the callback throws. *)
THEOREM LeaksByThrows == Spec => OnlyThrowsLeak
BY Inductive, LeakStep, PTL DEF Spec, OnlyThrowsLeak

--------------------------------------------------------------------------------
(* The refinement: what the steps of V8Execution are for V8Runtime.        *)
phases == [j \in Runs |-> Phase(j)]
insides == [j \in Runs |-> Inside(j)]

(* A step that concerns run j only, seen through the refinement mapping. *)
LEMMA OneRun ==
  ASSUME NEW j \in Runs, NEW p, NEW s, Phase(j)' = p, Inside(j)' = s,
         \A k \in Runs \ {j} : Phase(k)' = Phase(k) /\ Inside(k)' = Inside(k)
  PROVE  phases' = [phases EXCEPT ![j] = p] /\ insides' = [insides EXCEPT ![j] = s]
BY DEF phases, insides

(* The four steps of the contract, in terms of the mapping. *)
LEMMA CreateStep ==
  ASSUME NEW j \in Runs, Phase(j) = "none",
         phases' = [phases EXCEPT ![j] = "live"], insides' = [insides EXCEPT ![j] = {j}]
  PROVE  Contract!RNext
<1>1. Contract!Create(j, j)
  BY DEF Contract!Create, phases, insides
<1> QED BY <1>1 DEF Contract!RNext

LEMMA EnterStep ==
  ASSUME NEW j \in Runs, NEW t \in Threads, Phase(j) = "live", Inside(j) = {},
         phases' = [phases EXCEPT ![j] = Phase(j)], insides' = [insides EXCEPT ![j] = {t}]
  PROVE  Contract!RNext
<1>1. Contract!Enter(j, t)
  BY DEF Contract!Enter, phases, insides
<1> QED BY <1>1 DEF Contract!RNext

LEMMA LeaveStep ==
  ASSUME NEW j \in Runs, Inside(j) # {},
         phases' = [phases EXCEPT ![j] = Phase(j)], insides' = [insides EXCEPT ![j] = {}]
  PROVE  Contract!RNext
<1>1. Contract!Leave(j)
  BY DEF Contract!Leave, phases, insides
<1> QED BY <1>1 DEF Contract!RNext

LEMMA DisposeStep ==
  ASSUME NEW j \in Runs, Phase(j) # "over", Inside(j) = {},
         phases' = [phases EXCEPT ![j] = "over"], insides' = [insides EXCEPT ![j] = {}]
  PROVE  Contract!RNext
<1>1. Contract!Dispose(j)
  BY DEF Contract!Dispose, phases, insides
<1> QED BY <1>1 DEF Contract!RNext

(* The executor thread of run j leaves the other runs alone. *)
LEMMA ExecutorOthers ==
  ASSUME TypeOK, NEW j \in Runs, ExecutorStep(j)
  PROVE  /\ call' = call /\ thread' = thread
         /\ \A k \in Runs \ {j} : Phase(k)' = Phase(k) /\ Inside(k)' = Inside(k)
<1>1. call' = call /\ thread' = thread /\ \A k \in Runs \ {j} : pc'[k] = pc[k]
  BY DEF ExecutorStep, CreateRuntime, SetupThrows, ScriptReturns, ScriptThrows, Terminate,
       Reacquire, ReleaseRuntime, CleanupThrows, Finish, Goto, asynchronous, TypeOK
<1>2. ASSUME NEW k \in Runs \ {j} PROVE Phase(k)' = Phase(k) /\ Inside(k)' = Inside(k)
  BY <1>1, SameInside DEF Phase
<1> QED BY <1>1, <1>2

(* The handler of a call of run j leaves the other runs alone. *)
LEMMA HandlerOthers ==
  ASSUME TypeOK, NEW c \in Calls, pc' = pc,
         \A d \in Calls \ {c} : call'[d] = call[d] /\ thread'[d] = thread[d]
  PROVE  /\ \A k \in Runs : Phase(k)' = Phase(k)
         /\ \A k \in Runs \ {RunOf[c]} : Inside(k)' = Inside(k)
<1>1. ASSUME NEW k \in Runs \ {RunOf[c]} PROVE Inside(k)' = Inside(k)
  BY <1>1, SameInside
<1> QED BY <1>1 DEF Phase

LEMMA ExecutorRefines ==
  ASSUME IInv, NEW j \in Runs, ExecutorStep(j)
  PROVE  Contract!RNext \/ UNCHANGED <<phases, insides>>
<1> USE CallsAssumption, ThreadsAssumption DEF IInv
<1>1. /\ call' = call /\ thread' = thread
      /\ \A k \in Runs \ {j} : Phase(k)' = Phase(k) /\ Inside(k)' = Inside(k)
  BY ExecutorOthers
<1>2. CallbacksOf(j)' = CallbacksOf(j)
  BY <1>1 DEF CallbacksOf
<1>3. CallbacksOf(j)' = CallbacksOf(j) /\ (CallbacksOf(j) = {} => Inside(j)' = IF pc'[j] = "script" THEN {j} ELSE {})
  BY <1>2 DEF Inside
<1>4. /\ pc[j] = "script" => CallbacksOf(j) = {}
      /\ pc[j] = "init" => CallbacksOf(j) = {}
      /\ pc[j] = "closing" => CallbacksOf(j) = {}
  BY InvExclusion, InvQuiet DEF MutualExclusion, QuietWhenClosed, Inside, CallbacksOf, LockInv, InCallback
<1>5. CASE CreateRuntime(j)
  <2>1. Phase(j) = "none" /\ Phase(j)' = "live" /\ Inside(j)' = {j}
    BY <1>3, <1>4, <1>5 DEF CreateRuntime, Goto, Phase, TypeOK
  <2>2. phases' = [phases EXCEPT ![j] = "live"] /\ insides' = [insides EXCEPT ![j] = {j}]
    BY <1>1, <2>1, OneRun
  <2> QED BY <2>1, <2>2, CreateStep
<1>6. CASE SetupThrows(j) \/ ReleaseRuntime(j) \/ CleanupThrows(j)
  <2>1. /\ Phase(j) # "over" /\ Phase(j)' = "over"
        /\ Inside(j) = {} /\ Inside(j)' = {}
    BY <1>3, <1>4, <1>6 DEF SetupThrows, ReleaseRuntime, CleanupThrows, Goto, Phase, Inside, TypeOK
  <2>2. phases' = [phases EXCEPT ![j] = "over"] /\ insides' = [insides EXCEPT ![j] = {}]
    BY <1>1, <2>1, OneRun
  <2> QED BY <2>1, <2>2, DisposeStep
<1>7. CASE ScriptReturns(j) \/ ScriptThrows(j)
  <2>1. /\ Phase(j)' = Phase(j)
        /\ Inside(j) = {j} /\ Inside(j)' = {}
    BY <1>3, <1>4, <1>7 DEF ScriptReturns, ScriptThrows, Goto, Phase, Inside, TypeOK
  <2>2. phases' = [phases EXCEPT ![j] = Phase(j)] /\ insides' = [insides EXCEPT ![j] = {}]
    BY <1>1, <2>1, OneRun
  <2> QED BY <2>1, <2>2, LeaveStep
<1>8. CASE Terminate(j) \/ Reacquire(j) \/ Finish(j)
  <2>1. Phase(j)' = Phase(j) /\ pc[j] # "script" /\ pc'[j] # "script"
    BY <1>8 DEF Terminate, Reacquire, Finish, Goto, Phase, TypeOK
  <2>2. Inside(j)' = Inside(j)
    BY <1>1, <2>1, SameInside
  <2>3. phases' = [phases EXCEPT ![j] = Phase(j)] /\ insides' = [insides EXCEPT ![j] = Inside(j)]
    BY <1>1, <2>1, <2>2, OneRun
  <2> QED BY <2>3 DEF phases, insides
<1> QED BY <1>5, <1>6, <1>7, <1>8 DEF ExecutorStep

(* A step that leaves every callback where it is, is invisible. *)
LEMMA Invisible ==
  ASSUME pc' = pc,
         \A c \in Calls :
           /\ call'[c] \in InCallback <=> call[c] \in InCallback
           /\ call[c] \in InCallback => thread'[c] = thread[c]
  PROVE  UNCHANGED <<phases, insides>>
<1>1. ASSUME NEW k \in Runs PROVE Phase(k)' = Phase(k) /\ Inside(k)' = Inside(k)
  <2>1. Phase(k)' = Phase(k) /\ (pc'[k] = "script" <=> pc[k] = "script")
    BY DEF Phase
  <2>2. Inside(k)' = Inside(k)
    BY <2>1, SameInside
  <2> QED BY <2>1, <2>2
<1> QED BY <1>1 DEF phases, insides

LEMMA CallRefines ==
  ASSUME IInv, NEW c \in Calls, Issue(c) \/ HandlerStep(c)
  PROVE  Contract!RNext \/ UNCHANGED <<phases, insides>>
<1> USE CallsAssumption, ThreadsAssumption DEF IInv, TypeOK
<1> DEFINE j == RunOf[c]
<1>1. pc' = pc
  BY DEF Issue, IssueHttp, IssueAttest, HandlerStep, Respond, AttestAnswer, CannotOpen,
         EnterCallback, Abandon, CallbackReturns, CallbackThrows
<1>2. \A d \in Calls \ {c} : call'[d] = call[d] /\ thread'[d] = thread[d]
  BY DEF Issue, IssueHttp, IssueAttest, HandlerStep, Respond, AttestAnswer, CannotOpen,
         EnterCallback, Abandon, CallbackReturns, CallbackThrows, Settle
<1>3. /\ \A k \in Runs : Phase(k)' = Phase(k)
      /\ \A k \in Runs \ {j} : Inside(k)' = Inside(k)
  BY <1>1, <1>2, HandlerOthers
<1>4. ASSUME call[c] \notin InCallback, call'[c] \notin InCallback
      PROVE  UNCHANGED <<phases, insides>>
  BY <1>1, <1>2, <1>4, Invisible
<1>5. CASE EnterCallback(c)
  <2>1. /\ call[c] \in Waiting /\ call'[c] \in InCallback
        /\ thread'[c] = thread[c] /\ owner[j] \in {NoThread, thread[c]}
    BY <1>5 DEF EnterCallback, tryAcquire, Waiting, InCallback
  <2>2. thread[c] \in Threads
    BY <2>1 DEF ThreadInv, Busy
  <2>3. Inside(j) = {} /\ CallbacksOf(j) = {}
    <3>1. pc[j] # "script"
      BY <2>1, <2>2 DEF LockInv
    <3>2. ASSUME NEW d \in CallbacksOf(j) PROVE FALSE
      <4>1. d \in Calls /\ call[d] \in InCallback /\ owner[j] = thread[d] /\ thread[d] # NoThread
        BY DEF CallbacksOf, LockInv, ThreadInv, Busy
      <4>2. d = c
        BY <2>1, <4>1 DEF ThreadInv
      <4> QED BY <2>1, <4>1, <4>2 DEF Waiting, InCallback
    <3>3. CallbacksOf(j) = {}
      BY <3>2
    <3> QED BY <3>1, <3>3 DEF Inside
  <2>4. Inside(j)' = {thread[c]}
    <3>1. pc'[j] # "script"
      BY <1>1, <2>1, <2>2 DEF LockInv
    <3>2. CallbacksOf(j)' = {c}
      <4>1. \A d \in Calls : RunOf[d] = j => call[d] \notin InCallback
        BY <2>3 DEF CallbacksOf
      <4> QED BY <1>2, <2>1, <4>1 DEF CallbacksOf
    <3> QED BY <2>1, <3>1, <3>2 DEF Inside
  <2>5. Phase(j) = "live"
    <3>1. call[c] # "unused" /\ owner[j] # j
      BY <2>1, <2>2 DEF Waiting
    <3>2. pc[j] \notin {"init", "finish", "done"}
      BY <3>1 DEF LockInv
    <3> QED BY <3>2 DEF Phase
  <2>6. /\ phases' = [phases EXCEPT ![j] = Phase(j)]
        /\ insides' = [insides EXCEPT ![j] = {thread[c]}]
    BY <1>3, <2>4, OneRun
  <2> QED BY <2>2, <2>3, <2>5, <2>6, EnterStep
<1>6. CASE CallbackReturns(c) \/ CallbackThrows(c)
  <2>1. call[c] \in InCallback /\ call'[c] \notin InCallback
    BY <1>6 DEF CallbackReturns, CallbackThrows, Settle, InCallback
  <2>2. CallbacksOf(j) = {c} /\ pc[j] # "script"
    BY <2>1, InvExclusion DEF MutualExclusion, CallbacksOf
  <2>3. Inside(j) # {}
    BY <2>2 DEF Inside
  <2>4. Inside(j)' = {}
    <3>1. CallbacksOf(j)' = {}
      BY <1>2, <2>1, <2>2 DEF CallbacksOf
    <3> QED BY <1>1, <2>2, <3>1 DEF Inside
  <2>5. /\ phases' = [phases EXCEPT ![j] = Phase(j)]
        /\ insides' = [insides EXCEPT ![j] = {}]
    BY <1>3, <2>4, OneRun
  <2> QED BY <2>3, <2>5, LeaveStep
<1>7. CASE Issue(c)
  BY <1>4, <1>7 DEF Issue, IssueHttp, IssueAttest, InCallback
<1>8. CASE CannotOpen(c) \/ Abandon(c)
  BY <1>4, <1>8 DEF CannotOpen, Abandon, Settle, InCallback, Waiting
<1>9. ASSUME NEW answer \in Waiting, Respond(c, answer) \/ AttestAnswer(c, answer)
      PROVE  UNCHANGED <<phases, insides>>
  BY <1>4, <1>9 DEF Respond, AttestAnswer, InCallback, Waiting
<1> QED BY <1>5, <1>6, <1>7, <1>8, <1>9 DEF HandlerStep

(* A pool thread takes a task: nothing of it is visible yet. *)
LEMMA TakeRefines ==
  ASSUME IInv, NEW t \in PoolThreads, Take(t)
  PROVE  UNCHANGED <<phases, insides>>
<1> USE DEF IInv, TypeOK
<1>1. 1 \in 1 .. Len(queue) /\ Head(queue) = queue[1] /\ queue[1] \in Calls
  BY DEF Take, Calls
<1>2. call[Head(queue)] = "queued"
  BY <1>1 DEF QueueInv
<1>3. pc' = pc
  BY DEF Take
<1>4. \A c \in Calls :
        /\ call'[c] \in InCallback <=> call[c] \in InCallback
        /\ call[c] \in InCallback => thread'[c] = thread[c]
  BY <1>1, <1>2 DEF Take, InCallback
<1> QED BY <1>3, <1>4, Invisible

(* The lock, the polling and isReleased implement the contract: at most    *)
(* one actor in a runtime, disposed of once, while nobody is inside.       *)
THEOREM ImplementsV8Runtime == Spec => ImplementsContract
<1>1. Init => Contract!RInit
  BY DEF Init, Contract!RInit, Phase, Inside, CallbacksOf, InCallback
<1>2. IInv /\ [Next]_vars => [Contract!RNext]_(Contract!rvars)
  <2> SUFFICES ASSUME IInv, [Next]_vars
               PROVE  Contract!RNext \/ UNCHANGED <<phases, insides>>
    BY DEF Contract!rvars, phases, insides
  <2>1. CASE UNCHANGED vars
    BY <2>1, Invisible DEF vars, asynchronous
  <2>2. CASE Next
    BY <2>2, ExecutorRefines, CallRefines, TakeRefines DEF Next
  <2> QED BY <2>1, <2>2
<1> QED BY <1>1, <1>2, Inductive, PTL DEF Spec, ImplementsContract, Contract!RSpec

--------------------------------------------------------------------------------
(* The chains of alarms, and the service around the executions.           *)

(* startIds reach V8ExecutorService in the order in which they were given. *)
InOrder ==
  \A c \in commands : c.to = "v8" =>
    c.id \in 1 .. last /\ \A id \in running : id < c.id

TimersInv == TimersTypeOK /\ InOrder /\ Sheltered
--------------------------------------------------------------------------------
LEMMA OneFaultLess ==
  ASSUME faults \in 0 .. Faults, faults > 0, faults' = faults - 1
  PROVE  faults' \in 0 .. Faults
  BY TimersAssumption DEF TimersAssumption

(* What the handlers have to do consists of statements. *)
LEMMA StatementsTyped ==
  /\ \A s \in Services : Arm(s) \in Statement /\ Start(s) \in Statement
  /\ Arm("hourly") \in Statement
  BY DEF Arm, Start, Statement, Services, Chains

LEMMA ReceiverTyped ==
  ASSUME NEW s \in Chains, OnReceive(s)
  PROVE  main' \in Seq(Statement)
  BY StatementsTyped DEF OnReceive, Handle, Services

LEMMA ActivityTyped ==
  ASSUME OpenActivity
  PROVE  main' \in Seq(Statement)
  <1> DEFINE todo == <<Arm("hourly"), Arm("fetch"), Start("fetch"), Arm("heartbeat"), Start("heartbeat")>>
  <1>1. todo \in Seq(Statement)
    BY StatementsTyped DEF Services, Chains
  <1> QED BY <1>1 DEF OpenActivity, Handle

LEMMA RestTyped ==
  ASSUME main \in Seq(Statement), NEW do, NEW a, Doing(do, a)
  PROVE  Tail(main) \in Seq(Statement)
  BY DEF Doing

--------------------------------------------------------------------------------
LEMMA InvInit == TimersInit => TimersInv
  <1> SUFFICES ASSUME TimersInit PROVE TimersInv
    OBVIOUS
  <1>1. /\ main \in Seq(Statement) /\ faults \in 0 .. Faults /\ last \in Nat
        /\ crashes \in 0 .. MaxCrashes
    BY TimersAssumption DEF TimersInit, TimersAssumption
  <1> QED BY <1>1 DEF TimersInit, TimersInv, TimersTypeOK, InOrder, Sheltered

(* The process ends: what is left has its type and no execution. *)
LEMMA DeadIsFine ==
  ASSUME TimersInv, Die,
         started' \subseteq started, commands' \subseteq commands,
         \A c \in commands' : c.to \in started',
         last' = last, crashes' \in 0 .. MaxCrashes, faults' \in 0 .. Faults,
         armed' \subseteq armed, permitted' \in BOOLEAN, bootDue' \in BOOLEAN,
         stopped' \in BOOLEAN
  PROVE  TimersInv'
  <1>1. main' \in Seq(Statement) /\ created' = {} /\ running' = {} /\ open' = FALSE
    BY DEF Die
  <1>2. commands' \subseteq [to : started', id : Nat]
    BY DEF TimersInv, TimersTypeOK
  <1>3. TimersTypeOK'
    BY <1>1, <1>2 DEF TimersInv, TimersTypeOK
  <1>4. InOrder' /\ Sheltered'
    BY <1>1 DEF TimersInv, InOrder, Sheltered
  <1> QED BY <1>3, <1>4 DEF TimersInv

(* A handler begins: only the main thread and the device change. *)
LEMMA HandlerIsFine ==
  ASSUME TimersInv, main' \in Seq(Statement), armed' \subseteq armed,
         bootDue' \in BOOLEAN, open' \in BOOLEAN, stopped' \in BOOLEAN,
         UNCHANGED <<permitted, created, running, started, commands, last, crashes, faults>>
  PROVE  TimersInv'
  BY DEF TimersInv, TimersTypeOK, InOrder, Sheltered

LEMMA InvStep == TimersInv /\ [TimersNext]_timersVars => TimersInv'
  <1> SUFFICES ASSUME TimersInv, [TimersNext]_timersVars PROVE TimersInv'
    OBVIOUS
  <1> USE DEF device, service, process
  <1>1. CASE OpenActivity
    BY <1>1, ActivityTyped, HandlerIsFine DEF OpenActivity, TimersInv, TimersTypeOK
  <1>2. CASE Alarms
    <2>1. ASSUME NEW s \in Chains, ChainAlarm(s) PROVE TimersInv'
      BY <2>1, ReceiverTyped, HandlerIsFine DEF ChainAlarm, TimersInv, TimersTypeOK
    <2>2. ASSUME HourlyAlarm \/ BootCompleted PROVE TimersInv'
      <3>1. main' \in Seq(Statement)
        BY <2>2, ReceiverTyped DEF HourlyAlarm, BootCompleted, Chains
      <3> QED BY <2>2, <3>1, HandlerIsFine DEF HourlyAlarm, BootCompleted, TimersInv, TimersTypeOK
    <2>3. CASE V8Alarm
      <3>1. main' \in Seq(Statement)
        BY <2>3, StatementsTyped DEF V8Alarm, Handle, Services
      <3> QED BY <2>3, <3>1, HandlerIsFine DEF V8Alarm, TimersInv, TimersTypeOK
    <2> QED BY <1>2, <2>1, <2>2, <2>3 DEF Alarms
  <1>3. ASSUME NEW a \in Chains \cup {"hourly"}, DoArm(a) PROVE TimersInv'
    <2>1. main' \in Seq(Statement)
      BY <1>3, RestTyped DEF DoArm, TimersInv, TimersTypeOK
    <2>2. armed' \subseteq Chains \cup {"hourly"}
      BY <1>3 DEF DoArm, TimersInv, TimersTypeOK
    <2> QED BY <1>3, <2>1, <2>2 DEF DoArm, TimersInv, TimersTypeOK, InOrder, Sheltered
  <1>4. ASSUME NEW s \in Services, DoStart(s) PROVE TimersInv'
    <2>1. main' \in Seq(Statement)
      BY <1>4, RestTyped DEF DoStart, TimersInv, TimersTypeOK
    <2>2. last \in Nat /\ running \subseteq 1 .. last
      BY DEF TimersInv, TimersTypeOK
    <2>3. last' \in Nat /\ running' \subseteq 1 .. last' /\ \A id \in running : id < last + 1
      BY <1>4, <2>2 DEF DoStart
    <2>4. /\ started' = started \cup {s}
          /\ commands' \subseteq [to : started', id : Nat]
      BY <1>4, <2>2 DEF DoStart, TimersInv, TimersTypeOK
    <2>5. TimersTypeOK'
      BY <1>4, <2>1, <2>3, <2>4 DEF DoStart, TimersInv, TimersTypeOK
    <2>6. ASSUME NEW c \in commands', c.to = "v8"
          PROVE  c.id \in 1 .. last' /\ \A id \in running : id < c.id
      <3>1. CASE c \in commands
        BY <1>4, <2>2, <2>6, <3>1 DEF DoStart, TimersInv, InOrder
      <3>2. CASE c \notin commands
        <4>1. c = [to |-> s, id |-> IF s = "v8" THEN last + 1 ELSE 0]
          BY <1>4, <2>6, <3>2 DEF DoStart
        <4>2. s = "v8" /\ c.id = last + 1
          BY <2>6, <4>1
        <4> QED BY <1>4, <2>2, <2>3, <4>2 DEF DoStart
      <3> QED BY <3>1, <3>2
    <2>7. InOrder'
      BY <1>4, <2>6 DEF DoStart, InOrder
    <2>8. Sheltered'
      BY <1>4, <2>2, <2>3 DEF DoStart, TimersInv, Sheltered
    <2> QED BY <2>5, <2>7, <2>8 DEF TimersInv
  <1>5. CASE SystemStops
    <2>1. faults' \in 0 .. Faults /\ 0 \in 0 .. MaxCrashes
      BY <1>5, OneFaultLess, TimersAssumption
      DEF SystemStops, Kill, Reboot, ForceStop, Revoke, TimersInv, TimersTypeOK, TimersAssumption
    <2>2. CASE Kill
      BY <2>1, <2>2, DeadIsFine DEF Kill, TimersInv, TimersTypeOK
    <2>3. CASE Reboot
      BY <2>1, <2>3, DeadIsFine DEF Reboot, TimersInv, TimersTypeOK
    <2>4. CASE ForceStop
      BY <2>1, <2>4, DeadIsFine DEF ForceStop, TimersInv, TimersTypeOK
    <2>5. CASE Revoke
      BY <2>1, <2>5, DeadIsFine DEF Revoke, TimersInv, TimersTypeOK
    <2> QED BY <1>5, <2>2, <2>3, <2>4, <2>5 DEF SystemStops
  <1>6. CASE Grant
    BY <1>6 DEF Grant, TimersInv, TimersTypeOK, InOrder, Sheltered
  <1>7. ASSUME NEW s \in Services, StartRefused(s) PROVE TimersInv'
    BY <1>7, DeadIsFine, OneFaultLess DEF StartRefused, TimersInv, TimersTypeOK
  <1>8. ASSUME NEW s \in Services, OnStartCommand(s) PROVE TimersInv'
    <2>1. PICK c \in Pending(s) :
            /\ \A d \in Pending(s) : c.id <= d.id
            /\ commands' = commands \ {c}
            /\ running' = IF s = "v8" THEN running \cup {c.id} ELSE running
      BY <1>8 DEF OnStartCommand
    <2>2. c \in commands /\ c.to = s /\ c.id \in Nat /\ s \in started
      BY <2>1 DEF Pending, TimersInv, TimersTypeOK
    <2>3. running' \subseteq 1 .. last
      BY <2>1, <2>2 DEF TimersInv, TimersTypeOK, InOrder
    <2>4. crashes' \in 0 .. MaxCrashes
      BY <1>8, TimersAssumption DEF OnStartCommand, TimersInv, TimersTypeOK, TimersAssumption
    <2>5. TimersTypeOK'
      BY <1>8, <2>1, <2>2, <2>3, <2>4 DEF OnStartCommand, TimersInv, TimersTypeOK
    <2>6. Sheltered'
      BY <1>8, <2>1, <2>2 DEF OnStartCommand, TimersInv, Sheltered
    <2>7. ASSUME NEW d \in commands', d.to = "v8"
          PROVE  d.id \in 1 .. last /\ \A id \in running' : id < d.id
      <3>1. d \in commands /\ d # c /\ d.id \in Nat /\ d.id \in 1 .. last
            /\ \A id \in running : id < d.id
        BY <2>1, <2>7 DEF TimersInv, InOrder, TimersTypeOK
      <3>2. CASE s # "v8"
        BY <2>1, <3>1, <3>2
      <3>3. CASE s = "v8"
        <4>1. d \in Pending(s)
          BY <2>7, <3>1, <3>3 DEF Pending
        <4>2. c.id <= d.id
          BY <2>1, <4>1
        <4>3. c.id # d.id
          <5>1. c \in [to : started, id : Nat] /\ d \in [to : started, id : Nat]
            BY <2>2, <3>1 DEF TimersInv, TimersTypeOK
          <5>2. c = [to |-> c.to, id |-> c.id] /\ d = [to |-> d.to, id |-> d.id]
            BY <5>1
          <5> QED BY <2>2, <2>7, <3>1, <3>3, <5>2
        <4>4. c.id < d.id
          BY <2>2, <3>1, <4>2, <4>3
        <4> QED BY <2>1, <3>1, <3>3, <4>4
      <3> QED BY <3>2, <3>3
    <2>8. InOrder'
      BY <1>8, <2>7 DEF OnStartCommand, InOrder
    <2> QED BY <2>5, <2>6, <2>8 DEF TimersInv
  <1>9. ASSUME NEW s \in Services, StickyRestart(s) PROVE TimersInv'
    BY <1>9 DEF StickyRestart, Sticky, TimersInv, TimersTypeOK, InOrder, Sheltered
  <1>10. CASE StickyCrash
    <2>1. crashes' \in 0 .. MaxCrashes
      BY <1>10, TimersAssumption DEF StickyCrash, TimersInv, TimersTypeOK, TimersAssumption
    <2>2. \A c \in commands' : c.to \in started'
      BY <1>10 DEF StickyCrash, Sticky, Pending, TimersInv, TimersTypeOK
    <2> QED BY <1>10, <2>1, <2>2, DeadIsFine DEF StickyCrash, TimersInv, TimersTypeOK
  <1>11. ASSUME NEW id \in running, ExecutionEnds(id) PROVE TimersInv'
    <2>1. CASE id = last
      <3>1. \A c \in commands : c.to # "v8"
        <4>1. last \in Nat
          BY DEF TimersInv, TimersTypeOK
        <4> QED BY <1>11, <2>1, <4>1 DEF TimersInv, InOrder
      <3>2. commands \subseteq [to : started \ {"v8"}, id : Nat]
        BY <3>1 DEF TimersInv, TimersTypeOK
      <3> QED BY <1>11, <2>1, <3>2
          DEF ExecutionEnds, StopSelf, StopService, TimersInv, TimersTypeOK, InOrder, Sheltered
    <2>2. CASE id # last
      BY <1>11, <2>2 DEF ExecutionEnds, StopSelf, TimersInv, TimersTypeOK, InOrder, Sheltered
    <2> QED BY <2>1, <2>2
  <1>12. CASE UNCHANGED timersVars
    BY <1>12 DEF timersVars, TimersInv, TimersTypeOK, InOrder, Sheltered
  <1> QED BY <1>1, <1>2, <1>3, <1>4, <1>5, <1>6, <1>7, <1>8, <1>9, <1>10, <1>11, <1>12
      DEF TimersNext, MainStep, Refused

--------------------------------------------------------------------------------
(* The inductive invariant: types, commands in order, the sheltered        *)
(* execution.                                                              *)
THEOREM TimersInductive == TimersSpec => []TimersInv
  BY InvInit, InvStep, PTL DEF TimersSpec

(* Every variable keeps its type. *)
THEOREM TimersTypeCorrect == TimersSpec => []TimersTypeOK
  <1>1. TimersInv => TimersTypeOK
    BY DEF TimersInv
  <1> QED BY TimersInductive, <1>1, PTL

(* stopSelf(startId) stops the service only when nothing later runs or is  *)
(* on its way.                                                             *)
THEOREM LatestSheltered == TimersSpec => []Sheltered
  <1>1. TimersInv => Sheltered
    BY DEF TimersInv
  <1> QED BY TimersInductive, <1>1, PTL

--------------------------------------------------------------------------------
(* A handler that begins, or one statement of it, keeps every chain.       *)
LEMMA ReceiverKeeps ==
  ASSUME NEW s \in Chains, NEW r \in Chains, Alive(s), OnReceive(r),
         armed \ {r} \subseteq armed'
  PROVE  Alive(s)'
  <1>1. main = <<>> /\ main' = <<Arm(r), Start(r)>>
    BY DEF OnReceive, Handle
  <1>2. s \in armed
    BY <1>1 DEF Alive
  <1>3. CASE s = r
    BY <1>1, <1>3 DEF Alive
  <1>4. CASE s # r
    BY <1>2, <1>4 DEF Alive
  <1> QED BY <1>3, <1>4

LEMMA RestKeeps ==
  ASSUME TimersTypeOK, NEW s \in Chains, Alive(s), NEW do, NEW a, Doing(do, a),
         main' = Tail(main), armed \subseteq armed',
         [do |-> do, of |-> a] = Arm(s) => s \in armed'
  PROVE  Alive(s)'
  <1>1. CASE s \in armed
    BY <1>1 DEF Alive
  <1>2. CASE s \notin armed
    <2>1. PICK i \in DOMAIN main : main[i] = Arm(s)
      BY <1>2 DEF Alive
    <2>2. CASE i = 1
      BY <2>1, <2>2 DEF Doing, Alive
    <2>3. CASE i # 1
      <3>1. main \in Seq(Statement) /\ main # <<>> /\ i \in 1 .. Len(main)
        BY <2>1 DEF TimersTypeOK, Doing
      <3>2. i - 1 \in 1 .. Len(Tail(main)) /\ Tail(main)[i - 1] = main[i]
        BY <2>3, <3>1
      <3>3. i - 1 \in DOMAIN main' /\ main'[i - 1] = Arm(s)
        BY <2>1, <3>1, <3>2
      <3> QED BY <3>3 DEF Alive
    <2> QED BY <2>2, <2>3
  <1> QED BY <1>1, <1>2

(* Without the activity, arming comes first: what else a handler has to do *)
(* arms nothing.                                                           *)
ArmsFirst == ~open => \A i \in DOMAIN main, s \in Chains : main[i] = Arm(s) => i = 1

LEMMA ArmsFirstStep == TimersTypeOK /\ ArmsFirst /\ [TimersNext]_timersVars => ArmsFirst'
  <1> SUFFICES ASSUME TimersTypeOK, ArmsFirst, [TimersNext]_timersVars PROVE ArmsFirst'
    OBVIOUS
  <1> USE DEF device, service, process
  <1>1. ASSUME open' = open, main' = Tail(main), main # <<>> PROVE ArmsFirst'
    <2> SUFFICES ASSUME ~open, NEW i \in DOMAIN main', NEW s \in Chains, main'[i] = Arm(s)
                 PROVE  FALSE
      BY <1>1 DEF ArmsFirst
    <2>1. main \in Seq(Statement)
      BY DEF TimersTypeOK
    <2>2. i \in Nat /\ i >= 1 /\ i + 1 \in DOMAIN main /\ main'[i] = main[i + 1]
      BY <1>1, <2>1
    <2>3. main[i + 1] = Arm(s)
      BY <2>2
    <2>4. i + 1 = 1
      BY <2>2, <2>3 DEF ArmsFirst
    <2> QED BY <2>2, <2>4
  <1>2. ASSUME NEW r \in Chains, OnReceive(r) PROVE ArmsFirst'
    <2>1. main' = <<Arm(r), Start(r)>> /\ \A s \in Chains : Start(r) # Arm(s)
      BY <1>2 DEF OnReceive, Handle, Arm, Start
    <2>2. DOMAIN main' = {1, 2} /\ main'[2] = Start(r)
      BY <2>1
    <2> QED BY <2>1, <2>2 DEF ArmsFirst
  <1>3. CASE OpenActivity
    BY <1>3 DEF OpenActivity, ArmsFirst
  <1>4. CASE Alarms
    <2>1. CASE V8Alarm
      <3>1. main' = <<Start("v8")>>
        BY <2>1 DEF V8Alarm, Handle
      <3>2. DOMAIN main' = {1}
        BY <3>1
      <3> QED BY <3>2 DEF ArmsFirst
    <2> QED BY <1>2, <1>4, <2>1 DEF Alarms, ChainAlarm, HourlyAlarm, BootCompleted, Chains
  <1>5. CASE MainStep
    BY <1>1, <1>5 DEF MainStep, DoArm, DoStart, Doing
  <1>6. CASE Die
    BY <1>6 DEF Die, ArmsFirst
  <1>7. ASSUME UNCHANGED <<open, main>> PROVE ArmsFirst'
    BY <1>7 DEF ArmsFirst
  <1>8. ASSUME NEW s \in Services, StartRefused(s) \/ OnStartCommand(s) \/ StickyRestart(s)
        PROVE  ArmsFirst'
    BY <1>6, <1>7, <1>8 DEF StartRefused, OnStartCommand, StickyRestart
  <1>9. CASE SystemStops \/ StickyCrash
    BY <1>6, <1>9 DEF SystemStops, Kill, Reboot, ForceStop, Revoke, StickyCrash
  <1>10. CASE Grant \/ \E id \in running : ExecutionEnds(id)
    BY <1>7, <1>10 DEF Grant, ExecutionEnds
  <1> QED BY <1>3, <1>4, <1>5, <1>7, <1>8, <1>9, <1>10 DEF TimersNext, Refused, timersVars

LEMMA ChainStep ==
  ASSUME TimersInv, ArmsFirst, [TimersNext]_timersVars, NEW s \in Chains, Alive(s), ~Alive(s)'
  PROVE  (SystemStops /\ ~Refused) \/ (Doing("arm", s) /\ ~permitted)
  <1> SUFFICES ASSUME ~(SystemStops /\ ~Refused), ~(Doing("arm", s) /\ ~permitted) PROVE FALSE
    OBVIOUS
  <1> USE DEF device, service, process
  <1>0. main = <<>> => s \in armed
    BY DEF Alive
  <1>1. CASE OpenActivity
    BY <1>0, <1>1 DEF OpenActivity, Handle, Alive
  <1>2. ASSUME NEW r \in Chains, ChainAlarm(r) PROVE FALSE
    BY <1>2, ReceiverKeeps DEF ChainAlarm
  <1>3. CASE HourlyAlarm \/ BootCompleted
    BY <1>3, ReceiverKeeps DEF HourlyAlarm, BootCompleted, Chains
  <1>4. CASE V8Alarm
    BY <1>0, <1>4 DEF V8Alarm, Handle, Alive
  <1>5. ASSUME NEW a \in Chains \cup {"hourly"}, DoArm(a) PROVE FALSE
    <2>1. armed \subseteq armed' /\ main' = Tail(main) /\ Doing("arm", a)
      BY <1>5 DEF DoArm
    <2>2. [do |-> "arm", of |-> a] = Arm(s) => s \in armed'
      <3>1. ASSUME [do |-> "arm", of |-> a] = Arm(s) PROVE a = s
        BY <3>1 DEF Arm
      <3> QED BY <1>5, <2>1, <3>1 DEF DoArm
    <2> QED BY <2>1, <2>2, RestKeeps DEF TimersInv
  <1>6. ASSUME NEW r \in Services, DoStart(r) PROVE FALSE
    <2>1. armed' = armed /\ main' = Tail(main) /\ Doing("start", r)
      BY <1>6 DEF DoStart
    <2>2. [do |-> "start", of |-> r] # Arm(s)
      BY DEF Arm
    <2> QED BY <2>1, <2>2, RestKeeps DEF TimersInv
  <1>7. ASSUME NEW r \in Services, StartRefused(r) PROVE FALSE
    <2>1. armed' = armed /\ ~open /\ Head(main) = Start(r) /\ main # <<>>
      BY <1>7 DEF StartRefused, Doing, Start
    <2>2. s \notin armed
      BY <2>1 DEF Alive
    <2>3. PICK i \in DOMAIN main : main[i] = Arm(s)
      BY <2>2 DEF Alive
    <2>4. i = 1 /\ main[1] = Start(r)
      BY <2>1, <2>3 DEF ArmsFirst
    <2> QED BY <2>3, <2>4 DEF Arm, Start
  <1>8. CASE Grant \/ \E r \in Services : OnStartCommand(r) \/ StickyRestart(r)
    BY <1>8 DEF Grant, OnStartCommand, StickyRestart, Alive
  <1>9. CASE StickyCrash
    BY <1>0, <1>9 DEF StickyCrash, Sticky, Alive
  <1>10. ASSUME NEW id \in running, ExecutionEnds(id) PROVE FALSE
    BY <1>10 DEF ExecutionEnds, Alive
  <1>11. CASE UNCHANGED timersVars
    BY <1>11 DEF timersVars, Alive
  <1> QED BY <1>1, <1>2, <1>3, <1>4, <1>5, <1>6, <1>7, <1>8, <1>9, <1>10, <1>11
      DEF TimersNext, Alarms, MainStep, Refused

(* Neither a refused start nor a crash of V8ExecutorService ends a chain:  *)
(* only the system does, or an alarm that is not permitted.                *)
THEOREM ChainsGoOn == TimersSpec => OnlySystemStops
  <1>1. TimersInit => ArmsFirst
    BY DEF TimersInit, ArmsFirst
  <1>2. TimersInv /\ ArmsFirst /\ [TimersNext]_timersVars => ArmsFirst'
    BY ArmsFirstStep DEF TimersInv
  <1>3. TimersInv /\ ArmsFirst /\ [TimersNext]_timersVars =>
          [\A s \in Chains : Alive(s) /\ ~Alive(s)' =>
             (SystemStops /\ ~Refused) \/ (Doing("arm", s) /\ ~permitted)]_timersVars
    BY ChainStep
  <1> QED BY TimersInductive, <1>1, <1>2, <1>3, PTL DEF TimersSpec, OnlySystemStops
================================================================================
