------------------------- MODULE TezosOperationsProofs -------------------------
(***************************************************************************)
(* Proofs about Tezos operations: for any operations, nodes and retries.   *)
(* The inductive invariant says that one party at a time works for an      *)
(* operation (a task in the pool, a coroutine, or a task of the single     *)
(* thread), that it has not been answered meanwhile, and how far it is.    *)
(***************************************************************************)
EXTENDS TezosOperations, Integers, TLAPS

USE OpsAssumption

--------------------------------------------------------------------------------
(* The queue of the single thread.                                         *)

Positions(s) == 1 .. Len(s)

(* Taking the first task away moves the others up. *)
LEMMA TailMoves ==
  ASSUME NEW S, NEW s \in Seq(S), s # <<>>
  PROVE  /\ Tail(s) \in Seq(S) /\ Head(s) \in S /\ Head(s) = s[1]
         /\ Len(s) \in Nat /\ Len(s) > 0 /\ Len(Tail(s)) = Len(s) - 1
         /\ \A i \in Positions(Tail(s)) : i + 1 \in Positions(s) /\ Tail(s)[i] = s[i + 1]
  BY DEF Positions

(* A task that is added comes last. *)
LEMMA AppendKeeps ==
  ASSUME NEW S, NEW s \in Seq(S), NEW x \in S
  PROVE  /\ Append(s, x) \in Seq(S)
         /\ \A i \in Positions(Append(s, x)) :
              \/ i \in Positions(s) /\ Append(s, x)[i] = s[i]
              \/ i = Len(s) + 1 /\ Append(s, x)[i] = x
         /\ \A i \in Positions(s) :
              i \in Positions(Append(s, x)) /\ Append(s, x)[i] = s[i]
         /\ Len(s) + 1 \in Positions(Append(s, x)) /\ Append(s, x)[Len(s) + 1] = x
  BY DEF Positions

(* Tasks of the queue are tasks. *)
LEMMA Queued ==
  ASSUME NEW S, NEW s \in Seq(S)
  PROVE  Len(s) \in Nat /\ \A i \in Positions(s) : i \in Nat /\ s[i] \in S
  BY DEF Positions

--------------------------------------------------------------------------------
(* The first task of the single thread. *)
LEMMA First ==
  ASSUME TypeOK, NEW kind, AtHead(kind)
  PROVE  /\ 1 \in Positions(single) /\ single[1] = Head(single)
         /\ Head(single) \in SingleTasks /\ Head(single).kind = kind
         /\ Tail(single) \in Seq(SingleTasks)
         /\ \A i \in Positions(Tail(single)) :
              i + 1 \in Positions(single) /\ Tail(single)[i] = single[i + 1]
<1>1. single \in Seq(SingleTasks) /\ single # <<>> /\ Head(single).kind = kind
  BY DEF TypeOK, AtHead
<1>2. /\ Tail(single) \in Seq(SingleTasks) /\ Head(single) \in SingleTasks
      /\ Head(single) = single[1] /\ Len(single) \in Nat /\ Len(single) > 0
      /\ \A i \in Positions(Tail(single)) :
           i + 1 \in Positions(single) /\ Tail(single)[i] = single[i + 1]
  <2>1. /\ Tail(single) \in Seq(SingleTasks) /\ Head(single) \in SingleTasks
        /\ Head(single) = single[1] /\ Len(single) \in Nat /\ Len(single) > 0
    BY <1>1, TailMoves, ZenonT(60)
  <2>2. \A i \in Positions(Tail(single)) :
          i + 1 \in Positions(single) /\ Tail(single)[i] = single[i + 1]
    BY <1>1 DEF Positions
  <2> QED
    BY <2>1, <2>2
<1> QED
  BY <1>1, <1>2 DEF Positions

(* One node is asked. *)
LEMMA AsksOne ==
  ASSUME NEW t, NEW nodes \in SyncedNodes, Ask(t, nodes)
  PROVE  \E n \in Nodes :
           rpcs' = rpcs \cup {[op |-> t.op, stage |-> t.stage, retry |-> t.retry, node |-> n]}
<1>1. PICK n \in Nodes : nodes = {n}
  BY DEF SyncedNodes
<1>2. {[op |-> t.op, stage |-> t.stage, retry |-> t.retry, node |-> m] : m \in {n}} =
        {[op |-> t.op, stage |-> t.stage, retry |-> t.retry, node |-> n]}
  OBVIOUS
<1> QED
  BY <1>1, <1>2 DEF Ask

--------------------------------------------------------------------------------
(* Types.                                                                  *)

(* Before the first call every variable has its type. *)
LEMMA InitTyped == Init => TypeOK
<1> SUFFICES ASSUME Init PROVE TypeOK
  OBVIOUS
<1>1. /\ started = {} /\ pool = {} /\ rpcs = {} /\ fired = {} /\ single = <<>>
      /\ mem = NoPreferences /\ disk = NoPreferences
      /\ counterOf = [o \in Ops |-> 0]
      /\ oks = [o \in Ops |-> 0] /\ errs = [o \in Ops |-> 0]
      /\ late = {} /\ taken = [o \in Ops |-> 0] /\ raced = FALSE
  BY DEF Init
<1>2. PICK k \in BOOLEAN : chain = [last |-> 0, key |-> k, head |-> 0, headKey |-> k]
  BY DEF Init
<1>3. chain \in [last : Nat, key : BOOLEAN, head : Nat, headKey : BOOLEAN]
  BY <1>2
<1>4. NoPreferences \in Preferences
  BY DEF NoPreferences, Preferences
<1>5. single \in Seq(SingleTasks)
  BY <1>1
<1> QED
  BY <1>1, <1>3, <1>4, <1>5 DEF TypeOK

(* What the parts of actions do to their variables. *)
LEMMA Counts ==
  ASSUME TypeOK, NEW o \in Ops
  PROVE  /\ Succeed(o) => /\ oks' \in [Ops -> Nat] /\ errs' \in [Ops -> Nat]
                          /\ oks'[o] = oks[o] + 1 /\ errs' = errs
                          /\ \A p \in Ops : p # o => oks'[p] = oks[p]
         /\ Fail(o) => /\ oks' \in [Ops -> Nat] /\ errs' \in [Ops -> Nat]
                       /\ errs'[o] = errs[o] + 1 /\ oks' = oks
                       /\ \A p \in Ops : p # o => errs'[p] = errs[p]
<1>1. oks \in [Ops -> Nat] /\ errs \in [Ops -> Nat]
  BY DEF TypeOK
<1>2. ASSUME Succeed(o)
      PROVE  /\ oks' \in [Ops -> Nat] /\ errs' \in [Ops -> Nat]
             /\ oks'[o] = oks[o] + 1 /\ errs' = errs
             /\ \A p \in Ops : p # o => oks'[p] = oks[p]
  BY <1>1, <1>2 DEF Succeed
<1>3. ASSUME Fail(o)
      PROVE  /\ oks' \in [Ops -> Nat] /\ errs' \in [Ops -> Nat]
             /\ errs'[o] = errs[o] + 1 /\ oks' = oks
             /\ \A p \in Ops : p # o => errs'[p] = errs[p]
  BY <1>1, <1>3 DEF Fail
<1> QED
  BY <1>2, <1>3

(* A task of an operation, at a stage, with retries left, is a task. *)
LEMMA TaskFits ==
  ASSUME NEW o \in Ops, NEW stage \in Stages, NEW retry \in 0 .. Retries
  PROVE  /\ Task(o, stage, retry) \in [op : Ops, stage : Stages, retry : 0 .. Retries]
         /\ stage # "counter" => Task(o, stage, retry) \in PoolTasks
         /\ Task(o, stage, retry).op = o /\ Task(o, stage, retry).stage = stage
         /\ Task(o, stage, retry).retry = retry
  BY DEF Task, PoolTasks

(* The stages and retries the actions name. *)
LEMMA StagesAre ==
  /\ "key" \in Stages /\ "branch" \in Stages /\ "counter" \in Stages /\ "inject" \in Stages
  /\ 0 \in 0 .. Retries /\ Retries \in 0 .. Retries
  BY DEF Stages

(* What a coroutine is for, and the Once callback its answer calls. *)
LEMMA RpcFits ==
  ASSUME TypeOK, NEW r \in rpcs
  PROVE  /\ r.op \in Ops /\ r.stage \in Stages /\ r.retry \in 0 .. Retries
         /\ OnceOf(r) \in [op : Ops, stage : Stages, retry : 0 .. Retries]
         /\ OnceOf(r).op = r.op /\ OnceOf(r).stage = r.stage
<1>1. r.op \in Ops /\ r.stage \in Stages /\ r.retry \in 0 .. Retries
  BY DEF TypeOK, Rpcs
<1> QED
  BY <1>1, TaskFits DEF OnceOf

(* What a task of the pool is for; none fetches a counter. *)
LEMMA PoolFits ==
  ASSUME TypeOK, NEW t \in pool
  PROVE  /\ t.op \in Ops /\ t.stage \in Stages /\ t.stage # "counter"
         /\ t.retry \in 0 .. Retries
  BY DEF TypeOK, PoolTasks

(* Starting leaves every variable its type. *)
LEMMA StartTyped ==
  ASSUME TypeOK, NEW o \in Ops, Start(o)
  PROVE  TypeOK'
<1>1. /\ Task(o, "key", 0) \in PoolTasks /\ Task(o, "branch", 0) \in PoolTasks
      /\ pool \subseteq PoolTasks /\ started \cup {o} \subseteq Ops
  BY TaskFits, StagesAre DEF TypeOK
<1>2. CASE StartReveal(o)
  <2>1. /\ started' = started \cup {o} /\ (Succeed(o) \/ UNCHANGED reports)
        /\ pool' \in {pool, pool \cup {Task(o, "key", 0)}}
        /\ UNCHANGED <<rpcs, fired, single, prefs, counterOf, network, raced>>
    BY <1>2 DEF StartReveal
  <2>2. oks' \in [Ops -> Nat] /\ errs' \in [Ops -> Nat]
    BY <2>1, Counts DEF TypeOK, reports
  <2> QED
    BY <1>1, <2>1, <2>2 DEF TypeOK, prefs, network
<1>3. CASE StartTransaction(o)
  BY <1>1, <1>3 DEF TypeOK, StartTransaction, reports, prefs, network
<1>4. CASE CannotStart(o)
  <2>1. oks' \in [Ops -> Nat] /\ errs' \in [Ops -> Nat]
    BY <1>4, Counts DEF CannotStart
  <2> QED
    BY <1>1, <1>4, <2>1 DEF TypeOK, CannotStart, tasks, prefs, network
<1> QED
  BY <1>2, <1>3, <1>4 DEF Start

(* Looking for a node leaves every variable its type. *)
LEMMA PoolTyped ==
  ASSUME TypeOK, NEW t \in pool, Lookup(t) \/ NoSyncedNode(t)
  PROVE  TypeOK'
<1>1. pool' \subseteq PoolTasks
  BY DEF TypeOK, Lookup, NoSyncedNode
<1>2. rpcs' \subseteq Rpcs
  <2>1. CASE Lookup(t)
    <3>1. PICK n \in Nodes :
            rpcs' = rpcs \cup {[op |-> t.op, stage |-> t.stage, retry |-> t.retry, node |-> n]}
      BY <2>1, AsksOne DEF Lookup
    <3> QED
      BY <3>1, PoolFits DEF TypeOK, Rpcs
  <2> QED
    BY <2>1 DEF TypeOK, NoSyncedNode
<1> QED
  BY <1>1, <1>2 DEF TypeOK, Lookup, NoSyncedNode, reports, prefs, network

(* An answer's task for the single thread. *)
LEMMA Appended ==
  ASSUME TypeOK, NEW o \in Ops, NEW kind \in {"fetch", "store"}, NEW v \in Nat
  PROVE  [op |-> o, kind |-> kind, value |-> v] \in SingleTasks
  BY DEF SingleTasks

(* An answer, or its failure, leaves every variable its type. *)
LEMMA AnswerTyped ==
  ASSUME TypeOK, NEW r \in rpcs,
         KeyAnswered(r) \/ BranchAnswered(r) \/ CounterAnswered(r) \/ RpcFails(r)
  PROVE  TypeOK'
<1>1. /\ r.op \in Ops /\ rpcs' \subseteq Rpcs
      /\ fired' \subseteq [op : Ops, stage : Stages, retry : 0 .. Retries]
  <2>1. r.op \in Ops /\ OnceOf(r) \in [op : Ops, stage : Stages, retry : 0 .. Retries]
    BY RpcFits
  <2> QED
    BY <2>1 DEF TypeOK, KeyAnswered, BranchAnswered, CounterAnswered, Answered, RpcFails
<1>2. CASE KeyAnswered(r)
  <2>1. /\ Succeed(r.op) \/ UNCHANGED reports
        /\ pool' \in {pool, pool \cup {Task(r.op, "branch", 0)}}
        /\ mem' = [mem EXCEPT !.revealed = chain.headKey]
        /\ UNCHANGED <<started, single, disk, counterOf, network, raced>>
    BY <1>2 DEF KeyAnswered
  <2>2. oks' \in [Ops -> Nat] /\ errs' \in [Ops -> Nat]
    BY <1>1, <2>1, Counts DEF TypeOK, reports
  <2>3. pool' \subseteq PoolTasks
    BY <1>1, <2>1, TaskFits, StagesAre DEF TypeOK
  <2>4. mem' \in Preferences
    BY <2>1 DEF TypeOK, Preferences
  <2> QED
    BY <1>1, <2>1, <2>2, <2>3, <2>4 DEF TypeOK, network
<1>3. CASE BranchAnswered(r)
  <2>1. single' \in Seq(SingleTasks)
    <3> DEFINE x == [op |-> r.op, kind |-> "fetch", value |-> 0]
    <3>1. x \in SingleTasks /\ single' = Append(single, x) /\ single \in Seq(SingleTasks)
      BY <1>1, <1>3 DEF BranchAnswered, TypeOK, SingleTasks
    <3> HIDE DEF x
    <3> QED
      BY <3>1
  <2> QED
    BY <1>1, <1>3, <2>1 DEF TypeOK, BranchAnswered, reports, prefs, network
<1>4. CASE CounterAnswered(r)
  <2>1. chain.head \in Nat
    BY DEF TypeOK
  <2>2. single' \in Seq(SingleTasks)
    <3> DEFINE x == [op |-> r.op, kind |-> "store", value |-> chain.head]
    <3>1. x \in SingleTasks /\ single' = Append(single, x) /\ single \in Seq(SingleTasks)
      BY <1>1, <1>4, <2>1 DEF CounterAnswered, TypeOK, SingleTasks
    <3> HIDE DEF x
    <3> QED
      BY <3>1
  <2>3. raced' \in BOOLEAN
    BY <1>4 DEF CounterAnswered, TypeOK
  <2> QED
    BY <1>1, <1>4, <2>2, <2>3 DEF TypeOK, CounterAnswered, reports, prefs, network
<1>5. CASE RpcFails(r)
  <2>1. oks' \in [Ops -> Nat] /\ errs' \in [Ops -> Nat]
    BY <1>1, <1>5, Counts DEF RpcFails
  <2> QED
    BY <1>1, <1>5, <2>1 DEF TypeOK, RpcFails, prefs, network
<1> QED
  BY <1>2, <1>3, <1>4, <1>5

(* The single thread leaves every variable its type. *)
LEMMA SingleTyped ==
  ASSUME TypeOK, SingleStep
  PROVE  TypeOK'
<1> DEFINE h == Head(single)
           rest == Tail(single)
<1>1. PICK kind \in {"fetch", "store"} : AtHead(kind)
  BY DEF SingleStep, FetchCached, FetchRemote, FetchLost, Store, StoreThenLost
<1>2. h \in SingleTasks /\ rest \in Seq(SingleTasks)
  BY <1>1, First
<1>3. h.op \in Ops /\ h.value \in Nat /\ mem.counter \in Nat /\ mem.counter + 1 \in Nat
  <2>1. h.op \in Ops /\ h.value \in Nat
    BY <1>2 DEF SingleTasks
  <2>2. mem.counter \in Nat
    BY DEF TypeOK, Preferences
  <2> QED
    BY <2>1, <2>2
<1>4. /\ Task(h.op, "counter", 0) \in [op : Ops, stage : Stages, retry : 0 .. Retries]
      /\ Task(h.op, "inject", Retries) \in PoolTasks
  BY <1>3, TaskFits, StagesAre
<1>5. ASSUME mem' = [mem EXCEPT !.counter = h.value, !.fresh = TRUE]
      PROVE  mem' \in Preferences
  BY <1>3, <1>5 DEF TypeOK, Preferences
<1>6. CASE FetchCached
  <2>1. /\ single' = Append(rest, [op |-> h.op, kind |-> "store", value |-> mem.counter + 1])
        /\ fired' = fired \cup {Task(h.op, "counter", 0)}
        /\ raced' = (raced \/ Fetching # {})
        /\ UNCHANGED <<started, pool, rpcs, prefs, counterOf, reports, network>>
    BY <1>6 DEF FetchCached
  <2>2. [op |-> h.op, kind |-> "store", value |-> mem.counter + 1] \in SingleTasks
    BY <1>3, Appended
  <2> HIDE DEF h, rest
  <2>3. single' \in Seq(SingleTasks)
    BY <1>2, <2>1, <2>2, AppendKeeps
  <2>4. raced' \in BOOLEAN
    BY <2>1 DEF TypeOK
  <2> QED
    BY <1>4, <2>1, <2>3, <2>4 DEF TypeOK, prefs, reports, network
<1>7. CASE FetchRemote
  <2>1. PICK n \in Nodes :
          rpcs' = rpcs \cup {[op |-> h.op, stage |-> "counter", retry |-> 0, node |-> n]}
    BY <1>7, AsksOne DEF FetchRemote, Task
  <2>2. [op |-> h.op, stage |-> "counter", retry |-> 0, node |-> n] \in Rpcs
    BY <1>3, <2>1, StagesAre DEF Rpcs
  <2>3. rpcs' \subseteq Rpcs
    BY <2>1, <2>2 DEF TypeOK
  <2>4. raced' \in BOOLEAN
    BY <1>7 DEF TypeOK, FetchRemote
  <2> QED
    BY <1>2, <1>7, <2>3, <2>4 DEF TypeOK, FetchRemote, prefs, reports, network
<1>8. CASE FetchLost
  BY <1>2, <1>8 DEF TypeOK, FetchLost, prefs, reports, network
<1>9. CASE Store
  <2>1. counterOf' \in [Ops -> Nat]
    BY <1>3, <1>9 DEF Store, TypeOK
  <2>2. mem' \in Preferences
    BY <1>5, <1>9 DEF Store
  <2>3. pool' \subseteq PoolTasks
    BY <1>4, <1>9 DEF Store, TypeOK
  <2> QED
    BY <1>2, <1>9, <2>1, <2>2, <2>3 DEF TypeOK, Store, prefs, reports, network
<1>10. CASE StoreThenLost
  <2>1. mem' \in Preferences
    BY <1>5, <1>10 DEF StoreThenLost
  <2> QED
    BY <1>2, <1>10, <2>1 DEF TypeOK, StoreThenLost, prefs, reports, network
<1> QED
  BY <1>6, <1>7, <1>8, <1>9, <1>10 DEF SingleStep

(* The chain goes one operation on. *)
LEMMA Taken ==
  ASSUME TypeOK, NEW o \in Ops, Take(o)
  PROVE  /\ chain' \in [last : Nat, key : BOOLEAN, head : Nat, headKey : BOOLEAN]
         /\ taken' \in [Ops -> Nat]
         /\ chain'.last = chain.last + 1 /\ chain'.key = TRUE
         /\ chain'.head = chain.head /\ chain'.headKey = chain.headKey
         /\ taken'[o] = taken[o] + 1 /\ \A p \in Ops : p # o => taken'[p] = taken[p]
<1> DEFINE further == [chain EXCEPT !.last = @ + 1]
<1>1. chain \in [last : Nat, key : BOOLEAN, head : Nat, headKey : BOOLEAN]
  BY DEF TypeOK
<1>2. /\ further \in [last : Nat, key : BOOLEAN, head : Nat, headKey : BOOLEAN]
      /\ further.last = chain.last + 1
      /\ further.head = chain.head /\ further.headKey = chain.headKey
  BY <1>1
<1>3. chain' = [further EXCEPT !.key = TRUE]
  BY DEF Take
<1>4. /\ taken' \in [Ops -> Nat]
      /\ taken'[o] = taken[o] + 1 /\ \A p \in Ops : p # o => taken'[p] = taken[p]
  BY DEF Take, TypeOK
<1> HIDE DEF further
<1> QED
  BY <1>2, <1>3, <1>4

(* What a retry and a report leave. *)
LEMMA RetryAgain ==
  ASSUME TypeOK, NEW r \in rpcs, Retry(r)
  PROVE  /\ UNCHANGED <<single, fired>>
         /\ \/ /\ r.retry > 0 /\ r.retry - 1 \in 0 .. Retries
               /\ pool' = pool \cup {Task(r.op, "inject", r.retry - 1)}
               /\ UNCHANGED reports
            \/ Fail(r.op) /\ UNCHANGED pool
  BY RpcFits DEF Retry

(* An injection that ends leaves every variable its type. *)
LEMMA InjectTyped ==
  ASSUME TypeOK, NEW r \in rpcs,
         InjectTaken(r) \/ InjectAgain(r) \/ InjectRefused(r) \/ InjectTimesOut(r)
  PROVE  TypeOK'
<1>1. /\ r.op \in Ops /\ rpcs' \subseteq Rpcs
      /\ OnceOf(r) \in [op : Ops, stage : Stages, retry : 0 .. Retries]
      /\ UNCHANGED <<started, prefs, counterOf, raced>>
  BY RpcFits DEF InjectTaken, InjectAgain, InjectRefused, InjectTimesOut, Injecting, TypeOK, network
<1>2. /\ taken' \in [Ops -> Nat] /\ late' \subseteq Ops
      /\ chain' \in [last : Nat, key : BOOLEAN, head : Nat, headKey : BOOLEAN]
  <2>1. CASE InjectTaken(r)
    BY <1>1, <2>1, Taken DEF InjectTaken, TypeOK
  <2>2. CASE ~InjectTaken(r)
    BY <1>1, <2>2 DEF InjectAgain, InjectRefused, InjectTimesOut, TypeOK, network
  <2> QED
    BY <2>1, <2>2
<1>3. Retry(r) \/ Report(r)
  BY DEF InjectTaken, InjectAgain, InjectRefused, InjectTimesOut
<1>4. /\ oks' \in [Ops -> Nat] /\ errs' \in [Ops -> Nat] /\ pool' \subseteq PoolTasks
      /\ fired' \subseteq [op : Ops, stage : Stages, retry : 0 .. Retries] /\ single' = single
  <2>1. CASE Retry(r)
    <3>1. CASE UNCHANGED reports /\ r.retry - 1 \in 0 .. Retries
                 /\ pool' = pool \cup {Task(r.op, "inject", r.retry - 1)}
      <4>1. Task(r.op, "inject", r.retry - 1) \in PoolTasks
        BY <1>1, <3>1, TaskFits, StagesAre
      <4> QED
        BY <2>1, <3>1, <4>1, RetryAgain DEF TypeOK, reports
    <3>2. CASE Fail(r.op) /\ UNCHANGED pool
      BY <1>1, <2>1, <3>2, Counts, RetryAgain DEF TypeOK
    <3> QED
      BY <2>1, <3>1, <3>2, RetryAgain
  <2>2. CASE Report(r)
    BY <1>1, <2>2, Counts DEF Report, TypeOK, reports
  <2> QED
    BY <1>3, <2>1, <2>2
<1> QED
  BY <1>1, <1>2, <1>4 DEF TypeOK, prefs

(* Chain, clock, file and process leave every variable its type. *)
LEMMA EnvironmentTyped ==
  ASSUME TypeOK, Environment
  PROVE  TypeOK'
<1>1. CASE \E o \in Ops : LateArrives(o)
  <2>1. PICK o \in Ops : LateArrives(o)
    BY <1>1
  <2>2. /\ taken' \in [Ops -> Nat]
        /\ chain' \in [last : Nat, key : BOOLEAN, head : Nat, headKey : BOOLEAN]
    BY <2>1, Taken DEF LateArrives, TypeOK
  <2> QED
    BY <2>1, <2>2 DEF LateArrives, TypeOK, tasks, prefs, reports
<1>2. CASE Bake
  <2>1. chain' \in [last : Nat, key : BOOLEAN, head : Nat, headKey : BOOLEAN]
    BY <1>2 DEF Bake, TypeOK
  <2> QED
    BY <1>2, <2>1 DEF Bake, TypeOK, tasks, prefs, reports
<1>3. CASE Expire
  <2>1. mem' \in Preferences /\ disk' \in Preferences
    BY <1>3 DEF Expire, TypeOK, Preferences
  <2> QED
    BY <1>3, <2>1 DEF Expire, TypeOK, tasks, network, reports
<1>4. CASE Flush
  <2>1. disk' \in Preferences
    BY <1>4 DEF Flush, TypeOK, Preferences
  <2> QED
    BY <1>4, <2>1 DEF Flush, TypeOK, tasks, network, reports
<1>5. CASE ClearCache
  BY <1>5 DEF ClearCache, TypeOK, tasks, network, reports, NoPreferences, Preferences
<1>6. CASE Crash
  <2>1. late' \subseteq Ops
    <3>1. \A r \in rpcs : r.op \in Ops
      BY RpcFits
    <3>2. late \subseteq Ops
      BY DEF TypeOK
    <3> QED
      BY <1>6, <3>1, <3>2 DEF Crash
  <2>2. single' \in Seq(SingleTasks)
    BY <1>6 DEF Crash
  <2> QED
    BY <1>6, <2>1, <2>2 DEF Crash, TypeOK, reports
<1> QED
  BY <1>1, <1>2, <1>3, <1>4, <1>5, <1>6 DEF Environment

(* Every step leaves every variable its type. *)
LEMMA NextTyped == TypeOK /\ [Next]_vars => TypeOK'
<1> SUFFICES ASSUME TypeOK, [Next]_vars PROVE TypeOK'
  OBVIOUS
<1>1. CASE UNCHANGED vars
  BY <1>1 DEF vars, TypeOK, tasks, prefs, reports, network
<1>2. CASE Next
  BY <1>2, StartTyped, PoolTyped, AnswerTyped, InjectTyped, SingleTyped, EnvironmentTyped
  DEF Next, PoolStep, RpcStep
<1> QED
  BY <1>1, <1>2

(* Every variable keeps its type: the queue holds tasks, every task and    *)
(* coroutine is at a stage of an operation, no retry is beyond the last.   *)
THEOREM TypeCorrect == Spec => []TypeOK
BY InitTyped, NextTyped, PTL DEF Spec

--------------------------------------------------------------------------------
(* The invariant.                                                          *)

Rank(stage) ==
  IF stage = "key" THEN 1 ELSE IF stage = "branch" THEN 2
  ELSE IF stage = "counter" THEN 3 ELSE 5
QueueRank(kind) == IF kind = "fetch" THEN 3 ELSE 4

(* Nobody works for o in this pool, these coroutines and this queue. *)
Free(o, P, R, s) ==
  /\ \A t \in P : t.op # o
  /\ \A r \in R : r.op # o
  /\ \A i \in Positions(s) : s[i].op # o

(* One party at a time works for an operation. *)
One(P, R, s) ==
  /\ \A t, u \in P : t.op = u.op => t = u
  /\ \A r, q \in R : r.op = q.op => r = q
  /\ \A i, k \in Positions(s) : s[i].op = s[k].op => i = k
  /\ \A t \in P, r \in R : t.op # r.op
  /\ \A t \in P, i \in Positions(s) : t.op # s[i].op
  /\ \A r \in R, i \in Positions(s) : r.op # s[i].op

(* What holds of an operation somebody works for, n stages on. *)
Working(o, n) ==
  /\ o \in started /\ oks[o] = 0 /\ errs[o] = 0
  /\ \A f \in fired : f.op = o => Rank(f.stage) < n
  /\ n < 5 => counterOf[o] = 0
  /\ n = 5 => counterOf[o] > 0

WorkInv ==
  /\ \A t \in pool : Working(t.op, Rank(t.stage))
  /\ \A r \in rpcs : Working(r.op, Rank(r.stage))
  /\ \A i \in Positions(single) : Working(single[i].op, QueueRank(single[i].kind))

(* What holds of every operation. *)
OpInv(o) ==
  /\ oks[o] + errs[o] <= 1 /\ taken[o] <= 1
  /\ taken[o] > 0 => counterOf[o] <= chain.last
  /\ counterOf[o] = 0 => taken[o] = 0 /\ o \notin late
  /\ o \notin started => counterOf[o] = 0 /\ oks[o] = 0 /\ errs[o] = 0

KeyInv ==
  /\ chain.headKey => chain.key
  /\ mem.revealed => chain.key
  /\ disk.revealed => chain.key

(* Only callbacks of operations that have begun were called. *)
FiredInv == \A f \in fired : f.op \in started

IInv ==
  /\ TypeOK /\ One(pool, rpcs, single) /\ WorkInv
  /\ (\A o \in Ops : OpInv(o)) /\ KeyInv /\ FiredInv

(* Of operations other than o nothing changes. *)
Others(o) ==
  /\ \A p \in Ops : p # o =>
       /\ p \in started' <=> p \in started
       /\ oks'[p] = oks[p] /\ errs'[p] = errs[p] /\ counterOf'[p] = counterOf[p]
  /\ \A f \in fired' : f \in fired \/ f.op = o

--------------------------------------------------------------------------------
(* Where an operation is.                                                  *)

(* A task of the pool begins. *)
LEMMA LeavesPool ==
  ASSUME NEW P, NEW R, NEW s, One(P, R, s), NEW t \in P
  PROVE  One(P \ {t}, R, s) /\ Free(t.op, P \ {t}, R, s)
  BY DEF One, Free

(* A coroutine ends. *)
LEMMA LeavesRpcs ==
  ASSUME NEW P, NEW R, NEW s, One(P, R, s), NEW r \in R
  PROVE  One(P, R \ {r}, s) /\ Free(r.op, P, R \ {r}, s)
  BY DEF One, Free

(* The single thread takes its first task. *)
LEMMA LeavesSingle ==
  ASSUME NEW P, NEW R, NEW S, NEW s \in Seq(S), s # <<>>, One(P, R, s)
  PROVE  One(P, R, Tail(s)) /\ Free(Head(s).op, P, R, Tail(s))
<1>1. /\ Head(s) = s[1] /\ 1 \in Positions(s)
      /\ \A i \in Positions(Tail(s)) :
           /\ i + 1 \in Positions(s) /\ i + 1 # 1 /\ i \in Nat
           /\ Tail(s)[i] = s[i + 1]
  BY TailMoves DEF Positions
<1> DEFINE T == Tail(s)
<1> HIDE DEF T
<1>2. \A i, k \in Positions(T) : T[i].op = T[k].op => i = k
  <2> SUFFICES ASSUME NEW i \in Positions(T), NEW k \in Positions(T), T[i].op = T[k].op
               PROVE  i = k
    OBVIOUS
  <2>1. i + 1 \in Positions(s) /\ k + 1 \in Positions(s) /\ s[i + 1].op = s[k + 1].op
    BY <1>1 DEF T
  <2>2. i + 1 = k + 1
    BY <2>1 DEF One
  <2> QED
    BY <1>1, <2>2 DEF T
<1>3. \A i \in Positions(T) : s[1].op # T[i].op
  BY <1>1 DEF One, T
<1>4. \A i \in Positions(T) : \E k \in Positions(s) : T[i].op = s[k].op
  BY <1>1 DEF T
<1>5. One(P, R, T)
  BY <1>2, <1>4 DEF One
<1>6. /\ \A t \in P : t.op # s[1].op
      /\ \A r \in R : r.op # s[1].op
  BY <1>1 DEF One
<1>7. Free(Head(s).op, P, R, T)
  BY <1>1, <1>3, <1>6 DEF Free
<1> QED
  BY <1>5, <1>7 DEF T

(* The pool takes over an operation nobody works for. *)
LEMMA JoinsPool ==
  ASSUME NEW P, NEW R, NEW s, One(P, R, s), NEW t, Free(t.op, P, R, s)
  PROVE  One(P \cup {t}, R, s)
  BY DEF One, Free

(* A coroutine takes over an operation nobody works for. *)
LEMMA JoinsRpcs ==
  ASSUME NEW P, NEW R, NEW s, One(P, R, s), NEW r, Free(r.op, P, R, s)
  PROVE  One(P, R \cup {r}, s)
  BY DEF One, Free

(* The single thread takes over an operation nobody works for. *)
LEMMA JoinsSingle ==
  ASSUME NEW P, NEW R, NEW S, NEW s \in Seq(S), NEW x \in S,
         One(P, R, s), Free(x.op, P, R, s)
  PROVE  One(P, R, Append(s, x))
<1>1. \A i \in Positions(Append(s, x)) :
        \/ i \in Positions(s) /\ Append(s, x)[i] = s[i]
        \/ i = Len(s) + 1 /\ Append(s, x)[i] = x
  BY AppendKeeps
<1> DEFINE A == Append(s, x)
<1> HIDE DEF A
<1>2. \A i \in Positions(A) :
        \/ i \in Positions(s) /\ A[i].op = s[i].op
        \/ i = Len(s) + 1 /\ A[i].op = x.op
  BY <1>1 DEF A
<1> QED
  BY <1>2 DEF One, Free, A

(* The tasks of s are tasks of z. *)
PartOf(s, z) == \A i \in Positions(s) : \E k \in Positions(z) : s[i] = z[k]

(* After the step, P, R and s hold work for operations that allow it. *)
WorkNext(P, R, s) ==
  /\ \A t \in P : Working(t.op, Rank(t.stage))'
  /\ \A r \in R : Working(r.op, Rank(r.stage))'
  /\ \A i \in Positions(s) : \A t \in {s[i]} : Working(t.op, QueueRank(t.kind))'

(* Who works for the others goes on. *)
LEMMA WorkGoesOn ==
  ASSUME TypeOK, WorkInv, NEW o \in Ops, Others(o),
         NEW P, NEW R, NEW s, P \subseteq pool, R \subseteq rpcs,
         PartOf(s, single), Free(o, P, R, s)
  PROVE  WorkNext(P, R, s)
<1>1. ASSUME NEW p \in Ops, p # o, NEW n, Working(p, n)
      PROVE  Working(p, n)'
  BY <1>1 DEF Working, Others
<1>2. \A k \in Positions(single) : single[k].op \in Ops
  <2>1. \A k \in Positions(single) : single[k] \in SingleTasks
    BY Queued DEF TypeOK
  <2> QED
    BY <2>1 DEF SingleTasks
<1>3. ASSUME NEW t \in P PROVE Working(t.op, Rank(t.stage))'
  BY <1>1, <1>3, PoolFits DEF WorkInv, Free
<1>4. ASSUME NEW r \in R PROVE Working(r.op, Rank(r.stage))'
  BY <1>1, <1>4, RpcFits DEF WorkInv, Free
<1>5. ASSUME NEW i \in Positions(s) PROVE Working(s[i].op, QueueRank(s[i].kind))'
  <2>1. PICK k \in Positions(single) : s[i] = single[k]
    BY <1>5 DEF PartOf
  <2>2. Working(s[i].op, QueueRank(s[i].kind)) /\ s[i].op \in Ops /\ s[i].op # o
    BY <1>2, <1>5, <2>1 DEF WorkInv, Free
  <2> QED
    BY <1>1, <2>2
<1> QED
  BY <1>3, <1>4, <1>5 DEF WorkNext

(* What the chain does not know of changes nothing of it. *)
LEMMA OthersKeep ==
  ASSUME NEW o \in Ops, Others(o), \A p \in Ops : OpInv(p), UNCHANGED <<chain, taken, late>>,
         OpInv(o)'
  PROVE  \A p \in Ops : OpInv(p)'
  BY DEF Others, OpInv

--------------------------------------------------------------------------------
(* Starting and looking for a node. *)

(* Nobody works for what has not begun. *)
LEMMA NotBegun ==
  ASSUME WorkInv, NEW o, o \notin started
  PROVE  Free(o, pool, rpcs, single)
  BY DEF WorkInv, Working, Free

(* An operation that starts has its first party, or its answer. *)
LEMMA StartKeeps ==
  ASSUME IInv, NEW o \in Ops, Start(o)
  PROVE  IInv'
<1>1. /\ TypeOK /\ TypeOK' /\ One(pool, rpcs, single) /\ WorkInv
      /\ (\A p \in Ops : OpInv(p)) /\ KeyInv /\ FiredInv
  BY StartTyped DEF IInv
<1>2. /\ o \notin started /\ started' = started \cup {o}
      /\ UNCHANGED <<rpcs, fired, single, prefs, counterOf, network, raced>>
  BY DEF Start, StartReveal, StartTransaction, CannotStart, tasks
<1>3. Free(o, pool, rpcs, single)
  BY <1>1, <1>2, NotBegun
<1>4. oks[o] = 0 /\ errs[o] = 0 /\ counterOf[o] = 0 /\ OpInv(o)
  BY <1>1, <1>2 DEF OpInv
<1>5. \A f \in fired : f.op # o
  BY <1>1, <1>2 DEF FiredInv
<1>6. ASSUME NEW stage \in {"key", "branch"}, pool' = pool \cup {Task(o, stage, 0)},
             UNCHANGED reports
      PROVE  /\ Others(o) /\ OpInv(o)' /\ One(pool', rpcs', single')
             /\ Working(o, Rank(stage))' /\ Task(o, stage, 0).op = o
             /\ Task(o, stage, 0).stage = stage
  <2>1. Others(o)
    BY <1>2, <1>6 DEF Others, reports
  <2>2. OpInv(o)'
    BY <1>2, <1>4, <1>6 DEF OpInv, reports, network
  <2>3. Task(o, stage, 0).op = o /\ Task(o, stage, 0).stage = stage
    BY DEF Task
  <2>4. One(pool', rpcs', single')
    BY <1>1, <1>2, <1>3, <1>6, <2>3, JoinsPool
  <2>5. Working(o, Rank(stage))'
    BY <1>2, <1>4, <1>5, <1>6 DEF Working, Rank, reports
  <2> QED
    BY <2>1, <2>2, <2>3, <2>4, <2>5
<1>7. ASSUME pool' = pool, Succeed(o) \/ Fail(o)
      PROVE  Others(o) /\ OpInv(o)' /\ One(pool', rpcs', single')
  <2>1. /\ oks' \in [Ops -> Nat] /\ errs' \in [Ops -> Nat]
        /\ oks'[o] + errs'[o] = 1
        /\ \A p \in Ops : p # o => oks'[p] = oks[p] /\ errs'[p] = errs[p]
    BY <1>1, <1>4, <1>7, Counts
  <2>2. Others(o)
    BY <1>2, <2>1 DEF Others
  <2>3. OpInv(o)'
    BY <1>2, <1>4, <2>1 DEF OpInv, network
  <2> QED
    BY <1>1, <1>2, <1>7, <2>2, <2>3
<1>8. /\ Others(o) /\ OpInv(o)' /\ One(pool', rpcs', single')
      /\ \/ pool' = pool
         \/ \E stage \in {"key", "branch"} :
              /\ pool' = pool \cup {Task(o, stage, 0)} /\ Working(o, Rank(stage))'
              /\ Task(o, stage, 0).op = o /\ Task(o, stage, 0).stage = stage
  <2>1. CASE StartReveal(o) /\ mem.revealed
    <3>1. pool' = pool /\ Succeed(o)
      BY <2>1 DEF StartReveal
    <3> QED
      BY <1>7, <3>1
  <2>2. CASE StartReveal(o) /\ ~mem.revealed
    <3>1. pool' = pool \cup {Task(o, "key", 0)} /\ UNCHANGED reports
      BY <2>2 DEF StartReveal
    <3> QED
      BY <1>6, <3>1
  <2>3. CASE StartTransaction(o)
    <3>1. pool' = pool \cup {Task(o, "branch", 0)} /\ UNCHANGED reports
      BY <2>3 DEF StartTransaction
    <3> QED
      BY <1>6, <3>1
  <2>4. CASE CannotStart(o)
    <3>1. pool' = pool /\ Fail(o)
      BY <2>4 DEF CannotStart, tasks
    <3> QED
      BY <1>7, <3>1
  <2> QED
    BY <2>1, <2>2, <2>3, <2>4 DEF Start
<1>9. WorkInv'
  <2>1. WorkNext(pool, rpcs, single)
    <3>1. pool \subseteq pool /\ rpcs \subseteq rpcs /\ PartOf(single, single)
      BY DEF PartOf
    <3> QED
      BY <1>1, <1>3, <1>8, <3>1, WorkGoesOn
  <2> QED
    BY <1>2, <1>8, <2>1 DEF WorkInv, WorkNext
<1>10. \A p \in Ops : OpInv(p)'
  BY <1>1, <1>2, <1>8, OthersKeep DEF network
<1>11. KeyInv' /\ FiredInv'
  BY <1>1, <1>2 DEF KeyInv, FiredInv, prefs, network
<1> QED
  BY <1>1, <1>8, <1>9, <1>10, <1>11 DEF IInv

(* A task of the pool hands its operation to a coroutine, or loses it. *)
LEMMA PoolKeeps ==
  ASSUME IInv, NEW t \in pool, Lookup(t) \/ NoSyncedNode(t)
  PROVE  IInv'
<1>1. /\ TypeOK /\ TypeOK' /\ One(pool, rpcs, single) /\ WorkInv
      /\ (\A p \in Ops : OpInv(p)) /\ KeyInv /\ FiredInv
  BY PoolTyped DEF IInv
<1>2. /\ t.op \in Ops /\ pool' = pool \ {t}
      /\ UNCHANGED <<started, fired, single, prefs, counterOf, reports, network, raced>>
  BY <1>1, PoolFits DEF Lookup, NoSyncedNode
<1>3. One(pool', rpcs, single) /\ Free(t.op, pool', rpcs, single)
  BY <1>1, <1>2, LeavesPool
<1>4. Others(t.op) /\ OpInv(t.op)' /\ Working(t.op, Rank(t.stage))'
  BY <1>1, <1>2 DEF Others, OpInv, WorkInv, Working, reports, network
<1>5. WorkNext(pool', rpcs, single)
  <2>1. pool' \subseteq pool /\ rpcs \subseteq rpcs /\ PartOf(single, single)
    BY <1>2 DEF PartOf
  <2> QED
    BY <1>1, <1>2, <1>3, <1>4, <2>1, WorkGoesOn
<1>6. One(pool', rpcs', single') /\ WorkInv'
  <2>1. CASE Lookup(t)
    <3>1. PICK n \in Nodes :
            rpcs' = rpcs \cup {[op |-> t.op, stage |-> t.stage, retry |-> t.retry, node |-> n]}
      BY <2>1, AsksOne DEF Lookup
    <3> DEFINE r == [op |-> t.op, stage |-> t.stage, retry |-> t.retry, node |-> n]
    <3>2. r.op = t.op /\ r.stage = t.stage /\ rpcs' = rpcs \cup {r}
      BY <3>1
    <3> HIDE DEF r
    <3>3. One(pool', rpcs', single')
      BY <1>2, <1>3, <3>2, JoinsRpcs
    <3>4. WorkInv'
      BY <1>2, <1>4, <1>5, <3>2 DEF WorkInv, WorkNext
    <3> QED
      BY <3>3, <3>4
  <2>2. CASE NoSyncedNode(t)
    BY <1>2, <1>3, <1>5, <2>2 DEF NoSyncedNode, WorkInv, WorkNext
  <2> QED
    BY <2>1, <2>2
<1>7. \A p \in Ops : OpInv(p)'
  BY <1>1, <1>2, <1>4, OthersKeep DEF network
<1>8. KeyInv' /\ FiredInv'
  BY <1>1, <1>2 DEF KeyInv, FiredInv, prefs, network
<1> QED
  BY <1>1, <1>6, <1>7, <1>8 DEF IInv

(* A coroutine ends, and the operation goes on or is answered. *)
LEMMA RpcEnds ==
  ASSUME IInv, NEW r \in rpcs, rpcs' = rpcs \ {r}, Others(r.op)
  PROVE  /\ One(pool, rpcs', single) /\ Free(r.op, pool, rpcs', single)
         /\ WorkNext(pool, rpcs', single)
<1>1. TypeOK /\ One(pool, rpcs, single) /\ WorkInv /\ r.op \in Ops
  BY RpcFits DEF IInv
<1>2. One(pool, rpcs', single) /\ Free(r.op, pool, rpcs', single)
  BY <1>1, LeavesRpcs
<1>3. pool \subseteq pool /\ rpcs' \subseteq rpcs /\ PartOf(single, single)
  BY DEF PartOf
<1> QED
  BY <1>1, <1>2, <1>3, WorkGoesOn

(* An answer hands the operation to the next stage, or ends it. *)
LEMMA AnswerKeeps ==
  ASSUME IInv, NEW r \in rpcs,
         KeyAnswered(r) \/ BranchAnswered(r) \/ CounterAnswered(r) \/ RpcFails(r)
  PROVE  IInv'
<1>1. /\ TypeOK /\ TypeOK' /\ One(pool, rpcs, single) /\ WorkInv
      /\ (\A p \in Ops : OpInv(p)) /\ KeyInv /\ FiredInv
  BY AnswerTyped DEF IInv
<1>2. /\ r.op \in Ops /\ rpcs' = rpcs \ {r} /\ Working(r.op, Rank(r.stage)) /\ OpInv(r.op)
      /\ OnceOf(r).op = r.op /\ OnceOf(r).stage = r.stage /\ r.op \in started
      /\ UNCHANGED <<started, counterOf, network, disk>>
      /\ oks \in [Ops -> Nat] /\ errs \in [Ops -> Nat]
  BY <1>1, RpcFits
  DEF KeyAnswered, BranchAnswered, CounterAnswered, RpcFails, Answered, WorkInv, Working,
      TypeOK, prefs
<1>3. r.stage # "inject" /\ counterOf[r.op] = 0
  <2>1. r.stage # "inject"
    BY DEF KeyAnswered, BranchAnswered, CounterAnswered, RpcFails, Answered
  <2>2. r.stage \in {"key", "branch", "counter"}
    BY <1>1, <2>1, RpcFits DEF Stages
  <2>3. Rank(r.stage) < 5
    BY <2>2 DEF Rank
  <2> QED
    BY <1>2, <2>1, <2>3 DEF Working
<1>4. CASE RpcFails(r)
  <2>1. /\ oks'[r.op] = 0 /\ errs'[r.op] = 1
        /\ \A p \in Ops : p # r.op => oks'[p] = oks[p] /\ errs'[p] = errs[p]
    BY <1>1, <1>2, <1>4, Counts DEF RpcFails, Working
  <2>2. Others(r.op) /\ OpInv(r.op)'
    BY <1>2, <1>4, <2>1 DEF RpcFails, Others, OpInv, network
  <2>3. pool' = pool /\ single' = single /\ fired' = fired /\ mem' = mem
    BY <1>4 DEF RpcFails, prefs
  <2>4. One(pool', rpcs', single') /\ WorkInv'
    BY <1>2, <2>2, <2>3, RpcEnds DEF WorkInv, WorkNext
  <2>5. \A p \in Ops : OpInv(p)'
    BY <1>1, <1>2, <2>2, OthersKeep DEF network
  <2>6. KeyInv' /\ FiredInv'
    BY <1>1, <1>2, <2>3 DEF KeyInv, FiredInv, network
  <2> QED
    BY <1>1, <2>4, <2>5, <2>6 DEF IInv
<1>5. CASE ~RpcFails(r)
  <2>1. fired' = fired \cup {OnceOf(r)}
    BY <1>5 DEF KeyAnswered, BranchAnswered, CounterAnswered, Answered
  <2>2. \A f \in fired' : f.op = r.op => Rank(f.stage) <= Rank(r.stage)
    <3>1. Rank(r.stage) \in Nat /\ \A f \in fired : Rank(f.stage) \in Nat
      BY DEF Rank
    <3> QED
      BY <1>2, <2>1, <3>1 DEF Working
  <2>3. FiredInv'
    BY <1>1, <1>2, <2>1 DEF FiredInv
  <2>4. ASSUME UNCHANGED reports
        PROVE  /\ Others(r.op) /\ OpInv(r.op)'
               /\ \A n \in {2, 3, 4} : Rank(r.stage) < n => Working(r.op, n)'
    <3>1. Others(r.op)
      BY <1>2, <2>1, <2>4 DEF Others, reports
    <3>2. OpInv(r.op)'
      BY <1>2, <2>4 DEF OpInv, reports, network
    <3>3. ASSUME NEW n \in {2, 3, 4}, Rank(r.stage) < n PROVE Working(r.op, n)'
      <4>1. \A f \in fired' : Rank(f.stage) \in Nat
        BY DEF Rank
      <4>2. Rank(r.stage) \in Nat
        BY DEF Rank
      <4>3. \A f \in fired' : f.op = r.op => Rank(f.stage) < n
        BY <2>2, <3>3, <4>1, <4>2
      <4> QED
        BY <1>2, <1>3, <2>4, <4>3 DEF Working, reports
    <3> QED
      BY <3>1, <3>2, <3>3
  <2>5. CASE KeyAnswered(r)
    <3>1. /\ single' = single /\ mem' = [mem EXCEPT !.revealed = chain.headKey] /\ r.stage = "key"
      BY <2>5 DEF KeyAnswered, Answered
    <3>2. KeyInv'
      <4>1. mem'.revealed = chain.headKey
        BY <1>1, <3>1 DEF TypeOK, Preferences
      <4> QED
        BY <1>1, <1>2, <4>1 DEF KeyInv, network
    <3>3. CASE Succeed(r.op) /\ UNCHANGED pool
      <4>1. /\ oks'[r.op] = 1 /\ errs'[r.op] = 0
            /\ \A p \in Ops : p # r.op => oks'[p] = oks[p] /\ errs'[p] = errs[p]
        BY <1>1, <1>2, <3>3, Counts DEF Working
      <4>2. Others(r.op) /\ OpInv(r.op)'
        BY <1>2, <2>1, <4>1 DEF Others, OpInv, network
      <4>3. One(pool', rpcs', single') /\ WorkInv'
        BY <1>2, <3>1, <3>3, <4>2, RpcEnds DEF WorkInv, WorkNext
      <4>4. \A p \in Ops : OpInv(p)'
        BY <1>1, <1>2, <4>2, OthersKeep DEF network
      <4> QED
        BY <1>1, <2>3, <3>2, <4>3, <4>4 DEF IInv
    <3>4. CASE pool' = pool \cup {Task(r.op, "branch", 0)} /\ UNCHANGED reports
      <4> DEFINE t == Task(r.op, "branch", 0)
      <4>1. t.op = r.op /\ t.stage = "branch" /\ pool' = pool \cup {t}
        BY <3>4 DEF Task
      <4> HIDE DEF t
      <4>2. Rank("branch") = 2 /\ Rank(r.stage) < 2
        BY <3>1 DEF Rank
      <4>3. Working(t.op, Rank(t.stage))'
        BY <2>4, <3>4, <4>1, <4>2
      <4>4. One(pool', rpcs', single')
        <5>1. One(pool, rpcs', single) /\ Free(t.op, pool, rpcs', single)
          BY <1>2, <2>4, <3>4, <4>1, RpcEnds
        <5> QED
          BY <3>1, <4>1, <5>1, JoinsPool
      <4>5. WorkInv'
        BY <1>2, <2>4, <3>1, <3>4, <4>1, <4>3, RpcEnds DEF WorkInv, WorkNext
      <4>6. \A p \in Ops : OpInv(p)'
        BY <1>1, <1>2, <2>4, <3>4, OthersKeep DEF network
      <4> QED
        BY <1>1, <2>3, <3>2, <4>4, <4>5, <4>6 DEF IInv
    <3> QED
      BY <2>5, <3>3, <3>4 DEF KeyAnswered
  <2>6. CASE BranchAnswered(r) \/ CounterAnswered(r)
    <3>1. PICK x \in SingleTasks :
            /\ x.op = r.op /\ single' = Append(single, x)
            /\ Rank(r.stage) < QueueRank(x.kind) /\ QueueRank(x.kind) \in {3, 4}
      <4>1. CASE BranchAnswered(r)
        <5> DEFINE x == [op |-> r.op, kind |-> "fetch", value |-> 0]
        <5>1. x \in SingleTasks
          BY <1>2, Appended DEF IInv
        <5>2. single' = Append(single, x) /\ r.stage = "branch"
          BY <4>1 DEF BranchAnswered, Answered
        <5> QED
          BY <5>1, <5>2 DEF Rank, QueueRank
      <4>2. CASE CounterAnswered(r)
        <5> DEFINE x == [op |-> r.op, kind |-> "store", value |-> chain.head]
        <5>1. x \in SingleTasks
          BY <1>1, <1>2 DEF SingleTasks, TypeOK
        <5>2. single' = Append(single, x) /\ r.stage = "counter"
          BY <4>2 DEF CounterAnswered, Answered
        <5> QED
          BY <5>1, <5>2 DEF Rank, QueueRank
      <4> QED
        BY <2>6, <4>1, <4>2
    <3>2. UNCHANGED reports /\ pool' = pool /\ mem' = mem
      BY <2>6 DEF BranchAnswered, CounterAnswered, prefs
    <3>3. Working(x.op, QueueRank(x.kind))'
      BY <2>4, <3>1, <3>2
    <3>4. single \in Seq(SingleTasks)
      BY <1>1 DEF TypeOK
    <3>5. One(pool', rpcs', single')
      BY <1>2, <2>4, <3>1, <3>2, <3>4, RpcEnds, JoinsSingle
    <3>6. WorkInv'
      <4>1. \A i \in Positions(single') :
              \/ i \in Positions(single) /\ single'[i] = single[i]
              \/ i = Len(single) + 1 /\ single'[i] = x
        <5>1. x \in SingleTasks /\ single' = Append(single, x)
          BY <3>1
        <5>2. \A i \in Positions(Append(single, x)) :
                \/ i \in Positions(single) /\ Append(single, x)[i] = single[i]
                \/ i = Len(single) + 1 /\ Append(single, x)[i] = x
          BY <3>4, <5>1, AppendKeeps
        <5> QED
          BY <5>1, <5>2
      <4>2. WorkNext(pool', rpcs', single)
        BY <1>2, <2>4, <3>2, RpcEnds
      <4> QED
        BY <3>3, <4>1, <4>2 DEF WorkInv, WorkNext
    <3>7. \A p \in Ops : OpInv(p)'
      BY <1>1, <1>2, <2>4, <3>2, OthersKeep DEF network
    <3>8. KeyInv'
      BY <1>1, <1>2, <3>2 DEF KeyInv, network
    <3> QED
      BY <1>1, <2>3, <3>5, <3>6, <3>7, <3>8 DEF IInv
  <2> QED
    BY <1>5, <2>5, <2>6
<1> QED
  BY <1>4, <1>5

--------------------------------------------------------------------------------
(* The single thread. *)

(* Its first task begins, and the operation goes on or is lost. *)
LEMMA SingleEnds ==
  ASSUME IInv, NEW kind, AtHead(kind), Others(Head(single).op)
  PROVE  /\ One(pool, rpcs, Tail(single)) /\ Free(Head(single).op, pool, rpcs, Tail(single))
         /\ WorkNext(pool, rpcs, Tail(single))
<1> DEFINE o == Head(single).op
           rest == Tail(single)
<1>1. TypeOK /\ One(pool, rpcs, single) /\ WorkInv /\ single # <<>>
  BY DEF IInv, AtHead
<1>2. /\ o \in Ops /\ Head(single) = single[1] /\ single \in Seq(SingleTasks)
      /\ \A i \in Positions(rest) :
           i + 1 \in Positions(single) /\ rest[i] = single[i + 1]
  BY <1>1, First DEF SingleTasks, TypeOK
<1>3. One(pool, rpcs, rest) /\ Free(o, pool, rpcs, rest)
  BY <1>1, <1>2, LeavesSingle
<1>4. pool \subseteq pool /\ rpcs \subseteq rpcs
  OBVIOUS
<1>5. PartOf(rest, single)
  BY <1>2 DEF PartOf
<1> HIDE DEF rest, o
<1>6. Others(o)
  BY DEF o
<1>7. WorkNext(pool, rpcs, rest)
  BY <1>1, <1>2, <1>3, <1>4, <1>5, <1>6, WorkGoesOn
<1> QED
  BY <1>3, <1>7 DEF rest, o

(* What the first task's operation is like. *)
LEMMA FirstWorks ==
  ASSUME IInv, NEW kind \in {"fetch", "store"}, AtHead(kind)
  PROVE  /\ Head(single).op \in Ops /\ Head(single).value \in Nat
         /\ Working(Head(single).op, QueueRank(kind))
         /\ Head(single).op \in started /\ counterOf[Head(single).op] = 0
         /\ OpInv(Head(single).op)
<1>1. TypeOK /\ WorkInv /\ \A p \in Ops : OpInv(p)
  BY DEF IInv
<1>2. /\ Head(single) = single[1] /\ 1 \in Positions(single)
      /\ Head(single) \in SingleTasks /\ Head(single).kind = kind
  BY <1>1, First
<1>3. Working(Head(single).op, QueueRank(kind))
  BY <1>1, <1>2 DEF WorkInv
<1>4. QueueRank(kind) < 5
  BY DEF QueueRank
<1> QED
  BY <1>1, <1>2, <1>3, <1>4 DEF Working, SingleTasks

(* The single thread hands an operation on, signs it, or loses it. *)
LEMMA SingleKeeps ==
  ASSUME IInv, SingleStep
  PROVE  IInv'
<1> DEFINE rest == Tail(single)
<1>0. PICK o : o = Head(single).op
  OBVIOUS
<1>1. /\ TypeOK /\ TypeOK' /\ One(pool, rpcs, single) /\ WorkInv
      /\ (\A p \in Ops : OpInv(p)) /\ KeyInv /\ FiredInv
  BY SingleTyped DEF IInv
<1>2. PICK kind \in {"fetch", "store"} : AtHead(kind)
  BY DEF SingleStep, FetchCached, FetchRemote, FetchLost, Store, StoreThenLost
<1>3. /\ o \in Ops /\ Working(o, QueueRank(kind)) /\ o \in started /\ counterOf[o] = 0 /\ OpInv(o)
      /\ Head(single).value \in Nat
  BY <1>0, <1>2, FirstWorks
<1>4. UNCHANGED <<started, reports, network, disk>>
  BY DEF SingleStep, FetchCached, FetchRemote, FetchLost, Store, StoreThenLost, prefs
<1>5. /\ \A f \in fired' : f \in fired \/ f.op = o
      /\ \A p \in Ops : p # o => counterOf'[p] = counterOf[p]
  <2>1. CASE FetchCached
    BY <1>0, <2>1 DEF FetchCached, Task
  <2>2. CASE ~FetchCached
    BY <1>0, <1>1, <2>2 DEF SingleStep, FetchRemote, FetchLost, Store, StoreThenLost, TypeOK
  <2> QED
    BY <2>1, <2>2
<1>6. Others(o) /\ FiredInv'
  BY <1>1, <1>3, <1>4, <1>5 DEF Others, FiredInv, reports
<1>7. One(pool, rpcs, rest) /\ Free(o, pool, rpcs, rest) /\ WorkNext(pool, rpcs, rest)
  BY <1>0, <1>2, <1>6, SingleEnds
<1>8. OpInv(o)'
  <2>1. counterOf' = counterOf \/ counterOf'[o] > 0
    <3>1. CASE Store
      <4>1. PICK v \in Nat : v = Head(single).value
        BY <1>3
      <4>2. counterOf' = [counterOf EXCEPT ![o] = v + 1]
        BY <1>0, <3>1, <4>1 DEF Store
      <4>3. counterOf \in [Ops -> Nat]
        BY <1>1 DEF TypeOK
      <4> QED
        BY <1>3, <4>2, <4>3
    <3>2. CASE ~Store
      BY <3>2 DEF SingleStep, FetchCached, FetchRemote, FetchLost, StoreThenLost
    <3> QED
      BY <3>1, <3>2
  <2>2. taken[o] = 0
    BY <1>3 DEF OpInv
  <2> QED
    BY <1>3, <1>4, <2>1, <2>2 DEF OpInv, reports, network
<1>9. \A p \in Ops : OpInv(p)'
  BY <1>1, <1>3, <1>4, <1>6, <1>8, OthersKeep DEF network
<1>10. KeyInv'
  <2>1. mem'.revealed = mem.revealed
    BY <1>1 DEF SingleStep, FetchCached, FetchRemote, FetchLost, Store, StoreThenLost, TypeOK,
                Preferences, prefs
  <2> QED
    BY <1>1, <1>4, <2>1 DEF KeyInv, network
<1>11. CASE FetchCached
  <2> DEFINE x == [op |-> o, kind |-> "store", value |-> mem.counter + 1]
  <2>1. /\ single' = Append(rest, x) /\ fired' = fired \cup {Task(o, "counter", 0)}
        /\ UNCHANGED <<started, pool, rpcs, counterOf, reports>> /\ AtHead("fetch")
    BY <1>0, <1>11 DEF FetchCached
  <2>2. x \in SingleTasks /\ x.op = o /\ x.kind = "store"
    <3>1. mem.counter + 1 \in Nat
      BY <1>1 DEF TypeOK, Preferences
    <3> QED
      BY <1>1, <1>3, <3>1, Appended
  <2>3. Working(o, 4)'
    <3>1. Working(o, 3)
      BY <1>0, <2>1, FirstWorks DEF QueueRank
    <3>2. \A f \in fired' : f.op = o => Rank(f.stage) < 4
      <4>1. ASSUME NEW f \in fired, f.op = o PROVE Rank(f.stage) < 4
        <5>1. Rank(f.stage) < 3 /\ Rank(f.stage) \in Nat
          BY <3>1, <4>1 DEF Working, Rank
        <5> QED
          BY <5>1
      <4>2. Rank(Task(o, "counter", 0).stage) < 4
        BY DEF Task, Rank
      <4> QED
        BY <2>1, <4>1, <4>2
    <3> QED
      BY <1>3, <2>1, <3>1, <3>2 DEF Working, reports
  <2>4. rest \in Seq(SingleTasks)
    BY <1>1, <1>2, First
  <2> HIDE DEF x, rest
  <2>5. One(pool', rpcs', single')
    BY <1>7, <2>1, <2>2, <2>4, JoinsSingle
  <2>6. \A i \in Positions(Append(rest, x)) :
          \/ i \in Positions(rest) /\ Append(rest, x)[i] = rest[i]
          \/ i = Len(rest) + 1 /\ Append(rest, x)[i] = x
    BY <2>2, <2>4, AppendKeeps
  <2>7. QueueRank("store") = 4
    BY DEF QueueRank
  <2>8. WorkInv'
    BY <1>7, <2>1, <2>2, <2>3, <2>6, <2>7 DEF WorkInv, WorkNext
  <2> QED
    BY <1>1, <1>6, <1>9, <1>10, <2>5, <2>8 DEF IInv
<1>12. CASE FetchRemote
  <2>1. /\ single' = rest /\ AtHead("fetch")
        /\ UNCHANGED <<started, pool, fired, counterOf, reports>>
    BY <1>12 DEF FetchRemote
  <2>2. PICK n \in Nodes :
          rpcs' = rpcs \cup {[op |-> o, stage |-> "counter", retry |-> 0, node |-> n]}
    BY <1>0, <1>12, AsksOne DEF FetchRemote, Task
  <2> DEFINE r == [op |-> o, stage |-> "counter", retry |-> 0, node |-> n]
  <2>3. r.op = o /\ r.stage = "counter" /\ rpcs' = rpcs \cup {r}
    BY <2>2
  <2>4. Working(o, 3)'
    <3>1. Working(o, 3)
      BY <1>0, <2>1, FirstWorks DEF QueueRank
    <3> QED
      BY <2>1, <3>1 DEF Working, reports
  <2> HIDE DEF r, rest
  <2>5. One(pool', rpcs', single')
    BY <1>7, <2>1, <2>3, JoinsRpcs
  <2>6. Rank("counter") = 3
    BY DEF Rank
  <2>7. WorkInv'
    BY <1>7, <2>1, <2>3, <2>4, <2>6 DEF WorkInv, WorkNext
  <2> QED
    BY <1>1, <1>6, <1>9, <1>10, <2>5, <2>7 DEF IInv
<1>13. CASE FetchLost \/ StoreThenLost
  <2>1. single' = rest /\ pool' = pool /\ rpcs' = rpcs
    BY <1>13 DEF FetchLost, StoreThenLost
  <2> HIDE DEF rest
  <2>2. One(pool', rpcs', single') /\ WorkInv'
    BY <1>7, <2>1 DEF WorkInv, WorkNext
  <2> QED
    BY <1>1, <1>6, <1>9, <1>10, <2>2 DEF IInv
<1>14. CASE Store
  <2> DEFINE t == Task(o, "inject", Retries)
  <2>1. /\ single' = rest /\ rpcs' = rpcs /\ pool' = pool \cup {t} /\ AtHead("store")
        /\ UNCHANGED <<started, fired, reports>>
        /\ counterOf' = [counterOf EXCEPT ![o] = Head(single).value + 1]
    BY <1>0, <1>14 DEF Store
  <2>2. t.op = o /\ t.stage = "inject"
    BY DEF Task
  <2>3. Working(o, 5)'
    <3>1. Working(o, 4)
      BY <1>0, <2>1, FirstWorks DEF QueueRank
    <3>2. ASSUME NEW f \in fired', f.op = o PROVE Rank(f.stage) < 5
      <4>1. Rank(f.stage) < 4 /\ Rank(f.stage) \in Nat
        BY <2>1, <3>1, <3>2 DEF Working, Rank
      <4> QED
        BY <4>1
    <3>3. counterOf'[o] > 0
      BY <1>1, <1>3, <2>1 DEF TypeOK
    <3> QED
      BY <1>3, <2>1, <3>1, <3>2, <3>3 DEF Working, reports
  <2> HIDE DEF t, rest
  <2>4. One(pool', rpcs', single')
    BY <1>7, <2>1, <2>2, JoinsPool
  <2>5. Rank("inject") = 5
    BY DEF Rank
  <2>6. WorkInv'
    BY <1>7, <2>1, <2>2, <2>3, <2>5 DEF WorkInv, WorkNext
  <2> QED
    BY <1>1, <1>6, <1>9, <1>10, <2>4, <2>6 DEF IInv
<1> QED
  BY <1>11, <1>12, <1>13, <1>14 DEF SingleStep

--------------------------------------------------------------------------------
(* Injecting, and the chain. *)

(* The chain takes an operation once: its counter is behind it then. *)
LEMMA TakenOnce ==
  ASSUME TypeOK, NEW o \in Ops, Takes(o), Take(o), OpInv(o)
  PROVE  /\ taken[o] = 0 /\ taken'[o] = 1 /\ counterOf[o] > 0 /\ counterOf[o] <= chain'.last
         /\ chain'.last > chain.last /\ chain'.key = TRUE /\ chain'.headKey = chain.headKey
         /\ \A p \in Ops : p # o => taken'[p] = taken[p]
<1>1. /\ counterOf[o] \in Nat /\ chain.last \in Nat /\ taken[o] \in Nat
  BY DEF TypeOK
<1>2. /\ chain'.last = chain.last + 1 /\ chain'.key = TRUE /\ chain'.headKey = chain.headKey
      /\ taken'[o] = taken[o] + 1 /\ \A p \in Ops : p # o => taken'[p] = taken[p]
  BY Taken
<1>3. counterOf[o] = chain.last + 1
  BY DEF Takes
<1>4. taken[o] = 0
  BY <1>1, <1>3 DEF OpInv
<1> QED
  BY <1>1, <1>2, <1>3, <1>4

(* The chain goes on: the others are as far as they were. *)
LEMMA ChainKeeps ==
  ASSUME TypeOK, NEW o \in Ops, Others(o), \A p \in Ops : OpInv(p), OpInv(o)',
         chain'.last \in Nat, chain'.last >= chain.last, late' \subseteq late \cup {o},
         \A p \in Ops : p # o => taken'[p] = taken[p]
  PROVE  \A p \in Ops : OpInv(p)'
<1> SUFFICES ASSUME NEW p \in Ops, p # o PROVE OpInv(p)'
  OBVIOUS
<1>1. /\ p \in started' <=> p \in started
      /\ oks'[p] = oks[p] /\ errs'[p] = errs[p] /\ counterOf'[p] = counterOf[p]
      /\ taken'[p] = taken[p] /\ (p \in late' => p \in late)
  BY DEF Others
<1>2. counterOf[p] \in Nat /\ chain.last \in Nat /\ taken[p] \in Nat
  BY DEF TypeOK
<1>3. taken[p] > 0 => counterOf[p] <= chain'.last
  BY <1>2 DEF OpInv
<1> QED
  BY <1>1, <1>3 DEF OpInv

(* The Once callback of an injection under way was not called yet. *)
LEMMA NotReported ==
  ASSUME IInv, NEW r \in rpcs,
         InjectTaken(r) \/ InjectAgain(r) \/ InjectRefused(r) \/ InjectTimesOut(r)
  PROVE  OnceOf(r) \notin fired
<1>1. TypeOK /\ WorkInv /\ r.stage = "inject"
  BY DEF IInv, InjectTaken, InjectAgain, InjectRefused, InjectTimesOut, Injecting
<1>2. OnceOf(r).op = r.op /\ OnceOf(r).stage = "inject" /\ Rank("inject") = 5
  BY <1>1, RpcFits DEF Rank
<1>3. \A f \in fired : f.op = r.op => Rank(f.stage) < 5
  BY <1>1, <1>2 DEF WorkInv, Working
<1> QED
  BY <1>2, <1>3

(* A request to inject ends: taken, answered again, refused or too late. *)
LEMMA InjectKeeps ==
  ASSUME IInv, NEW r \in rpcs,
         InjectTaken(r) \/ InjectAgain(r) \/ InjectRefused(r) \/ InjectTimesOut(r)
  PROVE  IInv'
<1>0. PICK o : o = r.op
  OBVIOUS
<1>1. /\ TypeOK /\ TypeOK' /\ One(pool, rpcs, single) /\ WorkInv
      /\ (\A p \in Ops : OpInv(p)) /\ KeyInv /\ FiredInv
  BY InjectTyped DEF IInv
<1>2. /\ r.stage = "inject" /\ rpcs' = rpcs \ {r}
      /\ UNCHANGED <<started, prefs, counterOf, raced>>
  BY DEF InjectTaken, InjectAgain, InjectRefused, InjectTimesOut, Injecting
<1>3. /\ o \in Ops /\ Working(o, 5) /\ OpInv(o) /\ OnceOf(r).op = o
      /\ o \in started /\ oks[o] = 0 /\ errs[o] = 0 /\ counterOf[o] > 0
  <2>1. o \in Ops /\ OnceOf(r).op = o
    BY <1>0, <1>1, RpcFits
  <2>2. Working(o, 5)
    BY <1>0, <1>1, <1>2 DEF WorkInv, Rank
  <2> QED
    BY <1>1, <2>1, <2>2 DEF Working
<1>4. /\ single' = single
      /\ \A f \in fired' : f \in fired \/ f.op = o
      /\ \/ /\ pool' = pool
            /\ Succeed(o) \/ Fail(o)
         \/ /\ UNCHANGED <<fired, reports>>
            /\ \E n \in 0 .. Retries : pool' = pool \cup {Task(o, "inject", n)}
  <2>1. CASE Report(r)
    <3>1. OnceOf(r) \notin fired
      BY NotReported
    <3> QED
      BY <1>0, <1>3, <2>1, <3>1 DEF Report
  <2>2. CASE Retry(r)
    BY <1>0, <1>1, <2>2, RetryAgain
  <2> QED
    BY <2>1, <2>2 DEF InjectTaken, InjectAgain, InjectRefused, InjectTimesOut
<1>5. /\ oks[o] \in Nat /\ errs[o] \in Nat
      /\ oks'[o] \in Nat /\ errs'[o] \in Nat /\ oks'[o] + errs'[o] <= 1
      /\ \A p \in Ops : p # o => oks'[p] = oks[p] /\ errs'[p] = errs[p]
  <2>1. CASE Succeed(o)
    BY <1>1, <1>3, <2>1, Counts
  <2>2. CASE Fail(o)
    BY <1>1, <1>3, <2>2, Counts
  <2>3. CASE UNCHANGED reports
    BY <1>3, <2>3 DEF reports
  <2> QED
    BY <1>4, <2>1, <2>2, <2>3
<1>6. Others(o) /\ FiredInv'
  BY <1>1, <1>2, <1>3, <1>4, <1>5 DEF Others, FiredInv
<1>7. /\ taken'[o] <= 1 /\ (taken'[o] > 0 => counterOf[o] <= chain'.last)
      /\ chain'.last \in Nat /\ chain'.last >= chain.last /\ late' \subseteq late \cup {o}
      /\ \A p \in Ops : p # o => taken'[p] = taken[p]
      /\ KeyInv'
  <2>1. CASE InjectTaken(r)
    <3>1. /\ taken'[o] = 1 /\ counterOf[o] <= chain'.last /\ chain'.last > chain.last
          /\ chain'.key = TRUE /\ \A p \in Ops : p # o => taken'[p] = taken[p]
      BY <1>0, <1>1, <1>3, <2>1, TakenOnce DEF InjectTaken
    <3>2. chain.last \in Nat /\ chain'.last \in Nat
      BY <1>1 DEF TypeOK
    <3>3. KeyInv'
      BY <1>1, <3>1 DEF KeyInv
    <3> QED
      BY <2>1, <3>1, <3>2, <3>3 DEF InjectTaken
  <2>2. CASE ~InjectTaken(r)
    <3>1. chain' = chain /\ taken' = taken /\ late' \subseteq late \cup {o}
      BY <1>0, <2>2 DEF InjectAgain, InjectRefused, InjectTimesOut, network
    <3>2. chain.last \in Nat
      BY <1>1 DEF TypeOK
    <3>3. KeyInv'
      BY <1>1, <1>2, <3>1 DEF KeyInv, prefs
    <3> QED
      BY <1>3, <3>1, <3>2, <3>3 DEF OpInv
  <2> QED
    BY <2>1, <2>2
<1>8. OpInv(o)'
  BY <1>2, <1>3, <1>5, <1>7 DEF OpInv
<1>9. \A p \in Ops : OpInv(p)'
  BY <1>1, <1>3, <1>6, <1>7, <1>8, ChainKeeps
<1>10. /\ One(pool, rpcs', single) /\ Free(o, pool, rpcs', single)
       /\ WorkNext(pool, rpcs', single)
  BY <1>0, <1>2, <1>6, RpcEnds
<1>11. One(pool', rpcs', single') /\ WorkInv'
  <2>1. CASE pool' = pool
    BY <1>4, <1>10, <2>1 DEF WorkInv, WorkNext
  <2>2. CASE UNCHANGED <<fired, reports>>
               /\ \E n \in 0 .. Retries : pool' = pool \cup {Task(o, "inject", n)}
    <3>1. PICK t : t.op = o /\ t.stage = "inject" /\ pool' = pool \cup {t}
      BY <2>2 DEF Task
    <3>2. Working(o, 5)'
      BY <1>2, <1>3, <2>2 DEF Working, reports
    <3>3. One(pool', rpcs', single')
      BY <1>4, <1>10, <3>1, JoinsPool
    <3>4. Rank("inject") = 5
      BY DEF Rank
    <3>5. WorkInv'
      BY <1>4, <1>10, <3>1, <3>2, <3>4 DEF WorkInv, WorkNext
    <3> QED
      BY <3>3, <3>5
  <2> QED
    BY <1>4, <2>1, <2>2
<1> QED
  BY <1>1, <1>6, <1>7, <1>9, <1>11 DEF IInv

(* Late requests, new blocks, time, the preferences and the process's end. *)
LEMMA EnvironmentKeeps ==
  ASSUME IInv, Environment
  PROVE  IInv'
<1>1. /\ TypeOK /\ TypeOK' /\ One(pool, rpcs, single) /\ WorkInv
      /\ (\A p \in Ops : OpInv(p)) /\ KeyInv /\ FiredInv
  BY EnvironmentTyped DEF IInv
<1>2. ASSUME UNCHANGED <<started, tasks, counterOf, reports>>
      PROVE  One(pool, rpcs, single)' /\ WorkInv' /\ FiredInv' /\ \A o \in Ops : Others(o)
  BY <1>1, <1>2 DEF WorkInv, Working, FiredInv, Others, tasks, reports, One
<1>3. CASE \E o \in Ops : LateArrives(o)
  <2>1. PICK o \in Ops : LateArrives(o)
    BY <1>3
  <2>2. /\ UNCHANGED <<started, tasks, counterOf, reports, prefs>>
        /\ late' \subseteq late /\ OpInv(o) /\ o \in late
    BY <1>1, <2>1 DEF LateArrives
  <2>3. /\ OpInv(o)' /\ chain'.last \in Nat /\ chain'.last >= chain.last
        /\ (\A p \in Ops : p # o => taken'[p] = taken[p]) /\ KeyInv'
    <3>1. CASE Takes(o) /\ Take(o)
      <4>1. /\ taken'[o] = 1 /\ counterOf[o] <= chain'.last /\ chain'.last > chain.last
            /\ counterOf[o] > 0
            /\ chain'.key = TRUE /\ \A p \in Ops : p # o => taken'[p] = taken[p]
        BY <1>1, <2>2, <3>1, TakenOnce
      <4>2. chain.last \in Nat /\ chain'.last \in Nat /\ counterOf[o] \in Nat
        BY <1>1 DEF TypeOK
      <4>3. KeyInv'
        BY <1>1, <4>1 DEF KeyInv
      <4>4. OpInv(o)'
        BY <2>2, <4>1, <4>2 DEF OpInv, reports
      <4> QED
        BY <4>1, <4>2, <4>3, <4>4
    <3>2. CASE UNCHANGED <<chain, taken>>
      <4>1. chain.last \in Nat
        BY <1>1 DEF TypeOK
      <4> QED
        BY <1>1, <2>2, <3>2, <4>1 DEF OpInv, KeyInv, prefs, reports
    <3> QED
      BY <2>1, <3>1, <3>2 DEF LateArrives
  <2>4. One(pool, rpcs, single)' /\ WorkInv' /\ FiredInv' /\ Others(o)
    BY <1>2, <2>2
  <2>5. \A p \in Ops : OpInv(p)'
    BY <1>1, <2>2, <2>3, <2>4, ChainKeeps
  <2> QED
    BY <1>1, <2>3, <2>4, <2>5 DEF IInv
<1>4. CASE Bake
  <2>1. UNCHANGED <<started, tasks, counterOf, reports, prefs, late, taken>>
    BY <1>4 DEF Bake
  <2>2. chain'.last = chain.last /\ chain'.key = chain.key /\ chain'.headKey = chain.key
    BY <1>1, <1>4 DEF Bake, TypeOK
  <2>3. KeyInv' /\ \A p \in Ops : OpInv(p)'
    BY <1>1, <2>1, <2>2 DEF KeyInv, OpInv, prefs, reports
  <2> QED
    BY <1>1, <1>2, <2>1, <2>3 DEF IInv
<1>5. CASE Expire \/ Flush \/ ClearCache
  <2>1. UNCHANGED <<started, tasks, counterOf, reports, network>>
    BY <1>5 DEF Expire, Flush, ClearCache
  <2>2. KeyInv'
    <3>1. /\ mem'.revealed \in {mem.revealed, FALSE}
          /\ disk'.revealed \in {mem.revealed, disk.revealed}
      <4>1. mem \in Preferences /\ disk \in Preferences
        BY <1>1 DEF TypeOK
      <4>2. CASE Expire
        BY <4>1, <4>2 DEF Expire, Preferences
      <4>3. CASE Flush
        BY <4>1, <4>3 DEF Flush, Preferences
      <4>4. CASE ClearCache
        BY <4>1, <4>4 DEF ClearCache, NoPreferences
      <4> QED
        BY <1>5, <4>2, <4>3, <4>4
    <3> QED
      BY <1>1, <2>1, <3>1 DEF KeyInv, network
  <2>3. \A p \in Ops : OpInv(p)'
    BY <1>1, <2>1 DEF OpInv, reports, network
  <2> QED
    BY <1>1, <1>2, <2>1, <2>2, <2>3 DEF IInv
<1>6. CASE Crash
  <2>1. /\ pool' = {} /\ rpcs' = {} /\ fired' = {} /\ single' = <<>> /\ mem' = disk
        /\ UNCHANGED <<started, disk, counterOf, reports, chain, taken>>
    BY <1>6 DEF Crash
  <2>2. One(pool', rpcs', single') /\ WorkInv' /\ FiredInv'
    <3>1. Positions(single') = {}
      BY <2>1 DEF Positions
    <3> QED
      BY <2>1, <3>1 DEF One, WorkInv, FiredInv
  <2>3. KeyInv'
    BY <1>1, <2>1 DEF KeyInv
  <2>4. ASSUME NEW p \in Ops PROVE OpInv(p)'
    <3>1. p \in late' => p \in late \/ counterOf[p] > 0
      <4>1. ASSUME NEW r \in rpcs, r.stage = "inject" PROVE counterOf[r.op] > 0
        BY <1>1, <4>1 DEF WorkInv, Working, Rank
      <4> QED
        BY <1>6, <4>1 DEF Crash
    <3>2. OpInv(p) /\ counterOf[p] \in Nat
      BY <1>1 DEF TypeOK
    <3> QED
      BY <2>1, <3>1, <3>2 DEF OpInv, reports
  <2> QED
    BY <1>1, <2>2, <2>3, <2>4 DEF IInv
<1> QED
  BY <1>3, <1>4, <1>5, <1>6 DEF Environment
(* Nobody works before the first call. *)
LEMMA InitIInv == Init => IInv
<1> SUFFICES ASSUME Init PROVE IInv
  OBVIOUS
<1>1. /\ started = {} /\ pool = {} /\ rpcs = {} /\ fired = {} /\ single = <<>> /\ late = {}
      /\ mem.revealed = FALSE /\ disk.revealed = FALSE
      /\ \A o \in Ops : counterOf[o] = 0 /\ oks[o] = 0 /\ errs[o] = 0 /\ taken[o] = 0
  BY DEF Init, NoPreferences
<1>2. PICK k \in BOOLEAN : chain = [last |-> 0, key |-> k, head |-> 0, headKey |-> k]
  BY DEF Init
<1>3. Positions(single) = {}
  BY <1>1 DEF Positions
<1>4. One(pool, rpcs, single) /\ WorkInv /\ FiredInv
  BY <1>1, <1>3 DEF One, WorkInv, FiredInv
<1>5. KeyInv /\ \A o \in Ops : OpInv(o)
  BY <1>1, <1>2 DEF KeyInv, OpInv
<1> QED
  BY <1>4, <1>5, InitTyped DEF IInv

(* Every step keeps the invariant. *)
LEMMA NextIInv == IInv /\ [Next]_vars => IInv'
<1> SUFFICES ASSUME IInv, [Next]_vars PROVE IInv'
  OBVIOUS
<1>1. CASE UNCHANGED vars
  BY <1>1
  DEF vars, tasks, prefs, reports, network, IInv, TypeOK, One, WorkInv, Working, OpInv, KeyInv,
      FiredInv
<1>2. CASE Next
  BY <1>2, StartKeeps, PoolKeeps, AnswerKeeps, InjectKeeps, SingleKeeps, EnvironmentKeeps
  DEF Next, PoolStep, RpcStep
<1> QED
  BY <1>1, <1>2

(* One party works for an operation at a time, from its start to its       *)
(* answer; it is answered once at most, and taken once at most.            *)
THEOREM Inductive == Spec => []IInv
BY InitIInv, NextIInv, PTL DEF Spec

--------------------------------------------------------------------------------
(* Who is left without an answer.                                          *)

(* Whoever works for other operations than o goes on. *)
Kept(o) ==
  /\ \A t \in pool \cup rpcs : t.op # o => t \in pool' \cup rpcs'
  /\ \A i \in Positions(single) : single[i].op # o =>
       \E k \in Positions(single') : single'[k].op = single[i].op

(* A step for o that goes on with it, or answers it, loses none. *)
LEMMA NoneLost ==
  ASSUME NEW o \in Ops, Kept(o), Others(o), Active(o)' \/ oks'[o] + errs'[o] # 0,
         NEW p \in Ops, Lost(p)'
  PROVE  Lost(p)
<1>1. p # o
  BY DEF Lost
<1>2. p \in started /\ oks[p] + errs[p] = 0
  BY <1>1 DEF Lost, Others
<1>3. ~Active(p)
  <2>1. ASSUME NEW t \in pool \cup rpcs, t.op = p PROVE FALSE
    BY <1>1, <2>1 DEF Kept, Lost, Active
  <2>2. ASSUME NEW i \in Positions(single), single[i].op = p PROVE FALSE
    <3>1. PICK k \in Positions(single') : single'[k].op = p
      BY <1>1, <2>2 DEF Kept
    <3> QED
      BY <3>1 DEF Lost, Active, Positions
  <2> QED
    BY <2>1, <2>2 DEF Active, Positions
<1> QED
  BY <1>2, <1>3 DEF Lost

(* Reports answer. *)
LEMMA Answers ==
  ASSUME IInv, NEW o \in Ops, Succeed(o) \/ Fail(o)
  PROVE  oks'[o] + errs'[o] # 0
<1>1. TypeOK /\ oks[o] \in Nat /\ errs[o] \in Nat
  BY DEF IInv, TypeOK
<1>2. CASE Succeed(o)
  BY <1>1, <1>2, Counts
<1>3. CASE Fail(o)
  BY <1>1, <1>3, Counts
<1> QED
  BY <1>2, <1>3

(* Of other operations, a step for o changes no report. *)
LEMMA OthersReported ==
  ASSUME IInv, NEW o \in Ops, Succeed(o) \/ Fail(o) \/ UNCHANGED reports
  PROVE  \A p \in Ops : p # o => oks'[p] = oks[p] /\ errs'[p] = errs[p]
<1>1. TypeOK
  BY DEF IInv
<1>2. CASE Succeed(o)
  BY <1>1, <1>2, Counts
<1>3. CASE Fail(o)
  BY <1>1, <1>3, Counts
<1>4. CASE UNCHANGED reports
  BY <1>4 DEF reports
<1> QED
  BY <1>2, <1>3, <1>4

(* Starting loses no operation. *)
LEMMA StartLosesNone ==
  ASSUME IInv, NEW o \in Ops, Start(o), NEW p \in Ops, Lost(p)'
  PROVE  Lost(p)
<1>1. /\ started' = started \cup {o}
      /\ UNCHANGED <<rpcs, fired, single, counterOf>>
      /\ pool \subseteq pool'
  BY DEF Start, StartReveal, StartTransaction, CannotStart, tasks
<1>2. \/ (Succeed(o) \/ Fail(o))
      \/ UNCHANGED reports /\ \E t \in pool' : t.op = o
  <2>1. \A stage : Task(o, stage, 0).op = o
    BY DEF Task
  <2> QED
    BY <2>1 DEF Start, StartReveal, StartTransaction, CannotStart
<1>3. Kept(o)
  BY <1>1 DEF Kept
<1>4. Others(o)
  <2>1. \A q \in Ops : q # o => oks'[q] = oks[q] /\ errs'[q] = errs[q]
    BY <1>2, OthersReported
  <2> QED
    BY <1>1, <2>1 DEF Others
<1>5. Active(o)' \/ oks'[o] + errs'[o] # 0
  BY <1>2, Answers DEF Active
<1> QED
  BY <1>3, <1>4, <1>5, NoneLost

(* A node that is found is asked. *)
LEMMA LookupLosesNone ==
  ASSUME IInv, NEW t \in pool, Lookup(t), NEW p \in Ops, Lost(p)'
  PROVE  Lost(p)
<1>0. PICK o : o = t.op
  OBVIOUS
<1>1. /\ pool' = pool \ {t} /\ o \in Ops
      /\ UNCHANGED <<started, fired, single, counterOf, reports>>
  BY <1>0, PoolFits DEF Lookup, IInv
<1>2. PICK n \in Nodes :
        rpcs' = rpcs \cup {[op |-> o, stage |-> t.stage, retry |-> t.retry, node |-> n]}
  BY <1>0, AsksOne DEF Lookup
<1>3. Kept(o) /\ Others(o)
  BY <1>0, <1>1, <1>2 DEF Kept, Others, reports
<1> DEFINE r == [op |-> o, stage |-> t.stage, retry |-> t.retry, node |-> n]
<1>4. r \in rpcs' /\ r.op = o
  BY <1>2
<1> HIDE DEF r
<1>5. Active(o)'
  BY <1>4 DEF Active
<1> QED
  BY <1>1, <1>3, <1>5, NoneLost
(* A coroutine that ends has answered, or handed the operation on. *)
LEMMA RpcLosesNone ==
  ASSUME IInv, NEW r \in rpcs, RpcStep,
         \/ KeyAnswered(r) \/ BranchAnswered(r) \/ CounterAnswered(r) \/ RpcFails(r)
         \/ InjectTaken(r) \/ InjectAgain(r) \/ InjectRefused(r) \/ InjectTimesOut(r),
         NEW p \in Ops, Lost(p)'
  PROVE  Lost(p)
<1>0. PICK o : o = r.op
  OBVIOUS
<1>1. TypeOK /\ o \in Ops /\ single \in Seq(SingleTasks)
  BY <1>0, RpcFits DEF IInv, TypeOK
<1>2. /\ rpcs' = rpcs \ {r} /\ UNCHANGED <<started, counterOf>>
      /\ \A f \in fired' : f \in fired \/ f.op = o
  <2>1. OnceOf(r).op = o
    BY <1>0, <1>1, RpcFits
  <2> QED
    BY <2>1
    DEF KeyAnswered, BranchAnswered, CounterAnswered, RpcFails, Answered, InjectTaken,
        InjectAgain, InjectRefused, InjectTimesOut, Injecting, Report, Retry
<1>3. \/ /\ Succeed(o) \/ Fail(o)
         /\ UNCHANGED <<pool, single>>
      \/ /\ UNCHANGED <<reports, single>> /\ pool \subseteq pool'
         /\ \E t \in pool' : t.op = o
      \/ /\ UNCHANGED <<reports, pool>>
         /\ \E x \in SingleTasks : x.op = o /\ single' = Append(single, x)
  <2>1. CASE KeyAnswered(r)
    <3>1. Task(o, "branch", 0).op = o
      BY DEF Task
    <3> QED
      BY <1>0, <2>1, <3>1 DEF KeyAnswered
  <2>2. CASE BranchAnswered(r)
    <3> DEFINE x == [op |-> o, kind |-> "fetch", value |-> 0]
    <3>1. x \in SingleTasks /\ x.op = o /\ single' = Append(single, x)
      BY <1>0, <1>1, <2>2, Appended DEF BranchAnswered
    <3> HIDE DEF x
    <3> QED
      BY <2>2, <3>1 DEF BranchAnswered
  <2>3. CASE CounterAnswered(r)
    <3> DEFINE x == [op |-> o, kind |-> "store", value |-> chain.head]
    <3>1. x \in SingleTasks /\ x.op = o /\ single' = Append(single, x)
      BY <1>0, <1>1, <2>3 DEF CounterAnswered, SingleTasks, TypeOK
    <3> HIDE DEF x
    <3> QED
      BY <2>3, <3>1 DEF CounterAnswered
  <2>4. CASE RpcFails(r)
    BY <1>0, <2>4 DEF RpcFails
  <2>5. CASE InjectTaken(r) \/ InjectAgain(r) \/ InjectRefused(r) \/ InjectTimesOut(r)
    <3>1. CASE Report(r)
      <4>1. OnceOf(r) \notin fired
        BY <1>1, <2>5, NotReported
      <4> QED
        BY <1>0, <3>1, <4>1 DEF Report
    <3>2. CASE Retry(r)
      <4>1. Task(o, "inject", r.retry - 1).op = o
        BY DEF Task
      <4> QED
        BY <1>0, <3>2, <4>1 DEF Retry
    <3> QED
      BY <2>5, <3>1, <3>2 DEF InjectTaken, InjectAgain, InjectRefused, InjectTimesOut
  <2> QED
    BY <2>1, <2>2, <2>3, <2>4, <2>5
<1>4. Kept(o)
  <2>1. \A i \in Positions(single) :
          \E k \in Positions(single') : single'[k].op = single[i].op
    <3>1. CASE single' = single
      BY <3>1
    <3>2. CASE \E x \in SingleTasks : x.op = o /\ single' = Append(single, x)
      <4>1. PICK x \in SingleTasks : single' = Append(single, x)
        BY <3>2
      <4>2. \A i \in Positions(single) :
              i \in Positions(Append(single, x)) /\ Append(single, x)[i] = single[i]
        BY <1>1, AppendKeeps
      <4> QED
        BY <4>1, <4>2
    <3> QED
      BY <1>3, <3>1, <3>2
  <2>2. pool \subseteq pool'
    BY <1>3
  <2> QED
    BY <1>0, <1>2, <2>1, <2>2 DEF Kept
<1>5. Others(o)
  <2>1. \A q \in Ops : q # o => oks'[q] = oks[q] /\ errs'[q] = errs[q]
    BY <1>1, <1>3, OthersReported
  <2> QED
    BY <1>2, <2>1 DEF Others
<1>6. Active(o)' \/ oks'[o] + errs'[o] # 0
  <2>1. CASE Succeed(o) \/ Fail(o)
    BY <1>1, <2>1, Answers
  <2>2. CASE \E t \in pool' : t.op = o
    BY <2>2 DEF Active
  <2>3. CASE \E x \in SingleTasks : x.op = o /\ single' = Append(single, x)
    <3>1. \E k \in Positions(single') : single'[k].op = o
      BY <1>1, <2>3, AppendKeeps
    <3> QED
      BY <3>1 DEF Active, Positions
  <2> QED
    BY <1>3, <2>1, <2>2, <2>3
<1> QED
  BY <1>1, <1>4, <1>5, <1>6, NoneLost

(* The single thread loses an operation only where it asks no node or signs none. *)
LEMMA SingleLosesNone ==
  ASSUME IInv, FetchCached \/ FetchRemote \/ Store, NEW p \in Ops, Lost(p)'
  PROVE  Lost(p)
<1>0. PICK o : o = Head(single).op
  OBVIOUS
<1>1. PICK kind \in {"fetch", "store"} : AtHead(kind)
  BY DEF FetchCached, FetchRemote, Store
<1>2. /\ TypeOK /\ o \in Ops /\ Tail(single) \in Seq(SingleTasks) /\ single[1] = Head(single)
      /\ single \in Seq(SingleTasks) /\ single # <<>>
  BY <1>0, <1>1, First, FirstWorks DEF IInv, TypeOK, AtHead
<1>3. \A i \in Positions(single) : single[i].op # o =>
        \E k \in Positions(Tail(single)) : Tail(single)[k] = single[i]
  <2>1. /\ Len(single) \in Nat /\ Len(Tail(single)) = Len(single) - 1
        /\ \A k \in Positions(Tail(single)) : Tail(single)[k] = single[k + 1]
    BY <1>2, TailMoves
  <2> SUFFICES ASSUME NEW i \in Positions(single), single[i].op # o
               PROVE  \E k \in Positions(Tail(single)) : Tail(single)[k] = single[i]
    OBVIOUS
  <2>2. i \in Int /\ i # 1 /\ i >= 1 /\ i <= Len(single)
    BY <1>0, <1>2, <2>1 DEF Positions
  <2>3. i - 1 \in Positions(Tail(single)) /\ (i - 1) + 1 = i
    BY <2>1, <2>2 DEF Positions
  <2> QED
    BY <2>1, <2>3
<1>4. CASE FetchCached
  <2> DEFINE x == [op |-> o, kind |-> "store", value |-> mem.counter + 1]
             rest == Tail(single)
  <2>1. /\ single' = Append(rest, x) /\ fired' = fired \cup {Task(o, "counter", 0)}
        /\ UNCHANGED <<started, pool, rpcs, counterOf, reports>>
    BY <1>0, <1>4 DEF FetchCached
  <2>2. x \in SingleTasks /\ x.op = o
    <3>1. mem.counter + 1 \in Nat
      BY <1>2 DEF TypeOK, Preferences
    <3> QED
      BY <1>2, <3>1, Appended
  <2> HIDE DEF x, rest
  <2>3. /\ \A k \in Positions(rest) : k \in Positions(single') /\ single'[k] = rest[k]
        /\ \E k \in Positions(single') : single'[k].op = o
    <3>1. rest \in Seq(SingleTasks) /\ x \in SingleTasks
      BY <1>2, <2>2 DEF rest
    <3>2. /\ \A k \in Positions(rest) : k \in Positions(Append(rest, x)) /\ Append(rest, x)[k] = rest[k]
          /\ Len(rest) + 1 \in Positions(Append(rest, x)) /\ Append(rest, x)[Len(rest) + 1] = x
      BY <3>1, AppendKeeps
    <3> QED
      BY <2>1, <2>2, <3>2
  <2>4. Kept(o)
    BY <1>3, <2>1, <2>3 DEF Kept, rest
  <2>5. Others(o)
    BY <2>1 DEF Others, Task, reports
  <2>6. Active(o)'
    BY <2>3 DEF Active, Positions
  <2> QED
    BY <1>2, <2>4, <2>5, <2>6, NoneLost
<1>5. CASE FetchRemote
  <2>1. /\ single' = Tail(single) /\ UNCHANGED <<started, pool, fired, counterOf, reports>>
    BY <1>5 DEF FetchRemote
  <2>2. PICK n \in Nodes :
          rpcs' = rpcs \cup {[op |-> o, stage |-> "counter", retry |-> 0, node |-> n]}
    BY <1>0, <1>5, AsksOne DEF FetchRemote, Task
  <2> DEFINE r == [op |-> o, stage |-> "counter", retry |-> 0, node |-> n]
  <2>3. r \in rpcs' /\ r.op = o
    BY <2>2
  <2>4. Kept(o)
    BY <1>3, <2>1, <2>2 DEF Kept
  <2> HIDE DEF r
  <2>5. Others(o)
    BY <2>1 DEF Others, reports
  <2>6. Active(o)'
    BY <2>3 DEF Active
  <2> QED
    BY <1>2, <2>4, <2>5, <2>6, NoneLost
<1>6. CASE Store
  <2>1. /\ single' = Tail(single) /\ UNCHANGED <<started, rpcs, fired, reports>>
        /\ pool' = pool \cup {Task(o, "inject", Retries)}
        /\ \A q \in Ops : q # o => counterOf'[q] = counterOf[q]
    BY <1>0, <1>2, <1>6 DEF Store, TypeOK
  <2>2. Task(o, "inject", Retries).op = o
    BY DEF Task
  <2>3. Kept(o)
    BY <1>3, <2>1 DEF Kept
  <2>4. Others(o)
    BY <2>1 DEF Others, reports
  <2>5. Active(o)'
    BY <2>1, <2>2 DEF Active
  <2> QED
    BY <1>2, <2>3, <2>4, <2>5, NoneLost
<1> QED
  BY <1>4, <1>5, <1>6

(* The environment loses operations only with the process. *)
LEMMA EnvironmentLosesNone ==
  ASSUME Environment, ~Crash, NEW p \in Ops, Lost(p)'
  PROVE  Lost(p)
<1>1. UNCHANGED <<started, tasks, reports>>
  BY DEF Environment, LateArrives, Bake, Expire, Flush, ClearCache
<1> QED
  BY <1>1 DEF Lost, Active, tasks, reports

(* Only the four kinds of step lose an operation. *)
LEMMA NextLoses == IInv /\ [Next]_vars =>
  ((\E o \in Ops : Lost(o)' /\ ~Lost(o)) =>
     (\E t \in pool : NoSyncedNode(t)) \/ FetchLost \/ StoreThenLost \/ Crash)
<1> SUFFICES ASSUME IInv, [Next]_vars, NEW o \in Ops, Lost(o)', ~Lost(o),
                    \A t \in pool : ~NoSyncedNode(t), ~FetchLost, ~StoreThenLost, ~Crash
             PROVE  FALSE
  OBVIOUS
<1>1. CASE UNCHANGED vars
  BY <1>1 DEF vars, tasks, reports, Lost, Active
<1>2. CASE \E q \in Ops : Start(q)
  BY <1>2, StartLosesNone
<1>3. CASE PoolStep
  BY <1>3, LookupLosesNone DEF PoolStep
<1>4. CASE RpcStep
  <2>1. PICK r \in rpcs :
          \/ KeyAnswered(r) \/ BranchAnswered(r) \/ CounterAnswered(r) \/ RpcFails(r)
          \/ InjectTaken(r) \/ InjectAgain(r) \/ InjectRefused(r) \/ InjectTimesOut(r)
    BY <1>4 DEF RpcStep
  <2> QED
    BY <1>4, <2>1, RpcLosesNone
<1>5. CASE SingleStep
  BY <1>5, SingleLosesNone DEF SingleStep
<1>6. CASE Environment
  BY <1>6, EnvironmentLosesNone
<1> QED
  BY <1>1, <1>2, <1>3, <1>4, <1>5, <1>6 DEF Next

(* A caller is left without an answer only when no node is synchronized,   *)
(* when signing fails within the task, or when the process dies.           *)
THEOREM LookupLoses == Spec => OnlyLookupLoses
<1>1. IInv /\ [Next]_vars =>
        [(\E o \in Ops : Lost(o)' /\ ~Lost(o)) =>
           (\E t \in pool : NoSyncedNode(t)) \/ FetchLost \/ StoreThenLost \/ Crash]_vars
  BY NextLoses
<1> QED
  BY <1>1, Inductive, PTL DEF Spec, OnlyLookupLoses
--------------------------------------------------------------------------------
(* The refinement: what the steps of TezosOperations are for Submission.   *)

(* Only ensureRevealed asks for the key. *)
KeyAsked == \A t \in pool \cup rpcs : t.stage = "key" => t.op \in Reveals

(* Nobody asks for the key before the first call. *)
LEMMA InitKeyAsked == Init => KeyAsked
BY DEF Init, KeyAsked

(* No step asks for the key on behalf of a transaction. *)
LEMMA NextKeyAsked == KeyAsked /\ [Next]_vars => KeyAsked'
<1> SUFFICES ASSUME KeyAsked, [Next]_vars PROVE KeyAsked'
  OBVIOUS
<1>1. \A o, stage, n : Task(o, stage, n).op = o /\ Task(o, stage, n).stage = stage
  BY DEF Task
<1>2. CASE \E o \in Ops : Start(o)
  BY <1>1, <1>2 DEF Start, StartReveal, StartTransaction, CannotStart, tasks, KeyAsked
<1>3. CASE PoolStep
  <2>1. PICK t \in pool : Lookup(t) \/ NoSyncedNode(t)
    BY <1>3 DEF PoolStep
  <2>2. CASE Lookup(t)
    <3>1. PICK n \in Nodes :
            rpcs' = rpcs \cup {[op |-> t.op, stage |-> t.stage, retry |-> t.retry, node |-> n]}
      BY <2>2, AsksOne DEF Lookup
    <3>2. pool' \subseteq pool
      BY <2>2 DEF Lookup
    <3> QED
      BY <3>1, <3>2 DEF KeyAsked
  <2>3. CASE NoSyncedNode(t)
    BY <2>3 DEF NoSyncedNode, KeyAsked
  <2> QED
    BY <2>1, <2>2, <2>3
<1>4. CASE RpcStep
  <2>1. PICK r \in rpcs :
          \/ KeyAnswered(r) \/ BranchAnswered(r) \/ CounterAnswered(r) \/ RpcFails(r)
          \/ InjectTaken(r) \/ InjectAgain(r) \/ InjectRefused(r) \/ InjectTimesOut(r)
    BY <1>4 DEF RpcStep
  <2>2. rpcs' \subseteq rpcs
    BY <2>1
    DEF KeyAnswered, BranchAnswered, CounterAnswered, RpcFails, Answered, InjectTaken,
        InjectAgain, InjectRefused, InjectTimesOut, Injecting
  <2>3. \A t \in pool' : t \in pool \/ t.stage # "key"
    BY <1>1, <2>1
    DEF KeyAnswered, BranchAnswered, CounterAnswered, RpcFails, InjectTaken,
        InjectAgain, InjectRefused, InjectTimesOut, Report, Retry
  <2> QED
    BY <2>2, <2>3 DEF KeyAsked
<1>5. CASE SingleStep
  <2>1. \A t \in pool' : t \in pool \/ t.stage # "key"
    BY <1>1, <1>5 DEF SingleStep, FetchCached, FetchRemote, FetchLost, Store, StoreThenLost
  <2>2. \A r \in rpcs' : r \in rpcs \/ r.stage # "key"
    <3>1. CASE FetchRemote
      BY <1>1, <3>1 DEF FetchRemote, Ask
    <3>2. CASE ~FetchRemote
      BY <1>5, <3>2 DEF SingleStep, FetchCached, FetchLost, Store, StoreThenLost
    <3> QED
      BY <3>1, <3>2
  <2> QED
    BY <2>1, <2>2 DEF KeyAsked
<1>6. CASE Environment
  BY <1>6 DEF Environment, LateArrives, Bake, Expire, Flush, ClearCache, Crash, tasks, KeyAsked
<1>7. CASE UNCHANGED vars
  BY <1>7 DEF vars, tasks, KeyAsked
<1> QED
  BY <1>2, <1>3, <1>4, <1>5, <1>6, <1>7 DEF Next

(* What the abstract specification sees. *)
results == [o \in Ops |-> Result(o)]
takens == {o \in Ops : taken[o] > 0}
seen == <<results, takens, chain.key>>

(* What an operation's result is. *)
LEMMA ResultIs ==
  ASSUME IInv, NEW o \in Ops
  PROVE  /\ o \notin started => Result(o) = "none"
         /\ o \in started /\ oks[o] = 0 /\ errs[o] = 0 => Result(o) = "pending"
         /\ oks[o] = 1 => Result(o) = "ok"
         /\ errs[o] = 1 => Result(o) = "error"
<1>1. /\ oks[o] \in Nat /\ errs[o] \in Nat /\ oks[o] + errs[o] <= 1
      /\ o \notin started => oks[o] = 0 /\ errs[o] = 0
  BY DEF IInv, TypeOK, OpInv
<1>2. ASSUME o \notin started PROVE Result(o) = "none"
  BY <1>1, <1>2 DEF Result
<1>3. ASSUME o \in started, oks[o] = 0, errs[o] = 0 PROVE Result(o) = "pending"
  BY <1>3 DEF Result
<1>4. ASSUME oks[o] = 1 PROVE Result(o) = "ok"
  BY <1>1, <1>4 DEF Result
<1>5. ASSUME errs[o] = 1 PROVE Result(o) = "error"
  <2>1. oks[o] = 0
    BY <1>1, <1>5
  <2> QED
    BY <1>5, <2>1 DEF Result
<1> QED
  BY <1>2, <1>3, <1>4, <1>5

(* The same, after a step. *)
LEMMA ResultIsNext ==
  ASSUME IInv', NEW o \in Ops
  PROVE  /\ o \in started' /\ oks'[o] = 0 /\ errs'[o] = 0 => Result(o)' = "pending"
         /\ oks'[o] = 1 => Result(o)' = "ok"
         /\ errs'[o] = 1 => Result(o)' = "error"
<1>1. /\ oks'[o] \in Nat /\ errs'[o] \in Nat /\ oks'[o] + errs'[o] <= 1
      /\ o \notin started' => oks'[o] = 0 /\ errs'[o] = 0
  BY DEF IInv, TypeOK, OpInv
<1>2. ASSUME o \in started', oks'[o] = 0, errs'[o] = 0 PROVE Result(o)' = "pending"
  BY <1>2 DEF Result
<1>3. ASSUME oks'[o] = 1 PROVE Result(o)' = "ok"
  BY <1>1, <1>3 DEF Result
<1>4. ASSUME errs'[o] = 1 PROVE Result(o)' = "error"
  <2>1. oks'[o] = 0
    BY <1>1, <1>4
  <2> QED
    BY <1>4, <2>1 DEF Result
<1> QED
  BY <1>2, <1>3, <1>4

(* A step that changes the result of operation o at most. *)
LEMMA OneResult ==
  ASSUME NEW o \in Ops, Others(o)
  PROVE  results' = [results EXCEPT ![o] = Result(o)']
<1>1. ASSUME NEW p \in Ops, p # o PROVE Result(p)' = Result(p)
  <2>1. oks'[p] = oks[p] /\ errs'[p] = errs[p] /\ (p \in started' <=> p \in started)
    BY <1>1 DEF Others
  <2> QED
    BY <2>1 DEF Result
<1> QED
  BY <1>1 DEF results

(* The steps of the promise, in terms of the mapping. *)
LEMMA BecomesStep ==
  ASSUME NEW o \in Ops, results' = [results EXCEPT ![o] = Result(o)'],
         takens' = takens, chain'.key = chain.key,
         \/ Result(o) = "none" /\ Result(o)' = "pending"
         \/ Result(o) \in {"none", "pending"} /\ Result(o)' = "error"
         \/ /\ Result(o) \in {"none", "pending"} /\ Result(o)' = "ok"
            /\ o \in takens \/ (o \in Reveals /\ chain.key)
  PROVE  Promise!SNext
<1>0. results[o] = Result(o) /\ o \in Promise!Ops
  BY DEF results, Promise!Ops, Ops
<1>1. CASE Result(o) = "none" /\ Result(o)' = "pending"
  <2>1. Promise!Begin(o)
    BY <1>0, <1>1 DEF Promise!Begin, Promise!Become, results, takens
  <2> QED
    BY <1>0, <2>1 DEF Promise!SNext
<1>2. CASE Result(o) \in {"none", "pending"} /\ Result(o)' = "error"
  <2>1. Promise!Fail(o)
    BY <1>0, <1>2 DEF Promise!Fail, Promise!Become, results, takens
  <2> QED
    BY <1>0, <2>1 DEF Promise!SNext
<1>3. CASE /\ Result(o) \in {"none", "pending"} /\ Result(o)' = "ok"
           /\ o \in takens \/ (o \in Reveals /\ chain.key)
  <2>1. Promise!Succeed(o)
    BY <1>0, <1>3 DEF Promise!Succeed, Promise!Become, results, takens
  <2> QED
    BY <1>0, <2>1 DEF Promise!SNext
<1> QED
  BY <1>1, <1>2, <1>3

(* The chain's taking an operation, reported at once or not. *)
LEMMA AcceptsStep ==
  ASSUME NEW o \in Ops, results' = [results EXCEPT ![o] = Result(o)'],
         o \notin takens, takens' = takens \cup {o}, chain.key \in BOOLEAN, chain'.key = TRUE,
         o \in Transactions => chain.key,
         \/ Result(o) # "none" /\ Result(o)' = Result(o)
         \/ Result(o) = "pending" /\ Result(o)' \in {"ok", "error"}
  PROVE  Promise!SNext
<1>0. results[o] = Result(o) /\ o \in Promise!Ops
  BY DEF results, Promise!Ops, Ops
<1>1. chain'.key = (chain.key \/ o \in Reveals)
  BY DEF Ops
<1>2. CASE Result(o) # "none" /\ Result(o)' = Result(o)
  <2>1. results' = results
    BY <1>2 DEF results
  <2>2. Promise!Accept(o)
    BY <1>0, <1>1, <1>2, <2>1 DEF Promise!Accept, results, takens
  <2> QED
    BY <1>0, <2>2 DEF Promise!SNext
<1>3. CASE Result(o) = "pending" /\ Result(o)' \in {"ok", "error"}
  <2>1. PICK to \in {"ok", "error"} : to = Result(o)'
    BY <1>3
  <2>2. Promise!AcceptAndReport(o, to)
    BY <1>0, <1>1, <1>3, <2>1 DEF Promise!AcceptAndReport, results, takens
  <2> QED
    BY <1>0, <2>2 DEF Promise!SNext
<1> QED
  BY <1>2, <1>3

(* A step that is none of the promise's. *)
LEMMA Unseen ==
  ASSUME UNCHANGED <<started, reports, taken>>, chain'.key = chain.key
  PROVE  UNCHANGED seen
<1>1. \A o \in Ops : Result(o)' = Result(o)
  BY DEF Result, reports
<1>2. results' = results
  BY <1>1 DEF results
<1>3. takens' = takens
  BY DEF takens
<1> QED
  BY <1>2, <1>3 DEF seen
(* Starting is beginning, or ends at once. *)
LEMMA StartRefines ==
  ASSUME IInv, NEW o \in Ops, Start(o)
  PROVE  Promise!SNext
<1>1. /\ IInv' /\ o \notin started /\ o \in started' /\ oks[o] = 0 /\ errs[o] = 0
      /\ KeyInv /\ TypeOK
  BY StartKeeps DEF IInv, OpInv, Start, StartReveal, StartTransaction, CannotStart
<1>2. /\ started' = started \cup {o}
      /\ UNCHANGED <<rpcs, fired, single, counterOf, network>>
  BY DEF Start, StartReveal, StartTransaction, CannotStart, tasks
<1>3. Others(o)
  <2>1. Succeed(o) \/ Fail(o) \/ UNCHANGED reports
    BY DEF Start, StartReveal, StartTransaction, CannotStart
  <2>2. \A q \in Ops : q # o => oks'[q] = oks[q] /\ errs'[q] = errs[q]
    BY <2>1, OthersReported
  <2> QED
    BY <1>2, <2>2 DEF Others
<1>4. results' = [results EXCEPT ![o] = Result(o)'] /\ takens' = takens /\ chain'.key = chain.key
  BY <1>2, <1>3, OneResult DEF takens, network
<1>5. Result(o) = "none"
  BY <1>1, ResultIs
<1>6. /\ o \in started' /\ oks'[o] = 0 /\ errs'[o] = 0 => Result(o)' = "pending"
      /\ oks'[o] = 1 => Result(o)' = "ok"
      /\ errs'[o] = 1 => Result(o)' = "error"
  BY <1>1, ResultIsNext
<1>7. CASE StartReveal(o) /\ mem.revealed
  <2>1. oks'[o] = 1 /\ o \in Reveals /\ chain.key
    BY <1>1, <1>7, Counts DEF StartReveal, KeyInv
  <2> QED
    BY <1>4, <1>5, <1>6, <2>1, BecomesStep
<1>8. CASE StartTransaction(o) \/ (StartReveal(o) /\ ~mem.revealed)
  <2>1. oks'[o] = 0 /\ errs'[o] = 0
    BY <1>1, <1>8 DEF StartReveal, StartTransaction, reports
  <2> QED
    BY <1>1, <1>4, <1>5, <1>6, <2>1, BecomesStep
<1>9. CASE CannotStart(o)
  <2>1. errs'[o] = 1
    BY <1>1, <1>9, Counts DEF CannotStart
  <2> QED
    BY <1>4, <1>5, <1>6, <2>1, BecomesStep
<1> QED
  BY <1>7, <1>8, <1>9 DEF Start

(* A coroutine that ends before the injection. *)
LEMMA AnswerRefines ==
  ASSUME IInv, KeyAsked, NEW r \in rpcs,
         KeyAnswered(r) \/ BranchAnswered(r) \/ CounterAnswered(r) \/ RpcFails(r)
  PROVE  Promise!SNext \/ UNCHANGED seen
<1>0. PICK o : o = r.op
  OBVIOUS
<1>1. /\ IInv' /\ KeyInv /\ TypeOK /\ o \in Ops
      /\ UNCHANGED <<started, counterOf, network>>
  BY <1>0, AnswerKeeps, RpcFits
  DEF IInv, KeyAnswered, BranchAnswered, CounterAnswered, RpcFails
<1>2. o \in started /\ oks[o] = 0 /\ errs[o] = 0
  BY <1>0 DEF IInv, WorkInv, Working
<1>3. CASE UNCHANGED reports
  BY <1>1, <1>3, Unseen DEF network
<1>4. CASE Succeed(o) \/ Fail(o)
  <2>1. \A f \in fired' : f \in fired \/ f.op = o
    <3>1. OnceOf(r).op = o
      BY <1>0, <1>1, RpcFits
    <3> QED
      BY <3>1 DEF KeyAnswered, BranchAnswered, CounterAnswered, RpcFails, Answered
  <2>2. Others(o)
    <3>1. \A q \in Ops : q # o => oks'[q] = oks[q] /\ errs'[q] = errs[q]
      BY <1>1, <1>4, OthersReported
    <3> QED
      BY <1>1, <2>1, <3>1 DEF Others
  <2>3. results' = [results EXCEPT ![o] = Result(o)'] /\ takens' = takens /\ chain'.key = chain.key
    BY <1>1, <2>2, OneResult DEF takens, network
  <2>4. Result(o) = "pending"
    BY <1>1, <1>2, ResultIs
  <2>5. (oks'[o] = 1 => Result(o)' = "ok") /\ (errs'[o] = 1 => Result(o)' = "error")
    BY <1>1, ResultIsNext
  <2>6. CASE Succeed(o)
    <3>1. oks'[o] = 1
      BY <1>1, <1>2, <2>6, Counts
    <3>2. KeyAnswered(r) /\ chain.headKey
      <4>1. ~Fail(o) /\ ~UNCHANGED reports
        BY <1>1, <1>2, <2>6, Counts DEF reports
      <4> QED
        BY <1>0, <4>1 DEF KeyAnswered, BranchAnswered, CounterAnswered, RpcFails
    <3>3. o \in Reveals /\ chain.key
      BY <1>0, <1>1, <3>2 DEF KeyAsked, KeyAnswered, Answered, KeyInv
    <3> QED
      BY <1>1, <2>3, <2>4, <2>5, <3>1, <3>3, BecomesStep
  <2>7. CASE Fail(o)
    <3>1. errs'[o] = 1
      BY <1>1, <1>2, <2>7, Counts
    <3> QED
      BY <1>1, <2>3, <2>4, <2>5, <3>1, BecomesStep
  <2> QED
    BY <1>4, <2>6, <2>7
<1> QED
  BY <1>0, <1>3, <1>4 DEF KeyAnswered, BranchAnswered, CounterAnswered, RpcFails

(* The chain takes one more. *)
LEMMA TakesOne ==
  ASSUME IInv, NEW o \in Ops, Takes(o), Take(o)
  PROVE  /\ o \notin takens /\ takens' = takens \cup {o} /\ chain'.key = TRUE
         /\ o \in Transactions => chain.key
<1>1. TypeOK /\ OpInv(o)
  BY DEF IInv
<1>2. /\ taken[o] = 0 /\ taken'[o] = 1 /\ chain'.key = TRUE
      /\ \A p \in Ops : p # o => taken'[p] = taken[p]
  BY <1>1, TakenOnce
<1> QED
  BY <1>2 DEF takens, Takes

(* An injection that ends is taken, reported, both, or neither. *)
LEMMA InjectRefines ==
  ASSUME IInv, NEW r \in rpcs,
         InjectTaken(r) \/ InjectAgain(r) \/ InjectRefused(r) \/ InjectTimesOut(r)
  PROVE  Promise!SNext \/ UNCHANGED seen
<1>0. PICK o : o = r.op
  OBVIOUS
<1>1. /\ IInv' /\ TypeOK /\ o \in Ops /\ OnceOf(r).op = o
      /\ UNCHANGED <<started, counterOf>> /\ chain.key \in BOOLEAN
  BY <1>0, InjectKeeps, RpcFits
  DEF IInv, InjectTaken, InjectAgain, InjectRefused, InjectTimesOut, TypeOK
<1>2. o \in started /\ oks[o] = 0 /\ errs[o] = 0
  BY <1>0 DEF IInv, WorkInv, Working
<1>3. /\ Report(r) => Succeed(o)
      /\ Retry(r) => Fail(o) \/ UNCHANGED reports
      /\ \A f \in fired' : f \in fired \/ f.op = o
  BY <1>0, <1>1, NotReported
  DEF Report, Retry, InjectTaken, InjectAgain, InjectRefused, InjectTimesOut
<1>4. Report(r) \/ Retry(r)
  BY DEF InjectTaken, InjectAgain, InjectRefused, InjectTimesOut
<1>5. Others(o)
  <2>1. \A q \in Ops : q # o => oks'[q] = oks[q] /\ errs'[q] = errs[q]
    BY <1>1, <1>3, <1>4, OthersReported
  <2> QED
    BY <1>1, <1>3, <2>1 DEF Others
<1>6. results' = [results EXCEPT ![o] = Result(o)'] /\ Result(o) = "pending"
  BY <1>1, <1>2, <1>5, OneResult, ResultIs
<1>7. /\ Succeed(o) => Result(o)' = "ok"
      /\ Fail(o) => Result(o)' = "error"
      /\ UNCHANGED reports => Result(o)' = Result(o)
  <2>1. (Succeed(o) => oks'[o] = 1) /\ (Fail(o) => errs'[o] = 1)
    BY <1>1, <1>2, Counts
  <2>2. UNCHANGED reports => Result(o)' = Result(o)
    BY <1>1 DEF Result, reports
  <2>3. (oks'[o] = 1 => Result(o)' = "ok") /\ (errs'[o] = 1 => Result(o)' = "error")
    BY <1>1, ResultIsNext
  <2> QED
    BY <2>1, <2>2, <2>3
<1>8. CASE InjectTaken(r)
  <2>1. /\ o \notin takens /\ takens' = takens \cup {o} /\ chain'.key = TRUE
        /\ o \in Transactions => chain.key
    BY <1>0, <1>1, <1>8, TakesOne DEF InjectTaken
  <2>2. Result(o)' \in {"ok", "error"} \/ Result(o)' = Result(o)
    BY <1>3, <1>4, <1>7
  <2> QED
    BY <1>1, <1>6, <2>1, <2>2, AcceptsStep
<1>9. CASE ~InjectTaken(r)
  <2>1. chain' = chain /\ taken' = taken
    BY <1>9 DEF InjectAgain, InjectRefused, InjectTimesOut, network
  <2>2. takens' = takens /\ chain'.key = chain.key
    BY <2>1 DEF takens
  <2>3. CASE Report(r) /\ InjectAgain(r)
    <3>1. o \in takens
      BY <1>0, <1>1, <2>3 DEF InjectAgain, takens
    <3> QED
      BY <1>1, <1>3, <1>6, <1>7, <2>2, <2>3, <3>1, BecomesStep
  <2>4. CASE Retry(r) /\ Fail(o)
    BY <1>1, <1>6, <1>7, <2>2, <2>4, BecomesStep
  <2>5. CASE Retry(r) /\ UNCHANGED reports
    BY <1>1, <2>1, <2>5, Unseen
  <2> QED
    BY <1>3, <1>9, <2>3, <2>4, <2>5 DEF InjectAgain, InjectRefused, InjectTimesOut
<1> QED
  BY <1>8, <1>9

(* Outside the app, only a late request is a step of the promise. *)
LEMMA EnvironmentRefines ==
  ASSUME IInv, Environment
  PROVE  Promise!SNext \/ UNCHANGED seen
<1>1. CASE \E o \in Ops : LateArrives(o)
  <2>1. PICK o \in Ops : LateArrives(o)
    BY <1>1
  <2>2. CASE Takes(o) /\ Take(o)
    <3>1. /\ o \notin takens /\ takens' = takens \cup {o} /\ chain'.key = TRUE
          /\ o \in Transactions => chain.key
      BY <2>2, TakesOne
    <3>2. UNCHANGED <<started, tasks, counterOf, reports>> /\ o \in late
      BY <2>1 DEF LateArrives
    <3>3. o \in started
      BY <3>2 DEF IInv, OpInv
    <3>4. Result(o) # "none" /\ Result(o)' = Result(o)
      <4>1. oks[o] \in Nat /\ errs[o] \in Nat /\ oks[o] + errs[o] <= 1
        BY DEF IInv, TypeOK, OpInv
      <4>2. (oks[o] = 0 /\ errs[o] = 0) \/ oks[o] = 1 \/ errs[o] = 1
        BY <4>1
      <4>3. Result(o) # "none"
        BY <3>3, <4>2, ResultIs
      <4> QED
        BY <3>2, <4>3 DEF Result, reports
    <3>5. Others(o)
      BY <3>2 DEF Others, tasks, reports
    <3>6. results' = [results EXCEPT ![o] = Result(o)']
      BY <3>5, OneResult
    <3>7. chain.key \in BOOLEAN
      BY DEF IInv, TypeOK
    <3> QED
      BY <3>1, <3>4, <3>6, <3>7, AcceptsStep
  <2>3. CASE UNCHANGED <<chain, taken>>
    BY <2>1, <2>3, Unseen DEF LateArrives
  <2> QED
    BY <2>1, <2>2, <2>3 DEF LateArrives
<1>2. CASE Bake
  <2>1. chain'.key = chain.key
    BY <1>2 DEF Bake, IInv, TypeOK
  <2> QED
    BY <1>2, <2>1, Unseen DEF Bake
<1>3. CASE Expire \/ Flush \/ ClearCache \/ Crash
  BY <1>3, Unseen DEF Expire, Flush, ClearCache, Crash, network
<1> QED
  BY <1>1, <1>2, <1>3 DEF Environment

(* fulfill, ack and init report once at most, success only of operations   *)
(* the chain took (or of a key it knows); the chain takes each once.       *)
THEOREM Submits == Spec => ImplementsSubmission
<1>1. Init => Promise!SInit
  <2> SUFFICES ASSUME Init PROVE Promise!SInit
    OBVIOUS
  <2>1. IInv /\ started = {} /\ \A o \in Ops : taken[o] = 0
    BY InitIInv DEF Init
  <2>2. \A o \in Ops : Result(o) = "none"
    BY <2>1, ResultIs
  <2>3. chain.key \in BOOLEAN
    BY <2>1 DEF IInv, TypeOK
  <2> QED
    BY <2>1, <2>2, <2>3 DEF Promise!SInit, Promise!Ops, Ops
<1>2. IInv /\ KeyAsked /\ [Next]_vars => [Promise!SNext]_(Promise!svars)
  <2> SUFFICES ASSUME IInv, KeyAsked, [Next]_vars
               PROVE  Promise!SNext \/ UNCHANGED seen
    BY DEF Promise!svars, seen, results, takens
  <2>1. CASE UNCHANGED vars
    BY <2>1, Unseen DEF vars, network
  <2>2. CASE PoolStep \/ SingleStep
    BY <2>2, Unseen
    DEF PoolStep, Lookup, NoSyncedNode, SingleStep, FetchCached, FetchRemote, FetchLost, Store,
        StoreThenLost, network
  <2>3. CASE RpcStep
    BY <2>3, AnswerRefines, InjectRefines DEF RpcStep
  <2> QED
    BY <2>1, <2>2, <2>3, StartRefines, EnvironmentRefines DEF Next
<1> QED
  BY <1>1, <1>2, InitKeyAsked, NextKeyAsked, Inductive, PTL
  DEF Spec, ImplementsSubmission, Promise!SSpec
--------------------------------------------------------------------------------
(* The counters.                                                           *)

FetchOne == \A a, b \in Fetching : a = b
CacheAbove == mem.fresh => \A o \in Ops : counterOf[o] <= mem.counter + 1
StoreAbove ==
  \A i \in Positions(single) : single[i].kind = "store" =>
    \A o \in Ops : counterOf[o] <= single[i].value
Distinct == \A a, b \in Ops : a # b /\ counterOf[a] = counterOf[b] => counterOf[a] = 0

(* While no two operations race: one counter is under way at a time, and   *)
(* neither it nor the cached one is below a counter that was given away.   *)
Serial == FetchOne /\ CacheAbove /\ StoreAbove /\ Distinct
SerialInv == ~raced => Serial

(* Whose counter is under way. *)
LEMMA FetchingIs ==
  ASSUME NEW o
  PROVE  o \in Fetching <=>
           \/ \E r \in rpcs : r.stage = "counter" /\ r.op = o
           \/ \E i \in Positions(single) : single[i].kind = "store" /\ single[i].op = o
  BY DEF Fetching, Positions

(* The same, after a step. *)
LEMMA FetchingIsNext ==
  ASSUME NEW o
  PROVE  o \in Fetching' <=>
           \/ \E r \in rpcs' : r.stage = "counter" /\ r.op = o
           \/ \E i \in Positions(single') : single'[i].kind = "store" /\ single'[i].op = o
  BY DEF Fetching, Positions

(* A step that brings no counter under way and gives none away. *)
LEMMA NoNewCounter ==
  ASSUME Serial, counterOf' = counterOf,
         mem'.fresh => mem.fresh /\ mem'.counter = mem.counter,
         \A r \in rpcs' : r \in rpcs \/ r.stage # "counter",
         \A i \in Positions(single') : single'[i].kind = "store" =>
           \E k \in Positions(single) : single'[i] = single[k]
  PROVE  Serial'
<1>1. ASSUME NEW o \in Fetching' PROVE o \in Fetching
  <2>1. \/ \E r \in rpcs' : r.stage = "counter" /\ r.op = o
        \/ \E i \in Positions(single') : single'[i].kind = "store" /\ single'[i].op = o
    BY <1>1, FetchingIsNext
  <2>2. \/ \E r \in rpcs : r.stage = "counter" /\ r.op = o
        \/ \E i \in Positions(single) : single[i].kind = "store" /\ single[i].op = o
    BY <2>1
  <2> QED
    BY <2>2, FetchingIs
<1>2. FetchOne'
  BY <1>1 DEF Serial, FetchOne
<1>3. CacheAbove'
  BY DEF Serial, CacheAbove
<1>4. StoreAbove'
  BY DEF Serial, StoreAbove
<1>5. Distinct'
  BY DEF Serial, Distinct
<1> QED
  BY <1>2, <1>3, <1>4, <1>5 DEF Serial

(* Nobody's counter was under way, and now it is that of o: asked for, or  *)
(* with a value above those given away.                                    *)
LEMMA OneNewCounter ==
  ASSUME Serial, counterOf' = counterOf, mem' = mem, NEW o,
         \A r \in rpcs' : r.stage = "counter" => r.op = o,
         \A i \in Positions(single') : single'[i].kind = "store" =>
           /\ single'[i].op = o
           /\ \A p \in Ops : counterOf[p] <= single'[i].value
  PROVE  Serial'
<1>1. \A p \in Fetching' : p = o
  BY FetchingIsNext
<1>2. FetchOne'
  BY <1>1 DEF FetchOne
<1>3. CacheAbove' /\ Distinct'
  BY DEF Serial, CacheAbove, Distinct
<1>4. StoreAbove'
  BY DEF StoreAbove
<1> QED
  BY <1>2, <1>3, <1>4 DEF Serial

(* No counter is under way before the first call. *)
LEMMA InitSerial == Init => SerialInv
<1> SUFFICES ASSUME Init PROVE Serial
  BY DEF SerialInv
<1>1. /\ rpcs = {} /\ single = <<>> /\ mem.fresh = FALSE
      /\ \A o \in Ops : counterOf[o] = 0
  BY DEF Init, NoPreferences
<1>2. Positions(single) = {}
  BY <1>1 DEF Positions
<1>3. FetchOne
  BY <1>1, <1>2, FetchingIs DEF FetchOne
<1> QED
  BY <1>1, <1>2, <1>3 DEF Serial, CacheAbove, StoreAbove, Distinct

(* An answered counter is the only one under way, above those given. *)
LEMMA RpcSerial ==
  ASSUME IInv, SerialInv, NEW r \in rpcs,
         KeyAnswered(r) \/ BranchAnswered(r) \/ CounterAnswered(r) \/ RpcFails(r)
  PROVE  SerialInv'
<1>1. TypeOK /\ single \in Seq(SingleTasks) /\ r.op \in Ops /\ chain.head \in Nat
      /\ counterOf' = counterOf /\ rpcs' = rpcs \ {r} /\ (raced => raced')
      /\ counterOf \in [Ops -> Nat]
  BY RpcFits DEF IInv, TypeOK, KeyAnswered, BranchAnswered, CounterAnswered, RpcFails, Answered
<1> SUFFICES ASSUME ~raced' PROVE Serial'
  BY DEF SerialInv
<1>2. Serial
  BY <1>1 DEF SerialInv
<1>3. CASE KeyAnswered(r) \/ RpcFails(r)
  <2>1. /\ single' = single /\ mem'.fresh = mem.fresh /\ mem'.counter = mem.counter
    BY <1>1, <1>3 DEF KeyAnswered, RpcFails, TypeOK, Preferences, prefs
  <2> QED
    BY <1>1, <1>2, <2>1, NoNewCounter
<1>4. CASE BranchAnswered(r)
  <2> DEFINE x == [op |-> r.op, kind |-> "fetch", value |-> 0]
  <2>1. /\ x \in SingleTasks /\ x.kind = "fetch" /\ single' = Append(single, x) /\ mem' = mem
    BY <1>1, <1>4, Appended DEF BranchAnswered, prefs
  <2> HIDE DEF x
  <2>2. \A i \in Positions(Append(single, x)) :
          \/ i \in Positions(single) /\ Append(single, x)[i] = single[i]
          \/ i = Len(single) + 1 /\ Append(single, x)[i] = x
    BY <1>1, <2>1, AppendKeeps
  <2>3. \A i \in Positions(single') : single'[i].kind = "store" =>
          \E k \in Positions(single) : single'[i] = single[k]
    BY <2>1, <2>2
  <2> QED
    BY <1>1, <1>2, <2>1, <2>3, NoNewCounter
<1>5. CASE CounterAnswered(r)
  <2> DEFINE x == [op |-> r.op, kind |-> "store", value |-> chain.head]
  <2>1. /\ x \in SingleTasks /\ x.op = r.op /\ x.value = chain.head
        /\ single' = Append(single, x) /\ mem' = mem
    BY <1>1, <1>5 DEF CounterAnswered, prefs, SingleTasks
  <2> HIDE DEF x
  <2>2. \A i \in Positions(Append(single, x)) :
          \/ i \in Positions(single) /\ Append(single, x)[i] = single[i]
          \/ i = Len(single) + 1 /\ Append(single, x)[i] = x
    BY <1>1, <2>1, AppendKeeps, ZenonT(60)
  <2>3. \A p \in Ops : counterOf[p] <= chain.head
    <3>1. raced' = (raced \/ \E p \in Ops : counterOf[p] > chain.head)
      BY <1>5 DEF CounterAnswered
    <3>2. ~ \E p \in Ops : counterOf[p] > chain.head
      BY <3>1, Zenon
    <3> QED
      BY <1>1, <3>2
  <2>4. r.op \in Fetching
    BY <1>5, FetchingIs DEF CounterAnswered, Answered
  <2>5. \A p \in Fetching : p = r.op
    BY <1>2, <2>4 DEF Serial, FetchOne
  <2>6. \A q \in rpcs' : q.stage = "counter" => q.op = r.op
    BY <1>1, <2>5, FetchingIs
  <2>7. \A i \in Positions(single) : single[i].kind = "store" => single[i].op = r.op
    BY <2>5, FetchingIs
  <2>8. \A i \in Positions(single') : single'[i].kind = "store" =>
          /\ single'[i].op = r.op
          /\ \A p \in Ops : counterOf[p] <= single'[i].value
    <3> SUFFICES ASSUME NEW i \in Positions(single'), single'[i].kind = "store"
                 PROVE  single'[i].op = r.op /\ \A p \in Ops : counterOf[p] <= single'[i].value
      OBVIOUS
    <3>1. CASE i \in Positions(single) /\ single'[i] = single[i]
      BY <1>2, <2>7, <3>1 DEF Serial, StoreAbove
    <3>2. CASE single'[i] = x
      BY <2>1, <2>3, <3>2
    <3> QED
      BY <2>1, <2>2, <3>1, <3>2
  <2> QED
    BY <1>1, <1>2, <2>1, <2>6, <2>8, OneNewCounter
<1> QED
  BY <1>3, <1>4, <1>5

(* Of counters the single thread gives, each is above the others. *)
LEMMA SingleSerial ==
  ASSUME IInv, SerialInv, SingleStep
  PROVE  SerialInv'
<1> DEFINE rest == Tail(single)
<1>0. PICK o, v : o = Head(single).op /\ v = Head(single).value
  OBVIOUS
<1>1. PICK kind \in {"fetch", "store"} : AtHead(kind)
  BY DEF SingleStep, FetchCached, FetchRemote, FetchLost, Store, StoreThenLost
<1>2. /\ TypeOK /\ o \in Ops /\ v \in Nat /\ counterOf \in [Ops -> Nat] /\ mem \in Preferences
      /\ counterOf[o] = 0 /\ Len(single) \in Nat
      /\ single \in Seq(SingleTasks) /\ 1 \in Positions(single) /\ single[1] = Head(single)
      /\ Head(single).kind = kind /\ rest \in Seq(SingleTasks)
  <2>1. TypeOK
    BY DEF IInv
  <2>2. o \in Ops /\ v \in Nat /\ counterOf[o] = 0
    BY <1>0, <1>1, FirstWorks
  <2>3. /\ 1 \in Positions(single) /\ single[1] = Head(single)
        /\ Head(single).kind = kind /\ rest \in Seq(SingleTasks)
    BY <1>1, <2>1, First
  <2>4. /\ counterOf \in [Ops -> Nat] /\ mem \in Preferences
        /\ single \in Seq(SingleTasks) /\ Len(single) \in Nat
    BY <2>1 DEF TypeOK
  <2> QED
    BY <2>1, <2>2, <2>3, <2>4
<1>3. \A i \in Positions(rest) :
        i + 1 \in Positions(single) /\ i + 1 # 1 /\ rest[i] = single[i + 1]
  <2>1. \A i \in Positions(rest) : i + 1 \in Positions(single) /\ rest[i] = single[i + 1]
    BY <1>1, <1>2, First
  <2>2. \A i \in Positions(rest) : i + 1 # 1
    BY <1>2 DEF Positions
  <2> QED
    BY <2>1, <2>2
<1> HIDE DEF rest
<1> SUFFICES ASSUME ~raced' PROVE Serial'
  BY DEF SerialInv
<1>4. Serial
  BY DEF SerialInv, SingleStep, FetchCached, FetchRemote, FetchLost, Store, StoreThenLost
<1>5. CASE FetchCached
  <2> DEFINE x == [op |-> o, kind |-> "store", value |-> mem.counter + 1]
  <2>1. /\ single' = Append(rest, x) /\ rpcs' = rpcs /\ mem' = mem /\ counterOf' = counterOf
        /\ mem.fresh /\ Fetching = {}
    BY <1>0, <1>5 DEF FetchCached, prefs, rest
  <2>2. x \in SingleTasks /\ x.op = o /\ x.value = mem.counter + 1
    BY <1>2 DEF SingleTasks, Preferences
  <2>3. \A p \in Ops : counterOf[p] <= mem.counter + 1
    BY <1>4, <2>1 DEF Serial, CacheAbove
  <2> HIDE DEF x
  <2>4. \A r \in rpcs' : r.stage = "counter" => r.op = o
    BY <2>1, FetchingIs
  <2>5. \A i \in Positions(single) : single[i].kind # "store"
    BY <2>1, FetchingIs
  <2>6. \A i \in Positions(Append(rest, x)) :
          \/ i \in Positions(rest) /\ Append(rest, x)[i] = rest[i]
          \/ i = Len(rest) + 1 /\ Append(rest, x)[i] = x
    <3>1. rest \in Seq(SingleTasks) /\ x \in SingleTasks
      BY <1>2, <2>2
    <3> QED
      BY <3>1, AppendKeeps, ZenonT(60)
  <2>7. \A i \in Positions(single') : single'[i].kind = "store" => single'[i] = x
    <3> SUFFICES ASSUME NEW i \in Positions(single'), single'[i].kind = "store"
                 PROVE  single'[i] = x
      OBVIOUS
    <3>1. (i \in Positions(rest) /\ single'[i] = rest[i]) \/ single'[i] = x
      BY <2>1, <2>6
    <3>2. CASE i \in Positions(rest) /\ single'[i] = rest[i]
      BY <1>3, <2>5, <3>2
    <3> QED
      BY <3>1, <3>2
  <2>8. \A i \in Positions(single') : single'[i].kind = "store" =>
          /\ single'[i].op = o
          /\ \A p \in Ops : counterOf[p] <= single'[i].value
    BY <2>2, <2>3, <2>7
  <2> QED
    BY <1>4, <2>1, <2>4, <2>8, OneNewCounter
<1>6. CASE FetchRemote
  <2>1. /\ single' = rest /\ mem' = mem /\ counterOf' = counterOf /\ Fetching = {}
    BY <1>6 DEF FetchRemote, prefs, rest
  <2>2. PICK n \in Nodes :
          rpcs' = rpcs \cup {[op |-> o, stage |-> "counter", retry |-> 0, node |-> n]}
    BY <1>0, <1>6, AsksOne DEF FetchRemote, Task
  <2>3. \A r \in rpcs' : r.stage = "counter" => r.op = o
    BY <2>1, <2>2, FetchingIs
  <2>4. \A i \in Positions(single) : single[i].kind # "store"
    BY <2>1, FetchingIs
  <2>5. \A i \in Positions(single') : single'[i].kind # "store"
    BY <1>3, <2>1, <2>4
  <2> QED
    BY <1>4, <2>1, <2>3, <2>5, OneNewCounter
<1>7. CASE FetchLost
  <2>1. single' = rest /\ rpcs' = rpcs /\ mem' = mem /\ counterOf' = counterOf
    BY <1>7 DEF FetchLost, prefs, rest
  <2>2. \A i \in Positions(single') : \E k \in Positions(single) : single'[i] = single[k]
    BY <1>3, <2>1
  <2> QED
    BY <1>4, <2>1, <2>2, NoNewCounter
<1>8. CASE Store \/ StoreThenLost
  <2>1. /\ single' = rest /\ rpcs' = rpcs /\ kind = "store"
        /\ mem' = [mem EXCEPT !.counter = v, !.fresh = TRUE]
    BY <1>0, <1>2, <1>8 DEF Store, StoreThenLost, AtHead, rest
  <2>2. mem'.counter = v
    BY <1>2, <2>1 DEF Preferences
  <2>3. \A p \in Ops : counterOf[p] <= v
    BY <1>0, <1>2, <1>4, <2>1 DEF Serial, StoreAbove
  <2>4. o \in Fetching
    BY <1>0, <1>2, <2>1, FetchingIs
  <2>5. \A p \in Fetching : p = o
    BY <1>4, <2>4 DEF Serial, FetchOne
  <2>6. \A i \in Positions(single') : single'[i].kind # "store"
    <3> SUFFICES ASSUME NEW i \in Positions(rest), rest[i].kind = "store" PROVE FALSE
      BY <2>1
    <3>1. i + 1 \in Positions(single) /\ i + 1 # 1 /\ single[i + 1].kind = "store"
      BY <1>3
    <3>2. single[i + 1].op = o
      BY <2>5, <3>1, FetchingIs
    <3>3. single[i + 1].op = single[1].op
      BY <1>0, <1>2, <3>2
    <3> QED
      BY <1>2, <3>1, <3>3 DEF IInv, One
  <2>7. FetchOne' /\ StoreAbove'
    <3>1. \A p \in Fetching' : p = o
      BY <2>1, <2>5, <2>6, FetchingIs, FetchingIsNext
    <3> QED
      BY <2>6, <3>1 DEF FetchOne, StoreAbove
  <2>8. CASE Store
    <3>1. counterOf' = [counterOf EXCEPT ![o] = v + 1]
      BY <1>0, <2>8 DEF Store
    <3>2. counterOf'[o] = v + 1 /\ \A p \in Ops : p # o => counterOf'[p] = counterOf[p]
      BY <1>2, <3>1
    <3>3. \A p \in Ops : p # o => counterOf'[p] <= v /\ counterOf'[p] # v + 1
      BY <1>2, <2>3, <3>2
    <3>4. \A p \in Ops : counterOf'[p] <= v + 1
      BY <1>2, <2>3, <3>2
    <3>5. CacheAbove'
      BY <2>2, <3>4 DEF CacheAbove
    <3>6. Distinct'
      BY <1>4, <3>2, <3>3 DEF Serial, Distinct
    <3> QED
      BY <2>7, <3>5, <3>6 DEF Serial
  <2>9. CASE StoreThenLost
    <3>1. counterOf' = counterOf
      BY <2>9 DEF StoreThenLost
    <3>2. \A p \in Ops : counterOf'[p] <= v + 1
      BY <1>2, <2>3, <3>1
    <3>3. CacheAbove' /\ Distinct'
      BY <1>4, <2>2, <3>1, <3>2 DEF CacheAbove, Serial, Distinct
    <3> QED
      BY <2>7, <3>3 DEF Serial
  <2> QED
    BY <1>8, <2>8, <2>9
<1> QED
  BY <1>5, <1>6, <1>7, <1>8 DEF SingleStep

(* Every step keeps the counters apart, or races. *)
LEMMA NextSerial == IInv /\ SerialInv /\ [Next]_vars => SerialInv'
<1> SUFFICES ASSUME IInv, SerialInv, [Next]_vars PROVE SerialInv'
  OBVIOUS
<1>1. ASSUME raced' = raced, counterOf' = counterOf, single' = single,
             mem'.fresh => mem.fresh /\ mem'.counter = mem.counter,
             \A r \in rpcs' : r \in rpcs \/ r.stage # "counter"
      PROVE  SerialInv'
  BY <1>1, NoNewCounter DEF SerialInv
<1>2. TypeOK
  BY DEF IInv
<1>3. CASE \E o \in Ops : Start(o)
  BY <1>1, <1>3 DEF Start, StartReveal, StartTransaction, CannotStart, tasks, prefs
<1>4. CASE PoolStep
  <2>1. PICK t \in pool : Lookup(t) \/ NoSyncedNode(t)
    BY <1>4 DEF PoolStep
  <2>2. \A r \in rpcs' : r \in rpcs \/ r.stage # "counter"
    <3>1. CASE Lookup(t)
      BY <1>2, <3>1, PoolFits DEF Lookup, Ask
    <3>2. CASE NoSyncedNode(t)
      BY <3>2 DEF NoSyncedNode
    <3> QED
      BY <2>1, <3>1, <3>2
  <2>3. UNCHANGED <<raced, counterOf, single, mem>>
    BY <2>1 DEF Lookup, NoSyncedNode, prefs
  <2> QED
    BY <1>1, <2>2, <2>3
<1>5. CASE RpcStep
  <2>1. PICK r \in rpcs :
          \/ KeyAnswered(r) \/ BranchAnswered(r) \/ CounterAnswered(r) \/ RpcFails(r)
          \/ InjectTaken(r) \/ InjectAgain(r) \/ InjectRefused(r) \/ InjectTimesOut(r)
    BY <1>5 DEF RpcStep
  <2>2. CASE InjectTaken(r) \/ InjectAgain(r) \/ InjectRefused(r) \/ InjectTimesOut(r)
    <3>1. UNCHANGED <<raced, counterOf, single, mem>> /\ rpcs' \subseteq rpcs
      BY <2>2 DEF InjectTaken, InjectAgain, InjectRefused, InjectTimesOut, Injecting, Report,
                  Retry, prefs
    <3> QED
      BY <1>1, <3>1
  <2> QED
    BY <2>1, <2>2, RpcSerial
<1>6. CASE Environment
  <2>1. CASE Crash
    BY <2>1 DEF Crash, SerialInv
  <2>2. CASE ~Crash
    <3>1. UNCHANGED <<raced, counterOf, single, rpcs>>
      BY <1>6, <2>2 DEF Environment, LateArrives, Bake, Expire, Flush, ClearCache, tasks
    <3>2. mem' = mem \/ mem'.fresh = FALSE
      <4>1. CASE Expire
        BY <1>2, <4>1 DEF Expire, TypeOK, Preferences
      <4>2. CASE ClearCache
        BY <4>2 DEF ClearCache, NoPreferences
      <4>3. CASE ~Expire /\ ~ClearCache
        BY <1>6, <2>2, <4>3 DEF Environment, LateArrives, Bake, Flush, prefs
      <4> QED
        BY <4>1, <4>2, <4>3
    <3> QED
      BY <1>1, <3>1, <3>2
  <2> QED
    BY <2>1, <2>2
<1>7. CASE UNCHANGED vars
  BY <1>1, <1>7 DEF vars, tasks, prefs
<1> QED
  BY <1>3, <1>4, <1>5, <1>6, <1>7, SingleSerial DEF Next

(* Two operations are given the same counter only after two of them        *)
(* fetched theirs at a time, a node answered from an old block, or the     *)
(* process died.                                                           *)
THEOREM CountersSerial == Spec => []SerialCounters
<1>1. SerialInv => SerialCounters
  BY DEF SerialInv, Serial, Distinct, SerialCounters
<1> QED
  BY <1>1, InitSerial, NextSerial, Inductive, PTL DEF Spec
================================================================================
