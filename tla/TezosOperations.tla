---------------------------- MODULE TezosOperations ----------------------------
(***************************************************************************)
(* How operations reach Tezos: Tezos.fulfill, Tezos.ensureRevealed and     *)
(* utils/Tezos.ack, which all chain TezosRPC's fetchBranch, fetchCounter   *)
(* and injectOperation (ensureRevealed after isRevealed).  Each stage is a *)
(* task that looks a node up (getSyncedNodes) and a coroutine that asks    *)
(* it; the account's counter is cached in the shared preferences, which    *)
(* only tasks of a single thread use; a failed injection is retried.       *)
(*                                                                         *)
(* The chain is modelled from how the code uses it: it takes the operation *)
(* whose counter follows the last one it took, and answers getCounter and  *)
(* getManagerKey from its last block.                                      *)
(***************************************************************************)
EXTENDS Naturals, Sequences, FiniteSets

CONSTANTS
  Reveals,       \* calls to ensureRevealed
  Transactions,  \* calls to fulfill and to ack
  Nodes,         \* Constants.BLOCKCHAIN_NODES
  Retries        \* Constants.INJECTION_RETRY_COUNT

Ops == Reveals \cup Transactions

ASSUME OpsAssumption == Reveals \cap Transactions = {} /\ Retries \in Nat

VARIABLES
  started,    \* operations begun
  pool,       \* tasks of TezosRPC.executor that look for a node
  rpcs,       \* coroutines that wait for a node's answer
  fired,      \* the Once callbacks already called
  single,     \* tasks of singleThreadedExecutor
  mem,        \* shared preferences: counter, LAST_COUNTER_FETCH is recent, IS_REVEALED
  disk,       \* the file apply() will bring up to date
  counterOf,  \* the counter each operation was signed with, 0 before
  oks,        \* how often each operation's onSuccess was called
  errs,       \* how often each operation's onError was called
  late,       \* requests to inject that were given up and may still arrive
  chain,      \* counter and key of the account, in the mempool and in the last block
  taken,      \* how often the chain took each operation
  raced       \* history: two operations were given counters independently

reports == <<oks, errs>>
tasks == <<pool, rpcs, fired, single>>
prefs == <<mem, disk>>
network == <<late, chain, taken>>
vars == <<started, tasks, prefs, counterOf, reports, network, raced>>

Stages == {"key", "branch", "counter", "inject"}
PoolTasks == [op : Ops, stage : Stages \ {"counter"}, retry : 0 .. Retries]
Rpcs == [op : Ops, stage : Stages, retry : 0 .. Retries, node : Nodes]
SingleTasks == [op : Ops, kind : {"fetch", "store"}, value : Nat]
Preferences == [counter : Nat, fresh : BOOLEAN, revealed : BOOLEAN]

TypeOK ==
  /\ started \subseteq Ops
  /\ pool \subseteq PoolTasks /\ rpcs \subseteq Rpcs
  /\ fired \subseteq [op : Ops, stage : Stages, retry : 0 .. Retries]
  /\ single \in Seq(SingleTasks)
  /\ mem \in Preferences /\ disk \in Preferences
  /\ counterOf \in [Ops -> Nat]
  /\ oks \in [Ops -> Nat] /\ errs \in [Ops -> Nat]
  /\ late \subseteq Ops
  /\ chain \in [last : Nat, key : BOOLEAN, head : Nat, headKey : BOOLEAN]
  /\ taken \in [Ops -> Nat]
  /\ raced \in BOOLEAN

NoPreferences == [counter |-> 0, fresh |-> FALSE, revealed |-> FALSE]

Init ==
  /\ started = {}
  /\ pool = {} /\ rpcs = {} /\ fired = {} /\ single = <<>>
  /\ mem = NoPreferences /\ disk = NoPreferences
  /\ counterOf = [o \in Ops |-> 0]
  /\ oks = [o \in Ops |-> 0] /\ errs = [o \in Ops |-> 0]
  /\ late = {}
  /\ \E k \in BOOLEAN : chain = [last |-> 0, key |-> k, head |-> 0, headKey |-> k]
  /\ taken = [o \in Ops |-> 0]
  /\ raced = FALSE

Task(o, stage, retry) == [op |-> o, stage |-> stage, retry |-> retry]

Succeed(o) == oks' = [oks EXCEPT ![o] = @ + 1] /\ UNCHANGED errs
Fail(o) == errs' = [errs EXCEPT ![o] = @ + 1] /\ UNCHANGED oks

--------------------------------------------------------------------------------
(* Starting.                                                               *)

(* ensureRevealed: isRevealed looks into the preferences, then asks. *)
StartReveal(o) ==
  /\ o \in Reveals \ started
  /\ started' = started \cup {o}
  /\ IF mem.revealed
       THEN Succeed(o) /\ UNCHANGED pool
       ELSE pool' = pool \cup {Task(o, "key", 0)} /\ UNCHANGED reports
  /\ UNCHANGED <<rpcs, fired, single, prefs, counterOf, network, raced>>

(* fulfill, ack: fetchBranch. *)
StartTransaction(o) ==
  /\ o \in Transactions \ started
  /\ started' = started \cup {o}
  /\ pool' = pool \cup {Task(o, "branch", 0)}
  /\ UNCHANGED <<rpcs, fired, single, prefs, counterOf, reports, network, raced>>

(* fulfill calls onError for an argument that is no Micheline value, say. *)
CannotStart(o) ==
  /\ o \in Transactions \ started
  /\ started' = started \cup {o}
  /\ Fail(o)
  /\ UNCHANGED <<tasks, prefs, counterOf, network, raced>>

--------------------------------------------------------------------------------
(* Looking for a node, and asking it.                                      *)

(* Mutant of SyncedNodes: all that are synchronized, as its comment says. *)
AllSyncedNodes == (SUBSET Nodes) \ {{}}

(* What getSyncedNodes may return: one node.  It throws if there is none. *)
SyncedNodes == {{n} : n \in Nodes}

Ask(t, nodes) ==
  rpcs' = rpcs \cup {[op |-> t.op, stage |-> t.stage, retry |-> t.retry, node |-> n] : n \in nodes}

Lookup(t) ==
  /\ t \in pool
  /\ pool' = pool \ {t}
  /\ \E nodes \in SyncedNodes : Ask(t, nodes)
  /\ UNCHANGED <<started, fired, single, prefs, counterOf, reports, network, raced>>

(* random() throws on the empty list: submit swallows it with the task. *)
NoSyncedNode(t) ==
  /\ t \in pool
  /\ pool' = pool \ {t}
  /\ UNCHANGED <<started, rpcs, fired, single, prefs, counterOf, reports, network, raced>>

OnceOf(r) == Task(r.op, r.stage, r.retry)

(* A coroutine ends; its answer calls the Once callback.  With one node    *)
(* asked per request, no second answer is there for Once to ignore.        *)
Answered(r, stage) ==
  /\ r \in rpcs /\ r.stage = stage
  /\ rpcs' = rpcs \ {r}
  /\ fired' = fired \cup {OnceOf(r)}

(* isRevealed's callback; ensureRevealed goes on when there is no key. *)
KeyAnswered(r) ==
  /\ OnceOf(r) \notin fired
  /\ Answered(r, "key")
  /\ mem' = [mem EXCEPT !.revealed = chain.headKey]
  /\ IF chain.headKey
       THEN Succeed(r.op) /\ UNCHANGED pool
       ELSE pool' = pool \cup {Task(r.op, "branch", 0)} /\ UNCHANGED reports
  /\ UNCHANGED <<started, single, disk, counterOf, network, raced>>

(* fetchBranch's callback: fetchCounter. *)
BranchAnswered(r) ==
  /\ OnceOf(r) \notin fired
  /\ Answered(r, "branch")
  /\ single' = Append(single, [op |-> r.op, kind |-> "fetch", value |-> 0])
  /\ UNCHANGED <<started, pool, prefs, counterOf, reports, network, raced>>

(* fetchCounter's callback: a task stores the counter of the last block. *)
CounterAnswered(r) ==
  /\ OnceOf(r) \notin fired
  /\ Answered(r, "counter")
  /\ single' = Append(single, [op |-> r.op, kind |-> "store", value |-> chain.head])
  /\ raced' = (raced \/ \E o \in Ops : counterOf[o] > chain.head)
  /\ UNCHANGED <<started, pool, prefs, counterOf, reports, network>>

(* Mutant of RpcFails: the catch block of the coroutine does not call onError. *)
RpcFailsSilently(r) ==
  /\ r \in rpcs /\ r.stage # "inject"
  /\ rpcs' = rpcs \ {r}
  /\ UNCHANGED <<started, pool, fired, single, prefs, counterOf, reports, network, raced>>

(* The node cannot be reached, or answers with an error. *)
RpcFails(r) ==
  /\ r \in rpcs /\ r.stage # "inject"
  /\ rpcs' = rpcs \ {r}
  /\ Fail(r.op)
  /\ UNCHANGED <<started, pool, fired, single, prefs, counterOf, network, raced>>

--------------------------------------------------------------------------------
(* singleThreadedExecutor.                                                 *)

AtHead(kind) == single # <<>> /\ Head(single).kind = kind

(* The operations whose counter is being fetched and is not stored yet. *)
Fetching ==
  {r.op : r \in {q \in rpcs : q.stage = "counter"}} \cup
  {single[i].op : i \in {k \in 1 .. Len(single) : single[k].kind = "store"}}

(* Mutant of FetchCached: the cached counter is not advanced. *)
FetchUnchanged ==
  /\ AtHead("fetch") /\ mem.fresh
  /\ single' = Append(Tail(single), [op |-> Head(single).op, kind |-> "store", value |-> mem.counter])
  /\ fired' = fired \cup {Task(Head(single).op, "counter", 0)}
  /\ raced' = (raced \/ Fetching # {})
  /\ UNCHANGED <<started, pool, rpcs, prefs, counterOf, reports, network>>

(* The cache is younger than 30 seconds: its counter is taken as used. *)
FetchCached ==
  /\ AtHead("fetch") /\ mem.fresh
  /\ single' = Append(Tail(single), [op |-> Head(single).op, kind |-> "store", value |-> mem.counter + 1])
  /\ fired' = fired \cup {Task(Head(single).op, "counter", 0)}
  /\ raced' = (raced \/ Fetching # {})
  /\ UNCHANGED <<started, pool, rpcs, prefs, counterOf, reports, network>>

FetchRemote ==
  /\ AtHead("fetch") /\ ~mem.fresh
  /\ single' = Tail(single)
  /\ \E nodes \in SyncedNodes : Ask(Task(Head(single).op, "counter", 0), nodes)
  /\ raced' = (raced \/ Fetching # {})
  /\ UNCHANGED <<started, pool, fired, prefs, counterOf, reports, network>>

(* getSyncedNodes throws within the task. *)
FetchLost ==
  /\ AtHead("fetch") /\ ~mem.fresh
  /\ single' = Tail(single)
  /\ UNCHANGED <<started, pool, rpcs, fired, prefs, counterOf, reports, network, raced>>

(* The counter is cached, and the operation signed with the next one. *)
Store ==
  LET t == Head(single) IN
  /\ AtHead("store")
  /\ single' = Tail(single)
  /\ mem' = [mem EXCEPT !.counter = t.value, !.fresh = TRUE]
  /\ counterOf' = [counterOf EXCEPT ![t.op] = t.value + 1]
  /\ pool' = pool \cup {Task(t.op, "inject", Retries)}
  /\ UNCHANGED <<started, rpcs, fired, disk, reports, network, raced>>

(* The same, but signing throws within the task. *)
StoreThenLost ==
  /\ AtHead("store")
  /\ single' = Tail(single)
  /\ mem' = [mem EXCEPT !.counter = Head(single).value, !.fresh = TRUE]
  /\ UNCHANGED <<started, pool, rpcs, fired, disk, counterOf, reports, network, raced>>

--------------------------------------------------------------------------------
(* injectOperation, and the chain.                                         *)

(* Whether the chain takes operation o now. *)
Takes(o) ==
  /\ counterOf[o] = chain.last + 1
  /\ o \in Transactions => chain.key
  /\ o \in Reveals => ~chain.key

Take(o) ==
  /\ chain' = [chain EXCEPT !.last = @ + 1, !.key = TRUE]
  /\ taken' = [taken EXCEPT ![o] = @ + 1]

Injecting(r) == r \in rpcs /\ r.stage = "inject" /\ rpcs' = rpcs \ {r}

(* Mutant of Retry: retry instead of retry - 1. *)
RetryForever(r) ==
  /\ pool' = pool \cup {Task(r.op, "inject", r.retry)}
  /\ UNCHANGED <<reports, single, fired>>

(* The catch block: the same operation again, after a pause, or onError. *)
Retry(r) ==
  /\ IF r.retry > 0
       THEN pool' = pool \cup {Task(r.op, "inject", r.retry - 1)} /\ UNCHANGED reports
       ELSE Fail(r.op) /\ UNCHANGED pool
  /\ UNCHANGED <<single, fired>>

Report(r) ==
  /\ IF OnceOf(r) \in fired THEN UNCHANGED reports ELSE Succeed(r.op)
  /\ fired' = fired \cup {OnceOf(r)}
  /\ UNCHANGED <<pool, single>>

(* The chain takes the operation; the answer arrives or is lost. *)
InjectTaken(r) ==
  /\ Injecting(r) /\ Takes(r.op)
  /\ Take(r.op)
  /\ Report(r) \/ Retry(r)
  /\ UNCHANGED <<started, prefs, counterOf, late, raced>>

(* A node that has the operation already answers with its hash, or refuses. *)
InjectAgain(r) ==
  /\ Injecting(r) /\ taken[r.op] > 0
  /\ Report(r)
  /\ UNCHANGED <<started, prefs, counterOf, network, raced>>

InjectRefused(r) ==
  /\ Injecting(r) /\ ~Takes(r.op)
  /\ Retry(r)
  /\ UNCHANGED <<started, prefs, counterOf, network, raced>>

(* The request times out, or fails on its way: it may arrive later. *)
InjectTimesOut(r) ==
  /\ Injecting(r)
  /\ late' = late \cup {r.op}
  /\ Retry(r)
  /\ UNCHANGED <<started, prefs, counterOf, chain, taken, raced>>

LateArrives(o) ==
  /\ o \in late
  /\ late' = late \ {o}
  /\ IF Takes(o) THEN Take(o) ELSE UNCHANGED <<chain, taken>>
  /\ UNCHANGED <<started, tasks, prefs, counterOf, reports, raced>>

Bake ==
  /\ <<chain.head, chain.headKey>> # <<chain.last, chain.key>>
  /\ chain' = [chain EXCEPT !.head = chain.last, !.headKey = chain.key]
  /\ UNCHANGED <<started, tasks, prefs, counterOf, reports, late, taken, raced>>

--------------------------------------------------------------------------------
(* Time, the preferences file, and the end of the process.                 *)

(* 30 seconds pass since the last fetch. *)
Expire ==
  /\ mem.fresh
  /\ mem' = [mem EXCEPT !.fresh = FALSE]
  /\ disk' = [disk EXCEPT !.fresh = FALSE]
  /\ UNCHANGED <<started, tasks, counterOf, reports, network, raced>>

(* apply() writes later; the counter's write may come before the time's. *)
Flush ==
  /\ disk' \in {mem, [disk EXCEPT !.counter = mem.counter]} /\ disk' # disk
  /\ UNCHANGED <<started, tasks, mem, counterOf, reports, network, raced>>

(* The settings screen clears the preferences. *)
ClearCache ==
  /\ mem # NoPreferences
  /\ mem' = NoPreferences
  /\ UNCHANGED <<started, tasks, disk, counterOf, reports, network, raced>>

(* The process dies, by an exception nobody catches (signing a retry, say) *)
(* or by the system: tasks, coroutines and unwritten preferences are gone. *)
Crash ==
  /\ started # {}
  /\ pool' = {} /\ rpcs' = {} /\ fired' = {} /\ single' = <<>>
  /\ mem' = disk
  /\ late' = late \cup {r.op : r \in {q \in rpcs : q.stage = "inject"}}
  /\ raced' = TRUE
  /\ UNCHANGED <<started, disk, counterOf, reports, chain, taken>>

Start(o) == StartReveal(o) \/ StartTransaction(o) \/ CannotStart(o)

PoolStep == \E t \in pool : Lookup(t) \/ NoSyncedNode(t)

RpcStep ==
  \E r \in rpcs :
    \/ KeyAnswered(r) \/ BranchAnswered(r) \/ CounterAnswered(r)
    \/ RpcFails(r)
    \/ InjectTaken(r) \/ InjectAgain(r) \/ InjectRefused(r) \/ InjectTimesOut(r)

SingleStep == FetchCached \/ FetchRemote \/ FetchLost \/ Store \/ StoreThenLost

Environment == (\E o \in Ops : LateArrives(o)) \/ Bake \/ Expire \/ Flush \/ ClearCache \/ Crash

Next == (\E o \in Ops : Start(o)) \/ PoolStep \/ RpcStep \/ SingleStep \/ Environment

Spec == Init /\ [][Next]_vars

(* Threads and coroutines run, and requests are answered or time out. *)
Fairness == WF_vars(PoolStep) /\ WF_vars(RpcStep) /\ WF_vars(SingleStep)

FairSpec == Spec /\ Fairness

--------------------------------------------------------------------------------
(* Correctness.                                                            *)

(* A counter is fetched and advanced apart from its use, so two operations *)
(* can be given the same one.  They cannot as long as no operation fetches *)
(* its counter while another does, no node answers from a block older than *)
(* an operation sent (raced), and the process does not die.                *)
SerialCounters ==
  ~raced => \A a, b \in Ops : a # b /\ counterOf[a] = counterOf[b] => counterOf[a] = 0

(* An operation somebody still works for. *)
Active(o) ==
  \/ \E t \in pool \cup rpcs : t.op = o
  \/ \E i \in 1 .. Len(single) : single[i].op = o

(* Neither callback was called, nor ever will be. *)
Lost(o) == o \in started /\ ~Active(o) /\ oks[o] + errs[o] = 0

(* Callers are left without an answer only when no node is synchronized,   *)
(* when signing fails, or when the process dies.                           *)
OnlyLookupLoses ==
  [][(\E o \in Ops : Lost(o)' /\ ~Lost(o)) =>
       (\E t \in pool : NoSyncedNode(t)) \/ FetchLost \/ StoreThenLost \/ Crash]_vars

Result(o) ==
  CASE oks[o] + errs[o] > 1 -> "twice"
    [] oks[o] + errs[o] = 1 -> (IF oks[o] = 1 THEN "ok" ELSE "error")
    [] o \in started /\ oks[o] + errs[o] = 0 -> "pending"
    [] OTHER -> "none"

Promise == INSTANCE Submission WITH
  result <- [o \in Ops |-> Result(o)],
  taken <- {o \in Ops : taken[o] > 0},
  known <- chain.key

(* fulfill, ack and init report once at most, success only of operations   *)
(* the chain took (or of a key it knows).                                  *)
ImplementsSubmission == Promise!SSpec

(* Every operation is reported or lost: retries end. *)
Settles == \A o \in Ops : o \in started ~> oks[o] + errs[o] > 0 \/ Lost(o)
================================================================================
