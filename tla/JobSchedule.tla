------------------------------ MODULE JobSchedule ------------------------------
(***************************************************************************)
(* When jobs run.  Each fetch of the job list calls scheduleV8Execution    *)
(* for every job, which waits for the job's script (IPFS.resolveUri), then *)
(* computes the next time to run, looks a request code up or gives one     *)
(* out, and arms an exact alarm for that code.  V8ExecutorBroadcastReceiver*)
(* and V8ExecutorService run the script when the alarm goes off; nothing   *)
(* but another fetch arms the job's next alarm.                            *)
(*                                                                         *)
(* Fetches overlap, and scripts are downloaded on the threads of a pool,   *)
(* so several calls are under way at once.  One unit of time stands for    *)
(* milliseconds; the shared preferences and Android's alarms are modelled  *)
(* from how the code uses them.                                            *)
(***************************************************************************)
EXTENDS Naturals, FiniteSets

CONSTANTS
  Jobs,
  Script,        \* [Jobs -> scripts], the ipfsUri; requesters may share one
  Start, End,    \* [Jobs -> Nat], startTimestamp and endTimestamp
  Interval,      \* [Jobs -> Nat], interval as the chain gives it, 0 for one run
  Unit,          \* 1 with USING_ACURAST, else 1000: milliseconds of an interval's unit
  UsingAcurast,  \* Constants.USING_ACURAST
  MaxTime,       \* bound: the clock stops here
  MaxCalls       \* bound: calls of scheduleV8Execution under way at a time

ASSUME JobsAssumption ==
  /\ Start \in [Jobs -> Nat] /\ End \in [Jobs -> Nat] /\ Interval \in [Jobs -> Nat]
  /\ \A j \in Jobs : Start[j] <= End[j]
  /\ Unit \in Nat \ {0} /\ UsingAcurast \in BOOLEAN
  /\ MaxTime \in Nat /\ MaxCalls \in Nat

VARIABLES
  now,
  acked,       \* jobs acknowledged on the chain (Acurast only)
  calls,       \* calls of scheduleV8Execution under way
  mem,         \* shared preferences: NEXT_REQUEST_COUNTER_KEY and the codes given out
  disk,        \* the file apply() will bring up to date
  alarms,      \* armed alarms, one at most for each request code
  runs,        \* executions started: job, time they were meant for, isLastReport
  again,       \* job and time of those started more than once
  blocks,      \* history: intervals of time (now / interval) a job's alarm was armed from
  slow,        \* history: job and time of calls still under way at that time
  overlapped,  \* history: a call read the counter another was about to write
  forgot       \* history: the process died before a code was written to the file

history == <<blocks, slow, overlapped, forgot>>
vars == <<now, acked, calls, mem, disk, alarms, runs, again, history>>

Scripts == {Script[j] : j \in Jobs}
Codes == [script : Scripts, at : Nat, code : Nat]
Preferences == [next : Nat, codes : SUBSET Codes]
Runs == [job : Jobs, at : Nat, last : BOOLEAN]

(* What a call knows at each of its stages. *)
Resolving == [stage : {"resolve"}, job : Jobs]
Placing == [stage : {"place"}, job : Jobs, at : Nat, block : Nat, next : Nat]
Arming == [stage : {"arm"}, job : Jobs, at : Nat, block : Nat, code : Nat]

TypeOK ==
  /\ now \in Nat
  /\ acked \subseteq Jobs
  /\ calls \subseteq Resolving \cup Placing \cup Arming
  /\ mem \in Preferences /\ disk \in Preferences
  /\ alarms \subseteq [code : Nat, run : Runs]
  /\ runs \subseteq Runs
  /\ again \subseteq Jobs \X Nat /\ slow \subseteq Jobs \X Nat
  /\ blocks \in [Jobs -> SUBSET Nat]
  /\ overlapped \in BOOLEAN /\ forgot \in BOOLEAN

Init ==
  /\ now = 0
  /\ acked = {}
  /\ calls = {}
  /\ mem = [next |-> 0, codes |-> {}] /\ disk = mem
  /\ alarms = {}
  /\ runs = {} /\ again = {}
  /\ blocks = [j \in Jobs |-> {}] /\ slow = {}
  /\ overlapped = FALSE /\ forgot = FALSE

--------------------------------------------------------------------------------
(* Times.                                                                  *)

Smaller(a, b) == IF a < b THEN a ELSE b
Larger(a, b) == IF a > b THEN a ELSE b

Period(j) == Interval[j] * Unit

Block(j, t) == IF Interval[j] > 0 THEN t \div Period(j) ELSE 0

(* Mutant of NextAt: the interval under way, not the one after it. *)
ThisAt(j, t) ==
  IF Interval[j] > 0
    THEN Smaller(Larger(Start[j], Block(j, t) * Period(j) + (Start[j] % Period(j))), End[j])
    ELSE Start[j]

(* Mutant of NextAt: timeShiftMillis is left out. *)
UnshiftedAt(j, t) ==
  IF Interval[j] > 0
    THEN Smaller(Larger(Start[j], (Block(j, t) + 1) * Period(j)), End[j])
    ELSE Start[j]

(* systemNextScheduleTimestamp, computed at time t. *)
NextAt(j, t) ==
  IF Interval[j] > 0
    THEN Smaller(Larger(Start[j], (Block(j, t) + 1) * Period(j) + (Start[j] % Period(j))), End[j])
    ELSE Start[j]

(* Mutant of IsLast: one interval early. *)
IsLastEarly(j, at) == at + 2 * Interval[j] > End[j]

(* isLastReport; the code adds the interval without its unit. *)
IsLast(j, at) == at + Interval[j] > End[j]

--------------------------------------------------------------------------------
(* scheduleV8Execution.                                                    *)

(* scheduleV8Execution is called: nothing happens once the job has ended. *)
Schedule(j) ==
  calls' = (IF End[j] >= now THEN calls \cup {[stage |-> "resolve", job |-> j]} ELSE calls)

(* The list in the contract's big map names job j, once by each of the     *)
(* fetches that overlap; it is scheduled whether or not it is acknowledged *)
(* (by an operation of TezosOperations).                                   *)
FetchTezos(j) ==
  /\ ~UsingAcurast
  /\ Cardinality(calls) < MaxCalls
  /\ Schedule(j)
  /\ UNCHANGED <<now, acked, mem, disk, alarms, runs, again, history>>

(* A job assigned by Acurast is scheduled, or acknowledged if it is not    *)
(* yet, which the chain may or may not take.                               *)
FetchAcurast(j) ==
  /\ UsingAcurast
  /\ Cardinality(calls) < MaxCalls
  /\ IF j \in acked
       THEN Schedule(j) /\ UNCHANGED acked
       ELSE acked' \in {acked, acked \cup {j}} /\ UNCHANGED calls
  /\ UNCHANGED <<now, mem, disk, alarms, runs, again, history>>

(* The script cannot be downloaded, or is not text. *)
ResolveFails(c) ==
  /\ c \in calls /\ c.stage = "resolve"
  /\ calls' = calls \ {c}
  /\ UNCHANGED <<now, acked, mem, disk, alarms, runs, again, history>>

(* The script is there, at once from the cache or after a download.  The   *)
(* end is not looked at again.                                             *)
Read(c) ==
  /\ c \in calls /\ c.stage = "resolve"
  /\ calls' = (calls \ {c}) \cup
       {[stage |-> "place", job |-> c.job, at |-> NextAt(c.job, now),
         block |-> Block(c.job, now), next |-> mem.next]}
  /\ overlapped' = (overlapped \/ \E d \in calls : d.stage = "place")
  /\ UNCHANGED <<now, acked, mem, disk, alarms, runs, again, blocks, slow, forgot>>

(* The codes given out for counterKey: the script and the time. *)
Given(c) == {e \in mem.codes : e.script = Script[c.job] /\ e.at = c.at}

(* Mutant of NewCode: the counter is not advanced. *)
NewCodeStuck(c) == [next |-> c.next, codes |-> mem.codes \cup
  {[script |-> Script[c.job], at |-> c.at, code |-> c.next]}]

(* The edit that gives counterKey the code read before. *)
NewCode(c) == [next |-> c.next + 1, codes |-> mem.codes \cup
  {[script |-> Script[c.job], at |-> c.at, code |-> c.next]}]

(* requestCode. *)
Place(c) ==
  /\ c \in calls /\ c.stage = "place"
  /\ mem' = (IF Given(c) = {} THEN NewCode(c) ELSE mem)
  /\ \E code \in IF Given(c) = {} THEN {c.next} ELSE {e.code : e \in Given(c)} :
       calls' = (calls \ {c}) \cup
         {[stage |-> "arm", job |-> c.job, at |-> c.at, block |-> c.block, code |-> code]}
  /\ UNCHANGED <<now, acked, disk, alarms, runs, again, history>>

(* getBroadcast and setExactAndAllowWhileIdle: the alarm with the same     *)
(* request code, if one is armed, is replaced.                             *)
Arm(c) ==
  /\ c \in calls /\ c.stage = "arm"
  /\ calls' = calls \ {c}
  /\ alarms' = {a \in alarms : a.code # c.code} \cup
       {[code |-> c.code, run |-> [job |-> c.job, at |-> c.at, last |-> IsLast(c.job, c.at)]]}
  /\ blocks' = [blocks EXCEPT ![c.job] = @ \cup {c.block}]
  /\ UNCHANGED <<now, acked, mem, disk, runs, again, slow, overlapped, forgot>>

--------------------------------------------------------------------------------
(* Alarms, time, and the process.                                          *)

(* A due alarm goes off, sooner or later; the receiver starts the service. *)
Fire(a) ==
  /\ a \in alarms /\ a.run.at <= now
  /\ alarms' = alarms \ {a}
  /\ again' = (IF a.run \in runs THEN again \cup {<<a.run.job, a.run.at>>} ELSE again)
  /\ runs' = runs \cup {a.run}
  /\ UNCHANGED <<now, acked, calls, mem, disk, history>>

Tick ==
  /\ now < MaxTime
  /\ now' = now + 1
  /\ slow' = slow \cup {<<c.job, c.at>> : c \in {d \in calls : d.stage # "resolve" /\ d.at <= now + 1}}
  /\ UNCHANGED <<acked, calls, mem, disk, alarms, runs, again, blocks, overlapped, forgot>>

(* apply() has written the preferences. *)
Flush ==
  /\ disk # mem
  /\ disk' = mem
  /\ UNCHANGED <<now, acked, calls, mem, alarms, runs, again, history>>

(* The process dies; its alarms stay armed, and the next one restarts it. *)
Crash ==
  /\ calls # {} \/ mem # disk
  /\ calls' = {}
  /\ mem' = disk
  /\ forgot' = (forgot \/ mem # disk)
  /\ UNCHANGED <<now, acked, disk, alarms, runs, again, blocks, slow, overlapped>>

(* A reboot ends the process and drops every alarm: at BOOT_COMPLETED only *)
(* the fetcher's alarm is armed again.                                     *)
Reboot ==
  /\ alarms # {}
  /\ calls' = {}
  /\ mem' = disk
  /\ forgot' = (forgot \/ mem # disk)
  /\ alarms' = {}
  /\ blocks' = [j \in Jobs |-> {}]
  /\ UNCHANGED <<now, acked, disk, runs, again, slow, overlapped>>

Next ==
  \/ \E j \in Jobs : FetchTezos(j) \/ FetchAcurast(j)
  \/ \E c \in calls : ResolveFails(c) \/ Read(c) \/ Place(c) \/ Arm(c)
  \/ \E a \in alarms : Fire(a)
  \/ Tick \/ Flush \/ Crash \/ Reboot

Spec == Init /\ [][Next]_vars

--------------------------------------------------------------------------------
(* Correctness.                                                            *)

(* No call overlapped another's use of the counter, and no code was lost:  *)
(* the disturbances nothing in the code prevents.                          *)
Undisturbed == ~overlapped /\ ~forgot

(* While Undisturbed, scripts and times have one request code each, and no *)
(* two the same: no alarm is replaced by another run's, or armed twice.    *)
CodesDistinct ==
  Undisturbed =>
    \A e, f \in mem.codes :
      e.code = f.code \/ (e.script = f.script /\ e.at = f.at) => e = f

(* The times job j is to run at. *)
Slots(j) ==
  IF Interval[j] > 0
    THEN {s \in Start[j] .. End[j] : (s - Start[j]) % Period(j) = 0}
    ELSE {Start[j]}

(* The job was scheduled in time for s: in the interval before the one s   *)
(* lies in, or, for the first run, in any earlier one.                     *)
Covered(j, s) ==
  \E b \in blocks[j] :
    \/ Interval[j] = 0
    \/ b + 1 = Block(j, s)
    \/ s = Start[j] /\ b < Block(j, s)

Alone(j) == \A k \in Jobs \ {j} : Script[k] # Script[j]

ArmedFor(j, s) == \E a \in alarms : a.run.job = j /\ a.run.at = s
RunFor(j, s) == \E r \in runs : r.job = j /\ r.at = s

(* While Undisturbed, and whatever else is fetched, delayed or retried, no *)
(* run is skipped of a job that was scheduled in time and whose script no  *)
(* other requester uses.                                                   *)
EverySlotServed ==
  Undisturbed =>
    \A j \in Jobs : Alone(j) =>
      \A s \in Slots(j) : Covered(j, s) => ArmedFor(j, s) \/ RunFor(j, s)

(* While Undisturbed, a job runs twice for the same time only if it runs   *)
(* once in all (every fetch arms it again), at its end, or after a call    *)
(* that took too long.                                                     *)
OnceEach ==
  Undisturbed =>
    \A x \in again : Interval[x[1]] = 0 \/ x[2] = End[x[1]] \/ x \in slow

(* With Acurast's unit, runs flagged as last are the one at the final slot *)
(* and the one at the end, and the run at the final slot is flagged.       *)
LastRuns ==
  Unit = 1 =>
    \A r \in runs : Interval[r.job] > 0 =>
      (r.last <=> r.at = End[r.job] \/ ~(\E s \in Slots(r.job) : s > r.at))

(* While Undisturbed, an armed alarm is never replaced by one for another  *)
(* run, except between requesters of the same script: request codes are    *)
(* looked up by script.                                                    *)
NoneReplaced ==
  [][\A c \in calls : Arm(c) /\ Undisturbed =>
       \A a \in alarms : a.code = c.code =>
         a.run.at = c.at /\ Script[a.run.job] = Script[c.job]]_vars
================================================================================
