--------------------------------- MODULE Timers ---------------------------------
(***************************************************************************)
(* What keeps the processor at work: the chains of fetch and heartbeat     *)
(* alarms, each re-armed by the receiver it wakes, the hourly alarm of the *)
(* activity, the services they start, and the life of V8ExecutorService    *)
(* around its executions.  Alarms, services and the process belong to      *)
(* Android; receivers and service commands run on the app's main thread.   *)
(***************************************************************************)
EXTENDS Integers, Sequences

CONSTANTS
  MaxRuns,    \* executions started, a bound
  MaxCrashes, \* restarts after which Android gives up a service that crashes
  Faults      \* kills, refusals, reboots and acts of the user, a bound

ASSUME TimersAssumption == MaxRuns \in Nat /\ MaxCrashes \in Nat /\ Faults \in Nat

VARIABLES
  armed,     \* alarms: the two chains, and the hourly one
  permitted, \* SCHEDULE_EXACT_ALARM is granted
  bootDue,   \* BOOT_COMPLETED is to be delivered
  stopped,   \* never opened, or stopped by the user: gets no broadcast
  open,      \* the activity is open
  main,      \* what the handler on the main thread has still to do
  started,   \* services that are started
  created,   \* those of them with an instance in the process
  commands,  \* intents on their way to services
  last,      \* the last startId of V8ExecutorService
  running,   \* executions underway, by their startId
  crashes,   \* crashes of V8ExecutorService in a row
  faults     \* faults left

device == <<armed, permitted, bootDue, stopped>>
process == <<open, main, created, running>>
service == <<started, commands, last, crashes>>
timersVars == <<armed, permitted, bootDue, stopped, open, main, started, created, commands,
               last, running, crashes, faults>>

Chains   == {"fetch", "heartbeat"}
Services == Chains \cup {"v8"}
Statement == [do : {"arm", "start"}, of : Services] \cup {[do |-> "arm", of |-> "hourly"]}
Arm(a)   == [do |-> "arm", of |-> a]
Start(s) == [do |-> "start", of |-> s]

TimersInit ==
  /\ armed = {} /\ permitted \in BOOLEAN /\ bootDue = FALSE /\ stopped = TRUE
  /\ open = FALSE /\ main = <<>> /\ started = {} /\ created = {} /\ commands = {}
  /\ last = 0 /\ running = {} /\ crashes = 0 /\ faults = Faults

--------------------------------------------------------------------------------
(* The activity and the receivers.                                         *)

Handle(statements) == main = <<>> /\ main' = statements

(* MainActivity.onCreate. *)
OpenActivity ==
  /\ Handle(<<Arm("hourly"), Arm("fetch"), Start("fetch"), Arm("heartbeat"), Start("heartbeat")>>)
  /\ open' = TRUE /\ stopped' = FALSE
  /\ UNCHANGED <<armed, permitted, bootDue, created, running, service, faults>>

(* Mutants of OnReceive: the service first; one of the two forgotten. *)
StartThenArm(s) == Handle(<<Start(s), Arm(s)>>)
StartOnly(s)    == Handle(<<Start(s)>>)
ArmOnly(s)      == Handle(<<Arm(s)>>)

(* JobFetcherBroadcastReceiver, HeartbeatBroadcastReceiver *)
OnReceive(s) == Handle(<<Arm(s), Start(s)>>)

ChainAlarm(s) ==
  /\ s \in armed
  /\ armed' = armed \ {s}
  /\ OnReceive(s)
  /\ UNCHANGED <<permitted, bootDue, stopped, open, created, running, service, faults>>

(* It has a request code of its own, and the receiver of the fetch chain. *)
HourlyAlarm ==
  /\ "hourly" \in armed
  /\ OnReceive("fetch")
  /\ UNCHANGED <<device, open, created, running, service, faults>>

(* The manifest registers one of the two receivers. *)
BootCompleted ==
  /\ bootDue
  /\ bootDue' = FALSE
  /\ OnReceive("fetch")
  /\ UNCHANGED <<armed, permitted, stopped, open, created, running, service, faults>>

(* V8ExecutorBroadcastReceiver: JobSchedule says when. *)
V8Alarm ==
  /\ ~stopped /\ last < MaxRuns
  /\ Handle(<<Start("v8")>>)
  /\ UNCHANGED <<device, open, created, running, service, faults>>

Doing(do, a) == main # <<>> /\ Head(main) = [do |-> do, of |-> a]

(* scheduleFetcher, scheduleHeartbeat: an exact alarm that is not          *)
(* permitted throws, and the exception is logged.  setRepeating is inexact.*)
DoArm(a) ==
  /\ Doing("arm", a)
  /\ armed' = IF permitted \/ a = "hourly" THEN armed \cup {a} ELSE armed
  /\ main' = Tail(main)
  /\ UNCHANGED <<permitted, bootDue, stopped, open, created, running, service, faults>>

(* startService *)
DoStart(s) ==
  /\ Doing("start", s)
  /\ started' = started \cup {s}
  /\ last' = IF s = "v8" THEN last + 1 ELSE last
  /\ commands' = commands \cup {[to |-> s, id |-> IF s = "v8" THEN last + 1 ELSE 0]}
  /\ main' = Tail(main)
  /\ UNCHANGED <<device, open, created, running, crashes, faults>>

--------------------------------------------------------------------------------
(* The end of the process.                                                 *)

Die == open' = FALSE /\ main' = <<>> /\ created' = {} /\ running' = {}

(* Android refuses a start from the background, unless the app is exempt   *)
(* from battery optimisation: nobody catches the exception.                *)
StartRefused(s) ==
  /\ Doing("start", s) /\ ~open /\ faults > 0
  /\ Die
  /\ faults' = faults - 1
  /\ UNCHANGED <<device, service>>

(* Memory is short, or another thread throws. *)
Kill ==
  /\ faults > 0 /\ Die
  /\ faults' = faults - 1
  /\ UNCHANGED <<device, service>>

Reboot ==
  /\ faults > 0 /\ Die
  /\ armed' = {} /\ started' = {} /\ commands' = {} /\ crashes' = 0
  /\ bootDue' = ~stopped
  /\ faults' = faults - 1
  /\ UNCHANGED <<permitted, stopped, last>>

ForceStop ==
  /\ faults > 0 /\ Die
  /\ armed' = {} /\ started' = {} /\ commands' = {} /\ crashes' = 0
  /\ bootDue' = FALSE /\ stopped' = TRUE
  /\ faults' = faults - 1
  /\ UNCHANGED <<permitted, last>>

(* The user takes the permission back: the exact alarms and the process go. *)
Revoke ==
  /\ faults > 0 /\ permitted /\ Die
  /\ permitted' = FALSE
  /\ armed' = armed \ Chains
  /\ faults' = faults - 1
  /\ UNCHANGED <<bootDue, stopped, service>>

(* The activity asks for it; nothing is armed when it is granted. *)
Grant ==
  /\ ~permitted
  /\ permitted' = TRUE
  /\ UNCHANGED <<armed, bootDue, stopped, process, service, faults>>

--------------------------------------------------------------------------------
(* The services.                                                           *)

Pending(s) == {c \in commands : c.to = s}

(* onStartCommand: fetchJobs, heartbeat, or IPFS.resolveUri and execute.   *)
OnStartCommand(s) ==
  /\ main = <<>>
  /\ \E c \in Pending(s) :
       /\ \A d \in Pending(s) : c.id <= d.id
       /\ commands' = commands \ {c}
       /\ running' = IF s = "v8" THEN running \cup {c.id} ELSE running
  /\ created' = created \cup {s}
  /\ crashes' = IF s = "v8" THEN 0 ELSE crashes
  /\ UNCHANGED <<device, open, main, started, last, faults>>

(* START_STICKY: a service that lost its process gets a null intent. *)
Sticky(s) == main = <<>> /\ s \in started \ created /\ Pending(s) = {}

StickyRestart(s) ==
  /\ s \in Chains /\ Sticky(s)
  /\ created' = created \cup {s}
  /\ UNCHANGED <<device, open, main, running, service, faults>>

(* V8ExecutorService takes no null: onStartCommand throws before its try.  *)
StickyCrash ==
  /\ Sticky("v8")
  /\ Die
  /\ crashes' = IF crashes < MaxCrashes THEN crashes + 1 ELSE 0
  /\ started' = IF crashes < MaxCrashes THEN started ELSE started \ {"v8"}
  /\ UNCHANGED <<device, commands, last, faults>>

StopService(id) == started' = started \ {"v8"} /\ created' = created \ {"v8"}

(* Mutant: stopSelf() for stopSelf(startId). *)
StopSelfAlways(id) == StopService(id)

(* Android stops the service if no later start was asked for. *)
StopSelf(id) == IF id = last THEN StopService(id) ELSE UNCHANGED <<started, created>>

(* The script could not be had, or onSuccess or onError of the execution. *)
ExecutionEnds(id) ==
  /\ id \in running
  /\ running' = running \ {id}
  /\ StopSelf(id)
  /\ UNCHANGED <<device, open, main, commands, last, crashes, faults>>

--------------------------------------------------------------------------------
Refused == \E s \in Services : StartRefused(s)
Alarms == (\E s \in Chains : ChainAlarm(s)) \/ HourlyAlarm \/ BootCompleted \/ V8Alarm
MainStep == (\E a \in Chains \cup {"hourly"} : DoArm(a)) \/ (\E s \in Services : DoStart(s))
SystemStops == Kill \/ Reboot \/ ForceStop \/ Revoke

TimersNext ==
  \/ OpenActivity \/ Alarms \/ MainStep \/ Refused \/ SystemStops \/ Grant
  \/ \E s \in Services : OnStartCommand(s) \/ StickyRestart(s)
  \/ StickyCrash
  \/ \E id \in running : ExecutionEnds(id)

TimersSpec == TimersInit /\ [][TimersNext]_timersVars

(* Alarms go off, and the main thread serves its queue in order: whoever   *)
(* waits for it gets it.                                                   *)
TimersFairness ==
  /\ WF_timersVars(MainStep)
  /\ \A s \in Chains : SF_timersVars(ChainAlarm(s)) /\ SF_timersVars(OnStartCommand(s))
  /\ SF_timersVars(HourlyAlarm) /\ SF_timersVars(BootCompleted)

TimersFairSpec == TimersSpec /\ TimersFairness

--------------------------------------------------------------------------------
(* Every variable keeps its type; commands and instances belong to started *)
(* services.                                                               *)
TimersTypeOK ==
  /\ armed \subseteq Chains \cup {"hourly"}
  /\ permitted \in BOOLEAN /\ bootDue \in BOOLEAN /\ stopped \in BOOLEAN /\ open \in BOOLEAN
  /\ main \in Seq(Statement)
  /\ started \subseteq Services /\ created \subseteq started
  /\ commands \subseteq [to : started, id : Nat]
  /\ last \in Nat /\ running \subseteq 1 .. last
  /\ crashes \in 0 .. MaxCrashes /\ faults \in 0 .. Faults

(* A chain goes on: its alarm is armed, or a handler is about to arm it.   *)
Alive(s) == s \in armed \/ \E i \in DOMAIN main : main[i] = Arm(s)

(* No chain ends by what the app does, a refused start and a crash of      *)
(* V8ExecutorService included, but for an alarm that is not permitted: the *)
(* receivers arm the next alarm before they start the service, so even a   *)
(* kill between the two is harmless.                                       *)
OnlySystemStops ==
  [][\A s \in Chains : Alive(s) /\ ~Alive(s)' =>
       (SystemStops /\ ~Refused) \/ (Doing("arm", s) /\ ~permitted)]_timersVars

(* The process is not let go under the execution that was started last:    *)
(* V8ExecutorService is started, with an instance, until its end, and      *)
(* whatever ends meanwhile (stopSelf(startId)).                            *)
Sheltered == last \in running => "v8" \in created

(* As long as a chain goes on, its service gets its command again and      *)
(* again, whatever is refused, killed or restarted.                        *)
ChainsServe ==
  \A s \in Chains : <>[]Alive(s) => []<><<OnStartCommand(s)>>_timersVars

(* The hourly alarm brings a broken fetch chain back, once exact alarms    *)
(* are permitted.  Nothing does so for heartbeats.                         *)
FetchRecovers == <>[](permitted /\ "hourly" \in armed) => <>[]Alive("fetch")
================================================================================
