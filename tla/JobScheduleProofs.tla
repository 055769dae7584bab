--------------------------- MODULE JobScheduleProofs ---------------------------
(***************************************************************************)
(* Theorems about JobSchedule, for every set of jobs and every bound: the  *)
(* request codes are unique, alarms are replaced between requesters of one *)
(* script only, and no run is skipped of a job that was scheduled in time. *)
(***************************************************************************)
EXTENDS JobSchedule, Integers, TLAPS

USE DEF history

(* Times are natural numbers. *)
LEMMA PeriodType ==
  ASSUME NEW j \in Jobs, Interval[j] > 0
  PROVE  Period(j) \in Nat \ {0}
<1>1. /\ Interval[j] \in Nat \ {0} /\ Unit \in Nat \ {0}
  BY JobsAssumption
<1>2. \A a, b \in Nat \ {0} : a * b \in Nat \ {0}
  OBVIOUS
<1>3. QED
  BY <1>1, <1>2 DEF Period

LEMMA BlockType ==
  ASSUME NEW j \in Jobs, NEW t \in Nat
  PROVE  Block(j, t) \in Nat
<1>1. CASE Interval[j] > 0
  <2>1. Period(j) \in Nat \ {0}
    BY <1>1, PeriodType
  <2>2. \A p \in Nat \ {0} : t \div p \in Nat
    OBVIOUS
  <2>3. QED
    BY <1>1, <2>1, <2>2 DEF Block
<1>2. CASE ~(Interval[j] > 0)
  BY <1>2 DEF Block
<1>3. QED
  BY <1>1, <1>2

(* The time scheduleV8Execution computes within a block. *)
At(j, b) ==
  IF Interval[j] > 0
    THEN Smaller(Larger(Start[j], (b + 1) * Period(j) + (Start[j] % Period(j))), End[j])
    ELSE Start[j]

LEMMA AtType ==
  ASSUME NEW j \in Jobs, NEW b \in Nat
  PROVE  At(j, b) \in Nat
<1>1. Start[j] \in Nat /\ End[j] \in Nat
  BY JobsAssumption
<1>2. CASE Interval[j] > 0
  <2>1. Period(j) \in Nat \ {0}
    BY <1>2, PeriodType
  <2>2. \A p \in Nat \ {0} : (b + 1) * p \in Nat /\ Start[j] % p \in Nat
    BY <1>1
  <2>3. (b + 1) * Period(j) + (Start[j] % Period(j)) \in Nat
    BY <2>1, <2>2
  <2>4. QED
    BY <1>1, <1>2, <2>3 DEF At, Smaller, Larger
<1>3. CASE ~(Interval[j] > 0)
  BY <1>1, <1>3 DEF At
<1>4. QED
  BY <1>2, <1>3

LEMMA NextAtIsAt ==
  ASSUME NEW j \in Jobs, NEW t \in Nat
  PROVE  NextAt(j, t) = At(j, Block(j, t))
BY DEF NextAt, At

--------------------------------------------------------------------------------
(* Types.                                                                  *)

LEMMA TypeInit == Init => TypeOK
<1> SUFFICES ASSUME Init PROVE TypeOK
  OBVIOUS
<1>1. [next |-> 0, codes |-> {}] \in Preferences
  BY DEF Preferences
<1>2. mem \in Preferences /\ disk \in Preferences
  BY <1>1 DEF Init
<1>3. overlapped \in BOOLEAN /\ forgot \in BOOLEAN
  BY DEF Init
<1>4. QED
  BY <1>2, <1>3 DEF Init, TypeOK

LEMMA TypeNext == TypeOK /\ [Next]_vars => TypeOK'
<1> SUFFICES ASSUME TypeOK, [Next]_vars PROVE TypeOK'
  OBVIOUS
<1> USE DEF TypeOK
<1>1. ASSUME NEW j \in Jobs, FetchTezos(j) \/ FetchAcurast(j) PROVE TypeOK'
  <2>1. [stage |-> "resolve", job |-> j] \in Resolving
    BY DEF Resolving
  <2>2. QED
    BY <1>1, <2>1 DEF FetchTezos, FetchAcurast, Schedule
<1>2. ASSUME NEW c \in calls, ResolveFails(c) PROVE TypeOK'
  BY <1>2 DEF ResolveFails
<1>3. ASSUME NEW c \in calls, Read(c) PROVE TypeOK'
  <2>1. c.job \in Jobs
    BY <1>3 DEF Read, Resolving, Placing, Arming
  <2>2. Block(c.job, now) \in Nat /\ NextAt(c.job, now) \in Nat
    BY <2>1, BlockType, AtType, NextAtIsAt
  <2>3. [stage |-> "place", job |-> c.job, at |-> NextAt(c.job, now),
         block |-> Block(c.job, now), next |-> mem.next] \in Placing
    BY <2>1, <2>2 DEF Placing, Preferences
  <2>4. calls' \subseteq Resolving \cup Placing \cup Arming
    BY <1>3, <2>3 DEF Read
  <2>5. overlapped' \in BOOLEAN
    BY <1>3 DEF Read
  <2>6. QED
    BY <1>3, <2>4, <2>5 DEF Read
<1>4. ASSUME NEW c \in calls, Place(c) PROVE TypeOK'
  <2>1. c \in Placing
    BY <1>4 DEF Place, Resolving, Placing, Arming
  <2>2. NewCode(c) \in Preferences
    BY <2>1 DEF Placing, NewCode, Preferences, Codes, Scripts
  <2>3. mem' \in Preferences
    BY <1>4, <2>2 DEF Place
  <2>4. \A code \in Nat :
          [stage |-> "arm", job |-> c.job, at |-> c.at, block |-> c.block, code |-> code] \in Arming
    BY <2>1 DEF Placing, Arming
  <2>5. \A e \in Given(c) : e.code \in Nat
    BY DEF Given, Preferences, Codes
  <2>6. calls' \subseteq Resolving \cup Placing \cup Arming
    BY <1>4, <2>1, <2>4, <2>5 DEF Place, Placing
  <2>7. QED
    BY <1>4, <2>3, <2>6 DEF Place
<1>5. ASSUME NEW c \in calls, Arm(c) PROVE TypeOK'
  <2>1. c \in Arming
    BY <1>5 DEF Arm, Resolving, Placing, Arming
  <2>2. [code |-> c.code, run |-> [job |-> c.job, at |-> c.at, last |-> IsLast(c.job, c.at)]]
          \in [code : Nat, run : Runs]
    BY <2>1 DEF Arming, Runs, IsLast
  <2>3. alarms' \subseteq [code : Nat, run : Runs]
    BY <1>5, <2>2 DEF Arm
  <2>4. blocks' \in [Jobs -> SUBSET Nat]
    BY <1>5, <2>1 DEF Arm, Arming
  <2>5. QED
    BY <1>5, <2>3, <2>4 DEF Arm
<1>6. ASSUME NEW a \in alarms, Fire(a) PROVE TypeOK'
  <2>1. a.run \in Runs /\ a.run.job \in Jobs /\ a.run.at \in Nat
    BY DEF Runs
  <2>2. QED
    BY <1>6, <2>1 DEF Fire
<1>7. ASSUME Tick PROVE TypeOK'
  <2>1. \A d \in calls : d.stage # "resolve" => <<d.job, d.at>> \in Jobs \X Nat
    BY DEF Resolving, Placing, Arming
  <2>2. slow' \subseteq Jobs \X Nat
    BY <1>7, <2>1 DEF Tick
  <2>3. QED
    BY <1>7, <2>2 DEF Tick
<1>8. ASSUME Flush \/ Crash \/ Reboot PROVE TypeOK'
  BY <1>8 DEF Flush, Crash, Reboot
<1>9. ASSUME UNCHANGED vars PROVE TypeOK'
  BY <1>9 DEF vars
<1>10. QED
  BY <1>1, <1>2, <1>3, <1>4, <1>5, <1>6, <1>7, <1>8, <1>9 DEF Next

(* Every variable of scheduleV8Execution and its alarms keeps its type. *)
THEOREM TypeCorrect == Spec => []TypeOK
BY TypeInit, TypeNext, PTL DEF Spec

--------------------------------------------------------------------------------
(* Request codes.                                                          *)

Name(j, at, code) == [script |-> Script[j], at |-> at, code |-> code]

(* As long as nothing disturbs it: the codes given out are below the       *)
(* counter and name one script and time each, the only call between the    *)
(* counter's reading and its writing has read what is there, and calls and *)
(* alarms use codes that were given out to them.                           *)
CodesInv ==
  /\ \A e \in mem.codes : e.code < mem.next
  /\ \A e, f \in mem.codes :
       e.code = f.code \/ (e.script = f.script /\ e.at = f.at) => e = f
  /\ \A c \in calls : c.stage = "place" => c.next = mem.next
  /\ \A c, d \in calls : c.stage = "place" /\ d.stage = "place" => c = d
  /\ \A c \in calls : c.stage = "arm" => Name(c.job, c.at, c.code) \in mem.codes
  /\ \A a \in alarms : Name(a.run.job, a.run.at, a.code) \in mem.codes

IInv == TypeOK /\ (Undisturbed => CodesInv)

LEMMA InitIInv == Init => IInv
<1>1. Init => CodesInv
  BY DEF Init, CodesInv
<1>2. QED
  BY <1>1, TypeInit DEF IInv

LEMMA PlaceCodes ==
  ASSUME TypeOK, CodesInv, NEW c \in calls, Place(c)
  PROVE  CodesInv'
<1>1. c \in Placing /\ c.next = mem.next
  BY DEF Place, CodesInv, TypeOK, Resolving, Placing, Arming
<1>2. mem.next \in Nat /\ \A e \in mem.codes : e \in Codes
  BY DEF TypeOK, Preferences
<1>3. \A d \in calls' : d.stage # "arm" => d \in calls /\ d # c
  BY DEF Place
<1>4. \A d \in calls' : d.stage # "place"
  BY <1>3 DEF Place, CodesInv
<1>5. CASE Given(c) = {}
  <2> DEFINE n == Name(c.job, c.at, c.next)
  <2>1. mem' = [next |-> c.next + 1, codes |-> mem.codes \cup {n}]
    BY <1>5 DEF Place, NewCode, Name
  <2>2. n.code = mem.next /\ n.script = Script[c.job] /\ n.at = c.at
    BY <1>1 DEF Name
  <2> HIDE DEF n
  <2>3. mem'.next = mem.next + 1 /\ mem'.codes = mem.codes \cup {n}
    BY <1>1, <2>1
  <2>4. \A e \in mem'.codes : e.code < mem'.next
    BY <1>2, <2>2, <2>3 DEF CodesInv, Codes
  <2>5. \A e \in mem.codes : e.code # n.code /\ ~(e.script = n.script /\ e.at = n.at)
    BY <1>2, <1>5, <2>2 DEF CodesInv, Given, Codes
  <2>6. \A e, f \in mem'.codes :
          e.code = f.code \/ (e.script = f.script /\ e.at = f.at) => e = f
    BY <2>3, <2>5 DEF CodesInv
  <2>7. \A d \in calls' : d.stage = "arm" => Name(d.job, d.at, d.code) \in mem'.codes
    <3>1. TAKE d \in calls'
    <3>2. d \in calls \/ d = [stage |-> "arm", job |-> c.job, at |-> c.at,
                              block |-> c.block, code |-> c.next]
      BY <1>5 DEF Place
    <3>3. QED
      BY <2>3, <3>2 DEF CodesInv, n, Name
  <2>8. \A a \in alarms' : Name(a.run.job, a.run.at, a.code) \in mem'.codes
    BY <2>3 DEF Place, CodesInv
  <2>9. QED
    BY <1>4, <2>4, <2>6, <2>7, <2>8 DEF CodesInv
<1>6. CASE Given(c) # {}
  <2>1. mem' = mem
    BY <1>6 DEF Place
  <2>2. \A d \in calls' : d.stage = "arm" => Name(d.job, d.at, d.code) \in mem'.codes
    <3>1. TAKE d \in calls'
    <3>2. CASE d \in calls
      BY <2>1, <3>2 DEF CodesInv
    <3>3. CASE d \notin calls
      <4>1. PICK e \in Given(c) :
              d = [stage |-> "arm", job |-> c.job, at |-> c.at,
                   block |-> c.block, code |-> e.code]
        BY <1>6, <3>3 DEF Place
      <4>2. e \in mem.codes /\ e = Name(c.job, c.at, e.code)
        BY <1>2 DEF Given, Codes, Name
      <4>3. QED
        BY <2>1, <4>1, <4>2 DEF Name
    <3>4. QED
      BY <3>2, <3>3
  <2>3. \A a \in alarms' : Name(a.run.job, a.run.at, a.code) \in mem'.codes
    BY <2>1 DEF Place, CodesInv
  <2>4. QED
    BY <1>4, <2>1, <2>2, <2>3 DEF CodesInv
<1>7. QED
  BY <1>5, <1>6

(* What disturbed it once is not forgotten.                                *)
LEMMA StillUndisturbed ==
  ASSUME [Next]_vars, Undisturbed'
  PROVE  Undisturbed
<1>1. overlapped' \/ ~overlapped
  BY DEF Next, vars, FetchTezos, FetchAcurast, ResolveFails, Read, Place, Arm,
         Fire, Tick, Flush, Crash, Reboot
<1>2. forgot' \/ ~forgot
  BY DEF Next, vars, FetchTezos, FetchAcurast, ResolveFails, Read, Place, Arm,
         Fire, Tick, Flush, Crash, Reboot
<1>3. QED
  BY <1>1, <1>2 DEF Undisturbed

LEMMA CodesNext == IInv /\ [Next]_vars /\ Undisturbed' => CodesInv'
<1> SUFFICES ASSUME IInv, [Next]_vars, Undisturbed' PROVE CodesInv'
  OBVIOUS
<1>1. TypeOK
  BY DEF IInv
<1>2. Undisturbed
  BY StillUndisturbed
<1>3. CodesInv
  BY <1>2 DEF IInv
<1>4. ASSUME NEW j \in Jobs, FetchTezos(j) \/ FetchAcurast(j) PROVE CodesInv'
  <2>1. \A d \in calls' : d.stage # "resolve" => d \in calls
    BY <1>4 DEF FetchTezos, FetchAcurast, Schedule
  <2>2. mem' = mem /\ alarms' = alarms
    BY <1>4 DEF FetchTezos, FetchAcurast
  <2>3. QED
    BY <1>3, <2>1, <2>2 DEF CodesInv
<1>5. ASSUME NEW c \in calls, ResolveFails(c) PROVE CodesInv'
  BY <1>3, <1>5 DEF ResolveFails, CodesInv
<1>6. ASSUME NEW c \in calls, Read(c) PROVE CodesInv'
  <2> DEFINE n == [stage |-> "place", job |-> c.job, at |-> NextAt(c.job, now),
                   block |-> Block(c.job, now), next |-> mem.next]
  <2>1. calls' = (calls \ {c}) \cup {n} /\ n.stage = "place" /\ n.next = mem.next
    BY <1>6 DEF Read
  <2>2. mem' = mem /\ alarms' = alarms
    BY <1>6 DEF Read
  <2> HIDE DEF n
  <2>3. \A d \in calls : d.stage # "place"
    BY <1>6 DEF Read, Undisturbed
  <2>4. QED
    BY <1>3, <2>1, <2>2, <2>3 DEF CodesInv
<1>7. ASSUME NEW c \in calls, Place(c) PROVE CodesInv'
  BY <1>1, <1>3, <1>7, PlaceCodes
<1>8. ASSUME NEW c \in calls, Arm(c) PROVE CodesInv'
  <2> DEFINE n == [code |-> c.code,
                   run |-> [job |-> c.job, at |-> c.at, last |-> IsLast(c.job, c.at)]]
  <2>1. /\ \A a \in alarms' : a \in alarms \/ a = n
        /\ calls' \subseteq calls /\ mem' = mem
    BY <1>8 DEF Arm
  <2>2. Name(n.run.job, n.run.at, n.code) \in mem.codes
    BY <1>3, <1>8 DEF Arm, CodesInv
  <2> HIDE DEF n
  <2>3. QED
    BY <1>3, <2>1, <2>2 DEF CodesInv
<1>9. ASSUME NEW a \in alarms, Fire(a) PROVE CodesInv'
  BY <1>3, <1>9 DEF Fire, CodesInv
<1>10. ASSUME Tick \/ Flush PROVE CodesInv'
  BY <1>3, <1>10 DEF Tick, Flush, CodesInv
<1>11. ASSUME Crash \/ Reboot PROVE CodesInv'
  <2>1. calls' = {} /\ alarms' \subseteq alarms /\ mem' = mem
    BY <1>11 DEF Crash, Reboot, Undisturbed
  <2>2. QED
    BY <1>3, <2>1 DEF CodesInv
<1>12. ASSUME UNCHANGED vars PROVE CodesInv'
  BY <1>3, <1>12 DEF vars, CodesInv
<1>13. QED
  BY <1>4, <1>5, <1>6, <1>7, <1>8, <1>9, <1>10, <1>11, <1>12 DEF Next

LEMMA NextIInv == IInv /\ [Next]_vars => IInv'
BY TypeNext, CodesNext DEF IInv

(* The invariant behind the following theorems, about the request codes    *)
(* that scheduleV8Execution keeps in the preferences.                      *)
THEOREM Inductive == Spec => []IInv
BY InitIInv, NextIInv, PTL DEF Spec

(* No two scripts or times get the same request code, whoever fetches what *)
(* and when, unless two calls overlap at the counter or codes are lost.    *)
THEOREM UniqueCodes == Spec => []CodesDistinct
<1>1. IInv => CodesDistinct
  BY DEF IInv, CodesInv, CodesDistinct
<1>2. QED
  BY <1>1, Inductive, PTL

LEMMA ReplacedIsSame ==
  ASSUME IInv, Undisturbed, NEW c \in calls, Arm(c), NEW a \in alarms, a.code = c.code
  PROVE  a.run.at = c.at /\ Script[a.run.job] = Script[c.job]
<1>1. CodesInv
  BY DEF IInv
<1>2. /\ Name(c.job, c.at, c.code) \in mem.codes
      /\ Name(a.run.job, a.run.at, a.code) \in mem.codes
  BY <1>1 DEF CodesInv, Arm
<1>3. Name(c.job, c.at, c.code) = Name(a.run.job, a.run.at, a.code)
  BY <1>1, <1>2 DEF CodesInv, Name
<1>4. QED
  BY <1>3 DEF Name

(* An alarm is replaced only by one for the same time and script: setting  *)
(* it takes no other run away.                                             *)
THEOREM NoReplacement == Spec => NoneReplaced
<1>1. ASSUME IInv PROVE \A c \in calls : Arm(c) /\ Undisturbed =>
          \A a \in alarms : a.code = c.code =>
            a.run.at = c.at /\ Script[a.run.job] = Script[c.job]
  BY <1>1, ReplacedIsSame
<1>2. QED
  BY <1>1, Inductive, PTL DEF NoneReplaced

--------------------------------------------------------------------------------
(* Slots.                                                                  *)

LEMMA Division ==
  ASSUME NEW x \in Nat, NEW p \in Nat \ {0}
  PROVE  /\ x \div p \in Nat /\ x % p \in Nat
         /\ x = (x \div p) * p + (x % p)
         /\ x % p < p
OBVIOUS

(* Numbers a multiple apart have the same remainder. *)
LEMMA SameRemainder ==
  ASSUME NEW x \in Nat, NEW y \in Nat, x <= y, NEW p \in Nat \ {0}, (y - x) % p = 0
  PROVE  y % p = x % p
<1>1. y - x \in Nat /\ y - x = ((y - x) \div p) * p /\ (y - x) \div p \in Nat
  BY Division
<1>2. PICK k \in Nat : y - x = k * p
  BY <1>1
<1>3. /\ x = (x \div p) * p + (x % p) /\ y = (y \div p) * p + (y % p)
      /\ x % p \in Nat /\ y % p \in Nat /\ x % p < p /\ y % p < p
      /\ x \div p \in Nat /\ y \div p \in Nat
  BY Division
<1>4. ((y \div p) - (x \div p) - k) * p = (x % p) - (y % p)
  BY <1>2, <1>3
<1>5. \A m \in Int : m * p < p /\ -p < m * p => m = 0
  <2>1. TAKE m \in Int
  <2>2. CASE m >= 1
    <3>1. m * p >= p
      BY <2>2
    <3>2. QED
      BY <3>1
  <2>3. CASE m <= -1
    <3>1. m * p <= -p
      BY <2>3
    <3>2. QED
      BY <3>1
  <2>4. CASE m = 0
    BY <2>4
  <2>5. QED
    BY <2>2, <2>3, <2>4
<1>6. (y \div p) - (x \div p) - k = 0
  BY <1>3, <1>4, <1>5
<1>7. QED
  BY <1>3, <1>4, <1>6

(* Scheduling a job within the block before a slot's gives that slot, and  *)
(* within any block before the first slot's gives the first.               *)
LEMMA SlotAt ==
  ASSUME NEW j \in Jobs, NEW b \in Nat, NEW s \in Slots(j),
         \/ Interval[j] = 0
         \/ b + 1 = Block(j, s)
         \/ s = Start[j] /\ b < Block(j, s)
  PROVE  At(j, b) = s
<1>1. /\ Start[j] \in Nat /\ End[j] \in Nat /\ Interval[j] \in Nat
      /\ Start[j] <= End[j]
  BY JobsAssumption
<1>2. CASE Interval[j] = 0
  BY <1>1, <1>2 DEF At, Slots
<1>3. CASE Interval[j] > 0
  <2> DEFINE p == Period(j)
             q == s \div p
             r == Start[j] % p
  <2>1. p \in Nat \ {0}
    BY <1>3, PeriodType
  <2>2. s \in Nat /\ Start[j] <= s /\ s <= End[j] /\ (s - Start[j]) % p = 0
    BY <1>1, <1>3 DEF Slots
  <2>3. s % p = r
    BY <1>1, <2>1, <2>2, SameRemainder
  <2>4. s = q * p + r /\ q \in Nat /\ r \in Nat
    BY <2>1, <2>2, <2>3, Division
  <2>5. Block(j, s) = q
    BY <1>3 DEF Block
  <2>6. At(j, b) = Smaller(Larger(Start[j], (b + 1) * p + r), End[j])
    BY <1>3 DEF At
  <2>7. b + 1 = q \/ (s = Start[j] /\ b < q)
    BY <1>3, <2>5
  <2> HIDE DEF p, q, r
  <2>8. CASE b + 1 = q
    BY <1>1, <2>2, <2>4, <2>6, <2>8 DEF Smaller, Larger
  <2>9. CASE s = Start[j] /\ b < q
    <3>1. (b + 1) * p <= q * p
      BY <2>1, <2>4, <2>9
    <3>2. (b + 1) * p \in Nat
      BY <2>1
    <3>3. QED
      BY <1>1, <2>1, <2>2, <2>4, <2>6, <2>9, <3>1, <3>2 DEF Smaller, Larger
  <2>10. QED
    BY <2>7, <2>8, <2>9
<1>4. QED
  BY <1>1, <1>2, <1>3

(* A call that knows its time has computed it within the block it recalls. *)
Timed == \A c \in calls : c.stage # "resolve" => c.at = At(c.job, c.block)

LEMMA TimedNext == TypeOK /\ Timed /\ [Next]_vars => Timed'
<1> SUFFICES ASSUME TypeOK, Timed, [Next]_vars PROVE Timed'
  OBVIOUS
<1>1. ASSUME NEW c \in calls, Read(c) PROVE Timed'
  <2>1. c.job \in Jobs /\ now \in Nat
    BY <1>1 DEF TypeOK, Read, Resolving, Placing, Arming
  <2>2. NextAt(c.job, now) = At(c.job, Block(c.job, now))
    BY <2>1, NextAtIsAt
  <2>3. QED
    BY <1>1, <2>2 DEF Read, Timed
<1>2. ASSUME NEW c \in calls, Place(c) PROVE Timed'
  <2>1. \A d \in calls' : d \in calls \/ (d.job = c.job /\ d.at = c.at /\ d.block = c.block)
    BY <1>2 DEF Place
  <2>2. QED
    BY <1>2, <2>1 DEF Place, Timed
<1>3. CASE ~(\E c \in calls : Read(c) \/ Place(c))
  <2>1. \A d \in calls' : d.stage # "resolve" => d \in calls
    BY <1>3 DEF Next, vars, FetchTezos, FetchAcurast, Schedule, ResolveFails, Arm, Fire, Tick,
           Flush, Crash, Reboot
  <2>2. QED
    BY <2>1 DEF Timed
<1>4. QED
  BY <1>1, <1>2, <1>3

SlotsInv == IInv /\ Timed /\ EverySlotServed

LEMMA InitSlotsInv == Init => SlotsInv
<1>1. Init => Timed /\ EverySlotServed
  BY DEF Init, Timed, EverySlotServed, Covered
<1>2. QED
  BY <1>1, InitIInv DEF SlotsInv

(* Arming an alarm serves its own slot, and takes no other one away.       *)
LEMMA ArmServes ==
  ASSUME SlotsInv, Undisturbed, NEW c \in calls, Arm(c),
         NEW j \in Jobs, Alone(j), NEW s \in Slots(j), Covered(j, s)'
  PROVE  (ArmedFor(j, s) \/ RunFor(j, s))'
<1> DEFINE n == [code |-> c.code,
                 run |-> [job |-> c.job, at |-> c.at, last |-> IsLast(c.job, c.at)]]
<1>1. /\ n \in alarms' /\ n.run.job = c.job /\ n.run.at = c.at
      /\ \A a \in alarms : a.code # c.code => a \in alarms'
      /\ runs' = runs
  BY DEF Arm
<1> HIDE DEF n
<1>2. c \in Arming /\ blocks \in [Jobs -> SUBSET Nat]
  BY DEF SlotsInv, IInv, TypeOK, Arm, Resolving, Placing, Arming
<1>3. CASE Covered(j, s)
  <2>1. ArmedFor(j, s) \/ RunFor(j, s)
    BY <1>3 DEF SlotsInv, EverySlotServed
  <2>2. CASE RunFor(j, s)
    BY <1>1, <2>2 DEF RunFor
  <2>3. ASSUME NEW a \in alarms, a.run.job = j, a.run.at = s PROVE ArmedFor(j, s)'
    <3>1. CASE a.code # c.code
      BY <1>1, <2>3, <3>1 DEF ArmedFor
    <3>2. CASE a.code = c.code
      <4>1. s = c.at /\ Script[j] = Script[c.job]
        BY <2>3, <3>2, ReplacedIsSame DEF SlotsInv
      <4>2. j = c.job
        BY <1>2, <4>1 DEF Alone, Arming
      <4>3. QED
        BY <1>1, <4>1, <4>2 DEF ArmedFor
    <3>3. QED
      BY <3>1, <3>2
  <2>4. QED
    BY <2>1, <2>2, <2>3 DEF ArmedFor
<1>4. CASE ~Covered(j, s)
  <2>1. PICK b \in blocks'[j] :
          \/ Interval[j] = 0
          \/ b + 1 = Block(j, s)
          \/ s = Start[j] /\ b < Block(j, s)
    BY DEF Covered
  <2>2. b \notin blocks[j]
    BY <1>4, <2>1 DEF Covered
  <2>3. j = c.job /\ b = c.block
    BY <1>2, <2>2 DEF Arm
  <2>4. c.at = At(j, b) /\ b \in Nat
    BY <1>2, <2>3 DEF SlotsInv, Timed, Arm, Arming
  <2>5. c.at = s
    BY <2>1, <2>4, SlotAt
  <2>6. QED
    BY <1>1, <2>3, <2>5 DEF ArmedFor
<1>5. QED
  BY <1>3, <1>4

LEMMA SlotsNext == SlotsInv /\ [Next]_vars => EverySlotServed'
<1> SUFFICES ASSUME SlotsInv, [Next]_vars, Undisturbed',
                    NEW j \in Jobs, Alone(j), NEW s \in Slots(j), Covered(j, s)'
             PROVE  (ArmedFor(j, s) \/ RunFor(j, s))'
  BY DEF EverySlotServed, Alone, Slots
<1>1. Undisturbed
  BY StillUndisturbed
<1>2. ASSUME NEW c \in calls, Arm(c) PROVE (ArmedFor(j, s) \/ RunFor(j, s))'
  BY <1>1, <1>2, ArmServes
<1>3. ASSUME Reboot PROVE FALSE
  BY <1>3 DEF Reboot, Covered
<1>4. ASSUME NEW a \in alarms, Fire(a) PROVE (ArmedFor(j, s) \/ RunFor(j, s))'
  <2>1. Covered(j, s)
    BY <1>4 DEF Fire, Covered
  <2>2. ArmedFor(j, s) \/ RunFor(j, s)
    BY <1>1, <2>1 DEF SlotsInv, EverySlotServed
  <2>3. \A d \in alarms : d \in alarms' \/ d.run \in runs'
    BY <1>4 DEF Fire
  <2>4. runs \subseteq runs'
    BY <1>4 DEF Fire
  <2>5. QED
    BY <2>2, <2>3, <2>4 DEF ArmedFor, RunFor
<1>5. CASE UNCHANGED <<alarms, runs, blocks>>
  <2>1. Covered(j, s)
    BY <1>5 DEF Covered
  <2>2. ArmedFor(j, s) \/ RunFor(j, s)
    BY <1>1, <2>1 DEF SlotsInv, EverySlotServed
  <2>3. QED
    BY <1>5, <2>2 DEF ArmedFor, RunFor
<1>6. \/ \E c \in calls : Arm(c)
      \/ Reboot
      \/ \E a \in alarms : Fire(a)
      \/ UNCHANGED <<alarms, runs, blocks>>
  BY DEF Next, vars, FetchTezos, FetchAcurast, ResolveFails, Read, Place, Tick, Flush, Crash
<1>7. QED
  BY <1>2, <1>3, <1>4, <1>5, <1>6

(* No run is skipped of a job that was scheduled in time for it: its alarm *)
(* stays armed until it goes off, whatever else is fetched, downloaded or  *)
(* fails, for every interval, start and end.                               *)
THEOREM SlotsServed == Spec => []EverySlotServed
<1>1. SlotsInv /\ [Next]_vars => SlotsInv'
  BY NextIInv, TimedNext, SlotsNext DEF SlotsInv, IInv
<1>2. SlotsInv => EverySlotServed
  BY DEF SlotsInv
<1>3. QED
  BY <1>1, <1>2, InitSlotsInv, PTL DEF Spec

--------------------------------------------------------------------------------
(* The last report.                                                        *)

LEMMA MultipleRemainder ==
  ASSUME NEW m \in Nat, NEW p \in Nat \ {0}
  PROVE  (m * p) % p = 0
<1>1. m * p \in Nat
  OBVIOUS
<1>2. /\ m * p = ((m * p) \div p) * p + ((m * p) % p)
      /\ (m * p) \div p \in Nat /\ (m * p) % p \in Nat /\ (m * p) % p < p
  BY <1>1, Division
<1>3. (m - ((m * p) \div p)) * p = (m * p) % p
  BY <1>2
<1>4. \A n \in Int : n * p < p /\ 0 <= n * p => n * p = 0
  <2>1. TAKE n \in Int
  <2>2. CASE n >= 1
    <3>1. n * p >= p
      BY <2>2
    <3>2. QED
      BY <3>1
  <2>3. CASE n <= -1
    <3>1. n * p <= -p
      BY <2>3
    <3>2. QED
      BY <3>1
  <2>4. QED
    BY <2>2, <2>3
<1>5. QED
  BY <1>2, <1>3, <1>4

LEMMA MultipleOf ==
  ASSUME NEW x \in Nat, NEW y \in Nat, y <= x, NEW p \in Nat \ {0}, (x - y) % p = 0
  PROVE  \E k \in Nat : x - y = k * p
<1>1. x - y \in Nat
  OBVIOUS
<1>2. x - y = ((x - y) \div p) * p + ((x - y) % p) /\ (x - y) \div p \in Nat
  BY <1>1, Division
<1>3. x - y = ((x - y) \div p) * p
  <2>1. ((x - y) \div p) * p \in Nat
    BY <1>2
  <2>2. QED
    BY <1>2, <2>1
<1>4. QED
  BY <1>2, <1>3

LEMMA ProductGrows ==
  ASSUME NEW k \in Nat, NEW l \in Nat, k <= l, NEW p \in Nat
  PROVE  k * p <= l * p
OBVIOUS

(* A periodic job is only ever scheduled for one of its slots or its end.  *)
LEMMA AtIsSlot ==
  ASSUME NEW j \in Jobs, Interval[j] > 0, NEW b \in Nat
  PROVE  At(j, b) \in Slots(j) \cup {End[j]}
<1> DEFINE p == Period(j)
           r == Start[j] % p
           q == Start[j] \div p
           x == (b + 1) * p + r
<1>1. Start[j] \in Nat /\ End[j] \in Nat /\ Start[j] <= End[j]
  BY JobsAssumption
<1>2. p \in Nat \ {0}
  BY PeriodType
<1>3. Start[j] = q * p + r /\ q \in Nat /\ r \in Nat
  BY <1>1, <1>2, Division
<1>4. (b + 1) * p \in Nat /\ x \in Nat
  BY <1>2, <1>3
<1>5. At(j, b) = Smaller(Larger(Start[j], x), End[j])
  BY DEF At
<1>6. Slots(j) = {s \in Start[j] .. End[j] : (s - Start[j]) % p = 0}
  BY DEF Slots
<1>7. CASE x > Start[j]
  <2>1. x - Start[j] = (b + 1 - q) * p
    BY <1>2, <1>3
  <2>2. b + 1 - q > 0
    <3>1. CASE b + 1 <= q
      <4>1. (b + 1) * p <= q * p
        BY <1>2, <1>3, <3>1, ProductGrows
      <4>2. q * p \in Nat
        BY <1>2, <1>3
      <4>3. QED
        BY <1>3, <1>4, <1>7, <4>1, <4>2
    <3>2. QED
      BY <1>3, <3>1
  <2>3. (x - Start[j]) % p = 0
    <3>1. PICK m \in Nat : m = b + 1 - q
      BY <1>3, <2>2
    <3>2. (m * p) % p = 0
      BY <1>2, MultipleRemainder
    <3>3. QED
      BY <2>1, <3>1, <3>2
  <2> HIDE DEF x, p, q, r
  <2>4. At(j, b) = (IF x < End[j] THEN x ELSE End[j])
    BY <1>1, <1>4, <1>5, <1>7 DEF Smaller, Larger
  <2>5. QED
    BY <1>1, <1>4, <1>6, <1>7, <2>3, <2>4
<1>8. CASE x <= Start[j]
  <2>1. (Start[j] - Start[j]) % p = 0
    <3>1. (0 * p) % p = 0
      BY <1>2, MultipleRemainder
    <3>2. 0 * p = 0 /\ Start[j] - Start[j] = 0
      BY <1>1, <1>2
    <3>3. QED
      BY <3>1, <3>2
  <2> HIDE DEF x, p, q, r
  <2>2. At(j, b) = Start[j]
    BY <1>1, <1>4, <1>5, <1>8 DEF Smaller, Larger
  <2>3. QED
    BY <1>1, <1>6, <2>1, <2>2
<1>9. QED
  BY <1>1, <1>4, <1>7, <1>8

(* With Acurast's unit, the code's test of the end finds the last slot.    *)
LEMMA LastIsLast ==
  ASSUME NEW j \in Jobs, Interval[j] > 0, Unit = 1, NEW x \in Slots(j) \cup {End[j]}
  PROVE  IsLast(j, x) <=> x = End[j] \/ ~(\E s \in Slots(j) : s > x)
<1>0. PICK p \in Nat \ {0} : p = Interval[j]
  BY JobsAssumption
<1>1. /\ Start[j] \in Nat /\ End[j] \in Nat /\ Start[j] <= End[j]
      /\ p \in Nat \ {0}
  BY JobsAssumption
<1>2. Period(j) = p
  BY <1>0 DEF Period
<1>3. Slots(j) = {s \in Start[j] .. End[j] : (s - Start[j]) % p = 0}
  BY <1>0, <1>2 DEF Slots
<1>4. CASE x = End[j]
  BY <1>0, <1>1, <1>4 DEF IsLast
<1>5. CASE x # End[j]
  <2>1. x \in Nat /\ Start[j] <= x /\ x < End[j] /\ (x - Start[j]) % p = 0
    BY <1>1, <1>3, <1>5
  <2>2. ASSUME x + p <= End[j] PROVE x + p \in Slots(j)
    <3>1. PICK k \in Nat : x - Start[j] = k * p
      BY <1>1, <2>1, MultipleOf
    <3>2. (x + p) - Start[j] = (k + 1) * p
      <4>1. (k + 1) * p = k * p + p
        OBVIOUS
      <4>2. (x + p) - Start[j] = (x - Start[j]) + p
        BY <1>1, <2>1
      <4>3. QED
        BY <3>1, <4>1, <4>2
    <3>3. ((k + 1) * p) % p = 0
      <4>1. \A n \in Nat : (n * p) % p = 0
        BY MultipleRemainder
      <4>2. k + 1 \in Nat
        OBVIOUS
      <4>3. QED
        BY <4>1, <4>2
    <3>4. ((x + p) - Start[j]) % p = 0
      BY <3>2, <3>3
    <3>5. QED
      BY <1>1, <1>3, <2>1, <2>2, <3>4
  <2>3. ASSUME NEW s \in Slots(j), s > x PROVE x + p <= End[j]
    <3>1. s \in Nat /\ Start[j] <= s /\ s <= End[j] /\ (s - Start[j]) % p = 0
      BY <1>1, <1>3
    <3>2. PICK k \in Nat : x - Start[j] = k * p
      BY <1>1, <2>1, MultipleOf
    <3>3. PICK l \in Nat : s - Start[j] = l * p
      BY <1>1, <3>1, MultipleOf
    <3>4. s - x = (l - k) * p
      BY <1>1, <2>1, <3>1, <3>2, <3>3
    <3>5. l > k
      <4>1. CASE l <= k
        <5>1. l * p <= k * p /\ l * p \in Nat /\ k * p \in Nat
          BY <1>1, <4>1, ProductGrows
        <5>2. s - Start[j] <= x - Start[j]
          BY <3>2, <3>3, <5>1
        <5>3. QED
          BY <1>1, <2>1, <2>3, <3>1, <5>2
      <4>2. QED
        BY <4>1
    <3>6. (l - k) * p >= p
      BY <1>1, <3>5
    <3>7. QED
      BY <1>1, <2>1, <3>1, <3>4, <3>6
  <2>4. x + p <= End[j] <=> ~IsLast(j, x)
    BY <1>0, <1>1, <2>1 DEF IsLast
  <2>5. ~IsLast(j, x) <=> \E s \in Slots(j) : s > x
    <3>1. ASSUME ~IsLast(j, x) PROVE \E s \in Slots(j) : s > x
      <4>1. x + p \in Slots(j) /\ x + p > x
        BY <1>1, <2>1, <2>2, <2>4, <3>1
      <4>2. QED
        BY <4>1
    <3>2. QED
      BY <2>3, <2>4, <3>1
  <2>6. QED
    BY <1>5, <2>5
<1>6. QED
  BY <1>4, <1>5

(* A run is for a time computed within some block, flagged by that test.   *)
Flagged(r) ==
  /\ \E b \in Nat : r.at = At(r.job, b)
  /\ r.last <=> IsLast(r.job, r.at)

FlagsInv ==
  /\ TypeOK /\ Timed
  /\ \A a \in alarms : Flagged(a.run)
  /\ \A r \in runs : Flagged(r)

LEMMA FlagsNext == FlagsInv /\ [Next]_vars => FlagsInv'
<1> SUFFICES ASSUME FlagsInv, [Next]_vars
             PROVE  (\A a \in alarms : Flagged(a.run))' /\ (\A r \in runs : Flagged(r))'
  BY TypeNext, TimedNext DEF FlagsInv
<1>1. ASSUME NEW c \in calls, Arm(c)
      PROVE  (\A a \in alarms : Flagged(a.run))' /\ (\A r \in runs : Flagged(r))'
  <2> DEFINE n == [job |-> c.job, at |-> c.at, last |-> IsLast(c.job, c.at)]
  <2>1. \A a \in alarms' : a \in alarms \/ a.run = n
    BY <1>1 DEF Arm
  <2>2. n.job = c.job /\ n.at = c.at /\ (n.last <=> IsLast(c.job, c.at))
    OBVIOUS
  <2>3. c.block \in Nat /\ c.at = At(c.job, c.block)
    BY <1>1 DEF FlagsInv, TypeOK, Timed, Arm, Resolving, Placing, Arming
  <2> HIDE DEF n
  <2>4. Flagged(n)
    BY <2>2, <2>3 DEF Flagged
  <2>5. runs' = runs
    BY <1>1 DEF Arm
  <2>6. QED
    BY <2>1, <2>4, <2>5 DEF FlagsInv
<1>2. ASSUME NEW a \in alarms, Fire(a)
      PROVE  (\A d \in alarms : Flagged(d.run))' /\ (\A r \in runs : Flagged(r))'
  BY <1>2 DEF Fire, FlagsInv
<1>3. CASE alarms' \subseteq alarms /\ runs' = runs
  BY <1>3 DEF FlagsInv
<1>4. \/ \E c \in calls : Arm(c)
      \/ \E a \in alarms : Fire(a)
      \/ alarms' \subseteq alarms /\ runs' = runs
  BY DEF Next, vars, FetchTezos, FetchAcurast, ResolveFails, Read, Place, Tick, Flush, Crash, Reboot
<1>5. QED
  BY <1>1, <1>2, <1>3, <1>4

(* isLastReport is true for the run at a periodic job's final slot and for *)
(* one at its end, and for no other, in whatever block a fetch came.       *)
THEOREM LastIsFlagged == Spec => []LastRuns
<1>1. Init => FlagsInv
  BY TypeInit DEF Init, FlagsInv, Timed
<1>2. FlagsInv => LastRuns
  <2> SUFFICES ASSUME FlagsInv, Unit = 1, NEW r \in runs, Interval[r.job] > 0
               PROVE  r.last <=> r.at = End[r.job] \/ ~(\E s \in Slots(r.job) : s > r.at)
    BY DEF LastRuns
  <2>1. r.job \in Jobs /\ Flagged(r)
    BY DEF FlagsInv, TypeOK, Runs
  <2>2. r.at \in Slots(r.job) \cup {End[r.job]}
    BY <2>1, AtIsSlot DEF Flagged
  <2>3. IsLast(r.job, r.at) <=> r.at = End[r.job] \/ ~(\E s \in Slots(r.job) : s > r.at)
    BY <2>1, <2>2, LastIsLast
  <2>4. QED
    BY <2>1, <2>3 DEF Flagged
<1>3. QED
  BY <1>1, <1>2, FlagsNext, PTL DEF Spec

--------------------------------------------------------------------------------
(* Once each.                                                              *)

(* A periodic job's next time lies ahead, or is its end.                   *)
LEMMA NextIsLater ==
  ASSUME NEW j \in Jobs, Interval[j] > 0, NEW t \in Nat
  PROVE  NextAt(j, t) > t \/ NextAt(j, t) = End[j]
<1> DEFINE p == Period(j)
           q == t \div p
           r == Start[j] % p
           x == (q + 1) * p + r
<1>1. Start[j] \in Nat /\ End[j] \in Nat
  BY JobsAssumption
<1>2. p \in Nat \ {0}
  BY PeriodType
<1>3. t = q * p + (t % p) /\ q \in Nat /\ t % p \in Nat /\ t % p < p
  BY <1>2, Division
<1>4. r \in Nat
  BY <1>1, <1>2, Division
<1>5. (q + 1) * p = q * p + p /\ q * p \in Nat
  <2>1. \A a, b \in Nat : (a + 1) * b = a * b + b /\ a * b \in Nat
    OBVIOUS
  <2> HIDE DEF p, q
  <2>2. QED
    BY <1>2, <1>3, <2>1
<1>6. x \in Nat /\ x > t
  <2> DEFINE m == q * p
             u == t % p
  <2>1. x = m + p + r /\ t = m + u /\ m \in Nat /\ u \in Nat /\ u < p
    BY <1>3, <1>5
  <2> HIDE DEF x, m, u, p, q, r
  <2>2. QED
    BY <1>2, <1>4, <2>1
<1>7. NextAt(j, t) = Smaller(Larger(Start[j], x), End[j])
  BY DEF NextAt, Block
<1> HIDE DEF x, p, q, r
<1>8. QED
  BY <1>1, <1>6, <1>7 DEF Smaller, Larger

(* What OnceEach makes an exception of.                                    *)
Excused(j, at) == Interval[j] = 0 \/ at = End[j] \/ <<j, at>> \in slow

(* Once the clock has reached a time, no call is left that would arm an    *)
(* alarm for it: a run that was started has no alarm any more, since each  *)
(* run has one code and each code one alarm.                               *)
OnceInv ==
  /\ \A c \in calls : c.stage # "resolve" => c.at > now \/ Excused(c.job, c.at)
  /\ \A r \in runs : r.at <= now
  /\ \A a \in alarms : a.run \in runs => Excused(a.run.job, a.run.at)
  /\ \A a, b \in alarms : a.code = b.code => a = b
  /\ \A x \in again : Excused(x[1], x[2])

RunsInv == IInv /\ (Undisturbed => OnceInv)

LEMMA ReadOnce ==
  ASSUME TypeOK, OnceInv, NEW c \in calls, Read(c)
  PROVE  OnceInv'
<1> DEFINE n == [stage |-> "place", job |-> c.job, at |-> NextAt(c.job, now),
                 block |-> Block(c.job, now), next |-> mem.next]
<1>1. /\ \A d \in calls' : d \in calls \/ d = n
      /\ n.job = c.job /\ n.at = NextAt(c.job, now)
      /\ UNCHANGED <<now, slow, runs, alarms, again>>
  BY DEF Read
<1> HIDE DEF n
<1>2. c.job \in Jobs /\ now \in Nat
  BY DEF TypeOK, Resolving, Placing, Arming
<1>3. n.at > now \/ Excused(n.job, n.at)
  <2>1. Interval[c.job] \in Nat
    BY <1>2, JobsAssumption
  <2>2. CASE Interval[c.job] > 0
    BY <1>1, <1>2, <2>2, NextIsLater DEF Excused
  <2>3. QED
    BY <1>1, <2>1, <2>2 DEF Excused
<1>4. QED
  BY <1>1, <1>3 DEF OnceInv, Excused

LEMMA ArmOnce ==
  ASSUME TypeOK, OnceInv, NEW c \in calls, Arm(c)
  PROVE  OnceInv'
<1> DEFINE n == [code |-> c.code,
                 run |-> [job |-> c.job, at |-> c.at, last |-> IsLast(c.job, c.at)]]
<1>1. /\ \A a \in alarms' : a = n \/ (a \in alarms /\ a.code # c.code)
      /\ n.code = c.code /\ n.run.job = c.job /\ n.run.at = c.at
      /\ calls' \subseteq calls
      /\ UNCHANGED <<now, slow, runs, again>>
  BY DEF Arm
<1> HIDE DEF n
<1>2. c.stage # "resolve" /\ c.at \in Nat /\ now \in Nat
  BY DEF Arm, TypeOK, Resolving, Placing, Arming
<1>3. n.run \in runs => Excused(n.run.job, n.run.at)
  <2>1. c.at > now \/ Excused(c.job, c.at)
    BY <1>2 DEF OnceInv
  <2>2. n.run \in runs => c.at <= now
    BY <1>1 DEF OnceInv
  <2>3. QED
    BY <1>1, <1>2, <2>1, <2>2
<1>4. \A a, b \in alarms' : a.code = b.code => a = b
  BY <1>1 DEF OnceInv
<1>5. QED
  BY <1>1, <1>3, <1>4 DEF OnceInv, Excused

LEMMA FireOnce ==
  ASSUME TypeOK, CodesInv, OnceInv, NEW a \in alarms, Fire(a)
  PROVE  OnceInv'
<1>1. /\ alarms' = alarms \ {a} /\ runs' = runs \cup {a.run} /\ a.run.at <= now
      /\ UNCHANGED <<now, slow, calls>>
  BY DEF Fire
<1>2. \A r \in runs' : r.at <= now
  BY <1>1 DEF OnceInv
<1>3. ASSUME NEW b \in alarms', b.run \in runs' PROVE Excused(b.run.job, b.run.at)
  <2>1. b \in alarms /\ b # a
    BY <1>1
  <2>2. b.run # a.run
    <3>1. SUFFICES ASSUME b.run = a.run PROVE FALSE
      OBVIOUS
    <3>2. /\ Name(a.run.job, a.run.at, a.code) \in mem.codes
          /\ Name(b.run.job, b.run.at, b.code) \in mem.codes
      BY <2>1 DEF CodesInv
    <3>3. Name(a.run.job, a.run.at, a.code) = Name(b.run.job, b.run.at, b.code)
      BY <3>1, <3>2 DEF CodesInv, Name
    <3>4. a.code = b.code
      BY <3>3 DEF Name
    <3>5. QED
      BY <2>1, <3>4 DEF OnceInv
  <2>3. QED
    BY <1>1, <1>3, <2>1, <2>2 DEF OnceInv
<1>4. ASSUME NEW x \in again' PROVE Excused(x[1], x[2])
  <2>1. x \in again \/ (a.run \in runs /\ x = <<a.run.job, a.run.at>>)
    BY DEF Fire
  <2>2. QED
    BY <2>1 DEF OnceInv
<1>5. QED
  BY <1>1, <1>2, <1>3, <1>4 DEF OnceInv, Excused

LEMMA TickOnce ==
  ASSUME TypeOK, OnceInv, Tick
  PROVE  OnceInv'
<1>1. /\ now' = now + 1 /\ slow \subseteq slow'
      /\ UNCHANGED <<calls, alarms, runs, again>>
  BY DEF Tick
<1>2. ASSUME NEW c \in calls, c.stage # "resolve" PROVE c.at > now' \/ Excused(c.job, c.at)'
  <2>1. c.at \in Nat /\ now \in Nat
    BY <1>2 DEF TypeOK, Resolving, Placing, Arming
  <2>2. CASE c.at <= now + 1
    BY <1>2, <2>2 DEF Tick, Excused
  <2>3. CASE c.at > now + 1
    BY <1>1, <2>3
  <2>4. QED
    BY <2>1, <2>2, <2>3
<1>3. \A r \in runs : r.at <= now'
  <2>1. \A r \in runs : r.at \in Nat
    BY DEF TypeOK, Runs
  <2>2. QED
    BY <1>1, <2>1 DEF TypeOK, OnceInv
<1>4. QED
  BY <1>1, <1>2, <1>3 DEF OnceInv, Excused

LEMMA OnceNext == RunsInv /\ [Next]_vars /\ Undisturbed' => OnceInv'
<1> SUFFICES ASSUME RunsInv, [Next]_vars, Undisturbed' PROVE OnceInv'
  OBVIOUS
<1>1. Undisturbed
  BY StillUndisturbed
<1>2. TypeOK /\ CodesInv /\ OnceInv
  BY <1>1 DEF RunsInv, IInv
<1>3. ASSUME NEW c \in calls, Read(c) \/ Arm(c) PROVE OnceInv'
  BY <1>2, <1>3, ReadOnce, ArmOnce
<1>4. ASSUME NEW a \in alarms, Fire(a) PROVE OnceInv'
  BY <1>2, <1>4, FireOnce
<1>5. CASE Tick
  BY <1>2, <1>5, TickOnce
<1>6. ASSUME NEW c \in calls, Place(c) PROVE OnceInv'
  <2>1. \A d \in calls' : d \in calls \/ (d.job = c.job /\ d.at = c.at)
    BY <1>6 DEF Place
  <2>2. c.stage # "resolve" /\ UNCHANGED <<now, slow, alarms, runs, again>>
    BY <1>6 DEF Place
  <2>3. QED
    BY <1>2, <2>1, <2>2 DEF OnceInv, Excused
<1>7. CASE /\ \A d \in calls' : d.stage # "resolve" => d \in calls
           /\ alarms' \subseteq alarms
           /\ UNCHANGED <<now, slow, runs, again>>
  BY <1>2, <1>7 DEF OnceInv, Excused
<1>8. \/ \E c \in calls : Read(c) \/ Arm(c) \/ Place(c)
      \/ \E a \in alarms : Fire(a)
      \/ Tick
      \/ /\ \A d \in calls' : d.stage # "resolve" => d \in calls
         /\ alarms' \subseteq alarms
         /\ UNCHANGED <<now, slow, runs, again>>
  BY DEF Next, vars, FetchTezos, FetchAcurast, Schedule, ResolveFails, Flush, Crash, Reboot
<1>9. QED
  BY <1>3, <1>4, <1>5, <1>6, <1>7, <1>8

(* A job runs once for each of its times, however often it is fetched and  *)
(* whatever it shares a script with, but at its end, when it runs once in  *)
(* all, or when a call has read the clock and not armed its alarm in time. *)
THEOREM RunsOnce == Spec => []OnceEach
<1>1. Init => RunsInv
  <2>1. Init => OnceInv
    BY DEF Init, OnceInv
  <2>2. QED
    BY <2>1, InitIInv DEF RunsInv
<1>2. RunsInv /\ [Next]_vars => RunsInv'
  BY NextIInv, OnceNext DEF RunsInv
<1>3. RunsInv => OnceEach
  <2>1. TypeOK => \A x \in again : x = <<x[1], x[2]>>
    BY DEF TypeOK
  <2>2. QED
    BY <2>1 DEF RunsInv, IInv, OnceInv, OnceEach, Excused
<1>4. QED
  BY <1>1, <1>2, <1>3, PTL DEF Spec
================================================================================
