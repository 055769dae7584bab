----------------------------- MODULE MCJobSchedule -----------------------------
(***************************************************************************)
(* Two instances of JobSchedule; a behavior is one of either.  Of Tezos,   *)
(* until the time 3: a periodic job that begins at 2, and its twin, a job  *)
(* with the same script that runs once at 2.  Of Acurast, until 5: a job   *)
(* alone, which runs at 3 and 5, and ends at 6 before another run.         *)
(***************************************************************************)
EXTENDS JobSchedule

CONSTANTS periodic, twin, alone

VARIABLE listed  \* the jobs on the chain

MCScript == [j \in Jobs |-> IF j = alone THEN alone ELSE periodic]
MCStart == [j \in Jobs |-> IF j = alone THEN 3 ELSE 2]
MCEnd == [j \in Jobs |-> IF j = twin THEN 2 ELSE 6]
MCInterval == [j \in Jobs |-> IF j = twin THEN 0 ELSE 2]

Acurast == INSTANCE JobSchedule WITH UsingAcurast <- TRUE, MaxTime <- 5

MCInit == Init /\ listed \in {{periodic, twin}, {alone}}

MCNext ==
  /\ IF alone \in listed THEN Acurast!Next ELSE Next
  /\ acked' \subseteq listed /\ \A c \in calls' : c.job \in listed
  /\ UNCHANGED listed

MCSpec == MCInit /\ [][MCNext]_<<vars, listed>>
================================================================================
