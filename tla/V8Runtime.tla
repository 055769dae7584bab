------------------------------- MODULE V8Runtime -------------------------------
(***************************************************************************)
(* What the executor promises about a V8 runtime, said without threads,    *)
(* locks or polling: a runtime is created once, javascript is inside it at *)
(* most once at a time, and it is disposed of once, while no javascript is *)
(* inside it.  V8Execution implements this specification.                  *)
(***************************************************************************)
CONSTANTS
  Runs,    \* the executions, one runtime each
  Actors   \* whatever can run javascript in a runtime

VARIABLES
  phase,   \* [Runs -> {"none", "live", "over"}]
  inside   \* [Runs -> SUBSET Actors]: who is running javascript in it

rvars == <<phase, inside>>

RInit ==
  /\ phase = [j \in Runs |-> "none"]
  /\ inside = [j \in Runs |-> {}]

(* The runtime is created by the actor that then runs the script in it. *)
Create(j, a) ==
  /\ phase[j] = "none"
  /\ phase' = [phase EXCEPT ![j] = "live"]
  /\ inside' = [inside EXCEPT ![j] = {a}]

Enter(j, a) ==
  /\ phase[j] = "live"
  /\ inside[j] = {}
  /\ inside' = [inside EXCEPT ![j] = {a}]
  /\ UNCHANGED phase

Leave(j) ==
  /\ inside[j] # {}
  /\ inside' = [inside EXCEPT ![j] = {}]
  /\ UNCHANGED phase

(* Also the end of an execution whose runtime could not be created. *)
Dispose(j) ==
  /\ phase[j] # "over"
  /\ inside[j] = {}
  /\ phase' = [phase EXCEPT ![j] = "over"]
  /\ UNCHANGED inside

RNext ==
  \E j \in Runs :
    \/ \E a \in Actors : Create(j, a) \/ Enter(j, a)
    \/ Leave(j)
    \/ Dispose(j)

RSpec == RInit /\ [][RNext]_rvars
================================================================================
