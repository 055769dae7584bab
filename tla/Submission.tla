------------------------------- MODULE Submission -------------------------------
(***************************************************************************)
(* What sending operations to a chain promises to the rest of the app: the *)
(* chain takes an operation once at most, and at most one of onSuccess and *)
(* onError is called, once, onSuccess only for what the chain has taken.   *)
(* TezosOperations implements this specification.                          *)
(***************************************************************************)
CONSTANTS
  Reveals,       \* operations that make the account's public key known
  Transactions   \* operations that need it known

Ops == Reveals \cup Transactions

VARIABLES
  result,   \* [Ops -> {"none", "pending", "ok", "error"}]
  taken,    \* operations the chain has taken
  known     \* the chain knows the public key

svars == <<result, taken, known>>

SInit ==
  /\ result = [o \in Ops |-> "none"]
  /\ taken = {}
  /\ known \in BOOLEAN

Become(o, from, to) ==
  /\ result[o] \in from
  /\ result' = [result EXCEPT ![o] = to]
  /\ UNCHANGED <<taken, known>>

(* Beginning may end at once: a bad argument, or a key known to be revealed. *)
Begin(o) == Become(o, {"none"}, "pending")

Succeed(o) ==
  /\ o \in taken \/ (o \in Reveals /\ known)
  /\ Become(o, {"none", "pending"}, "ok")

Fail(o) == Become(o, {"none", "pending"}, "error")

(* The chain may take an operation long after its failure was reported. *)
Accept(o) ==
  /\ result[o] # "none" /\ o \notin taken
  /\ o \in Transactions => known
  /\ taken' = taken \cup {o}
  /\ known' = (known \/ o \in Reveals)
  /\ UNCHANGED result

(* The chain takes an operation and its answer is delivered, or, after the *)
(* last retry, lost.                                                       *)
AcceptAndReport(o, to) ==
  /\ result[o] = "pending" /\ o \notin taken
  /\ o \in Transactions => known
  /\ taken' = taken \cup {o}
  /\ known' = (known \/ o \in Reveals)
  /\ result' = [result EXCEPT ![o] = to]

SNext ==
  \E o \in Ops :
    \/ Begin(o) \/ Succeed(o) \/ Fail(o) \/ Accept(o)
    \/ \E to \in {"ok", "error"} : AcceptAndReport(o, to)

SSpec == SInit /\ [][SNext]_svars
================================================================================
