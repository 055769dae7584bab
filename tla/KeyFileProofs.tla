----------------------------- MODULE KeyFileProofs -----------------------------
(***************************************************************************)
(* Theorems about KeyFile, for any number of threads, keys and failures.   *)
(***************************************************************************)
EXTENDS KeyFile, TLAPS

USE KeyFileAssumption DEF threadVars, storage, history

LEMMA NoneIsNoKey == Keys \subseteq Nat /\ None \notin Keys /\ 1 \in Keys
BY DEF Keys, None

(* What the three parts of the file are after one of them was written. *)
LEMMA Written ==
  ASSUME NEW f \in Contents, NEW k \in Keys \cup {None}
  PROVE  /\ [f EXCEPT !.public = k] = [public |-> k, iv |-> f.iv, key |-> f.key]
         /\ [f EXCEPT !.iv = k] = [public |-> f.public, iv |-> k, key |-> f.key]
         /\ [f EXCEPT !.key = k] = [public |-> f.public, iv |-> f.iv, key |-> k]
BY DEF Contents

--------------------------------------------------------------------------------
(* Types.                                                                  *)

LEMMA TypeInit == Init => TypeOK
<1> SUFFICES ASSUME Init PROVE TypeOK
  OBVIOUS
<1>1. Empty \in Contents
  BY DEF Empty, Contents
<1>2. /\ thrown \in BOOLEAN /\ overlap \in BOOLEAN /\ fault \in BOOLEAN
      /\ exists \in BOOLEAN
  BY DEF Init
<1>3. QED
  BY <1>1, <1>2 DEF Init, TypeOK, Steps

LEMMA ReturnTypes ==
  ASSUME TypeOK, NEW t \in Threads, Return(t) \/ GoOn(t)
  PROVE  /\ pc' \in [Threads -> Steps]
         /\ private' \in [Threads -> BOOLEAN]
         /\ mine' \in [Threads -> Keys \cup {None}]
         /\ seen' \in [Threads -> Contents]
         /\ pc'[t] \in {"idle", "read public"}
         /\ \A u \in Threads \ {t} : pc'[u] = pc[u]
<1>1. Empty \in Contents
  BY DEF Empty, Contents
<1>2. CASE Return(t)
  BY <1>1, <1>2 DEF TypeOK, Return, Goto, Steps
<1>3. CASE GoOn(t)
  BY <1>3 DEF TypeOK, GoOn, Goto, Steps
<1>4. QED
  BY <1>2, <1>3

LEMMA DeleteTypes ==
  ASSUME TypeOK, NEW t \in Threads, Delete(t)
  PROVE  /\ pc' \in [Threads -> Steps]
         /\ private' \in [Threads -> BOOLEAN] /\ linked' \in [Threads -> BOOLEAN]
         /\ mine' \in [Threads -> Keys \cup {None}]
         /\ seen' \in [Threads -> Contents]
         /\ exists' = FALSE /\ file' = Empty /\ file' \in Contents
         /\ \A u \in Threads : ~linked'[u]
         /\ given' \subseteq Results /\ thrown' = thrown
         /\ pc'[t] \in {"idle", "read public"}
         /\ \A u \in Threads \ {t} : pc'[u] = pc[u]
         /\ \A r \in given' : r \in given \/ r.private
<1>1. Empty \in Contents
  BY DEF Empty, Contents
<1>2. Return(t) \/ GoOn(t)
  BY DEF Delete
<1>3. [private |-> TRUE, key |-> None] \in Results
  BY DEF Results
<1>4. given' \subseteq Results /\ thrown' = thrown /\ \A r \in given' : r \in given \/ r.private
  <2>1. /\ given' = given \cup {[private |-> TRUE, key |-> None]} \/ given' = given
        /\ thrown' = thrown
    BY DEF Delete, Answer
  <2>2. given \subseteq Results
    BY DEF TypeOK
  <2>3. [private |-> TRUE, key |-> None].private = TRUE
    OBVIOUS
  <2>4. \A r \in given' : r \in given \/ r.private
    BY <2>1, <2>3
  <2>5. QED
    BY <1>3, <2>1, <2>2, <2>4
<1>5. QED
  BY <1>1, <1>2, <1>4, ReturnTypes DEF Delete

LEMMA TypeNext == TypeOK /\ [Next]_vars => TypeOK'
<1> SUFFICES ASSUME TypeOK, [Next]_vars PROVE TypeOK'
  OBVIOUS
<1>1. ASSUME NEW t \in Threads, Call(t) PROVE TypeOK'
  BY <1>1 DEF TypeOK, Call, Goto, Steps, Creating
<1>2. ASSUME NEW t \in Threads, Check(t) PROVE TypeOK'
  <2>1. pc' \in [Threads -> Steps] /\ ~linked[t] /\ \A u \in Threads \ {t} : pc'[u] = pc[u]
    BY <1>2 DEF TypeOK, Check, Goto, Steps, Creating
  <2>2. overlap' \in BOOLEAN
    BY <1>2 DEF Check
  <2>3. QED
    BY <1>2, <2>1, <2>2 DEF TypeOK, Check
<1>3. ASSUME NEW t \in Threads, Open(t) PROVE TypeOK'
  <2>1. Empty \in Contents
    BY DEF Empty, Contents
  <2>2. QED
    BY <1>3, <2>1 DEF TypeOK, Open, Goto, Steps, Creating
<1>4. ASSUME NEW t \in Threads, Generate(t) PROVE TypeOK'
  <2>1. created + 1 \in Keys /\ created + 1 \in 0 .. Creations
    <3>1. created \in 0 .. Creations /\ created < Creations
      BY <1>4 DEF TypeOK, Generate
    <3>2. QED
      BY <3>1 DEF Keys
  <2>2. QED
    BY <1>4, <2>1 DEF TypeOK, Generate, Goto, Steps, Creating
<1>5. ASSUME NEW t \in Threads, WritePublic(t) PROVE TypeOK'
  <2>1. file' \in Contents
    BY <1>5, Written DEF TypeOK, WritePublic, Write, Contents
  <2>2. QED
    BY <1>5, <2>1 DEF TypeOK, WritePublic, Goto, Steps, Creating
<1>6. ASSUME NEW t \in Threads, WriteIv(t) PROVE TypeOK'
  <2>1. file' \in Contents
    BY <1>6, Written DEF TypeOK, WriteIv, Write, Contents
  <2>2. QED
    BY <1>6, <2>1 DEF TypeOK, WriteIv, Goto, Steps, Creating
<1>7. ASSUME NEW t \in Threads, WriteKey(t) PROVE TypeOK'
  <2>1. file' \in Contents
    BY <1>7, Written DEF TypeOK, WriteKey, Write, Contents
  <2>2. [private |-> TRUE, key |-> mine[t]] \in Results
    BY DEF TypeOK, Results
  <2>3. given' \subseteq Results /\ thrown' = thrown
    BY <1>7, <2>2 DEF TypeOK, WriteKey, Answer
  <2>4. Return(t) \/ GoOn(t)
    BY <1>7 DEF WriteKey
  <2>5. linked' \in [Threads -> BOOLEAN] /\ ~linked'[t] /\ \A u \in Threads \ {t} : linked'[u] = linked[u]
    BY <1>7 DEF TypeOK, WriteKey
  <2>6. QED
    BY <1>7, <2>1, <2>3, <2>4, <2>5, ReturnTypes DEF TypeOK, WriteKey
<1>8. ASSUME NEW t \in Threads, Load(t) PROVE TypeOK'
  <2>1. (IF exists THEN file ELSE Empty) \in Contents
    BY DEF TypeOK, Empty, Contents
  <2>2. QED
    BY <1>8, <2>1 DEF TypeOK, Load, Goto, Steps, Creating
<1>9. ASSUME NEW t \in Threads, Decrypt(t) PROVE TypeOK'
  <2>1. [private |-> TRUE, key |-> seen[t].key] \in Results
    BY DEF TypeOK, Results, Contents
  <2>2. given' \subseteq Results /\ thrown' = thrown
    BY <1>9, <2>1 DEF TypeOK, Decrypt, Answer
  <2>3. Return(t) /\ ~linked[t]
    BY <1>9 DEF TypeOK, Decrypt, Creating
  <2>4. QED
    BY <1>9, <2>2, <2>3, ReturnTypes DEF TypeOK, Decrypt
<1>10. ASSUME NEW t \in Threads, DecryptFails(t) \/ OperationFails(t) PROVE TypeOK'
  <2>1. Delete(t)
    BY <1>10 DEF DecryptFails, OperationFails
  <2>2. fault' \in BOOLEAN /\ faults' \in 0 .. Faults
    <3>1. CASE DecryptFails(t)
      BY <3>1 DEF TypeOK, DecryptFails
    <3>2. CASE OperationFails(t)
      <4>1. faults \in 0 .. Faults /\ faults < Faults /\ faults' = faults + 1
        BY <3>2 DEF TypeOK, OperationFails
      <4>2. faults' \in 0 .. Faults
        BY <4>1
      <4>3. fault' = TRUE
        BY <3>2 DEF OperationFails
      <4>4. QED
        BY <4>2, <4>3
    <3>3. QED
      BY <1>10, <3>1, <3>2
  <2>3. UNCHANGED <<alias, created, overlap>>
    BY <1>10 DEF DecryptFails, OperationFails
  <2>4. QED
    BY <2>1, <2>2, <2>3, DeleteTypes DEF TypeOK
<1>11. ASSUME NEW t \in Threads, ReadPublic(t) PROVE TypeOK'
  <2>1. [private |-> FALSE, key |-> file.public] \in Results
    BY DEF TypeOK, Results, Contents
  <2>2. given' \subseteq Results /\ thrown' \in BOOLEAN
    BY <1>11, <2>1 DEF TypeOK, ReadPublic, Answer
  <2>3. Return(t) /\ ~linked[t]
    BY <1>11 DEF TypeOK, ReadPublic, Creating
  <2>4. QED
    BY <1>11, <2>2, <2>3, ReturnTypes DEF TypeOK, ReadPublic
<1>12. ASSUME Crash PROVE TypeOK'
  <2>1. Empty \in Contents
    BY DEF Empty, Contents
  <2>2. fault' \in BOOLEAN
    BY <1>12 DEF Crash
  <2>3. faults' \in 0 .. Faults
    <3>1. faults \in 0 .. Faults /\ faults < Faults /\ faults' = faults + 1
      BY <1>12 DEF TypeOK, Crash
    <3>2. QED
      BY <3>1
  <2>4. \A t \in Threads : ~linked'[t]
    BY <1>12 DEF Crash
  <2>5. QED
    BY <1>12, <2>1, <2>2, <2>3, <2>4 DEF TypeOK, Crash, Steps
<1>13. ASSUME UNCHANGED vars PROVE TypeOK'
  BY <1>13 DEF TypeOK, vars
<1>14. QED
  BY <1>1, <1>2, <1>3, <1>4, <1>5, <1>6, <1>7, <1>8, <1>9, <1>10, <1>11, <1>12, <1>13
  DEF Next, Step

(* Every thread is at a line of getOrCreatePrivateKey or getPublicKey, and *)
(* only a thread that creates the file has a stream of it.                 *)
THEOREM TypeCorrect == Spec => []TypeOK
BY TypeInit, TypeNext, PTL DEF Spec

--------------------------------------------------------------------------------
(* The file.                                                               *)

(* What a thread at creation finds in its file. *)
FileOf(t) ==
  /\ pc[t] = "open" => ~exists
  /\ pc[t] # "open" => linked[t] /\ exists
  /\ pc[t] = "generate" => file = Empty
  /\ pc[t] \in {"write public", "write iv", "write key"} =>
       mine[t] # None /\ mine[t] = alias /\ file.key = None
  /\ pc[t] = "write public" => file = Empty
  /\ pc[t] = "write iv" => file.public = mine[t]
  /\ pc[t] = "write key" => file.public = mine[t] /\ file.iv = mine[t]

(* Without an overlap: a creating thread is the only one to use the file,  *)
(* which holds what it has written so far; the others have read what is    *)
(* there, or what was there before it was deleted.                         *)
FileInv ==
  /\ \A t, u \in Threads : AtCreation(t) /\ AtCreation(u) => t = u
  /\ \A t, u \in Threads : AtCreation(t) => pc[u] \notin {"load", "decrypt"}
  /\ \A t \in Threads : AtCreation(t) => FileOf(t)
  /\ ~exists => file = Empty
  /\ file # Empty => file.public # None
  /\ file.key # None => file.public = file.key /\ file.iv = file.key /\ file.key = alias
  /\ \A t \in Threads : pc[t] = "decrypt" /\ exists => seen[t] = file
  /\ \A r \in given : ~r.private => r.key # None

IInv == TypeOK /\ (~overlap => FileInv)

LEMMA InitIInv == Init => IInv
<1>1. Init => FileInv
  BY DEF Init, FileInv, AtCreation, Creating, Empty
<1>2. QED
  BY <1>1, TypeInit DEF IInv

LEMMA EmptyFile == Empty.public = None /\ Empty.iv = None /\ Empty.key = None
BY DEF Empty

(* Deleting keeps the invariant whenever its thread is the only one at     *)
(* creation, or nobody is.                                                 *)
LEMMA DeleteKeeps ==
  ASSUME TypeOK, FileInv, NEW t \in Threads, Delete(t),
         AtCreation(t) \/ pc[t] \in {"load", "decrypt"}
  PROVE  FileInv'
<1>1. \A u \in Threads : ~AtCreation(u)'
  BY DeleteTypes DEF FileInv, AtCreation, Creating
<1>2. exists' = FALSE /\ file' = Empty /\ \A r \in given' : r \in given \/ r.private
  BY DeleteTypes
<1>3. QED
  BY <1>1, <1>2, EmptyFile DEF FileInv

(* An overlap is never forgotten. *)
LEMMA OverlapStays == [Next]_vars /\ ~overlap' => ~overlap
<1> SUFFICES ASSUME [Next]_vars, ~overlap' PROVE ~overlap
  OBVIOUS
<1>1. ASSUME NEW t \in Threads, Call(t) \/ Check(t) \/ Open(t) \/ Generate(t) PROVE ~overlap
  BY <1>1 DEF Call, Check, Open, Generate
<1>2. ASSUME NEW t \in Threads, WritePublic(t) \/ WriteIv(t) \/ WriteKey(t) PROVE ~overlap
  BY <1>2 DEF WritePublic, WriteIv, WriteKey
<1>3. ASSUME NEW t \in Threads, Load(t) \/ Decrypt(t) \/ DecryptFails(t) PROVE ~overlap
  BY <1>3 DEF Load, Decrypt, DecryptFails, Delete
<1>4. ASSUME NEW t \in Threads, OperationFails(t) \/ ReadPublic(t) PROVE ~overlap
  BY <1>4 DEF OperationFails, ReadPublic, Delete
<1>5. Crash \/ UNCHANGED vars => ~overlap
  BY DEF Crash, vars, history
<1>6. QED
  BY <1>1, <1>2, <1>3, <1>4, <1>5 DEF Next, Step

LEMMA FileNext == IInv /\ [Next]_vars /\ ~overlap' => FileInv'
<1> SUFFICES ASSUME IInv, [Next]_vars, ~overlap' PROVE FileInv'
  OBVIOUS
<1>1. TypeOK
  BY DEF IInv
<1>2. ~overlap
  BY OverlapStays
<1>3. FileInv
  BY <1>2 DEF IInv
<1> USE EmptyFile DEF AtCreation, Creating
<1>4. ASSUME NEW t \in Threads, Call(t) PROVE FileInv'
  BY <1>1, <1>3, <1>4 DEF TypeOK, Call, Goto, FileInv, FileOf
<1>5. ASSUME NEW t \in Threads, Check(t) PROVE FileInv'
  <2>1. pc[t] = "check" /\ ~Overlaps(t)
    BY <1>5 DEF Check
  <2>2. /\ \A u \in Threads : ~AtCreation(u)
        /\ ~exists => \A u \in Threads : pc[u] \notin {"load", "decrypt"}
    BY <2>1 DEF Overlaps
  <2>3. CASE exists
    <3>1. pc'[t] \in {"load", "read public"} /\ \A u \in Threads \ {t} : pc'[u] = pc[u]
      BY <1>1, <1>5, <2>3 DEF TypeOK, Check, Goto
    <3>2. \A u \in Threads : ~AtCreation(u)'
      BY <2>2, <3>1
    <3>3. QED
      BY <1>3, <1>5, <3>1, <3>2 DEF Check, FileInv
  <2>4. CASE ~exists
    <3>1. pc'[t] = "open" /\ \A u \in Threads \ {t} : pc'[u] = pc[u]
      BY <1>1, <1>5, <2>4 DEF TypeOK, Check, Goto
    <3>2. \A u \in Threads : AtCreation(u)' => u = t
      BY <2>2, <3>1
    <3>3. \A u \in Threads : pc'[u] \notin {"load", "decrypt"}
      BY <2>2, <2>4, <3>1
    <3>4. FileOf(t)'
      BY <1>5, <2>4, <3>1 DEF Check, FileOf
    <3>5. QED
      BY <1>3, <1>5, <3>2, <3>3, <3>4 DEF Check, FileInv
  <2>5. QED
    BY <2>3, <2>4
<1>6. ASSUME NEW t \in Threads,
             Open(t) \/ Generate(t) \/ WritePublic(t) \/ WriteIv(t) \/ WriteKey(t)
      PROVE  FileInv'
  <2>1. AtCreation(t)
    BY <1>6 DEF Open, Generate, WritePublic, WriteIv, WriteKey
  <2>2. /\ \A u \in Threads : AtCreation(u) => u = t
        /\ \A u \in Threads : pc[u] \notin {"load", "decrypt"}
        /\ FileOf(t)
    BY <1>3, <2>1 DEF FileInv
  <2>3. /\ pc'[t] \notin {"load", "decrypt"}
        /\ \A u \in Threads \ {t} : pc'[u] = pc[u]
    BY <1>1, <1>6, ReturnTypes
    DEF TypeOK, Open, Generate, WritePublic, WriteIv, WriteKey, Goto
  <2>4. /\ \A u \in Threads : AtCreation(u)' => u = t
        /\ \A u \in Threads : pc'[u] \notin {"load", "decrypt"}
    BY <2>2, <2>3
  <2>5. file \in Contents /\ mine[t] \in Keys \cup {None} /\ created \in 0 .. Creations
    BY <1>1 DEF TypeOK
  <2> DEFINE Kept ==
        /\ AtCreation(t)' => FileOf(t)'
        /\ exists'
        /\ file' # Empty => file'.public # None
        /\ file'.key # None => file'.public = file'.key /\ file'.iv = file'.key /\ file'.key = alias'
        /\ \A r \in given' : ~r.private => r.key # None
  <2>6. ASSUME Open(t) PROVE Kept
    BY <1>1, <1>3, <2>6 DEF TypeOK, Open, Goto, FileOf, FileInv
  <2>7. ASSUME Generate(t) PROVE Kept
    <3>1. created + 1 # None
      BY <2>5 DEF None
    <3>2. QED
      BY <1>1, <1>3, <2>2, <2>7, <3>1 DEF TypeOK, Generate, Goto, FileOf, FileInv
  <2>8. ASSUME WritePublic(t) PROVE Kept
    <3>1. file' = [public |-> mine[t], iv |-> file.iv, key |-> file.key]
      BY <2>2, <2>5, <2>8, Written DEF WritePublic, Write, FileOf
    <3>2. QED
      BY <1>1, <1>3, <2>2, <2>8, <3>1 DEF TypeOK, WritePublic, Goto, FileOf, FileInv
  <2>9. ASSUME WriteIv(t) PROVE Kept
    <3>1. file' = [public |-> file.public, iv |-> mine[t], key |-> file.key]
      BY <2>2, <2>5, <2>9, Written DEF WriteIv, Write, FileOf
    <3>2. QED
      BY <1>1, <1>3, <2>2, <2>9, <3>1 DEF TypeOK, WriteIv, Goto, FileOf, FileInv
  <2>10. ASSUME WriteKey(t) PROVE Kept
    <3>1. file' = [public |-> file.public, iv |-> file.iv, key |-> mine[t]]
      BY <2>2, <2>5, <2>10, Written DEF WriteKey, Write, FileOf
    <3>2. ~AtCreation(t)'
      BY <1>1, <2>10, ReturnTypes DEF WriteKey
    <3>3. exists' = exists /\ alias' = alias /\ pc[t] = "write key"
      BY <2>10 DEF WriteKey
    <3>4. \A r \in given' : r \in given \/ r.private
      <4>1. given' = given \cup {[private |-> TRUE, key |-> mine[t]]} \/ given' = given
        BY <2>10 DEF WriteKey, Answer
      <4>2. [private |-> TRUE, key |-> mine[t]].private = TRUE
        OBVIOUS
      <4>3. QED
        BY <4>1, <4>2
    <3>5. QED
      BY <1>3, <2>2, <3>1, <3>2, <3>3, <3>4 DEF FileOf, FileInv
  <2>11. Kept
    BY <1>6, <2>6, <2>7, <2>8, <2>9, <2>10
  <2>12. QED
    BY <2>4, <2>11 DEF FileInv
<1>7. ASSUME NEW t \in Threads, Load(t) PROVE FileInv'
  <2>1. \A u \in Threads : ~AtCreation(u)
    BY <1>3, <1>7 DEF Load, FileInv
  <2>2. /\ pc'[t] = "decrypt" /\ (exists => seen'[t] = file)
        /\ \A u \in Threads \ {t} : pc'[u] = pc[u] /\ seen'[u] = seen[u]
    BY <1>1, <1>7 DEF TypeOK, Load, Goto
  <2>3. \A u \in Threads : ~AtCreation(u)'
    BY <2>1, <2>2
  <2>4. QED
    BY <1>3, <1>7, <2>2, <2>3 DEF Load, FileInv
<1>8. ASSUME NEW t \in Threads, Decrypt(t) PROVE FileInv'
  <2>1. \A u \in Threads : ~AtCreation(u)
    BY <1>3, <1>8 DEF Decrypt, FileInv
  <2>2. pc'[t] = "idle" /\ \A u \in Threads \ {t} : pc'[u] = pc[u] /\ seen'[u] = seen[u]
    BY <1>1, <1>8 DEF TypeOK, Decrypt, Return, Goto
  <2>3. \A r \in given' : r \in given \/ r.private
    <3>1. given' = given \cup {[private |-> TRUE, key |-> seen[t].key]}
      BY <1>8 DEF Decrypt, Answer
    <3>2. [private |-> TRUE, key |-> seen[t].key].private = TRUE
      OBVIOUS
    <3>3. QED
      BY <3>1, <3>2
  <2>4. \A u \in Threads : ~AtCreation(u)'
    BY <2>1, <2>2
  <2>5. QED
    BY <1>3, <1>8, <2>2, <2>3, <2>4 DEF Decrypt, FileInv
<1>9. ASSUME NEW t \in Threads, DecryptFails(t) \/ OperationFails(t) PROVE FileInv'
  <2>1. Delete(t) /\ (AtCreation(t) \/ pc[t] \in {"load", "decrypt"})
    BY <1>9 DEF DecryptFails, OperationFails
  <2>2. QED
    BY <1>1, <1>3, <2>1, DeleteKeeps
<1>10. ASSUME NEW t \in Threads, ReadPublic(t) PROVE FileInv'
  <2>1. /\ pc'[t] = "idle" /\ pc[t] = "read public"
        /\ \A u \in Threads \ {t} : pc'[u] = pc[u] /\ seen'[u] = seen[u] /\ mine'[u] = mine[u]
    BY <1>1, <1>10 DEF TypeOK, ReadPublic, Return, Goto
  <2>2. \A r \in given' : ~r.private => r.key # None
    <3>1. CASE exists /\ file # Empty
      <4>1. given' = given \cup {[private |-> FALSE, key |-> file.public]}
        BY <1>10, <3>1 DEF ReadPublic, Answer
      <4>2. file.public # None
        BY <1>3, <3>1 DEF FileInv
      <4>3. [private |-> FALSE, key |-> file.public].key = file.public
        OBVIOUS
      <4>4. QED
        BY <1>3, <4>1, <4>2, <4>3 DEF FileInv
    <3>2. CASE ~(exists /\ file # Empty)
      BY <1>3, <1>10, <3>2 DEF ReadPublic, FileInv
    <3>3. QED
      BY <3>1, <3>2
  <2>3. \A u \in Threads : AtCreation(u)' => AtCreation(u) /\ FileOf(u)'
    <3>1. TAKE u \in Threads
    <3>2. SUFFICES ASSUME AtCreation(u)' PROVE AtCreation(u) /\ FileOf(u)'
      OBVIOUS
    <3>3. u # t /\ pc'[u] = pc[u] /\ mine'[u] = mine[u]
      BY <2>1, <3>2
    <3>4. AtCreation(u) /\ FileOf(u)
      BY <1>3, <3>2, <3>3 DEF FileInv
    <3>5. linked' = linked /\ exists' = exists /\ file' = file /\ alias' = alias
      BY <1>10 DEF ReadPublic
    <3>6. FileOf(u)'
      BY <3>3, <3>4, <3>5 DEF FileOf
    <3>7. QED
      BY <3>4, <3>6
  <2>4. file' = file /\ exists' = exists /\ alias' = alias
    BY <1>10 DEF ReadPublic
  <2>5. \A u \in Threads : pc'[u] \in {"load", "decrypt"} =>
           pc[u] = pc'[u] /\ seen'[u] = seen[u]
    BY <2>1
  <2>6. /\ \A u, v \in Threads : AtCreation(u)' /\ AtCreation(v)' => u = v
        /\ \A u, v \in Threads : AtCreation(u)' => pc'[v] \notin {"load", "decrypt"}
    BY <1>3, <2>3, <2>5 DEF FileInv
  <2>7. \A u \in Threads : pc'[u] = "decrypt" /\ exists' => seen'[u] = file'
    BY <1>3, <2>4, <2>5 DEF FileInv
  <2>8. /\ ~exists' => file' = Empty
        /\ file' # Empty => file'.public # None
        /\ file'.key # None =>
             file'.public = file'.key /\ file'.iv = file'.key /\ file'.key = alias'
    BY <1>3, <2>4 DEF FileInv
  <2>9. QED
    BY <2>2, <2>3, <2>6, <2>7, <2>8 DEF FileInv
<1>11. ASSUME Crash PROVE FileInv'
  <2>1. \A u \in Threads : pc'[u] = "idle"
    BY <1>11 DEF Crash
  <2>2. QED
    BY <1>3, <1>11, <2>1 DEF Crash, FileInv
<1>12. ASSUME UNCHANGED vars PROVE FileInv'
  BY <1>3, <1>12 DEF vars, FileInv, FileOf
<1>13. QED
  BY <1>4, <1>5, <1>6, <1>7, <1>8, <1>9, <1>10, <1>11, <1>12 DEF Next, Step

LEMMA NextIInv == IInv /\ [Next]_vars => IInv'
BY TypeNext, FileNext DEF IInv

(* The invariant behind the theorems: what the key file holds while one    *)
(* thread creates it, and afterwards, whatever failed.                     *)
THEOREM Inductive == Spec => []IInv
BY InitIInv, NextIInv, PTL DEF Spec

(* Whatever fails or dies half-way, getPublicKey never returns a key that  *)
(* was not written, and a finished file is one creation's.                 *)
THEOREM NotGarbled == Spec => []PublicNotGarbled
<1>1. IInv => PublicNotGarbled
  BY DEF IInv, FileInv, PublicNotGarbled
<1>2. QED
  BY <1>1, Inductive, PTL

(* Without an overlap, only a failure while it is read makes a finished    *)
(* key go: the catch block never meets one it cannot decrypt.              *)
THEOREM CompleteStays == Spec => CompleteKeyStays
<1>1. ASSUME IInv, [Next]_vars, Complete, ~overlap
      PROVE  file' = file \/ \E t \in Threads : OperationFails(t)
  <2>1. FileInv
    BY <1>1 DEF IInv
  <2>2. \A t \in Threads : ~AtCreation(t)
    <3>1. ASSUME NEW t \in Threads, AtCreation(t) PROVE FALSE
      BY <1>1, <2>1, <3>1, EmptyFile DEF FileInv, FileOf, Complete, AtCreation, Creating
    <3>2. QED
      BY <3>1
  <2>3. \A t \in Threads : ~DecryptFails(t)
    BY <1>1, <2>1 DEF DecryptFails, FileInv, Complete
  <2>4. QED
    BY <1>1, <2>2, <2>3 DEF Next, Step, vars, Call, Check, Open, Generate, WritePublic, WriteIv,
       WriteKey, Load, Decrypt, ReadPublic, Crash, AtCreation, Creating
<1>2. QED
  BY <1>1, Inductive, PTL DEF CompleteKeyStays, Spec

--------------------------------------------------------------------------------
(* One key.                                                                *)

(* Without an overlap or a failure: the first creation is the only one. *)
OneInv ==
  /\ \A t \in Threads : pc[t] \in {"load", "decrypt", "read public"} => file.key = 1
  /\ \A t \in Threads : pc[t] \in {"open", "generate"} => created = 0
  /\ \A t \in Threads : pc[t] \in {"write public", "write iv", "write key"} => mine[t] = 1
  /\ exists => file.key = 1 \/ \E t \in Threads : AtCreation(t)
  /\ ~exists => created = 0
  /\ ~thrown /\ \A r \in given : r.key = 1

KeyInv == IInv /\ (~overlap /\ ~fault => OneInv)

LEMMA FinishedFile ==
  ASSUME FileInv, file.key = 1
  PROVE  exists /\ file # Empty /\ file.public = 1 /\ file.iv = 1 /\ alias = 1
<1>1. file.key # None
  BY DEF None
<1>2. file # Empty
  BY <1>1, EmptyFile
<1>3. QED
  BY <1>1, <1>2 DEF FileInv

LEMMA OneNext == KeyInv /\ [Next]_vars /\ ~overlap' /\ ~fault' => OneInv'
<1> SUFFICES ASSUME KeyInv, [Next]_vars, ~overlap', ~fault' PROVE OneInv'
  OBVIOUS
<1>1. TypeOK
  BY DEF KeyInv, IInv
<1>2. ~overlap
  BY DEF Next, Step, vars, Call, Check, Open, Generate, WritePublic, WriteIv, WriteKey, Load,
         Decrypt, DecryptFails, OperationFails, ReadPublic, Crash
<1>3. ~fault
  BY DEF Next, Step, vars, Call, Check, Open, Generate, WritePublic, WriteIv, WriteKey, Load,
         Decrypt, DecryptFails, OperationFails, ReadPublic, Crash
<1>4. FileInv /\ OneInv
  BY <1>2, <1>3 DEF KeyInv, IInv
<1> USE EmptyFile DEF AtCreation, Creating, None
<1>5. ASSUME NEW t \in Threads, Call(t) PROVE OneInv'
  <2>1. /\ pc'[t] = "check" /\ pc[t] = "idle"
        /\ \A u \in Threads \ {t} : pc'[u] = pc[u]
    BY <1>1, <1>5 DEF TypeOK, Call, Goto
  <2>2. QED
    BY <1>4, <1>5, <2>1 DEF Call, OneInv
<1>6. ASSUME NEW t \in Threads, Check(t) PROVE OneInv'
  <2>1. /\ pc[t] = "check" /\ ~Overlaps(t)
        /\ \A u \in Threads \ {t} : pc'[u] = pc[u]
    BY <1>1, <1>6 DEF TypeOK, Check, Goto
  <2>2. \A u \in Threads : ~AtCreation(u)
    BY <2>1 DEF Overlaps
  <2>3. CASE exists
    <3>1. pc'[t] \in {"load", "read public"} /\ file.key = 1
      BY <1>1, <1>4, <1>6, <2>2, <2>3 DEF TypeOK, Check, Goto, OneInv
    <3>2. QED
      BY <1>4, <1>6, <2>1, <2>3, <3>1 DEF Check, OneInv
  <2>4. CASE ~exists
    <3>1. pc'[t] = "open" /\ created = 0
      BY <1>1, <1>4, <1>6, <2>4 DEF TypeOK, Check, Goto, OneInv
    <3>2. QED
      BY <1>4, <1>6, <2>1, <2>4, <3>1 DEF Check, OneInv
  <2>5. QED
    BY <2>3, <2>4
<1>7. ASSUME NEW t \in Threads,
             Open(t) \/ Generate(t) \/ WritePublic(t) \/ WriteIv(t)
      PROVE  OneInv'
  <2>1. /\ AtCreation(t) /\ AtCreation(t)'
        /\ \A u \in Threads \ {t} : pc'[u] = pc[u] /\ mine'[u] = mine[u]
        /\ UNCHANGED <<given, thrown>>
    BY <1>1, <1>7 DEF TypeOK, Open, Generate, WritePublic, WriteIv, Goto
  <2>2. \A u \in Threads : AtCreation(u) => u = t
    BY <1>4, <2>1 DEF FileInv
  <2>3. FileOf(t) /\ file.key # 1
    <3>1. FileOf(t)
      BY <1>4, <2>1 DEF FileInv
    <3>2. file.key = None
      <4>1. CASE pc[t] = "open"
        BY <1>4, <3>1, <4>1 DEF FileInv, FileOf
      <4>2. CASE pc[t] # "open"
        BY <2>1, <3>1, <4>2 DEF FileOf
      <4>3. QED
        BY <4>1, <4>2
    <3>3. QED
      BY <3>1, <3>2
  <2>4. \A u \in Threads : pc[u] \notin {"load", "decrypt", "read public"}
    BY <1>4, <2>3 DEF OneInv
  <2>5. exists'
    BY <1>7, <2>3 DEF Open, Generate, WritePublic, WriteIv, FileOf
  <2>6. pc'[t] \in {"open", "generate"} => created' = 0
    BY <1>1, <1>4, <1>7 DEF TypeOK, Open, Generate, WritePublic, WriteIv, Goto, OneInv
  <2>7. pc'[t] \in {"write public", "write iv", "write key"} => mine'[t] = 1
    <3>1. CASE Open(t)
      BY <1>1, <3>1 DEF TypeOK, Open, Goto
    <3>2. CASE Generate(t)
      <4>1. created = 0
        BY <1>4, <3>2 DEF Generate, OneInv
      <4>2. mine'[t] = created + 1
        BY <1>1, <3>2 DEF TypeOK, Generate
      <4>3. mine'[t] = 1
        BY <4>1, <4>2
      <4>4. QED
        BY <4>3
    <3>3. CASE WritePublic(t) \/ WriteIv(t)
      BY <1>4, <3>3 DEF WritePublic, WriteIv, OneInv
    <3>4. QED
      BY <1>7, <3>1, <3>2, <3>3
  <2>8. QED
    BY <1>4, <2>1, <2>2, <2>4, <2>5, <2>6, <2>7 DEF OneInv
<1>8. ASSUME NEW t \in Threads, WriteKey(t) PROVE OneInv'
  <2>1. AtCreation(t) /\ pc[t] = "write key" /\ mine[t] = 1
    BY <1>4, <1>8 DEF WriteKey, OneInv
  <2>2. FileOf(t) /\ file \in Contents /\ mine[t] \in Keys \cup {None}
    BY <1>1, <1>4, <2>1 DEF FileInv, TypeOK
  <2>3. file' = [public |-> file.public, iv |-> file.iv, key |-> mine[t]]
    BY <1>8, <2>1, <2>2, Written DEF WriteKey, Write, FileOf
  <2>4. /\ \A u \in Threads \ {t} : pc'[u] = pc[u] /\ ~AtCreation(u)
        /\ pc'[t] \in {"idle", "read public"}
    BY <1>1, <1>4, <1>8, <2>1, ReturnTypes DEF WriteKey, FileInv
  <2>5. file'.key = 1 /\ exists'
    BY <1>8, <2>1, <2>2, <2>3 DEF WriteKey, FileOf
  <2>6. given' = given \cup {[private |-> TRUE, key |-> mine[t]]} \/ given' = given
    BY <1>8 DEF WriteKey, Answer
  <2>7. [private |-> TRUE, key |-> mine[t]].key = 1
    BY <2>1
  <2>8. (\A r \in given' : r.key = 1) /\ ~thrown'
    <3>1. thrown' = thrown
      BY <1>8 DEF WriteKey, Answer
    <3>2. QED
      BY <1>4, <2>6, <2>7, <3>1 DEF OneInv
  <2>9. QED
    BY <2>4, <2>5, <2>8 DEF OneInv
<1>9. ASSUME NEW t \in Threads, Load(t) PROVE OneInv'
  <2>1. /\ pc[t] = "load" /\ pc'[t] = "decrypt"
        /\ \A u \in Threads \ {t} : pc'[u] = pc[u]
    BY <1>1, <1>9 DEF TypeOK, Load, Goto
  <2>2. file.key = 1
    BY <1>4, <2>1 DEF OneInv
  <2>3. QED
    BY <1>4, <1>9, <2>1, <2>2 DEF Load, OneInv
<1>10. ASSUME NEW t \in Threads, Decrypt(t) PROVE OneInv'
  <2>1. /\ pc[t] = "decrypt" /\ pc'[t] = "idle"
        /\ \A u \in Threads \ {t} : pc'[u] = pc[u] /\ mine'[u] = mine[u]
    BY <1>1, <1>10 DEF TypeOK, Decrypt, Return, Goto
  <2>2. file.key = 1 /\ exists /\ seen[t] = file
    <3>1. file.key = 1
      BY <1>4, <2>1 DEF OneInv
    <3>2. exists
      BY <1>4, <3>1, FinishedFile
    <3>3. QED
      BY <1>4, <2>1, <3>1, <3>2 DEF FileInv
  <2>3. given' = given \cup {[private |-> TRUE, key |-> seen[t].key]} /\ thrown' = thrown
    BY <1>10 DEF Decrypt, Answer
  <2>4. [private |-> TRUE, key |-> seen[t].key].key = 1
    BY <2>2
  <2>5. (\A r \in given' : r.key = 1) /\ ~thrown'
    BY <1>4, <2>3, <2>4 DEF OneInv
  <2>6. \A u \in Threads : AtCreation(u)' <=> AtCreation(u)
    BY <2>1
  <2>7. QED
    BY <1>4, <1>10, <2>1, <2>2, <2>5, <2>6 DEF Decrypt, OneInv
<1>11. ASSUME NEW t \in Threads, DecryptFails(t) PROVE FALSE
  <2>1. pc[t] = "decrypt" /\ ~Sound(seen[t])
    BY <1>11 DEF DecryptFails
  <2>2. file.key = 1
    BY <1>4, <2>1 DEF OneInv
  <2>3. exists /\ file.iv = 1 /\ alias = 1
    BY <1>4, <2>2, FinishedFile
  <2>4. seen[t] = file
    BY <1>4, <2>1, <2>3 DEF FileInv
  <2>5. QED
    BY <2>1, <2>2, <2>3, <2>4 DEF Sound
<1>12. ASSUME NEW t \in Threads, OperationFails(t) PROVE FALSE
  BY <1>12 DEF OperationFails
<1>13. ASSUME NEW t \in Threads, ReadPublic(t) PROVE OneInv'
  <2>1. /\ pc[t] = "read public" /\ pc'[t] = "idle"
        /\ \A u \in Threads \ {t} : pc'[u] = pc[u] /\ mine'[u] = mine[u]
    BY <1>1, <1>13 DEF TypeOK, ReadPublic, Return, Goto
  <2>2. file.key = 1
    BY <1>4, <2>1 DEF OneInv
  <2>3. exists /\ file # Empty /\ file.public = 1
    BY <1>4, <2>2, FinishedFile
  <2>4. given' = given \cup {[private |-> FALSE, key |-> file.public]} /\ thrown' = thrown
    BY <1>13, <2>3 DEF ReadPublic, Answer
  <2>5. [private |-> FALSE, key |-> file.public].key = 1
    BY <2>3
  <2>6. (\A r \in given' : r.key = 1) /\ ~thrown'
    BY <1>4, <2>4, <2>5 DEF OneInv
  <2>7. QED
    BY <1>4, <1>13, <2>1, <2>2, <2>3, <2>6 DEF ReadPublic, OneInv
<1>14. ASSUME Crash PROVE OneInv'
  <2>1. \A u \in Threads : pc'[u] = "idle" /\ ~AtCreation(u)
    BY <1>14 DEF Crash
  <2>2. exists' = exists /\ file' = file /\ created' = created /\ given' = given /\ thrown' = thrown
    BY <1>14 DEF Crash
  <2>3. QED
    BY <1>4, <2>1, <2>2 DEF OneInv
<1>15. ASSUME UNCHANGED vars PROVE OneInv'
  BY <1>4, <1>15 DEF vars, OneInv
<1>16. QED
  BY <1>5, <1>6, <1>7, <1>8, <1>9, <1>10, <1>11, <1>12, <1>13, <1>14, <1>15 DEF Next, Step

(* However many threads ask for the key, all of them get the first one     *)
(* that was made, unless one overlaps a creation or something fails.       *)
THEOREM SingleKey == Spec => []OneKey
<1>1. Init => KeyInv
  <2>1. Init => OneInv
    BY DEF Init, OneInv
  <2>2. QED
    BY <2>1, InitIInv DEF KeyInv
<1>2. KeyInv /\ [Next]_vars => KeyInv'
  BY NextIInv, OneNext DEF KeyInv
<1>3. KeyInv => OneKey
  BY DEF KeyInv, OneInv, OneKey
<1>4. QED
  BY <1>1, <1>2, <1>3, PTL DEF Spec
================================================================================
