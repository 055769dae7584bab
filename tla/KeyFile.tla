-------------------------------- MODULE KeyFile --------------------------------
(***************************************************************************)
(* The secp256k1 key of GenericEcdsa.  getOrCreatePrivateKey generates it  *)
(* when it is first needed and keeps it in a file: the public key, then    *)
(* the private key encrypted by a key of the Android key store.  Whoever   *)
(* signs, encrypts or asks for the address calls it, with nothing to keep  *)
(* the threads apart and nothing atomic about the file.                    *)
(*                                                                         *)
(* A creation is a number: that of the thread that made the store's key    *)
(* and the pair.  The file system and the key store are modelled from how  *)
(* the code uses them.                                                     *)
(***************************************************************************)
EXTENDS Naturals

CONSTANTS
  Threads,
  Creations,  \* bound: keys generated
  Faults      \* bound: operations of the disk or the key store that fail

ASSUME KeyFileAssumption == Creations \in Nat \ {0} /\ Faults \in Nat

None == 0
Keys == 1 .. Creations

VARIABLES
  pc,       \* what each thread does
  private,  \* whether it wants the private key
  mine,     \* the creation it is at
  linked,   \* its output stream is that of the file that is there
  seen,     \* the file's contents, as it has read them
  exists,   \* there is a file
  file,     \* its contents: who wrote the public key, the iv, the encrypted key
  alias,    \* the key store's key
  created,  \* creations begun
  faults,   \* operations that failed
  given,    \* history: keys the callers got
  thrown,   \* history: a caller got an exception
  overlap,  \* history: a thread looked for the file while another created or read it
  fault     \* history: an operation failed or the process died, during a creation

threadVars == <<pc, private, mine, linked, seen>>
storage == <<exists, file, alias>>
history == <<given, thrown, overlap, fault>>
vars == <<threadVars, storage, created, faults, history>>

Creating == {"open", "generate", "write public", "write iv", "write key"}
Steps == {"idle", "check", "load", "decrypt", "read public"} \cup Creating
Contents == [public : Keys \cup {None}, iv : Keys \cup {None}, key : Keys \cup {None}]
Empty == [public |-> None, iv |-> None, key |-> None]

(* A key given to a caller; None is an empty or garbled one. *)
Results == [private : BOOLEAN, key : Keys \cup {None}]

TypeOK ==
  /\ pc \in [Threads -> Steps]
  /\ private \in [Threads -> BOOLEAN] /\ linked \in [Threads -> BOOLEAN]
  /\ mine \in [Threads -> Keys \cup {None}]
  /\ seen \in [Threads -> Contents]
  /\ exists \in BOOLEAN /\ file \in Contents /\ alias \in Keys \cup {None}
  /\ created \in 0 .. Creations /\ faults \in 0 .. Faults
  /\ \A t \in Threads : linked[t] => exists /\ pc[t] \in Creating
  /\ given \subseteq Results
  /\ thrown \in BOOLEAN
  /\ overlap \in BOOLEAN /\ fault \in BOOLEAN

Init ==
  /\ pc = [t \in Threads |-> "idle"]
  /\ private = [t \in Threads |-> FALSE] /\ linked = [t \in Threads |-> FALSE]
  /\ mine = [t \in Threads |-> None]
  /\ seen = [t \in Threads |-> Empty]
  /\ exists = FALSE /\ file = Empty /\ alias = None
  /\ created = 0 /\ faults = 0
  /\ given = {} /\ thrown = FALSE
  /\ overlap = FALSE /\ fault = FALSE

Goto(t, step) == pc' = [pc EXCEPT ![t] = step]
(* What a thread knew is gone with its call. *)
Return(t) ==
  /\ Goto(t, "idle")
  /\ private' = [private EXCEPT ![t] = FALSE]
  /\ mine' = [mine EXCEPT ![t] = None]
  /\ seen' = [seen EXCEPT ![t] = Empty]

GoOn(t) == Goto(t, "read public") /\ UNCHANGED <<private, mine, seen>>

Answer(r) == given' = given \cup {r} /\ UNCHANGED thrown

AtCreation(t) == pc[t] \in Creating

(* Another thread creates the file, or reads one that has gone. *)
Overlaps(t) ==
  \E u \in Threads \ {t} : AtCreation(u) \/ (~exists /\ pc[u] \in {"load", "decrypt"})

--------------------------------------------------------------------------------
(* rawSign and generateSharedKey want the private key, getPublicKey not. *)
Call(t) ==
  /\ pc[t] = "idle"
  /\ \E p \in BOOLEAN : private' = [private EXCEPT ![t] = p]
  /\ Goto(t, "check")
  /\ UNCHANGED <<mine, linked, seen, storage, created, faults, history>>

(* Mutant of Check: the file is taken for granted. *)
CheckNothing(t) ==
  /\ pc[t] = "check"
  /\ Goto(t, IF private[t] THEN "load" ELSE "read public")
  /\ UNCHANGED <<private, mine, linked, seen, storage, created, faults, history>>

(* Mutant of Check: a new key each time. *)
CheckNever(t) ==
  /\ pc[t] = "check"
  /\ created < Creations
  /\ Goto(t, "open")
  /\ overlap' = (overlap \/ Overlaps(t))
  /\ UNCHANGED <<private, mine, linked, seen, storage, created, faults, given, thrown, fault>>

(* keyFile.exists() *)
Check(t) ==
  /\ pc[t] = "check"
  /\ ~exists => created < Creations
  /\ Goto(t, IF ~exists THEN "open" ELSE IF private[t] THEN "load" ELSE "read public")
  /\ overlap' = (overlap \/ Overlaps(t))
  /\ UNCHANGED <<private, mine, linked, seen, storage, created, faults, given, thrown, fault>>

(* keyFile.outputStream(): the file is created, or emptied. *)
Open(t) ==
  /\ pc[t] = "open"
  /\ exists' = TRUE /\ file' = Empty
  /\ linked' = [linked EXCEPT ![t] = TRUE]
  /\ Goto(t, "generate")
  /\ UNCHANGED <<private, mine, seen, alias, created, faults, history>>

(* A new key of the store takes the place of the one of that alias. *)
Generate(t) ==
  /\ pc[t] = "generate"
  /\ created < Creations
  /\ created' = created + 1
  /\ alias' = created + 1
  /\ mine' = [mine EXCEPT ![t] = created + 1]
  /\ Goto(t, "write public")
  /\ UNCHANGED <<private, linked, seen, exists, file, faults, history>>

(* What is written to a deleted file is lost with it. *)
Write(t, written) == file' = (IF linked[t] THEN written ELSE file)

(* Mutant of WritePublic: the key pair's public half is left to be written later. *)
SkipPublic(t) ==
  /\ pc[t] = "write public"
  /\ Goto(t, "write iv")
  /\ UNCHANGED <<private, mine, linked, seen, storage, created, faults, history>>

WritePublic(t) ==
  /\ pc[t] = "write public"
  /\ Write(t, [file EXCEPT !.public = mine[t]])
  /\ Goto(t, "write iv")
  /\ UNCHANGED <<private, mine, linked, seen, exists, alias, created, faults, history>>

WriteIv(t) ==
  /\ pc[t] = "write iv"
  /\ Write(t, [file EXCEPT !.iv = mine[t]])
  /\ Goto(t, "write key")
  /\ UNCHANGED <<private, mine, linked, seen, exists, alias, created, faults, history>>

(* The last write; the private key is returned without reading the file. *)
WriteKey(t) ==
  /\ pc[t] = "write key"
  /\ Write(t, [file EXCEPT !.key = mine[t]])
  /\ linked' = [linked EXCEPT ![t] = FALSE]
  /\ IF private[t]
       THEN Answer([private |-> TRUE, key |-> mine[t]]) /\ Return(t)
       ELSE GoOn(t) /\ UNCHANGED <<given, thrown>>
  /\ UNCHANGED <<exists, alias, created, faults, overlap, fault>>

(* readBytes; a file deleted meanwhile is an exception like any other. *)
Load(t) ==
  /\ pc[t] = "load"
  /\ seen' = [seen EXCEPT ![t] = IF exists THEN file ELSE Empty]
  /\ Goto(t, "decrypt")
  /\ UNCHANGED <<private, mine, linked, storage, created, faults, history>>

Sound(f) == f.key # None /\ f.iv = f.key /\ f.key = alias

Decrypt(t) ==
  /\ pc[t] = "decrypt"
  /\ Sound(seen[t])
  /\ Answer([private |-> TRUE, key |-> seen[t].key])
  /\ Return(t)
  /\ UNCHANGED <<linked, storage, created, faults, overlap, fault>>

(* The catch block: the file is deleted whatever failed, and the caller    *)
(* gets an empty key, or goes on to read the public key.                   *)
Delete(t) ==
  /\ exists' = FALSE /\ file' = Empty
  /\ linked' = [u \in Threads |-> FALSE]
  /\ IF private[t]
       THEN Answer([private |-> TRUE, key |-> None]) /\ Return(t)
       ELSE GoOn(t) /\ UNCHANGED <<given, thrown>>

(* The bytes read cannot be decrypted. *)
DecryptFails(t) ==
  /\ pc[t] = "decrypt"
  /\ ~Sound(seen[t])
  /\ Delete(t)
  /\ UNCHANGED <<alias, created, faults, overlap, fault>>

(* The disk or the key store fails, in a creation or in reading the key. *)
OperationFails(t) ==
  /\ AtCreation(t) \/ pc[t] \in {"load", "decrypt"}
  /\ faults < Faults
  /\ faults' = faults + 1
  /\ Delete(t)
  /\ fault' = TRUE
  /\ UNCHANGED <<alias, created, overlap>>

(* The first 64 bytes: zeros if only what follows them is written, and an  *)
(* exception if there are fewer.                                           *)
ReadPublic(t) ==
  /\ pc[t] = "read public"
  /\ IF exists /\ file # Empty
       THEN Answer([private |-> FALSE, key |-> file.public])
       ELSE thrown' = TRUE /\ UNCHANGED given
  /\ Return(t)
  /\ UNCHANGED <<linked, storage, created, faults, overlap, fault>>

(* The process dies; a file half written stays. *)
Crash ==
  /\ \E t \in Threads : pc[t] # "idle"
  /\ faults < Faults
  /\ faults' = faults + 1
  /\ pc' = [t \in Threads |-> "idle"]
  /\ private' = [t \in Threads |-> FALSE] /\ linked' = [t \in Threads |-> FALSE]
  /\ mine' = [t \in Threads |-> None] /\ seen' = [t \in Threads |-> Empty]
  /\ fault' = (fault \/ \E t \in Threads : AtCreation(t))
  /\ UNCHANGED <<storage, created, given, thrown, overlap>>

Step(t) ==
  \/ Call(t) \/ Check(t)
  \/ Open(t) \/ Generate(t) \/ WritePublic(t) \/ WriteIv(t) \/ WriteKey(t)
  \/ Load(t) \/ Decrypt(t) \/ DecryptFails(t)
  \/ OperationFails(t) \/ ReadPublic(t)

Next == (\E t \in Threads : Step(t)) \/ Crash

Spec == Init /\ [][Next]_vars

--------------------------------------------------------------------------------
(* Correctness.                                                            *)

(* Callers get one and the same key, unless two threads are at it and one  *)
(* of them creates it, or something fails.                                 *)
OneKey ==
  ~overlap /\ ~fault =>
    ~thrown /\ \A r \in given : r.key = 1

(* Whatever fails, a public key that is given out is one that was made,    *)
(* and the private key of a finished creation is that of the file's public *)
(* key, unless two threads are at it and one of them creates it.           *)
PublicNotGarbled ==
  ~overlap =>
    /\ \A r \in given : ~r.private => r.key # None
    /\ file.key # None => file.public = file.key

Complete == exists /\ file.key # None /\ Sound(file)

(* A key that was created goes only when reading it fails: the next caller *)
(* makes another, and the account's address changes.                       *)
CompleteKeyStays ==
  [][Complete /\ ~overlap => file' = file \/ \E t \in Threads : OperationFails(t)]_vars

(* "We should not delete an already generated key is something goes wrong  *)
(* unexpectedly.  Only when we are creating it, but never when it was      *)
(* already created." (GenericEcdsa.kt:79)                                  *)
NeverDeletedOnceCreated ==
  [][Complete /\ (\A t \in Threads : ~AtCreation(t)) => exists']_vars
================================================================================
