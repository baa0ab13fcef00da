----------------------------- MODULE StateStore -----------------------------
(***************************************************************************)
(* The key-value files the processes share.  Each process keeps a copy of  *)
(* the file with the modification time it had when it was read or written; *)
(* every operation runs under the file's lock, reads the file again unless *)
(* the time is still the same, and writes back the whole copy.  What get   *)
(* returns is the copy's own list or dictionary: callers append to it      *)
(* before they set it, without the lock.                                   *)
(*                                                                         *)
(* A value is the stamp of the change it was made by, 0 when the key is    *)
(* absent.                                                                 *)
(***************************************************************************)
EXTENDS Integers

CONSTANTS
  Stores,     \* processes with a store on the file
  StoreKeys,
  FineClock,  \* whether every write is given a later modification time
  MaxStamp    \* bound: changes made

ASSUME StoreAssumption == FineClock \in BOOLEAN /\ MaxStamp \in Nat

VARIABLES
  disk,   \* the file
  mtime,  \* its modification time
  copy,   \* data and _cached_mtime_ns of each store
  shared, \* keys of which a caller holds the copy's own value
  stamp   \* the last change

storeVars == <<disk, mtime, copy, shared, stamp>>

Absent == 0
Contents == [StoreKeys -> 0..MaxStamp]
IsEmpty(data) == \A k \in StoreKeys : data[k] = Absent

\* _ensure_loaded: an empty copy is read again.
\* Mutant: the modification time is not compared.
CurrentOnceRead(st) == ~IsEmpty(copy[st].data)
Current(st) == ~IsEmpty(copy[st].data) /\ copy[st].mtime = mtime
Loaded(st) == IF Current(st) THEN copy[st].data ELSE disk
StillShared(st) == IF Current(st) THEN shared[st] ELSE {}

-----------------------------------------------------------------------------
\* get, get_many.
Get(st, k) ==
  /\ copy' = [copy EXCEPT ![st] = [data |-> Loaded(st), mtime |-> mtime]]
  /\ shared' = [shared EXCEPT ![st] =
       IF Loaded(st)[k] = Absent THEN StillShared(st) ELSE StillShared(st) \cup {k}]
  /\ UNCHANGED <<disk, mtime, stamp>>

\* A caller appends to what get returned.
Edit(st, k) ==
  /\ stamp < MaxStamp
  /\ k \in shared[st]
  /\ stamp' = stamp + 1
  /\ copy' = [copy EXCEPT ![st].data[k] = stamp + 1]
  /\ UNCHANGED <<disk, mtime, shared>>

Writes(st, data) ==
  /\ disk' = data
  /\ mtime' \in IF FineClock THEN {mtime + 1} ELSE {mtime, mtime + 1}
  /\ copy' = [copy EXCEPT ![st] = [data |-> data, mtime |-> mtime']]

\* set: the value set is a new list.
Set(st, k) ==
  /\ stamp < MaxStamp
  /\ stamp' = stamp + 1
  /\ Writes(st, [Loaded(st) EXCEPT ![k] = stamp + 1])
  /\ shared' = [shared EXCEPT ![st] = StillShared(st) \ {k}]

Delete(st, k) ==
  /\ stamp < MaxStamp
  /\ stamp' = stamp + 1
  /\ Writes(st, [Loaded(st) EXCEPT ![k] = Absent])
  /\ shared' = [shared EXCEPT ![st] = StillShared(st) \ {k}]

\* The process starts again.
Reopen(st) ==
  /\ copy' = [copy EXCEPT ![st] = [data |-> disk, mtime |-> mtime]]
  /\ shared' = [shared EXCEPT ![st] = {}]
  /\ UNCHANGED <<disk, mtime, stamp>>

-----------------------------------------------------------------------------
StoreInit ==
  /\ disk = [k \in StoreKeys |-> Absent]
  /\ mtime = 0
  /\ copy = [st \in Stores |-> [data |-> disk, mtime |-> 0]]
  /\ shared = [st \in Stores |-> {}]
  /\ stamp = 0

StoreNext ==
  \E st \in Stores : \/ \E k \in StoreKeys : Get(st, k) \/ Edit(st, k) \/ Set(st, k) \/ Delete(st, k)
                     \/ Reopen(st)

StoreSpec == StoreInit /\ [][StoreNext]_storeVars

-----------------------------------------------------------------------------
(* Properties. *)

\* Every variable has its type.
StoreTypeOK ==
  /\ disk \in Contents
  /\ mtime \in Nat
  /\ copy \in [Stores -> [data : Contents, mtime : Nat]]
  /\ shared \in [Stores -> SUBSET StoreKeys]
  /\ stamp \in 0..MaxStamp

\* What a process wrote of one key is never undone by another that writes a
\* different key with the copy it has of the file: an older value of a key
\* comes back only when somebody deletes the key.
NeverGoesBack ==
  [][\A k \in StoreKeys : disk'[k] < disk[k] => disk'[k] = Absent /\ \E st \in Stores : Delete(st, k)]_storeVars

=============================================================================
