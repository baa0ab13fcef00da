----------------------- MODULE Infrastructure_proofs -----------------------
(***************************************************************************)
(* What holds of what the processes share, for any number of them: the     *)
(* state stores, the files written through temporary ones, the event bus,  *)
(* and the circuit breakers.  One section for each, and none uses another. *)
(***************************************************************************)
EXTENDS CircuitBreaker, StateStore, SafeFile, EventBus, FiniteSetTheorems, TLAPS

-----------------------------------------------------------------------------
(***************************************************************************)
(* What one process wrote of a key is not undone by another that writes    *)
(* another key, when every write is given a later modification time.       *)
(*                                                                         *)
(* The invariant: a copy whose time is the file's is not behind the file   *)
(* in any key, and no copy has a time that is still to come.               *)
(***************************************************************************)

NotBehind(data) == \A k \in StoreKeys : disk[k] <= data[k]

StoreInv ==
  /\ StoreTypeOK
  /\ \A k \in StoreKeys : disk[k] <= stamp
  /\ \A st \in Stores : /\ copy[st].mtime <= mtime
                        /\ \A k \in StoreKeys : copy[st].data[k] <= stamp
                        /\ copy[st].mtime = mtime => NotBehind(copy[st].data)

LEMMA CopyFacts ==
  ASSUME StoreInv, NEW st \in Stores
  PROVE  /\ copy[st] \in [data : Contents, mtime : Nat]
         /\ copy[st].data \in Contents /\ copy[st].mtime \in Nat
         /\ disk \in Contents /\ mtime \in Nat /\ stamp \in 0..MaxStamp
         /\ shared[st] \in SUBSET StoreKeys
  BY DEF StoreInv, StoreTypeOK

\* What an operation works on is not behind the file.
LEMMA LoadedFacts ==
  ASSUME StoreInv, NEW st \in Stores
  PROVE  /\ Loaded(st) \in Contents
         /\ NotBehind(Loaded(st))
         /\ \A k \in StoreKeys : Loaded(st)[k] <= stamp
         /\ StillShared(st) \in SUBSET StoreKeys
<1>1. CASE Current(st)
  BY <1>1, CopyFacts DEF Loaded, Current, StillShared, StoreInv
<1>2. CASE ~Current(st)
  <2>1. NotBehind(disk)
    BY StoreAssumption, CopyFacts, SMT DEF NotBehind, Contents
  <2> QED
    BY <1>2, <2>1, CopyFacts DEF Loaded, StillShared, StoreInv
<1> QED
  BY <1>1, <1>2

LEMMA StoreInvInit == StoreInit => StoreInv
<1> SUFFICES ASSUME StoreInit PROVE StoreInv
  OBVIOUS
<1>1. disk \in Contents /\ \A k \in StoreKeys : disk[k] = 0
  BY StoreAssumption, SMT DEF StoreInit, Contents, Absent
<1>2. \A st \in Stores : copy[st].data = disk /\ copy[st].mtime = mtime
  BY DEF StoreInit
<1>3. copy \in [Stores -> [data : Contents, mtime : Nat]]
  BY <1>1 DEF StoreInit
<1>4. mtime = 0 /\ stamp = 0 /\ shared \in [Stores -> SUBSET StoreKeys]
  BY DEF StoreInit
<1> QED
  BY <1>1, <1>2, <1>3, <1>4, StoreAssumption, SMT DEF StoreInv, StoreTypeOK, NotBehind

\* A copy is replaced by one that is not behind the file; the file stays.
LEMMA CopyReplaced ==
  ASSUME StoreInv, NEW st \in Stores, NEW data \in Contents, NotBehind(data),
         \A k \in StoreKeys : data[k] <= stamp,
         copy' = [copy EXCEPT ![st] = [data |-> data, mtime |-> mtime]],
         shared' \in [Stores -> SUBSET StoreKeys],
         UNCHANGED <<disk, mtime, stamp>>
  PROVE  StoreInv'
<1> DEFINE r == [data |-> data, mtime |-> mtime]
<1>1. r \in [data : Contents, mtime : Nat] /\ r.data = data /\ r.mtime = mtime
  BY CopyFacts
<1>2. copy' = [copy EXCEPT ![st] = r]
  OBVIOUS
<1> HIDE DEF r
<1>3. copy' \in [Stores -> [data : Contents, mtime : Nat]]
  BY <1>1, <1>2 DEF StoreInv, StoreTypeOK
<1>4. \A v \in Stores : copy'[v] = IF v = st THEN r ELSE copy[v]
  BY <1>2 DEF StoreInv, StoreTypeOK
<1>5. StoreTypeOK'
  BY <1>3 DEF StoreInv, StoreTypeOK
<1>6. ASSUME NEW v \in Stores
      PROVE  /\ copy'[v].mtime <= mtime'
             /\ \A k \in StoreKeys : copy'[v].data[k] <= stamp'
             /\ copy'[v].mtime = mtime' => NotBehind(copy[v].data)' 
  <2>1. CASE v = st
    BY <1>1, <1>4, <2>1, CopyFacts, SMT DEF NotBehind
  <2>2. CASE v # st
    BY <1>4, <2>2 DEF StoreInv, NotBehind
  <2> QED
    BY <2>1, <2>2
<1> QED
  BY <1>5, <1>6 DEF StoreInv, NotBehind

\* The file is replaced, with its time, and the writer's copy with it.
LEMMA FileReplaced ==
  ASSUME FineClock = TRUE, StoreInv, NEW st \in Stores, NEW data \in Contents,
         Writes(st, data), stamp < MaxStamp, stamp' = stamp + 1,
         \A k \in StoreKeys : data[k] <= stamp + 1,
         shared' \in [Stores -> SUBSET StoreKeys]
  PROVE  StoreInv'
<1> DEFINE r == [data |-> data, mtime |-> mtime']
<1>1. mtime' = mtime + 1 /\ disk' = data /\ copy' = [copy EXCEPT ![st] = r]
  BY DEF Writes
<1>2. r \in [data : Contents, mtime : Nat] /\ r.data = data /\ r.mtime = mtime'
  BY <1>1, CopyFacts
<1> HIDE DEF r
<1>3. copy' \in [Stores -> [data : Contents, mtime : Nat]]
  BY <1>1, <1>2 DEF StoreInv, StoreTypeOK
<1>4. \A v \in Stores : copy'[v] = IF v = st THEN r ELSE copy[v]
  BY <1>1 DEF StoreInv, StoreTypeOK
<1>5. stamp' \in 0..MaxStamp /\ mtime' \in Nat
  BY <1>1, CopyFacts, StoreAssumption, SMT
<1>6. StoreTypeOK'
  BY <1>1, <1>3, <1>5 DEF StoreTypeOK
<1>7. ASSUME NEW v \in Stores
      PROVE  /\ copy'[v].mtime <= mtime'
             /\ \A k \in StoreKeys : copy'[v].data[k] <= stamp'
             /\ copy'[v].mtime = mtime' => NotBehind(copy[v].data)'
  <2>1. CASE v = st
    <3>1. \A k \in StoreKeys : data[k] \in Int
      BY SMT DEF Contents
    <3> QED
      BY <1>1, <1>2, <1>4, <1>5, <2>1, <3>1, SMT DEF NotBehind
  <2>2. CASE v # st
    <3>1. copy'[v] = copy[v] /\ copy[v].mtime \in Nat /\ copy[v].mtime <= mtime
      BY <1>4, <2>2, CopyFacts DEF StoreInv
    <3>2. copy'[v].mtime < mtime'
      BY <1>1, <3>1, CopyFacts, SMT
    <3>3. \A k \in StoreKeys : copy[v].data[k] <= stamp /\ copy[v].data[k] \in Int
      BY CopyFacts, SMT DEF StoreInv, Contents
    <3>4. \A k \in StoreKeys : copy'[v].data[k] <= stamp'
      BY <3>1, <3>3, CopyFacts, SMT
    <3> QED
      BY <1>5, <3>1, <3>2, <3>4, SMT
  <2> QED
    BY <2>1, <2>2
<1> QED
  BY <1>1, <1>6, <1>7 DEF StoreInv, NotBehind

\* Set and Delete write one key and the rest as it was loaded.
LEMMA WrittenFacts ==
  ASSUME StoreInv, stamp < MaxStamp, NEW st \in Stores, NEW k \in StoreKeys, NEW value \in {Absent, stamp + 1}
  PROVE  LET data == [Loaded(st) EXCEPT ![k] = value]
         IN /\ data \in Contents
            /\ \A j \in StoreKeys : data[j] <= stamp + 1
            /\ \A j \in StoreKeys \ {k} : disk[j] <= data[j]
            /\ data[k] = value
<1>1. value \in 0..MaxStamp /\ value <= stamp + 1
  BY CopyFacts, StoreAssumption, SMT DEF Absent
<1>2. \A j \in StoreKeys : Loaded(st)[j] \in Int /\ Loaded(st)[j] <= stamp /\ disk[j] <= Loaded(st)[j]
  BY LoadedFacts, SMT DEF Contents, NotBehind
<1>3. \A j \in StoreKeys : Loaded(st)[j] <= stamp + 1
  BY <1>2, CopyFacts, SMT
<1> QED
  BY <1>1, <1>2, <1>3, LoadedFacts DEF Contents

LEMMA StoreInvNext == FineClock = TRUE /\ StoreInv /\ [StoreNext]_storeVars => StoreInv'
<1> SUFFICES ASSUME FineClock = TRUE, StoreInv, [StoreNext]_storeVars PROVE StoreInv'
  OBVIOUS
<1>0. shared \in [Stores -> SUBSET StoreKeys] /\ disk \in Contents
  BY DEF StoreInv, StoreTypeOK
<1>1. ASSUME NEW st \in Stores, NEW k \in StoreKeys, Get(st, k) PROVE StoreInv'
  <2>1. shared' \in [Stores -> SUBSET StoreKeys]
    BY <1>0, <1>1, LoadedFacts DEF Get
  <2> QED
    BY <1>1, <2>1, LoadedFacts, CopyReplaced DEF Get
<1>2. ASSUME NEW st \in Stores, NEW k \in StoreKeys, Edit(st, k) PROVE StoreInv'
  <2> DEFINE data == [copy[st].data EXCEPT ![k] = stamp + 1]
             r == [copy[st] EXCEPT !.data = data]
  <2>1. /\ stamp < MaxStamp /\ stamp' = stamp + 1
        /\ copy' = [copy EXCEPT ![st] = r]
        /\ UNCHANGED <<disk, mtime, shared>>
    BY <1>2 DEF Edit
  <2>2. stamp + 1 \in 0..MaxStamp /\ stamp \in Nat
    BY <2>1, CopyFacts, StoreAssumption, SMT
  <2>3. data \in Contents
    BY <2>2, CopyFacts DEF Contents
  <2>4. r \in [data : Contents, mtime : Nat] /\ r.data = data /\ r.mtime = copy[st].mtime
    BY <2>3, CopyFacts
  <2>5. \A j \in StoreKeys : /\ copy[st].data[j] \in Int /\ disk[j] \in Int
                             /\ disk[j] <= stamp /\ copy[st].data[j] <= stamp
    BY CopyFacts, SMT DEF StoreInv, Contents
  <2>6. \A j \in StoreKeys : data[j] = IF j = k THEN stamp + 1 ELSE copy[st].data[j]
    BY CopyFacts DEF Contents
  <2> HIDE DEF data, r
  <2>7. \A v \in Stores : copy'[v] = IF v = st THEN r ELSE copy[v]
    BY <2>1 DEF StoreInv, StoreTypeOK
  <2>8. StoreTypeOK'
    BY <2>1, <2>2, <2>4 DEF StoreInv, StoreTypeOK
  <2>9. \A j \in StoreKeys : data[j] <= stamp' /\ disk'[j] <= stamp'
    BY <2>1, <2>2, <2>5, <2>6, SMT
  <2>10. copy[st].mtime = mtime => \A j \in StoreKeys : disk[j] <= data[j]
    <3>1. \A j \in StoreKeys : disk[j] <= stamp + 1
      BY <2>2, <2>5, SMT
    <3> QED
      BY <2>6, <3>1 DEF StoreInv, NotBehind
  <2>11. ASSUME NEW v \in Stores
         PROVE  /\ copy'[v].mtime <= mtime'
                /\ \A j \in StoreKeys : copy'[v].data[j] <= stamp'
                /\ copy'[v].mtime = mtime' => NotBehind(copy[v].data)'
    <3>1. CASE v = st
      BY <2>1, <2>4, <2>7, <2>9, <2>10, <3>1 DEF StoreInv, NotBehind
    <3>2. CASE v # st
      <4>1. \A j \in StoreKeys : copy[v].data[j] \in Int /\ copy[v].data[j] <= stamp
        BY CopyFacts, SMT DEF StoreInv, Contents
      <4>2. \A j \in StoreKeys : copy[v].data[j] <= stamp'
        BY <2>1, <2>2, <4>1, SMT
      <4> QED
        BY <2>1, <2>7, <3>2, <4>2 DEF StoreInv, NotBehind
    <3> QED
      BY <3>1, <3>2
  <2> QED
    BY <2>8, <2>9, <2>11 DEF StoreInv, NotBehind
<1>3. ASSUME NEW st \in Stores, NEW k \in StoreKeys, Set(st, k) \/ Delete(st, k) PROVE StoreInv'
  <2>1. shared' \in [Stores -> SUBSET StoreKeys]
    BY <1>0, <1>3, LoadedFacts DEF Set, Delete
  <2>2. PICK value \in {Absent, stamp + 1} : Writes(st, [Loaded(st) EXCEPT ![k] = value])
    BY <1>3 DEF Set, Delete
  <2>3. stamp < MaxStamp /\ stamp' = stamp + 1
    BY <1>3 DEF Set, Delete
  <2> QED
    BY <2>1, <2>2, <2>3, WrittenFacts, FileReplaced
<1>4. ASSUME NEW st \in Stores, Reopen(st) PROVE StoreInv'
  <2>1. NotBehind(disk) /\ \A k \in StoreKeys : disk[k] <= stamp
    BY <1>0, SMT DEF NotBehind, Contents, StoreInv
  <2>2. shared' \in [Stores -> SUBSET StoreKeys]
    BY <1>0, <1>4 DEF Reopen
  <2> QED
    BY <1>0, <1>4, <2>1, <2>2, CopyReplaced DEF Reopen
<1>5. CASE UNCHANGED storeVars
  BY <1>5 DEF storeVars, StoreInv, StoreTypeOK, NotBehind, Contents
<1> QED
  BY <1>1, <1>2, <1>3, <1>4, <1>5 DEF StoreNext

LEMMA StepNeverGoesBack ==
  ASSUME StoreInv, [StoreNext]_storeVars
  PROVE  [\A k \in StoreKeys : disk'[k] < disk[k] => disk'[k] = Absent /\ \E st \in Stores : Delete(st, k)]_storeVars
<1> SUFFICES ASSUME StoreNext, NEW k \in StoreKeys, disk'[k] < disk[k]
             PROVE  disk'[k] = Absent /\ \E st \in Stores : Delete(st, k)
  OBVIOUS
<1>0. disk[k] \in Int /\ disk[k] <= stamp /\ stamp \in Int
  BY SMT DEF StoreInv, StoreTypeOK, Contents
<1>1. ASSUME NEW st \in Stores, NEW j \in StoreKeys, Set(st, j) PROVE FALSE
  <2> DEFINE data == [Loaded(st) EXCEPT ![j] = stamp + 1]
  <2>1. disk' = data /\ stamp < MaxStamp
    BY <1>1 DEF Set, Writes
  <2>2. /\ data \in Contents /\ data[j] = stamp + 1
        /\ \A i \in StoreKeys \ {j} : disk[i] <= data[i]
    BY <2>1, WrittenFacts
  <2> HIDE DEF data
  <2>3. data[k] \in Int
    BY <2>2, SMT DEF Contents
  <2> QED
    BY <1>0, <2>1, <2>2, <2>3, SMT
<1>2. ASSUME NEW st \in Stores, NEW j \in StoreKeys, Delete(st, j) PROVE k = j /\ disk'[k] = Absent
  <2> DEFINE data == [Loaded(st) EXCEPT ![j] = Absent]
  <2>1. disk' = data /\ stamp < MaxStamp
    BY <1>2 DEF Delete, Writes
  <2>2. /\ data \in Contents /\ data[j] = Absent
        /\ \A i \in StoreKeys \ {j} : disk[i] <= data[i]
    BY <2>1, WrittenFacts
  <2> HIDE DEF data
  <2>3. data[k] \in Int
    BY <2>2, SMT DEF Contents
  <2> QED
    BY <1>0, <2>1, <2>2, <2>3, SMT
<1>3. ASSUME UNCHANGED disk PROVE FALSE
  BY <1>0, <1>3, SMT
<1>4. PICK st \in Stores : (\E j \in StoreKeys : Get(st, j) \/ Edit(st, j) \/ Set(st, j) \/ Delete(st, j)) \/ Reopen(st)
  BY DEF StoreNext
<1>5. PICK j \in StoreKeys : Delete(st, j)
  BY <1>1, <1>3, <1>4 DEF Get, Edit, Reopen
<1> QED
  BY <1>2, <1>5

\* A process that writes one key with the copy it keeps of the file does not
\* bring back an older value of another (audit_store.py, _ensure_loaded, set
\* and delete), provided no two writes share a modification time.
THEOREM NothingGoesBack ==
  ASSUME FineClock = TRUE
  PROVE  StoreSpec => NeverGoesBack
<1>1. StoreInv /\ [StoreNext]_storeVars
        => [\A k \in StoreKeys : disk'[k] < disk[k] => disk'[k] = Absent /\ \E st \in Stores : Delete(st, k)]_storeVars
  BY StepNeverGoesBack
<1>2. StoreInv /\ [StoreNext]_storeVars => StoreInv'
  BY StoreInvNext
<1> QED
  BY <1>1, <1>2, StoreInvInit, PTL DEF StoreSpec, NeverGoesBack

-----------------------------------------------------------------------------
(***************************************************************************)
(* A reader gets the payload written last, until two write at once.        *)
(*                                                                         *)
(* The invariant, until then: one writer at most is at work, what it has   *)
(* synced is its whole payload, the file is what the last completed write  *)
(* made it, and there is no backup before there is a file.                 *)
(***************************************************************************)

WriterPlaces == {"quiet", "copies", "backed up", "opened", "synced"}
WriterFiles == {"temporary", "main", "gone"}
WriterRecords == [at : WriterPlaces, payload : 0..MaxPayloads, on : WriterFiles, alone : BOOLEAN]

Alone(w) == \A v \in Writers : writing[v].at # "quiet" => v = w

OneWriter ==
  /\ main = completed /\ main # Torn
  /\ main = Missing => backup = Missing
  /\ \A w \in Writers :
       writing[w].at # "quiet" =>
         /\ Alone(w)
         /\ writing[w].payload > 0
         /\ writing[w].at = "opened" => writing[w].on = "temporary" /\ writing[w].alone
         /\ writing[w].at = "synced" => temporary = writing[w].payload

FileInv == FileTypeOK /\ (~overlapped => OneWriter)

LEMMA WriterTypes ==
  FileTypeOK <=> /\ main \in FileContents /\ backup \in FileContents /\ temporary \in FileContents
                 /\ writing \in [Writers -> WriterRecords]
                 /\ payloads \in 0..MaxPayloads
                 /\ completed \in FileContents
                 /\ overlapped \in BOOLEAN
  BY DEF FileTypeOK, WriterRecords, WriterPlaces, WriterFiles

LEMMA WriterConsts ==
  /\ Missing \in FileContents /\ Torn \in FileContents /\ Missing # Torn
  /\ \A p \in 0..MaxPayloads : p \in FileContents
  /\ Quiet \in WriterRecords /\ Quiet.at = "quiet"
  BY FileAssumption, SMT DEF Missing, Torn, FileContents, Quiet, WriterRecords, WriterPlaces, WriterFiles

LEMMA FileInvInit == FileInit => FileInv
<1> SUFFICES ASSUME FileInit PROVE FileInv
  OBVIOUS
<1>1. writing \in [Writers -> WriterRecords] /\ \A w \in Writers : writing[w].at = "quiet"
  BY WriterConsts DEF FileInit
<1>2. payloads \in 0..MaxPayloads
  BY FileAssumption, SMT DEF FileInit
<1>3. FileTypeOK
  BY <1>1, <1>2, WriterConsts, WriterTypes DEF FileInit
<1>4. OneWriter
  BY <1>1, WriterConsts DEF FileInit, OneWriter
<1> QED
  BY <1>3, <1>4 DEF FileInv

LEMMA FileInvNext == FileInv /\ [FileNext]_fileVars => FileInv'
<1> SUFFICES ASSUME FileInv, [FileNext]_fileVars PROVE FileInv'
  OBVIOUS
<1>0. /\ main \in FileContents /\ backup \in FileContents /\ temporary \in FileContents
      /\ writing \in [Writers -> WriterRecords]
      /\ payloads \in 0..MaxPayloads
      /\ completed \in FileContents
      /\ overlapped \in BOOLEAN
  BY WriterTypes DEF FileInv
<1>1. ASSUME NEW w \in Writers, StartWrite(w) PROVE FileInv'
  <2> DEFINE r == [at |-> IF main = Missing THEN "backed up" ELSE "copies",
                   payload |-> payloads + 1, on |-> "temporary", alone |-> TRUE]
  <2>0. payloads < MaxPayloads
    BY <1>1 DEF StartWrite
  <2>1. payloads + 1 \in 0..MaxPayloads /\ payloads + 1 > 0
    BY <1>0, <2>0, FileAssumption, SMT
  <2>2. r \in WriterRecords /\ r.at \in {"backed up", "copies"} /\ r.payload = payloads + 1
    BY <2>1 DEF WriterRecords, WriterPlaces, WriterFiles
  <2>3. writing' = [writing EXCEPT ![w] = r]
    BY <1>1 DEF StartWrite
  <2> HIDE DEF r
  <2>4. writing' \in [Writers -> WriterRecords] /\ \A v \in Writers : writing'[v] = IF v = w THEN r ELSE writing[v]
    BY <1>0, <2>2, <2>3
  <2>5. FileTypeOK'
    BY <1>0, <1>1, <2>1, <2>4, WriterConsts, WriterTypes DEF StartWrite, FileTypeOK, WriterRecords, WriterPlaces, WriterFiles
  <2>6. ASSUME ~overlapped' PROVE OneWriter'
    <3>1. ~overlapped /\ \A v \in Writers : writing[v].at = "quiet"
      BY <1>1, <2>6 DEF StartWrite
    <3>2. OneWriter /\ main' = main /\ completed' = completed
      BY <1>1, <3>1 DEF FileInv, StartWrite
    <3>3. \A v \in Writers : writing'[v].at # "quiet" => v = w
      BY <2>4, <3>1
    <3>4. main' = Missing => backup' = Missing
      BY <1>1, <3>2 DEF OneWriter, StartWrite
    <3>5. writing'[w] = r /\ r.payload > 0 /\ r.at \notin {"opened", "synced"}
      BY <2>1, <2>2, <2>4
    <3>6. Alone(w)'
      BY <3>3 DEF Alone
    <3>7. main' = completed' /\ main' # Torn
      BY <3>2 DEF OneWriter
    <3> QED
      BY <3>3, <3>4, <3>5, <3>6, <3>7 DEF OneWriter
  <2> QED
    BY <2>5, <2>6 DEF FileInv
<1>2. ASSUME NEW w \in Writers, CopyBackup(w) PROVE FileInv'
  <2>1. writing' = [writing EXCEPT ![w] = [writing[w] EXCEPT !.at = "backed up"]]
    BY <1>2 DEF CopyBackup, Moves
  <2>2. FileTypeOK'
    BY <1>0, <1>2, <2>1 DEF CopyBackup, FileTypeOK, WriterRecords, WriterPlaces, WriterFiles
  <2>3. ASSUME ~overlapped' PROVE OneWriter'
    <3>1. OneWriter /\ writing \in [Writers -> WriterRecords]
      BY <1>0, <1>2, <2>3 DEF CopyBackup, FileInv, FileTypeOK
    <3>2. writing[w].at # "quiet" /\ Alone(w) /\ writing[w].payload > 0
      BY <1>2, <3>1 DEF CopyBackup, OneWriter
    <3>3. main' = main /\ completed' = completed /\ backup' = main
      BY <1>2 DEF CopyBackup
    <3>4. \A v \in Writers : v # w => writing'[v] = writing[v]
      BY <2>1, <3>1
    <3>5. writing'[w].at = "backed up" /\ writing'[w].payload = writing[w].payload
      BY <2>1, <3>1 DEF WriterRecords
    <3>6. \A v \in Writers : writing'[v].at # "quiet" => v = w
      BY <3>2, <3>4 DEF Alone
    <3> QED
      BY <3>1, <3>2, <3>3, <3>5, <3>6 DEF OneWriter, Alone
  <2> QED
    BY <2>2, <2>3 DEF FileInv
<1>3. ASSUME NEW w \in Writers, OpenTemporary(w) PROVE FileInv'
  <2>1. /\ writing' \in [Writers -> WriterRecords]
        /\ \A v \in Writers : v # w => writing'[v].at = writing[v].at
        /\ writing'[w].at = "opened" /\ writing'[w].on = "temporary"
        /\ writing'[w].payload = writing[w].payload
        /\ writing'[w].alone = ~\E u \in Writers : HasOpen(u, "temporary")
    <3> DEFINE r == [writing[w] EXCEPT !.at = "opened", !.on = "temporary",
                                       !.alone = ~\E u \in Writers : HasOpen(u, "temporary")]
               rest(v) == [writing[v] EXCEPT !.alone = @ /\ ~HasOpen(v, "temporary")]
    <3>1. writing' = [v \in Writers |-> IF v = w THEN r ELSE rest(v)]
      BY <1>3 DEF OpenTemporary, Opened
    <3>2. writing[w] \in WriterRecords /\ \A v \in Writers : writing[v] \in WriterRecords
      BY <1>0
    <3>3. /\ r \in WriterRecords
          /\ r.at = "opened" /\ r.on = "temporary"
          /\ r.payload = writing[w].payload
          /\ r.alone = ~\E u \in Writers : HasOpen(u, "temporary")
      BY <3>2 DEF WriterRecords, WriterPlaces, WriterFiles
    <3>4. \A v \in Writers : rest(v) \in WriterRecords /\ rest(v).at = writing[v].at
      BY <3>2 DEF WriterRecords
    <3>5. writing'[w] = r /\ \A v \in Writers : v # w => writing'[v] = rest(v)
      BY <3>1
    <3> HIDE DEF r, rest
    <3>6. writing' \in [Writers -> WriterRecords]
      BY <3>1, <3>3, <3>4
    <3> QED
      BY <3>3, <3>4, <3>5, <3>6
  <2>2. FileTypeOK'
    BY <1>0, <1>3, <2>1, WriterConsts DEF OpenTemporary, FileTypeOK, WriterRecords, WriterPlaces, WriterFiles
  <2>3. ASSUME ~overlapped' PROVE OneWriter'
    <3>1. ~overlapped /\ OneWriter /\ Alone(w) /\ writing[w].payload > 0 /\ writing[w].at = "backed up"
      BY <1>3, <2>3 DEF OpenTemporary, FileInv, OneWriter
    <3>2. \A u \in Writers : u = w \/ writing[u].at = "quiet"
      BY <3>1 DEF Alone
    <3>3. ~\E u \in Writers : HasOpen(u, "temporary")
      BY <3>1, <3>2 DEF HasOpen
    <3>4. \A u \in Writers : writing'[u].at # "quiet" => u = w
      BY <2>1, <3>2
    <3>5. main' = main /\ completed' = completed /\ backup' = backup
      BY <1>3 DEF OpenTemporary
    <3>6. main = completed /\ main # Torn /\ (main = Missing => backup = Missing)
      BY <3>1 DEF OneWriter
    <3> QED
      BY <2>1, <3>1, <3>3, <3>4, <3>5, <3>6, Zenon DEF OneWriter, Alone
  <2> QED
    BY <2>2, <2>3 DEF FileInv
<1>4. ASSUME NEW w \in Writers, WriteAndSync(w) PROVE FileInv'
  <2>1. writing' = [writing EXCEPT ![w] = [writing[w] EXCEPT !.at = "synced"]]
    BY <1>4 DEF WriteAndSync, Moves
  <2>2. Result(w) \subseteq FileContents /\ writing[w] \in WriterRecords
    BY <1>0, WriterConsts DEF Result, WriterRecords
  <2>3. main' \in FileContents /\ temporary' \in FileContents
    <3>1. CASE writing[w].on = "temporary"
      BY <1>0, <1>4, <2>2, <3>1 DEF WriteAndSync
    <3>2. CASE writing[w].on = "main"
      BY <1>0, <1>4, <2>2, <3>2 DEF WriteAndSync
    <3>3. CASE writing[w].on = "gone"
      BY <1>0, <1>4, <2>2, <3>3 DEF WriteAndSync
    <3> QED
      BY <2>2, <3>1, <3>2, <3>3 DEF WriterRecords, WriterFiles
  <2>4. FileTypeOK'
    BY <1>0, <1>4, <2>1, <2>3 DEF WriteAndSync, FileTypeOK, WriterRecords, WriterPlaces, WriterFiles
  <2>5. ASSUME ~overlapped' PROVE OneWriter'
    <3>1. OneWriter /\ Alone(w) /\ writing[w].on = "temporary" /\ writing[w].alone
      BY <1>4, <2>5 DEF WriteAndSync, FileInv, OneWriter
    <3>2. temporary' = writing[w].payload /\ main' = main
      BY <1>4, <3>1 DEF WriteAndSync, Result
    <3> QED
      BY <1>0, <1>4, <2>1, <3>1, <3>2 DEF WriteAndSync, OneWriter, Alone, WriterRecords
  <2> QED
    BY <2>4, <2>5 DEF FileInv
<1>5. ASSUME NEW w \in Writers, Rename(w) PROVE FileInv'
  <2>1. /\ writing' \in [Writers -> WriterRecords]
        /\ writing'[w].at = "quiet"
        /\ \A v \in Writers : v # w => writing'[v].at = writing[v].at
    BY <1>0, <1>5, WriterConsts DEF Rename, Renamed, WriterRecords, WriterPlaces, WriterFiles
  <2>2. completed' \in FileContents
    BY <1>0, <1>5, WriterConsts DEF Rename, WriterRecords
  <2>3. FileTypeOK'
    BY <1>0, <1>5, <2>1, <2>2, WriterConsts DEF Rename, FileTypeOK, WriterRecords, WriterPlaces, WriterFiles
  <2>4. ASSUME ~overlapped' PROVE OneWriter'
    <3>1. OneWriter /\ Alone(w) /\ temporary = writing[w].payload /\ writing[w].payload > 0
      BY <1>5, <2>4 DEF Rename, FileInv, OneWriter
    <3>2. \A v \in Writers : writing'[v].at = "quiet"
      BY <2>1, <3>1 DEF Alone
    <3>3. main' = completed' /\ main' > 0
      BY <1>5, <3>1 DEF Rename
    <3>4. main' # Torn /\ main' # Missing
      BY <3>3, <1>5, <1>0, SMT DEF Torn, Missing, Rename, FileContents
    <3> QED
      BY <3>2, <3>3, <3>4 DEF OneWriter
  <2> QED
    BY <2>3, <2>4 DEF FileInv
<1>6. ASSUME NEW w \in Writers, RenameFails(w) \/ Killed(w) PROVE FileInv'
  <2>1. /\ writing' = [writing EXCEPT ![w] = Quiet]
        /\ UNCHANGED <<main, backup, temporary, payloads, completed, overlapped>>
    BY <1>6 DEF RenameFails, Killed
  <2>2. /\ writing' \in [Writers -> WriterRecords]
        /\ \A v \in Writers : writing'[v] = IF v = w THEN Quiet ELSE writing[v]
    BY <1>0, <2>1, WriterConsts
  <2>3. FileTypeOK'
    BY <1>0, <2>1, <2>2 DEF FileTypeOK, WriterRecords, WriterPlaces, WriterFiles
  <2>4. ASSUME ~overlapped' PROVE OneWriter'
    BY <2>1, <2>2, <2>4, WriterConsts DEF FileInv, OneWriter, Alone
  <2> QED
    BY <2>3, <2>4 DEF FileInv
<1>7. CASE UNCHANGED fileVars
  BY <1>7 DEF fileVars, FileInv, FileTypeOK, OneWriter, Alone
<1> QED
  BY <1>1, <1>2, <1>3, <1>4, <1>5, <1>6, <1>7 DEF FileNext

\* Whatever moment a writer is killed at, a reader gets what the last completed
\* write put into the file, whole (safe_json.py): the rename is the only step a
\* reader can see.  It needs that no two writers are at work at once.
THEOREM LastWriteIsRead == FileSpec => []ReadsLastWrite
<1>1. FileInv => ReadsLastWrite
  <2> SUFFICES ASSUME FileInv, ~overlapped PROVE ReadJson = completed
    BY DEF ReadsLastWrite
  <2>1. main = completed /\ main # Torn /\ (main = Missing => backup = Missing)
    BY DEF FileInv, OneWriter
  <2>2. main \in FileContents
    BY DEF FileInv, FileTypeOK
  <2> QED
    BY <2>1, <2>2, FileAssumption, SMT DEF ReadJson, Parses, Torn, Missing, FileContents
<1> QED
  BY <1>1, FileInvInit, FileInvNext, PTL DEF FileSpec

-----------------------------------------------------------------------------
(***************************************************************************)
(* A job that is about to take an event finds one.  There are never fewer  *)
(* events queued than jobs about to take one: putting adds one of each or, *)
(* when the queue is full, a job where there are more places than jobs,    *)
(* and taking removes one of each.  An event that is put is not in the     *)
(* queue yet, since no two jobs have an event of one id.                   *)
(***************************************************************************)

BusEvents == [id : Nat, priority : Int, number : Nat]
JobPlaces == {"idle", "numbered", "drains", "handles"}

Numbered(p) == doing[p].at = "numbered"

BusInv ==
  /\ doing \in [Publishers -> [at : JobPlaces, event : BusEvents]]
  /\ queue \in SUBSET BusEvents /\ IsFiniteSet(queue)
  /\ published \in Nat /\ number \in Nat
  /\ \A e \in queue : e.id <= published
  /\ \A p \in Publishers : Numbered(p) =>
       /\ doing[p].event.id <= published
       /\ \A e \in queue : e.id # doing[p].event.id
       /\ \A q \in Publishers : Numbered(q) /\ q # p => doing[q].event.id # doing[p].event.id
  /\ DrainFindsAnEvent

LEMMA DrainersFinite ==
  IsFiniteSet(Drainers) /\ Cardinality(Drainers) \in Nat /\ Cardinality(Drainers) <= Capacity
<1>1. Drainers \in SUBSET Publishers
  BY DEF Drainers
<1>2. /\ IsFiniteSet(Drainers) /\ Cardinality(Drainers) <= Cardinality(Publishers)
      /\ Cardinality(Publishers) \in Nat
  BY <1>1, BusAssumption, FS_Subset, FS_CardinalityType
<1>3. Cardinality(Drainers) \in Nat
  BY <1>2, FS_CardinalityType
<1> QED
  BY <1>2, <1>3, BusAssumption, SMT

LEMMA BusInvInit == BusInit => BusInv
<1> SUFFICES ASSUME BusInit PROVE BusInv
  OBVIOUS
<1>1. Idle \in [at : JobPlaces, event : BusEvents] /\ Idle.at = "idle"
  BY SMT DEF Idle, Nothing, JobPlaces, BusEvents
<1>2. doing \in [Publishers -> [at : JobPlaces, event : BusEvents]] /\ \A p \in Publishers : doing[p].at = "idle"
  BY <1>1 DEF BusInit
<1>3. queue = {} /\ IsFiniteSet(queue) /\ Cardinality(queue) = 0
  BY FS_EmptySet DEF BusInit
<1>4. Drainers = {}
  BY <1>2 DEF Drainers
<1>5. DrainFindsAnEvent
  BY <1>3, <1>4, SMT DEF DrainFindsAnEvent
<1> QED
  BY <1>2, <1>3, <1>5, SMT DEF BusInv, Numbered, BusInit

\* What the queue and the set of drainers become.
LEMMA OneMoreEach ==
  ASSUME BusInv, NEW e \in BusEvents, e \notin queue, NEW p \in Publishers,
         queue' = queue \cup {e}, Drainers' \in {Drainers, Drainers \cup {p}}
  PROVE  IsFiniteSet(queue') /\ DrainFindsAnEvent'
<1>1. /\ IsFiniteSet(queue') /\ Cardinality(queue') = Cardinality(queue) + 1
      /\ Cardinality(queue) \in Nat
  BY FS_AddElement, FS_CardinalityType DEF BusInv
<1>2. Cardinality(Drainers') \in {Cardinality(Drainers), Cardinality(Drainers) + 1}
  BY DrainersFinite, FS_AddElement
<1> QED
  BY <1>1, <1>2, DrainersFinite, SMT DEF BusInv, DrainFindsAnEvent

LEMMA OneLessEach ==
  ASSUME BusInv, NEW e \in queue, NEW p \in Drainers,
         queue' = queue \ {e}, Drainers' = Drainers \ {p}
  PROVE  IsFiniteSet(queue') /\ DrainFindsAnEvent'
<1>1. /\ IsFiniteSet(queue') /\ Cardinality(queue') = Cardinality(queue) - 1
      /\ Cardinality(queue) \in Nat
  BY FS_RemoveElement, FS_CardinalityType DEF BusInv
<1>2. Cardinality(Drainers') = Cardinality(Drainers) - 1
  BY DrainersFinite, FS_RemoveElement
<1> QED
  BY <1>1, <1>2, DrainersFinite, SMT DEF BusInv, DrainFindsAnEvent

LEMMA BusInvNext == BusInv /\ [BusNext]_busVars => BusInv'
<1> SUFFICES ASSUME BusInv, [BusNext]_busVars PROVE BusInv'
  OBVIOUS
<1>0. /\ doing \in [Publishers -> [at : JobPlaces, event : BusEvents]]
      /\ queue \in SUBSET BusEvents /\ IsFiniteSet(queue)
      /\ published \in Nat /\ number \in Nat
      /\ \A e \in queue : e.id <= published /\ e.id \in Nat
  BY DEF BusInv, BusEvents
<1>i. Idle \in [at : JobPlaces, event : BusEvents] /\ Idle.at = "idle"
  BY SMT DEF Idle, Nothing, JobPlaces, BusEvents
<1>n. Nothing \in BusEvents
  BY SMT DEF Nothing, BusEvents
\* An action that gives p another place than "numbered" keeps the ids apart.
<1>k. ASSUME NEW p \in Publishers, NEW r \in [at : JobPlaces, event : BusEvents],
             r.at # "numbered", doing' = [doing EXCEPT ![p] = r],
             queue' \in SUBSET BusEvents, IsFiniteSet(queue'),
             \A e \in queue' : e \in queue \/ (Numbered(p) /\ e = doing[p].event),
             published' = published, number' \in Nat,
             DrainFindsAnEvent'
      PROVE  BusInv'
  <2>1. /\ doing' \in [Publishers -> [at : JobPlaces, event : BusEvents]]
        /\ \A q \in Publishers : doing'[q] = IF q = p THEN r ELSE doing[q]
    BY <1>0, <1>k
  <2>2. \A e \in queue' : e.id <= published'
    BY <1>k DEF BusInv
  <2>3. \A q \in Publishers : Numbered(q)' => q # p /\ Numbered(q) /\ doing'[q] = doing[q]
    BY <1>k, <2>1 DEF Numbered
  <2> QED
    BY <1>k, <2>1, <2>2, <2>3 DEF BusInv
<1>1. ASSUME NEW p \in Publishers, NEW priority \in Priorities, TakeNumber(p, priority) PROVE BusInv'
  <2> DEFINE e == [id |-> published + 1, priority |-> priority, number |-> number]
             r == [at |-> "numbered", event |-> e]
  <2>1. /\ doing' = [doing EXCEPT ![p] = r] /\ published' = published + 1
        /\ UNCHANGED <<queue, number>> /\ doing[p].at = "idle"
    BY <1>1 DEF TakeNumber, Becomes
  <2>2. e \in BusEvents /\ e.id = published + 1
    BY <1>0, BusAssumption DEF BusEvents
  <2>3. r \in [at : JobPlaces, event : BusEvents] /\ r.at = "numbered" /\ r.event = e
    BY <2>2 DEF JobPlaces
  <2> HIDE DEF e, r
  <2>4. /\ doing' \in [Publishers -> [at : JobPlaces, event : BusEvents]]
        /\ \A q \in Publishers : doing'[q] = IF q = p THEN r ELSE doing[q]
    BY <1>0, <2>1, <2>3
  <2>5. published' \in Nat /\ \A f \in queue : f.id <= published' /\ f.id # published'
    BY <1>0, <2>1, SMT
  <2>6. \A q \in Publishers : Numbered(q) => doing[q].event.id <= published' /\ doing[q].event.id # published'
    <3>1. ASSUME NEW q \in Publishers, Numbered(q) PROVE doing[q].event.id <= published /\ doing[q].event.id \in Nat
      BY <1>0, <3>1 DEF BusInv, BusEvents
    <3> QED
      BY <1>0, <2>1, <3>1, SMT
  <2>7. Drainers' = Drainers
    BY <2>1, <2>3, <2>4 DEF Drainers
  <2>8. DrainFindsAnEvent'
    BY <2>1, <2>7 DEF BusInv, DrainFindsAnEvent
  <2>9. published' <= published'
    BY <2>5, SMT
  <2>10. ASSUME NEW q \in Publishers, Numbered(q)'
         PROVE  /\ doing'[q].event.id <= published'
                /\ \A f \in queue' : f.id # doing'[q].event.id
                /\ \A o \in Publishers : Numbered(o)' /\ o # q => doing'[o].event.id # doing'[q].event.id
    <3>1. CASE q = p
      <4>1. doing'[q].event.id = published'
        BY <2>1, <2>2, <2>3, <2>4, <3>1
      <4>2. \A o \in Publishers : Numbered(o)' /\ o # q => doing'[o].event.id # published'
        BY <2>4, <2>6, <3>1 DEF Numbered
      <4> QED
        BY <2>1, <2>5, <2>9, <4>1, <4>2
    <3>2. CASE q # p
      <4>1. doing'[q] = doing[q] /\ Numbered(q)
        BY <2>4, <2>10, <3>2 DEF Numbered
      <4>2. \A o \in Publishers : Numbered(o)' /\ o # q => doing'[o].event.id # doing'[q].event.id
        <5>1. ASSUME NEW o \in Publishers, Numbered(o)', o # q PROVE doing'[o].event.id # doing'[q].event.id
          <6>1. CASE o = p
            BY <2>1, <2>2, <2>3, <2>4, <2>6, <4>1, <6>1
          <6>2. CASE o # p
            BY <2>4, <4>1, <5>1, <6>2 DEF BusInv, Numbered
          <6> QED
            BY <6>1, <6>2
        <5> QED
          BY <5>1
      <4> QED
        BY <2>1, <2>6, <4>1, <4>2 DEF BusInv
    <3> QED
      BY <3>1, <3>2
  <2> QED
    BY <1>0, <2>1, <2>4, <2>5, <2>8, <2>10 DEF BusInv
<1>2. ASSUME NEW p \in Publishers, Put(p) PROVE BusInv'
  <2> DEFINE r == [at |-> "drains", event |-> Nothing]
  <2>1. /\ doing' = [doing EXCEPT ![p] = r] /\ published' = published /\ Numbered(p)
        /\ number' = doing[p].event.number + 1
        /\ queue' = IF Full THEN queue ELSE queue \cup {doing[p].event}
    BY <1>2 DEF Put, Becomes, AfterPublishing, Numbered
  <2>2. r \in [at : JobPlaces, event : BusEvents] /\ r.at = "drains"
    BY <1>n DEF JobPlaces
  <2>3. doing[p].event \in BusEvents /\ doing[p].event \notin queue
    BY <1>0, <2>1 DEF BusInv
  <2>4. number' \in Nat
    BY <2>1, <2>3, SMT DEF BusEvents
  <2> HIDE DEF r
  <2>5. Drainers' = Drainers \cup {p}
    BY <1>0, <2>1, <2>2 DEF Drainers, Numbered
  <2>6. IsFiniteSet(queue') /\ DrainFindsAnEvent'
    <3>1. CASE Full
      <4>1. queue' = queue /\ Cardinality(queue) >= Capacity /\ Cardinality(queue) \in Nat
        BY <1>0, <2>1, <3>1, FS_CardinalityType DEF Full
      <4>2. Drainers' \in SUBSET Publishers
        BY <2>5 DEF Drainers
      <4>3. Cardinality(Drainers') <= Cardinality(Publishers) /\ Cardinality(Drainers') \in Nat
            /\ Cardinality(Publishers) \in Nat
        BY <4>2, BusAssumption, FS_Subset, FS_CardinalityType
      <4> QED
        BY <1>0, <4>1, <4>3, BusAssumption, SMT DEF DrainFindsAnEvent
    <3>2. CASE ~Full
      BY <2>1, <2>3, <2>5, <3>2, OneMoreEach
    <3> QED
      BY <3>1, <3>2
  <2>7. queue' \in SUBSET BusEvents /\ \A e \in queue' : e \in queue \/ (Numbered(p) /\ e = doing[p].event)
    BY <1>0, <2>1, <2>3
  <2> QED
    BY <1>k, <2>1, <2>2, <2>4, <2>6, <2>7
<1>3. ASSUME NEW p \in Publishers, PutRaises(p) PROVE BusInv'
  <2>1. /\ doing' = [doing EXCEPT ![p] = Idle] /\ published' = published /\ Numbered(p)
        /\ number' = doing[p].event.number + 1
        /\ queue' = queue \cup {doing[p].event}
    BY <1>3 DEF PutRaises, Numbered
  <2>2. doing[p].event \in BusEvents /\ doing[p].event \notin queue
    BY <1>0, <2>1 DEF BusInv
  <2>3. number' \in Nat
    BY <2>1, <2>2, SMT DEF BusEvents
  <2>4. Drainers' = Drainers
    BY <1>0, <1>i, <2>1 DEF Drainers, Numbered
  <2>5. IsFiniteSet(queue') /\ DrainFindsAnEvent'
    BY <2>1, <2>2, <2>4, OneMoreEach
  <2>6. queue' \in SUBSET BusEvents /\ \A e \in queue' : e \in queue \/ (Numbered(p) /\ e = doing[p].event)
    BY <1>0, <2>1, <2>2
  <2> QED
    BY <1>i, <1>k, <2>1, <2>3, <2>5, <2>6
<1>4. ASSUME NEW p \in Publishers, Take(p) \/ TakeRaises(p) PROVE BusInv'
  <2>1. PICK e \in queue : queue' = queue \ {e}
    BY <1>4 DEF Take, TakeRaises, Rest
  <2>2. p \in Drainers /\ UNCHANGED <<number, published>>
    BY <1>4 DEF Take, TakeRaises, Drainers
  <2>3. PICK r \in [at : JobPlaces, event : BusEvents] : r.at \notin {"numbered", "drains"} /\ doing' = [doing EXCEPT ![p] = r]
    <3>1. CASE Take(p)
      <4>1. PICK f \in queue : doing' = [doing EXCEPT ![p] = [at |-> "handles", event |-> f]]
        BY <3>1 DEF Take, Becomes
      <4>2. [at |-> "handles", event |-> f] \in [at : JobPlaces, event : BusEvents]
        BY <1>0 DEF JobPlaces
      <4> QED
        BY <4>1, <4>2
    <3>2. CASE TakeRaises(p)
      BY <1>i, <3>2 DEF TakeRaises
    <3> QED
      BY <1>4, <3>1, <3>2
  <2>4. Drainers' = Drainers \ {p}
    BY <1>0, <2>3 DEF Drainers
  <2>5. IsFiniteSet(queue') /\ DrainFindsAnEvent'
    BY <2>1, <2>2, <2>4, OneLessEach
  <2> QED
    BY <1>0, <1>k, <2>1, <2>2, <2>3, <2>5
<1>5. ASSUME NEW p \in Publishers, Handle(p) PROVE BusInv'
  <2>1. doing' = [doing EXCEPT ![p] = Idle] /\ UNCHANGED <<queue, number, published>> /\ doing[p].at = "handles"
    BY <1>5 DEF Handle
  <2>2. Drainers' = Drainers
    BY <1>0, <1>i, <2>1 DEF Drainers
  <2>3. DrainFindsAnEvent'
    BY <2>1, <2>2 DEF BusInv, DrainFindsAnEvent
  <2> QED
    BY <1>0, <1>i, <1>k, <2>1, <2>3
<1>6. CASE UNCHANGED busVars
  BY <1>6 DEF busVars, BusInv, Numbered, DrainFindsAnEvent, Drainers
<1> QED
  BY <1>1, <1>2, <1>3, <1>4, <1>5, <1>6 DEF BusNext, Publishing

\* A job that publishes never waits for an event (event_bus.py, _drain_once:
\* the queue is looked at and then waited for), whatever other jobs took,
\* dropped or failed to compare.
THEOREM NoJobWaits == BusSpec => []DrainFindsAnEvent
<1>1. BusInv => DrainFindsAnEvent
  BY DEF BusInv
<1> QED
  BY <1>1, BusInvInit, BusInvNext, PTL DEF BusSpec

(***************************************************************************)
(* Every event that was published is handled, or is in the hands of a job, *)
(* or is in the queue, when no two jobs read the same number.              *)
(*                                                                         *)
(* Then there is one event queued for each job about to take one, so the   *)
(* queue is never full when an event is put; the event put has a number no *)
(* queued event has, so any two can be compared and nothing raises.        *)
(***************************************************************************)

InHand(id) == \E p \in Publishers : doing[p].at \in {"numbered", "handles"} /\ doing[p].event.id = id
NoEventLost == \A id \in 1..published : id \in handled \/ InHand(id) \/ \E e \in queue : e.id = id

InTurn ==
  /\ Cardinality(queue) = Cardinality(Drainers)
  /\ \A e \in queue : e.number < number
  /\ \A e, f \in queue : e.number = f.number => e = f
  /\ \A p, q \in Publishers : Numbered(p) /\ Numbered(q) => p = q
  /\ \A p \in Publishers : Numbered(p) => doing[p].event.number = number

LEMMA InTurnInit == BusInit => InTurn /\ NoEventLost
<1> SUFFICES ASSUME BusInit PROVE InTurn /\ NoEventLost
  OBVIOUS
<1>1. \A p \in Publishers : doing[p].at = "idle"
  BY DEF BusInit, Idle
<1>2. queue = {} /\ Drainers = {} /\ published = 0
  BY <1>1 DEF BusInit, Drainers
<1>3. 1..published = {}
  BY <1>2, SMT
<1> QED
  BY <1>1, <1>2, <1>3 DEF InTurn, NoEventLost, Numbered

LEMMA NothingRaises ==
  ASSUME BusInv, InTurn, NEW p \in Publishers
  PROVE  ~PutRaises(p) /\ ~TakeRaises(p)
<1>1. ASSUME PutRaises(p) PROVE FALSE
  <2>1. PICK e \in queue : SameKey(e, doing[p].event)
    BY <1>1 DEF PutRaises
  <2>2. e.number = number /\ e.number < number
    BY <1>1, <2>1 DEF PutRaises, SameKey, InTurn, Numbered
  <2>3. number \in Nat
    BY DEF BusInv
  <2> QED
    BY <2>2, <2>3, SMT
<1>2. ASSUME TakeRaises(p) PROVE FALSE
  BY <1>2 DEF TakeRaises, Comparable, SameKey, InTurn
<1> QED
  BY <1>1, <1>2

\* A job with an event to put is not one of those the queued events are for.
LEMMA RoomToPut ==
  ASSUME BusInv, InTurn, NEW p \in Publishers, Numbered(p)
  PROVE  ~Full
<1>1. Drainers \in SUBSET (Publishers \ {p})
  BY DEF Drainers, Numbered
<1>2. /\ IsFiniteSet(Publishers \ {p}) /\ Cardinality(Publishers \ {p}) = Cardinality(Publishers) - 1
      /\ Cardinality(Publishers) \in Nat
  BY BusAssumption, FS_RemoveElement, FS_CardinalityType
<1>3. Cardinality(Drainers) <= Cardinality(Publishers \ {p}) /\ Cardinality(Drainers) \in Nat
  BY <1>1, <1>2, FS_Subset, FS_CardinalityType
<1> QED
  BY <1>2, <1>3, BusAssumption, SMT DEF InTurn, Full

LEMMA InTurnNext ==
  ASSUME SameNumber = FALSE, BusInv, InTurn, NoEventLost, [BusNext]_busVars
  PROVE  InTurn' /\ NoEventLost'
<1>0. /\ doing \in [Publishers -> [at : JobPlaces, event : BusEvents]]
      /\ queue \in SUBSET BusEvents /\ IsFiniteSet(queue)
      /\ published \in Nat /\ number \in Nat
  BY DEF BusInv
<1>1. ASSUME NEW p \in Publishers, NEW priority \in Priorities, TakeNumber(p, priority)
      PROVE  InTurn' /\ NoEventLost'
  <2> DEFINE e == [id |-> published + 1, priority |-> priority, number |-> number]
             r == [at |-> "numbered", event |-> e]
  <2>1. /\ doing' = [doing EXCEPT ![p] = r] /\ published' = published + 1
        /\ UNCHANGED <<queue, number, handled>> /\ doing[p].at = "idle"
        /\ \A q \in Publishers : ~Numbered(q)
    BY <1>1 DEF TakeNumber, Becomes, Numbered
  <2>2. r.at = "numbered" /\ r.event.id = published + 1 /\ r.event.number = number
    OBVIOUS
  <2> HIDE DEF e, r
  <2>3. \A q \in Publishers : doing'[q] = IF q = p THEN r ELSE doing[q]
    BY <1>0, <2>1
  <2>4. Drainers' = Drainers /\ \A q \in Publishers : Numbered(q)' => q = p
    BY <2>1, <2>2, <2>3 DEF Drainers, Numbered
  <2>5. \A q \in Publishers : Numbered(q)' => doing'[q].event.number = number'
    BY <2>1, <2>2, <2>3, <2>4
  <2>6. InTurn'
    BY <2>1, <2>4, <2>5 DEF InTurn
  <2>7. \A id : InHand(id) \/ id = published + 1 => InHand(id)'
    <3>1. ASSUME NEW id, InHand(id) PROVE InHand(id)'
      <4>1. PICK q \in Publishers : doing[q].at \in {"numbered", "handles"} /\ doing[q].event.id = id
        BY <3>1 DEF InHand
      <4>2. doing'[q] = doing[q]
        BY <2>1, <2>3, <4>1
      <4> QED
        BY <4>1, <4>2 DEF InHand
    <3>2. doing'[p].at = "numbered" /\ doing'[p].event.id = published + 1
      BY <2>2, <2>3
    <3> QED
      BY <3>1, <3>2 DEF InHand
  <2>8. \A id \in 1..published' : id \in 1..published \/ id = published + 1
    BY <1>0, <2>1, SMT
  <2> QED
    BY <2>1, <2>6, <2>7, <2>8 DEF NoEventLost
<1>2. ASSUME NEW p \in Publishers, Put(p) PROVE InTurn' /\ NoEventLost'
  <2> DEFINE e == doing[p].event
             r == [at |-> "drains", event |-> Nothing]
  <2>1. Numbered(p) /\ ~Full
    BY <1>2, RoomToPut DEF Put, Numbered
  <2>2. /\ doing' = [doing EXCEPT ![p] = r] /\ queue' = queue \cup {e}
        /\ number' = e.number + 1 /\ UNCHANGED <<published, handled>>
    BY <1>2, <2>1 DEF Put, Becomes, AfterPublishing
  <2>3. r.at = "drains" /\ e.number = number
    BY <2>1 DEF InTurn
  <2>4. e \in BusEvents /\ e \notin queue
    BY <1>0, <2>1 DEF BusInv
  <2> HIDE DEF e, r
  <2>5. \A q \in Publishers : doing'[q] = IF q = p THEN r ELSE doing[q]
    BY <1>0, <2>2
  <2>6. Drainers' = Drainers \cup {p} /\ p \notin Drainers
    BY <2>1, <2>3, <2>5 DEF Drainers, Numbered
  <2>7. Cardinality(queue') = Cardinality(Drainers')
    <3>1. Cardinality(queue') = Cardinality(queue) + 1
      BY <1>0, <2>2, <2>4, FS_AddElement
    <3>2. Cardinality(Drainers') = Cardinality(Drainers) + 1
      BY <2>6, DrainersFinite, FS_AddElement
    <3> QED
      BY <3>1, <3>2 DEF InTurn
  <2>8. \A q \in Publishers : ~Numbered(q)'
    BY <2>1, <2>3, <2>5 DEF InTurn, Numbered
  <2>9. \A f \in queue : f.number \in Nat /\ f.number < number
    BY <1>0 DEF InTurn, BusEvents
  <2>10. /\ \A f \in queue' : f.number < number'
         /\ \A f, g \in queue' : f.number = g.number => f = g
    <3>1. \A f \in queue' : f \in queue \/ (f = e /\ f.number = number)
      BY <2>2, <2>3
    <3>2. number' = number + 1
      BY <2>2, <2>3
    <3>3. \A f \in queue' : f.number < number'
      BY <1>0, <2>9, <3>1, <3>2, SMT
    <3>4. \A f \in queue : f.number # number
      BY <1>0, <2>9, SMT
    <3>5. \A f, g \in queue' : f.number = g.number => f = g
      BY <3>1, <3>4 DEF InTurn
    <3> QED
      BY <3>3, <3>5
  <2>11. InTurn'
    BY <2>7, <2>8, <2>10 DEF InTurn
  <2>12. \A id : InHand(id) => InHand(id)' \/ id = e.id
    BY <2>5 DEF InHand, e
  <2>13. e \in queue' /\ queue \subseteq queue'
    BY <2>2
  <2> QED
    BY <2>2, <2>11, <2>12, <2>13 DEF NoEventLost
<1>3. ASSUME NEW p \in Publishers, Take(p) PROVE InTurn' /\ NoEventLost'
  <2>1. PICK e \in queue : queue' = queue \ {e} /\ Becomes(p, "handles", e)
    BY <1>3 DEF Take, Rest
  <2>2. doing[p].at = "drains" /\ UNCHANGED <<number, published, handled>>
    BY <1>3 DEF Take
  <2>3. \A q \in Publishers : doing'[q] = IF q = p THEN [at |-> "handles", event |-> e] ELSE doing[q]
    BY <1>0, <2>1 DEF Becomes
  <2>4. Drainers' = Drainers \ {p} /\ p \in Drainers
    BY <2>2, <2>3 DEF Drainers
  <2>5. Cardinality(queue') = Cardinality(Drainers')
    <3>1. Cardinality(queue') = Cardinality(queue) - 1
      BY <1>0, <2>1, FS_RemoveElement
    <3>2. Cardinality(Drainers') = Cardinality(Drainers) - 1
      BY <2>4, DrainersFinite, FS_RemoveElement
    <3> QED
      BY <3>1, <3>2 DEF InTurn
  <2>6. \A q \in Publishers : Numbered(q)' => Numbered(q) /\ doing'[q] = doing[q]
    BY <2>3 DEF Numbered
  <2>7. InTurn'
    BY <2>1, <2>2, <2>5, <2>6 DEF InTurn
  <2>8. InHand(e.id)' /\ \A id : InHand(id) => InHand(id)'
    BY <2>2, <2>3 DEF InHand
  <2>9. \A f \in queue : f \in queue' \/ f = e
    BY <2>1
  <2> QED
    BY <2>2, <2>7, <2>8, <2>9 DEF NoEventLost
<1>4. ASSUME NEW p \in Publishers, Handle(p) PROVE InTurn' /\ NoEventLost'
  <2>1. /\ doing' = [doing EXCEPT ![p] = Idle] /\ UNCHANGED <<queue, number, published>>
        /\ handled' = handled \cup {doing[p].event.id} /\ doing[p].at = "handles"
    BY <1>4 DEF Handle
  <2>2. \A q \in Publishers : doing'[q] = IF q = p THEN Idle ELSE doing[q]
    BY <1>0, <2>1
  <2>3. Drainers' = Drainers /\ \A q \in Publishers : Numbered(q)' => Numbered(q) /\ doing'[q] = doing[q]
    BY <2>1, <2>2 DEF Drainers, Numbered, Idle
  <2>4. InTurn'
    BY <2>1, <2>3 DEF InTurn
  <2>5. \A id : InHand(id) => InHand(id)' \/ id \in handled'
    BY <2>1, <2>2 DEF InHand
  <2> QED
    BY <2>1, <2>4, <2>5 DEF NoEventLost
<1>5. CASE UNCHANGED busVars
  BY <1>5 DEF busVars, InTurn, NoEventLost, InHand, Numbered, Drainers
<1> QED
  BY <1>1, <1>2, <1>3, <1>4, <1>5, NothingRaises DEF BusNext, Publishing

\* An event is not lost between the job that published it and the job that
\* calls its handlers (event_bus.py, publish and _drain_once), unless two jobs
\* read the same number.
THEOREM EventsAreKept == BusSpec => [](~SameNumber => NoEventLost)
<1>1. SameNumber = TRUE \/ SameNumber = FALSE
  BY BusAssumption
<1>2. BusInit => (~SameNumber => InTurn /\ NoEventLost)
  BY InTurnInit
<1>3. /\ BusInv /\ (~SameNumber => InTurn /\ NoEventLost) /\ [BusNext]_busVars
      => (~SameNumber => InTurn /\ NoEventLost)'
  BY <1>1, InTurnNext
<1>4. (~SameNumber => InTurn /\ NoEventLost) => (~SameNumber => NoEventLost)
  OBVIOUS
<1> QED
  BY <1>2, <1>3, <1>4, BusInvInit, BusInvNext, PTL DEF BusSpec

-----------------------------------------------------------------------------
(***************************************************************************)
(* What holds of the circuit breakers for any number of users, subsystems  *)
(* and failures: however the users' whole-file writes overtake each other, *)
(* no breaker is half one write and half another.                          *)
(***************************************************************************)

USE ThresholdAssumption

Sounds(f) == \A s \in Subsystems : Sound(f[s])

\* Who is about to write "half open" read "open": without this the write could
\* give that status to a breaker whose count is short of the threshold.
Reopening ==
  \A u \in Users : user[u].at = "reopens" => user[u].read[user[u].of].status = "open"

BreakersInv == TypeOK /\ BreakersSound /\ Reopening

(* The registry's three writes keep a breaker sound. *)

LEMMA Next1InCounts ==
  ASSUME NEW n \in Counts
  PROVE  Next1(n) \in Counts
  BY SMT DEF Next1, Counts

LEMMA FailedIsSound ==
  ASSUME NEW b \in Breakers
  PROVE  Failed(b) \in Breakers /\ Sound(Failed(b))
<1>1. Next1(b.count) \in Counts
  BY Next1InCounts DEF Breakers
<1>2. Next1(b.count) >= Threshold <=> Next1(b.count) = Threshold
  BY <1>1, SMT DEF Counts
<1> QED
  BY <1>1, <1>2 DEF Failed, Breakers, Sound

LEMMA SucceededIsSound ==
  ASSUME NEW b \in Breakers
  PROVE  Succeeded(b) \in Breakers /\ Sound(Succeeded(b))
  BY SMT DEF Succeeded, Closed, Breakers, Sound, Counts

LEMMA HalfOpenIsSound ==
  ASSUME NEW b \in Breakers, Sound(b), b.status = "open",
         NEW c, c = [b EXCEPT !.status = "half_open", !.due = FALSE]
  PROVE  c \in Breakers /\ Sound(c)
<1>1. c \in Breakers
  BY DEF Breakers
<1>2. c.status = "half_open" /\ c.count = b.count /\ c.due = FALSE
  BY DEF Breakers
<1> QED
  BY <1>1, <1>2 DEF Sound

LEMMA AgedIsSound ==
  ASSUME NEW f \in Files, Sounds(f), NEW s \in Subsystems
  PROVE  Aged(f, s) \in Files /\ Sounds(Aged(f, s))
<1> DEFINE b == [f[s] EXCEPT !.due = @ \/ f[s].status = "open"]
<1>1. f[s] \in Breakers /\ Sound(f[s])
  BY DEF Files, Sounds
<1>2. b.due \in BOOLEAN /\ b.status = f[s].status /\ b.count = f[s].count
  BY <1>1 DEF Breakers
<1>3. b \in Breakers
  BY <1>1, <1>2 DEF Breakers
<1>4. Sound(b)
  BY <1>1, <1>2 DEF Sound, Breakers
<1>5. Aged(f, s) = [f EXCEPT ![s] = b]
  BY DEF Aged
<1> QED
  BY <1>1, <1>3, <1>4, <1>5 DEF Files, Sounds

LEMMA WriteIsSound ==
  ASSUME NEW f \in Files, Sounds(f), NEW s \in Subsystems,
         NEW b \in Breakers, Sound(b)
  PROVE  /\ [f EXCEPT ![s] = b] \in Files
         /\ Sounds([f EXCEPT ![s] = b])
  BY DEF Files, Sounds

(* The invariant. *)

LEMMA BreakersInvInit == Init => BreakersInv
<1> SUFFICES ASSUME Init PROVE BreakersInv
  OBVIOUS
<1>1. Closed \in Breakers /\ Sound(Closed)
  BY SMT DEF Closed, Breakers, Sound, Counts
<1>2. file \in Files /\ Sounds(file)
  BY <1>1 DEF Init, Files, Sounds
<1>3. user \in [Users -> [at : Places, of : Subsystems, read : Files]]
  BY <1>2 DEF Init, Places
<1>4. \A u \in Users : user[u].read = file
  BY DEF Init
<1>5. Reopening
  BY DEF Init, Reopening
<1> QED
  BY <1>2, <1>3, <1>4, <1>5 DEF BreakersInv, TypeOK, BreakersSound, Sounds

LEMMA BreakersInvParts ==
  BreakersInv <=> /\ file \in Files /\ Sounds(file)
                  /\ user \in [Users -> [at : Places, of : Subsystems, read : Files]]
                  /\ \A u \in Users : Sounds(user[u].read)
                  /\ Reopening
<1>1. TypeOK <=> /\ file \in Files
                 /\ user \in [Users -> [at : Places, of : Subsystems, read : Files]]
  BY Zenon DEF TypeOK
<1>2. BreakersSound <=> Sounds(file) /\ \A u \in Users : Sounds(user[u].read)
  BY Zenon DEF BreakersSound, Sounds
<1> QED
  BY <1>1, <1>2, Zenon DEF BreakersInv

\* What an action must show of what it leaves behind.
UsersOK == /\ user' \in [Users -> [at : Places, of : Subsystems, read : Files]]
           /\ \A v \in Users : Sounds(user'[v].read)
           /\ \A v \in Users : user'[v].at = "reopens"
                               => user'[v].read[user'[v].of].status = "open"
FileOK == file' \in Files /\ Sounds(file')

LEMMA BreakersInvAfter ==
  ASSUME UsersOK, FileOK
  PROVE  BreakersInv'
  BY DEF BreakersInv, TypeOK, BreakersSound, Sounds, Reopening, UsersOK, FileOK

\* A user's move with a copy that is sound.
LEMMA GoesSound ==
  ASSUME BreakersInv, NEW u \in Users, NEW s \in Subsystems, NEW place \in Places,
         NEW read \in Files, Sounds(read), Goes(u, place, s, read),
         place = "reopens" => read[s].status = "open"
  PROVE  UsersOK
<1> DEFINE r == [at |-> place, of |-> s, read |-> read]
<1>1. /\ r \in [at : Places, of : Subsystems, read : Files]
      /\ r.at = place /\ r.of = s /\ r.read = read
  OBVIOUS
<1>2. user' = [user EXCEPT ![u] = r]
  BY DEF Goes
<1> HIDE DEF r
<1>3. user' \in [Users -> [at : Places, of : Subsystems, read : Files]]
  BY <1>1, <1>2, BreakersInvParts
<1>4. ASSUME NEW v \in Users
      PROVE  /\ Sounds(user'[v].read)
             /\ user'[v].at = "reopens" => user'[v].read[user'[v].of].status = "open"
  <2>1. user'[v] = IF v = u THEN r ELSE user[v]
    BY <1>2, BreakersInvParts
  <2>2. CASE v = u
    BY <1>1, <2>1, <2>2
  <2>3. CASE v # u
    BY <2>1, <2>3, BreakersInvParts DEF Reopening
  <2> QED
    BY <2>2, <2>3
<1> QED
  BY <1>3, <1>4 DEF UsersOK

\* What a user read, and where it is.
LEMMA UserFacts ==
  ASSUME BreakersInv, NEW u \in Users
  PROVE  /\ user[u].of \in Subsystems
         /\ user[u].read \in Files /\ Sounds(user[u].read)
         /\ user[u].read[user[u].of] \in Breakers
         /\ Sound(user[u].read[user[u].of])
<1>1. user[u] \in [at : Places, of : Subsystems, read : Files]
  BY BreakersInvParts
<1>2. user[u].of \in Subsystems /\ user[u].read \in Files /\ Sounds(user[u].read)
  BY <1>1, BreakersInvParts
<1> QED
  BY <1>2 DEF Files, Sounds

LEMMA BreakersInvNext == BreakersInv /\ [Next]_vars => BreakersInv'
<1> SUFFICES ASSUME BreakersInv, [Next]_vars PROVE BreakersInv'
  OBVIOUS
<1>p. {"idle", "reopens", "calls", "succeeded", "failed"} = Places
  BY DEF Places
<1>f. file \in Files /\ Sounds(file)
  BY BreakersInvParts
<1>1. ASSUME NEW u \in Users, NEW s \in Subsystems, CheckAnswers(u, s) \/ CallsAnyway(u, s)
      PROVE BreakersInv'
  <2>1. UsersOK
    BY <1>1, <1>p, <1>f, GoesSound DEF CheckAnswers, CallsAnyway
  <2> QED
    BY <1>1, <1>f, <2>1, BreakersInvAfter DEF CheckAnswers, CallsAnyway, FileOK
<1>2. ASSUME NEW u \in Users, NEW s \in Subsystems, CheckFindsDue(u, s) PROVE BreakersInv'
  <2>1. UsersOK
    BY <1>2, <1>p, <1>f, GoesSound DEF CheckFindsDue, Due
  <2> QED
    BY <1>2, <1>f, <2>1, BreakersInvAfter DEF CheckFindsDue, FileOK
<1>3. ASSUME NEW u \in Users, CheckReopens(u) PROVE BreakersInv'
  <2> DEFINE s == user[u].of
             b == [user[u].read[s] EXCEPT !.status = "half_open", !.due = FALSE]
  <2>1. UsersOK
    BY <1>3, <1>p, UserFacts, GoesSound DEF CheckReopens
  <2>2. b \in Breakers /\ Sound(b)
    BY <1>3, UserFacts, BreakersInvParts, HalfOpenIsSound DEF CheckReopens, At, Reopening
  <2>3. file' = [user[u].read EXCEPT ![s] = b]
    BY <1>3 DEF CheckReopens
  <2> HIDE DEF b
  <2>4. FileOK
    BY <2>2, <2>3, UserFacts, WriteIsSound DEF FileOK
  <2> QED
    BY <1>3, <1>f, <2>1, <2>4, BreakersInvAfter DEF CheckReopens
<1>4. ASSUME NEW u \in Users, CallSucceeds(u) \/ CallFails(u) PROVE BreakersInv'
  <2>1. UsersOK
    BY <1>4, <1>p, <1>f, UserFacts, GoesSound DEF CallSucceeds, CallFails
  <2> QED
    BY <1>4, <1>f, <2>1, BreakersInvAfter DEF CallSucceeds, CallFails, FileOK
<1>5. ASSUME NEW u \in Users, GoesIdle(u) PROVE BreakersInv'
  <2>1. UsersOK
    BY <1>5, <1>p, UserFacts, GoesSound DEF GoesIdle
  <2> QED
    BY <1>5, <1>f, <2>1, BreakersInvAfter DEF GoesIdle, FileOK
<1>6. ASSUME NEW u \in Users, RecordSuccess(u) PROVE BreakersInv'
  <2>1. UsersOK
    BY <1>6, <1>p, UserFacts, GoesSound DEF RecordSuccess
  <2>2. FileOK
    BY <1>6, UserFacts, SucceededIsSound, WriteIsSound DEF FileOK, RecordSuccess
  <2> QED
    BY <1>6, <1>f, <2>1, <2>2, BreakersInvAfter DEF RecordSuccess
<1>7. ASSUME NEW u \in Users, RecordFailure(u) PROVE BreakersInv'
  <2>1. UsersOK
    BY <1>7, <1>p, UserFacts, GoesSound DEF RecordFailure
  <2>2. FileOK
    BY <1>7, UserFacts, FailedIsSound, WriteIsSound DEF FileOK, RecordFailure
  <2> QED
    BY <1>7, <1>f, <2>1, <2>2, BreakersInvAfter DEF RecordFailure
<1>8. ASSUME NEW s \in Subsystems, FallsDue(s) PROVE BreakersInv'
  <2>1. FileOK
    BY <1>8, <1>f, AgedIsSound DEF FallsDue, FileOK
  <2>2. ASSUME NEW u \in Users
        PROVE  /\ user'[u] \in [at : Places, of : Subsystems, read : Files]
               /\ Sounds(user'[u].read)
               /\ user'[u].at = "reopens" => user'[u].read[user'[u].of].status = "open"
    <3> DEFINE r == Aged(user[u].read, s)
    <3>1. r \in Files /\ Sounds(r)
      BY UserFacts, AgedIsSound
    <3>2. r[user[u].of].status = user[u].read[user[u].of].status
      BY UserFacts DEF Aged, Files, Breakers
    <3>3. user[u] \in [at : Places, of : Subsystems, read : Files]
      BY BreakersInvParts
    <3>4. user'[u] = [user[u] EXCEPT !.read = r]
      BY <1>8 DEF FallsDue
    <3> HIDE DEF r
    <3> QED
      BY <3>1, <3>2, <3>3, <3>4, BreakersInvParts DEF Reopening
  <2>3. user' = [u \in Users |-> user'[u]]
    BY <1>8 DEF FallsDue
  <2>4. UsersOK
    BY <2>2, <2>3 DEF UsersOK
  <2> QED
    BY <1>8, <1>f, <2>1, <2>4, BreakersInvAfter DEF FallsDue
<1>9. CASE UNCHANGED vars
  BY <1>9, BreakersInvParts, BreakersInvAfter DEF vars, UsersOK, FileOK, Reopening
<1> QED
  BY <1>1, <1>2, <1>3, <1>4, <1>5, <1>6, <1>7, <1>8, <1>9 DEF Next, Registry, Caller

LEMMA BreakersInvAlways == Spec => []BreakersInv
  BY BreakersInvInit, BreakersInvNext, PTL DEF Spec

\* Every variable keeps its type, counts their bound, under every interleaving
\* of the registry's reads and whole-file writes (circuit_breaker.py).
THEOREM BreakersTypeCorrect == Spec => []TypeOK
<1>1. BreakersInv => TypeOK
  BY DEF BreakersInv
<1> QED
  BY <1>1, BreakersInvAlways, PTL

\* A breaker is open or half open exactly when it counted enough failures, in
\* the file and in every copy that is about to be written: check,
\* record_success and record_failure write whole breakers.
THEOREM BreakersStaySound == Spec => []BreakersSound
<1>1. BreakersInv => BreakersSound
  BY DEF BreakersInv
<1> QED
  BY <1>1, BreakersInvAlways, PTL

=============================================================================
