------------------------------ MODULE SafeFile ------------------------------
(***************************************************************************)
(* A JSON file written through a temporary one: the file is copied to its  *)
(* backup, the payload is written to a file of one fixed name and synced,  *)
(* and renamed over the file.  A reader takes the first of file and backup *)
(* that parses.  No lock is held.                                          *)
(*                                                                         *)
(* A writer that has the temporary file open goes on writing to it when    *)
(* another has renamed it.  A file that two had open at once may hold a    *)
(* mixture; a file that is truncated, or a mixture, does not parse.        *)
(***************************************************************************)
EXTENDS Integers

CONSTANTS
  Writers,    \* threads and processes that write the file
  MaxPayloads \* bound: writes that are begun

ASSUME FileAssumption == MaxPayloads \in Nat

VARIABLES
  main, backup, temporary, \* content of the three files
  writing,                 \* what each writer is at
  payloads,                \* writes begun
  completed,               \* the last payload of which the write returned
  overlapped               \* whether two have written at once

fileVars == <<main, backup, temporary, writing, payloads, completed, overlapped>>

Missing == -1
Torn == 0
Parses(content) == content > 0
FileContents == -1..MaxPayloads

\* on: the file a writer has open; alone: whether no other has had it open since.
Quiet == [at |-> "quiet", payload |-> Torn, on |-> "temporary", alone |-> TRUE]
Moves(w, place) == writing' = [writing EXCEPT ![w].at = place]

-----------------------------------------------------------------------------
(* atomic_write_json. *)

StartWrite(w) ==
  /\ writing[w].at = "quiet"
  /\ payloads < MaxPayloads
  /\ payloads' = payloads + 1
  /\ writing' = [writing EXCEPT ![w] = [at |-> IF main = Missing THEN "backed up" ELSE "copies",
                                        payload |-> payloads + 1, on |-> "temporary", alone |-> TRUE]]
  /\ backup' = IF main = Missing THEN backup ELSE Torn
  /\ overlapped' = (overlapped \/ \E v \in Writers : writing[v].at # "quiet")
  /\ UNCHANGED <<main, temporary, completed>>

CopyBackup(w) ==
  /\ writing[w].at = "copies"
  /\ backup' = main
  /\ Moves(w, "backed up")
  /\ UNCHANGED <<main, temporary, payloads, completed, overlapped>>

HasOpen(w, on) == writing[w].at = "opened" /\ writing[w].on = on
Opened(w, on) ==
  [v \in Writers |->
     IF v = w THEN [writing[v] EXCEPT !.at = "opened", !.on = on, !.alone = ~\E u \in Writers : HasOpen(u, on)]
              ELSE [writing[v] EXCEPT !.alone = @ /\ ~HasOpen(v, on)]]

\* Opening truncates.
\* Mutant: the file itself is opened.
OpenMain(w) ==
  /\ writing[w].at = "backed up"
  /\ main' = Torn
  /\ writing' = Opened(w, "main")
  /\ UNCHANGED <<backup, temporary, payloads, completed, overlapped>>
OpenTemporary(w) ==
  /\ writing[w].at = "backed up"
  /\ temporary' = Torn
  /\ writing' = Opened(w, "temporary")
  /\ UNCHANGED <<main, backup, payloads, completed, overlapped>>

\* Two payloads written to one file may be mixed.
Result(w) == IF writing[w].alone THEN {writing[w].payload} ELSE {Torn, writing[w].payload}

WriteAndSync(w) ==
  /\ writing[w].at = "opened"
  /\ CASE writing[w].on = "temporary" -> temporary' \in Result(w) /\ UNCHANGED main
       [] writing[w].on = "main"      -> main' \in Result(w) /\ UNCHANGED temporary
       [] OTHER                       -> UNCHANGED <<main, temporary>>
  /\ Moves(w, "synced")
  /\ UNCHANGED <<backup, payloads, completed, overlapped>>

\* The rename takes with it whoever has the temporary file open.
Renamed(on) == IF on = "temporary" THEN "main" ELSE "gone"
Rename(w) ==
  /\ writing[w].at = "synced"
  /\ temporary # Missing
  /\ main' = temporary
  /\ temporary' = Missing
  /\ completed' = writing[w].payload
  /\ writing' = [v \in Writers |-> IF v = w THEN Quiet ELSE [writing[v] EXCEPT !.on = Renamed(@)]]
  /\ UNCHANGED <<backup, payloads, overlapped>>

\* The temporary file is gone: an exception.
RenameFails(w) ==
  /\ writing[w].at = "synced"
  /\ temporary = Missing
  /\ writing' = [writing EXCEPT ![w] = Quiet]
  /\ UNCHANGED <<main, backup, temporary, payloads, completed, overlapped>>

\* The writer's process is killed.
Killed(w) ==
  /\ writing[w].at # "quiet"
  /\ writing' = [writing EXCEPT ![w] = Quiet]
  /\ UNCHANGED <<main, backup, temporary, payloads, completed, overlapped>>

-----------------------------------------------------------------------------
FileInit ==
  /\ main = Missing /\ backup = Missing /\ temporary = Missing
  /\ writing = [w \in Writers |-> Quiet]
  /\ payloads = 0
  /\ completed = Missing
  /\ overlapped = FALSE

FileNext ==
  \E w \in Writers : \/ StartWrite(w) \/ CopyBackup(w) \/ OpenTemporary(w) \/ WriteAndSync(w)
                     \/ Rename(w) \/ RenameFails(w) \/ Killed(w)

FileSpec == FileInit /\ [][FileNext]_fileVars

-----------------------------------------------------------------------------
(* Properties. *)

\* Every variable has its type.
FileTypeOK ==
  /\ main \in FileContents /\ backup \in FileContents /\ temporary \in FileContents
  /\ writing \in [Writers -> [at : {"quiet", "copies", "backed up", "opened", "synced"},
                              payload : 0..MaxPayloads,
                              on : {"temporary", "main", "gone"}, alone : BOOLEAN]]
  /\ payloads \in 0..MaxPayloads
  /\ completed \in FileContents
  /\ overlapped \in BOOLEAN

\* read_json_with_backup; Missing stands for the default.
ReadJson == IF Parses(main) THEN main ELSE IF Parses(backup) THEN backup ELSE Missing

\* Until two have written at once, a reader gets the payload whose write
\* returned last, whole, though writers are killed at any moment, and the
\* default only before the first.
ReadsLastWrite == ~overlapped => ReadJson = completed

\* Whoever wrote at once, a reader gets some payload once all are quiet.
QuietReadsAPayload == (\A w \in Writers : writing[w] = Quiet) /\ payloads > 0 => Parses(ReadJson)

=============================================================================
