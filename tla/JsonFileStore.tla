--------------------------- MODULE JsonFileStore ---------------------------
(***************************************************************************)
(* adapters/jsonfile.  A call holds the mutex while it changes the map,    *)
(* writes the temporary file and renames it, so at most one is under way;  *)
(* the process may be killed between any two of these steps.               *)
(***************************************************************************)
EXTENDS Storage

CONSTANT Torn   \* content of a file whose writing was interrupted

ASSUME TornAssumption == Torn \notin State

VARIABLES
  data,    \* the map in memory
  tmp,     \* content of path.tmp; NoRecord stands for a missing file
  file,    \* content of path; NoRecord stands for a missing file
  saving   \* where the call that holds the mutex is, and data before it

fileVars == <<data, tmp, file, saving>>

FileStep == {"idle", "write", "rename", "return", "down"}

Released(pc) == [pc |-> pc, before |-> NoRecord]

FileInit ==
  /\ data = NoRecord
  /\ tmp = NoRecord
  /\ file = NoRecord
  /\ saving = Released("idle")

(* AddPoints, AwardBadge, SetLevel up to persist. An overflow is refused    *)
(* and changes nothing.                                                     *)
FileChange(op) ==
  /\ saving.pc = "idle"
  /\ ~Refused(op, data[op.row])
  /\ data' = Apply(op, data)
  /\ saving' = [pc |-> "write", before |-> data]
  /\ UNCHANGED <<tmp, file>>

(* A bug: persist writes to path itself.                                   *)
FileWriteInPlace ==
  /\ saving.pc = "write"
  /\ \/ /\ file' = data
        /\ saving' = [saving EXCEPT !.pc = "return"]
     \/ /\ file' = Torn
        /\ saving' = Released("idle")
  /\ UNCHANGED <<data, tmp>>

(* MkdirAll and WriteFile to path.tmp. When either fails the error is      *)
(* returned and the map keeps the change.                                  *)
FileWrite ==
  /\ saving.pc = "write"
  /\ \/ /\ tmp' = data
        /\ saving' = [saving EXCEPT !.pc = "rename"]
     \/ /\ tmp' \in {tmp, Torn}
        /\ saving' = Released("idle")
  /\ UNCHANGED <<data, file>>

FileRename ==
  /\ saving.pc = "rename"
  /\ \/ /\ file' = tmp
        /\ saving' = [saving EXCEPT !.pc = "return"]
     \/ /\ UNCHANGED file
        /\ saving' = Released("idle")
  /\ UNCHANGED <<data, tmp>>

FileReturn ==
  /\ saving.pc = "return"
  /\ saving' = Released("idle")
  /\ UNCHANGED <<data, tmp, file>>

(* The process ends; a write under way leaves what it got to.              *)
FileCrash ==
  /\ saving.pc # "down"
  /\ saving' = Released("down")
  /\ tmp' \in IF saving.pc = "write" THEN {tmp, Torn} ELSE {tmp}
  /\ data' = NoRecord
  /\ UNCHANGED file

(* New: load fails on a file it cannot parse, and then there is no Store.  *)
FileNew ==
  /\ saving.pc = "down"
  /\ file # Torn
  /\ data' = file
  /\ saving' = Released("idle")
  /\ UNCHANGED <<tmp, file>>

FileNext ==
  \/ \E op \in Op : FileChange(op)
  \/ FileWrite
  \/ FileRename
  \/ FileReturn
  \/ FileCrash
  \/ FileNew

FileSpec == FileInit /\ [][FileNext]_fileVars

-----------------------------------------------------------------------------
(* Properties                                                              *)

(* What GetState shows: it waits for the mutex, so not a change being      *)
(* saved; and with no process running, what the next one will load.        *)
Shown ==
  IF saving.pc = "down" THEN file
  ELSE IF saving.pc \in {"write", "rename"} THEN saving.before
  ELSE data

C == INSTANCE StorageContract WITH live <- Shown, kept <- file

(* The file adapter keeps the contract of a durable Storage: an operation  *)
(* that succeeds survives every later crash, whichever step it hits; one   *)
(* that fails is shown, and kept by the next that succeeds, or is gone     *)
(* after a restart; the file is never one that New cannot load.            *)
FileKeepsContract == C!Spec
=============================================================================
