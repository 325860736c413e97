------------------------------ MODULE LogFiles ------------------------------
(***************************************************************************)
(* The log of src/logs.rs: ai2npu.log, which is written to, and its        *)
(* rotated predecessors ai2npu.log.1 (the youngest) to .MaxFiles.          *)
(*                                                                         *)
(* A record is written under the lock of LogFileMakeWriter, so there is    *)
(* one write at a time; but it is many operations of the file system, each *)
(* of which may fail, and the process may be killed between any two.       *)
(*                                                                         *)
(* Slot 0 is the active file, slot k the file .k, and Gone is where a      *)
(* record is whose file was deleted or overwritten.  Lengths are in bytes  *)
(* of any unit.                                                            *)
(***************************************************************************)
EXTENDS Naturals, FiniteSets

CONSTANTS
  MaxFiles,     \* logging.max_files
  MaxSize,      \* logging.max_file_size_mb
  Lengths,      \* the lengths that a record may have
  MaxRecords,   \* bound: the records of one behaviour
  MaxFaults     \* bound: failing operations and kills in the middle of one

\* AppConfig::validate, src/config.rs:112-117, refuses zeros.
ASSUME LogAssumption ==
  /\ MaxFiles \in Nat \ {0} /\ MaxSize \in Nat \ {0}
  /\ Lengths \subseteq Nat \ {0}
  /\ MaxRecords \in Nat /\ MaxFaults \in Nat

Slots == 0..MaxFiles
Gone == MaxFiles + 1
Records == 1..MaxRecords

VARIABLES
  \* The directory.
  exists,       \* the slots that have a file
  bytes,        \* how long each file is
  place,        \* where each accepted record is
  \* LogFileState.
  opened,       \* file.is_some()
  size,         \* current_size
  \* The operation in progress.
  pc, at,       \* at: the slot that is renamed next
  rec, length,  \* the number of the last record and its length; 0 in a start
  \* History.
  accepted,     \* the records whose write returned Ok
  inexact,      \* files whose length was not counted in full
  rotations,    \* completed rotations, up to MaxFiles
  faults

dirVars == <<exists, bytes, place>>
fileVars == <<opened, size>>
recVars == <<rec, length>>
history == <<accepted, inexact, rotations, faults>>
vars == <<dirVars, fileVars, pc, at, recVars, history>>

TypeOK ==
  /\ exists \subseteq Slots
  /\ bytes \in [Slots -> Nat] /\ \A k \in Slots \ exists : bytes[k] = 0
  /\ place \in [Records -> 0..Gone]
  /\ opened \in BOOLEAN /\ (opened => 0 \in exists)
  /\ size \in Nat
  /\ pc \in {"down", "idle", "oldest", "shift", "reopen", "recover", "append"}
  /\ at \in Slots
  /\ rec \in 0..MaxRecords /\ length \in Lengths \union {0}
  /\ accepted \subseteq 1..rec
  /\ inexact \subseteq exists
  /\ rotations \in 0..MaxFiles
  /\ faults \in 0..MaxFaults

Init ==
  /\ exists = {} /\ bytes = [k \in Slots |-> 0]
  /\ place = [r \in Records |-> Gone]
  /\ opened = FALSE /\ size = 0
  /\ pc = "down" /\ at = 0
  /\ rec = 0 /\ length = 0
  /\ accepted = {} /\ inexact = {} /\ rotations = 0 /\ faults = 0

-----------------------------------------------------------------------------
(* The operations of the file system. *)

\* An operation fails, or the process is killed in the middle of its work.
Fault == faults < MaxFaults /\ faults' = faults + 1

\* fs::remove_file
Remove(k) ==
  /\ exists' = exists \ {k}
  /\ bytes' = [bytes EXCEPT ![k] = 0]
  /\ place' = [r \in Records |-> IF place[r] = k THEN Gone ELSE place[r]]
  /\ inexact' = inexact \ {k}

\* fs::rename to the next slot, which replaces a file that is there.
Rename(k) ==
  /\ exists' = (exists \ {k}) \union {k + 1}
  /\ bytes' = [bytes EXCEPT ![k] = 0, ![k + 1] = bytes[k]]
  /\ place' = [r \in Records |-> CASE place[r] = k -> k + 1
                                   [] place[r] = k + 1 -> Gone
                                   [] OTHER -> place[r]]
  /\ inexact' = (inexact \ {k, k + 1})
                  \union {j \in {k + 1} : k \in inexact}

\* open_log_file, then the length of the file: 0 when it cannot be read.
Open ==
  /\ exists' = exists \union {0}
  /\ opened' = TRUE
  /\ \/ size' = bytes[0] /\ UNCHANGED <<inexact, faults>>
     \/ bytes[0] > 0 /\ Fault /\ size' = 0 /\ inexact' = inexact \union {0}
  /\ UNCHANGED <<bytes, place>>

-----------------------------------------------------------------------------
(* The start of the process: init_file_logging. *)

Starting == length = 0

\* rotate_log_file: only a file that is longer than MaxSize is rotated; one
\* whose length cannot be read is left alone.
Start ==
  /\ pc = "down"
  /\ length' = 0
  /\ \/ pc' = (IF bytes[0] > MaxSize THEN "oldest" ELSE "reopen") /\ UNCHANGED faults
     \/ bytes[0] > MaxSize /\ Fault /\ pc' = "reopen"
  /\ UNCHANGED <<dirVars, fileVars, at, rec, accepted, inexact, rotations>>

Killed ==
  /\ pc # "down" /\ pc' = "down"
  /\ opened' = FALSE /\ size' = 0 /\ at' = 0 /\ length' = 0
  /\ IF pc = "idle" THEN UNCHANGED faults ELSE Fault
  /\ UNCHANGED <<dirVars, rec, accepted, inexact, rotations>>

-----------------------------------------------------------------------------
(* A write: rotate_before_write, then write_all. *)

\* Mutant of Fits: the length of the record itself is forgotten.
FitsAlready(len) == size <= MaxSize \/ size = 0

Fits(len) == size + len <= MaxSize \/ size = 0

\* Mutant of Write: the file stays open during the rotation.
WriteUnclosed(len) ==
  /\ pc = "idle" /\ rec < MaxRecords
  /\ rec' = rec + 1 /\ length' = len
  /\ pc' = (CASE ~Fits(len) -> "oldest" [] opened -> "append" [] OTHER -> "idle")
  /\ UNCHANGED <<opened, dirVars, size, at, history>>

\* The file is closed before the rotation.  A file that was not opened again
\* after an earlier one refuses what would still have fitted into it.
Write(len) ==
  /\ pc = "idle" /\ rec < MaxRecords
  /\ rec' = rec + 1 /\ length' = len
  /\ \/ Fits(len) /\ pc' = (IF opened THEN "append" ELSE "idle") /\ UNCHANGED opened
     \/ ~Fits(len) /\ pc' = "oldest" /\ opened' = FALSE
  /\ UNCHANGED <<dirVars, size, at, history>>

\* Mutant of RemoveOldest: it removes the oldest file that there is.
RemoveTheLast ==
  /\ pc = "oldest" /\ pc' = "shift" /\ at' = MaxFiles - 1
  /\ LET rotated == exists \ {0} IN
     IF rotated # {} THEN \E k \in rotated : /\ \A j \in rotated : j <= k
                                             /\ Remove(k)
                     ELSE UNCHANGED <<dirVars, inexact>>
  /\ UNCHANGED <<fileVars, recVars, accepted, rotations, faults>>

RemoveOldest ==
  /\ pc = "oldest" /\ pc' = "shift" /\ at' = MaxFiles - 1
  /\ IF MaxFiles \in exists THEN Remove(MaxFiles) ELSE UNCHANGED <<dirVars, inexact>>
  /\ UNCHANGED <<fileVars, recVars, accepted, rotations, faults>>

\* for index in (1..max_files).rev()
Shift ==
  /\ pc = "shift" /\ at > 0
  /\ at' = at - 1
  /\ IF at \in exists THEN Rename(at) ELSE UNCHANGED <<dirVars, inexact>>
  /\ UNCHANGED <<fileVars, pc, recVars, accepted, rotations, faults>>

RotateActive ==
  /\ pc = "shift" /\ at = 0 /\ 0 \in exists
  /\ Rename(0)
  /\ pc' = "reopen"
  /\ rotations' = IF rotations < MaxFiles THEN rotations + 1 ELSE rotations
  /\ UNCHANGED <<fileVars, at, recVars, accepted, faults>>

\* Mutant of RotationFails: a file that cannot be moved is left where it is.
SkipFile ==
  \/ /\ pc = "shift" /\ at > 0 /\ at \in exists /\ Fault
     /\ at' = at - 1 /\ UNCHANGED pc
     /\ UNCHANGED <<dirVars, fileVars, recVars, accepted, inexact, rotations>>
  \/ /\ pc = "shift" /\ at = 0
     /\ IF 0 \in exists THEN Fault ELSE UNCHANGED faults
     /\ pc' = (IF Starting THEN "down" ELSE "recover")
     /\ UNCHANGED <<dirVars, fileVars, at, recVars, accepted, inexact, rotations>>

\* A file cannot be removed or renamed, or there is no active file since it was
\* not opened again: the start fails; a write opens the file it has closed.
RotationFails ==
  /\ \/ pc = "oldest" /\ MaxFiles \in exists /\ Fault
     \/ pc = "shift" /\ at \in exists /\ Fault
     \/ pc = "shift" /\ at = 0 /\ 0 \notin exists /\ UNCHANGED faults
  /\ pc' = IF Starting THEN "down" ELSE "recover"
  /\ at' = 0
  /\ UNCHANGED <<dirVars, fileVars, recVars, accepted, inexact, rotations>>

\* LogFileState::new, and reopen_active_file after a rotation.
Reopen ==
  /\ pc = "reopen"
  /\ \/ Open /\ pc' = IF Starting THEN "idle" ELSE "append"
     \/ /\ Fault /\ pc' = IF Starting THEN "down" ELSE "idle"
        /\ UNCHANGED <<dirVars, fileVars, inexact>>
  /\ UNCHANGED <<at, recVars, accepted, rotations>>

\* reopen_active_file after a rotation that failed; the record is dropped.
Recover ==
  /\ pc = "recover" /\ pc' = "idle"
  /\ \/ Open
     \/ Fault /\ UNCHANGED <<dirVars, fileVars, inexact>>
  /\ UNCHANGED <<at, recVars, accepted, rotations>>

WriteAll ==
  /\ pc = "append" /\ pc' = "idle"
  /\ bytes' = [bytes EXCEPT ![0] = @ + length]
  /\ size' = size + length
  /\ place' = [place EXCEPT ![rec] = 0]
  /\ accepted' = accepted \union {rec}
  /\ UNCHANGED <<exists, opened, at, recVars, inexact, rotations, faults>>

\* write_all fails, when it has written a part of the record.
WriteAllFails ==
  /\ pc = "append" /\ pc' = "idle" /\ Fault
  /\ \E part \in 0..(length - 1) :
       /\ bytes' = [bytes EXCEPT ![0] = @ + part]
       /\ inexact' = inexact \union {k \in {0} : part > 0}
  /\ UNCHANGED <<exists, place, fileVars, at, recVars, accepted, rotations>>

Next ==
  \/ Start \/ Killed
  \/ \E len \in Lengths : Write(len)
  \/ RemoveOldest \/ Shift \/ RotateActive \/ RotationFails
  \/ Reopen \/ Recover \/ WriteAll \/ WriteAllFails

Spec == Init /\ [][Next]_vars

-----------------------------------------------------------------------------
(* Properties *)

\* technical_specification.md 2.3: rotation deletes history, that is the oldest
\* records.  Whatever fails and whenever the process is killed, the accepted
\* records that are left are the newest ones, and the files have them in order.
NewestKept ==
  /\ \A r \in accepted : place[r] \in exists \union {Gone}
  /\ \A older, newer \in accepted : older < newer => place[newer] <= place[older]

\* logging.max_file_size_mb bounds every file whose length was counted in full,
\* but for one that has a single record.
FilesBounded ==
  \A k \in exists \ inexact :
    \/ bytes[k] <= MaxSize
    \/ \A r, s \in accepted : place[r] = k /\ place[s] = k => r = s

\* logging.max_files is how much history is kept.  A rotation that fails deletes
\* a file and makes no room, and so does each attempt after it: every failure
\* costs at most one rotated file, and without failures none is missing.
EachFaultCostsOneFile ==
  pc \in {"idle", "down"}
    => Cardinality(exists \ {0}) + faults >= rotations
=============================================================================
