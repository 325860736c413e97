--------------------------- MODULE LogFilesProofs ---------------------------
(***************************************************************************)
(* NewestKept, FilesBounded, EachFaultCostsOneFile of LogFiles, for every   *)
(* number of files, every size, and any number of records, failures and     *)
(* kills.  A rotation is many steps: what makes it safe is that the slot    *)
(* which a file is moved to is always empty, and that the size which the    *)
(* writer remembers is that of the file whenever the file was counted in    *)
(* full.  What it costs when it fails is counted in a second invariant.     *)
(***************************************************************************)
EXTENDS LogFiles, FiniteSetTheorems, TLAPS

\* Where the operation in progress is.
Control ==
  /\ pc \in {"down", "oldest", "shift", "reopen", "recover"} => ~opened
  /\ pc = "append" => opened /\ length # 0
  /\ length # 0 => rec # 0
  /\ pc = "shift" => at < MaxFiles /\ at + 1 \notin exists
  /\ pc = "reopen" /\ ~Starting => 0 \notin exists

\* What the writer believes of the active file.
Belief ==
  /\ opened /\ 0 \notin inexact => size = bytes[0]
  /\ pc = "append" => size + length <= MaxSize \/ size = 0

\* An empty file has no record.
NoRecordInEmpty == \A k \in Slots, r \in accepted : bytes[k] = 0 => place[r] # k

IInv == TypeOK /\ Control /\ Belief /\ NoRecordInEmpty /\ NewestKept /\ FilesBounded

LEMMA Numbers ==
  /\ MaxFiles \in Nat \ {0} /\ MaxSize \in Nat /\ MaxRecords \in Nat /\ MaxFaults \in Nat
  /\ Lengths \subseteq Nat /\ 0 \notin Lengths
  /\ 0 \in Slots /\ MaxFiles \in Slots /\ Gone \notin Slots
  /\ Slots \subseteq Nat /\ \A k \in Slots : k < Gone
  /\ \A k \in Slots : k < MaxFiles => k + 1 \in Slots
  /\ 0..Gone = Slots \union {Gone} /\ Gone \in Nat
BY LogAssumption DEF Slots, Gone

LEMMA Initially == Init => IInv
<1> SUFFICES ASSUME Init PROVE IInv
  OBVIOUS
<1>1. TypeOK
  <2>1. 0 \in 0..MaxRecords /\ 0 \in 0..MaxFiles /\ 0 \in 0..MaxFaults
    BY Numbers
  <2> QED
    BY <2>1, Numbers DEF Init, TypeOK
<1> QED
  BY <1>1, Numbers
     DEF Init, IInv, Control, Belief, NoRecordInEmpty, NewestKept, FilesBounded, Starting

-----------------------------------------------------------------------------
(* The file system. *)

Directory == /\ exists \subseteq Slots
             /\ bytes \in [Slots -> Nat] /\ \A k \in Slots \ exists : bytes[k] = 0
             /\ place \in [Records -> 0..Gone]
             /\ accepted \subseteq Records
             /\ inexact \subseteq exists

\* A file is moved into an empty slot: nothing is overwritten, and the order of
\* the records is that of the files as before.
LEMMA Renamed ==
  ASSUME Directory, NoRecordInEmpty, NewestKept, FilesBounded,
         NEW k \in Slots, k < MaxFiles, k \in exists, k + 1 \notin exists,
         Rename(k), accepted' = accepted
  PROVE  Directory' /\ NoRecordInEmpty' /\ NewestKept' /\ FilesBounded' /\ k \notin exists'
<1> USE DEF Rename, Directory
<1>1. /\ k \in Nat /\ k + 1 \in Slots /\ k # k + 1 /\ Gone \notin exists /\ Gone \in Nat
      /\ 0..Gone = Slots \union {Gone} /\ \A j \in Slots : j \in Nat /\ j < Gone
  BY Numbers
<1>2. \A r \in accepted : place[r] # k + 1
  BY <1>1 DEF NewestKept
<1>3. \A r \in Records : place'[r] = CASE place[r] = k -> k + 1
                                       [] place[r] = k + 1 -> Gone
                                       [] OTHER -> place[r]
  BY DEF Rename
<1>4. \A r \in accepted : place'[r] = IF place[r] = k THEN k + 1 ELSE place[r]
  BY <1>2, <1>3
<1>5. \A j \in Slots : bytes'[j] = IF j = k THEN 0 ELSE IF j = k + 1 THEN bytes[k] ELSE bytes[j]
  BY <1>1
<1>6. Directory'
  <2>1. place' \in [Records -> 0..Gone]
    BY <1>1
  <2>2. bytes' \in [Slots -> Nat]
    BY <1>1
  <2> QED
    BY <1>1, <1>5, <2>1, <2>2
<1>7. NoRecordInEmpty'
  BY <1>1, <1>2, <1>4, <1>5 DEF NoRecordInEmpty
<1>8. NewestKept'
  <2>1. \A r \in accepted : place'[r] \in exists' \union {Gone}
    BY <1>1, <1>4 DEF NewestKept
  <2>2. \A r \in accepted : place[r] \in Nat
    BY <1>1, Numbers
  <2>3. \A older, newer \in accepted : older < newer => place'[newer] <= place'[older]
    BY <1>1, <1>2, <1>4, <2>2 DEF NewestKept
  <2> QED
    BY <2>1, <2>3 DEF NewestKept
<1>9. FilesBounded'
  BY <1>1, <1>2, <1>4, <1>5 DEF FilesBounded
<1> QED
  BY <1>1, <1>6, <1>7, <1>8, <1>9

\* The oldest file is removed: its records were the oldest.
LEMMA Removed ==
  ASSUME Directory, NoRecordInEmpty, NewestKept, FilesBounded,
         Remove(MaxFiles), accepted' = accepted
  PROVE  Directory' /\ NoRecordInEmpty' /\ NewestKept' /\ FilesBounded' /\ MaxFiles \notin exists'
<1> USE DEF Remove, Directory
<1>1. /\ MaxFiles \in Slots /\ 0..Gone = Slots \union {Gone} /\ Gone \notin Slots
      /\ \A k \in 0..Gone : k \in Nat /\ k <= Gone /\ (k >= MaxFiles => k \in {MaxFiles, Gone})
      /\ Gone \in Nat /\ MaxFiles \in Nat
  BY Numbers DEF Slots, Gone
<1>2. \A r \in Records : place'[r] = IF place[r] = MaxFiles THEN Gone ELSE place[r]
  OBVIOUS
<1>3. \A j \in Slots : bytes'[j] = IF j = MaxFiles THEN 0 ELSE bytes[j]
  BY <1>1
<1>4. Directory'
  BY <1>1, <1>3
<1>5. NoRecordInEmpty' /\ FilesBounded'
  BY <1>1, <1>2, <1>3 DEF NoRecordInEmpty, FilesBounded
<1>6. NewestKept'
  <2>1. \A r \in accepted : place'[r] \in exists' \union {Gone}
    BY <1>1, <1>2 DEF NewestKept
  <2>2. ASSUME NEW older \in accepted, NEW newer \in accepted, older < newer
        PROVE  place'[newer] <= place'[older]
    <3>1. place[newer] <= place[older] /\ place[newer] \in 0..Gone /\ place[older] \in 0..Gone
      BY <2>2 DEF NewestKept
    <3> QED
      BY <1>1, <1>2, <3>1
  <2> QED
    BY <2>1, <2>2 DEF NewestKept
<1> QED
  BY <1>4, <1>5, <1>6

\* Opening creates at most an empty file.
LEMMA Opened ==
  ASSUME TypeOK, NoRecordInEmpty, NewestKept, FilesBounded, Open, UNCHANGED <<accepted, rec>>
  PROVE  /\ Directory' /\ NoRecordInEmpty' /\ NewestKept' /\ FilesBounded'
         /\ opened' /\ 0 \in exists' /\ size' \in Nat /\ faults' \in 0..MaxFaults
         /\ 0 \notin inexact' => size' = bytes'[0]
         /\ 0 \notin exists => size' = 0
<1> USE DEF Open, TypeOK, Directory
<1>1. accepted \subseteq Records
  BY Numbers DEF Records
<1>2. faults' \in 0..MaxFaults
  BY Numbers DEF Fault
<1>3. 0 \notin exists => bytes[0] = 0
  BY Numbers
<1>4. Directory' /\ size' \in Nat
  BY <1>1, Numbers
<1>5. NoRecordInEmpty' /\ NewestKept'
  BY DEF NoRecordInEmpty, NewestKept
<1>6. FilesBounded'
  <2> SUFFICES ASSUME NEW k \in exists' \ inexact', bytes'[k] > MaxSize,
                      NEW r \in accepted, NEW s \in accepted, place[r] = k, place[s] = k
               PROVE  r = s
    BY <1>4, Numbers DEF FilesBounded
  <2>1. k \in exists
    BY <1>3, Numbers
  <2> QED
    BY <2>1, Numbers DEF FilesBounded
<1> QED
  BY <1>2, <1>3, <1>4, <1>5, <1>6
-----------------------------------------------------------------------------
(* The steps. *)

\* The operations that leave the directory and what it holds alone.
Untouched == UNCHANGED <<exists, bytes, place, accepted, inexact>>

LEMMA InDirectory == TypeOK => Directory
BY Numbers DEF TypeOK, Directory, Records

LEMMA UntouchedFiles ==
  ASSUME NoRecordInEmpty, NewestKept, FilesBounded, Untouched
  PROVE  NoRecordInEmpty' /\ NewestKept' /\ FilesBounded'
BY DEF NoRecordInEmpty, NewestKept, FilesBounded, Untouched

LEMMA StartStep == ASSUME IInv, Start \/ Killed PROVE IInv'
<1> USE DEF IInv
<1>0. 0 \in 0..MaxRecords /\ 0 \in Slots /\ MaxFaults \in Nat
  BY Numbers
<1>1. CASE Start
  <2>1. Untouched
    BY <1>1 DEF Start, dirVars, Untouched
  <2>2. TypeOK'
    BY <1>0, <1>1 DEF Start, TypeOK, dirVars, fileVars, Fault
  <2>3. Control' /\ Belief'
    BY <1>1 DEF Start, Control, Belief, Starting, dirVars, fileVars
  <2> QED
    BY <2>1, <2>2, <2>3, UntouchedFiles
<1>2. CASE Killed
  <2>1. Untouched
    BY <1>2 DEF Killed, dirVars, Untouched
  <2>2. TypeOK'
    <3>1. faults' \in 0..MaxFaults
      BY <1>0, <1>2 DEF Killed, TypeOK, Fault
    <3>2. UNCHANGED <<exists, bytes, place, rec, accepted, inexact, rotations>>
      BY <1>2 DEF Killed, dirVars
    <3>3. opened' = FALSE /\ size' = 0 /\ at' = 0 /\ length' = 0 /\ pc' = "down"
      BY <1>2 DEF Killed
    <3> QED
      BY <1>0, <3>1, <3>2, <3>3 DEF TypeOK
  <2>3. Control' /\ Belief'
    BY <1>2 DEF Killed, Control, Belief, dirVars, fileVars
  <2> QED
    BY <2>1, <2>2, <2>3, UntouchedFiles
<1> QED
  BY <1>1, <1>2

LEMMA BeginStep == ASSUME IInv, NEW len \in Lengths, Write(len) PROVE IInv'
<1> USE DEF IInv
<1>1. Untouched
  BY DEF Write, dirVars, history, Untouched
<1>2. rec' \in 0..MaxRecords /\ rec' # 0 /\ 1..rec \subseteq 1..rec' /\ len # 0
  BY Numbers DEF Write, TypeOK
<1>3. TypeOK'
  <2>1. UNCHANGED <<exists, bytes, place, size, at, accepted, inexact, rotations, faults>>
    BY DEF Write, dirVars, history
  <2>2. length' = len /\ pc' \in {"append", "idle", "oldest"} /\ opened' \in {opened, FALSE}
    BY DEF Write
  <2>3. accepted \subseteq 1..rec'
    BY <1>2 DEF TypeOK
  <2>4. opened' \in BOOLEAN /\ (opened' => 0 \in exists)
    <3>1. CASE opened' = opened
      BY <3>1 DEF TypeOK
    <3>2. CASE opened' = FALSE
      BY <3>2
    <3> QED
      BY <2>2, <3>1, <3>2
  <2> QED
    BY <1>2, <2>1, <2>2, <2>3, <2>4 DEF TypeOK
<1>4. Control' /\ Belief'
  BY <1>2 DEF Write, Control, Belief, Fits, Starting, dirVars, history
<1> QED
  BY <1>1, <1>3, <1>4, UntouchedFiles

LEMMA RotationStep == ASSUME IInv, RemoveOldest \/ Shift \/ RotateActive PROVE IInv'
<1> USE DEF IInv
<1>1. Directory /\ accepted \subseteq 1..rec /\ rec \in 0..MaxRecords
  BY InDirectory DEF TypeOK
<1>2. accepted' = accepted /\ UNCHANGED <<fileVars, recVars, faults>> /\ ~opened
  BY DEF RemoveOldest, Shift, RotateActive, Control
<1>3. CASE RemoveOldest
  <2>1. Directory' /\ NoRecordInEmpty' /\ NewestKept' /\ FilesBounded' /\ MaxFiles \notin exists'
    <3>1. CASE MaxFiles \in exists
      BY <1>1, <1>2, <1>3, <3>1, Removed DEF RemoveOldest
    <3>2. CASE MaxFiles \notin exists
      <4>1. Untouched
        BY <1>2, <1>3, <3>2 DEF RemoveOldest, dirVars, Untouched
      <4> QED
        BY <1>1, <3>2, <4>1, UntouchedFiles DEF Untouched, Directory
    <3> QED
      BY <3>1, <3>2
  <2>2. at' \in Slots /\ at' + 1 = MaxFiles /\ at' < MaxFiles
    BY <1>3, LogAssumption DEF RemoveOldest, Slots
  <2>3. TypeOK'
    BY <1>1, <1>2, <1>3, <2>1, <2>2 DEF RemoveOldest, TypeOK, Directory, fileVars, recVars
  <2>4. Control' /\ Belief'
    BY <1>2, <1>3, <2>1, <2>2 DEF RemoveOldest, Control, Belief, Starting, fileVars, recVars
  <2> QED
    BY <2>1, <2>3, <2>4
<1>4. CASE Shift
  <2>1. /\ at \in Slots /\ at < MaxFiles /\ at + 1 \notin exists
        /\ at' \in Slots /\ at' + 1 = at /\ at' < MaxFiles
    BY <1>4, Numbers DEF Shift, TypeOK, Control, Slots
  <2>2. Directory' /\ NoRecordInEmpty' /\ NewestKept' /\ FilesBounded' /\ at \notin exists'
    <3>1. CASE at \in exists
      BY <1>1, <1>2, <1>4, <2>1, <3>1, Renamed DEF Shift
    <3>2. CASE at \notin exists
      <4>1. Untouched
        BY <1>2, <1>4, <3>2 DEF Shift, dirVars, Untouched
      <4> QED
        BY <1>1, <3>2, <4>1, UntouchedFiles DEF Untouched, Directory
    <3> QED
      BY <3>1, <3>2
  <2>3. TypeOK'
    BY <1>1, <1>2, <1>4, <2>1, <2>2 DEF Shift, TypeOK, Directory, fileVars, recVars
  <2>4. Control' /\ Belief'
    BY <1>2, <1>4, <2>1, <2>2 DEF Shift, Control, Belief, Starting, fileVars, recVars
  <2> QED
    BY <2>2, <2>3, <2>4
<1>5. CASE RotateActive
  <2>1. 0 \in Slots /\ 0 < MaxFiles /\ 0 + 1 \notin exists /\ 0 \in exists /\ Rename(0)
    BY <1>5, Numbers DEF RotateActive, Control
  <2>2. Directory' /\ NoRecordInEmpty' /\ NewestKept' /\ FilesBounded' /\ 0 \notin exists'
    BY <1>1, <1>2, <2>1, Renamed
  <2>3. rotations' \in 0..MaxFiles
    BY <1>5, Numbers DEF RotateActive, TypeOK
  <2>4. TypeOK'
    BY <1>1, <1>2, <1>5, <2>2, <2>3 DEF RotateActive, TypeOK, Directory, fileVars, recVars
  <2>5. Control' /\ Belief'
    BY <1>2, <1>5, <2>2 DEF RotateActive, Control, Belief, Starting, fileVars, recVars
  <2> QED
    BY <2>2, <2>4, <2>5
<1> QED
  BY <1>3, <1>4, <1>5

LEMMA FailureStep == ASSUME IInv, RotationFails PROVE IInv'
<1> USE DEF IInv
<1>1. Untouched
  BY DEF RotationFails, dirVars, Untouched
<1>2. TypeOK'
  BY Numbers DEF RotationFails, TypeOK, dirVars, fileVars, recVars, Fault
<1>3. Control' /\ Belief'
  BY DEF RotationFails, Control, Belief, Starting, dirVars, fileVars, recVars
<1> QED
  BY <1>1, <1>2, <1>3, UntouchedFiles

LEMMA ReopenStep == ASSUME IInv, Reopen \/ Recover PROVE IInv'
<1> USE DEF IInv
<1>1. UNCHANGED <<at, rec, length, accepted, rotations>> /\ pc \in {"reopen", "recover"}
  BY DEF Reopen, Recover, recVars
<1>2. \/ Open /\ pc' \in {"idle", "append"} /\ (pc' = "append" => ~Starting /\ pc = "reopen")
      \/ Fault /\ UNCHANGED <<dirVars, fileVars, inexact>> /\ pc' \in {"idle", "down"}
  BY DEF Reopen, Recover
<1>3. CASE Open /\ pc' \in {"idle", "append"} /\ (pc' = "append" => ~Starting /\ pc = "reopen")
  <2>1. /\ Directory' /\ NoRecordInEmpty' /\ NewestKept' /\ FilesBounded'
        /\ opened' /\ 0 \in exists' /\ size' \in Nat /\ faults' \in 0..MaxFaults
        /\ 0 \notin inexact' => size' = bytes'[0]
        /\ 0 \notin exists => size' = 0
    BY <1>1, <1>3, Opened
  <2>2. TypeOK'
    BY <1>1, <1>2, <2>1 DEF TypeOK, Directory
  <2>3. Control' /\ Belief'
    BY <1>1, <1>2, <1>3, <2>1 DEF Control, Belief, Starting
  <2> QED
    BY <2>1, <2>2, <2>3
<1>4. CASE Fault /\ UNCHANGED <<dirVars, fileVars, inexact>> /\ pc' \in {"idle", "down"}
  <2>1. Untouched /\ UNCHANGED fileVars /\ Fault /\ pc' \in {"idle", "down"}
    BY <1>1, <1>4 DEF dirVars, Untouched
  <2>2. TypeOK'
    BY <1>1, <2>1, Numbers DEF TypeOK, Untouched, fileVars, Fault
  <2>3. Control' /\ Belief'
    BY <1>1, <2>1 DEF Control, Belief, Starting, Untouched, fileVars
  <2> QED
    BY <2>1, <2>2, <2>3, UntouchedFiles
<1> QED
  BY <1>2, <1>3, <1>4

LEMMA AppendStep == ASSUME IInv, WriteAll \/ WriteAllFails PROVE IInv'
<1> USE DEF IInv
<1>1. /\ pc = "append" /\ pc' = "idle" /\ opened /\ 0 \in exists /\ 0 \in Slots
      /\ length \in Nat /\ length # 0 /\ rec \in Records /\ rec \in Nat
      /\ bytes \in [Slots -> Nat] /\ size \in Nat
      /\ UNCHANGED <<exists, opened, at, recVars, rotations>>
  <2>1. /\ pc = "append" /\ pc' = "idle"
        /\ UNCHANGED <<exists, opened, at, recVars, rotations>>
    BY DEF WriteAll, WriteAllFails, fileVars
  <2>2. opened /\ 0 \in exists /\ length # 0 /\ rec # 0
    BY <2>1 DEF Control, TypeOK
  <2>3. length \in Nat /\ rec \in 0..MaxRecords
    BY Numbers DEF TypeOK
  <2>4. rec \in Records /\ rec \in Nat
    BY <2>2, <2>3, Numbers DEF Records
  <2> QED
    BY <2>1, <2>2, <2>3, <2>4, Numbers DEF TypeOK
<1>2. CASE WriteAll
  <2>1. /\ bytes' = [bytes EXCEPT ![0] = bytes[0] + length] /\ size' = size + length
        /\ place' = [place EXCEPT ![rec] = 0]
        /\ accepted' = accepted \union {rec} /\ inexact' = inexact /\ faults' = faults
    BY <1>2 DEF WriteAll
  <2>2. TypeOK'
    <3>1. bytes' \in [Slots -> Nat] /\ \A k \in Slots \ exists : bytes'[k] = 0
      BY <1>1, <2>1 DEF TypeOK
    <3>2. place' \in [Records -> 0..Gone]
      BY <1>1, <2>1, Numbers DEF TypeOK
    <3>3. size' \in Nat /\ rec \in 1..rec
      BY <1>1, <2>1 DEF Records
    <3> QED
      BY <1>1, <2>1, <3>1, <3>2, <3>3 DEF TypeOK, recVars
  <2>3. Control' /\ Belief'
    BY <1>1, <2>1 DEF Control, Belief, recVars
  <2>4. NoRecordInEmpty'
    BY <1>1, <2>1 DEF NoRecordInEmpty, TypeOK
  <2>5. NewestKept'
    <3>1. \A r \in accepted : r <= rec /\ r \in Nat /\ r \in Records /\ place[r] \in Nat
      BY <1>1, Numbers DEF TypeOK, Records
    <3>2. \A r \in accepted' : place'[r] = IF r = rec THEN 0 ELSE place[r]
      BY <1>1, <2>1, <3>1 DEF TypeOK
    <3> QED
      BY <1>1, <2>1, <3>1, <3>2 DEF NewestKept
  <2>6. FilesBounded'
    <3>1. \A k \in exists' \ inexact' : k # 0 =>
             /\ bytes'[k] = bytes[k]
             /\ \A r \in accepted' : place'[r] = k => r \in accepted /\ place[r] = k
      BY <1>1, <2>1 DEF TypeOK
    <3>2. 0 \notin inexact => size = bytes[0] /\ bytes'[0] = size + length
      BY <1>1, <2>1 DEF Belief, TypeOK
    <3>3. CASE size + length <= MaxSize
      BY <3>1, <3>2, <3>3, <1>1, <2>1 DEF FilesBounded
    <3>4. CASE size = 0
      <4>1. 0 \notin inexact => \A r \in accepted' : place'[r] = 0 => r = rec
        BY <1>1, <2>1, <3>2, <3>4 DEF NoRecordInEmpty, TypeOK
      <4> QED
        BY <1>1, <2>1, <3>1, <4>1 DEF FilesBounded
    <3> QED
      BY <1>1, <3>3, <3>4 DEF Belief
  <2> QED
    BY <2>2, <2>3, <2>4, <2>5, <2>6
<1>3. CASE WriteAllFails
  <2>1. PICK part \in 0..(length - 1) :
          /\ bytes' = [bytes EXCEPT ![0] = bytes[0] + part]
          /\ inexact' = inexact \union {k \in {0} : part > 0}
    BY <1>3 DEF WriteAllFails
  <2>2. /\ UNCHANGED <<size, place, accepted>> /\ Fault
        /\ \A k \in Slots : bytes'[k] = (IF k = 0 THEN bytes[0] + part ELSE bytes[k])
        /\ part \in Nat
    BY <1>1, <1>3, <2>1 DEF WriteAllFails, fileVars
  <2>3. TypeOK'
    <3>1. bytes' \in [Slots -> Nat] /\ \A k \in Slots \ exists : bytes'[k] = 0
      BY <1>1, <2>1, <2>2 DEF TypeOK
    <3>2. inexact' \subseteq exists
      BY <1>1, <2>1 DEF TypeOK
    <3>3. faults' \in 0..MaxFaults
      BY <2>2, Numbers DEF TypeOK, Fault
    <3> QED
      BY <1>1, <2>2, <3>1, <3>2, <3>3 DEF TypeOK, recVars
  <2>4. Control' /\ Belief'
    BY <1>1, <2>1, <2>2 DEF Control, Belief, recVars
  <2>5. NoRecordInEmpty' /\ NewestKept'
    BY <1>1, <2>2 DEF NoRecordInEmpty, NewestKept
  <2>6. FilesBounded'
    BY <1>1, <2>1, <2>2 DEF FilesBounded, TypeOK
  <2> QED
    BY <2>3, <2>4, <2>5, <2>6
<1> QED
  BY <1>2, <1>3

LEMMA Invariance == IInv /\ [Next]_vars => IInv'
<1> SUFFICES ASSUME IInv, [Next]_vars PROVE IInv'
  OBVIOUS
<1>1. CASE UNCHANGED vars
  <2>1. Untouched
    BY <1>1 DEF vars, dirVars, history, Untouched
  <2> QED
    BY <1>1, <2>1, UntouchedFiles
       DEF IInv, TypeOK, Control, Belief, Starting, vars, dirVars, fileVars, recVars, history
<1> QED
  BY <1>1, StartStep, BeginStep, RotationStep, FailureStep, ReopenStep, AppendStep DEF Next

LEMMA Always == Spec => []IInv
BY Initially, Invariance, PTL DEF Spec

\* The types of the log's state; in particular a file that is open exists.
THEOREM LogTypes == Spec => []TypeOK
<1>1. IInv => TypeOK
  BY DEF IInv
<1> QED
  BY <1>1, Always, PTL

\* Rotation deletes only the oldest records, for any number of files and of failed
\* or killed rotations in any order.
THEOREM OldestGoFirst == Spec => []NewestKept
<1>1. IInv => NewestKept
  BY DEF IInv
<1> QED
  BY <1>1, Always, PTL

\* A file whose length was counted in full is within the limit, or has one record.
THEOREM FilesStayBounded == Spec => []FilesBounded
<1>1. IInv => FilesBounded
  BY DEF IInv
<1> QED
  BY <1>1, Always, PTL

-----------------------------------------------------------------------------
(* What a failure costs. *)

\* The slots that would have a file if no rotation had failed.  While the files
\* are shifted the slot that is free on purpose does not count, and those above
\* it are already where the rotation that is going on takes them.
Missing ==
  {k \in 1..MaxFiles :
     /\ k \notin exists
     /\ IF pc = "shift"
          THEN k # at + 1 /\ k <= (IF k <= at THEN rotations ELSE rotations + 1)
          ELSE k <= rotations}

\* A failure that has not cost a file yet: the active file is not there, and the
\* next rotation will find out when it has moved the others.
Debt == IF 0 \notin exists /\ pc \in {"idle", "oldest", "shift"} THEN 1 ELSE 0

Costs == Cardinality(Missing) + Debt <= faults

LEMMA MissingFinite == /\ IsFiniteSet(Missing) /\ Cardinality(Missing) \in Nat
                       /\ IsFiniteSet(Missing') /\ Cardinality(Missing') \in Nat
<1>1. IsFiniteSet(1..MaxFiles)
  BY FS_Interval, Numbers
<1>2. Missing \in SUBSET (1..MaxFiles) /\ Missing' \in SUBSET (1..MaxFiles)
  BY DEF Missing
<1>3. IsFiniteSet(Missing) /\ IsFiniteSet(Missing')
  BY <1>1, <1>2, FS_Subset
<1> QED
  BY <1>3, FS_CardinalityType

\* m and n slots are missing before and after, d and e is the debt, f and g faults.
LEMMA Balance ==
  ASSUME NEW m \in Nat, NEW n \in Nat, NEW d \in Nat, NEW e \in Nat, NEW f \in Nat, NEW g \in Nat,
         m + d <= f,
         \/ n <= m /\ e <= d /\ f <= g
         \/ n <= m /\ e <= 1 /\ g = f + 1
         \/ n <= m + 1 /\ e = 0 /\ g = f + 1
         \/ n <= m + 1 /\ e = 0 /\ d = 1 /\ f <= g
  PROVE  n + e <= g
OBVIOUS

LEMMA DebtType == Debt \in Nat /\ Debt' \in Nat
BY DEF Debt

LEMMA Paid ==
  ASSUME Costs, faults \in Nat, faults' \in Nat,
         Missing' \subseteq Missing,
         \/ Debt' <= Debt /\ faults <= faults'
         \/ Debt' <= 1 /\ faults' = faults + 1
  PROVE  Costs'
<1>1. Cardinality(Missing') <= Cardinality(Missing)
  BY MissingFinite, FS_Subset
<1>2. Cardinality(Missing') + Debt' <= faults'
  BY <1>1, MissingFinite, DebtType, Balance DEF Costs
<1> QED
  BY <1>2 DEF Costs

LEMMA PaidForOne ==
  ASSUME Costs, faults \in Nat, faults' \in Nat, NEW x,
         Missing' \subseteq Missing \union {x}, Debt' = 0,
         faults' = faults + 1 \/ (Debt = 1 /\ faults <= faults')
  PROVE  Costs'
<1>1. /\ IsFiniteSet(Missing \union {x})
      /\ Cardinality(Missing \union {x}) <= Cardinality(Missing) + 1
  <2>1. /\ IsFiniteSet(Missing \union {x})
        /\ Cardinality(Missing \union {x}) = IF x \in Missing THEN Cardinality(Missing)
                                                            ELSE Cardinality(Missing) + 1
    BY MissingFinite, FS_AddElement
  <2> QED
    BY <2>1, MissingFinite
<1>2. /\ Cardinality(Missing \union {x}) \in Nat
      /\ Cardinality(Missing') <= Cardinality(Missing \union {x})
  BY <1>1, FS_Subset, FS_CardinalityType
<1>3. Cardinality(Missing') <= Cardinality(Missing) + 1
  BY <1>1, <1>2, MissingFinite
<1>4. Cardinality(Missing') + Debt' <= faults'
  BY <1>3, MissingFinite, DebtType, Balance DEF Costs
<1> QED
  BY <1>4 DEF Costs

LEMMA Moved ==
  ASSUME Costs, faults \in Nat, faults' \in Nat, NEW x, NEW y \in Missing,
         Missing' \subseteq (Missing \ {y}) \union {x},
         Debt' <= Debt, faults <= faults'
  PROVE  Costs'
<1> DEFINE rest == Missing \ {y}
<1>1. IsFiniteSet(rest) /\ Cardinality(rest) = Cardinality(Missing) - 1
  BY MissingFinite, FS_RemoveElement
<1>2. /\ IsFiniteSet(rest \union {x})
      /\ Cardinality(rest \union {x}) = IF x \in rest THEN Cardinality(rest) ELSE Cardinality(rest) + 1
  BY <1>1, FS_AddElement
<1>3. Cardinality(Missing') <= Cardinality(rest \union {x})
  BY <1>2, FS_Subset
<1> HIDE DEF rest
<1>4. Cardinality(Missing') <= Cardinality(Missing)
  BY <1>1, <1>2, <1>3, MissingFinite
<1>5. Cardinality(Missing') + Debt' <= faults'
  BY <1>4, MissingFinite, DebtType, Balance DEF Costs
<1> QED
  BY <1>5 DEF Costs

\* Between two rotations a slot is missing when it has no file and should have one.
LEMMA MissingAtRest ==
  ASSUME pc # "shift", pc' # "shift", rotations' = rotations, exists \subseteq exists'
  PROVE  Missing' \subseteq Missing
BY DEF Missing

\* A rotation that stops leaves at most the slot behind it that was free.
LEMMA MissingAfterStop ==
  ASSUME pc = "shift", pc' # "shift", UNCHANGED <<rotations, exists>>, rotations \in Nat
  PROVE  Missing' \subseteq Missing \union {at + 1}
BY Numbers DEF Missing

LEMMA RotationCost ==
  ASSUME IInv, Costs, faults' \in Nat, RemoveOldest \/ Shift \/ RotateActive
  PROVE  Costs'
<1>0. /\ faults \in Nat /\ rotations \in Nat /\ exists \subseteq Slots /\ MaxFiles \in Nat \ {0}
      /\ faults' = faults
  BY Numbers DEF IInv, TypeOK, RemoveOldest, Shift, RotateActive
<1>1. CASE RemoveOldest
  <2>1. /\ exists' = exists \ {MaxFiles} /\ pc = "oldest" /\ pc' = "shift" /\ at' = MaxFiles - 1
        /\ rotations' = rotations
    BY <1>1 DEF RemoveOldest, Remove, dirVars
  <2>2. Missing' \subseteq Missing
    BY <1>0, <2>1 DEF Missing
  <2>3. Debt' = Debt
    BY <1>0, <2>1 DEF Debt
  <2> QED
    BY <1>0, <2>2, <2>3, DebtType, Paid
<1>2. CASE Shift
  <2>1. /\ pc = "shift" /\ pc' = "shift" /\ at \in Slots /\ at \in Nat /\ at > 0 /\ at < MaxFiles
        /\ at + 1 \notin exists /\ at' = at - 1 /\ rotations' = rotations
    BY <1>2, Numbers DEF Shift, IInv, Control, TypeOK
  <2>2. CASE at \in exists
    <3>1. exists' = (exists \ {at}) \union {at + 1}
      BY <1>2, <2>2 DEF Shift, Rename
    <3>2. Missing' \subseteq Missing
      BY <1>0, <2>1, <3>1 DEF Missing
    <3>3. Debt' = Debt
      BY <1>0, <2>1, <3>1 DEF Debt
    <3> QED
      BY <1>0, <3>2, <3>3, DebtType, Paid
  <2>3. CASE at \notin exists
    <3>1. exists' = exists
      BY <1>2, <2>3 DEF Shift, dirVars
    <3>2. Debt' = Debt
      BY <2>1, <3>1 DEF Debt
    <3>3. CASE at <= rotations
      <4>1. at \in Missing
        BY <1>0, <2>1, <2>3, <3>3 DEF Missing
      <4>2. Missing' \subseteq (Missing \ {at}) \union {at + 1}
        BY <1>0, <2>1, <3>1 DEF Missing
      <4> QED
        BY <1>0, <3>2, <4>1, <4>2, DebtType, Moved
    <3>4. CASE ~(at <= rotations)
      <4>1. Missing' \subseteq Missing
        BY <1>0, <2>1, <3>1, <3>4 DEF Missing
      <4> QED
        BY <1>0, <3>2, <4>1, DebtType, Paid
    <3> QED
      BY <3>3, <3>4
  <2> QED
    BY <2>2, <2>3
<1>3. CASE RotateActive
  <2>1. /\ pc = "shift" /\ pc' = "reopen" /\ at = 0 /\ 0 \in exists
        /\ exists' = (exists \ {0}) \union {1}
        /\ rotations' = IF rotations < MaxFiles THEN rotations + 1 ELSE rotations
    BY <1>3 DEF RotateActive, Rename
  <2>2. Missing' \subseteq Missing
    BY <1>0, <2>1 DEF Missing
  <2>3. Debt' = 0 /\ Debt = 0
    BY <2>1 DEF Debt
  <2> QED
    BY <1>0, <2>2, <2>3, Paid
<1> QED
  BY <1>1, <1>2, <1>3

LEMMA StopCost ==
  ASSUME IInv, Costs, faults' \in Nat, RotationFails \/ Killed
  PROVE  Costs'
<1>0. /\ faults \in Nat /\ rotations \in Nat /\ UNCHANGED <<rotations, exists>>
      /\ pc' \notin {"idle", "oldest", "shift"} /\ Debt' = 0
  BY Numbers DEF IInv, TypeOK, RotationFails, Killed, dirVars, Debt
<1>1. CASE pc # "shift"
  <2>1. Missing' \subseteq Missing
    BY <1>0, <1>1, MissingAtRest
  <2>2. faults <= faults' /\ Debt' <= Debt
    BY <1>0, DebtType DEF RotationFails, Killed, Fault
  <2> QED
    BY <1>0, <2>1, <2>2, Paid
<1>2. CASE pc = "shift"
  <2>1. Missing' \subseteq Missing \union {at + 1}
    BY <1>0, <1>2, MissingAfterStop
  <2>2. \/ faults' = faults + 1
        \/ faults' = faults /\ faults <= faults' /\ 0 \notin exists
    BY <1>0, <1>2 DEF RotationFails, Killed, Fault
  <2>3. 0 \notin exists => Debt = 1
    BY <1>2 DEF Debt
  <2> QED
    BY <1>0, <2>1, <2>2, <2>3, PaidForOne
<1> QED
  BY <1>1, <1>2

LEMMA OtherCost ==
  ASSUME IInv, Costs, faults' \in Nat,
         \/ Start \/ Reopen \/ Recover \/ WriteAll \/ WriteAllFails
         \/ \E len \in Lengths : Write(len)
         \/ UNCHANGED vars
  PROVE  Costs'
<1>0. faults \in Nat /\ rotations' = rotations
  BY Numbers DEF IInv, TypeOK, Start, Reopen, Recover, WriteAll, WriteAllFails, Write, vars, history
<1>1. CASE Start
  <2>1. UNCHANGED <<exists, rotations>> /\ pc = "down" /\ pc' \in {"oldest", "reopen"}
    BY <1>1 DEF Start, dirVars
  <2>2. faults <= faults'
    BY <1>0, <1>1 DEF Start, Fault
  <2>3. pc' = "oldest" => 0 \in exists
    BY <1>1, Numbers DEF Start, IInv, TypeOK
  <2>4. Debt' <= Debt
    BY <2>1, <2>3 DEF Debt
  <2>5. Missing' \subseteq Missing
    BY <2>1, MissingAtRest
  <2> QED
    BY <1>0, <2>2, <2>4, <2>5, DebtType, Paid
<1>2. CASE Reopen \/ Recover
  <2>1. /\ pc \in {"reopen", "recover"} /\ pc' \notin {"oldest", "shift"}
        /\ \/ 0 \in exists' /\ exists \subseteq exists' /\ faults <= faults'
           \/ exists' = exists /\ faults' = faults + 1
    BY <1>0, <1>2 DEF Reopen, Recover, Open, Fault, dirVars
  <2>2. Missing' \subseteq Missing
    BY <1>0, <2>1, MissingAtRest
  <2>3. Debt' <= 1 /\ (0 \in exists' => Debt' <= Debt)
    BY <2>1 DEF Debt
  <2> QED
    BY <1>0, <2>1, <2>2, <2>3, Paid
<1>3. CASE \/ WriteAll \/ WriteAllFails \/ \E len \in Lengths : Write(len)
  <2>1. /\ exists' = exists /\ faults <= faults'
        /\ \/ pc = "append" /\ pc' = "idle" /\ 0 \in exists
           \/ pc = "idle" /\ pc' \in {"append", "idle", "oldest"}
    BY <1>0, <1>3 DEF WriteAll, WriteAllFails, Write, Fault, dirVars, history, IInv, Control, TypeOK
  <2>2. Missing' \subseteq Missing
    BY <1>0, <2>1, MissingAtRest
  <2>3. Debt' <= Debt
    BY <2>1 DEF Debt
  <2> QED
    BY <1>0, <2>1, <2>2, <2>3, Paid
<1>4. CASE UNCHANGED vars
  <2>1. UNCHANGED <<exists, pc, at, rotations, faults>>
    BY <1>4 DEF vars, dirVars, history
  <2>2. Missing' = Missing /\ Debt' = Debt
    BY <2>1 DEF Missing, Debt
  <2> QED
    BY <1>0, <2>1, <2>2, DebtType, Paid
<1> QED
  BY <1>1, <1>2, <1>3, <1>4

LEMMA CostsAlways == Spec => []Costs
<1>1. Init => Costs
  <2> SUFFICES ASSUME Init PROVE Costs
    OBVIOUS
  <2>1. Missing = {} /\ Debt = 0
    BY Numbers DEF Init, Missing, Debt
  <2>2. Cardinality(Missing) = 0
    BY <2>1, FS_EmptySet
  <2> QED
    BY <2>1, <2>2 DEF Costs, Init
<1>2. IInv /\ IInv' /\ Costs /\ [Next]_vars => Costs'
  <2> SUFFICES ASSUME IInv, IInv', Costs, [Next]_vars PROVE Costs'
    OBVIOUS
  <2>1. faults' \in Nat
    BY Numbers DEF IInv, TypeOK
  <2> QED
    BY <2>1, RotationCost, StopCost, OtherCost DEF Next
<1> QED
  BY <1>1, <1>2, Always, PTL DEF Spec

\* Every rotation that was completed has left a file, but for as many as there
\* were failures and kills: however often a rotation is tried again, one failure
\* deletes at most one file of the history.
THEOREM FailuresCostAFileEach == Spec => []EachFaultCostsOneFile
<1>1. ASSUME TypeOK, Costs PROVE EachFaultCostsOneFile
  <2> SUFFICES ASSUME pc \in {"idle", "down"}
               PROVE  Cardinality(exists \ {0}) + faults >= rotations
    BY DEF EachFaultCostsOneFile
  <2> DEFINE kept == exists \ {0}
  <2>1. /\ rotations \in Nat /\ faults \in Nat /\ 1..rotations \subseteq 1..MaxFiles
        /\ kept \subseteq 1..MaxFiles
    BY <1>1, Numbers DEF TypeOK, Slots
  <2>2. IsFiniteSet(1..MaxFiles) /\ IsFiniteSet(1..rotations) /\ Cardinality(1..rotations) = rotations
    <3>1. 1 \in Int /\ rotations \in Int /\ MaxFiles \in Int
      BY <2>1, Numbers
    <3>2. Cardinality(1..rotations) = IF 1 > rotations THEN 0 ELSE rotations - 1 + 1
      BY <3>1, FS_Interval
    <3>3. IsFiniteSet(1..MaxFiles) /\ IsFiniteSet(1..rotations)
      BY <3>1, FS_Interval
    <3> QED
      BY <2>1, <3>2, <3>3
  <2>3. IsFiniteSet(kept) /\ Cardinality(kept) \in Nat
    BY <2>1, <2>2, FS_Subset, FS_CardinalityType
  <2>4. 1..rotations \subseteq kept \union Missing
    BY <2>1 DEF Missing
  <2>5. /\ IsFiniteSet(kept \union Missing) /\ IsFiniteSet(kept \intersect Missing)
        /\ Cardinality(kept \union Missing) = Cardinality(kept) + Cardinality(Missing)
                                                - Cardinality(kept \intersect Missing)
    BY <2>3, MissingFinite, FS_Union, FS_Intersection
  <2>6. Cardinality(1..rotations) <= Cardinality(kept \union Missing)
    BY <2>4, <2>5, FS_Subset
  <2>7. Cardinality(kept \intersect Missing) \in Nat
    BY <2>5, FS_CardinalityType
  <2>8. Cardinality(Missing) <= faults
    BY <1>1, <2>1, MissingFinite, DebtType DEF Costs
  <2> HIDE DEF kept
  <2>9. rotations <= Cardinality(kept) + faults
    BY <2>1, <2>2, <2>3, <2>5, <2>6, <2>7, <2>8, MissingFinite
  <2> QED
    BY <2>1, <2>3, <2>9 DEF kept
<1>2. IInv => TypeOK
  BY DEF IInv
<1> QED
  BY <1>1, <1>2, Always, CostsAlways, PTL
=============================================================================
