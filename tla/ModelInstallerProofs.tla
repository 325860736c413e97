------------------------ MODULE ModelInstallerProofs ------------------------
(***************************************************************************)
(* Proofs about ModelInstaller, for every manifest, every set of other      *)
(* files, and any number of retries and runs.                               *)
(***************************************************************************)
EXTENDS ModelInstaller, TLAPS

\* While an entry is at hand its file is not good yet, and what is moved is.
AtHand ==
  /\ pc \in {"download", "verify", "move", "copy", "copying"}
       => todo # <<>> /\ disk[File] # "good"
  /\ pc \in {"move", "copy", "copying"} => temp = "good"

\* Every file of the manifest is good or is still to come.
InHand == {"prepare", "entry", "download", "verify", "move", "copy", "copying"}
ToCome(f) == \E i \in DOMAIN todo : todo[i] = f
AllGood == \A f \in Files : disk[f] = "good"

Covered ==
  /\ pc \in InHand => \A f \in Files : disk[f] = "good" \/ ToCome(f)
  /\ pc \in {"stale", "git"} => AllGood
  /\ pc = "git" => stale = {}
  /\ pc \in {"cleanup", "idle"} /\ result = "ok" => AllGood /\ stale = {} /\ ~git
  /\ pc = "idle" /\ result = "ok" => ~tempDir

\* An error has a cause in this run.
Blamed ==
  /\ pc = "download" => transients = attempt
  /\ pc = "verify" /\ temp # "good" => faulted
  /\ pc \in {"cleanup", "idle"} /\ result = "err" => faulted \/ transients > Retries

IInv == TypeOK /\ AtHand /\ Covered /\ Blamed

-----------------------------------------------------------------------------
(* Sequences. *)

\* What a sequence holds is its head or is in its tail.
LEMMA HeadOrTail ==
  ASSUME NEW S, NEW s \in Seq(S), s # <<>>
  PROVE  /\ Head(s) \in S /\ Tail(s) \in Seq(S) /\ Len(Tail(s)) = Len(s) - 1
         /\ \A i \in DOMAIN s : s[i] = Head(s) \/ \E j \in DOMAIN Tail(s) : Tail(s)[j] = s[i]
<1>1. Head(s) \in S /\ Tail(s) \in Seq(S) /\ Len(Tail(s)) = Len(s) - 1
  OBVIOUS
<1>2. ASSUME NEW i \in DOMAIN s, s[i] # Head(s)
      PROVE  \E j \in DOMAIN Tail(s) : Tail(s)[j] = s[i]
  <2>1. i \in 2..Len(s)
    BY <1>2
  <2>2. i - 1 \in DOMAIN Tail(s) /\ Tail(s)[i - 1] = s[i]
    BY <2>1, <1>1
  <2> QED
    BY <2>2
<1> QED
  BY <1>1, <1>2

-----------------------------------------------------------------------------
LEMMA Initially == Init => IInv
<1> SUFFICES ASSUME Init PROVE IInv
  OBVIOUS
<1>1. <<>> \in Seq(Files) /\ Len(<<>>) <= Len(Manifest) /\ 0 \in 0..Retries /\ 0 \in 0..MaxRuns
  BY InstallerAssumption
<1>2. TypeOK
  BY <1>1 DEF Init, TypeOK, Contents
<1>3. AtHand /\ Covered /\ Blamed
  BY DEF Init, AtHand, Covered, Blamed, InHand
<1> QED
  BY <1>2, <1>3 DEF IInv

\* When the entry at hand is finished with a good file, the rest is covered.
LEMMA NextEntry ==
  ASSUME IInv, todo # <<>>, pc \in InHand,
         disk' \in [Files -> Contents], disk'[File] = "good",
         \A f \in Files : disk[f] = "good" => disk'[f] = "good",
         todo' = Tail(todo)
  PROVE  /\ todo' \in Seq(Files) /\ Len(todo') <= Len(Manifest)
         /\ \A f \in Files : disk'[f] = "good" \/ (ToCome(f))'
<1>1. todo \in Seq(Files) /\ Len(todo) <= Len(Manifest)
  BY DEF IInv, TypeOK
<1>2. /\ File \in Files /\ Tail(todo) \in Seq(Files) /\ Len(Tail(todo)) = Len(todo) - 1
      /\ \A i \in DOMAIN todo : todo[i] = File \/ \E j \in DOMAIN Tail(todo) : Tail(todo)[j] = todo[i]
  BY <1>1, HeadOrTail DEF File
<1>3. ASSUME NEW f \in Files, disk'[f] # "good"
      PROVE  (ToCome(f))'
  <2>1. disk[f] # "good" /\ f # File
    BY <1>3
  <2>2. PICK i \in DOMAIN todo : todo[i] = f
    BY <2>1 DEF IInv, Covered, ToCome
  <2> QED
    BY <1>2, <2>1, <2>2 DEF ToCome
<1> QED
  BY <1>1, <1>2, <1>3

LEMMA Invariance == IInv /\ [Next]_vars => IInv'
<1> SUFFICES ASSUME IInv, [Next]_vars PROVE IInv'
  OBVIOUS
<1> USE DEF IInv, TypeOK, AtHand, Covered, Blamed, InHand, Contents, Damaged, Fails,
            Goes, dirVars, tempVars, runVars, history
<1>1. CASE Start
  <2>1. \A f \in Files : \E i \in DOMAIN Manifest : Manifest[i] = f
    BY DEF Files
  <2>2. /\ todo' \in Seq(Files) /\ Len(todo') <= Len(Manifest)
        /\ attempt' \in 0..Retries /\ runs' \in 0..MaxRuns
    BY <1>1, InstallerAssumption DEF Start
  <2>3. \A f \in Files : (ToCome(f))'
    BY <1>1, <2>1 DEF Start, ToCome
  <2>4. TypeOK'
    BY <1>1, <2>2 DEF Start
  <2> QED
    BY <1>1, <2>3, <2>4 DEF Start
<1>2. CASE Prepare
  BY <1>2 DEF Prepare, ToCome
<1>3. CASE CheckEntry
  <2>1. CASE disk[File] = "good"
    <3>1. todo' = Tail(todo) /\ pc' = "entry" /\ disk' = disk
      BY <1>3, <2>1 DEF CheckEntry, Matches
    <3>2. /\ todo' \in Seq(Files) /\ Len(todo') <= Len(Manifest)
          /\ \A f \in Files : disk'[f] = "good" \/ (ToCome(f))'
      BY <1>3, <2>1, <3>1, NextEntry DEF CheckEntry
    <3> QED
      BY InstallerAssumption, <1>3, <3>1, <3>2 DEF CheckEntry
  <2>2. CASE disk[File] # "good"
    BY InstallerAssumption, <1>3, <2>2 DEF CheckEntry, Matches, ToCome, File
  <2> QED
    BY <2>1, <2>2
<1>4. CASE Downloaded
  BY <1>4 DEF Downloaded, ToCome, File
<1>5. CASE DownloadFails
  BY InstallerAssumption, <1>5 DEF DownloadFails, MayRetry, ToCome, File
<1>6. CASE DownloadRefused
  BY <1>6 DEF DownloadRefused
<1>7. CASE Verify
  BY <1>7 DEF Verify, Matches, ToCome, File
<1>8. CASE Rename
  <2>1. CASE disk' = [disk EXCEPT ![File] = temp] /\ todo' = Tail(todo) /\ pc' = "entry"
    <3>1. disk' \in [Files -> Contents] /\ disk'[File] = "good"
      BY <1>8, <2>1, HeadOrTail DEF Rename, File
    <3>2. /\ todo' \in Seq(Files) /\ Len(todo') <= Len(Manifest)
          /\ \A f \in Files : disk'[f] = "good" \/ (ToCome(f))'
      BY <1>8, <2>1, <3>1, NextEntry DEF Rename
    <3> QED
      BY <1>8, <2>1, <3>1, <3>2 DEF Rename
  <2>2. CASE pc' = "copy" /\ UNCHANGED <<disk, odd, temp, todo, result>>
    BY <1>8, <2>2 DEF Rename, ToCome, File
  <2> QED
    BY <1>8, <2>1, <2>2 DEF Rename
<1>9. CASE CopyBegins
  <2>1. File \in Files
    BY <1>9, HeadOrTail DEF CopyBegins, File
  <2>2. PICK part \in Damaged : disk' = [disk EXCEPT ![File] = part]
    BY <1>9 DEF CopyBegins
  <2>3. /\ disk' \in [Files -> Contents] /\ disk'[File] = part
        /\ \A f \in Files : f # File => disk'[f] = disk[f]
    BY <2>1, <2>2
  <2>4. \A f \in Files : disk'[f] = "good" \/ (ToCome(f))'
    BY <1>9, <2>2, <2>3 DEF CopyBegins, ToCome
  <2> QED
    BY <1>9, <2>1, <2>2, <2>3, <2>4 DEF CopyBegins, File
<1>10. CASE CopyFails
  BY <1>10, HeadOrTail DEF CopyFails, File
<1>11. CASE CopyEnds
  <2>1. disk' \in [Files -> Contents] /\ disk'[File] = "good"
    BY <1>11, HeadOrTail DEF CopyEnds, File
  <2>2. \A f \in Files : disk[f] = "good" => disk'[f] = "good"
    BY <1>11 DEF CopyEnds
  <2>3. CASE todo' = Tail(todo) /\ pc' = "entry"
    <3>1. /\ todo' \in Seq(Files) /\ Len(todo') <= Len(Manifest)
          /\ \A f \in Files : disk'[f] = "good" \/ (ToCome(f))'
      BY <1>11, <2>1, <2>2, <2>3, NextEntry DEF CopyEnds
    <3> QED
      BY <1>11, <2>1, <2>3, <3>1 DEF CopyEnds
  <2>4. CASE Fails /\ faulted' = TRUE /\ UNCHANGED <<temp, todo>>
    BY <1>11, <2>1, <2>4 DEF CopyEnds
  <2> QED
    BY <1>11, <2>3, <2>4 DEF CopyEnds
<1>12. CASE EntriesEnd
  BY <1>12 DEF EntriesEnd, ToCome, AllGood
<1>13. CASE RemoveStale
  <2>1. PICK name \in stale : disk' = [f \in Files |-> IF f = name THEN "absent" ELSE disk[f]]
                              /\ stale' = stale \ {name} /\ odd' = odd \ {name}
    BY <1>13 DEF RemoveStale, Unexpected
  <2>2. disk' = disk
    BY InstallerAssumption, <2>1
  <2> QED
    BY <1>13, <2>1, <2>2 DEF RemoveStale, AllGood
<1>14. CASE StaleGone
  BY <1>14 DEF StaleGone, Unexpected, AllGood
<1>15. CASE RemoveGit
  BY <1>15 DEF RemoveGit, AllGood
<1>16. CASE CleanUp
  BY <1>16 DEF CleanUp, AllGood
<1>17. CASE \E at \in {"entry", "verify", "copy", "stale", "git"} : Fault(at)
  BY <1>17 DEF Fault
<1>18. CASE Killed
  BY InstallerAssumption, <1>18 DEF Killed
<1>19. CASE UNCHANGED vars
  BY <1>19 DEF vars, ToCome, AllGood, File
<1> QED
  BY <1>1, <1>2, <1>3, <1>4, <1>5, <1>6, <1>7, <1>8, <1>9, <1>10, <1>11, <1>12, <1>13,
     <1>14, <1>15, <1>16, <1>17, <1>18, <1>19 DEF Next, Step

-----------------------------------------------------------------------------
LEMMA Always == Spec => []IInv
  BY Initially, Invariance, PTL DEF Spec

\* The types of the installer's state: the attempts never exceed the retries.
THEOREM InstallerTypes == Spec => []TypeOK
<1>1. IInv => TypeOK
  BY DEF IInv
<1> QED
  BY <1>1, Always, PTL

\* A success leaves exactly the files of the manifest, each as it should be, in
\* whatever state the directory was and however often a run was killed.
THEOREM Installs == Spec => []SuccessMeansInstalled
<1>1. IInv => SuccessMeansInstalled
  BY DEF IInv, Covered, AllGood, SuccessMeansInstalled
<1> QED
  BY <1>1, Always, PTL

\* A run returns an error only after a failure in this run that the retries do not
\* cover.
THEOREM FailsForACause == Spec => []OnlyFaultsFail
<1>1. IInv => OnlyFaultsFail
  BY DEF IInv, Blamed, OnlyFaultsFail
<1> QED
  BY <1>1, Always, PTL

\* Which steps change a file of the manifest, and to what.
LEMMA Changes ==
  ASSUME IInv, [Next]_vars, NEW f \in Files, disk'[f] # disk[f]
  PROVE  /\ disk[f] # "good"
         /\ disk'[f] \in Damaged => pc = "copy"
<1> USE DEF IInv, TypeOK, AtHand, Damaged, Contents
<1>1. CASE Rename
  BY <1>1 DEF Rename, File
<1>2. CASE CopyBegins
  BY <1>2 DEF CopyBegins, File
<1>3. CASE CopyFails
  BY <1>3 DEF CopyFails, File
<1>4. CASE CopyEnds
  BY <1>4 DEF CopyEnds, File
<1>5. CASE RemoveStale
  BY InstallerAssumption, <1>5 DEF RemoveStale, Unexpected
<1>6. CASE UNCHANGED disk
  BY <1>6
<1> QED
  BY <1>1, <1>2, <1>3, <1>4, <1>5, <1>6
     DEF Next, Step, Start, Prepare, CheckEntry, Downloaded, DownloadFails, DownloadRefused,
         Verify, EntriesEnd, StaleGone, RemoveGit, CleanUp, Fault, Killed, vars, dirVars

\* No step of any run, failing or killed, touches a file that is good.
THEOREM RunsAddUp == Spec => GoodStaysGood
<1>1. IInv /\ [Next]_vars => [\A f \in Files : disk[f] = "good" => disk'[f] = "good"]_vars
  BY Changes
<1> QED
  BY <1>1, Always, PTL DEF Spec, GoodStaysGood

\* Outside the copy that replaces a failed rename, only verified content comes
\* under the name of a model's file.
THEOREM VerifiedFirst == Spec => OnlyVerified
<1>1. IInv /\ [Next]_vars
        => [\A f \in Files : disk'[f] # disk[f] /\ disk'[f] \in Damaged => pc = "copy"]_vars
  BY Changes
<1> QED
  BY <1>1, Always, PTL DEF Spec, OnlyVerified
=============================================================================
