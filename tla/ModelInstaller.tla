--------------------------- MODULE ModelInstaller ---------------------------
(***************************************************************************)
(* `ai2npu install-model`, src/model_installer.rs: the files of a built-in  *)
(* manifest are checked, downloaded into a temporary directory, verified    *)
(* and moved into the model's directory, which is then cleared of           *)
(* everything else.  Any operation on files or on the network may fail, the *)
(* process may be killed between any two steps, and the user may run the    *)
(* command again.  One process at a time works in a directory.              *)
(***************************************************************************)
EXTENDS Naturals, Sequences

CONSTANTS
  Manifest,   \* the names of the manifest, in its order
  Others,     \* names of files that the manifest does not have
  Retries,    \* DOWNLOAD_RETRIES
  MaxRuns     \* bound: how often the command is run

Files == {Manifest[i] : i \in DOMAIN Manifest}

ASSUME InstallerAssumption ==
  /\ Manifest \in Seq(Files)
  /\ Retries \in Nat /\ MaxRuns \in Nat
  /\ Others \intersect Files = {}

VARIABLES
  disk,      \* what each file of the manifest contains
  odd,       \* those whose names differ from the manifest in their case
  stale,     \* other files in the directory
  git,       \* is there a directory .git?
  tempDir,   \* is there a directory .ai2npu-download?
  temp,      \* the temporary file of the entry at hand
  pc,        \* where the process is; "idle" when there is none
  todo,      \* the entries that are left, the one at hand first
  attempt,   \* the loop variable of download_file
  result,    \* what the process returns
  runs,      \* how often it was started
  transients, faulted  \* history: the transient failures of the download at
                       \* hand; anything else that failed in this run

dirVars  == <<disk, odd, stale, git>>
tempVars == <<tempDir, temp>>
runVars  == <<todo, attempt, runs>>
history  == <<transients, faulted>>
vars == <<dirVars, tempVars, pc, result, runVars, history>>

\* A file is absent, of another size, of the size but not of the hash that the
\* manifest names, or as the manifest wants it.
Contents == {"absent", "short", "forged", "good"}
Damaged == {"short", "forged"}

Init ==
  /\ disk \in [Files -> Contents]
  /\ odd \in SUBSET {f \in Files : disk[f] # "absent"}
  /\ stale \in SUBSET Others /\ git \in BOOLEAN
  /\ tempDir = FALSE /\ temp = "absent"
  /\ pc = "idle" /\ result = "none" /\ todo = <<>> /\ attempt = 0 /\ runs = 0
  /\ transients = 0 /\ faulted = FALSE

TypeOK ==
  /\ disk \in [Files -> Contents] /\ odd \subseteq Files
  /\ stale \subseteq Others /\ git \in BOOLEAN
  /\ tempDir \in BOOLEAN /\ temp \in Contents
  /\ pc \in {"idle", "prepare", "entry", "download", "verify", "move", "copy",
             "copying", "stale", "git", "cleanup"}
  /\ result \in {"none", "ok", "err"}
  /\ todo \in Seq(Files) /\ Len(todo) <= Len(Manifest)
  /\ attempt \in 0..Retries /\ transients \in Nat
  /\ runs \in 0..MaxRuns /\ faulted \in BOOLEAN

-----------------------------------------------------------------------------
(* The entries of the manifest. *)

File == Head(todo)

\* Mutant of Matches: the size is enough.
SizeMatches(content) == content \in {"good", "forged"}

\* expected_file_matches: the size, then the hash.
Matches(content) == content = "good"

\* `?` below install_manifest_model: the temporary directory is cleared yet.
Fails == pc' = "cleanup" /\ result' = "err"
Goes(to) == pc' = to /\ UNCHANGED result

\* An operation on files or on the network fails where nothing retries it.
Fault(at) ==
  /\ pc = at /\ Fails /\ faulted' = TRUE
  /\ UNCHANGED <<dirVars, tempVars, runVars, transients>>

Start ==
  /\ pc = "idle" /\ runs < MaxRuns
  /\ pc' = "prepare" /\ result' = "none"
  /\ todo' = Manifest /\ attempt' = 0 /\ runs' = runs + 1
  /\ transients' = 0 /\ faulted' = FALSE
  /\ UNCHANGED <<dirVars, tempVars>>

\* An old temporary directory is removed and a new one made.  If that fails, the
\* process returns at once, with the old one still there or not.
Prepare ==
  /\ pc = "prepare"
  /\ \/ Goes("entry") /\ tempDir' = TRUE /\ temp' = "absent" /\ UNCHANGED faulted
     \/ /\ pc' = "idle" /\ result' = "err" /\ faulted' = TRUE
        /\ \/ UNCHANGED tempVars
           \/ tempDir' = FALSE /\ temp' = "absent"
  /\ UNCHANGED <<dirVars, runVars, transients>>

\* Mutant of CheckEntry: the attempts of all entries are counted together.
CheckEntryOnly ==
  /\ pc = "entry" /\ todo # <<>>
  /\ IF Matches(disk[File]) THEN pc' = pc /\ todo' = Tail(todo)
                            ELSE pc' = "download" /\ UNCHANGED todo
  /\ transients' = 0
  /\ UNCHANGED <<dirVars, tempVars, result, attempt, runs, faulted>>

\* A file that matches is skipped, for any other a download begins.
CheckEntry ==
  /\ pc = "entry" /\ todo # <<>>
  /\ IF Matches(disk[File]) THEN pc' = pc /\ todo' = Tail(todo)
                            ELSE pc' = "download" /\ UNCHANGED todo
  /\ attempt' = 0 /\ transients' = 0
  /\ UNCHANGED <<dirVars, tempVars, result, runs, faulted>>

\* The server sends what it likes; the connection need not notice.
Downloaded ==
  /\ pc = "download"
  /\ temp' \in Contents \ {"absent"}
  /\ faulted' = (faulted \/ temp' # "good")
  /\ Goes("verify")
  /\ UNCHANGED <<dirVars, tempDir, runVars, transients>>

MayRetry == attempt < Retries

\* Mutant of DownloadFails: transient failures are retried and not counted; each
\* attempt leaves a different part of the file.
RetryForEver ==
  /\ pc = "download"
  /\ temp' \in Damaged \ {temp}
  /\ UNCHANGED <<pc, result, dirVars, tempDir, runVars, history>>

\* is_retryable_download_error.  The next attempt truncates the file.
DownloadFails ==
  /\ pc = "download"
  /\ temp' \in {temp, "short"}
  /\ transients' = transients + 1
  /\ IF MayRetry THEN attempt' = attempt + 1 /\ UNCHANGED <<pc, result>>
                 ELSE Fails /\ UNCHANGED attempt
  /\ UNCHANGED <<dirVars, tempDir, todo, runs, faulted>>

\* Another status, or an error of the disk.
DownloadRefused ==
  /\ pc = "download" /\ temp' \in {temp, "short"}
  /\ Fails /\ faulted' = TRUE
  /\ UNCHANGED <<dirVars, tempDir, runVars, transients>>

Verify ==
  /\ pc = "verify"
  /\ IF Matches(temp) THEN Goes("move") ELSE Fails
  /\ UNCHANGED <<dirVars, tempVars, runVars, history>>

Rename ==
  /\ pc = "move"
  /\ \/ /\ disk' = [disk EXCEPT ![File] = temp] /\ odd' = odd \ {File}
        /\ temp' = "absent" /\ todo' = Tail(todo) /\ Goes("entry")
     \/ Goes("copy") /\ UNCHANGED <<disk, odd, temp, todo>>
  /\ UNCHANGED <<stale, git, tempDir, attempt, runs, history>>

\* fs::copy overwrites the file under its own name: at first a part of it.
CopyBegins ==
  /\ pc = "copy"
  /\ \E part \in Damaged : disk' = [disk EXCEPT ![File] = part]
  /\ Goes("copying")
  /\ UNCHANGED <<odd, stale, git, tempVars, runVars, history>>

CopyFails ==
  /\ pc = "copying"
  /\ \/ UNCHANGED <<disk, odd>>
     \/ disk' = [disk EXCEPT ![File] = "absent"] /\ odd' = odd \ {File}
  /\ Fails /\ faulted' = TRUE
  /\ UNCHANGED <<stale, git, tempVars, runVars, transients>>

\* The copy is whole, and the temporary file is removed, or not.
CopyEnds ==
  /\ pc = "copying"
  /\ disk' = [disk EXCEPT ![File] = temp]
  /\ \/ temp' = "absent" /\ todo' = Tail(todo) /\ Goes("entry") /\ UNCHANGED faulted
     \/ Fails /\ faulted' = TRUE /\ UNCHANGED <<temp, todo>>
  /\ UNCHANGED <<odd, stale, git, tempDir, attempt, runs, transients>>

-----------------------------------------------------------------------------
(* What is not in the manifest. *)

EntriesEnd ==
  /\ pc = "entry" /\ todo = <<>> /\ Goes("stale")
  /\ UNCHANGED <<dirVars, tempVars, runVars, history>>

\* Mutant of Unexpected: names are compared as they are.
OtherSpelling == stale \union {f \in odd : disk[f] # "absent"}

\* Names are compared in lower case: the names of Windows have no case.
Unexpected == stale

RemoveStale ==
  /\ pc = "stale"
  /\ \E name \in Unexpected :
       /\ disk' = [f \in Files |-> IF f = name THEN "absent" ELSE disk[f]]
       /\ stale' = stale \ {name} /\ odd' = odd \ {name}
  /\ UNCHANGED <<git, tempVars, pc, result, runVars, history>>

StaleGone ==
  /\ pc = "stale" /\ Unexpected = {} /\ Goes("git")
  /\ UNCHANGED <<dirVars, tempVars, runVars, history>>

RemoveGit ==
  /\ pc = "git" /\ git' = FALSE
  /\ pc' = "cleanup" /\ result' = "ok"
  /\ UNCHANGED <<disk, odd, stale, tempVars, runVars, history>>

\* result.and(cleanup): a success needs both, an error stays the first one.
CleanUp ==
  /\ pc = "cleanup" /\ pc' = "idle"
  /\ \/ tempDir' = FALSE /\ temp' = "absent" /\ UNCHANGED <<result, faulted>>
     \/ /\ temp' \in {temp, "absent"} /\ UNCHANGED tempDir
        /\ result' = "err" /\ faulted' = TRUE
  /\ UNCHANGED <<dirVars, runVars, transients>>

Killed ==
  /\ pc # "idle" /\ pc' = "idle" /\ result' = "none"
  /\ todo' = <<>> /\ attempt' = 0
  /\ UNCHANGED <<dirVars, tempVars, runs, history>>

Step ==
  \/ Prepare \/ CheckEntry \/ Downloaded \/ DownloadFails \/ DownloadRefused
  \/ Verify \/ Rename \/ CopyBegins \/ CopyFails \/ CopyEnds
  \/ EntriesEnd \/ RemoveStale \/ StaleGone \/ RemoveGit \/ CleanUp
  \/ \E at \in {"entry", "verify", "copy", "stale", "git"} : Fault(at)

Next == Start \/ Step \/ Killed

Spec == Init /\ [][Next]_vars

\* The process runs; every operation returns, for the client of the downloads
\* has timeouts.
FairSpec == Spec /\ WF_vars(Step)

-----------------------------------------------------------------------------
(* Properties *)

\* docs/installation-and-operation.md:47: after a success the directory holds the
\* files of the manifest, each as the manifest wants it, and nothing else, in
\* whatever state it, or a run that was killed, had left it.
SuccessMeansInstalled ==
  pc = "idle" /\ result = "ok"
    => /\ \A f \in Files : disk[f] = "good"
       /\ stale = {} /\ ~git /\ ~tempDir

\* ... matching files are skipped: whatever fails and whenever the process is
\* killed, what is good stays good, so that runs add up.
GoodStaysGood ==
  [][\A f \in Files : disk[f] = "good" => disk'[f] = "good"]_vars

\* Nothing comes under the name of a model's file before it was verified, but
\* for the part of it that a copy has written.
OnlyVerified ==
  [][\A f \in Files : disk'[f] # disk[f] /\ disk'[f] \in Damaged => pc = "copy"]_vars

\* Neither an old directory nor a run that was killed makes a run fail: an error
\* means that something failed in this run, and up to Retries transient failures
\* of each download are no reason.
OnlyFaultsFail ==
  pc = "idle" /\ result = "err" => faulted \/ transients > Retries

\* A run ends, however often the server answers with a transient failure.
RunEnds == pc # "idle" ~> pc = "idle"
=============================================================================
