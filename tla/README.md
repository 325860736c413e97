# A TLA+ development of ai2npu

ai2npu is a Windows service (Rust, tokio, axum) that offers OpenAI-compatible
embedding, transcription and realtime endpoints on one Intel NPU. The NPU serves
one operation at a time, so what matters about the program's concurrency lies in
the inference queue in front of the NPU, the requests that pass through it to the
model caches, the realtime session that feeds it, and the segmenter that decides
what the session decodes. What matters about its failures lies there, in the installer of
the models, in the rotation of the log files and in the life of the service
process under the Windows service manager. These are modelled and model-checked
here, and every safety property that a run checks and finds to hold is proved. The
rest of the system is listed below with the reason why it is left out.

File paths are those of the repository (`src/queue.rs`, `docs/streaming-api.md`).

## 1. Inventory

| Part | Source | State | Operations | Hard behaviour | What makes it correct |
| --- | --- | --- | --- | --- | --- |
| Inference queue | `src/queue.rs` | semaphore permits, bounded channel, `active` counter, two oneshots per request, one worker task | `submit`, `submit_with_timeout`, worker loop, `pending_len` | clients on several threads, timeouts, dropped futures, panics | no permit leaked, counter exact, first come first served, abandoned work is not run, every caller answered |
| Realtime endpoint | `src/http.rs` 178-328 | session slot, two bounded channels, cancel flag | guard, set-up, reader, writer, tear-down | back-pressure, disconnects, three tasks that wait for each other | one session at a time, released when the socket is gone, no deadlock |
| Realtime session | `src/streaming.rs` | `SessionRuntime`: item, text already sent, history | update, append, commit, segmenter events, decodes | cancel between two steps, failing decodes, partial results | event protocol, append-only deltas, errors reported |
| Segmenter | `src/vad.rs` | `VadSegmenter` | `push`, `flush`, `set_min_silence_ms` | thresholds off the window grid, forced cuts, commits in a pause | framing, no speech lost or repeated, bounded phrases |
| HTTP API | `src/http.rs`, `src/error.rs` | `AppState.current_request` | embeddings, audio, unload, health, body limit, error mapping | a request's life across validation, queue and executor | codes tell what happened, `current_request` exact |
| Executors, model cache | `src/inference.rs`, `src/bge_embeddings.rs`, `src/embeddings.rs`, `src/model_registry.rs` | cached sessions and compiled models, `loaded_models` | load, transcribe, embed, `unload_all`, preload | look-up and insertion under different lock periods, failing loads | what is listed as loaded is what is cached |
| Model installer | `src/model_installer.rs` | files of the model directory, temporary directory | install, download with retries, verification, removal of stale files | interruption at any step, second run | a run that ends well leaves exactly the manifest |
| Log files | `src/logs.rs` | open file, size, rotated files | write, rotate, tail | an operation that fails half-way, a kill | the newest records are kept, in order; bounded files; a failure costs one file |
| Windows service | `src/windows_service.rs` | state at the service manager, `shutdown_tx` | install, uninstall, start, stop, restart, run | stop is asynchronous, several operators, crash and recovery | Stopped means that nothing listens and no HTTP request is unanswered; an accepted stop ends the process; an install is whole |
| Configuration | `src/config.rs` | none | parse, validate | - | bounds used as assumptions here |
| Audio, resampling, tokenizer | `src/audio.rs`, `src/resample.rs`, `src/bge_tokenizer.rs` | none | pure functions | - | unit tests |
| Native bindings | `src/openvino_c.rs`, `src/openvino_backend.rs`, `src/genai_bridge.rs`, `native/` | handles | load, infer | foreign code | - |
| Command line, packaging | `src/main.rs`, `src/cli.rs`, `src/admin_client.rs`, `packaging/`, `scripts/` | none | dispatch | - | - |

How they interact: every HTTP handler and every decode of a session wraps its
operation in an `InferenceJob` and submits it to the one `InferenceQueue`; the
worker runs it on the blocking pool, where the executor takes the model from its
cache. A realtime handler spawns `run_session` and talks to it through an input
channel and an event channel of 64 slots each. `/health` reads the queue's
counter, `current_request` and the executors' lists. `serve_until` binds the port,
preloads models and serves until the control handler of the service tells it to
shut down; it returns when the HTTP requests in progress are answered. A realtime
session, which is an upgraded connection in a task of its own, and a job of the queue
whose client has gone are not awaited: they may go on until the process exits. Every
part logs to the one active file, under its lock.

`PROJECT.json` lists each hazard of the code at its line with the property that
covers it, or the reason why none does yet.

## 2. Modules

| Module | Models | Notes |
| --- | --- | --- |
| `FifoService` | the promise of the queue (`technical_specification.md` 9.1-9.3), without permits, channels or counters | abstract specification |
| `InferenceQueue` | `src/queue.rs` | refines `FifoService` |
| `InferenceQueueProofs` | - | theorems about `InferenceQueue`, and that it implements `FifoService` |
| `StreamingSession` | `handle_realtime_socket` and `run_session` | both ends of the two channels |
| `StreamingSessionProofs` | - | theorems about `StreamingSession` |
| `VadSegmenter` | `src/vad.rs` | one call per step, pure operators for one window |
| `VadSegmenterProofs` | - | theorems about `VadSegmenter` |
| `SequenceLemmas` | - | lemmas on `FlattenSeq`, `IsPrefix` and the least number with a property, for the proofs about the session and the segmenter |
| `RequestPipeline` | the handlers of `src/http.rs` that run models, `src/inference.rs`, `src/bge_embeddings.rs` | composed with `FifoService` (instance `Queue`) |
| `RequestPipelineProofs` | - | theorems about `RequestPipeline` |
| `ModelInstaller` | `src/model_installer.rs` | failures and kills at every step |
| `ModelInstallerProofs` | - | theorems about `ModelInstaller` |
| `LogFiles` | `src/logs.rs` | an action is one operation of the file system, which may fail |
| `LogFilesProofs` | - | theorems about `LogFiles` |
| `WindowsService` | `src/windows_service.rs`, `serve_until` of `src/http.rs` | the service manager is external |
| `WindowsServiceProofs` | - | theorems about `WindowsService` |
| `MCStreamingSession`, `MCRequestPipeline`, `MCModelInstaller` | - | model values, inputs and symmetry for TLC; the other models need none |

The composition is by contract, because the product of the parts would hide each one's
interesting orders behind the others' bounds. `RequestPipeline` takes the queue as
`FifoService`, which `InferenceQueue` implements, and has its steps as parts of its
own actions. `StreamingSession` takes the segmenter as any source of framed events
(operator `Framed`, the theorem `EveryCallIsFramed` about `VadSegmenter`), and a
decode as an operation that ends with a text or fails (the property `EveryCallReturns`
of `InferenceQueue`). `WindowsService` takes a request that has been received as one
that is answered at last, by the same property.

### InferenceQueue

One action is one operation on shared state, because clients and worker run on
different threads. Client: `Admit` / `RefuseFull` (`try_acquire_owned`), `Count`
(`fetch_add`), `TrySend`, `SeeStarted`, `TimeOut`, `Receive`, and `Disconnect`,
which is axum dropping the handler's future; a future is only dropped at an
await, hence never between the permit and the `try_send`. Worker: `Recv`,
`DropPermit`, `SendStarted` or `FailStarted` then `Abandon`, `JobEnds` (a panic
is joined and becomes an error), `Uncount`, `Respond`. A timeout may win even
after `started` was sent, since `select!` picks among ready branches at random
and the receiver is dropped after the choice. Zero means no timeout in the code,
so `Timed` holds the requests whose timeout is not zero. Not modelled: the end
of the tokio runtime, after which submissions return `Closed`. A request that timed
out or was disconnected keeps its place until the worker reaches it; `FifoService`
says so too.

### StreamingSession

`handler[c]` is the program counter of `handle_realtime_socket`: `acquired` (the
guard is held), `serving` (in the select), `stopping` (the cancel flag is set),
`draining` (the senders are dropped, the session is awaited), `done`. `held` and
`inflight` are the message and the event that the reader and the writer have in
hand while they wait. `session` is the task, with the events it still has to send
before it goes on (`outbox`), the rest of the segmenter's events of one append
(`batch`), the current item and the text already sent for it. An event that is
to be sent waits for a slot, and the receiving end of the event channel lives
until the handler returns: the writer only borrows it. The client may stop
reading (`stalled`) or go away (`gone`) at any moment; a pause of the client is a
`WriteEvent` that comes late. `EndSelect` merges the return of the select with
the `cancel.store` on the next line. `sent`, `late` and `messages` are history
and bound.

Left out: the prompt made of earlier transcripts, language, sample rate and word
layout (the recogniser may return any text of `Texts`, a set of sequences over
`Words`); the timestamps of events (in `VadSegmenter`); the abort of the task at the
end of the runtime.

### VadSegmenter

Times are milliseconds of audio. A speech sample is represented by the window
that holds it, named by its start time. `ProcessWindow` follows `process_window`
statement by statement: forced cut, start, speech or silence, partial, end, and
the clock last. `Push(n)` judges every window that `n` more samples complete, in
one call. `SetMinSilence` takes any value at any time, zero too, as a session
update does.

### RequestPipeline

`Arrive` is a handler up to its submission: `Checked` has the refusals in the order of
the code, the body limit first, and answers silence without the NPU. A body that
axum's extractor refuses is answered by axum itself (`rejected`), without one of the
API's codes; what is wrong inside a multipart body is `invalid_request`. `Submit`,
`TimeOut`, `Disconnect` and `Answer` are the submission as the service sees it, and
the mapping of its result to an error code; a decode of a realtime session is a
submission without timeout, without `current_request` and without a handler that could
be dropped. `Fetch`, `Begin`, `LookUp`, `LoadModel`, `InsertModel`, `Infer`,
`ListName`, `Clear`, `ClearNames`, `Panic` and `Finish` are the worker in the closure
of the job, split wherever others may look in between: the list of names has a lock of
its own, and `BgeEmbeddingExecutor` holds its lock for the look-up and again for the
insertion (`or_insert_with`, which keeps an entry that came in the meantime), but not
while it loads. `NativeWhisperExecutor` keeps one lock from the look-up to the end of
the transcription, so for it the split only shows more intermediate states. The whisper
cache is a set of directories, the embedding cache keeps the id under which a
directory was loaded. The start preloads models before there is a server. A
`Disconnect` is also what the command `unload` does when its HTTP client gives up
after 30 seconds (`src/admin_client.rs`): an unload that is still queued is then not
run. Left out: the contents of requests and answers, `/logs`, `/v1/models` and the
environment variables that choose executors.

### ModelInstaller

The directory starts in any state: each file of the manifest absent, of another
size, of the right size with another hash, or good, its name spelled in another
case or not; with other files, with a `.git`. Every operation may fail; a download
may deliver anything; a rename that fails is replaced by a copy, whose first part
may already have the full size. `Killed` ends the process between any two steps
and the user may start it again. `transients` and `faulted` are history. Left out:
the layout of URLs and of parent directories, and two processes at once in one
directory, for which the code has no lock.

### LogFiles

A record is written under the lock of `LogFileMakeWriter`, so one write is in
progress at a time; its operations on files are the actions, and each may fail, or
the process may be killed before it. Slot 0 is `ai2npu.log`, slot k is
`ai2npu.log.k`; `place` follows each accepted record through renames, removals and
overwritten files. `Write` is the decision of `rotate_before_write` with the
`take()` that closes the file; `RemoveOldest`, `Shift` and `RotateActive` are
`rotate_log_file_unchecked`; `RotationFails` leaves it at whichever file could not
be moved; `Reopen` and `Recover` are `reopen_active_file` after a rotation that
went well or did not. A log that could not be reopened refuses the records that
would still fit, until one that does not fit opens the file again: that is what
the code does, and `Write` has it. `Start` is `init_file_logging`, where a failing
rotation keeps the service from starting. `inexact` marks the files whose length
was read as 0 or that hold a part of a record, since `current_size` does not count
these bytes. Left out: `max_files` changed between two starts, which leaves the
files beyond the new limit alone; two processes on one log (`run` in a console
beside the service); a poisoned lock; `exists()` is taken to tell the truth;
`flush` does nothing on a file; `tail` only reads.

### WindowsService

`proc[p]` is where process p is: `launched` by the manager, `loading` (the handler
is registered, the configuration is read), `starting` (Running is reported, the
server is being made), `preloading` (the port is bound), `serving`, `draining` (the
listener is dropped), `served` (`serve_until` has returned), `leaving` (Stopped is
reported), `exited`. The manager keeps the last status and accepts a stop control
only when it is Running; the code never reports StopPending, so the service is
Running until its requests are answered. `client[c]` is a connection: it is sending,
worked on, reading its answer, or upgraded to a realtime session; it may leave at any
moment. `orphans` are the processes whose worker runs a job that nobody waits for,
because its client left or was told `queue_timeout` although the job was started.
`Drained` is what axum's graceful shutdown awaits: the HTTP connections, neither the
realtime sessions nor the orphans. These go on after Stopped was reported, and end
with the process (`Exit`): the dispatcher returns once it has the report, so that a
runtime that waits for a job does not keep the process. So Stopped does not mean that
the NPU is idle: the manager may start the next process while the last job of the old
one runs. An operator's command is as many actions
as it makes calls of the manager, so the commands of two operators mix; a deleted
entry goes when the service has stopped and no command holds a handle. `Crash` is
a kill or an abort at any point, after which the manager restarts the service if
`configure_recovery` got that far. A service whose server fails reports Stopped
with exit code 0, so the recovery does not apply to it. `uninstall` ignores a
refused stop: in StartPending it leaves a service that is marked for deletion and
runs. Left out: failing calls to report a status or to register the handler, the
parsing of `--config`, a reboot, and the text of a new configuration file.

## 3. Runs

| Run | Instance | Shows |
| --- | --- | --- |
| `queue` | 3 requests (2 with a timeout), 2 places, fair | types; `PermitAccounting`, `ActiveAccounting`, `NobodyStranded`, `AnsweredNotCounted`, `NoWorkForTheGone`; `Refinement` of `FifoService`, `EveryCallReturns`, `CapacityComesBack` |
| `vad_segments` | windows of 2 samples and 2 ms, 8 windows, pushes of 0 to 5 samples, thresholds 0, 3, 5 and 7, longest phrase 6 | types; `Framing`, `SpeechPreserved`, `SegmentBounded`, `PartialsGrow`, `OnePartialPerPause` |
| `stream_safety` | 2 sockets, channels of 1 slot, 3 messages, up to 2 segmenter events per append, 3 texts, symmetry | types; `OneSession`, `Protocol`, `ClientTextIsATranscript`, `OneLateDecode` |
| `stream_progress` | 1 socket, the same bounds, fair | `InputGetsThrough`, `ReleasedUnlessWedged` |
| `stream_wedge` | 1 socket, 2 messages, fair | counterexample to `Released` |
| `stream_silent_error` | 1 socket, 1 message, fair | counterexample to `FailureIsReported` |
| `pipeline` | 2 requests of 13 kinds, 1 waiting place, 2 whisper models in one directory, 1 embedding model that is preloaded, fair | `CurrentRequestExact`, `ListedIsCached`, `LoadedOnce`, `ReplyIsTrue`, `UnloadFreesEverything`, `EveryRequestAnswered` |
| `health_list` | the same with the 5 kinds that run a job | counterexample to `CachedIsListed` |
| `installer` | 2 files in any state, 1 stale file, 2 runs, the 3 retries of the code, fair | `SuccessMeansInstalled`, `OnlyFaultsFail`, `GoodStaysGood`, `RunEnds` |
| `logs` | 3 rotated files of 3 units, 6 records of 1, 2 or 4 units, 3 failures or kills in the middle of a write or a start | types; `NewestKept`, `FilesBounded`, `EachFaultCostsOneFile` |
| `service` | 2 operators with 2 commands each, 1 client, 2 starts, fair | types; `StoppedIsQuiet`, `InstalledIsWhole`, `StopEnds` |
| `service_restart` | 1 operator with 2 commands, 1 client, 2 starts, fair | counterexample to `RestartRestarts` |

The types of `RequestPipeline` and `ModelInstaller`, `TrySendNeverFull`,
`OnlyVerified` and `FramedCall` have no run: they are proved.

Why the bounds are enough. With three requests and two places, one runs while one is
queued behind another, each of them abandoned or not, and the third is refused when
the worker is late; a dequeued job and the next admission overlap. A fourth request
would take the part of one that was answered. Channels of one slot reach a full
channel with the fewest messages, and nothing in the code depends on 64. Three
messages and two segmenter events per append make two phrases, or one phrase with two
partials, with a commit or an invalid message among them. Eight windows hold a phrase
that is cut by its length, a pause with a partial and a second phrase; the thresholds
lie on and off the grid of windows. The texts contain a proper extension of another
one and a revision. Two requests meet in the cache in every order: one loads or fails
and the other finds what it left, clears it, or comes under the other id of the same
directory; one waiting place makes the second a refused one as well. Two runs of the
installer are one that is cut short anywhere and one that repairs, and since the first
starts from any directory, a third would show nothing new. Three rotated files have an
oldest, a middle and a youngest one, six records fill them and push the oldest out
twice, and three failures reach a rotation that fails, a reopening that fails after
it, and a rotation that meets the gap. Two operators with two commands can install and
start while the other one stops, deletes or installs; with two starts a process that
is leaving and the next one overlap. Symmetry is used for the two sockets in `stream_safety`
only.

Deadlock is checked for the segmenter and the log. The other models stop when every
request or socket has been served or every command has returned, so their runs say
`CHECK_DEADLOCK FALSE`; that nothing stops too early is what the liveness runs show.

### Fairness

Weak fairness of the worker, of every client future that can go on, of the
session task, and of the reader, the writer and the tear-down of each handler:
tokio polls a task that is ready, and `select!` polls both branches. The steps of
the installer are fair because it is one thread whose downloads have timeouts; a
kill and a new run are not. In `WindowsService` the steps of the process are fair
and so is the answer to a request that was received; the operators, the manager's
recovery and the clients are not, and `StopEnds` has the assumption `ClientsKeepUp`,
because a graceful shutdown waits for a request as long as its client takes to send
it or to read its answer. A realtime session need not end, and does not delay the
stop. `LogFiles` has no liveness. The fairness of the worker includes
that an operation on the NPU ends or panics; a hung driver call would stop the
program and is outside. No fairness for anything that somebody outside decides: a
client that arrives, sends, reads after it has stalled, or goes away, and a timer
that fires.

### What the counterexamples say

- `stream_wedge`: when the select ends while the session waits for a slot in a
  full event channel, nobody drains the channel any more and its receiver is
  still alive, so the session waits for ever, `session.await` too, and the guard
  stays: every later connection is refused as `streaming_busy`. A dropped
  `event_rx` before the await would let the send fail. `ReleasedUnlessWedged`
  shows that this is the only way not to be released.
- `stream_silent_error`: an error that ends `run_session` through `?` is not sent
  to the client, who stays connected to a session that is gone until its next
  message finds the input channel closed.
- `health_list`: a whisper session is cached before its first inference, and its
  id is listed after it. If that inference fails, the model stays on the NPU, is
  counted by the next unload, and `/health` does not list it. `ListedIsCached` is
  the other direction, and holds.
- `service_restart`: the restart asks for the stop, which is accepted at once, and
  then for the state, which is still Running: it starts nothing and returns Ok.
  The service stops when its requests are answered, and nothing starts it again.

## 4. Proofs

Every invariant and every action property of the passing runs is proved, and so is
the refinement of `FifoService`; what a run shows on its instance holds for all values
of the constants. The assumptions named below are those of the models, which TLC
evaluates in each run.

`InferenceQueueProofs`, for every finite or infinite `Requests`, every `Timed` and
every `MaxPending` (zero included), from `ConstantsAssumption` alone, in three parts.

1. The accounting: `QueueTypes`, `PermitsConserved`, `ActiveIsExact` and
   `SendNeverFull`. The inductive invariant is `Accounting`: the types, the two
   counting equations, that the worker holds a job exactly when it is not idle, and
   that only finitely many clients are on their way into the channel. The equations
   need that last conjunct because a cardinality only goes up and down by one on a
   finite set; the types need the equations, since `active - 1` is a natural number
   only because the abandoned or finished job is among the counted ones; and
   `SendNeverFull` follows since a client with a permit that is not in the channel
   leaves at least one slot to itself.
2. The callers: `NobodyWaitsInVain`, `AnswersComeAfterTheCount` and
   `TheGoneAreSkipped`. `IInv` adds that a job is in one place at most (`OnePlace`)
   and, request by request (`Consistent`), who has left no trace yet, when the two
   receivers are closed, what was sent for a job by the place where it is, that a
   result that was sent is that of the job, and that what is waited for will come.
   The count of a job goes down before its response is sent, so a caller with an
   answer is in no place of the queue.
3. The service: `QueueImplementsService`. `Line` and `Desk` map the channel and the
   worker to the line and the desk of `FifoService`. Its steps are `Admit`,
   `RefuseFull` (`Refuse`), `TrySend` (`Join`), `DropPermit` (`Call`), `SendStarted`
   (`Start`), `Abandon` (`Skip`), `JobEnds` (`Perform`), `Receive` (`Deliver`), and
   `TimeOut` and `Disconnect` (`GiveUp`); the others are stutters. That who takes a
   permit finds a free place there, and who is refused does not, is
   `PermitAccounting` once more.

`VadSegmenterProofs`, for pushes of any size, any verdicts of Silero and every
configuration that `ConfigAssumption` allows: all six properties of the run, and
`EveryCallIsFramed`, the contract by which `StreamingSession` takes its segmenter: the
events of one call are framed by themselves. The invariant `Good` relates the
segmenter, the log of all events and the speech heard: every event of the log follows
from the one before it (`Chain`), the last event tells where the segmenter stands
(`Fits`), no phrase is open for too long (`Shape`), and the speech of the phrases put
together is what was heard (`Holds`). `SpeechWindow` and `SilentWindow` are its
preservation by one window, the former along the order of the statements: forced cut,
start, sample. A push judges any number of windows in one step, through a recursive
function; `EveryWindow` shows that none of them breaks `Good`, by the least window
that would. `SequenceLemmas` treats `FlattenSeq` in the same way: the library's
theorem on well-founded orders that does without an operator parameter gives a least
counterexample, which stands in for induction.

`StreamingSessionProofs`, for any sockets, capacities, texts and bounds, from
`SessionAssumption`, in two parts.

1. The guard: `OneSessionAtATime` and `AtMostOneLateDecode`. The inductive invariant
   `IInv` adds to the properties that a live session task has a handler in
   `serving`, `stopping` or `draining` (`Ownership`), and that the cancel flag is
   set exactly past the select, where alone a decode can be late, and never a second
   one (`Cancellation`). A decode begins in two places only, which have a lemma
   of their own; all other steps of the task fall under the frame lemma `Unmoved`.
2. What the client is told: `TypesHold`, `EventsAreOrdered` (`Protocol`) and
   `ClientHasATranscript`. `Protocol` speaks of events in the channel, but the task
   decides on them earlier, and sends one or two at a time; so `Good` keeps what is in
   the outbox (`Box`) and a `Ledger`: the phrases that are started, stopped, committed
   and completed in the channel are all that were begun, without the open one, the one
   that is being decoded and what the outbox still owes. `Stage` says that the rest of
   a segmenter batch fits the open phrase; it needs the batch to be framed, which is
   where `EveryCallIsFramed` comes in. `Wrote` says that the deltas of the open phrase,
   with the one in the outbox, are what `emitted` remembers, so that a delta, which is
   the rest of a text after `emitted`, makes them a text again. Once a session was
   cancelled, `Stage` asks nothing of its batch: what is left of it is dropped.

`RequestPipelineProofs`, for any requests, limit, models and preload list, from
`PipelineAssumption` and `DecodeAssumption` (a session decodes with an enabled
whisper model, as `default_streaming_model` chooses it): the types and all five
safety properties of the run. The inductive invariant has `Places` (a request is
in one place of the queue at a time, or a second run could overwrite its
outcome), `Known` (who is in the queue has no result and no final answer yet, and
passed the checks; a result agrees with the outcome), `Progress` (what each point
of the closure says of its kind and of the caches) and `Caches` (`loads` counts
exactly what is cached and what is loaded and at hand). `LoadedOnce` needs all of
them. The look-up, the load and the insertion are three steps, between which other
requests arrive and give up; that no other job loads or clears in this gap follows
from there being one desk, and is stated as `GapUndisturbed`: what the look-up did not
find is not in the cache until this job inserts it. `NoSecondLoad` proves both.

`ModelInstallerProofs`, for any manifest, other files, number of retries and of
runs, from `InstallerAssumption`: the types, `SuccessMeansInstalled`,
`OnlyFaultsFail`, `GoodStaysGood` and `OnlyVerified`. The invariant says that the
entry at hand is not good yet and what is moved is (`AtHand`), that every file is
good or still to come (`Covered`), and that an error has a cause (`Blamed`). The
two action properties rest on the lemma `Changes`: which steps touch a file of the
manifest, and to what.

`LogFilesProofs`, for any number and size of files, lengths, records and faults, from
`LogAssumption`: the types, `NewestKept`, `FilesBounded` and `EachFaultCostsOneFile`.
The invariant `IInv` adds what each point of an operation knows (`Control`: a rotation
works on a closed file, and the slot that a file is renamed to is free, so that no
file but the oldest is lost), that `current_size` is the length of the active file
when that was counted in full (`Belief`), and that a file without bytes holds no
record (`NoRecordInEmpty`). `FilesBounded` needs the last two: a record that does not
fit is only appended to a file that `current_size` says is empty.
`EachFaultCostsOneFile` has an invariant of its own, `Costs`: the slots that would
have a file if nothing had failed (`Missing`) are at most as many as there were
faults. In the middle of a rotation a slot is empty on purpose and those above it are
already where the next rotation has them; and a reopening that fails costs its file
only when the next rotation finds no active file, which is `Debt` until then. Each
step keeps the sum (`Paid`), or pays for one slot with a fault (`PaidForOne`), or
moves a gap up by one (`Moved`).

`WindowsServiceProofs`, for any operators, clients and bounds, from
`ServiceAssumption`: the types, `StoppedIsQuiet` and `InstalledIsWhole`. The
invariant says which status the manager has for each place of the last process and
that all earlier processes are past their report (`StatusTrue`), that a request
belongs to a process that still answers, or is a realtime session of one that has
returned from the server (`RequestsServed`), and that an abandoned job belongs to a
process that has not exited (`OrphansRun`). An install is whole because its open
handle keeps the entry from being replaced by a fresh one (`HandlesHold`).

Only model-checked: liveness (`EveryCallReturns`, `CapacityComesBack`,
`InputGetsThrough`, `ReleasedUnlessWedged`, `EveryRequestAnswered`, `RunEnds`,
`StopEnds`). It rests on fairness and `ENABLED`, which the installed provers do not
handle.

## 5. Plan

Done in order: the queue with its service, the segmenter, the session, the
request pipeline with the model caches, the installer, the log files and the
Windows service, a proof module for each, and with them every safety property of the
runs and the refinement of `FifoService`. What is left to prove:

1. What `RequestPipeline` takes from the queue, stated of `FifoService` itself: who
   is admitted is in one place, and is served in the order of admission.
2. What the liveness properties need of safety: a session that is live and not
   wedged, and a queue with somebody in it, always have a step of their own that can
   be taken, stated as the guards of the actions without `ENABLED`.

### Not modelled

- Configuration (`src/config.rs`): parsing and one validation at the start, no
  state. The bounds it checks are the assumptions on the constants.
- Audio decoding, resampling and tokenizer (`src/audio.rs`, `src/resample.rs`,
  `src/bge_tokenizer.rs`): numeric and text functions over buffers, without state
  or interaction; whether they are right is a question about numbers, for which
  their unit tests are the better tool. Here they are inputs of any value.
- OpenVINO and GenAI bindings, the native bridge: foreign code behind one call
  each; the call is an operation that returns or fails.
- Command line and admin client: dispatch; the commands are modelled where they
  act (`WindowsService`, `ModelInstaller`, `RequestPipeline`).
- Of the HTTP API: the layout of answers, multipart fields, subtitles and `/logs`,
  which read or format and change no state.
- Packaging, scripts, workflows: no run-time behaviour.

## 6. Running it

`tlc -config MCQueue.cfg InferenceQueue` and so on, module and configuration as in
`PROJECT.json`; a model that has no `MC` module is run itself. `tlapm` on each module
whose name ends in `Proofs` checks the proofs. Definitions whose comment says "Mutant"
are wrong versions of the definition below them; each property fails when its mutant
takes that place, which shows that the property depends on the code it is about.
