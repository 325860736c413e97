-------------------------- MODULE RequestPipeline --------------------------
(***************************************************************************)
(* The requests that run models, from src/http.rs to the executors         *)
(* (src/inference.rs NativeWhisperExecutor, src/bge_embeddings.rs) and     *)
(* back.  A handler validates its request and submits a job to the queue;  *)
(* the queue is taken by its promise, FifoService, which InferenceQueue    *)
(* implements.  The worker runs the job step by step, while other requests *)
(* arrive, give up or are answered and /health reads the lists.  Models    *)
(* stay cached until an unload job clears both executors.  The decodes of  *)
(* a realtime session are jobs of the same queue.                          *)
(***************************************************************************)
EXTENDS Naturals, Sequences, FiniteSets

CONSTANTS
  Requests, Limit, Nobody,  \* as in FifoService
  Models,     \* the models of the configuration that are enabled
  Path,       \* their directories; two models may share one
  Type,       \* "whisper" or "embedding"
  Preload,    \* the models with preload = true, in the order of the file
  Inputs      \* what requests ask for: [kind, model, body]

ASSUME PipelineAssumption ==
  /\ Limit \in Nat /\ Nobody \notin Requests
  /\ Type \in [Models -> {"whisper", "embedding"}]
  /\ Preload \in Seq(Models)

VARIABLES
  admitted, line, desk, performed, verdict,  \* the queue
  server,     \* serve_until: preloading, serving, or failed to start
  preload,    \* the models still to be preloaded
  openvino,   \* OpenVinoStatus, found at the start
  asked,      \* what each request asks for
  reply,      \* the answer's error code, or "ok"
  sessions,   \* NativeWhisperExecutor.sessions: the cached paths
  names,      \* NativeWhisperExecutor.loaded_models: the ids /health lists
  compiled,   \* BgeEmbeddingExecutor.loaded: path and id of each entry
  current,    \* AppState.current_request
  job,        \* where the worker is in the closure that it runs
  outcome,    \* what became of the operation of each request
  loads       \* history: loads of each key of a cache since it was last unloaded

Queue == INSTANCE FifoService

queueVars  == <<admitted, line, desk, performed, verdict>>
serverVars == <<server, preload, openvino>>
cacheVars  == <<sessions, names, compiled, loads>>
jobVars    == <<current, job, outcome>>
vars == <<queueVars, serverVars, asked, reply, cacheVars, jobVars>>

NotAsked == [kind |-> "none", model |-> "none", body |-> "none"]
Paths == {Path[m] : m \in Models}
Key(m) == <<Type[m], Path[m]>>
Keys == {Key(m) : m \in Models}

\* The type of model that an input needs.
Wants(kind) == IF kind = "embed" THEN "embedding" ELSE "whisper"

\* A session decodes with the first whisper model that is enabled.
ASSUME DecodeAssumption ==
  \A q \in Inputs : q.kind = "decode" => q.model \in Models /\ Type[q.model] = "whisper"

\* "rejected" is axum's own answer, by an extractor, which has no error code.
Codes == {"ok", "payload_too_large", "rejected", "model_not_found", "invalid_request",
          "invalid_audio_format", "openvino_unavailable", "npu_unavailable",
          "queue_full", "queue_timeout", "model_load_failed",
          "inference_failed", "internal_error"}

Init ==
  /\ Queue!Init
  /\ server = "preloading" /\ preload = Preload
  /\ openvino \in {"ready", "no_runtime", "no_npu"}
  /\ asked = [r \in Requests |-> NotAsked]
  /\ reply = [r \in Requests |-> "none"]
  /\ sessions = {} /\ names = {} /\ compiled = {}
  /\ current = Nobody /\ job = "idle"
  /\ outcome = [r \in Requests |-> "none"]
  /\ loads = [k \in Keys |-> 0]

TypeOK ==
  /\ server \in {"preloading", "serving", "failed"}
  /\ asked \in [Requests -> Inputs \union {NotAsked}]
  /\ reply \in [Requests -> Codes \union {"none", "gone"}]
  /\ sessions \subseteq Paths /\ names \subseteq Models
  /\ compiled \subseteq [path : Paths, id : Models]
  /\ current \in Requests \union {Nobody}
  /\ job \in {"idle", "find", "load", "insert", "infer", "list", "clear", "clearNames", "end"}
  /\ outcome \in [Requests -> {"none", "done", "load_failed", "infer_failed", "panic"}]

-----------------------------------------------------------------------------
(* The caches. *)

\* Mutant of Cached: the list of names is asked, which a model whose first
\* inference failed is not on.
ListedNotCached(m) ==
  IF Type[m] = "whisper" THEN m \in names ELSE \E e \in compiled : e.path = Path[m]

\* sessions.contains_key, loaded.get: the key is the path.
Cached(m) ==
  IF Type[m] = "whisper" THEN Path[m] \in sessions
                         ELSE \E e \in compiled : e.path = Path[m]

\* create_session; read_model, compile_model and the tokenizer.
Load(m) == loads' = [loads EXCEPT ![Key(m)] = @ + 1]

\* insert; or_insert_with, which keeps an entry that is there by now.
Insert(m) ==
  IF Type[m] = "whisper"
    THEN sessions' = sessions \union {Path[m]} /\ UNCHANGED compiled
    ELSE /\ compiled' = IF \E e \in compiled : e.path = Path[m]
                          THEN compiled
                          ELSE compiled \union {[path |-> Path[m], id |-> m]}
         /\ UNCHANGED sessions

\* preload_models, before the router exists: an embedding model is loaded, a
\* whisper model transcribes silence, and the first error ends the start.
PreloadNext ==
  /\ server = "preloading" /\ preload # <<>>
  /\ preload' = Tail(preload)
  /\ LET m == Head(preload) IN
       IF Cached(m) THEN UNCHANGED <<sessions, compiled, loads>> ELSE Load(m) /\ Insert(m)
  /\ names' = IF Type[Head(preload)] = "whisper" THEN names \union {Head(preload)} ELSE names
  /\ UNCHANGED <<queueVars, server, openvino, asked, reply, jobVars>>

PreloadFails ==
  /\ server = "preloading" /\ preload # <<>>
  /\ server' = "failed"
  /\ UNCHANGED <<queueVars, preload, openvino, asked, reply, cacheVars, jobVars>>

StartServing ==
  /\ server = "preloading" /\ preload = <<>>
  /\ server' = "serving"
  /\ UNCHANGED <<queueVars, preload, openvino, asked, reply, cacheVars, jobVars>>

-----------------------------------------------------------------------------
(* The handlers. *)

\* What a handler answers before the queue; "none" if it submits a job.  The
\* body limit comes first, for every route; an unload asks nothing else, and a
\* decode is no HTTP request.  Then the extractor refuses what is not JSON or not a
\* multipart request ("unreadable"), and the handler what is wrong inside a
\* multipart body ("malformed").  Silence is answered at once, without the NPU.
Checked(q) ==
  CASE q.kind = "decode" -> "none"
    [] q.body = "large" -> "payload_too_large"
    [] q.kind = "unload" -> "none"
    [] OTHER ->
         CASE q.body = "unreadable" -> "rejected"
           [] q.body = "malformed" -> "invalid_request"
           [] q.model \notin Models \/ Type[q.model] # Wants(q.kind) -> "model_not_found"
           [] q.body = "invalid" -> "invalid_request"
           [] q.body = "notWav" -> "invalid_audio_format"
           [] q.body = "silence" -> "ok"
           [] openvino = "no_runtime" -> "openvino_unavailable"
           [] openvino = "no_npu" -> "npu_unavailable"
           [] OTHER -> "none"

\* A request arrives.  A session is only served when the NPU is ready.
Arrive(r, q) ==
  /\ server = "serving" /\ asked[r] = NotAsked
  /\ q.kind = "decode" => openvino = "ready"
  /\ asked' = [asked EXCEPT ![r] = q]
  /\ reply' = [reply EXCEPT ![r] = Checked(q)]
  /\ UNCHANGED <<queueVars, serverVars, cacheVars, jobVars>>

\* The submission reaches the queue, in the steps that FifoService names.
Submit(r) ==
  /\ asked[r] # NotAsked /\ reply[r] = "none"
  /\ Queue!Admit(r) \/ Queue!Refuse(r) \/ Queue!Join(r)
  /\ UNCHANGED <<serverVars, asked, reply, cacheVars, jobVars>>

\* The timer of submit_with_timeout: not for an unload, nor for a decode.
TimeOut(r) ==
  /\ asked[r].kind \in {"embed", "audio"} /\ reply[r] = "none"
  /\ Queue!GiveUp(r)
  /\ reply' = [reply EXCEPT ![r] = "queue_timeout"]
  /\ UNCHANGED <<serverVars, asked, cacheVars, jobVars>>

\* The client disconnects and its handler is dropped, as `ai2npu unload` does
\* after the 30 s that its HTTP client waits (src/admin_client.rs); a session's
\* decode is never dropped, its handler awaits it.
Disconnect(r) ==
  /\ asked[r].kind \notin {"none", "decode"} /\ reply[r] = "none"
  /\ Queue!GiveUp(r)
  /\ reply' = [reply EXCEPT ![r] = "gone"]
  /\ UNCHANGED <<serverVars, asked, cacheVars, jobVars>>

\* Mutant of ErrorCode: the wrapper of a load error is lost on the way.
UntypedErrorCode(what) ==
  CASE what = "infer_failed" -> "inference_failed" [] OTHER -> "internal_error"

\* queue_error_to_api: by the type of the error; a panic has neither.
ErrorCode(what) ==
  CASE what = "load_failed" -> "model_load_failed"
    [] what = "infer_failed" -> "inference_failed"
    [] OTHER -> "internal_error"

\* The result arrives, or the queue was full.
Answer(r) ==
  /\ reply[r] = "none"
  /\ \/ /\ verdict[r] = "refused" /\ UNCHANGED queueVars
        /\ reply' = [reply EXCEPT ![r] = "queue_full"]
     \/ /\ Queue!Deliver(r)
        /\ reply' = [reply EXCEPT ![r] =
                       IF performed[r] = "ok" THEN "ok" ELSE ErrorCode(outcome[r])]
  /\ UNCHANGED <<serverVars, asked, cacheVars, jobVars>>

-----------------------------------------------------------------------------
(* The worker and the job that it runs. *)

\* It calls the next request to its desk, starts it or skips it.
Fetch ==
  /\ Queue!Call \/ Queue!Start \/ Queue!Skip
  /\ UNCHANGED <<serverVars, asked, reply, cacheVars, jobVars>>

Doing(at) == desk.phase = "busy" /\ job = at
Kind == asked[desk.job].kind
Model == asked[desk.job].model

\* CurrentRequestGuard::new; a decode of a session has no guard.
Begin ==
  /\ Doing("idle") /\ outcome[desk.job] = "none"
  /\ job' = IF Kind = "unload" THEN "clear" ELSE "find"
  /\ current' = IF Kind = "decode" THEN current ELSE desk.job
  /\ UNCHANGED <<queueVars, serverVars, asked, reply, cacheVars, outcome>>

Goes(at) == job' = at
Becomes(what) == Goes("end") /\ outcome' = [outcome EXCEPT ![desk.job] = what]

\* Is the model in the cache?  BgeEmbeddingExecutor releases its lock after this,
\* and takes it again to insert; NativeWhisperExecutor holds one from here to the
\* end of the transcription.
LookUp ==
  /\ Doing("find")
  /\ Goes(IF Cached(Model) THEN "infer" ELSE "load")
  /\ UNCHANGED <<queueVars, serverVars, asked, reply, cacheVars, current, outcome>>

\* The model is loaded, or cannot be: then nothing is kept, and the next request
\* tries again.
LoadModel ==
  /\ Doing("load")
  /\ \/ Load(Model) /\ Goes("insert") /\ UNCHANGED outcome
     \/ Becomes("load_failed") /\ UNCHANGED loads
  /\ UNCHANGED <<queueVars, serverVars, asked, reply, sessions, compiled, names, current>>

InsertModel ==
  /\ Doing("insert")
  /\ Insert(Model) /\ Goes("infer")
  /\ UNCHANGED <<queueVars, serverVars, asked, reply, names, loads, current, outcome>>

\* session.transcribe; tokenizer.encode and infer.
Infer ==
  /\ Doing("infer")
  /\ \/ Kind # "embed" /\ Goes("list") /\ UNCHANGED outcome
     \/ Kind = "embed" /\ Becomes("done")
     \/ Becomes("infer_failed")
  /\ UNCHANGED <<queueVars, serverVars, asked, reply, cacheVars, current>>

\* loaded.push, after a transcription that succeeded.
ListName ==
  /\ Doing("list")
  /\ names' = names \union {Model}
  /\ Becomes("done")
  /\ UNCHANGED <<queueVars, serverVars, asked, reply, sessions, compiled, loads, current>>

\* A panic in the model's code unwinds the closure; poisoned locks are recovered.
Panic ==
  /\ Doing("load") \/ Doing("infer")
  /\ Becomes("panic")
  /\ UNCHANGED <<queueVars, serverVars, asked, reply, cacheVars, current>>

Unloaded(types) == [k \in Keys |-> IF k[1] \in types THEN 0 ELSE loads[k]]

\* Mutant of Clear: the sessions stay, since a clone of one may be in use.
ClearCompiled ==
  /\ Doing("clear")
  /\ Goes("clearNames")
  /\ compiled' = {}
  /\ loads' = Unloaded({"embedding"})
  /\ UNCHANGED <<queueVars, serverVars, asked, reply, names, sessions, current, outcome>>

\* Both unload_all, up to the list of names, which has a lock of its own.
Clear ==
  /\ Doing("clear")
  /\ Goes("clearNames")
  /\ compiled' = {} /\ sessions' = {}
  /\ loads' = Unloaded({"whisper", "embedding"})
  /\ UNCHANGED <<queueVars, serverVars, asked, reply, names, current, outcome>>

\* Mutant of ClearNames: the names stay.
KeepNames ==
  /\ Doing("clearNames")
  /\ Becomes("done")
  /\ UNCHANGED <<queueVars, serverVars, asked, reply, cacheVars, current>>

ClearNames ==
  /\ Doing("clearNames")
  /\ names' = {}
  /\ Becomes("done")
  /\ UNCHANGED <<queueVars, serverVars, asked, reply, sessions, compiled, loads, current>>

Result(r) == IF outcome[r] = "done" THEN "ok" ELSE "err"

\* Mutant of Finish: current_request is reset by the last line of the closure,
\* which an error or a panic never reaches.
ResetAtTheEnd ==
  /\ Doing("end")
  /\ Queue!Perform /\ performed'[desk.job] = Result(desk.job)
  /\ job' = "idle"
  /\ current' = IF Result(desk.job) = "ok" /\ Kind # "decode" THEN Nobody ELSE current
  /\ UNCHANGED <<serverVars, asked, reply, cacheVars, outcome>>

\* Mutant of Finish: the worker ends with the panic of the operation.
FinishUnlessPanicked ==
  /\ Doing("end") /\ outcome[desk.job] # "panic"
  /\ Queue!Perform /\ performed'[desk.job] = Result(desk.job)
  /\ job' = "idle"
  /\ current' = IF Kind = "decode" THEN current ELSE Nobody
  /\ UNCHANGED <<serverVars, asked, reply, cacheVars, outcome>>

\* The guard is dropped with the closure, and the queue has the result.
Finish ==
  /\ Doing("end")
  /\ Queue!Perform /\ performed'[desk.job] = Result(desk.job)
  /\ job' = "idle"
  /\ current' = IF Kind = "decode" THEN current ELSE Nobody
  /\ UNCHANGED <<serverVars, asked, reply, cacheVars, outcome>>

WorkerStep == Fetch \/ Begin \/ LookUp \/ LoadModel \/ InsertModel \/ Infer \/ ListName \/ Panic
              \/ Clear \/ ClearNames \/ Finish

Next ==
  \/ PreloadNext \/ PreloadFails \/ StartServing
  \/ WorkerStep
  \/ \E r \in Requests :
       \/ \E q \in Inputs : Arrive(r, q)
       \/ Submit(r) \/ TimeOut(r) \/ Disconnect(r) \/ Answer(r)

Spec == Init /\ [][Next]_vars

\* The worker and the handlers are polled, and an operation ends: see
\* InferenceQueue.  Nobody must arrive, give up, or wait for a timer.
FairSpec ==
  /\ Spec
  /\ WF_vars(WorkerStep)
  /\ \A r \in Requests : WF_vars(Submit(r) \/ Answer(r))

-----------------------------------------------------------------------------
(* Properties *)

\* technical_specification.md 8.4: /health names the HTTP request that runs, and
\* none when none runs: whatever fails or panics, no name stays behind.
CurrentRequestExact ==
  current = IF desk.phase = "busy" /\ job # "idle" /\ Kind # "decode"
              THEN desk.job ELSE Nobody

\* Every whisper model that /health lists as loaded has its session, but for the
\* moment in an unload between the two locks.
ListedIsCached ==
  job # "clearNames" => {Path[m] : m \in names} \subseteq sessions

\* docs/installation-and-operation.md:183: an unload runs after the request before
\* it and clears every cache of both executors, what a failed inference left in
\* them included.
UnloadFreesEverything ==
  [][Doing("end") /\ Kind = "unload" /\ outcome[desk.job] = "done" /\ job' = "idle"
       => sessions' = {} /\ names' = {} /\ compiled' = {}]_vars

\* technical_specification.md 10.1: a model stays loaded until it is unloaded; no
\* directory is loaded onto the NPU a second time by its executor, although the
\* cache may be looked up, and filled, while it is unlocked (bge_embeddings.rs:36-53).
LoadedOnce == \A k \in Keys : loads[k] <= 1

\* technical_specification.md 8.6: the code tells what happened to the operation.
\* A refused request never ran, a load error is told from an inference error and
\* both from a panic, and "ok" means a result (or silence, which needs none).
ReplyIsTrue ==
  \A r \in Requests :
    CASE reply[r] = "ok" -> outcome[r] = "done" \/ asked[r].body = "silence"
      [] reply[r] = "model_load_failed" -> outcome[r] = "load_failed"
      [] reply[r] = "inference_failed" -> outcome[r] = "infer_failed"
      [] reply[r] = "internal_error" -> outcome[r] = "panic"
      [] reply[r] \in {"none", "gone", "queue_timeout"} -> TRUE
      [] OTHER -> outcome[r] = "none"

\* Every request is answered, or its client has gone.
EveryRequestAnswered ==
  \A r \in Requests : asked[r] # NotAsked ~> reply[r] # "none"

\* technical_specification.md:469: /health lists the loaded models.  A session
\* that the executor keeps would then be listed when no job is running.
CachedIsListed ==
  desk.phase = "free" => sessions \subseteq {Path[m] : m \in names}
=============================================================================
