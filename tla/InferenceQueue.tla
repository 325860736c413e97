--------------------------- MODULE InferenceQueue ---------------------------
(***************************************************************************)
(* src/queue.rs: the one queue in front of the NPU.  A request takes a     *)
(* semaphore permit, is counted in `active`, goes into a bounded tokio     *)
(* channel and waits on two oneshot channels: `started`, which the worker  *)
(* signals before it runs the operation, and `response`, which carries the *)
(* result.  The client may time out while it waits for `started`, and its  *)
(* future may be dropped (the HTTP client went away) at any await.  The    *)
(* worker is one task; the tokio runtime has several threads, so the steps *)
(* of clients and worker interleave freely between two operations on       *)
(* shared state.  One action below is one such operation.                  *)
(***************************************************************************)
EXTENDS Naturals, Sequences, FiniteSets

CONSTANTS Requests,    \* the calls of submit and submit_with_timeout
          Timed,       \* those with a timeout: submit_with_timeout, not zero
          MaxPending,  \* InferenceQueue::new(max_pending)
          NoJob        \* the worker holds no job

ASSUME ConstantsAssumption ==
  /\ Timed \subseteq Requests
  /\ MaxPending \in Nat
  /\ NoJob \notin Requests

VARIABLES
  pc,        \* where each submit_inner future stands
  answer,    \* what it returned
  permits,   \* free permits of the semaphore `capacity`
  channel,   \* the mpsc channel from clients to the worker
  active,    \* the counter that pending_len reads
  worker,    \* the worker task: [phase, job]
  started,   \* the oneshot that tells a client that its job starts
  response,  \* the oneshot that carries the result
  job        \* the operation of each request: fresh, running or its result

clientVars == <<pc, answer>>
queueVars  == <<permits, channel, active>>
workerVars == <<worker, job>>
vars == <<pc, answer, permits, channel, active, worker, started, response, job>>

Results == {"ok", "err"}

(***************************************************************************)
(* mpsc::channel(max_pending.max(1)): a channel may not have capacity 0.   *)
(***************************************************************************)
ChannelCapacity == IF MaxPending = 0 THEN 1 ELSE MaxPending

IdleWorker == [phase |-> "idle", job |-> NoJob]

TypeOK ==
  /\ pc \in [Requests -> {"idle", "admitted", "counted", "waiting",
                          "awaiting", "done", "gone"}]
  /\ answer \in [Requests -> {"none", "Full", "Closed", "Timeout"} \union Results]
  /\ permits \in Nat
  /\ channel \in Seq(Requests)
  /\ active \in Nat
  /\ worker \in [phase : {"idle", "received", "starting", "abandoned",
                          "running", "ran", "answering"},
                 job : Requests \union {NoJob}]
  /\ started \in [Requests -> {"open", "sent", "closed"}]
  /\ response \in [Requests -> {"open", "closed", "dropped"} \union Results]
  /\ job \in [Requests -> {"fresh", "running"} \union Results]

Init ==
  /\ pc = [r \in Requests |-> "idle"]
  /\ answer = [r \in Requests |-> "none"]
  /\ permits = MaxPending
  /\ channel = <<>>
  /\ active = 0
  /\ worker = IdleWorker
  /\ started = [r \in Requests |-> "open"]
  /\ response = [r \in Requests |-> "open"]
  /\ job = [r \in Requests |-> "fresh"]

-----------------------------------------------------------------------------
(* The client: the future that submit_inner returns. *)

\* The future returns what: its receivers are dropped with it.
Return(r, what) ==
  /\ pc' = [pc EXCEPT ![r] = "done"]
  /\ answer' = [answer EXCEPT ![r] = what]

\* Both receivers go away, whatever was sent on them.
DropReceivers(r) ==
  /\ started' = [started EXCEPT ![r] = "closed"]
  /\ response' = [response EXCEPT ![r] = "closed"]

\* Mutant of Admit: there is no guard.
AdmitAlways(r) ==
  /\ pc[r] = "idle"
  /\ permits' = IF permits > 0 THEN permits - 1 ELSE 0
  /\ pc' = [pc EXCEPT ![r] = "admitted"]
  /\ UNCHANGED <<answer, channel, active, workerVars, started, response>>

\* try_acquire_owned: a permit, or QueueError::Full.
Admit(r) ==
  /\ pc[r] = "idle" /\ permits > 0
  /\ permits' = permits - 1
  /\ pc' = [pc EXCEPT ![r] = "admitted"]
  /\ UNCHANGED <<answer, channel, active, workerVars, started, response>>

RefuseFull(r) ==
  /\ pc[r] = "idle" /\ permits = 0
  /\ Return(r, "Full")
  /\ UNCHANGED <<queueVars, workerVars, started, response>>

\* active.fetch_add
Count(r) ==
  /\ pc[r] = "admitted"
  /\ active' = active + 1
  /\ pc' = [pc EXCEPT ![r] = "counted"]
  /\ UNCHANGED <<answer, permits, channel, workerVars, started, response>>

\* try_send.  On a full channel the code takes the count back and drops the
\* job with its permit; TrySendNeverFull shows that this never happens.
TrySend(r) ==
  /\ pc[r] = "counted"
  /\ IF Len(channel) < ChannelCapacity
       THEN /\ channel' = Append(channel, r)
            /\ pc' = [pc EXCEPT ![r] = "waiting"]
            /\ UNCHANGED <<answer, permits, active>>
       ELSE /\ active' = active - 1
            /\ permits' = permits + 1
            /\ Return(r, "Full")
            /\ UNCHANGED channel
  /\ UNCHANGED <<workerVars, started, response>>

\* The started branch of the select, or of the await without a timeout.
SeeStarted(r) ==
  /\ pc[r] = "waiting" /\ started[r] = "sent"
  /\ pc' = [pc EXCEPT ![r] = "awaiting"]
  /\ UNCHANGED <<answer, queueVars, workerVars, started, response>>

\* Mutant of TimeOut: the client takes its own count back.
TimeOutUncounts(r) ==
  /\ pc[r] = "waiting" /\ r \in Timed
  /\ Return(r, "Timeout")
  /\ DropReceivers(r)
  /\ active' = active - 1
  /\ UNCHANGED <<permits, channel, workerVars>>

\* The timer branch.  tokio::select! picks at random when both branches are
\* ready, and the worker may send `started` after the choice and before the
\* receiver is dropped: the timeout may win although `started` was sent.
TimeOut(r) ==
  /\ pc[r] = "waiting" /\ r \in Timed
  /\ Return(r, "Timeout")
  /\ DropReceivers(r)
  /\ UNCHANGED <<queueVars, workerVars>>

\* response_rx.await: the result, or Closed if the sender was dropped.
Receive(r) ==
  /\ pc[r] = "awaiting" /\ response[r] # "open"
  /\ Return(r, IF response[r] \in Results THEN response[r] ELSE "Closed")
  /\ DropReceivers(r)
  /\ UNCHANGED <<queueVars, workerVars>>

\* axum drops the handler's future when its client disconnects: only at an
\* await, so never between the permit and the try_send.
Disconnect(r) ==
  /\ pc[r] \in {"waiting", "awaiting"}
  /\ pc' = [pc EXCEPT ![r] = "gone"]
  /\ DropReceivers(r)
  /\ UNCHANGED <<answer, queueVars, workerVars>>

-----------------------------------------------------------------------------
(* The worker: the task that InferenceQueue::new spawns. *)

WorkerMoves(from, to) ==
  /\ worker.phase = from
  /\ worker' = IF to = "idle" THEN IdleWorker ELSE [worker EXCEPT !.phase = to]

Recv ==
  /\ worker.phase = "idle" /\ channel # <<>>
  /\ worker' = [phase |-> "received", job |-> Head(channel)]
  /\ channel' = Tail(channel)
  /\ UNCHANGED <<clientVars, permits, active, started, response, job>>

\* Mutant of DropPermit: the permit is forgotten, not dropped.
ForgetPermit ==
  /\ WorkerMoves("received", "starting")
  /\ UNCHANGED <<clientVars, queueVars, started, response, job>>

\* drop(_permit), before the job runs: a running job is not a waiting one.
DropPermit ==
  /\ WorkerMoves("received", "starting")
  /\ permits' = permits + 1
  /\ UNCHANGED <<clientVars, channel, active, started, response, job>>

\* started_tx.send(()): it fails when the client dropped its receiver.
SendStarted ==
  /\ WorkerMoves("starting", "running")
  /\ started[worker.job] = "open"
  /\ started' = [started EXCEPT ![worker.job] = "sent"]
  /\ job' = [job EXCEPT ![worker.job] = "running"]
  /\ UNCHANGED <<clientVars, queueVars, response>>

\* Mutant of FailStarted: let _ = started_tx.send(()).
IgnoreFailedStart ==
  /\ WorkerMoves("starting", "running")
  /\ started[worker.job] = "closed"
  /\ job' = [job EXCEPT ![worker.job] = "running"]
  /\ UNCHANGED <<clientVars, queueVars, started, response>>

FailStarted ==
  /\ WorkerMoves("starting", "abandoned")
  /\ started[worker.job] = "closed"
  /\ UNCHANGED <<clientVars, queueVars, started, response, job>>

\* Mutant of Abandon: continue without the fetch_sub.
AbandonCounted ==
  /\ WorkerMoves("abandoned", "idle")
  /\ response' = [response EXCEPT ![worker.job] = IF @ = "open" THEN "dropped" ELSE @]
  /\ UNCHANGED <<clientVars, queueVars, started, job>>

\* fetch_sub and continue; the response sender is dropped with the job.
Abandon ==
  /\ WorkerMoves("abandoned", "idle")
  /\ active' = active - 1
  /\ response' = [response EXCEPT ![worker.job] = IF @ = "open" THEN "dropped" ELSE @]
  /\ UNCHANGED <<clientVars, permits, channel, started, job>>

\* spawn_blocking(...).await: a panic of the operation is an Err like others.
JoinResult(end) == IF end = "ok" THEN "ok" ELSE "err"

\* Mutants of JobEnds: a panic is not joined and takes the response with it;
\* a panic ends the worker; the response is sent before the count goes down.
PanicDropsResponse ==
  /\ WorkerMoves("running", "ran")
  /\ \/ /\ job' = [job EXCEPT ![worker.job] = "ok"]
        /\ UNCHANGED response
     \/ /\ job' = [job EXCEPT ![worker.job] = "err"]
        /\ response' = [response EXCEPT ![worker.job] = IF @ = "open" THEN "dropped" ELSE @]
  /\ UNCHANGED <<clientVars, queueVars, started>>

PanicEndsWorker ==
  /\ worker.phase = "running"
  /\ \E to \in {"ran", "dead"} : WorkerMoves("running", to)
  /\ job' = [job EXCEPT ![worker.job] = "err"]
  /\ UNCHANGED <<clientVars, queueVars, started, response>>

RespondFirst ==
  /\ WorkerMoves("running", "ran")
  /\ \E result \in Results :
       /\ job' = [job EXCEPT ![worker.job] = result]
       /\ response' = [response EXCEPT ![worker.job] = IF @ = "open" THEN result ELSE @]
  /\ UNCHANGED <<clientVars, queueVars, started>>

JobEnds ==
  /\ WorkerMoves("running", "ran")
  /\ \E end \in {"ok", "err", "panic"} :
       job' = [job EXCEPT ![worker.job] = JoinResult(end)]
  /\ UNCHANGED <<clientVars, queueVars, started, response>>

\* worker_active.fetch_sub, before the response is sent.
Uncount ==
  /\ WorkerMoves("ran", "answering")
  /\ active' = active - 1
  /\ UNCHANGED <<clientVars, permits, channel, started, response, job>>

\* let _ = response_tx.send(result): nobody may be listening any more.
Respond ==
  /\ WorkerMoves("answering", "idle")
  /\ response' = [response EXCEPT ![worker.job] =
                    IF @ = "open" THEN job[worker.job] ELSE @]
  /\ UNCHANGED <<clientVars, queueVars, started, job>>

WorkerStep == Recv \/ DropPermit \/ SendStarted \/ FailStarted \/ Abandon
              \/ JobEnds \/ Uncount \/ Respond

Next ==
  \/ WorkerStep
  \/ \E r \in Requests :
       \/ Admit(r) \/ RefuseFull(r) \/ Count(r) \/ TrySend(r)
       \/ SeeStarted(r) \/ TimeOut(r) \/ Receive(r) \/ Disconnect(r)

Spec == Init /\ [][Next]_vars

\* tokio polls a task that is ready: the worker keeps running, operations
\* return (or panic), and a future that was polled once is polled again.
\* Nothing makes a timer fire or a client go away, or arrive at all.
ClientStep(r) == Count(r) \/ TrySend(r) \/ SeeStarted(r) \/ Receive(r)
FairSpec == /\ Spec
            /\ WF_vars(WorkerStep)
            /\ \A r \in Requests : WF_vars(ClientStep(r))

-----------------------------------------------------------------------------
(* Properties *)

Arriving == {r \in Requests : pc[r] \in {"admitted", "counted"}}
Counting == {r \in Requests : pc[r] = "counted"}
InChannel(r) == \E i \in DOMAIN channel : channel[i] = r
WorkerIn(phases, r) == worker.phase \in phases /\ worker.job = r

\* A request that `active` includes.
Counted(r) == \/ pc[r] = "counted"
              \/ InChannel(r)
              \/ WorkerIn({"received", "starting", "abandoned", "running", "ran"}, r)

\* Every permit is free, or with a client on its way into the channel, or in
\* the channel, or with the job that the worker has just received: no order
\* of arrivals, timeouts and disconnects leaks one or creates one.
PermitAccounting ==
  permits + Cardinality(Arriving) + Len(channel)
    + (IF worker.phase = "received" THEN 1 ELSE 0) = MaxPending

\* The counter that /health shows as the queue's length is the number of
\* requests that are queued or running, the abandoned ones included until
\* the worker has thrown them away.
ActiveAccounting ==
  active = Cardinality(Counting) + Len(channel)
    + (IF worker.phase \in {"idle", "answering"} THEN 0 ELSE 1)

\* The channel has a slot for whoever holds a permit: the Full that try_send
\* can return after a permit was granted is never returned.
TrySendNeverFull ==
  \A r \in Requests : pc[r] = "counted" => Len(channel) < ChannelCapacity

\* Whoever waits is waited for: its job is in the channel or with the worker,
\* or what it waits for was sent.  So no caller is told Closed.
NobodyStranded ==
  \A r \in Requests :
    /\ pc[r] = "waiting" =>
         InChannel(r) \/ WorkerIn({"received", "starting"}, r) \/ started[r] = "sent"
    /\ pc[r] \in {"waiting", "awaiting"} /\ started[r] = "sent" =>
         WorkerIn({"running", "ran", "answering"}, r) \/ response[r] \in Results
    /\ answer[r] # "Closed"

\* A client that has its answer and then reads /health does not find its own
\* request in the queue's length (the order of lines 84 and 85).
AnsweredNotCounted ==
  \A r \in Requests : answer[r] \in Results \cup {"Full"} => ~Counted(r)

\* The operation of a request whose client gave up, by timeout or disconnect,
\* before the worker started it is never run.
GaveUp(r) == answer[r] = "Timeout" \/ pc[r] = "gone"
NoWorkForTheGone ==
  [][\A r \in Requests : GaveUp(r) /\ job[r] = "fresh" => job'[r] = "fresh"]_vars

\* The queue is a bounded first-come, first-served service: see FifoService.  A
\* job that the worker has just received, with its permit, is still in the line.
Line == IF worker.phase = "received" THEN <<worker.job>> \o channel ELSE channel
Desk == CASE worker.phase \in {"starting", "abandoned"} ->
               [phase |-> "called", job |-> worker.job]
          [] worker.phase = "running" -> [phase |-> "busy", job |-> worker.job]
          [] OTHER -> [phase |-> "free", job |-> NoJob]
Performed == [r \in Requests |-> IF job[r] \in Results THEN job[r] ELSE "none"]
Verdict == [r \in Requests |-> CASE answer[r] = "Full" -> "refused"
                                  [] GaveUp(r) -> "gaveUp"
                                  [] OTHER -> answer[r]]

Service == INSTANCE FifoService WITH
  Limit <- MaxPending, Nobody <- NoJob, admitted <- Arriving, line <- Line,
  desk <- Desk, performed <- Performed, verdict <- Verdict

Refinement == Service!Spec

\* A submission that entered the queue returns, unless its client goes away.
EveryCallReturns ==
  \A r \in Requests :
    pc[r] \in {"admitted", "counted", "waiting", "awaiting"} ~> pc[r] \in {"done", "gone"}

\* Whatever times out, disconnects or panics, the whole capacity comes back
\* and /health reports an empty queue once the submissions stop.
CapacityComesBack == <>[](permits = MaxPending /\ active = 0)
=============================================================================
