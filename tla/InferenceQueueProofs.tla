------------------------ MODULE InferenceQueueProofs ------------------------
(***************************************************************************)
(* What InferenceQueue promises, for every set of requests and every       *)
(* capacity: first its accounting, then what it owes to each caller, last  *)
(* that it implements FifoService.                                         *)
(*                                                                         *)
(* The invariants of the accounting that the runs check are not inductive  *)
(* alone: that `active` stays a natural number follows from                *)
(* ActiveAccounting, and the cardinalities in both mean something only     *)
(* while the set of arriving clients is finite, which Requests need not be.*)
(***************************************************************************)
EXTENDS InferenceQueue, FiniteSetTheorems, TLAPS

\* A worker that is not idle holds a job, with its result when it has run.
WorkerHoldsJob ==
  /\ worker.phase # "idle" => worker.job \in Requests
  /\ worker.phase \in {"ran", "answering"} => job[worker.job] \in Results

\* The invariant of the accounting.
Accounting ==
  /\ TypeOK
  /\ WorkerHoldsJob
  /\ IsFiniteSet(Arriving)
  /\ PermitAccounting
  /\ ActiveAccounting

-----------------------------------------------------------------------------
(* How the sets of arriving and of counting clients follow pc. *)

\* A client that moves leaves the set of arriving clients or joins it.
LEMMA PcMoves ==
  ASSUME TypeOK, IsFiniteSet(Arriving), NEW r \in Requests, NEW s,
         pc' = [pc EXCEPT ![r] = s]
  PROVE  /\ Arriving' = IF s \in {"admitted", "counted"} THEN Arriving \cup {r}
                                                         ELSE Arriving \ {r}
         /\ Counting' = IF s = "counted" THEN Counting \cup {r} ELSE Counting \ {r}
         /\ IsFiniteSet(Arriving')
<1>1. \A q \in Requests : pc'[q] = IF q = r THEN s ELSE pc[q]
  BY DEF TypeOK
<1>2. Arriving' = IF s \in {"admitted", "counted"} THEN Arriving \cup {r} ELSE Arriving \ {r}
  BY <1>1 DEF Arriving
<1>3. Counting' = IF s = "counted" THEN Counting \cup {r} ELSE Counting \ {r}
  BY <1>1 DEF Counting
<1>4. IsFiniteSet(Arriving \cup {r}) /\ IsFiniteSet(Arriving \ {r})
  BY FS_AddElement, FS_RemoveElement
<1>5. QED
  BY <1>2, <1>3, <1>4

LEMMA CountsAreNatural ==
  ASSUME IsFiniteSet(Arriving)
  PROVE  /\ IsFiniteSet(Counting)
         /\ Cardinality(Arriving) \in Nat
         /\ Cardinality(Counting) \in Nat
<1>1. Counting \in SUBSET Arriving
  BY DEF Arriving, Counting
<1>2. IsFiniteSet(Counting)
  BY <1>1, FS_Subset
<1>3. QED
  BY <1>2, FS_CardinalityType

LEMMA OneMore ==
  ASSUME NEW S, IsFiniteSet(S), NEW x, x \notin S
  PROVE  Cardinality(S \cup {x}) = Cardinality(S) + 1
BY FS_AddElement

LEMMA OneLess ==
  ASSUME NEW S, IsFiniteSet(S), NEW x \in S
  PROVE  Cardinality(S \ {x}) = Cardinality(S) - 1
BY FS_RemoveElement

-----------------------------------------------------------------------------
(* The initial state and every step. *)

\* The initial states.
LEMMA InitAccounting == Init => Accounting
<1> SUFFICES ASSUME Init PROVE Accounting
  OBVIOUS
<1>1. Arriving = {} /\ Counting = {}
  BY DEF Init, Arriving, Counting
<1>2. IsFiniteSet(Arriving) /\ Cardinality(Arriving) = 0 /\ Cardinality(Counting) = 0
  BY <1>1, FS_EmptySet
<1>3. TypeOK
  BY ConstantsAssumption DEF Init, TypeOK, IdleWorker, Results
<1>4. WorkerHoldsJob /\ PermitAccounting /\ ActiveAccounting
  BY <1>2, ConstantsAssumption
     DEF Init, IdleWorker, WorkerHoldsJob, PermitAccounting, ActiveAccounting
<1>5. QED
  BY <1>2, <1>3, <1>4 DEF Accounting

\* A step of a client that changes no set, no counter and no worker.
LEMMA ClientOutside ==
  ASSUME Accounting, TypeOK', NEW r \in Requests, NEW s,
         pc' = [pc EXCEPT ![r] = s],
         pc[r] \notin {"admitted", "counted"}, s \notin {"admitted", "counted"},
         UNCHANGED <<queueVars, workerVars>>
  PROVE  Accounting'
<1>1. Arriving' = Arriving /\ Counting' = Counting
  BY PcMoves DEF Accounting, Arriving, Counting
<1>2. QED
  BY <1>1 DEF Accounting, WorkerHoldsJob, PermitAccounting, ActiveAccounting,
            queueVars, workerVars

LEMMA AdmitAccounting ==
  ASSUME Accounting, NEW r \in Requests, Admit(r)
  PROVE  Accounting'
<1> USE DEF Accounting, Admit, workerVars
<1>1. TypeOK'
  BY DEF TypeOK
<1>2. /\ Arriving' = Arriving \cup {r} /\ Counting' = Counting
      /\ IsFiniteSet(Arriving')
  BY PcMoves DEF Counting
<1>3. Cardinality(Arriving') = Cardinality(Arriving) + 1
  BY <1>2, OneMore DEF Arriving
<1>4. PermitAccounting'
  BY <1>3, CountsAreNatural DEF PermitAccounting, TypeOK
<1>5. ActiveAccounting' /\ WorkerHoldsJob'
  BY <1>2 DEF ActiveAccounting, WorkerHoldsJob
<1>6. QED
  BY <1>1, <1>2, <1>4, <1>5

LEMMA CountAccounting ==
  ASSUME Accounting, NEW r \in Requests, Count(r)
  PROVE  Accounting'
<1> USE DEF Accounting, Count, workerVars
<1>1. TypeOK'
  BY DEF TypeOK
<1>2. /\ Arriving' = Arriving /\ Counting' = Counting \cup {r}
      /\ IsFiniteSet(Arriving')
  BY PcMoves DEF Arriving
<1>3. Cardinality(Counting') = Cardinality(Counting) + 1
  BY <1>2, OneMore, CountsAreNatural DEF Counting
<1>4. ActiveAccounting'
  BY <1>3, CountsAreNatural DEF ActiveAccounting, TypeOK
<1>5. PermitAccounting' /\ WorkerHoldsJob'
  BY <1>2 DEF PermitAccounting, WorkerHoldsJob
<1>6. QED
  BY <1>1, <1>2, <1>4, <1>5

LEMMA TrySendAccounting ==
  ASSUME Accounting, NEW r \in Requests, TrySend(r)
  PROVE  Accounting'
<1> USE DEF Accounting, TrySend, workerVars, Return
<1>1. PICK s \in {"waiting", "done"} : pc' = [pc EXCEPT ![r] = s]
  OBVIOUS
<1>2. /\ Arriving' = Arriving \ {r} /\ Counting' = Counting \ {r}
      /\ IsFiniteSet(Arriving')
  BY <1>1, PcMoves
<1>3. r \in Arriving /\ r \in Counting
  BY DEF Arriving, Counting
<1>4. /\ Cardinality(Arriving') = Cardinality(Arriving) - 1
      /\ Cardinality(Counting') = Cardinality(Counting) - 1
      /\ Cardinality(Arriving') \in Nat /\ Cardinality(Counting') \in Nat
  BY <1>2, <1>3, OneLess, CountsAreNatural, FS_RemoveElement, FS_CardinalityType
<1>5. CASE Len(channel) < ChannelCapacity
  <2>1. channel' \in Seq(Requests) /\ Len(channel') = Len(channel) + 1
    BY <1>5 DEF TypeOK
  <2>2. TypeOK'
    BY <1>5, <2>1 DEF TypeOK
  <2>3. /\ UNCHANGED <<permits, active, worker, job>>
        /\ Len(channel) \in Nat /\ permits \in Nat /\ Cardinality(Arriving) \in Nat
    BY <1>5, CountsAreNatural DEF TypeOK
  <2>4. PermitAccounting'
    <3>1. PermitAccounting
      OBVIOUS
    <3> HIDE DEF Accounting, TrySend
    <3>2. QED
      BY <1>4, <2>1, <2>3, <3>1 DEF PermitAccounting
  <2>5. ActiveAccounting'
    BY <1>4, <2>1, <2>3, CountsAreNatural DEF ActiveAccounting, TypeOK
  <2>6. QED
    BY <1>2, <2>2, <2>3, <2>4, <2>5 DEF WorkerHoldsJob
<1>6. CASE ~(Len(channel) < ChannelCapacity)
  <2>1. active' \in Nat /\ permits' \in Nat /\ Len(channel) \in Nat
    BY <1>4, <1>6, CountsAreNatural DEF ActiveAccounting, TypeOK
  <2>2. TypeOK'
    BY <1>6, <2>1 DEF TypeOK
  <2>3. /\ active' = active - 1 /\ permits' = permits + 1
        /\ UNCHANGED <<channel, worker, job>>
    BY <1>6
  <2>4. PermitAccounting'
    BY <1>4, <2>1, <2>3, CountsAreNatural DEF PermitAccounting, TypeOK
  <2>5. ActiveAccounting'
    BY <1>4, <2>1, <2>3, CountsAreNatural DEF ActiveAccounting, TypeOK
  <2>6. QED
    BY <1>2, <2>2, <2>3, <2>4, <2>5 DEF WorkerHoldsJob
<1>7. QED
  BY <1>5, <1>6

\* The other steps of a client: no permit, no count and no job moves.
LEMMA ClientAccounting ==
  ASSUME Accounting, NEW r \in Requests,
         RefuseFull(r) \/ SeeStarted(r) \/ TimeOut(r) \/ Receive(r) \/ Disconnect(r)
  PROVE  Accounting'
<1>1. TypeOK'
  BY DEF Accounting, TypeOK, RefuseFull, SeeStarted, TimeOut, Receive, Disconnect,
         Return, DropReceivers, queueVars, workerVars, Results
<1>2. UNCHANGED <<queueVars, workerVars>>
  BY DEF RefuseFull, SeeStarted, TimeOut, Receive, Disconnect
<1>3. /\ pc[r] \notin {"admitted", "counted"}
      /\ \E s \in {"awaiting", "done", "gone"} : pc' = [pc EXCEPT ![r] = s]
  BY DEF RefuseFull, SeeStarted, TimeOut, Receive, Disconnect, Return
<1>4. QED
  BY <1>1, <1>2, <1>3, ClientOutside

-----------------------------------------------------------------------------
(* The worker: clients stand still, a job and its permit or count move. *)

LEMMA WorkerAccounting ==
  ASSUME Accounting, WorkerStep
  PROVE  Accounting'
<1> USE DEF Accounting
<1>1. UNCHANGED clientVars
  BY DEF WorkerStep, Recv, DropPermit, SendStarted, FailStarted, Abandon,
         JobEnds, Uncount, Respond
<1>2. Arriving' = Arriving /\ Counting' = Counting
  BY <1>1 DEF clientVars, Arriving, Counting
<1>3. /\ Cardinality(Arriving) \in Nat /\ Cardinality(Counting) \in Nat
      /\ Len(channel) \in Nat /\ permits \in Nat /\ active \in Nat
  BY CountsAreNatural DEF TypeOK
<1>4. CASE Recv
  <2>1. /\ Head(channel) \in Requests /\ channel' \in Seq(Requests)
        /\ Len(channel') = Len(channel) - 1
    BY <1>4 DEF Recv, TypeOK
  <2>2. TypeOK' /\ WorkerHoldsJob'
    BY <1>4, <2>1 DEF Recv, TypeOK, clientVars, WorkerHoldsJob
  <2>3. PermitAccounting' /\ ActiveAccounting'
    BY <1>2, <1>3, <1>4, <2>1 DEF Recv, PermitAccounting, ActiveAccounting
  <2>4. QED
    BY <1>2, <2>2, <2>3
<1>5. CASE DropPermit
  <2>1. TypeOK' /\ WorkerHoldsJob'
    BY <1>5 DEF DropPermit, WorkerMoves, TypeOK, clientVars, WorkerHoldsJob
  <2>2. /\ worker.phase = "received" /\ worker'.phase = "starting"
        /\ permits' = permits + 1 /\ UNCHANGED <<channel, active>>
    BY <1>5 DEF DropPermit, WorkerMoves, TypeOK
  <2>3. PermitAccounting'
    BY <1>2, <1>3, <2>2 DEF PermitAccounting
  <2>4. ActiveAccounting'
    BY <1>2, <2>2 DEF ActiveAccounting
  <2>5. QED
    BY <1>2, <2>1, <2>3, <2>4
<1>6. CASE SendStarted \/ FailStarted \/ JobEnds \/ Respond
  <2> USE <1>6 DEF SendStarted, FailStarted, JobEnds, Respond, WorkerMoves,
                   IdleWorker, queueVars
  <2>1. UNCHANGED queueVars
    OBVIOUS
  <2>2. worker.job \in Requests
    BY DEF WorkerHoldsJob
  <2>3. /\ worker' \in [phase : {"idle", "abandoned", "running", "ran"},
                        job : Requests \cup {NoJob}]
        /\ worker'.phase # "idle" => worker'.job \in Requests
    BY <2>2 DEF TypeOK
  <2>4. CASE SendStarted \/ FailStarted
    <3>1. TypeOK'
      BY <2>1, <2>2, <2>3, <2>4 DEF TypeOK, clientVars
    <3>2. worker.phase = "starting" /\ worker'.phase \in {"running", "abandoned"}
      BY <2>4 DEF TypeOK
    <3>3. WorkerHoldsJob'
      BY <2>3, <3>2 DEF WorkerHoldsJob
    <3>4. QED
      BY <1>2, <2>1, <3>1, <3>2, <3>3 DEF PermitAccounting, ActiveAccounting
  <2>5. CASE JobEnds
    <3>1. TypeOK'
      BY <2>1, <2>2, <2>3, <2>5 DEF TypeOK, clientVars, JoinResult, Results
    <3>2. worker.phase = "running" /\ worker'.phase = "ran"
      BY <2>5 DEF TypeOK
    <3>3. worker'.job = worker.job /\ job'[worker.job] \in Results
      BY <2>2, <2>5 DEF TypeOK, JoinResult, Results
    <3>4. WorkerHoldsJob'
      BY <2>3, <3>3 DEF WorkerHoldsJob
    <3>5. QED
      BY <1>2, <2>1, <3>1, <3>2, <3>4 DEF PermitAccounting, ActiveAccounting
  <2>6. CASE Respond
    <3>1. TypeOK'
      BY <2>1, <2>2, <2>3, <2>6 DEF TypeOK, clientVars, Results, WorkerHoldsJob
    <3>2. worker.phase = "answering" /\ worker'.phase = "idle"
      BY <2>6 DEF TypeOK
    <3>3. WorkerHoldsJob'
      BY <2>3, <3>2 DEF WorkerHoldsJob
    <3>4. QED
      BY <1>2, <2>1, <3>1, <3>2, <3>3 DEF PermitAccounting, ActiveAccounting
  <2>7. QED
    BY <1>6, <2>4, <2>5, <2>6
<1>7. CASE Abandon \/ Uncount
  <2> USE <1>7 DEF Abandon, Uncount, WorkerMoves, IdleWorker
  <2>1. active' \in Nat /\ active' = active - 1
    BY <1>3 DEF ActiveAccounting
  <2>2. worker.job \in Requests
    BY DEF WorkerHoldsJob
  <2>3. TypeOK' /\ WorkerHoldsJob'
    BY <2>1, <2>2 DEF TypeOK, clientVars, WorkerHoldsJob
  <2>4. /\ worker.phase \in {"abandoned", "ran"} /\ worker'.phase \in {"idle", "answering"}
        /\ UNCHANGED <<permits, channel>>
    BY DEF TypeOK
  <2>5. PermitAccounting' /\ ActiveAccounting'
    BY <1>2, <1>3, <2>1, <2>4 DEF PermitAccounting, ActiveAccounting
  <2>6. QED
    BY <1>2, <2>3, <2>5
<1>8. QED
  BY <1>4, <1>5, <1>6, <1>7 DEF WorkerStep

-----------------------------------------------------------------------------
(* The theorems. *)

\* Every step.
LEMMA StepAccounting == Accounting /\ [Next]_vars => Accounting'
<1> SUFFICES ASSUME Accounting, [Next]_vars PROVE Accounting'
  OBVIOUS
<1>1. CASE WorkerStep
  BY <1>1, WorkerAccounting
<1>2. ASSUME NEW r \in Requests,
             \/ Admit(r) \/ RefuseFull(r) \/ Count(r) \/ TrySend(r)
             \/ SeeStarted(r) \/ TimeOut(r) \/ Receive(r) \/ Disconnect(r)
      PROVE  Accounting'
  BY <1>2, AdmitAccounting, CountAccounting, TrySendAccounting, ClientAccounting
<1>3. CASE UNCHANGED vars
  BY <1>3 DEF vars, Accounting, TypeOK, WorkerHoldsJob, Arriving, Counting,
              PermitAccounting, ActiveAccounting
<1>4. QED
  BY <1>1, <1>2, <1>3 DEF Next

\* The accounting holds in every behaviour.
LEMMA AlwaysAccounting == Spec => []Accounting
BY InitAccounting, StepAccounting, PTL DEF Spec

\* Every variable keeps its type; in particular neither counter of the queue
\* (src/queue.rs:43-44) ever goes below zero.
THEOREM QueueTypes == Spec => []TypeOK
<1>1. Accounting => TypeOK
  BY DEF Accounting
<1>2. QED
  BY <1>1, AlwaysAccounting, PTL

\* No order of arrivals, timeouts, disconnects and failures leaks or creates a
\* permit of the semaphore (src/queue.rs:74 and 128).
THEOREM PermitsConserved == Spec => []PermitAccounting
<1>1. Accounting => PermitAccounting
  BY DEF Accounting
<1>2. QED
  BY <1>1, AlwaysAccounting, PTL

\* What pending_len reads is the number of requests queued or running
\* (src/queue.rs:76, 84, 129 and 138).
THEOREM ActiveIsExact == Spec => []ActiveAccounting
<1>1. Accounting => ActiveAccounting
  BY DEF Accounting
<1>2. QED
  BY <1>1, AlwaysAccounting, PTL

\* Whoever holds a permit outside the channel leaves a slot there to itself.
LEMMA RoomToSend == Accounting => TrySendNeverFull
<1> SUFFICES ASSUME Accounting, NEW r \in Requests, pc[r] = "counted"
             PROVE  Len(channel) < ChannelCapacity
  BY DEF TrySendNeverFull
<1>1. /\ Cardinality(Arriving) \in Nat /\ Cardinality(Arriving \ {r}) \in Nat
      /\ Cardinality(Arriving \ {r}) = Cardinality(Arriving) - 1
  BY CountsAreNatural, OneLess, FS_RemoveElement, FS_CardinalityType DEF Accounting, Arriving
<1>2. Len(channel) \in Nat /\ permits \in Nat
  BY DEF Accounting, TypeOK
<1>3. permits + Cardinality(Arriving) + Len(channel) <= MaxPending
  BY <1>1, <1>2, ConstantsAssumption DEF Accounting, PermitAccounting
<1>4. QED
  BY <1>1, <1>2, <1>3, ConstantsAssumption DEF ChannelCapacity

\* The error path of try_send on a full channel (src/queue.rs:137-140) is dead
\* code, for every capacity, 0 and its channel of size 1 included.
THEOREM SendNeverFull == Spec => []TrySendNeverFull
BY RoomToSend, AlwaysAccounting, PTL

-----------------------------------------------------------------------------
(* What the queue owes to each caller: nobody waits in vain, an answer      *)
(* comes after the count went down, and the work of a caller who gave up in *)
(* time is not done.  The invariant says where a request is and what its    *)
(* two oneshot channels hold there.  A request is in one place (OnePlace):  *)
(* were it twice in the channel, its second run would overwrite its result. *)
(* The receivers are closed exactly when the future has returned or was     *)
(* dropped after its submission (Receivers); what was sent on them tells    *)
(* what became of the job (Signals, Outcomes).                              *)

\* Where a job is.
AtWorker(r) == worker.phase # "idle" /\ worker.job = r
Inside(r) == InChannel(r) \/ AtWorker(r)

\* The future has returned, or was dropped, after it had submitted its job.
Left(r) == pc[r] = "gone" \/ (pc[r] = "done" /\ answer[r] # "Full")

\* No job is twice in the channel, or there and at the worker.
OnePlace ==
  /\ \A i, j \in DOMAIN channel : channel[i] = channel[j] => i = j
  /\ \A r \in Requests : AtWorker(r) => ~InChannel(r)

\* Who has not submitted yet, or was refused, has left no trace.
Outside(r) ==
  pc[r] \in {"idle", "admitted", "counted"} \/ answer[r] = "Full"
    => ~Inside(r) /\ job[r] = "fresh" /\ started[r] = "open" /\ response[r] = "open"

\* The two receivers, and who waits for a result has seen the start.
Receivers(r) ==
  /\ pc[r] = "done" <=> answer[r] # "none"
  /\ started[r] = "closed" <=> Left(r)
  /\ response[r] = "closed" <=> Left(r)
  /\ pc[r] = "awaiting" => started[r] = "sent"

\* What was sent, by the place of the job.
Signals(r) ==
  /\ InChannel(r) \/ WorkerIn({"received", "starting", "abandoned"}, r)
       => job[r] = "fresh" /\ started[r] # "sent"
  /\ WorkerIn({"abandoned"}, r) => started[r] = "closed"
  /\ WorkerIn({"running", "ran", "answering"}, r) => started[r] # "open"
  /\ job[r] = "running" <=> WorkerIn({"running"}, r)
  /\ started[r] = "sent" => job[r] # "fresh"

Outcomes(r) ==
  /\ response[r] # "dropped"
  /\ response[r] \in Results => job[r] = response[r] /\ ~Inside(r)
  /\ answer[r] \in Results => job[r] = answer[r] /\ ~Inside(r)
  /\ answer[r] # "Closed"

\* What a caller waits for will come: NobodyStranded, request by request.
Attended(r) ==
  /\ pc[r] = "waiting" =>
       InChannel(r) \/ WorkerIn({"received", "starting"}, r) \/ started[r] = "sent"
  /\ pc[r] \in {"waiting", "awaiting"} /\ started[r] = "sent" =>
       WorkerIn({"running", "ran", "answering"}, r) \/ response[r] \in Results

Consistent(r) == Outside(r) /\ Receivers(r) /\ Signals(r) /\ Outcomes(r) /\ Attended(r)

\* The invariant: the accounting, and each request by itself.
IInv == Accounting /\ OnePlace /\ \A r \in Requests : Consistent(r)

-----------------------------------------------------------------------------
(* The channel. *)

LEMMA Appended ==
  ASSUME channel \in Seq(Requests), NEW r \in Requests, channel' = Append(channel, r)
  PROVE  /\ \A q : InChannel(q)' <=> InChannel(q) \/ q = r
         /\ /\ \A i, j \in DOMAIN channel : channel[i] = channel[j] => i = j
            /\ ~InChannel(r)
            => \A i, j \in DOMAIN channel' : channel'[i] = channel'[j] => i = j
<1>1. /\ Len(channel) \in Nat /\ DOMAIN channel = 1..Len(channel)
      /\ DOMAIN channel' = 1..(Len(channel) + 1)
      /\ \A i \in DOMAIN channel : channel'[i] = channel[i]
      /\ channel'[Len(channel) + 1] = r
  OBVIOUS
<1>2. \A i \in DOMAIN channel' : i \in DOMAIN channel \/ i = Len(channel) + 1
  BY <1>1
<1>3. /\ \A i \in DOMAIN channel : i \in DOMAIN channel'
      /\ Len(channel) + 1 \in DOMAIN channel'
  BY <1>1
<1> QED
  BY <1>1, <1>2, <1>3 DEF InChannel

LEMMA Received ==
  ASSUME channel \in Seq(Requests), channel # <<>>, channel' = Tail(channel),
         \A i, j \in DOMAIN channel : channel[i] = channel[j] => i = j,
         NEW h, h = Head(channel)
  PROVE  /\ \A q : InChannel(q) <=> InChannel(q)' \/ q = h
         /\ ~InChannel(h)'
         /\ \A i, j \in DOMAIN channel' : channel'[i] = channel'[j] => i = j
<1>1. /\ Len(channel) \in Nat /\ Len(channel) > 0 /\ DOMAIN channel = 1..Len(channel)
      /\ DOMAIN channel' = 1..(Len(channel) - 1)
      /\ \A i \in DOMAIN channel' : channel'[i] = channel[i + 1]
      /\ h = channel[1]
  OBVIOUS
<1>2. /\ \A i \in DOMAIN channel : i # 1 => i - 1 \in DOMAIN channel' /\ channel'[i - 1] = channel[i]
      /\ 1 \in DOMAIN channel
      /\ \A i \in DOMAIN channel' : i + 1 \in DOMAIN channel /\ i + 1 # 1
  BY <1>1
<1>3. \A i, j \in DOMAIN channel' : channel'[i] = channel'[j] => i = j
  BY <1>1, <1>2
<1>4. \A i \in DOMAIN channel' : channel'[i] # h
  BY <1>1, <1>2
<1>5. ASSUME NEW i \in DOMAIN channel
      PROVE  channel[i] = h \/ \E j \in DOMAIN channel' : channel'[j] = channel[i]
  BY <1>1, <1>2
<1>6. \A i \in DOMAIN channel' : \E j \in DOMAIN channel : channel[j] = channel'[i]
  BY <1>1, <1>2
<1>7. \E i \in DOMAIN channel : channel[i] = h
  BY <1>1, <1>2
<1>8. \A q : InChannel(q) <=> InChannel(q)' \/ q = h
  BY <1>5, <1>6, <1>7 DEF InChannel
<1> QED
  BY <1>3, <1>4, <1>8 DEF InChannel

-----------------------------------------------------------------------------
(* The steps. *)

LEMMA InitIInv == Init => IInv
<1> SUFFICES ASSUME Init PROVE IInv
  OBVIOUS
<1>1. Accounting
  BY InitAccounting
<1>2. \A r : ~InChannel(r) /\ ~AtWorker(r)
  BY DEF Init, InChannel, AtWorker, IdleWorker
<1>3. OnePlace
  BY <1>2 DEF Init, OnePlace
<1>4. ASSUME NEW r \in Requests PROVE Consistent(r)
  BY <1>2
     DEF Init, IdleWorker, Results, Consistent, Outside, Inside, Receivers, Left, Signals,
         WorkerIn, AtWorker, Outcomes, Attended
<1> QED
  BY <1>1, <1>3, <1>4 DEF IInv

\* A request whose own channels, job and future a step leaves alone, and whose
\* place too.
LEMMA Untouched ==
  ASSUME NEW q, Consistent(q), InChannel(q)' <=> InChannel(q),
         pc'[q] = pc[q], answer'[q] = answer[q], started'[q] = started[q],
         response'[q] = response[q], job'[q] = job[q],
         worker' = worker \/ (~AtWorker(q) /\ ~AtWorker(q)')
  PROVE  Consistent(q)'
<1>1. AtWorker(q)' <=> AtWorker(q)
  BY DEF AtWorker
<1>2. \A phases : "idle" \notin phases => (worker'.phase \in phases /\ worker'.job = q
                                          <=> worker.phase \in phases /\ worker.job = q)
  BY DEF AtWorker
<1> QED
  BY <1>1, <1>2
     DEF Consistent, Outside, Inside, Receivers, Left, Signals, WorkerIn, Outcomes, Attended

\* The steps of a client, but for the submission itself: only its own future
\* and its own receivers change.
LEMMA ClientConsistent ==
  ASSUME IInv, NEW r \in Requests,
         \/ Admit(r) \/ RefuseFull(r) \/ Count(r) \/ SeeStarted(r) \/ TimeOut(r)
         \/ Receive(r) \/ Disconnect(r)
  PROVE  OnePlace' /\ \A q \in Requests : Consistent(q)'
<1>1. TypeOK
  BY DEF IInv, Accounting
<1>2. UNCHANGED <<channel, worker, job>>
  BY DEF Admit, RefuseFull, Count, SeeStarted, TimeOut, Receive, Disconnect, workerVars, queueVars
<1>3. OnePlace'
  BY <1>2 DEF IInv, OnePlace, AtWorker, InChannel
<1>4. \A q : InChannel(q)' <=> InChannel(q)
  BY <1>2 DEF InChannel
<1>5. ASSUME NEW q \in Requests, q # r PROVE Consistent(q)'
  <2>1. /\ pc'[q] = pc[q] /\ answer'[q] = answer[q]
        /\ started'[q] = started[q] /\ response'[q] = response[q]
    BY <1>1, <1>5
       DEF TypeOK, Admit, RefuseFull, Count, SeeStarted, TimeOut, Receive, Disconnect,
           Return, DropReceivers
  <2> QED
    BY <1>2, <1>4, <2>1, Untouched DEF IInv
<1>6. Consistent(r)'
  <2> USE <1>1, <1>2, <1>4 DEF IInv, TypeOK, Consistent, Outside, Inside, AtWorker, Receivers,
          Left, Signals, WorkerIn, Outcomes, Attended, Results
  <2>1. CASE Admit(r)
    BY <2>1 DEF Admit
  <2>2. CASE RefuseFull(r)
    BY <2>2 DEF RefuseFull, Return
  <2>3. CASE Count(r)
    BY <2>3 DEF Count
  <2>4. CASE SeeStarted(r)
    BY <2>4 DEF SeeStarted
  <2>5. CASE TimeOut(r)
    BY <2>5 DEF TimeOut, Return, DropReceivers
  <2>6. CASE Receive(r)
    BY <2>6 DEF Receive, Return, DropReceivers
  <2>7. CASE Disconnect(r)
    BY <2>7 DEF Disconnect, DropReceivers
  <2> QED
    BY <2>1, <2>2, <2>3, <2>4, <2>5, <2>6, <2>7
<1> QED
  BY <1>3, <1>5, <1>6

LEMMA TrySendConsistent ==
  ASSUME IInv, NEW r \in Requests, TrySend(r)
  PROVE  OnePlace' /\ \A q \in Requests : Consistent(q)'
<1>1. TypeOK /\ channel \in Seq(Requests)
  BY DEF IInv, Accounting, TypeOK
<1>2. /\ pc[r] = "counted" /\ channel' = Append(channel, r)
      /\ pc' = [pc EXCEPT ![r] = "waiting"]
      /\ UNCHANGED <<answer, worker, job, started, response>>
  BY RoomToSend DEF IInv, TrySend, TrySendNeverFull, workerVars
<1>3. \A q : InChannel(q)' <=> InChannel(q) \/ q = r
  BY <1>1, <1>2, Appended
<1>4. Outside(r) /\ ~InChannel(r) /\ ~AtWorker(r)
  BY <1>2 DEF IInv, Consistent, Outside, Inside
<1>5. OnePlace'
  <2>1. \A i, j \in DOMAIN channel' : channel'[i] = channel'[j] => i = j
    BY <1>1, <1>2, <1>4, Appended DEF IInv, OnePlace
  <2>2. \A q \in Requests : AtWorker(q)' => ~InChannel(q)'
    BY <1>2, <1>3, <1>4 DEF IInv, OnePlace, AtWorker
  <2> QED
    BY <2>1, <2>2 DEF OnePlace
<1>6. ASSUME NEW q \in Requests, q # r PROVE Consistent(q)'
  <2>1. pc'[q] = pc[q]
    BY <1>1, <1>2, <1>6 DEF TypeOK
  <2> QED
    BY <1>2, <1>3, <1>6, <2>1, Untouched DEF IInv
<1>7. Consistent(r)'
  BY <1>1, <1>2, <1>3, <1>4
     DEF IInv, TypeOK, Consistent, Outside, Inside, AtWorker, Receivers, Left, Signals,
         WorkerIn, Outcomes, Attended, Results
<1> QED
  BY <1>5, <1>6, <1>7

\* The worker keeps its job from one phase to the next.
LEMMA WorkerMoved ==
  ASSUME TypeOK, NEW from, NEW to, WorkerMoves(from, to)
  PROVE  /\ worker.phase = from
         /\ worker' = IF to = "idle" THEN IdleWorker ELSE [phase |-> to, job |-> worker.job]
<1>1. worker = [phase |-> worker.phase, job |-> worker.job]
  BY DEF TypeOK
<1>2. [worker EXCEPT !.phase = to] = [phase |-> to, job |-> worker.job]
  BY <1>1
<1> QED
  BY <1>2 DEF WorkerMoves

\* The steps of the worker, on the job that it takes or has.
LEMMA WorkerConsistent ==
  ASSUME IInv, WorkerStep
  PROVE  OnePlace' /\ \A q \in Requests : Consistent(q)'
<1>1. TypeOK /\ channel \in Seq(Requests) /\ UNCHANGED <<pc, answer>>
  BY DEF IInv, Accounting, TypeOK, WorkerStep, Recv, DropPermit, SendStarted, FailStarted,
         Abandon, JobEnds, Uncount, Respond, clientVars
<1> USE <1>1 DEF TypeOK
<1>2. CASE Recv
  <2>1. PICK h \in Requests : h = Head(channel)
    BY <1>2 DEF Recv
  <2>2. /\ worker.phase = "idle" /\ channel # <<>> /\ channel' = Tail(channel)
        /\ worker' = [phase |-> "received", job |-> h]
        /\ UNCHANGED <<started, response, job>>
    BY <1>2, <2>1 DEF Recv
  <2>3. /\ \A q : InChannel(q) <=> InChannel(q)' \/ q = h
        /\ ~InChannel(h)'
        /\ \A i, j \in DOMAIN channel' : channel'[i] = channel'[j] => i = j
    BY <2>1, <2>2, Received DEF IInv, OnePlace
  <2>4. OnePlace'
    BY <2>2, <2>3 DEF OnePlace, AtWorker
  <2>5. ASSUME NEW q \in Requests, q # h PROVE Consistent(q)'
    BY <2>2, <2>3, <2>5, Untouched DEF IInv, AtWorker
  <2>6. Consistent(h)'
    BY <2>1, <2>2, <2>3
       DEF IInv, Consistent, Outside, Inside, AtWorker, Receivers, Left, Signals,
           WorkerIn, Outcomes, Attended, Results
  <2> QED
    BY <2>4, <2>5, <2>6
<1>3. CASE ~Recv
  <2>1. PICK h \in Requests : worker.phase # "idle" /\ worker.job = h
    BY <1>3 DEF IInv, Accounting, WorkerHoldsJob, WorkerStep, DropPermit, SendStarted,
         FailStarted, Abandon, JobEnds, Uncount, Respond, WorkerMoves
  <2>2. worker'.phase = "idle" \/ worker'.job = h
    <3>1. \E from, to : WorkerMoves(from, to)
      BY <1>3 DEF WorkerStep, DropPermit, SendStarted, FailStarted, Abandon, JobEnds,
           Uncount, Respond
    <3> QED
      BY <2>1, <3>1, WorkerMoved DEF IdleWorker
  <2>3. UNCHANGED channel /\ \A q : InChannel(q)' <=> InChannel(q)
    BY <1>3 DEF WorkerStep, DropPermit, SendStarted, FailStarted, Abandon, JobEnds,
         Uncount, Respond, queueVars, InChannel
  <2>4. OnePlace'
    BY <2>1, <2>2, <2>3 DEF IInv, OnePlace, AtWorker
  <2>5. ASSUME NEW q \in Requests, q # h PROVE Consistent(q)'
    <3>1. /\ started'[q] = started[q] /\ response'[q] = response[q] /\ job'[q] = job[q]
      BY <1>3, <2>1, <2>5
         DEF WorkerStep, DropPermit, SendStarted, FailStarted, Abandon, JobEnds, Uncount, Respond
    <3>2. ~AtWorker(q) /\ ~AtWorker(q)'
      BY <2>1, <2>2, <2>5 DEF AtWorker
    <3> QED
      BY <2>3, <3>1, <3>2, Untouched DEF IInv
  <2>6. Consistent(h)'
    <3> USE <2>1, <2>3 DEF IInv, OnePlace, Consistent, Outside, Inside, AtWorker, Receivers, Left,
            Signals, WorkerIn, Outcomes, Attended, Results, WorkerMoves, IdleWorker
    <3>1. CASE DropPermit
      BY <3>1 DEF DropPermit
    <3>2. CASE SendStarted
      BY <3>2 DEF SendStarted
    <3>3. CASE FailStarted
      BY <3>3 DEF FailStarted
    <3>4. CASE Abandon
      BY <3>4 DEF Abandon
    <3>5. CASE JobEnds
      BY <3>5 DEF JobEnds, JoinResult
    <3>6. CASE Uncount
      BY <3>6 DEF Uncount, Accounting, WorkerHoldsJob
    <3>7. CASE Respond
      BY <3>7 DEF Respond, Accounting, WorkerHoldsJob
    <3> QED
      BY <1>3, <3>1, <3>2, <3>3, <3>4, <3>5, <3>6, <3>7 DEF WorkerStep
  <2> QED
    BY <2>4, <2>5, <2>6
<1> QED
  BY <1>2, <1>3

\* Every step keeps the second invariant.
LEMMA NextIInv == IInv /\ [Next]_vars => IInv'
<1> SUFFICES ASSUME IInv, [Next]_vars PROVE IInv'
  OBVIOUS
<1>1. Accounting'
  BY StepAccounting DEF IInv
<1>2. CASE WorkerStep
  BY <1>1, <1>2, WorkerConsistent DEF IInv
<1>3. ASSUME NEW r \in Requests,
             \/ Admit(r) \/ RefuseFull(r) \/ Count(r) \/ TrySend(r)
             \/ SeeStarted(r) \/ TimeOut(r) \/ Receive(r) \/ Disconnect(r)
      PROVE  IInv'
  BY <1>1, <1>3, ClientConsistent, TrySendConsistent DEF IInv
<1>4. CASE UNCHANGED vars
  <2>1. OnePlace' /\ \A q \in Requests : Consistent(q)'
    BY <1>4 DEF vars, IInv, OnePlace, Consistent, Outside, Inside, InChannel, AtWorker, Receivers,
         Left, Signals, WorkerIn, Outcomes, Attended
  <2> QED
    BY <1>1, <2>1 DEF IInv
<1> QED
  BY <1>2, <1>3, <1>4 DEF Next

\* It holds in every behaviour.
LEMMA AlwaysIInv == Spec => []IInv
BY InitIInv, NextIInv, PTL DEF Spec

-----------------------------------------------------------------------------
(* What the queue owes to each caller. *)

\* Whoever waits is waited for: its job is in the channel or with the worker, or
\* what it waits for was sent, so that Closed (src/queue.rs:148, 156 and 161) is never
\* returned.
THEOREM NobodyWaitsInVain == Spec => []NobodyStranded
<1>1. IInv => NobodyStranded
  BY DEF IInv, Consistent, Outcomes, Attended, NobodyStranded
<1> QED
  BY <1>1, AlwaysIInv, PTL

\* The counter goes down before the response is sent (src/queue.rs:84-85): a
\* caller that has its answer is not in the length that it reads.
THEOREM AnswersComeAfterTheCount == Spec => []AnsweredNotCounted
<1>1. IInv => AnsweredNotCounted
  <2> SUFFICES ASSUME IInv, NEW r \in Requests, answer[r] \in Results \union {"Full"}
               PROVE  ~Counted(r)
    BY DEF AnsweredNotCounted
  <2>1. ~Inside(r) /\ pc[r] # "counted"
    BY DEF IInv, Consistent, Outside, Receivers, Outcomes, Results
  <2> QED
    BY <2>1 DEF Inside, AtWorker, Counted, WorkerIn
<1> QED
  BY <1>1, AlwaysIInv, PTL

\* A job whose caller has timed out or gone before it started is not run: the
\* dropped receiver makes the send of `started` fail (src/queue.rs:75-77).
THEOREM TheGoneAreSkipped == Spec => NoWorkForTheGone
<1>1. IInv /\ [Next]_vars
        => [\A r \in Requests : GaveUp(r) /\ job[r] = "fresh" => job'[r] = "fresh"]_vars
  <2> SUFFICES ASSUME IInv, Next, NEW r \in Requests, GaveUp(r), job[r] = "fresh"
               PROVE  job'[r] = "fresh"
    BY DEF vars
  <2>1. TypeOK /\ started[r] = "closed" /\ ~WorkerIn({"running"}, r)
    BY DEF IInv, Accounting, Consistent, Receivers, Left, Signals, GaveUp
  <2>2. CASE SendStarted
    BY <2>1, <2>2 DEF SendStarted, TypeOK
  <2>3. CASE JobEnds
    BY <2>1, <2>3 DEF JobEnds, WorkerMoves, WorkerIn, TypeOK
  <2>4. CASE ~SendStarted /\ ~JobEnds
    <3>1. UNCHANGED job
      BY <2>4 DEF Next, WorkerStep, Recv, DropPermit, FailStarted, Abandon, Uncount, Respond,
             Admit, RefuseFull, Count, TrySend, SeeStarted, TimeOut, Receive, Disconnect, workerVars
    <3> QED
      BY <3>1
  <2> QED
    BY <2>2, <2>3, <2>4
<1> QED
  BY <1>1, AlwaysIInv, PTL DEF Spec, NoWorkForTheGone

-----------------------------------------------------------------------------
(* InferenceQueue implements FifoService. *)

LEMMA LineIs ==
  ASSUME IInv
  PROVE  /\ Line \in Seq(Requests)
         /\ Len(Line) = Len(channel) + (IF worker.phase = "received" THEN 1 ELSE 0)
         /\ \A r : Service!InLine(r) <=> InChannel(r) \/ WorkerIn({"received"}, r)
<1>1. channel \in Seq(Requests) /\ (worker.phase = "received" => worker.job \in Requests)
  BY DEF IInv, Accounting, TypeOK, WorkerHoldsJob
<1>2. CASE worker.phase # "received"
  BY <1>1, <1>2 DEF Line, Service!InLine, InChannel, WorkerIn
<1>3. CASE worker.phase = "received"
  <2>1. Line = <<worker.job>> \o channel
    BY <1>3 DEF Line
  <2>2. /\ Line \in Seq(Requests) /\ Len(Line) = 1 + Len(channel) /\ Len(channel) \in Nat
        /\ Line[1] = worker.job /\ \A i \in DOMAIN channel : Line[i + 1] = channel[i]
        /\ DOMAIN Line = 1..(Len(channel) + 1) /\ DOMAIN channel = 1..Len(channel)
    BY <1>1, <1>3, <2>1
  <2>3. /\ \A i \in DOMAIN Line : i = 1 \/ (i - 1 \in DOMAIN channel /\ Line[i] = channel[i - 1])
        /\ 1 \in DOMAIN Line /\ \A i \in DOMAIN channel : i + 1 \in DOMAIN Line
    BY <2>2
  <2>4. ASSUME NEW r PROVE Service!InLine(r) <=> InChannel(r) \/ r = worker.job
    <3>1. Service!InLine(r) => InChannel(r) \/ r = worker.job
      BY <2>2, <2>3 DEF Service!InLine, InChannel
    <3>2. InChannel(r) \/ r = worker.job => Service!InLine(r)
      BY <2>2, <2>3 DEF Service!InLine, InChannel
    <3> QED
      BY <3>1, <3>2
  <2> QED
    BY <1>3, <2>2, <2>4 DEF WorkerIn
<1> QED
  BY <1>2, <1>3

LEMMA DeskIs ==
  ASSUME NEW r
  PROVE  Service!AtDesk(r) <=> WorkerIn({"starting", "abandoned", "running"}, r)
BY DEF Service!AtDesk, Desk, WorkerIn

\* What the caller of r was told, when its future moves from one place to another.
LEMMA VerdictIs ==
  ASSUME TypeOK, TypeOK', NEW r \in Requests, \A q \in Requests : q # r => pc'[q] = pc[q] /\ answer'[q] = answer[q]
  PROVE  Verdict' = [Verdict EXCEPT ![r] = Verdict'[r]]
<1>1. ASSUME NEW q \in Requests, q # r PROVE Verdict'[q] = Verdict[q]
  BY <1>1 DEF Verdict, GaveUp
<1>2. /\ Verdict = [q \in Requests |-> Verdict[q]]
      /\ Verdict' = [q \in Requests |-> Verdict'[q]]
  BY DEF Verdict
<1> QED
  BY <1>1, <1>2

\* The mapping of what a client does not touch.
LEMMA ServiceIdle ==
  ASSUME UNCHANGED <<worker, channel, job>>
  PROVE  UNCHANGED <<Line, Desk, Performed>>
BY DEF Line, Desk, Performed

\* A client's step: it takes a place or is refused, joins the line, gives up, is
\* told its result, or does nothing that the service knows of.
LEMMA ClientService ==
  ASSUME IInv, IInv', NEW r \in Requests,
         \/ Admit(r) \/ RefuseFull(r) \/ Count(r) \/ TrySend(r)
         \/ SeeStarted(r) \/ TimeOut(r) \/ Receive(r) \/ Disconnect(r)
  PROVE  Service!Next \/ UNCHANGED Service!vars
<1>1. /\ TypeOK /\ TypeOK' /\ IsFiniteSet(Arriving) /\ Consistent(r) /\ MaxPending \in Nat
      /\ Cardinality(Arriving) \in Nat /\ Len(channel) \in Nat /\ permits \in Nat
  BY CountsAreNatural, ConstantsAssumption DEF IInv, Accounting, TypeOK
<1>2. UNCHANGED <<worker, job>>
  BY DEF Admit, RefuseFull, Count, TrySend, SeeStarted, TimeOut, Receive, Disconnect, workerVars
<1>3. \A q \in Requests : q # r => pc'[q] = pc[q] /\ answer'[q] = answer[q]
  BY <1>1 DEF TypeOK, Admit, RefuseFull, Count, TrySend, SeeStarted, TimeOut, Receive, Disconnect,
         Return
<1>4. Verdict' = [Verdict EXCEPT ![r] = Verdict'[r]]
  BY <1>1, <1>3, VerdictIs
<1>5. /\ Verdict[r] = CASE answer[r] = "Full" -> "refused" [] GaveUp(r) -> "gaveUp" [] OTHER -> answer[r]
      /\ Performed[r] = IF job[r] \in Results THEN job[r] ELSE "none"
  BY DEF Verdict, Performed
<1>6. Verdict'[r] = CASE answer'[r] = "Full" -> "refused"
                      [] answer'[r] = "Timeout" \/ pc'[r] = "gone" -> "gaveUp"
                      [] OTHER -> answer'[r]
  BY DEF Verdict, GaveUp
<1>7. Verdict'[r] = Verdict[r] => UNCHANGED Verdict
  BY <1>4 DEF Verdict
<1>8. Verdict[r] = "none" <=> answer[r] = "none" /\ pc[r] # "gone"
  BY <1>1, <1>5 DEF GaveUp, TypeOK
<1>9. /\ Service!InLine(r) <=> InChannel(r) \/ WorkerIn({"received"}, r)
      /\ Service!AtDesk(r) <=> WorkerIn({"starting", "abandoned", "running"}, r)
      /\ Len(Line) = Len(channel) + (IF worker.phase = "received" THEN 1 ELSE 0)
  BY LineIs, DeskIs
<1>10. Service!HasRoom <=> permits > 0
  <2>1. Service!HasRoom <=> Cardinality(Arriving) + Len(Line) < MaxPending
    BY DEF Service!HasRoom, Service!Cardinality, Cardinality
  <2>2. PermitAccounting
    BY DEF IInv, Accounting
  <2> QED
    BY <1>1, <1>9, <2>1, <2>2 DEF PermitAccounting
<1>11. pc[r] = "idle" => Service!Fresh(r)
  BY <1>1, <1>5, <1>8, <1>9
     DEF Consistent, Outside, Inside, AtWorker, WorkerIn, Receivers, Service!Fresh, Arriving, Results
<1>12. CASE Admit(r)
  <2>1. Arriving' = Arriving \union {r}
    BY <1>1, <1>12, PcMoves DEF Admit
  <2>2. UNCHANGED <<Line, Desk, Performed>>
    BY <1>2, <1>12, ServiceIdle DEF Admit
  <2>3. UNCHANGED Verdict
    BY <1>1, <1>5, <1>6, <1>7, <1>12 DEF Admit, GaveUp, TypeOK
  <2>4. Service!Admit(r)
    BY <1>10, <1>11, <1>12, <2>1, <2>2, <2>3 DEF Admit, Service!Admit
  <2> QED
    BY <2>4 DEF Service!Next
<1>13. CASE RefuseFull(r)
  <2>1. Arriving' = Arriving
    BY <1>1, <1>13, PcMoves DEF RefuseFull, Return, Arriving
  <2>2. UNCHANGED <<Line, Desk, Performed>>
    BY <1>2, <1>13, ServiceIdle DEF RefuseFull, queueVars
  <2>3. Verdict'[r] = "refused"
    BY <1>1, <1>6, <1>13 DEF RefuseFull, Return, TypeOK
  <2>4. Service!Refuse(r)
    BY <1>1, <1>4, <1>10, <1>11, <1>13, <2>1, <2>2, <2>3 DEF RefuseFull, Service!Refuse
  <2> QED
    BY <2>4 DEF Service!Next
<1>14. CASE Count(r) \/ SeeStarted(r)
  <2>1. \E s \in {"counted", "awaiting"} :
           /\ pc' = [pc EXCEPT ![r] = s]
           /\ s = "counted" <=> pc[r] \in {"admitted", "counted"}
    BY <1>14 DEF Count, SeeStarted
  <2>2. Arriving' = Arriving
    BY <1>1, <2>1, PcMoves DEF Arriving
  <2>3. UNCHANGED <<Line, Desk, Performed>>
    BY <1>2, <1>14, ServiceIdle DEF Count, SeeStarted, queueVars
  <2>4. UNCHANGED Verdict
    BY <1>1, <1>5, <1>6, <1>7, <1>14 DEF Count, SeeStarted, GaveUp, TypeOK
  <2> QED
    BY <2>2, <2>3, <2>4 DEF Service!vars
<1>15. CASE TrySend(r)
  <2>1. /\ pc[r] = "counted" /\ channel' = Append(channel, r)
        /\ pc' = [pc EXCEPT ![r] = "waiting"] /\ UNCHANGED answer
    BY <1>15, RoomToSend DEF IInv, TrySend, TrySendNeverFull
  <2>2. r \in Arriving /\ Arriving' = Arriving \ {r}
    BY <1>1, <2>1, PcMoves DEF Arriving
  <2>3. Line' = Append(Line, r)
    BY <1>1, <1>2, <2>1 DEF Line, TypeOK, IInv, Accounting, WorkerHoldsJob
  <2>4. UNCHANGED <<Desk, Performed>>
    BY <1>2 DEF Desk, Performed
  <2>5. UNCHANGED Verdict
    BY <1>1, <1>5, <1>6, <1>7, <2>1 DEF GaveUp, TypeOK
  <2>6. Service!Join(r)
    BY <2>2, <2>3, <2>4, <2>5 DEF Service!Join
  <2> QED
    BY <2>6 DEF Service!Next
<1>16. CASE TimeOut(r) \/ Receive(r) \/ Disconnect(r)
  <2>1. Arriving' = Arriving
    <3>1. /\ pc[r] \notin {"admitted", "counted"}
          /\ \E s \in {"done", "gone"} : pc' = [pc EXCEPT ![r] = s]
      BY <1>16 DEF TimeOut, Receive, Disconnect, Return
    <3> QED
      BY <1>1, <3>1, PcMoves DEF Arriving
  <2>2. UNCHANGED <<Line, Desk, Performed>>
    BY <1>2, <1>16, ServiceIdle DEF TimeOut, Receive, Disconnect, queueVars
  <2>3. Verdict[r] = "none"
    BY <1>1, <1>8, <1>16 DEF TimeOut, Receive, Disconnect, Consistent, Receivers, TypeOK
  <2>4. CASE TimeOut(r) \/ Disconnect(r)
    <3>1. Verdict'[r] = "gaveUp"
      BY <1>1, <1>6, <2>3, <2>4, <1>5 DEF TimeOut, Disconnect, Return, TypeOK
    <3>2. Service!InLine(r) \/ Service!AtDesk(r) \/ Performed[r] # "none"
      BY <1>1, <1>5, <1>9, <2>4
         DEF TimeOut, Disconnect, Consistent, Receivers, Attended, Outcomes, Signals, WorkerIn,
             IInv, Accounting, WorkerHoldsJob, Results
    <3>3. Service!GiveUp(r)
      BY <1>4, <2>1, <2>2, <2>3, <3>1, <3>2 DEF Service!GiveUp
    <3> QED
      BY <3>3 DEF Service!Next
  <2>5. CASE Receive(r)
    <3>1. response[r] \in Results /\ job[r] = response[r]
      BY <1>1, <2>5 DEF Receive, Consistent, Outcomes, Receivers, Left, TypeOK
    <3>2. Verdict'[r] = job[r]
      BY <1>1, <1>6, <2>5, <3>1 DEF Receive, Return, TypeOK, Results
    <3>3. Performed[r] \in Service!Results /\ Verdict'[r] = Performed[r]
      BY <1>5, <3>1, <3>2 DEF Results, Service!Results
    <3>4. Service!Deliver(r)
      BY <1>4, <2>1, <2>2, <2>3, <3>3 DEF Service!Deliver
    <3> QED
      BY <3>4 DEF Service!Next
  <2> QED
    BY <1>16, <2>4, <2>5
<1> QED
  BY <1>12, <1>13, <1>14, <1>15, <1>16

\* A step of the worker: the call of the first in the line is the drop of its
\* permit, Start and Skip are the two outcomes of the send of `started`.
LEMMA WorkerService ==
  ASSUME IInv, IInv', WorkerStep
  PROVE  Service!Next \/ UNCHANGED Service!vars
<1>1. /\ TypeOK /\ UNCHANGED <<pc, answer>> /\ channel \in Seq(Requests)
      /\ worker.phase # "idle" => worker.job \in Requests /\ Consistent(worker.job)
  BY DEF IInv, Accounting, TypeOK, WorkerHoldsJob, WorkerStep, Recv, DropPermit, SendStarted,
         FailStarted, Abandon, JobEnds, Uncount, Respond, clientVars
<1>2. UNCHANGED <<Arriving, Verdict>>
  BY <1>1 DEF Arriving, Verdict, GaveUp
<1>3. CASE Recv
  <2>1. /\ worker.phase = "idle" /\ channel # <<>> /\ channel' = Tail(channel)
        /\ worker' = [phase |-> "received", job |-> Head(channel)] /\ UNCHANGED job
    BY <1>3 DEF Recv
  <2>2. channel = <<Head(channel)>> \o Tail(channel)
    BY <1>1, <2>1
  <2>3. Line' = Line
    BY <2>1, <2>2 DEF Line
  <2>4. UNCHANGED <<Desk, Performed>>
    BY <2>1 DEF Desk, Performed
  <2> QED
    BY <1>2, <2>3, <2>4 DEF Service!vars
<1>4. CASE DropPermit
  <2>1. /\ worker.phase = "received" /\ worker' = [phase |-> "starting", job |-> worker.job]
        /\ UNCHANGED <<channel, job>>
    BY <1>1, <1>4, WorkerMoved DEF DropPermit
  <2>2. Line = <<worker.job>> \o channel /\ Line' = channel
    BY <2>1 DEF Line
  <2>3. Line # <<>> /\ Head(Line) = worker.job /\ Tail(Line) = channel
    BY <1>1, <2>1, <2>2
  <2>4. Desk = Service!Free /\ Desk' = [phase |-> "called", job |-> worker.job]
    BY <2>1 DEF Desk, Service!Free
  <2>5. UNCHANGED Performed
    BY <2>1 DEF Performed
  <2>6. Service!Call
    BY <1>2, <2>2, <2>3, <2>4, <2>5 DEF Service!Call
  <2> QED
    BY <2>6 DEF Service!Next
<1>5. CASE SendStarted
  <2>1. /\ worker.phase = "starting" /\ worker' = [phase |-> "running", job |-> worker.job]
        /\ started[worker.job] = "open" /\ UNCHANGED channel
        /\ job' = [job EXCEPT ![worker.job] = "running"]
    BY <1>1, <1>5, WorkerMoved DEF SendStarted, queueVars
  <2>2. UNCHANGED Line
    BY <2>1 DEF Line
  <2>3. /\ Desk = [phase |-> "called", job |-> worker.job]
        /\ Desk' = [phase |-> "busy", job |-> worker.job]
    BY <2>1 DEF Desk
  <2>4. Verdict[worker.job] = "none"
    BY <1>1, <2>1
       DEF Consistent, Outside, Inside, AtWorker, Receivers, Left, Verdict, GaveUp, TypeOK, Results
  <2>5. UNCHANGED Performed
    <3>1. job[worker.job] = "fresh"
      BY <1>1, <2>1 DEF Consistent, Signals, WorkerIn
    <3> QED
      BY <1>1, <2>1, <3>1 DEF Performed, Results, TypeOK
  <2>6. Service!Start
    BY <1>2, <2>2, <2>3, <2>4, <2>5 DEF Service!Start
  <2> QED
    BY <2>6 DEF Service!Next
<1>6. CASE FailStarted
  <2>1. /\ worker.phase = "starting" /\ worker' = [phase |-> "abandoned", job |-> worker.job]
        /\ UNCHANGED <<channel, job>>
    BY <1>1, <1>6, WorkerMoved DEF FailStarted, queueVars
  <2>2. UNCHANGED <<Line, Desk, Performed>>
    BY <2>1 DEF Line, Desk, Performed
  <2> QED
    BY <1>2, <2>2 DEF Service!vars
<1>7. CASE Abandon
  <2>1. /\ worker.phase = "abandoned" /\ worker' = IdleWorker /\ UNCHANGED <<channel, job>>
    BY <1>1, <1>7, WorkerMoved DEF Abandon
  <2>2. UNCHANGED <<Line, Performed>>
    BY <2>1 DEF Line, Performed, IdleWorker
  <2>3. Desk = [phase |-> "called", job |-> worker.job] /\ Desk' = Service!Free
    BY <2>1 DEF Desk, IdleWorker, Service!Free
  <2>4. Verdict[worker.job] = "gaveUp"
    BY <1>1, <2>1
       DEF Consistent, Signals, WorkerIn, Receivers, Left, Outcomes, Inside, AtWorker, Verdict,
           GaveUp, TypeOK, Results
  <2>5. Service!Skip
    BY <1>2, <2>2, <2>3, <2>4 DEF Service!Skip
  <2> QED
    BY <2>5 DEF Service!Next
<1>8. CASE JobEnds
  <2>1. /\ worker.phase = "running" /\ worker' = [phase |-> "ran", job |-> worker.job]
        /\ UNCHANGED channel
    BY <1>1, <1>8, WorkerMoved DEF JobEnds, queueVars
  <2>2. PICK result \in Results : job' = [job EXCEPT ![worker.job] = result]
    BY <1>8 DEF JobEnds, JoinResult, Results
  <2>3. UNCHANGED Line
    BY <2>1 DEF Line
  <2>4. Desk = [phase |-> "busy", job |-> worker.job] /\ Desk' = Service!Free
    BY <2>1 DEF Desk, Service!Free
  <2>5. Performed' = [Performed EXCEPT ![worker.job] = result]
    BY <1>1, <2>1, <2>2 DEF Performed, TypeOK
  <2>6. Service!Perform
    BY <1>2, <2>3, <2>4, <2>5 DEF Service!Perform, Results, Service!Results
  <2> QED
    BY <2>6 DEF Service!Next
<1>9. CASE Uncount \/ Respond
  <2>1. /\ worker.phase \in {"ran", "answering"} /\ worker'.phase \in {"answering", "idle"}
        /\ UNCHANGED <<channel, job>>
    BY <1>1, <1>9, WorkerMoved DEF Uncount, Respond, queueVars, IdleWorker
  <2>2. UNCHANGED <<Line, Desk, Performed>>
    BY <2>1 DEF Line, Desk, Performed
  <2> QED
    BY <1>2, <2>2 DEF Service!vars
<1> QED
  BY <1>3, <1>4, <1>5, <1>6, <1>7, <1>8, <1>9 DEF WorkerStep

\* Initial states are initial states of the service.
LEMMA InitService == Init => Service!Init
<1> SUFFICES ASSUME Init PROVE Service!Init
  OBVIOUS
<1>1. Arriving = {} /\ Line = <<>> /\ Desk = Service!Free
  BY DEF Init, Arriving, Line, Desk, IdleWorker, Service!Free
<1>2. /\ Performed = [r \in Requests |-> "none"]
      /\ Verdict = [r \in Requests |-> "none"]
  BY DEF Init, Performed, Verdict, GaveUp, Results
<1> QED
  BY <1>1, <1>2 DEF Service!Init

\* The queue of src/queue.rs, with its permits, its counter, its channel of
\* another capacity and its two oneshots per request, is the bounded first-come,
\* first-served service that FifoService describes: who finds a free place is
\* admitted, the first in the line is served first, the work of a caller who gave
\* up is skipped, and everybody else receives the result of their own operation.
THEOREM QueueImplementsService == Spec => Refinement
<1>1. IInv /\ IInv' /\ [Next]_vars => [Service!Next]_(Service!vars)
  <2> SUFFICES ASSUME IInv, IInv', [Next]_vars
               PROVE  Service!Next \/ UNCHANGED Service!vars
    OBVIOUS
  <2>1. CASE WorkerStep
    BY <2>1, WorkerService
  <2>2. ASSUME NEW r \in Requests,
               \/ Admit(r) \/ RefuseFull(r) \/ Count(r) \/ TrySend(r)
               \/ SeeStarted(r) \/ TimeOut(r) \/ Receive(r) \/ Disconnect(r)
        PROVE  Service!Next \/ UNCHANGED Service!vars
    BY <2>2, ClientService
  <2>3. CASE UNCHANGED vars
    <3>1. UNCHANGED <<Line, Desk, Performed, Arriving, Verdict>>
      BY <2>3 DEF vars, Line, Desk, Performed, Arriving, Verdict, GaveUp
    <3> QED
      BY <3>1 DEF Service!vars
  <2> QED
    BY <2>1, <2>2, <2>3 DEF Next
<1> QED
  BY <1>1, InitService, AlwaysIInv, PTL DEF Spec, Refinement, Service!Spec
=============================================================================
