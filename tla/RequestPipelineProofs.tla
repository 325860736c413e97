----------------------- MODULE RequestPipelineProofs -----------------------
(***************************************************************************)
(* Proofs about RequestPipeline, for every set of requests and models,      *)
(* every limit of the queue and every list of models to preload.  The       *)
(* invariant has four parts: where a request is in the queue, what is known *)
(* of a request that is there, how far the job at the desk has come, and    *)
(* what the caches hold.                                                    *)
(***************************************************************************)
EXTENDS RequestPipeline, TLAPS

Outcomes == {"none", "done", "load_failed", "infer_failed", "panic"}
InLine(r) == Queue!InLine(r)
AtDesk(r) == Queue!AtDesk(r)
InSystem(r) == r \in admitted \/ InLine(r) \/ AtDesk(r)

Types ==
  /\ asked \in [Requests -> Inputs \union {NotAsked}]
  /\ reply \in [Requests -> Codes \union {"none", "gone"}]
  /\ outcome \in [Requests -> Outcomes]
  /\ performed \in [Requests -> {"none", "ok", "err"}]
  /\ verdict \in [Requests -> {"none", "refused", "gaveUp", "ok", "err"}]

\* A request is in one place of the queue at a time.
Places ==
  /\ admitted \subseteq Requests
  /\ line \in Seq(Requests)
  /\ desk.phase \in {"free", "called", "busy"}
  /\ desk.phase # "free" => desk.job \in Requests
  /\ \A i, j \in DOMAIN line : line[i] = line[j] => i = j
  /\ \A r \in Requests :
       /\ r \in admitted => ~InLine(r) /\ ~AtDesk(r)
       /\ InLine(r) => ~AtDesk(r)

-----------------------------------------------------------------------------
(* The line. *)

LEMMA Joined ==
  ASSUME NEW r \in Requests, line \in Seq(Requests), line' = Append(line, r),
         \A i, j \in DOMAIN line : line[i] = line[j] => i = j, ~InLine(r)
  PROVE  /\ line' \in Seq(Requests)
         /\ \A i, j \in DOMAIN line' : line'[i] = line'[j] => i = j
         /\ \A q \in Requests : InLine(q)' <=> InLine(q) \/ q = r
<1>1. /\ line' \in Seq(Requests) /\ Len(line') = Len(line) + 1
      /\ line'[Len(line) + 1] = r /\ \A i \in DOMAIN line : line'[i] = line[i]
  OBVIOUS
<1>2. DOMAIN line' = DOMAIN line \union {Len(line) + 1}
  BY <1>1
<1>3. \A q \in Requests : InLine(q)' <=> InLine(q) \/ q = r
  BY <1>1, <1>2 DEF InLine, Queue!InLine
<1>4. \A i, j \in DOMAIN line' : line'[i] = line'[j] => i = j
  BY <1>1, <1>2 DEF InLine, Queue!InLine
<1> QED
  BY <1>1, <1>3, <1>4

LEMMA Called ==
  ASSUME line \in Seq(Requests), line # <<>>, line' = Tail(line),
         \A i, j \in DOMAIN line : line[i] = line[j] => i = j
  PROVE  /\ line' \in Seq(Requests) /\ Head(line) \in Requests
         /\ \A i, j \in DOMAIN line' : line'[i] = line'[j] => i = j
         /\ InLine(Head(line))
         /\ \A q \in Requests : InLine(q)' <=> InLine(q) /\ q # Head(line)
<1>1. /\ line' \in Seq(Requests) /\ Len(line') = Len(line) - 1
      /\ Head(line) = line[1] /\ 1 \in DOMAIN line /\ Head(line) \in Requests
      /\ \A i \in DOMAIN line' : i + 1 \in DOMAIN line /\ line'[i] = line[i + 1]
  OBVIOUS
<1>2. \A i \in DOMAIN line : i # 1 => i - 1 \in DOMAIN line' /\ line'[i - 1] = line[i]
  BY <1>1
<1>3. \A i, j \in DOMAIN line' : line'[i] = line'[j] => i = j
  BY <1>1
<1>4. ASSUME NEW q \in Requests PROVE InLine(q)' <=> InLine(q) /\ q # Head(line)
  <2>1. ASSUME InLine(q)' PROVE InLine(q) /\ q # Head(line)
    <3>1. PICK i \in DOMAIN line' : line'[i] = q
      BY <2>1 DEF InLine, Queue!InLine
    <3>2. i + 1 \in DOMAIN line /\ line[i + 1] = q /\ i + 1 # 1
      BY <1>1, <3>1
    <3> QED
      BY <1>1, <3>2 DEF InLine, Queue!InLine
  <2>2. ASSUME InLine(q), q # Head(line) PROVE InLine(q)'
    <3>1. PICK i \in DOMAIN line : line[i] = q
      BY <2>2 DEF InLine, Queue!InLine
    <3>2. i - 1 \in DOMAIN line' /\ line'[i - 1] = q
      BY <1>1, <1>2, <2>2, <3>1
    <3> QED
      BY <3>2 DEF InLine, Queue!InLine
  <2> QED
    BY <2>1, <2>2
<1>5. InLine(Head(line))
  BY <1>1 DEF InLine, Queue!InLine
<1> QED
  BY <1>1, <1>3, <1>4, <1>5

\* The steps that the queue takes, by where a request is before and after.
QueueUnmoved == UNCHANGED <<admitted, line, desk>>

LEMMA PlacesStep ==
  ASSUME Places, [Next]_vars
  PROVE  Places'
<1> USE DEF Places, InLine, AtDesk, Queue!InLine, Queue!AtDesk
<1>1. CASE QueueUnmoved
  BY <1>1 DEF QueueUnmoved
<1>2. ASSUME NEW r \in Requests, Submit(r) PROVE Places'
  <2>1. CASE Queue!Admit(r)
    BY <2>1 DEF Queue!Admit, Queue!Fresh
  <2>2. CASE Queue!Refuse(r)
    BY <1>1, <2>2 DEF Queue!Refuse, QueueUnmoved
  <2>3. CASE Queue!Join(r)
    <3>1. /\ line' \in Seq(Requests)
          /\ \A i, j \in DOMAIN line' : line'[i] = line'[j] => i = j
          /\ \A q \in Requests : InLine(q)' <=> InLine(q) \/ q = r
      BY <2>3, Joined DEF Queue!Join
    <3>2. admitted' = admitted \ {r} /\ desk' = desk /\ r \in admitted
      BY <2>3 DEF Queue!Join
    <3> HIDE DEF InLine
    <3> QED
      BY <3>1, <3>2
  <2> QED
    BY <1>2, <2>1, <2>2, <2>3 DEF Submit
<1>3. CASE Fetch
  <2>1. CASE Queue!Call
    <3>1. /\ line' \in Seq(Requests) /\ Head(line) \in Requests
          /\ \A i, j \in DOMAIN line' : line'[i] = line'[j] => i = j
          /\ InLine(Head(line))
          /\ \A q \in Requests : InLine(q)' <=> InLine(q) /\ q # Head(line)
      BY <2>1, Called DEF Queue!Call
    <3>2. admitted' = admitted /\ desk' = [phase |-> "called", job |-> Head(line)] /\ desk.phase = "free"
      BY <2>1 DEF Queue!Call, Queue!Free
    <3> HIDE DEF InLine
    <3>3. \A r \in Requests : r \in admitted => ~InLine(r)
      OBVIOUS
    <3> QED
      BY <3>1, <3>2, <3>3
  <2>2. CASE Queue!Start
    BY <2>2 DEF Queue!Start
  <2>3. CASE Queue!Skip
    BY <2>3 DEF Queue!Skip, Queue!Free
  <2> QED
    BY <1>3, <2>1, <2>2, <2>3 DEF Fetch
<1>4. CASE Finish
  BY <1>4 DEF Finish, Queue!Perform, Queue!Free
<1>5. ASSUME NEW r \in Requests, TimeOut(r) \/ Disconnect(r) \/ Answer(r) PROVE Places'
  <2>1. QueueUnmoved
    BY <1>5 DEF TimeOut, Disconnect, Answer, Queue!GiveUp, Queue!Deliver, queueVars, QueueUnmoved
  <2> QED
    BY <1>1, <2>1
<1> QED
  <2>1. CASE UNCHANGED queueVars
    BY <1>1, <2>1 DEF queueVars, QueueUnmoved
  <2>2. CASE ~UNCHANGED queueVars
    BY <1>2, <1>3, <1>4, <1>5, <2>2
       DEF Next, WorkerStep, PreloadNext, PreloadFails, StartServing, Arrive, Begin, LookUp, LoadModel, InsertModel, Infer,
           ListName, Panic, Clear, ClearNames, vars
  <2> QED
    BY <2>1, <2>2

-----------------------------------------------------------------------------
(* What is known of a request. *)

Runnable(q) == q.kind # "unload" => q.model \in Models /\ Type[q.model] = Wants(q.kind)
Waiting == {"none", "gone", "queue_timeout"}
Failures == {"load_failed", "infer_failed", "panic"}
Early == Codes \ {"ok", "queue_timeout", "model_load_failed", "inference_failed", "internal_error"}

About(r) ==
  /\ InSystem(r) => /\ performed[r] = "none" /\ reply[r] \in Waiting
                    /\ asked[r] # NotAsked /\ Runnable(asked[r])
  /\ performed[r] # "none" => asked[r] # NotAsked
  /\ asked[r] # NotAsked /\ reply[r] = "none" => Runnable(asked[r])
  /\ verdict[r] = "refused" => ~InSystem(r) /\ performed[r] = "none"
  /\ performed[r] = "ok" => outcome[r] = "done"
  /\ performed[r] = "err" => outcome[r] \in Failures
  /\ outcome[r] # "none" => performed[r] # "none" \/ (AtDesk(r) /\ job = "end")
  /\ reply[r] \in Early => performed[r] = "none"

Known == \A r \in Requests : About(r)

\* What the look-up has found out is true up to the insertion, although the lock
\* of the embedding cache is free in between.
GapUndisturbed == job \in {"load", "insert"} => ~Cached(Model)

\* The model that is loaded and not yet inserted.
AtHand(m) == job = "insert" /\ Key(m) = Key(Model)

\* How far the job has come, and what that says of the caches.
Progress ==
  /\ job \in {"idle", "find", "load", "insert", "infer", "list", "clear", "clearNames", "end"}
  /\ desk.phase # "busy" => job = "idle"
  /\ job \in {"find", "load", "insert", "infer", "list"} => Kind # "unload"
  /\ job \in {"clear", "clearNames"} => Kind = "unload"
  /\ GapUndisturbed
  /\ job = "infer" => Cached(Model)
  /\ job = "list" => Kind # "embed" /\ Cached(Model)
  /\ job = "end" => outcome[desk.job] # "none"
  /\ job = "clearNames" => sessions = {} /\ compiled = {}
  /\ job = "end" /\ Kind = "unload" => sessions = {} /\ compiled = {} /\ names = {}
  /\ server \in {"preloading", "serving", "failed"}
  /\ server # "serving" => \A r \in Requests : asked[r] = NotAsked

Caches ==
  /\ preload \in Seq(Models)
  /\ sessions \subseteq Paths /\ names \subseteq Models
  /\ compiled \subseteq [path : Paths, id : Models]
  /\ current \in Requests \union {Nobody}
  /\ \A m \in names : Type[m] = "whisper" /\ (job # "clearNames" => Path[m] \in sessions)
  /\ loads \in [Keys -> Nat]
  /\ \A m \in Models : loads[Key(m)] = IF Cached(m) \/ AtHand(m) THEN 1 ELSE 0

IInv == Types /\ Places /\ Known /\ Progress /\ Caches /\ CurrentRequestExact /\ ReplyIsTrue

-----------------------------------------------------------------------------
LEMMA Initially == Init => IInv
<1> SUFFICES ASSUME Init PROVE IInv
  OBVIOUS
<1> USE DEF Init, Queue!Init, Queue!Free
<1>1. Types
  BY DEF Types, Codes, Outcomes
<1>2. Places
  BY DEF Places, InLine, AtDesk, Queue!InLine, Queue!AtDesk
<1>3. Known
  BY DEF Known, About, InSystem, InLine, AtDesk, Queue!InLine, Queue!AtDesk, Early, Codes
<1>4. Progress
  BY DEF Progress, GapUndisturbed
<1>5. Caches
  BY PipelineAssumption DEF Caches, Cached, AtHand, Keys
<1>6. CurrentRequestExact
  BY DEF CurrentRequestExact
<1>7. ReplyIsTrue
  BY DEF ReplyIsTrue
<1> QED
  BY <1>1, <1>2, <1>3, <1>4, <1>5, <1>6, <1>7 DEF IInv

LEMMA CheckedInput ==
  ASSUME NEW q \in Inputs
  PROVE  /\ Checked(q) \in {"none", "ok"} \union Early
         /\ Checked(q) = "none" => Runnable(q)
         /\ Checked(q) = "ok" => q.body = "silence"
BY DecodeAssumption DEF Checked, Runnable, Early, Codes, Wants

\* Which requests come into the queue.
LEMMA SystemStep ==
  ASSUME Places, [Next]_vars
  PROVE  /\ \A r \in Requests : InSystem(r)' =>
                \/ InSystem(r)
                \/ asked[r] # NotAsked /\ reply[r] = "none" /\ Submit(r) /\ Queue!Admit(r)
         /\ job # "idle" /\ desk.phase = "busy"
              => Finish \/ UNCHANGED desk
<1> USE DEF Places, InSystem
<1>1. ASSUME NEW r \in Requests, Submit(r)
      PROVE  /\ UNCHANGED desk
             /\ \A q \in Requests : InSystem(q)' =>
                  InSystem(q) \/ (q = r /\ asked[r] # NotAsked /\ reply[r] = "none" /\ Queue!Admit(r))
  <2>1. CASE Queue!Admit(r)
    BY <1>1, <2>1 DEF Submit, Queue!Admit, InLine, AtDesk, Queue!InLine, Queue!AtDesk
  <2>2. CASE Queue!Refuse(r)
    BY <2>2 DEF Queue!Refuse, InLine, AtDesk, Queue!InLine, Queue!AtDesk
  <2>3. CASE Queue!Join(r)
    BY <2>3, Joined DEF Queue!Join, AtDesk, Queue!AtDesk
  <2> QED
    BY <1>1, <2>1, <2>2, <2>3 DEF Submit
<1>2. ASSUME Fetch
      PROVE  /\ desk.phase # "busy"
             /\ \A q \in Requests : InSystem(q)' => InSystem(q)
  <2>1. CASE Queue!Call
    BY <2>1, Called DEF Queue!Call, Queue!Free, AtDesk, Queue!AtDesk
  <2>2. CASE Queue!Start
    BY <2>2 DEF Queue!Start, InLine, AtDesk, Queue!InLine, Queue!AtDesk
  <2>3. CASE Queue!Skip
    BY <2>3 DEF Queue!Skip, Queue!Free, InLine, AtDesk, Queue!InLine, Queue!AtDesk
  <2> QED
    BY <1>2, <2>1, <2>2, <2>3 DEF Fetch
<1>3. Finish => \A q \in Requests : InSystem(q)' => InSystem(q)
  BY DEF Finish, Queue!Perform, Queue!Free, InLine, AtDesk, Queue!InLine, Queue!AtDesk
<1>4. CASE QueueUnmoved
  BY <1>4 DEF QueueUnmoved, InLine, AtDesk, Queue!InLine, Queue!AtDesk
<1>5. ASSUME NEW r \in Requests, TimeOut(r) \/ Disconnect(r) \/ Answer(r) PROVE QueueUnmoved
  BY <1>5 DEF TimeOut, Disconnect, Answer, Queue!GiveUp, Queue!Deliver, queueVars, QueueUnmoved
<1> QED
  <2>1. CASE UNCHANGED queueVars
    BY <1>4, <2>1 DEF queueVars, QueueUnmoved
  <2>2. CASE \E r \in Requests : Submit(r)
    BY <1>1, <2>2
  <2>3. CASE Fetch
    BY <1>2, <2>3
  <2>4. CASE Finish
    BY <1>3, <2>4
  <2>5. CASE \E r \in Requests : TimeOut(r) \/ Disconnect(r) \/ Answer(r)
    BY <1>4, <1>5, <2>5
  <2> QED
    BY <2>1, <2>2, <2>3, <2>4, <2>5
       DEF Next, WorkerStep, PreloadNext, PreloadFails, StartServing, Arrive, Begin, LookUp, LoadModel, InsertModel, Infer,
           ListName, Panic, Clear, ClearNames, vars

\* What was asked stays asked.
LEMMA AskedKept ==
  ASSUME Types, [Next]_vars, NEW r \in Requests, asked[r] # NotAsked
  PROVE  asked'[r] = asked[r]
<1>1. ASSUME NEW q \in Requests, NEW i \in Inputs, Arrive(q, i) PROVE asked'[r] = asked[r]
  BY <1>1 DEF Arrive, Types
<1>2. CASE UNCHANGED asked
  BY <1>2
<1> QED
  BY <1>1, <1>2
     DEF Next, WorkerStep, PreloadNext, PreloadFails, StartServing, Submit, TimeOut, Disconnect, Answer,
         Fetch, Begin, LookUp, LoadModel, InsertModel, Infer, ListName, Panic, Clear, ClearNames, Finish, vars

\* A step of the job at the desk, other than its last one.
JobStep == Begin \/ LookUp \/ LoadModel \/ InsertModel \/ Infer \/ ListName \/ Panic \/ Clear \/ ClearNames

LEMMA JobMoves ==
  ASSUME Types, Places, JobStep
  PROVE  /\ desk.phase = "busy" /\ desk.job \in Requests /\ AtDesk(desk.job)
         /\ UNCHANGED <<queueVars, serverVars, asked, reply>>
         /\ \/ UNCHANGED outcome /\ job' # "end"
            \/ /\ job' = "end"
               /\ \E what \in Outcomes \ {"none"} :
                    outcome' = [outcome EXCEPT ![desk.job] = what]
BY DEF JobStep, Begin, LookUp, LoadModel, InsertModel, Infer, ListName, Panic, Clear, ClearNames, Doing, Goes, Becomes,
       Types, Places, Outcomes, AtDesk, Queue!AtDesk

LEMMA TypesStep ==
  ASSUME IInv, [Next]_vars
  PROVE  Types'
<1> USE DEF IInv, Types
<1>1. ASSUME NEW r \in Requests, NEW q \in Inputs, Arrive(r, q) PROVE Types'
  BY <1>1, CheckedInput DEF Arrive, queueVars, jobVars, Early, Codes
<1>2. ASSUME NEW r \in Requests, Submit(r) PROVE Types'
  BY <1>2 DEF Submit, Queue!Admit, Queue!Refuse, Queue!Join, jobVars
<1>3. ASSUME NEW r \in Requests, TimeOut(r) \/ Disconnect(r) PROVE Types'
  BY <1>3 DEF TimeOut, Disconnect, Queue!GiveUp, jobVars, Codes
<1>4. ASSUME NEW r \in Requests, Answer(r) PROVE Types'
  <2>1. ErrorCode(outcome[r]) \in Codes
    BY DEF ErrorCode, Codes
  <2> QED
    BY <1>4, <2>1 DEF Answer, Queue!Deliver, Queue!Results, queueVars, jobVars, Codes
<1>5. CASE Fetch
  BY <1>5 DEF Fetch, Queue!Call, Queue!Start, Queue!Skip, jobVars
<1>6. CASE JobStep
  BY <1>6, JobMoves DEF queueVars, Outcomes
<1>7. CASE Finish
  BY <1>7 DEF Finish, Queue!Perform, Queue!Results
<1>8. CASE UNCHANGED <<asked, reply, outcome, performed, verdict>>
  BY <1>8
<1> QED
  BY <1>1, <1>2, <1>3, <1>4, <1>5, <1>6, <1>7, <1>8
     DEF Next, WorkerStep, JobStep, PreloadNext, PreloadFails, StartServing, queueVars, jobVars, vars

LEMMA KnownStep ==
  ASSUME IInv, [Next]_vars
  PROVE  Known'
<1> USE DEF IInv
<1>0. /\ \A r \in Requests : InSystem(r)' =>
           InSystem(r) \/ (asked[r] # NotAsked /\ reply[r] = "none" /\ Submit(r) /\ Queue!Admit(r))
      /\ \A r \in Requests : asked[r] # NotAsked => asked'[r] = asked[r]
  BY SystemStep, AskedKept
<1>1. ASSUME NEW r \in Requests, NEW q \in Inputs, Arrive(r, q) PROVE Known'
  <2>1. \A p \in Requests : p # r => asked'[p] = asked[p] /\ reply'[p] = reply[p]
    BY <1>1 DEF Arrive, Types
  <2>2. asked'[r] = q /\ reply'[r] = Checked(q) /\ asked[r] = NotAsked
    BY <1>1 DEF Arrive, Types
  <2>3. UNCHANGED <<admitted, line, desk, performed, verdict, outcome, job>>
    BY <1>1 DEF Arrive, queueVars, jobVars
  <2>4. \A p \in Requests : (InSystem(p)' <=> InSystem(p)) /\ (AtDesk(p)' <=> AtDesk(p))
    BY <2>3 DEF InSystem, InLine, AtDesk, Queue!InLine, Queue!AtDesk
  <2> QED
    BY <2>1, <2>2, <2>3, <2>4, CheckedInput DEF Known, About, Types
<1>2. ASSUME NEW r \in Requests, Submit(r) PROVE Known'
  <2>1. /\ UNCHANGED <<asked, reply, performed, outcome, job, desk>>
        /\ asked[r] # NotAsked /\ reply[r] = "none"
    BY <1>2 DEF Submit, Queue!Admit, Queue!Refuse, Queue!Join, jobVars
  <2>2. \A p \in Requests : AtDesk(p)' <=> AtDesk(p)
    BY <2>1 DEF AtDesk, Queue!AtDesk
  <2>3. CASE UNCHANGED verdict
    <3>1. \A p \in Requests : InSystem(p)' =>
            InSystem(p) \/ (p = r /\ performed[r] = "none" /\ verdict[r] = "none")
            \/ (asked[p] # NotAsked /\ reply[p] = "none" /\ performed[p] = "none" /\ verdict[p] = "none")
      BY <1>0 DEF Queue!Admit, Queue!Fresh
    <3> QED
      BY <2>1, <2>2, <2>3, <3>1 DEF Known, About, Waiting, Types
  <2>4. CASE Queue!Refuse(r)
    <3>1. /\ \A p \in Requests : InSystem(p)' <=> InSystem(p)
          /\ ~InSystem(r) /\ performed[r] = "none"
          /\ verdict' = [verdict EXCEPT ![r] = "refused"]
      BY <2>4 DEF Queue!Refuse, Queue!Fresh, InSystem, InLine, AtDesk, Queue!InLine, Queue!AtDesk
    <3> QED
      BY <2>1, <2>2, <3>1 DEF Known, About, Types
  <2> QED
    BY <1>2, <2>3, <2>4 DEF Submit, Queue!Admit, Queue!Join
<1>3. ASSUME NEW r \in Requests, TimeOut(r) \/ Disconnect(r) PROVE Known'
  <2>1. /\ UNCHANGED <<admitted, line, desk, performed, asked, outcome, job>>
        /\ verdict' = [verdict EXCEPT ![r] = "gaveUp"]
        /\ reply' = [reply EXCEPT ![r] = "queue_timeout"] \/ reply' = [reply EXCEPT ![r] = "gone"]
    BY <1>3 DEF TimeOut, Disconnect, Queue!GiveUp, jobVars
  <2>2. \A p \in Requests : (InSystem(p)' <=> InSystem(p)) /\ (AtDesk(p)' <=> AtDesk(p))
    BY <2>1 DEF InSystem, InLine, AtDesk, Queue!InLine, Queue!AtDesk
  <2> QED
    BY <2>1, <2>2 DEF Known, About, Types, Waiting, Early, Codes
<1>4. ASSUME NEW r \in Requests, Answer(r) PROVE Known'
  <2>1. UNCHANGED <<admitted, line, desk, performed, asked, outcome, job>>
    BY <1>4 DEF Answer, Queue!Deliver, queueVars, jobVars
  <2>2. \A p \in Requests : (InSystem(p)' <=> InSystem(p)) /\ (AtDesk(p)' <=> AtDesk(p))
    BY <2>1 DEF InSystem, InLine, AtDesk, Queue!InLine, Queue!AtDesk
  <2>3. CASE verdict[r] = "refused" /\ UNCHANGED verdict /\ reply' = [reply EXCEPT ![r] = "queue_full"]
    BY <2>1, <2>2, <2>3 DEF Known, About, Types
  <2>4. CASE /\ performed[r] \in {"ok", "err"} /\ verdict' = [verdict EXCEPT ![r] = performed[r]]
             /\ reply' = [reply EXCEPT ![r] =
                            IF performed[r] = "ok" THEN "ok" ELSE ErrorCode(outcome[r])]
    <3>1. reply'[r] \notin Early /\ reply'[r] # "none" /\ ~InSystem(r)
      BY <2>4 DEF Known, About, Types, ErrorCode, Early
    <3> QED
      BY <2>1, <2>2, <2>4, <3>1 DEF Known, About, Types
  <2> QED
    BY <1>4, <2>3, <2>4 DEF Answer, Queue!Deliver, Queue!Results, queueVars
<1>5. CASE Fetch
  <2>1. /\ UNCHANGED <<performed, verdict, asked, reply, outcome, job>>
        /\ desk.phase # "busy"
    BY <1>5 DEF Fetch, Queue!Call, Queue!Start, Queue!Skip, Queue!Free, jobVars
  <2>2. \A p \in Requests : InSystem(p)' => InSystem(p)
    <3>1. ~\E p \in Requests : Queue!Admit(p)
      BY <1>5 DEF Fetch, Queue!Call, Queue!Start, Queue!Skip, Queue!Admit, Queue!Fresh
    <3> QED
      BY <1>0, <3>1
  <2>3. job # "end"
    BY <2>1 DEF Progress
  <2> QED
    BY <2>1, <2>2, <2>3 DEF Known, About
<1>6. CASE JobStep
  <2>1. /\ UNCHANGED <<admitted, line, desk, performed, verdict, asked, reply>>
        /\ desk.phase = "busy" /\ desk.job \in Requests /\ AtDesk(desk.job)
        /\ \/ UNCHANGED outcome
           \/ /\ job' = "end"
              /\ \E what \in Outcomes \ {"none"} : outcome' = [outcome EXCEPT ![desk.job] = what]
    BY <1>6, JobMoves DEF queueVars
  <2>2. \A p \in Requests : (InSystem(p)' <=> InSystem(p)) /\ (AtDesk(p)' <=> AtDesk(p))
    BY <2>1 DEF InSystem, InLine, AtDesk, Queue!InLine, Queue!AtDesk
  <2>3. performed[desk.job] = "none" /\ \A p \in Requests : AtDesk(p) <=> p = desk.job
    BY <2>1 DEF Known, About, InSystem, AtDesk, Queue!AtDesk
  <2>4. job # "end"
    BY <1>6 DEF JobStep, Begin, LookUp, LoadModel, InsertModel, Infer, ListName, Panic, Clear, ClearNames, Doing
  <2> QED
    BY <2>1, <2>2, <2>3, <2>4 DEF Known, About, Types
<1>7. CASE Finish
  <2>1. /\ UNCHANGED <<admitted, line, verdict, asked, reply, outcome>>
        /\ desk.phase = "busy" /\ job = "end" /\ desk' = [phase |-> "free", job |-> Nobody]
        /\ performed' = [performed EXCEPT ![desk.job] = Result(desk.job)]
        /\ desk.job \in Requests
    BY <1>7 DEF Finish, Doing, Queue!Perform, Queue!Free, Places, Types
  <2>2. \A p \in Requests : ~AtDesk(p)' /\ (InSystem(p)' => InSystem(p) /\ p # desk.job)
    BY <2>1 DEF Places, InSystem, InLine, AtDesk, Queue!InLine, Queue!AtDesk
  <2>3. /\ performed'[desk.job] \in {"ok", "err"} /\ outcome[desk.job] # "none"
        /\ performed'[desk.job] = "ok" <=> outcome[desk.job] = "done"
    BY <2>1 DEF Types, Result, Progress
  <2>4. InSystem(desk.job) /\ \A p \in Requests : AtDesk(p) => p = desk.job
    BY <2>1 DEF InSystem, AtDesk, Queue!AtDesk
  <2>5. \A p \in Requests : p # desk.job => performed'[p] = performed[p]
    BY <2>1 DEF Types
  <2>6. /\ asked[desk.job] # NotAsked /\ reply[desk.job] \notin Early
        /\ verdict[desk.job] # "refused" /\ Runnable(asked[desk.job])
    BY <2>1, <2>4 DEF Known, About, Waiting, Early, Codes
  <2>7. outcome[desk.job] \in {"done"} \union Failures
    BY <2>1, <2>3 DEF Types, Outcomes, Failures
  <2>8. ASSUME NEW p \in Requests, p # desk.job
        PROVE  outcome[p] # "none" => performed'[p] # "none"
    BY <2>4, <2>5, <2>8 DEF Known, About
  <2>9. ASSUME NEW p \in Requests, p # desk.job PROVE About(p)'
    BY <2>1, <2>2, <2>5, <2>8, <2>9 DEF Known, About, Waiting, Failures, Early, Codes, Runnable, Wants
  <2>10. ASSUME NEW p \in Requests, p = desk.job PROVE About(p)'
    BY <2>1, <2>2, <2>3, <2>6, <2>7, <2>10
       DEF About, Waiting, Failures, Early, Codes, Runnable, Wants
  <2> QED
    BY <2>9, <2>10 DEF Known
<1>8. CASE UNCHANGED <<queueVars, asked, reply, jobVars>>
  BY <1>8 DEF Known, About, InSystem, InLine, AtDesk, Queue!InLine, Queue!AtDesk, queueVars, jobVars
<1> QED
  BY <1>1, <1>2, <1>3, <1>4, <1>5, <1>6, <1>7, <1>8
     DEF Next, WorkerStep, JobStep, PreloadNext, PreloadFails, StartServing, vars

LEMMA ReplyStep ==
  ASSUME IInv, [Next]_vars
  PROVE  ReplyIsTrue'
<1> USE DEF IInv
<1>1. ASSUME NEW r \in Requests, NEW q \in Inputs, Arrive(r, q) PROVE ReplyIsTrue'
  <2>1. \A p \in Requests : p # r => asked'[p] = asked[p] /\ reply'[p] = reply[p]
    BY <1>1 DEF Arrive, Types
  <2>2. asked'[r] = q /\ reply'[r] = Checked(q) /\ asked[r] = NotAsked /\ outcome' = outcome
    BY <1>1 DEF Arrive, Types, jobVars
  <2>3. outcome[r] = "none"
    BY <2>2 DEF Known, About, InSystem
  <2> QED
    BY <2>1, <2>2, <2>3, CheckedInput DEF ReplyIsTrue, Early, Codes
<1>2. ASSUME NEW r \in Requests, TimeOut(r) \/ Disconnect(r) PROVE ReplyIsTrue'
  BY <1>2 DEF TimeOut, Disconnect, jobVars, ReplyIsTrue, Types
<1>3. ASSUME NEW r \in Requests, Answer(r) PROVE ReplyIsTrue'
  <2>1. UNCHANGED <<asked, outcome>>
    BY <1>3 DEF Answer, jobVars
  <2>2. CASE verdict[r] = "refused" /\ reply' = [reply EXCEPT ![r] = "queue_full"]
    <3>1. outcome[r] = "none"
      BY <2>2 DEF Known, About, InSystem
    <3> QED
      BY <2>1, <2>2, <3>1 DEF ReplyIsTrue, Types
  <2>3. CASE /\ performed[r] \in {"ok", "err"}
             /\ reply' = [reply EXCEPT ![r] =
                            IF performed[r] = "ok" THEN "ok" ELSE ErrorCode(outcome[r])]
    <3>1. CASE performed[r] = "ok"
      BY <2>1, <2>3, <3>1 DEF Known, About, ReplyIsTrue, Types
    <3>2. CASE performed[r] = "err"
      BY <2>1, <2>3, <3>2 DEF Known, About, Failures, ErrorCode, ReplyIsTrue, Types
    <3> QED
      BY <2>3, <3>1, <3>2
  <2> QED
    BY <1>3, <2>2, <2>3 DEF Answer, Queue!Deliver, Queue!Results
<1>4. CASE JobStep
  <2>1. /\ UNCHANGED <<asked, reply>> /\ desk.job \in Requests /\ AtDesk(desk.job)
        /\ \/ UNCHANGED outcome
           \/ \E what \in Outcomes \ {"none"} : outcome' = [outcome EXCEPT ![desk.job] = what]
    BY <1>4, JobMoves
  <2>2. reply[desk.job] \in Waiting
    BY <2>1 DEF Known, About, InSystem
  <2> QED
    BY <2>1, <2>2 DEF ReplyIsTrue, Waiting, Types
<1>5. CASE UNCHANGED <<asked, reply, outcome>>
  BY <1>5 DEF ReplyIsTrue
<1> QED
  BY <1>1, <1>2, <1>3, <1>4, <1>5
     DEF Next, WorkerStep, JobStep, PreloadNext, PreloadFails, StartServing, Submit, Fetch, Finish,
         jobVars, vars

-----------------------------------------------------------------------------
(* The job and the caches. *)

LEMMA CurrentStep ==
  ASSUME IInv, [Next]_vars
  PROVE  CurrentRequestExact'
<1> USE DEF IInv, CurrentRequestExact, Kind
<1>1. CASE UNCHANGED <<desk, job, current>>
  <2>1. desk.phase = "busy" => asked'[desk.job] = asked[desk.job]
    BY AskedKept DEF Places, Known, About, InSystem, AtDesk, Queue!AtDesk
  <2> QED
    BY <1>1, <2>1
<1>2. CASE Fetch
  <2>1. UNCHANGED <<job, current, asked>> /\ desk.phase # "busy"
    BY <1>2 DEF Fetch, Queue!Call, Queue!Start, Queue!Skip, Queue!Free, jobVars
  <2> QED
    BY <2>1 DEF Progress
<1>3. CASE Begin
  BY <1>3 DEF Begin, Doing, queueVars
<1>4. CASE JobStep /\ ~Begin
  <2>1. UNCHANGED <<desk, asked, current>> /\ job # "idle" /\ job' # "idle"
    BY <1>4 DEF JobStep, LookUp, LoadModel, InsertModel, Infer, ListName, Panic, Clear, ClearNames, Doing, Goes, Becomes,
                queueVars
  <2> QED
    BY <2>1
<1>5. CASE Finish
  BY <1>5 DEF Finish, Doing, Queue!Perform, Queue!Free
<1> QED
  BY <1>1, <1>2, <1>3, <1>4, <1>5
     DEF Next, WorkerStep, JobStep, PreloadNext, PreloadFails, StartServing, Arrive, Submit, TimeOut,
         Disconnect, Answer, Queue!Admit, Queue!Refuse, Queue!Join, Queue!GiveUp, Queue!Deliver,
         queueVars, jobVars, vars

\* An insertion puts the model, and no model of another key, into its cache.
LEMMA Inserted ==
  ASSUME Caches, NEW m \in Models, Insert(m)
  PROVE  /\ sessions \subseteq sessions' /\ sessions' \subseteq Paths
         /\ compiled' \subseteq [path : Paths, id : Models]
         /\ \A n \in Models : Cached(n)' <=> Cached(n) \/ Key(n) = Key(m)
<1>1. Path[m] \in Paths /\ Type[m] \in {"whisper", "embedding"}
  BY PipelineAssumption DEF Paths
<1>2. CASE Type[m] = "whisper"
  <2>1. sessions' = sessions \union {Path[m]} /\ compiled' = compiled
    BY <1>2 DEF Insert
  <2>2. \A n \in Models : Cached(n)' <=> Cached(n) \/ Key(n) = Key(m)
    BY <1>2, <2>1 DEF Cached, Key
  <2> QED
    BY <1>1, <2>1, <2>2 DEF Caches
<1>3. CASE Type[m] # "whisper"
  <2> DEFINE entry == [path |-> Path[m], id |-> m]
  <2>1. /\ sessions' = sessions /\ entry.path = Path[m]
        /\ \/ compiled' = compiled \union {entry}
           \/ compiled' = compiled /\ \E e \in compiled : e.path = Path[m]
    BY <1>3 DEF Insert
  <2>2. entry \in [path : Paths, id : Models]
    BY <1>1
  <2> HIDE DEF entry
  <2>3. \A n \in Models : Type[n] # "whisper" => Type[n] = Type[m]
    BY <1>1, <1>3, PipelineAssumption
  <2>4. \A p : (\E e \in compiled' : e.path = p) <=> (\E e \in compiled : e.path = p) \/ p = Path[m]
    BY <2>1
  <2>5. \A n \in Models : Cached(n)' <=> Cached(n) \/ Key(n) = Key(m)
    BY <1>3, <2>1, <2>3, <2>4 DEF Cached, Key
  <2> QED
    BY <2>1, <2>2, <2>5 DEF Caches
<1> QED
  BY <1>2, <1>3

\* A load counts for the models of one key.
LEMMA Counted ==
  ASSUME Caches, NEW m \in Models, loads[Key(m)] = 0, Load(m)
  PROVE  /\ loads' \in [Keys -> Nat]
         /\ \A n \in Models : loads'[Key(n)] = IF Key(n) = Key(m) THEN 1 ELSE loads[Key(n)]
<1>1. \A n \in Models : Key(n) \in Keys
  BY DEF Keys
<1>2. loads' = [loads EXCEPT ![Key(m)] = 1]
  BY DEF Load
<1> QED
  BY <1>1, <1>2 DEF Caches

\* The model of a job that needs one.
LEMMA JobsModel ==
  ASSUME IInv, desk.phase = "busy", Kind # "unload"
  PROVE  Model \in Models /\ Type[Model] = Wants(Kind)
<1>1. desk.job \in Requests /\ InSystem(desk.job)
  BY DEF IInv, Places, InSystem, AtDesk, Queue!AtDesk
<1> QED
  BY <1>1 DEF IInv, Known, About, Runnable, Model, Kind

\* Nobody else comes to the desk, nor asks for something else, while a job is there.
LEMMA ModelKept ==
  ASSUME IInv, [Next]_vars, job # "idle"
  PROVE  /\ desk.phase = "busy" /\ server = "serving"
         /\ ~Finish => UNCHANGED <<desk, Kind, Model>>
<1>1. desk.phase = "busy" /\ desk.job \in Requests /\ InSystem(desk.job)
  BY DEF IInv, Progress, Places, InSystem, AtDesk, Queue!AtDesk
<1>2. asked[desk.job] # NotAsked
  BY <1>1 DEF IInv, Known, About
<1>3. asked'[desk.job] = asked[desk.job] /\ server = "serving"
  BY <1>1, <1>2, AskedKept DEF IInv, Progress
<1>4. Finish \/ UNCHANGED desk
  BY <1>1, SystemStep DEF IInv
<1> QED
  BY <1>1, <1>3, <1>4 DEF Kind, Model

LEMMA CachesStep ==
  ASSUME IInv, [Next]_vars
  PROVE  Caches'
<1> USE DEF IInv
<1>0. job = "insert" /\ job' = "insert" => Model' = Model
  BY ModelKept DEF Finish, Doing
<1>1. CASE /\ UNCHANGED <<preload, cacheVars, current>>
           /\ job' # job => job # "insert" /\ job' # "insert" /\ job # "clearNames"
  BY <1>0, <1>1 DEF Caches, Cached, AtHand, cacheVars
<1>2. CASE PreloadNext
  <2>1. /\ Head(preload) \in Models /\ preload' \in Seq(Models)
        /\ UNCHANGED <<current, job>> /\ job = "idle"
    BY <1>2, ModelKept DEF PreloadNext, Caches, jobVars
  <2>1a. PICK m \in Models : m = Head(preload)
    BY <2>1
  <2>2. names' = IF Type[m] = "whisper" THEN names \union {m} ELSE names
    BY <1>2, <2>1a DEF PreloadNext
  <2>3. CASE Cached(m) /\ UNCHANGED <<sessions, compiled, loads>>
    BY <2>1, <2>2, <2>3 DEF Caches, Cached, AtHand
  <2>4. CASE ~Cached(m) /\ Load(m) /\ Insert(m)
    <3>1. /\ sessions \subseteq sessions' /\ sessions' \subseteq Paths
          /\ compiled' \subseteq [path : Paths, id : Models]
          /\ \A n \in Models : Cached(n)' <=> Cached(n) \/ Key(n) = Key(m)
      BY <2>4, Inserted
    <3>2. Type[m] = "whisper" => Path[m] \in sessions'
      BY <3>1 DEF Cached
    <3>3. loads[Key(m)] = 0
      BY <2>1, <2>4 DEF Caches, AtHand
    <3>4. /\ loads' \in [Keys -> Nat]
          /\ \A n \in Models : loads'[Key(n)] = IF Key(n) = Key(m) THEN 1 ELSE loads[Key(n)]
      BY <2>4, <3>3, Counted
    <3>5. \A n \in Models : loads'[Key(n)] = IF Cached(n)' \/ AtHand(n)' THEN 1 ELSE 0
      BY <2>1, <3>1, <3>4 DEF Caches, AtHand
    <3> QED
      BY <2>1, <2>2, <3>1, <3>2, <3>4, <3>5 DEF Caches
  <2> QED
    BY <1>2, <2>1a, <2>3, <2>4 DEF PreloadNext
<1>3. CASE LoadModel
  <2>1. /\ Model \in Models /\ Model' = Model /\ ~Cached(Model) /\ job = "load"
        /\ UNCHANGED <<sessions, compiled, names, current, preload>>
    BY <1>3, JobsModel, ModelKept DEF LoadModel, Doing, Progress, GapUndisturbed, Finish, serverVars
  <2>2. CASE Becomes("load_failed") /\ UNCHANGED loads
    BY <2>1, <2>2 DEF Becomes, Goes, Caches, Cached, AtHand
  <2>3. CASE Load(Model) /\ job' = "insert"
    <3>1. PICK m \in Models : m = Model
      BY <2>1
    <3>2. loads[Key(m)] = 0
      BY <2>1, <3>1 DEF Caches, AtHand
    <3>3. /\ loads' \in [Keys -> Nat]
          /\ \A n \in Models : loads'[Key(n)] = IF Key(n) = Key(m) THEN 1 ELSE loads[Key(n)]
      BY <2>3, <3>1, <3>2, Counted
    <3>4. \A n \in Models : /\ AtHand(n)' <=> Key(n) = Key(m)
                            /\ Cached(n)' <=> Cached(n)
                            /\ ~AtHand(n)
      BY <2>1, <2>3, <3>1 DEF AtHand, Cached
    <3>5. \A n \in Models : loads'[Key(n)] = IF Cached(n)' \/ AtHand(n)' THEN 1 ELSE 0
      BY <3>3, <3>4 DEF Caches
    <3> QED
      BY <2>1, <2>3, <3>3, <3>5 DEF Caches
  <2> QED
    BY <1>3, <2>2, <2>3 DEF LoadModel, Goes
<1>4. CASE InsertModel
  <2>1. /\ Model \in Models /\ job = "insert" /\ job' = "infer" /\ Insert(Model)
        /\ UNCHANGED <<names, loads, current, preload>>
    BY <1>4, JobsModel DEF InsertModel, Doing, Progress, Goes, serverVars
  <2>2. PICK m \in Models : m = Model
    BY <2>1
  <2>3. /\ sessions \subseteq sessions' /\ sessions' \subseteq Paths
        /\ compiled' \subseteq [path : Paths, id : Models]
        /\ \A n \in Models : Cached(n)' <=> Cached(n) \/ Key(n) = Key(m)
    BY <2>1, <2>2, Inserted
  <2>4. \A n \in Models : ~AtHand(n)' /\ (AtHand(n) <=> Key(n) = Key(m))
    BY <2>1, <2>2 DEF AtHand
  <2>5. \A n \in Models : loads'[Key(n)] = IF Cached(n)' \/ AtHand(n)' THEN 1 ELSE 0
    BY <2>1, <2>3, <2>4 DEF Caches
  <2> QED
    BY <2>1, <2>3, <2>5 DEF Caches
<1>5. CASE ListName
  <2>1. /\ Model \in Models /\ Type[Model] = "whisper" /\ Path[Model] \in sessions
        /\ job' = "end" /\ job = "list" /\ names' = names \union {Model}
        /\ UNCHANGED <<preload, sessions, compiled, loads, current>>
    BY <1>5, JobsModel DEF ListName, Doing, Progress, Becomes, Goes, Wants, Cached, serverVars
  <2> QED
    BY <2>1 DEF Caches, Cached, AtHand
<1>6. CASE Clear
  <2>1. /\ sessions' = {} /\ compiled' = {} /\ job' = "clearNames"
        /\ UNCHANGED <<preload, names, current>>
        /\ loads' = Unloaded({"whisper", "embedding"})
    BY <1>6 DEF Clear, Goes, serverVars
  <2>2. \A k \in Keys : k[1] \in {"whisper", "embedding"}
    BY PipelineAssumption DEF Keys, Key
  <2>3. loads' = [k \in Keys |-> 0]
    BY <2>1, <2>2 DEF Unloaded
  <2>4. \A n \in Models : ~Cached(n)' /\ ~AtHand(n)' /\ Key(n) \in Keys
    BY <2>1 DEF Cached, AtHand, Keys
  <2> QED
    BY <2>1, <2>3, <2>4 DEF Caches
<1>7. CASE ClearNames
  BY <1>7 DEF ClearNames, Doing, Becomes, Goes, Caches, Cached, AtHand, serverVars
<1>8. CASE Begin
  BY <1>8 DEF Begin, Doing, Places, Caches, Cached, AtHand, cacheVars, serverVars
<1>9. CASE Finish
  BY <1>9 DEF Finish, Doing, Caches, Cached, AtHand, cacheVars, serverVars
<1>10. CASE LookUp \/ Infer \/ Panic
  BY <1>1, <1>10 DEF LookUp, Infer, Panic, Doing, Goes, Becomes, serverVars
<1> QED
  BY <1>1, <1>2, <1>3, <1>4, <1>5, <1>6, <1>7, <1>8, <1>9, <1>10
     DEF Next, WorkerStep, PreloadFails, StartServing, Arrive, Submit, TimeOut, Disconnect, Answer,
         Fetch, serverVars, jobVars, vars

LEMMA ProgressStep ==
  ASSUME IInv, [Next]_vars
  PROVE  Progress'
<1> USE DEF IInv
<1>1. /\ server' \in {"preloading", "serving", "failed"}
      /\ server' # "serving" => \A r \in Requests : asked'[r] = NotAsked
  BY DEF Progress, Next, WorkerStep, PreloadNext, PreloadFails, StartServing, Arrive, Submit, TimeOut,
         Disconnect, Answer, Fetch, Begin, LookUp, LoadModel, InsertModel, Infer, ListName, Panic, Clear,
         ClearNames, Finish, serverVars, vars
<1>2. desk.phase = "busy" =>
        desk.job \in Requests /\ asked[desk.job] # NotAsked /\ asked'[desk.job] = asked[desk.job]
  <2>1. desk.phase = "busy" => desk.job \in Requests /\ InSystem(desk.job)
    BY DEF Places, InSystem, AtDesk, Queue!AtDesk
  <2> QED
    BY <2>1, AskedKept DEF Known, About
<1>3. CASE UNCHANGED <<desk, job, outcome, sessions, compiled, names>>
  BY <1>1, <1>2, <1>3 DEF Progress, GapUndisturbed, Kind, Model, Cached
<1>4. CASE PreloadNext
  <2>1. desk.phase # "busy"
    BY <1>2, <1>4 DEF PreloadNext, Progress
  <2> QED
    BY <1>1, <1>4, <2>1 DEF PreloadNext, queueVars, jobVars, Progress, GapUndisturbed
<1>5. CASE Fetch
  <2>1. desk.phase # "busy" /\ job' = job
    BY <1>5 DEF Fetch, Queue!Call, Queue!Start, Queue!Skip, Queue!Free, jobVars
  <2> QED
    BY <1>1, <2>1 DEF Progress, GapUndisturbed
<1>6. CASE Begin
  BY <1>1, <1>2, <1>6 DEF Begin, Doing, Progress, GapUndisturbed, Kind, Model, Cached, queueVars, cacheVars
<1>7. CASE LookUp
  BY <1>1, <1>2, <1>7 DEF LookUp, Doing, Goes, Progress, GapUndisturbed, Kind, Model, Cached, queueVars, cacheVars
<1>8. CASE LoadModel
  <2>1. /\ UNCHANGED <<desk, sessions, compiled, names>> /\ desk.phase = "busy" /\ job = "load"
    BY <1>8 DEF LoadModel, Doing, queueVars
  <2>2. CASE Becomes("load_failed")
    BY <1>1, <1>2, <2>1, <2>2 DEF Progress, GapUndisturbed, Kind, Becomes, Goes, Types
  <2>3. CASE Goes("insert") /\ UNCHANGED outcome
    BY <1>1, <1>2, <2>1, <2>3 DEF Progress, GapUndisturbed, Kind, Model, Cached, Goes
  <2> QED
    BY <1>8, <2>2, <2>3 DEF LoadModel
<1>9. CASE InsertModel
  <2>1. /\ desk' = desk /\ desk.phase = "busy" /\ job = "insert" /\ job' = "infer"
        /\ UNCHANGED <<names, outcome>> /\ Insert(Model)
        /\ Kind # "unload" /\ Kind' = Kind /\ Model' = Model /\ Model \in Models
    BY <1>2, <1>9, JobsModel DEF InsertModel, Doing, Goes, queueVars, Progress, Kind, Model
  <2>2. \A m \in Models : m = Model => Cached(m)'
    BY <2>1, Inserted
  <2>3. Cached(Model)'
    BY <2>1, <2>2 DEF Cached
  <2> QED
    BY <1>1, <2>1, <2>3 DEF Progress, GapUndisturbed
<1>10. CASE Infer \/ Panic
  <2>1. /\ UNCHANGED <<desk, sessions, compiled, names>> /\ desk.phase = "busy"
        /\ job \in {"load", "infer"}
        /\ \/ job = "infer" /\ job' = "list" /\ Kind # "embed" /\ UNCHANGED outcome
           \/ Becomes("done") \/ Becomes("infer_failed") \/ Becomes("panic")
    BY <1>10 DEF Infer, Panic, Doing, Goes, queueVars, cacheVars
  <2>2. CASE job = "infer" /\ job' = "list" /\ Kind # "embed" /\ UNCHANGED outcome
    BY <1>1, <1>2, <2>1, <2>2 DEF Progress, GapUndisturbed, Kind, Model, Cached
  <2>3. CASE Becomes("done") \/ Becomes("infer_failed") \/ Becomes("panic")
    BY <1>1, <1>2, <2>1, <2>3 DEF Progress, GapUndisturbed, Kind, Becomes, Goes, Types
  <2> QED
    BY <2>1, <2>2, <2>3
<1>11. CASE ListName
  BY <1>1, <1>2, <1>11 DEF ListName, Doing, Progress, GapUndisturbed, Kind, Becomes, Goes, Types, queueVars
<1>12. CASE Clear
  BY <1>1, <1>2, <1>12 DEF Clear, Doing, Progress, GapUndisturbed, Kind, Goes, queueVars
<1>13. CASE ClearNames
  BY <1>1, <1>2, <1>13 DEF ClearNames, Doing, Progress, GapUndisturbed, Kind, Becomes, Goes, Types, queueVars
<1>14. CASE Finish
  BY <1>1, <1>14 DEF Finish, Progress, GapUndisturbed, Queue!Perform, Queue!Free
<1> QED
  BY <1>3, <1>4, <1>5, <1>6, <1>7, <1>8, <1>9, <1>10, <1>11, <1>12, <1>13, <1>14
     DEF Next, WorkerStep, PreloadFails, StartServing, Arrive, Submit, TimeOut, Disconnect, Answer,
         Queue!Admit, Queue!Refuse, Queue!Join, Queue!GiveUp, Queue!Deliver, queueVars, cacheVars,
         jobVars, vars

LEMMA Always == Spec => []IInv
<1>1. IInv /\ [Next]_vars => IInv'
  BY TypesStep, PlacesStep, KnownStep, ProgressStep, CachesStep, CurrentStep, ReplyStep DEF IInv
<1> QED
  BY <1>1, Initially, PTL DEF Spec

-----------------------------------------------------------------------------
\* The types of the pipeline's state.
THEOREM PipelineTypes == Spec => []TypeOK
<1>1. IInv => TypeOK
  BY DEF IInv, Types, Progress, Caches, Outcomes, TypeOK
<1> QED
  BY <1>1, Always, PTL

\* /health names the request that runs and no other, whatever fails or panics and
\* whoever disconnects.
THEOREM HealthNamesTheRequest == Spec => []CurrentRequestExact
<1>1. IInv => CurrentRequestExact
  BY DEF IInv
<1> QED
  BY <1>1, Always, PTL

\* The code of an answer tells what became of the operation.
THEOREM AnswersAreTrue == Spec => []ReplyIsTrue
<1>1. IInv => ReplyIsTrue
  BY DEF IInv
<1> QED
  BY <1>1, Always, PTL

\* No directory is loaded twice by its executor between two unloads: what a job
\* found missing is still missing when it inserts the model, although look-up, load
\* and insertion are three steps and the lock is free between them, because no
\* other job comes to the desk.
THEOREM NoSecondLoad == Spec => [](LoadedOnce /\ GapUndisturbed)
<1>1. IInv => LoadedOnce /\ GapUndisturbed
  BY DEF IInv, Progress, Caches, Keys, LoadedOnce
<1> QED
  BY <1>1, Always, PTL

\* /health lists no whisper model whose session is gone.
THEOREM ListIsSound == Spec => []ListedIsCached
<1>1. IInv => ListedIsCached
  BY DEF IInv, Caches, ListedIsCached
<1> QED
  BY <1>1, Always, PTL

\* When an unload job ends, every cache is empty.
THEOREM UnloadIsComplete == Spec => UnloadFreesEverything
<1>1. ASSUME IInv, [Next]_vars, Doing("end"), Kind = "unload", job' = "idle"
      PROVE  sessions' = {} /\ names' = {} /\ compiled' = {}
  <2>1. /\ desk.phase = "busy" /\ job = "end" /\ sessions = {} /\ compiled = {} /\ names = {}
        /\ server = "serving"
    <3>1. desk.job \in Requests /\ InSystem(desk.job)
      BY <1>1 DEF IInv, Doing, Places, InSystem, AtDesk, Queue!AtDesk
    <3> QED
      BY <1>1, <3>1 DEF IInv, Doing, Progress, Known, About
  <2> QED
    BY <1>1, <2>1
       DEF Next, WorkerStep, PreloadNext, PreloadFails, StartServing, Arrive, Submit, TimeOut, Disconnect,
           Answer, Fetch, Begin, LookUp, LoadModel, InsertModel, Infer, ListName, Panic, Clear, ClearNames, Finish, Doing,
           cacheVars, vars
<1>2. IInv /\ [Next]_vars
        => [Doing("end") /\ Kind = "unload" /\ outcome[desk.job] = "done" /\ job' = "idle"
              => sessions' = {} /\ names' = {} /\ compiled' = {}]_vars
  BY <1>1
<1> QED
  BY <1>2, Always, PTL DEF Spec, UnloadFreesEverything
=============================================================================
