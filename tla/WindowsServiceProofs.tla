------------------------ MODULE WindowsServiceProofs ------------------------
(***************************************************************************)
(* StoppedIsQuiet of WindowsService, for any number of operators, clients   *)
(* and starts.  The status that the manager keeps is that of the last       *)
(* process only, so the invariant ties both together and says that earlier  *)
(* processes are over, that HTTP requests are where the server still runs,  *)
(* and that other work is where the runtime does.                           *)
(***************************************************************************)
EXTENDS WindowsService, TLAPS

Over == {"leaving", "exited"}
Served == {"serving", "draining"}
Running == Served \union {"served", "leaving"}

\* The status and the process that has reported it.
StatusTrue ==
  /\ starts = 0 \/ ~scm.exists => scm.status = "Stopped"
  /\ \A p \in Processes :
       /\ p < starts => proc[p] \in Over
       /\ p = starts =>
            /\ scm.status = "Stopped" => proc[p] \in Over
            /\ scm.status = "Running" =>
                 proc[p] \in {"starting", "preloading", "served"} \union Served

RequestsServed ==
  \A c \in Clients :
    /\ client[c].to = 0 <=> client[c] = NoRequest
    /\ client[c].to = 0 <=> client[c].phase = "none"
    /\ \A p \in Processes : client[c].to = p =>
         proc[p] \in Served \/ (client[c].phase = "realtime" /\ proc[p] \in Running)

OrphansRun == \A p \in orphans : proc[p] \in Running

IInv == TypeOK /\ StatusTrue /\ RequestsServed /\ OrphansRun

\* Which step belongs to which command; an open handle keeps the entry, and an
\* install starts what it has configured.
HandlesHold ==
  \A o \in Operators :
    /\ HoldsEntry(o) => scm.exists
    /\ op[o].step \in {"create", "configure"} => op[o].cmd = "install"
    /\ op[o].step \in {"stop", "query", "delete", "none"} => op[o].cmd # "install"
    /\ op[o].step = "start" /\ op[o].cmd = "install" => scm.recovery
    /\ op[o].step # "none" => op[o].result = "none"

-----------------------------------------------------------------------------
LEMMA Initially == Init => IInv
<1> SUFFICES ASSUME Init PROVE IInv
  OBVIOUS
<1> USE DEF Init, NoEntry, NoRequest, Ended, Processes
<1>1. TypeOK
  BY ServiceAssumption DEF TypeOK, Alive, Phases
<1>2. StatusTrue /\ RequestsServed /\ OrphansRun
  BY ServiceAssumption DEF StatusTrue, RequestsServed, OrphansRun
<1> QED
  BY <1>1, <1>2 DEF IInv

\* The operators' records keep their types.
OpType == [Operators -> [cmd : Commands \union {"none"},
             step : {"none", "create", "configure", "stop", "query", "start", "delete"},
             result : {"none", "ok", "err"}, since : 0..MaxStarts, count : 0..MaxCommands]]

LEMMA GoesOrReturns ==
  ASSUME op \in OpType, NEW o \in Operators,
         NEW step \in {"none", "create", "configure", "stop", "query", "start", "delete"},
         NEW result \in {"ok", "err"}, Goes(o, step) \/ Returns(o, result)
  PROVE  op' \in OpType
<1>1. CASE Goes(o, step)
  BY <1>1 DEF OpType, Goes
<1>2. CASE Returns(o, result)
  <2>1. 0 \in 0..MaxStarts /\ op[o].count \in 0..MaxCommands
    BY ServiceAssumption DEF OpType
  <2> QED
    BY <1>2, <2>1 DEF OpType, Returns, Ended
<1> QED
  BY <1>1, <1>2

\* Whoever starts the process: it is the last one, and the others are over.
LEMMA LaunchStep ==
  ASSUME IInv, Launch, UNCHANGED workVars, op' \in OpType
  PROVE  IInv'
<1> USE DEF IInv, Launch, CanStart, Processes, workVars
<1>1. /\ starts \in Nat /\ starts + 1 \in Processes /\ starts' = starts + 1
      /\ starts + 1 > starts
  BY ServiceAssumption DEF TypeOK
<1>2. \A p \in Processes : proc'[p] = IF p = starts + 1 THEN "launched" ELSE proc[p]
  BY DEF TypeOK
<1>3. TypeOK'
  <2>1. /\ scm' \in [exists : BOOLEAN, deleting : BOOLEAN, recovery : BOOLEAN,
                     status : {"Stopped", "StartPending", "Running"}, restart : BOOLEAN]
        /\ starts' \in 0..MaxStarts
    <3>1. scm' \in [exists : BOOLEAN, deleting : BOOLEAN, recovery : BOOLEAN,
                     status : {"Stopped", "StartPending", "Running"}, restart : BOOLEAN]
      BY DEF TypeOK
    <3> QED
      BY <1>1, <3>1, ServiceAssumption
  <2>2. /\ proc' \in [Processes -> Alive \union {"none", "exited"}]
        /\ \A p \in Processes : proc'[p] = "none" <=> p > starts'
    BY <1>1, <1>2, ServiceAssumption DEF TypeOK, Alive
  <2>3. /\ told' \in [Processes -> BOOLEAN]
        /\ \A p \in Processes : told'[p] => proc'[p] \notin {"none", "launched", "loading"}
    <3>1. told' = told /\ \A p \in Processes : told[p] => p # starts + 1
      BY <1>1 DEF TypeOK
    <3> QED
      BY <1>2, <3>1 DEF TypeOK
  <2> QED
    BY <2>1, <2>2, <2>3 DEF TypeOK, OpType
<1>4. StatusTrue'
  BY <1>1, <1>2, ServiceAssumption DEF StatusTrue, TypeOK
<1>5. RequestsServed' /\ OrphansRun'
  <2>1. \A p \in Processes : proc[p] \in Running => proc'[p] = proc[p]
    BY <1>1, <1>2 DEF TypeOK, Served, Running
  <2>2. RequestsServed'
    BY <2>1 DEF RequestsServed, Running
  <2>3. OrphansRun'
    BY <2>1 DEF OrphansRun, TypeOK
  <2> QED
    BY <2>2, <2>3
<1> QED
  BY <1>3, <1>4, <1>5

\* A stop control reaches the last process once it has reported Running.
LEMMA ControlStep ==
  ASSUME IInv, NEW p \in Processes, Control(p), op' \in OpType
  PROVE  IInv'
<1> USE DEF IInv, Control, workVars
<1>1. TypeOK'
  BY DEF TypeOK, StatusTrue, OpType, Served
<1>2. StatusTrue' /\ RequestsServed'
  BY DEF StatusTrue, RequestsServed, Processes
<1>3. OrphansRun'
  BY DEF OrphansRun
<1> QED
  BY <1>1, <1>2, <1>3

\* The process that moves is the last one, unless it only exits.
LEMMA ProcessSteps ==
  ASSUME IInv, NEW p \in Processes, ProcessStep(p), ~Exit(p)
  PROVE  IInv'
<1> USE DEF IInv, workVars
<1>1. /\ starts \in 0..MaxStarts /\ p \in 1..MaxStarts
      /\ proc \in [Processes -> Alive \union {"none", "exited"}]
      /\ proc[p] \notin Over \union {"none"} => p = starts
  BY ServiceAssumption DEF TypeOK, StatusTrue, Over, Processes
<1>2. TypeOK' /\ StatusTrue'
  <2> USE <1>1 DEF Moves, Reported, TypeOK, StatusTrue, Over, Served, Alive
  <2>1. CASE Register(p)
    BY <2>1 DEF Register
  <2>2. CASE Startup(p)
    BY <2>2 DEF Startup
  <2>3. CASE Bind(p)
    BY <2>3 DEF Bind
  <2>4. CASE Preloaded(p)
    BY <2>4 DEF Preloaded
  <2>5. CASE Shutdown(p)
    BY <2>5 DEF Shutdown
  <2>6. CASE Drained(p)
    BY <2>6 DEF Drained
  <2>7. CASE ReportStopped(p)
    BY <2>7 DEF ReportStopped
  <2> QED
    BY <2>1, <2>2, <2>3, <2>4, <2>5, <2>6, <2>7 DEF ProcessStep
<1>3. /\ UNCHANGED workVars /\ \A q \in Processes : q # p => proc'[q] = proc[q]
      /\ proc[p] \in Running => proc'[p] \in Running
      /\ proc[p] \in Served => \/ proc'[p] \in Served
                               \/ \A c \in Clients : client[c].to = p => client[c].phase = "realtime"
  BY <1>1 DEF ProcessStep, Register, Startup, Bind, Preloaded, Shutdown, Drained, ReportStopped, Moves,
              Served, Running
<1>4. RequestsServed' /\ OrphansRun'
  <2>1. orphans \subseteq Processes
    BY DEF TypeOK
  <2> QED
    BY <1>3, <2>1 DEF RequestsServed, OrphansRun, Running
<1> QED
  BY <1>2, <1>4

\* The work of a process ends with it.
LEMMA WorkEnded ==
  ASSUME TypeOK, RequestsServed, OrphansRun, NEW p \in Processes, WorkEnds(p),
         proc' = [proc EXCEPT ![p] = "exited"]
  PROVE  /\ RequestsServed' /\ OrphansRun'
         /\ client' \in [Clients -> [to : 0..MaxStarts, phase : Phases]]
         /\ orphans' \subseteq Processes
<1> USE DEF WorkEnds, TypeOK
<1>1. /\ client' \in [Clients -> [to : 0..MaxStarts, phase : Phases]]
      /\ orphans' \subseteq Processes
  BY ServiceAssumption DEF NoRequest, Phases
<1>2. \A c \in Clients : client'[c] = IF client[c].to = p THEN NoRequest ELSE client[c]
  OBVIOUS
<1>3. RequestsServed'
  BY <1>2 DEF RequestsServed, NoRequest, Processes
<1>4. OrphansRun'
  BY DEF OrphansRun
<1> QED
  BY <1>1, <1>3, <1>4

LEMMA ExitStep ==
  ASSUME IInv, NEW p \in Processes, Exit(p)
  PROVE  IInv'
<1> USE DEF IInv, Exit, Moves
<1>1. StatusTrue'
  BY DEF StatusTrue, TypeOK, Over, Served
<1>2. RequestsServed' /\ OrphansRun'
  BY WorkEnded
<1>3. TypeOK'
  BY WorkEnded DEF TypeOK, Alive
<1> QED
  BY <1>1, <1>2, <1>3

LEMMA CrashStep ==
  ASSUME IInv, NEW p \in Processes, Crash(p)
  PROVE  IInv'
<1> USE DEF IInv, Crash
<1>1. /\ proc \in [Processes -> Alive \union {"none", "exited"}]
      /\ p = starts /\ proc' = [proc EXCEPT ![p] = "exited"]
  BY ServiceAssumption DEF TypeOK, StatusTrue, Alive, Over, Processes
<1>2. TypeOK'
  <2>1. scm' = [scm EXCEPT !.status = "Stopped", !.restart = scm.recovery /\ ~scm.deleting]
    BY <1>1
  <2>2. scm' \in [exists : BOOLEAN, deleting : BOOLEAN, recovery : BOOLEAN,
                  status : {"Stopped", "StartPending", "Running"}, restart : BOOLEAN]
    BY <2>1 DEF TypeOK
  <2>3. /\ proc' \in [Processes -> Alive \union {"none", "exited"}]
        /\ \A q \in Processes : proc'[q] = "none" <=> q > starts
        /\ \A q \in Processes : told[q] => proc'[q] \notin {"none", "launched", "loading"}
    BY <1>1 DEF TypeOK, Alive
  <2> QED
    BY <1>1, <2>2, <2>3, WorkEnded DEF TypeOK
<1>3. StatusTrue'
  BY <1>1 DEF StatusTrue, TypeOK, Over
<1>4. RequestsServed' /\ OrphansRun'
  BY <1>1, WorkEnded
<1> QED
  BY <1>2, <1>3, <1>4

\* The steps of a client and of its job leave the service as it is.
LEMMA WorkStep ==
  ASSUME IInv, UNCHANGED <<scm, procVars, op>>, NEW c \in Clients, NEW q \in 0..MaxStarts,
         NEW phase \in Phases, client' = [client EXCEPT ![c] = [to |-> q, phase |-> phase]],
         q = 0 <=> phase = "none",
         q # 0 => proc[q] \in Served \/ (phase = "realtime" /\ proc[q] \in Running),
         orphans' = orphans \/ (client[c].phase = "working" /\ Orphaned(c))
  PROVE  IInv'
<1> USE DEF IInv, procVars
<1>1. /\ client[c].to \in 0..MaxStarts
      /\ client[c].phase = "working" => client[c].to \in Processes /\ proc[client[c].to] \in Running
  BY ServiceAssumption DEF TypeOK, RequestsServed, Processes, Running
<1>2. TypeOK'
  BY <1>1 DEF TypeOK, Orphaned
<1>3. StatusTrue'
  BY DEF StatusTrue
<1>4. RequestsServed'
  BY ServiceAssumption DEF RequestsServed, TypeOK, NoRequest, Processes
<1>5. OrphansRun'
  BY <1>1 DEF OrphansRun, Orphaned
<1> QED
  BY <1>2, <1>3, <1>4, <1>5

LEMMA ClientStep ==
  ASSUME IInv, NEW c \in Clients, Connect(c) \/ Sent(c) \/ Answered(c) \/ Leaves(c)
  PROVE  IInv'
<1>1. /\ client \in [Clients -> [to : 0..MaxStarts, phase : Phases]]
      /\ client[c] = [to |-> client[c].to, phase |-> client[c].phase]
      /\ client[c].to \in 0..MaxStarts
      /\ client[c].phase \in Phases
  BY DEF IInv, TypeOK
<1>2. CASE Connect(c)
  <2>1. PICK p \in Processes : /\ proc[p] = "serving"
                               /\ client' = [client EXCEPT ![c] = [to |-> p, phase |-> "sending"]]
    BY <1>2 DEF Connect
  <2>2. p \in 0..MaxStarts /\ p # 0 /\ proc[p] \in Served /\ "sending" \in Phases
    BY <2>1, ServiceAssumption DEF Processes, Served, Phases
  <2>3. UNCHANGED <<scm, procVars, op>> /\ orphans' = orphans
    BY <1>2 DEF Connect
  <2> QED
    BY <2>1, <2>2, <2>3, WorkStep
<1>3. ASSUME NEW phase \in {"working", "realtime", "reading"}, client[c].phase \in {"sending", "working"},
             client' = [client EXCEPT ![c].phase = phase], UNCHANGED <<scm, procVars, op>>,
             orphans' = orphans \/ (client[c].phase = "working" /\ Orphaned(c))
      PROVE  IInv'
  <2>1. client' = [client EXCEPT ![c] = [to |-> client[c].to, phase |-> phase]]
    <3>1. [client[c] EXCEPT !.phase = phase] = [to |-> client[c].to, phase |-> phase]
      BY <1>1
    <3>2. client' = [client EXCEPT ![c] = [client[c] EXCEPT !.phase = phase]]
      BY <1>3
    <3> QED
      BY <3>1, <3>2
  <2>2. client[c].to # 0 /\ client[c].to \in Processes /\ phase # "none" /\ phase \in Phases
    BY <1>1, <1>3, ServiceAssumption DEF IInv, RequestsServed, Processes, Phases
  <2>3. proc[client[c].to] \in Served
    BY <1>3, <2>2 DEF IInv, RequestsServed
  <2> QED
    BY <1>1, <1>3, <2>1, <2>2, <2>3, WorkStep
<1>4. CASE Leaves(c)
  <2>1. /\ client' = [client EXCEPT ![c] = [to |-> 0, phase |-> "none"]]
        /\ 0 \in 0..MaxStarts /\ "none" \in Phases
        /\ UNCHANGED <<scm, procVars, op>>
        /\ orphans' = orphans \/ (client[c].phase = "working" /\ Orphaned(c))
    BY <1>4, ServiceAssumption DEF Leaves, NoRequest, Phases
  <2> QED
    BY <2>1, WorkStep
<1> QED
  BY <1>2, <1>3, <1>4 DEF Connect, Sent, Answered

LEMMA JobStep ==
  ASSUME IInv, NEW p \in Processes, JobEnds(p)
  PROVE  IInv'
BY DEF IInv, JobEnds, TypeOK, StatusTrue, RequestsServed, OrphansRun, procVars

\* What a command does to the entry alone.
LEMMA EntryStep ==
  ASSUME IInv, op' \in OpType, UNCHANGED <<procVars, workVars>>,
         \/ scm' = scm
         \/ scm.status = "Stopped" /\ scm' = NoEntry
         \/ ~scm.exists /\ scm' = [NoEntry EXCEPT !.exists = TRUE]
         \/ scm.exists /\ scm' = [scm EXCEPT !.recovery = TRUE]
         \/ scm.exists /\ scm' = [scm EXCEPT !.deleting = TRUE]
  PROVE  IInv'
<1> USE DEF IInv, procVars, workVars
<1>1. /\ scm' \in [exists : BOOLEAN, deleting : BOOLEAN, recovery : BOOLEAN,
                   status : {"Stopped", "StartPending", "Running"}, restart : BOOLEAN]
      /\ scm'.status = scm.status
      /\ scm'.exists \/ scm.status = "Stopped"
  <2> USE DEF TypeOK, StatusTrue, NoEntry
  <2>1. CASE scm' = scm
    BY <2>1
  <2>2. CASE scm.status = "Stopped" /\ scm' = NoEntry
    BY <2>2
  <2>3. CASE ~scm.exists /\ scm' = [NoEntry EXCEPT !.exists = TRUE]
    BY <2>3
  <2>4. CASE scm.exists /\ scm' = [scm EXCEPT !.recovery = TRUE]
    BY <2>4
  <2>5. CASE scm.exists /\ scm' = [scm EXCEPT !.deleting = TRUE]
    BY <2>5
  <2> QED
    BY <2>1, <2>2, <2>3, <2>4, <2>5
<1>2. TypeOK'
  BY <1>1 DEF TypeOK, OpType
<1>3. StatusTrue' /\ RequestsServed' /\ OrphansRun'
  BY <1>1 DEF StatusTrue, RequestsServed, OrphansRun
<1> QED
  BY <1>2, <1>3

LEMMA CommandStep ==
  ASSUME IInv, HandlesHold, NEW o \in Operators, Issue(o) \/ Command(o)
  PROVE  IInv'
<1>1. op \in OpType
  BY DEF IInv, TypeOK, OpType
<1>2. CASE Issue(o)
  <2>1. /\ starts \in 0..MaxStarts /\ op[o].count + 1 \in 0..MaxCommands
    BY <1>2, ServiceAssumption DEF Issue, IInv, TypeOK
  <2>2. op' \in OpType
    BY <1>1, <1>2, <2>1 DEF Issue, OpType, FirstStep, Commands
  <2> QED
    BY <1>2, <2>2, EntryStep DEF Issue
<1>3. CASE Stop(o)
  BY <1>1, <1>3, GoesOrReturns, ControlStep, EntryStep DEF Stop
<1>4. CASE Query(o)
  BY <1>1, <1>4, GoesOrReturns, EntryStep DEF Query
<1>5. CASE StartIt(o)
  BY <1>1, <1>5, GoesOrReturns, LaunchStep, EntryStep DEF StartIt, procVars
<1>6. CASE Create(o)
  BY <1>1, <1>6, GoesOrReturns, EntryStep DEF Create
<1>7. CASE Configure(o)
  BY <1>1, <1>7, GoesOrReturns, EntryStep DEF Configure, HandlesHold, HoldsEntry
<1>8. CASE Delete(o)
  BY <1>1, <1>8, GoesOrReturns, EntryStep DEF Delete, HandlesHold, HoldsEntry
<1> QED
  BY <1>2, <1>3, <1>4, <1>5, <1>6, <1>7, <1>8 DEF Command

LEMMA Invariance == IInv /\ HandlesHold /\ [Next]_vars => IInv'
<1> SUFFICES ASSUME IInv, HandlesHold, [Next]_vars PROVE IInv'
  OBVIOUS
<1>1. op \in OpType
  BY DEF IInv, TypeOK, OpType
<1>2. CASE UNCHANGED vars
  BY <1>1, <1>2, EntryStep DEF vars
<1>3. CASE Restarts
  BY <1>1, <1>3, LaunchStep DEF Restarts
<1>4. CASE Removed
  BY <1>1, <1>4, EntryStep DEF Removed
<1>5. CASE OsShutdown
  BY <1>1, <1>5, ControlStep DEF OsShutdown
<1> QED
  BY <1>2, <1>3, <1>4, <1>5, ProcessSteps, ExitStep, CrashStep, ClientStep, JobStep, CommandStep DEF Next

-----------------------------------------------------------------------------
(* The commands. *)

\* The steps of a command that leave or end it.
LEMMA HandlesMoved ==
  ASSUME TypeOK, HandlesHold, NEW o \in Operators,
         ~scm.exists \/ (scm'.exists /\ (scm.recovery => scm'.recovery)),
         \/ \E result \in {"ok", "err"} : Returns(o, result)
         \/ \E step \in {"configure", "start", "query", "delete"} :
              /\ Goes(o, step)
              /\ op[o].step # "none" /\ scm'.exists
              /\ step = "configure" <=> op[o].cmd = "install" /\ step # "start"
              /\ step = "start" /\ op[o].cmd = "install" => scm'.recovery
  PROVE  HandlesHold'
<1>1. CASE \E result \in {"ok", "err"} : Returns(o, result)
  <2>1. PICK result \in {"ok", "err"} : Returns(o, result)
    BY <1>1
  <2>2. \A q \in Operators : q # o => op'[q] = op[q]
    BY <2>1 DEF Returns, TypeOK
  <2>3. op'[o].step = "none" /\ op'[o].cmd = "none"
    BY <2>1 DEF Returns, Ended, TypeOK
  <2> QED
    BY <2>2, <2>3 DEF HandlesHold, HoldsEntry
<1>2. ASSUME NEW step \in {"configure", "start", "query", "delete"}, Goes(o, step),
             op[o].step # "none", scm'.exists,
             step = "configure" <=> op[o].cmd = "install" /\ step # "start",
             step = "start" /\ op[o].cmd = "install" => scm'.recovery
      PROVE  HandlesHold'
  <2>1. \A q \in Operators : q # o => op'[q] = op[q]
    BY <1>2 DEF Goes, TypeOK
  <2>2. op'[o].step = step /\ op'[o].cmd = op[o].cmd /\ op'[o].result = op[o].result
    BY <1>2 DEF Goes, TypeOK
  <2> QED
    BY <1>2, <2>1, <2>2 DEF HandlesHold, HoldsEntry
<1> QED
  BY <1>1, <1>2

LEMMA HandlesStep ==
  ASSUME TypeOK, HandlesHold, [Next]_vars
  PROVE  HandlesHold'
<1> USE DEF HandlesHold, HoldsEntry
<1>1. CASE UNCHANGED op /\ scm'.exists = scm.exists /\ scm'.recovery = scm.recovery
  BY <1>1
<1>2. CASE Removed
  BY <1>2 DEF Removed
<1>3. ASSUME NEW o \in Operators, Issue(o) PROVE HandlesHold'
  BY <1>3 DEF Issue, TypeOK, FirstStep, Commands
<1>4. ASSUME NEW o \in Operators, Command(o) PROVE HandlesHold'
  <2> USE HandlesMoved
  <2>1. CASE Stop(o)
    BY <2>1 DEF Stop, Control, TypeOK
  <2>2. CASE Query(o)
    BY <2>2 DEF Query, TypeOK
  <2>3. CASE StartIt(o)
    BY <2>3 DEF StartIt, Launch, TypeOK
  <2>4. CASE Create(o)
    BY <2>4 DEF Create, NoEntry, TypeOK
  <2>5. CASE Configure(o)
    BY <2>5 DEF Configure, TypeOK
  <2>6. CASE Delete(o)
    BY <2>6 DEF Delete, TypeOK
  <2> QED
    BY <1>4, <2>1, <2>2, <2>3, <2>4, <2>5, <2>6 DEF Command
<1>5. CASE Restarts
  BY <1>1, <1>5 DEF Restarts, Launch, TypeOK
<1>6. CASE OsShutdown
  BY <1>1, <1>6 DEF OsShutdown, Control
<1>7. ASSUME NEW p \in Processes, ProcessStep(p) \/ Crash(p) \/ JobEnds(p) PROVE HandlesHold'
  BY <1>1, <1>7 DEF ProcessStep, Register, Startup, Bind, Preloaded, Shutdown, Drained,
                    ReportStopped, Exit, Crash, JobEnds, Reported, TypeOK
<1>8. ASSUME NEW c \in Clients, Connect(c) \/ Sent(c) \/ Answered(c) \/ Leaves(c) PROVE HandlesHold'
  BY <1>1, <1>8 DEF Connect, Sent, Answered, Leaves
<1> QED
  BY <1>1, <1>2, <1>3, <1>4, <1>5, <1>6, <1>7, <1>8 DEF Next, vars

LEMMA Always == Spec => [](IInv /\ HandlesHold)
<1>1. ASSUME Init PROVE HandlesHold
  <2>1. \A o \in Operators :
          op[o].cmd = "none" /\ op[o].step = "none" /\ op[o].result = "none"
    BY <1>1 DEF Init, Ended
  <2> QED
    BY <2>1 DEF HandlesHold, HoldsEntry
<1>2. IInv /\ HandlesHold /\ [Next]_vars => (IInv /\ HandlesHold)'
  BY Invariance, HandlesStep DEF IInv
<1> QED
  BY <1>1, <1>2, Initially, PTL DEF Spec

\* The types of the service's state; in particular a stop control reaches only a
\* process that has reported Running.
THEOREM ServiceTypes == Spec => []TypeOK
<1>1. IInv => TypeOK
  BY DEF IInv
<1> QED
  BY <1>1, Always, PTL

\* Whatever crashes, and however the commands of any number of operators
\* interleave: while the manager holds the service for stopped, no process
\* listens on the port and every HTTP request is over.  Realtime sessions and jobs
\* that nobody waits for are not awaited by the shutdown: those that still run
\* are of a process that is about to exit.
THEOREM QuietWhenStopped == Spec => []StoppedIsQuiet
<1>1. ASSUME IInv PROVE StoppedIsQuiet
  <2> SUFFICES ASSUME scm.status = "Stopped" PROVE StoppedIsQuiet
    BY DEF StoppedIsQuiet
  <2>1. \A p \in Processes : proc[p] \in Over \union {"none"}
    BY <1>1, ServiceAssumption DEF IInv, TypeOK, StatusTrue, Processes
  <2>2. \A p \in Processes : /\ ~Listening(p) /\ proc[p] \notin Served
                             /\ proc[p] \in Running => proc[p] = "leaving"
    BY <2>1 DEF Listening, Over, Served, Running
  <2>3. ASSUME NEW c \in Clients, client[c] # NoRequest
        PROVE  client[c].phase = "realtime" /\ proc[client[c].to] = "leaving"
    <3>1. client[c].to \in 0..MaxStarts /\ client[c].to # 0
      BY <1>1, <2>3 DEF IInv, TypeOK, RequestsServed
    <3>2. client[c].to \in Processes
      BY <3>1, ServiceAssumption DEF Processes
    <3> QED
      BY <1>1, <2>2, <3>2 DEF IInv, RequestsServed
  <2>4. \A p \in orphans : proc[p] = "leaving"
    BY <1>1, <2>2 DEF IInv, TypeOK, OrphansRun
  <2> QED
    BY <2>2, <2>3, <2>4 DEF StoppedIsQuiet
<1> QED
  BY <1>1, Always, PTL

\* An install that succeeds has left a service with its recovery, although other
\* operators may stop, start or uninstall it between the install's steps.
THEOREM InstallsWhole == Spec => InstalledIsWhole
<1>1. ASSUME TypeOK, HandlesHold, [Next]_vars, NEW o \in Operators,
             op[o].cmd = "install", op'[o].result = "ok"
      PROVE  scm'.recovery
  <2>1. op[o].step \in {"create", "configure", "start"} /\ op[o].result = "none"
    BY <1>1 DEF HandlesHold, TypeOK
  <2>2. op'[o] # op[o]
    BY <1>1, <2>1
  <2>3. ~Issue(o)
    BY <2>1 DEF Issue
  <2>4. \A q \in Operators : q # o => ~Issue(q) /\ ~Command(q)
    BY <1>1, <2>2 DEF Issue, Command, Stop, Query, StartIt, Create, Configure, Delete, Goes, Returns, TypeOK
  <2>5. Command(o)
    BY <1>1, <2>2, <2>3, <2>4
       DEF Next, vars, Restarts, Removed, OsShutdown, ProcessStep, Register, Startup, Bind, Preloaded,
           Shutdown, Drained, ReportStopped, Exit, Crash, Connect, Sent, Answered, Leaves, JobEnds
  <2>6. CASE StartIt(o)
    BY <1>1, <2>6 DEF StartIt, Launch, HandlesHold, TypeOK
  <2>7. ~Stop(o) /\ ~Query(o) /\ ~Delete(o)
    BY <2>1 DEF Stop, Query, Delete
  <2>8. ~Create(o) /\ ~Configure(o)
    BY <1>1, <2>1 DEF Create, Configure, Goes, Returns, Ended, TypeOK
  <2> QED
    BY <2>5, <2>6, <2>7, <2>8 DEF Command
<1>2. TypeOK /\ HandlesHold /\ [Next]_vars
        => [\A o \in Operators :
              op[o].cmd = "install" /\ op'[o].result = "ok" => scm'.recovery]_vars
  BY <1>1
<1>3. IInv => TypeOK
  BY DEF IInv
<1> QED
  BY <1>2, <1>3, Always, PTL DEF Spec, InstalledIsWhole
=============================================================================
