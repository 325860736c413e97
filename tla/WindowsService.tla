--------------------------- MODULE WindowsService ---------------------------
(***************************************************************************)
(* The Windows service of src/windows_service.rs: the process that the     *)
(* service manager starts, from service_main over the server of            *)
(* serve_until (src/http.rs) to its end, and the commands by which         *)
(* operators install, start, stop, restart and uninstall it.               *)
(*                                                                         *)
(* The service manager is external: it starts the process, keeps the       *)
(* status that the process has reported last, passes stop controls on, and *)
(* restarts what ended without a report.                                   *)
(***************************************************************************)
EXTENDS Naturals

CONSTANTS
  Operators,    \* who calls the commands, each one command after the other
  Clients,      \* HTTP clients
  MaxStarts,    \* bound: processes that are launched
  MaxCommands   \* bound: commands of an operator

ASSUME ServiceAssumption == MaxStarts \in Nat /\ MaxCommands \in Nat

Processes == 1..MaxStarts
Commands == {"install", "uninstall", "start", "stop", "restart"}
FirstStep == [c \in Commands |->
  CASE c = "install" -> "create" [] c = "start" -> "query" [] OTHER -> "stop"]

VARIABLES
  scm,          \* the entry of the service at the service manager
  starts,       \* processes launched so far; the last one is the service's
  proc,         \* where each process is
  told,         \* whether its shutdown_tx has been sent
  client,       \* each client's request: the process that has it, and its phase
  orphans,      \* processes whose worker runs a job that nobody waits for
  op            \* each operator's command

procVars == <<starts, proc, told>>
workVars == <<client, orphans>>
vars == <<scm, procVars, workVars, op>>

NoEntry == [exists |-> FALSE, deleting |-> FALSE, recovery |-> FALSE,
            status |-> "Stopped", restart |-> FALSE]
NoRequest == [to |-> 0, phase |-> "none"]
Phases == {"none", "sending", "working", "reading", "realtime"}
Ended(result, count) ==
  [cmd |-> "none", step |-> "none", result |-> result, since |-> 0, count |-> count]

Alive == {"launched", "loading", "starting", "preloading", "serving", "draining",
          "served", "leaving"}

TypeOK ==
  /\ scm \in [exists : BOOLEAN, deleting : BOOLEAN, recovery : BOOLEAN,
              status : {"Stopped", "StartPending", "Running"}, restart : BOOLEAN]
  /\ starts \in 0..MaxStarts
  /\ proc \in [Processes -> Alive \union {"none", "exited"}]
  /\ \A p \in Processes : proc[p] = "none" <=> p > starts
  /\ told \in [Processes -> BOOLEAN]
  /\ \A p \in Processes : told[p] => proc[p] \notin {"none", "launched", "loading"}
  /\ client \in [Clients -> [to : 0..MaxStarts, phase : Phases]]
  /\ orphans \subseteq Processes
  /\ op \in [Operators ->
              [cmd : Commands \union {"none"},
               step : {"none", "create", "configure", "stop", "query", "start", "delete"},
               result : {"none", "ok", "err"}, since : 0..MaxStarts, count : 0..MaxCommands]]

Init ==
  /\ scm = NoEntry
  /\ starts = 0
  /\ proc = [p \in Processes |-> "none"]
  /\ told = [p \in Processes |-> FALSE]
  /\ client = [c \in Clients |-> NoRequest]
  /\ orphans = {}
  /\ op = [o \in Operators |-> Ended("none", 0)]

-----------------------------------------------------------------------------
(* The service manager. *)

CanStart == scm.exists /\ ~scm.deleting /\ scm.status = "Stopped"

\* StartService has made the process, or the recovery or the boot has.
Launch ==
  /\ CanStart /\ starts < MaxStarts
  /\ starts' = starts + 1
  /\ proc' = [proc EXCEPT ![starts + 1] = "launched"]
  /\ scm' = [scm EXCEPT !.status = "StartPending", !.restart = FALSE]
  /\ UNCHANGED told

\* The entry with the status that a process reports; the manager listens to the
\* process that it has started last.
Reported(p, status) ==
  IF p = starts THEN [scm EXCEPT !.status = status] ELSE scm

Restarts ==
  /\ scm.restart
  /\ Launch
  /\ UNCHANGED <<workVars, op>>

\* The commands that hold an open handle between two steps.
HoldsEntry(o) == op[o].step \in {"configure", "start", "delete"}

\* A deleted entry goes when the service has stopped and no handle is open.
Removed ==
  /\ scm.deleting /\ scm.status = "Stopped"
  /\ \A o \in Operators : ~HoldsEntry(o)
  /\ scm' = NoEntry
  /\ UNCHANGED <<procVars, workVars, op>>

-----------------------------------------------------------------------------
(* The process. *)

Moves(p, from, to) == proc[p] = from /\ proc' = [proc EXCEPT ![p] = to]

\* run_service_main: the control handler is registered, StartPending reported.
Register(p) ==
  /\ Moves(p, "launched", "loading")
  /\ scm' = Reported(p, "StartPending")
  /\ UNCHANGED <<starts, told, workVars, op>>

\* Mutant of Control: controls are accepted whatever has been reported.
ControlAnyTime(p) ==
  /\ scm.status # "Stopped" /\ p = starts
  /\ told' = [told EXCEPT ![p] = TRUE]
  /\ UNCHANGED <<scm, starts, proc, workVars>>

\* The handler of Stop and Shutdown, which service_status has accepted since
\* Running was reported; shutdown_tx is taken once.
Control(p) ==
  /\ scm.status = "Running" /\ p = starts
  /\ told' = [told EXCEPT ![p] = TRUE]
  /\ UNCHANGED <<scm, starts, proc, workVars>>

OsShutdown == (\E p \in Processes : Control(p)) /\ UNCHANGED op

\* Configuration, environment, log files, runtime: Running, or Stopped at once.
Startup(p) ==
  /\ \/ Moves(p, "loading", "starting") /\ scm' = Reported(p, "Running")
     \/ Moves(p, "loading", "leaving") /\ scm' = Reported(p, "Stopped")
  /\ UNCHANGED <<starts, told, workVars, op>>

\* The listener exists from the bind until the accept loop ends.
Listening(p) == proc[p] \in {"preloading", "serving"}

\* serve_until: bind fails when the port is taken, by another program perhaps.
Bind(p) ==
  /\ \/ /\ \A q \in Processes \ {p} : ~Listening(q)
        /\ Moves(p, "starting", "preloading")
     \/ Moves(p, "starting", "served")
  /\ UNCHANGED <<scm, starts, told, workVars, op>>

\* preload_models, on the thread of the server; a failure ends the service.
Preloaded(p) ==
  /\ Moves(p, "preloading", "serving") \/ Moves(p, "preloading", "served")
  /\ UNCHANGED <<scm, starts, told, workVars, op>>

\* Mutant of Shutdown: the listener is kept until there is no request.
ShutdownWhenIdle(p) ==
  /\ told[p] /\ \A c \in Clients : client[c].to # p
  /\ Moves(p, "serving", "draining")
  /\ UNCHANGED <<scm, starts, told, workVars, op>>

\* with_graceful_shutdown: the listener is dropped, then the connections are
\* awaited.
Shutdown(p) ==
  /\ told[p]
  /\ Moves(p, "serving", "draining")
  /\ UNCHANGED <<scm, starts, told, workVars, op>>

\* An upgraded connection has a task of its own, and a job of the queue too:
\* nobody awaits them.
Drained(p) ==
  /\ \A c \in Clients : client[c].to = p => client[c].phase = "realtime"
  /\ Moves(p, "draining", "served")
  /\ UNCHANGED <<scm, starts, told, workVars, op>>

\* Mutant of ReportStopped: the report of a handler that does not wait.
ReportEarly(p) ==
  /\ \/ Moves(p, "served", "leaving")
     \/ proc[p] = "draining" /\ UNCHANGED proc
  /\ scm' = Reported(p, "Stopped")
  /\ UNCHANGED <<starts, told, workVars, op>>

ReportStopped(p) ==
  /\ Moves(p, "served", "leaving")
  /\ scm' = Reported(p, "Stopped")
  /\ UNCHANGED <<starts, told, workVars, op>>

\* Whatever the process still does ends with it.
WorkEnds(p) ==
  /\ client' = [c \in Clients |-> IF client[c].to = p THEN NoRequest ELSE client[c]]
  /\ orphans' = orphans \ {p}

\* The dispatcher returns once Stopped was reported, and main after it, although
\* the runtime may still wait for a job.
Exit(p) ==
  /\ Moves(p, "leaving", "exited")
  /\ WorkEnds(p)
  /\ UNCHANGED <<scm, starts, told, op>>

\* A panic that aborts, or a kill.  The manager has had no report: it applies
\* the recovery of configure_recovery.
Crash(p) ==
  /\ proc[p] \in Alive \ {"leaving"}
  /\ proc' = [proc EXCEPT ![p] = "exited"]
  /\ scm' = IF p = starts
              THEN [scm EXCEPT !.status = "Stopped",
                               !.restart = scm.recovery /\ ~scm.deleting]
              ELSE scm
  /\ WorkEnds(p)
  /\ UNCHANGED <<starts, told, op>>

ProcessStep(p) == Register(p) \/ Startup(p) \/ Bind(p) \/ Preloaded(p) \/ Shutdown(p)
                  \/ Drained(p) \/ ReportStopped(p) \/ Exit(p)

-----------------------------------------------------------------------------
(* Clients: a request is received at the client's pace, worked on, and its      *)
(* answer is read at the client's pace.                                         *)

Connect(c) ==
  /\ client[c] = NoRequest
  /\ \E p \in Processes : proc[p] = "serving"
                          /\ client' = [client EXCEPT ![c] = [to |-> p, phase |-> "sending"]]
  /\ UNCHANGED <<scm, procVars, orphans, op>>

\* The body is read in full before the handler runs.  The answer to a realtime
\* request upgrades the connection, which ends as an HTTP connection.
Sent(c) ==
  /\ client[c].phase = "sending"
  /\ \E phase \in {"working", "realtime"} : client' = [client EXCEPT ![c].phase = phase]
  /\ UNCHANGED <<scm, procVars, orphans, op>>

\* The job of c's request goes on without c.
Orphaned(c) == orphans' = orphans \union {client[c].to}

\* The result, or an error; with queue_timeout the job may begin all the same.
Answered(c) ==
  /\ client[c].phase = "working"
  /\ client' = [client EXCEPT ![c].phase = "reading"]
  /\ UNCHANGED orphans \/ Orphaned(c)
  /\ UNCHANGED <<scm, procVars, op>>

\* The client has read its answer, or goes away before, perhaps while its job
\* runs; or a realtime session is over.
Leaves(c) ==
  /\ client[c] # NoRequest
  /\ client' = [client EXCEPT ![c] = NoRequest]
  /\ UNCHANGED orphans \/ (client[c].phase = "working" /\ Orphaned(c))
  /\ UNCHANGED <<scm, procVars, op>>

JobEnds(p) ==
  /\ p \in orphans
  /\ orphans' = orphans \ {p}
  /\ UNCHANGED <<scm, procVars, client, op>>

-----------------------------------------------------------------------------
(* The commands: each step is one call of the service manager. *)

Issue(o) ==
  /\ op[o].step = "none" /\ op[o].count < MaxCommands
  /\ \E c \in Commands :
       op' = [op EXCEPT ![o] = [cmd |-> c, step |-> FirstStep[c], result |-> "none",
                                since |-> starts, count |-> op[o].count + 1]]
  /\ UNCHANGED <<scm, procVars, workVars>>

Goes(o, step) == op' = [op EXCEPT ![o].step = step]
Returns(o, result) == op' = [op EXCEPT ![o] = Ended(result, @.count)]

\* stop_service_impl.  A restart goes on to start_service at once; an uninstall
\* ignores a refusal, but not that there is no service.
Stop(o) ==
  /\ op[o].step = "stop"
  /\ \/ /\ scm.exists /\ \E p \in Processes : Control(p)
        /\ CASE op[o].cmd = "stop" -> Returns(o, "ok")
             [] op[o].cmd = "restart" -> Goes(o, "query")
             [] OTHER -> Goes(o, "delete")
     \/ /\ ~scm.exists \/ scm.status # "Running"
        /\ IF op[o].cmd = "uninstall" /\ scm.exists THEN Goes(o, "delete")
                                                   ELSE Returns(o, "err")
        /\ UNCHANGED <<scm, procVars, workVars>>

\* start_service_impl: nothing is started when the service is Running.
Query(o) ==
  /\ op[o].step = "query"
  /\ CASE ~scm.exists -> Returns(o, "err")
       [] scm.status = "Running" -> Returns(o, "ok")
       [] OTHER -> Goes(o, "start")
  /\ UNCHANGED <<scm, procVars, workVars>>

\* The process is launched or not, because one runs or is about to be deleted
\* or for any reason of the manager's; an install does not ask.
StartIt(o) ==
  /\ op[o].step = "start"
  /\ \/ Launch /\ Returns(o, "ok")
     \/ Returns(o, IF op[o].cmd = "install" THEN "ok" ELSE "err") /\ UNCHANGED <<scm, procVars>>
  /\ UNCHANGED workVars

\* create_service
Create(o) ==
  /\ op[o].step = "create"
  /\ IF scm.exists THEN Returns(o, "err") /\ UNCHANGED scm
                   ELSE Goes(o, "configure") /\ scm' = [NoEntry EXCEPT !.exists = TRUE]
  /\ UNCHANGED <<procVars, workVars>>

\* Mutant of Configure: the output of sc.exe is not looked at.
ConfigureUnchecked(o) ==
  /\ op[o].step = "configure"
  /\ \/ ~scm.deleting /\ scm' = [scm EXCEPT !.recovery = TRUE]
     \/ UNCHANGED scm
  /\ Goes(o, "start")
  /\ UNCHANGED <<procVars, workVars>>

\* set_description and configure_recovery.  What fails here ends the install,
\* and the entry stays.
Configure(o) ==
  /\ op[o].step = "configure"
  /\ \/ ~scm.deleting /\ Goes(o, "start") /\ scm' = [scm EXCEPT !.recovery = TRUE]
     \/ Returns(o, "err") /\ UNCHANGED scm
  /\ UNCHANGED <<procVars, workVars>>

Delete(o) ==
  /\ op[o].step = "delete"
  /\ IF scm.deleting THEN Returns(o, "err") /\ UNCHANGED scm
                     ELSE Returns(o, "ok") /\ scm' = [scm EXCEPT !.deleting = TRUE]
  /\ UNCHANGED <<procVars, workVars>>

Command(o) == Stop(o) \/ Query(o) \/ StartIt(o) \/ Create(o) \/ Configure(o) \/ Delete(o)

Next ==
  \/ Restarts \/ Removed \/ OsShutdown
  \/ \E p \in Processes : ProcessStep(p) \/ Crash(p) \/ JobEnds(p)
  \/ \E c \in Clients : Connect(c) \/ Sent(c) \/ Answered(c) \/ Leaves(c)
  \/ \E o \in Operators : Issue(o) \/ Command(o)

Spec == Init /\ [][Next]_vars

\* The process runs, and a request that was received is answered at last (that is
\* EveryCallReturns of InferenceQueue).  Clients need not send what they began,
\* nor read, and a realtime session need not end.
FairSpec ==
  /\ Spec
  /\ \A p \in Processes : WF_vars(ProcessStep(p))
  /\ \A c \in Clients : WF_vars(Answered(c))

-----------------------------------------------------------------------------
(* Properties *)

\* "Stopped" is reported after serve_until has returned (windows_service.rs:310),
\* and lets the manager start the next process, which binds the same port.  So no
\* process listens then, and every HTTP request that was accepted is over; what
\* may go on, a realtime session or a job that nobody waits for, is of a process
\* that has left serve_until and is about to exit.
StoppedIsQuiet ==
  scm.status = "Stopped"
    => /\ \A p \in Processes : ~Listening(p)
       /\ \A c \in Clients : client[c] # NoRequest
            => client[c].phase = "realtime" /\ proc[client[c].to] = "leaving"
       /\ \A p \in orphans : proc[p] = "leaving"

\* A stop that was accepted ends the process, also when it came before the server
\* listened or while models were loaded, and although a realtime session never
\* ends; but not while a client keeps the graceful shutdown waiting by never
\* finishing the request that it sends or the answer that it reads.
ClientsKeepUp == \A c \in Clients : []<>(client[c].phase \notin {"sending", "reading"})
StopEnds == ClientsKeepUp => \A p \in Processes : told[p] ~> proc[p] = "exited"

\* An install that reports success, whatever other commands ran between its
\* steps, has left a service with the recovery of technical_specification.md 5.2,
\* item 14.  (Another operator may have marked it for deletion meanwhile; then
\* it is not restarted.)
InstalledIsWhole ==
  [][\A o \in Operators :
       op[o].cmd = "install" /\ op'[o].result = "ok" => scm'.recovery]_vars

\* technical_specification.md:881 "`ai2npu.exe restart-service` restarts the
\* service" (in Russian there).  It returns Ok as soon as the stop is accepted
\* and the service that is about to stop is still Running.
RestartRestarts ==
  [][\A o \in Operators :
       op[o].cmd = "restart" /\ op'[o].result = "ok" => starts' > op[o].since]_vars

=============================================================================
