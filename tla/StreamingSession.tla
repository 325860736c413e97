-------------------------- MODULE StreamingSession --------------------------
(***************************************************************************)
(* The realtime endpoint: src/http.rs handle_realtime_socket with its      *)
(* reader, its writer and the single-session guard, and the session task   *)
(* that it spawns, src/streaming.rs run_session.                           *)
(*                                                                         *)
(*   client --socket--> reader --input--> session --events--> writer       *)
(*                                            |                  |         *)
(*                                         decodes            socket       *)
(*                                                                         *)
(* Both channels are bounded and every send awaits a free slot.  The       *)
(* reader and the writer are the two branches of one select: when either   *)
(* ends, both are dropped, the session is cancelled cooperatively, and the *)
(* guard is released when the session task has ended.                      *)
(*                                                                         *)
(* The segmenter (VadSegmenter) is taken as an arbitrary source of framed  *)
(* events, and a decode through the inference queue (InferenceQueue) as an *)
(* operation that takes a while and returns some text or fails (the queue  *)
(* is full, or the inference failed).  Any text may come back, so the      *)
(* prompt made of the earlier transcripts is left out, as are the fields   *)
(* that only select the language, the rate or the layout of words.         *)
(***************************************************************************)
EXTENDS Integers, Sequences, FiniteSets, SequencesExt

CONSTANTS
  Conns,        \* the sockets that ask for a session
  NoConn,       \* no socket
  InputSlots,   \* capacity of the channel input_tx -> input_rx (64)
  EventSlots,   \* capacity of the channel event_tx -> event_rx (64)
  Words,        \* what a text is made of
  Texts,        \* what the recogniser may return
  MaxBatch,     \* bound: segmenter events that one append may yield
  MaxMessages   \* bound: messages that all clients send together

ASSUME SessionAssumption ==
  /\ NoConn \notin Conns
  /\ InputSlots \in Nat \ {0} /\ EventSlots \in Nat \ {0}
  /\ Texts \subseteq Seq(Words)
  /\ MaxBatch \in Nat

VARIABLES
  active,      \* AppState.streaming_session: who holds the guard
  handler,     \* where each handle_realtime_socket stands
  socket,      \* each client: reads, does not read ("stalled"), is gone
  held,        \* the message that the reader has taken from the socket
  inflight,    \* the events (0 or 1) that the writer has taken to send
  input,       \* the channel of inputs
  events,      \* the channel of server events
  cancel,      \* the AtomicBool shared with the session
  session,     \* the session task
  sent,        \* history: the events put into the channel by this session
  late,        \* history: decodes begun after the handler's select returned
  messages     \* how many messages the clients have sent, for the bound

connVars == <<active, handler, socket>>
pipeVars == <<held, inflight, input, events>>
vars == <<active, handler, socket, held, inflight, input, events, cancel,
          session, sent, late, messages>>

\* What a client may send: a valid or an invalid session update, PCM audio (an
\* append that cannot be decoded ends like an invalid update), a commit, and a
\* frame that is binary or no client event.
Inputs == {"update", "invalid", "audio", "commit"}
Messages == Inputs \union {"garbage"}

Event(type, item, text) == [type |-> type, item |-> item, text |-> text]
Plain(type) == Event(type, 0, <<>>)

\* item_0, item_1, ... are 1, 2, ...; 0 is None.
NewSession ==
  [pc |-> "recv", outbox |-> <<Plain("created")>>, batch |-> <<>>,
   speaking |-> FALSE, item |-> 0, next |-> 1, emitted |-> <<>>,
   decoding |-> 0, result |-> "none"]
NoSession == [NewSession EXCEPT !.pc = "ended", !.outbox = <<>>]

Init ==
  /\ active = NoConn
  /\ handler = [c \in Conns |-> "new"]
  /\ socket = [c \in Conns |-> "open"]
  /\ held = "none" /\ inflight = <<>> /\ input = <<>> /\ events = <<>>
  /\ cancel = FALSE
  /\ session = NoSession
  /\ sent = <<>> /\ late = 0 /\ messages = 0

TypeOK ==
  /\ active \in Conns \union {NoConn}
  /\ handler \in [Conns -> {"new", "acquired", "serving", "stopping", "draining", "done"}]
  /\ socket \in [Conns -> {"open", "stalled", "gone"}]
  /\ held \in Messages \union {"none"}
  /\ Len(inflight) \in 0..1
  /\ input \in Seq(Inputs) /\ Len(input) <= InputSlots
  /\ Len(events) <= EventSlots
  /\ cancel \in BOOLEAN
  /\ session.pc \in {"recv", "batch", "submit", "decode", "partial", "ended"}
  /\ session.result \in {"none", "ok", "err"}

-----------------------------------------------------------------------------
(* The handler: guard, set-up, tear-down. *)

\* SessionGuard::try_acquire, after streaming_next_session_id.fetch_add: ids
\* are unique, so a connection stands for its session id.
Acquire(c) ==
  /\ handler[c] = "new" /\ active = NoConn
  /\ active' = c
  /\ handler' = [handler EXCEPT ![c] = "acquired"]
  /\ UNCHANGED <<socket, pipeVars, cancel, session, sent, late, messages>>

\* streaming_busy, then the socket is closed.
RefuseBusy(c) ==
  /\ handler[c] = "new" /\ active # NoConn
  /\ handler' = [handler EXCEPT ![c] = "done"]
  /\ UNCHANGED <<active, socket, pipeVars, cancel, session, sent, late, messages>>

\* SessionGuard::drop: only the holder clears the slot.
DropGuard(c) == active' = IF active = c THEN NoConn ELSE active

\* Streaming disabled, no OpenVINO or NPU, no model, no VAD: an error event is
\* sent while the guard is held, and the handler returns.
SetupFails(c) ==
  /\ handler[c] = "acquired"
  /\ handler' = [handler EXCEPT ![c] = "done"]
  /\ DropGuard(c)
  /\ UNCHANGED <<socket, pipeVars, cancel, session, sent, late, messages>>

\* New channels, a new cancel flag, and the session task is spawned.
Serve(c) ==
  /\ handler[c] = "acquired"
  /\ handler' = [handler EXCEPT ![c] = "serving"]
  /\ held' = "none" /\ inflight' = <<>> /\ input' = <<>> /\ events' = <<>>
  /\ cancel' = FALSE
  /\ session' = NewSession
  /\ sent' = <<>> /\ late' = 0
  /\ UNCHANGED <<active, socket, messages>>

\* The select returns; reader and writer are dropped with what they held.
\* cancel.store(true) comes next.
EndSelect(c) ==
  /\ handler' = [handler EXCEPT ![c] = "stopping"]
  /\ held' = "none" /\ inflight' = <<>>
  /\ cancel' = TRUE
  /\ UNCHANGED <<active, socket, input, events, session, sent, late, messages>>

\* drop(input_tx); drop(event_tx).  event_rx stays until the function returns.
DropSenders(c) ==
  /\ handler[c] = "stopping"
  /\ handler' = [handler EXCEPT ![c] = "draining"]
  /\ UNCHANGED <<active, socket, pipeVars, cancel, session, sent, late, messages>>

\* Mutant: the guard is dropped before the session task has ended.
ReleaseEarly(c) ==
  /\ handler[c] = "draining"
  /\ handler' = [handler EXCEPT ![c] = "done"]
  /\ DropGuard(c)
  /\ UNCHANGED <<socket, pipeVars, cancel, session, sent, late, messages>>

\* session.await; drop(guard).
Release(c) ==
  /\ handler[c] = "draining" /\ session.pc = "ended"
  /\ handler' = [handler EXCEPT ![c] = "done"]
  /\ DropGuard(c)
  /\ UNCHANGED <<socket, pipeVars, cancel, session, sent, late, messages>>

-----------------------------------------------------------------------------
(* The client and the two loops on its socket. *)

\* The client sends a message and the reader takes it from the stream.
Send(c, m) ==
  /\ handler[c] = "serving" /\ socket[c] # "gone" /\ held = "none"
  /\ messages < MaxMessages
  /\ messages' = messages + 1
  /\ held' = m
  /\ UNCHANGED <<connVars, inflight, input, events, cancel, session, sent, late>>

\* The client stops reading for good (a pause is a write that takes long), or
\* closes or disappears.
ClientMoves(c, s) ==
  /\ handler[c] = "serving" /\ socket[c] # "gone" /\ socket[c] # s
  /\ socket' = [socket EXCEPT ![c] = s]
  /\ UNCHANGED <<active, handler, pipeVars, cancel, session, sent, late, messages>>

\* handle_ws_message on a client event: input_tx.send waits for a slot.
Forward(c) ==
  /\ handler[c] = "serving" /\ held \in Inputs
  /\ session.pc # "ended" /\ Len(input) < InputSlots
  /\ input' = Append(input, held)
  /\ held' = "none"
  /\ UNCHANGED <<connVars, inflight, events, cancel, session, sent, late, messages>>

\* handle_ws_message on garbage: an error event, from the reader itself.
Complain(c) ==
  /\ handler[c] = "serving" /\ held = "garbage" /\ Len(events) < EventSlots
  /\ events' = Append(events, Plain("error"))
  /\ sent' = Append(sent, Plain("error"))
  /\ held' = "none"
  /\ UNCHANGED <<connVars, inflight, input, cancel, session, late, messages>>

\* The stream has ended, or the session has dropped its end of the channel.
ReaderEnds(c) ==
  /\ handler[c] = "serving"
  /\ \/ held = "none" /\ socket[c] = "gone"
     \/ held \in Inputs /\ session.pc = "ended"
  /\ EndSelect(c)

\* Mutant: one select loop for both directions, which does not take an event
\* while it forwards a message.
TakeEventWhenIdle(c) ==
  /\ handler[c] = "serving" /\ inflight = <<>> /\ events # <<>> /\ held = "none"
  /\ inflight' = <<Head(events)>>
  /\ events' = Tail(events)
  /\ UNCHANGED <<connVars, held, input, cancel, session, sent, late, messages>>

\* The writer takes an event, and sends it when the client reads.
TakeEvent(c) ==
  /\ handler[c] = "serving" /\ inflight = <<>> /\ events # <<>>
  /\ inflight' = <<Head(events)>>
  /\ events' = Tail(events)
  /\ UNCHANGED <<connVars, held, input, cancel, session, sent, late, messages>>

WriteEvent(c) ==
  /\ handler[c] = "serving" /\ inflight # <<>> /\ socket[c] = "open"
  /\ inflight' = <<>>
  /\ UNCHANGED <<connVars, held, input, events, cancel, session, sent, late, messages>>

WriterEnds(c) ==
  /\ handler[c] = "serving" /\ inflight # <<>> /\ socket[c] = "gone"
  /\ EndSelect(c)

-----------------------------------------------------------------------------
(* The session task.  Whatever it does next waits until its outbox is sent. *)

sessionFrame == <<connVars, held, inflight, cancel, messages>>

At(pc) == session.pc = pc /\ session.outbox = <<>>

\* Mutant: an unbounded channel.
SendUnbounded ==
  /\ session.outbox # <<>>
  /\ events' = Append(events, Head(session.outbox))
  /\ sent' = Append(sent, Head(session.outbox))
  /\ session' = [session EXCEPT !.outbox = Tail(@)]
  /\ UNCHANGED <<sessionFrame, input, late>>

\* send_event: awaits a slot; the receiver lives as long as the handler.
SendEvent ==
  /\ session.outbox # <<>> /\ Len(events) < EventSlots
  /\ events' = Append(events, Head(session.outbox))
  /\ sent' = Append(sent, Head(session.outbox))
  /\ session' = [session EXCEPT !.outbox = Tail(@)]
  /\ UNCHANGED <<sessionFrame, input, late>>

\* run_session returns; its receiver is dropped with the inputs in it.
Ended(result) == [session EXCEPT !.pc = "ended", !.result = result, !.batch = <<>>]

Return(result) ==
  /\ session' = Ended(result)
  /\ input' = <<>>
  /\ UNCHANGED <<sessionFrame, events, sent, late>>

\* The loop has received a message; it breaks if the session was cancelled.
BreakOnCancel ==
  /\ At("recv") /\ input # <<>> /\ cancel
  /\ Return("ok")

Receives(m) ==
  /\ At("recv") /\ input # <<>> /\ ~cancel /\ Head(input) = m
  /\ input' = Tail(input)
  /\ UNCHANGED <<sessionFrame, events, sent, late>>

\* apply_session_update with an unsupported format or turn detection, audio
\* that is no base64, odd or too long: the error ends the session, `?` by `?`.
RejectInput ==
  /\ At("recv") /\ input # <<>> /\ ~cancel /\ Head(input) = "invalid"
  /\ Return("err")

ApplyUpdate ==
  /\ Receives("update")
  /\ session' = [session EXCEPT !.outbox = <<Plain("updated")>>]

\* What the segmenter may return: a phrase is open or not, a start opens it,
\* an end closes it, partials come inside (Framing in VadSegmenter).
Framed(open, b) ==
  \A i \in DOMAIN b :
    b[i] = "start" <=> ~(IF i = 1 THEN open ELSE b[i - 1] # "end")
Batches(open) ==
  {b \in BoundedSeq({"start", "partial", "end"}, MaxBatch) : Framed(open, b)}

ProcessAudio ==
  /\ Receives("audio")
  /\ \E b \in Batches(session.speaking) :
       session' = [session EXCEPT !.pc = "batch", !.batch = b,
                                  !.speaking = IF b = <<>> THEN @ ELSE Last(b) # "end"]

\* flush_segment: the segmenter closes the phrase, if one is open.
Flushed == [session EXCEPT !.pc = "batch", !.speaking = FALSE,
                           !.batch = IF session.speaking THEN <<"end">> ELSE <<>>]

Commit == Receives("commit") /\ session' = Flushed

\* Mutant: the reader's clone of the sender lives until the handler returns.
InputEndsAfterHandler ==
  /\ At("recv") /\ input = <<>>
  /\ \A c \in Conns : handler[c] \in {"new", "done"}
  /\ session' = Ended("ok")
  /\ UNCHANGED <<sessionFrame, input, events, sent, late>>

\* audio_rx.recv() is None: the sender is gone.  The last flush is only for a
\* session that was not cancelled; this handler has always cancelled by then.
InputEnds ==
  /\ At("recv") /\ input = <<>>
  /\ \A c \in Conns : handler[c] \notin {"serving", "stopping"}
  /\ session' = IF cancel \/ ~session.speaking THEN Ended("ok") ELSE Flushed
  /\ UNCHANGED <<sessionFrame, input, events, sent, late>>

\* Mutant: the events of a batch are all handled, cancelled or not.
TakeAnyway(kind) ==
  /\ At("batch") /\ session.batch # <<>> /\ Head(session.batch) = kind
  /\ UNCHANGED <<sessionFrame, input, events, sent>>

\* handle_vad_events: the next event, unless the session was cancelled.
TakeVadEvent(kind) ==
  /\ At("batch") /\ ~cancel /\ session.batch # <<>> /\ Head(session.batch) = kind
  /\ UNCHANGED <<sessionFrame, input, events, sent>>

BatchDone ==
  /\ At("batch") /\ (cancel \/ session.batch = <<>>)
  /\ session' = [session EXCEPT !.pc = "recv", !.batch = <<>>]
  /\ UNCHANGED <<sessionFrame, input, events, sent, late>>

SpeechStart ==
  /\ TakeVadEvent("start")
  /\ session' = [session EXCEPT !.batch = Tail(@), !.emitted = <<>>,
                    !.item = session.next, !.next = @ + 1,
                    !.outbox = <<Event("started", session.next, <<>>)>>]
  /\ UNCHANGED late

\* decode_segment takes the current item, or a new one, before the decode.
SpeechEnd ==
  LET item == IF session.item = 0 THEN session.next ELSE session.item IN
  /\ TakeVadEvent("end")
  /\ session' = [session EXCEPT !.batch = Tail(@), !.pc = "submit",
                    !.item = 0, !.decoding = item,
                    !.next = IF session.item = 0 THEN @ + 1 ELSE @,
                    !.outbox = <<Event("stopped", item, <<>>), Event("committed", item, <<>>)>>]
  /\ UNCHANGED late

\* A decode begins: it goes to the inference queue.
BeginDecode ==
  late' = IF \E c \in Conns : handler[c] = "serving" THEN late ELSE late + 1

SubmitFinal ==
  /\ At("submit")
  /\ session' = [session EXCEPT !.pc = "decode"]
  /\ BeginDecode
  /\ UNCHANGED <<sessionFrame, input, events, sent>>

SpeechPartial ==
  /\ TakeVadEvent("partial")
  /\ session' = [session EXCEPT !.batch = Tail(@), !.pc = "partial"]
  /\ BeginDecode

FinalDecoded ==
  /\ At("decode")
  /\ \E text \in Texts :
       session' = [session EXCEPT !.pc = "batch", !.decoding = 0,
                     !.outbox = <<Event("completed", session.decoding, text)>>]
  /\ UNCHANGED <<sessionFrame, input, events, sent, late>>

\* Mutant: a final decode that fails is skipped like a partial one.
FinalSkipped ==
  /\ At("decode")
  /\ session' = [session EXCEPT !.pc = "batch", !.decoding = 0]
  /\ UNCHANGED <<sessionFrame, input, events, sent, late>>

\* QueueError::Full, or the inference failed: the error ends the session.
FinalFails ==
  /\ At("decode")
  /\ Return("err")

\* Mutant: the delta repeats what was sent.
WholeText(text) == text

\* strip_prefix: only a proper extension of what was sent yields a delta.
NewText(text) == SubSeq(text, Len(session.emitted) + 1, Len(text))

PartialDecoded ==
  /\ At("partial")
  /\ \E text \in Texts :
       session' =
         IF IsStrictPrefix(session.emitted, text) /\ session.item # 0
           THEN [session EXCEPT !.pc = "batch", !.emitted = text,
                   !.outbox = <<Event("delta", session.item, NewText(text))>>]
           ELSE [session EXCEPT !.pc = "batch"]
  /\ UNCHANGED <<sessionFrame, input, events, sent, late>>

\* A partial that fails is skipped, with a warning in the log.
PartialFails ==
  /\ At("partial")
  /\ session' = [session EXCEPT !.pc = "batch"]
  /\ UNCHANGED <<sessionFrame, input, events, sent, late>>

SessionStep ==
  \/ SendEvent \/ BreakOnCancel \/ RejectInput \/ ApplyUpdate \/ ProcessAudio
  \/ Commit \/ InputEnds \/ BatchDone \/ SpeechStart \/ SpeechEnd
  \/ SubmitFinal \/ SpeechPartial \/ FinalDecoded \/ FinalFails
  \/ PartialDecoded \/ PartialFails

ReaderStep(c) == Forward(c) \/ Complain(c) \/ ReaderEnds(c)
WriterStep(c) == TakeEvent(c) \/ WriteEvent(c) \/ WriterEnds(c)
HandlerStep(c) == SetupFails(c) \/ Serve(c) \/ DropSenders(c) \/ Release(c)

Next ==
  \/ SessionStep
  \/ \E c \in Conns :
       \/ Acquire(c) \/ RefuseBusy(c)
       \/ HandlerStep(c) \/ ReaderStep(c) \/ WriterStep(c)
       \/ \E s \in {"stalled", "gone"} : ClientMoves(c, s)
       \/ \E m \in Messages : Send(c, m)

Spec == Init /\ [][Next]_vars

\* Every task that is ready is polled, reader and writer both (a select polls
\* both branches), and a decode ends (InferenceQueue: EveryCallReturns).
\* Nothing makes a client send, read or go away.
FairSpec ==
  /\ Spec
  /\ WF_vars(SessionStep)
  /\ \A c \in Conns :
       WF_vars(ReaderStep(c)) /\ WF_vars(WriterStep(c)) /\ WF_vars(HandlerStep(c))

-----------------------------------------------------------------------------
(* Properties *)

Holding == {"acquired", "serving", "stopping", "draining"}

\* docs/streaming-api.md:41: one session at a time; the slot belongs to the
\* connection whose handler has not returned, and to nobody otherwise.
OneSession ==
  /\ \A c \in Conns : handler[c] \in Holding <=> active = c
  /\ session.pc # "ended" => active # NoConn

\* The items of the events of one type.
ItemsIn(history, type) ==
  {history[j].item : j \in {k \in DOMAIN history : history[k].type = type}}

\* What the order of the protocol asks of an event, given those before it.
MayFollow(history, e) ==
  LET Earlier(type) == e.item \in ItemsIn(history, type)
  IN  CASE e.type = "started"   -> \A n \in ItemsIn(history, "started") : n < e.item
        [] e.type = "delta"     -> Earlier("started") /\ ~Earlier("stopped")
        [] e.type = "stopped"   -> Earlier("started") /\ ~Earlier("stopped")
        [] e.type = "committed" -> /\ Earlier("stopped") /\ ~Earlier("committed")
                                   /\ ItemsIn(history, "committed") = ItemsIn(history, "completed")
        [] e.type = "completed" -> Earlier("committed") /\ ~Earlier("completed")
        [] OTHER -> TRUE

\* docs/streaming-api.md:150-154, on the events in the order of the channel:
\* each phrase is started, then stopped, committed and completed, once each;
\* its deltas come after the start and before the stop; items grow; and a
\* phrase is committed only when every earlier one has been completed, so an
\* item that is never completed is the last one of its session.
Protocol == \A i \in DOMAIN sent : MayFollow(SubSeq(sent, 1, i - 1), sent[i])

\* What the deltas of an item amount to.
DeltaOf(e, item) == IF e.type = "delta" /\ e.item = item THEN e.text ELSE <<>>
TextOf(history, item) == FlattenSeq([k \in DOMAIN history |-> DeltaOf(history[k], item)])

\* docs/streaming-api.md:127-129: deltas are append-only.  What a client has
\* put together for a phrase is always a text that the recogniser returned.
ClientTextIsATranscript ==
  \A item \in 1..session.next : TextOf(sent, item) \in Texts \union {<<>>}

\* docs/streaming-api.md:43-45: when the socket is gone no new segment is
\* started: at most the phrase that was already being closed is decoded.
OneLateDecode == late <= 1

\* The reason for the two loops (src/http.rs:254-261): while the client reads,
\* what it sends gets through to the session, however slow the decodes are.
InputGetsThrough ==
  \A c \in Conns :
    handler[c] = "serving" /\ held # "none" ~> held = "none" \/ socket[c] # "open"

\* The session is released when the client is gone, unless the session waits
\* for a slot in a full event channel that nobody reads any more.
Wedged(c) == /\ handler[c] = "draining"
             /\ session.outbox # <<>> /\ Len(events) = EventSlots
ReleasedUnlessWedged ==
  \A c \in Conns :
    handler[c] \in Holding /\ socket[c] = "gone" ~> handler[c] = "done" \/ Wedged(c)

\* docs/streaming-api.md:43-44: the session is released when the socket is
\* closed, also when the connection breaks.
Released ==
  \A c \in Conns : handler[c] \in Holding /\ socket[c] = "gone" ~> handler[c] = "done"

\* docs/streaming-api.md:83-84, 151-152 and 158-159: what ends a session while
\* its client is connected and reads is reported to the client as an error event.
FailureIsReported ==
  \A c \in Conns :
    handler[c] = "serving" /\ session.result = "err"
      ~> \/ \E i \in DOMAIN sent : sent[i].type = "error"
         \/ handler[c] # "serving" \/ socket[c] # "open"
=============================================================================
