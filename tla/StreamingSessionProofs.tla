----------------------- MODULE StreamingSessionProofs -----------------------
(***************************************************************************)
(* Proofs about StreamingSession for any set of sockets, any capacities of *)
(* the two channels and any recogniser, in two parts.                      *)
(*                                                                         *)
(* First the guard: OneSession and OneLateDecode.  Neither is inductive    *)
(* alone.  That a session task never outlives its guard needs to know that *)
(* a live task belongs to a handler that has spawned it and still waits    *)
(* for it; that at most one decode begins late needs to know how the       *)
(* cancel flag, the handler and the place of the task go together.         *)
(* Ownership and Cancellation say so.                                      *)
(*                                                                         *)
(* Then what the session says: Protocol and ClientTextIsATranscript.  The  *)
(* second invariant keeps a Ledger of the events of every phrase, those in *)
(* the channel and those still in the outbox, relates the deltas of the    *)
(* open phrase to what the task remembers of them (Wrote), and follows the *)
(* place of the task in the batch of the segmenter (Stage).                *)
(***************************************************************************)
EXTENDS StreamingSession, SequenceLemmas

\* Where a handler may be.
HandlerStates == {"new", "acquired", "serving", "stopping", "draining", "done"}

\* The handlers that have spawned the session task and not yet joined it.
Running == {"serving", "stopping", "draining"}

\* The types that the argument needs.
Types ==
  /\ active \in Conns \union {NoConn}
  /\ handler \in [Conns -> HandlerStates]
  /\ cancel \in BOOLEAN
  /\ "pc" \in DOMAIN session
  /\ late \in {0, 1}

\* The slot is the holder's, and a live session task has a handler.
Ownership ==
  /\ \A c \in Conns : handler[c] \in Holding <=> active = c
  /\ session.pc # "ended" => \E c \in Conns : handler[c] \in Running

\* The flag is set exactly by a handler that is past its select; before that
\* no decode is late, and with one late decode none is about to begin.
Cancellation ==
  /\ \A c \in Conns : handler[c] = "serving" => ~cancel /\ late = 0
  /\ \A c \in Conns : handler[c] \in {"stopping", "draining"} => cancel
  /\ late = 1 => session.pc # "submit"

\* The first invariant.
IInv == Types /\ Ownership /\ Cancellation

-----------------------------------------------------------------------------
\* The initial states: no handler has begun and no session exists.
LEMMA InitIInv == Init => IInv
<1> SUFFICES ASSUME Init PROVE IInv
  OBVIOUS
<1>1. "pc" \in DOMAIN session /\ session.pc = "ended"
  BY DEF Init, NoSession, NewSession
<1>2. /\ active = NoConn /\ cancel = FALSE /\ late = 0
      /\ handler = [c \in Conns |-> "new"]
  BY DEF Init
<1> QED BY <1>1, <1>2, SessionAssumption
        DEF IInv, Types, Ownership, Cancellation, HandlerStates, Holding

\* A step that leaves the handlers, the slot, the flag and the count of late
\* decodes alone, and does not bring the session to "submit" or back to life.
LEMMA Unmoved ==
  ASSUME IInv, UNCHANGED <<active, handler, cancel, late>>,
         "pc" \in DOMAIN session',
         session.pc = "ended" => session'.pc = "ended",
         session'.pc = "submit" => session.pc = "submit"
  PROVE  IInv'
BY DEF IInv, Types, Ownership, Cancellation

\* The handler's own steps: acquiring, refusing, setting up and serving.
LEMMA HandlerBegins ==
  ASSUME IInv, NEW c \in Conns,
         Acquire(c) \/ RefuseBusy(c) \/ SetupFails(c) \/ Serve(c)
  PROVE  IInv'
<1>1. CASE Acquire(c)
  BY <1>1, SessionAssumption
     DEF IInv, Types, Ownership, Cancellation, HandlerStates, Running, Holding, Acquire
<1>2. CASE RefuseBusy(c)
  BY <1>2 DEF IInv, Types, Ownership, Cancellation, HandlerStates, Running, Holding, RefuseBusy
<1>3. CASE SetupFails(c)
  BY <1>3, SessionAssumption
     DEF IInv, Types, Ownership, Cancellation, HandlerStates, Running, Holding,
         SetupFails, DropGuard
<1>4. CASE Serve(c)
  BY <1>4
     DEF IInv, Types, Ownership, Cancellation, HandlerStates, Running, Holding,
         Serve, NewSession
<1> QED BY <1>1, <1>2, <1>3, <1>4

\* The select returns: the slot stays, the flag is set.
LEMMA SelectEnds ==
  ASSUME IInv, NEW c \in Conns, handler[c] = "serving", EndSelect(c)
  PROVE  IInv'
BY DEF IInv, Types, Ownership, Cancellation, HandlerStates, Running, Holding, EndSelect

\* Tear-down: the senders go, and the guard goes with the ended session.
LEMMA HandlerEnds ==
  ASSUME IInv, NEW c \in Conns, DropSenders(c) \/ Release(c)
  PROVE  IInv'
<1>1. CASE DropSenders(c)
  BY <1>1
     DEF IInv, Types, Ownership, Cancellation, HandlerStates, Running, Holding, DropSenders
<1>2. CASE Release(c)
  BY <1>2, SessionAssumption
     DEF IInv, Types, Ownership, Cancellation, HandlerStates, Running, Holding,
         Release, DropGuard
<1> QED BY <1>1, <1>2

\* Client, reader and writer.
LEMMA SocketStep ==
  ASSUME IInv, NEW c \in Conns,
         \/ \E s \in {"stalled", "gone"} : ClientMoves(c, s)
         \/ \E m \in Messages : Send(c, m)
         \/ ReaderStep(c) \/ WriterStep(c)
  PROVE  IInv'
<1>1. CASE ReaderEnds(c) \/ WriterEnds(c)
  BY <1>1, SelectEnds DEF ReaderEnds, WriterEnds
<1>2. CASE ~(ReaderEnds(c) \/ WriterEnds(c))
  <2>1. UNCHANGED <<active, handler, cancel, late, session>>
    BY <1>2
       DEF ReaderStep, WriterStep, ClientMoves, Send, Forward, Complain, TakeEvent,
           WriteEvent, connVars, pipeVars
  <2>2. "pc" \in DOMAIN session
    BY DEF IInv, Types
  <2> QED BY <2>1, <2>2, Unmoved
<1> QED BY <1>1, <1>2

\* While a session that was not cancelled is in a batch, its handler serves:
\* nothing is late yet.
LEMMA NotYetLate ==
  ASSUME IInv, session.pc = "batch", ~cancel
  PROVE  late = 0 /\ \E c \in Conns : handler[c] = "serving"
BY DEF IInv, Ownership, Cancellation, Running

\* The steps of the session task that begin no decode.
LEMMA QuietSessionStep ==
  ASSUME IInv, SessionStep, ~SpeechEnd, ~SubmitFinal, ~SpeechPartial
  PROVE  IInv'
<1>0. "pc" \in DOMAIN session
  BY DEF IInv, Types
<1>1. UNCHANGED <<active, handler, cancel, late>>
  BY DEF SessionStep, SendEvent, BreakOnCancel, RejectInput, ApplyUpdate, ProcessAudio,
         Commit, InputEnds, BatchDone, SpeechStart, FinalDecoded, FinalFails,
         PartialDecoded, PartialFails, Return, Receives, TakeVadEvent, sessionFrame, connVars
<1>2. /\ "pc" \in DOMAIN session'
      /\ session.pc = "ended" => session'.pc = "ended"
      /\ session'.pc = "submit" => session.pc = "submit"
  <2>1. CASE SendEvent
    BY <1>0, <2>1 DEF SendEvent
  <2>2. CASE BreakOnCancel \/ RejectInput \/ FinalFails
    BY <1>0, <2>2 DEF BreakOnCancel, RejectInput, FinalFails, Return, Ended
  <2>3. CASE ApplyUpdate
    BY <1>0, <2>3 DEF ApplyUpdate, Receives, At
  <2>4. CASE ProcessAudio
    BY <1>0, <2>4 DEF ProcessAudio, Receives, At
  <2>5. CASE Commit
    BY <1>0, <2>5 DEF Commit, Receives, At, Flushed
  <2>6. CASE InputEnds
    BY <1>0, <2>6 DEF InputEnds, At, Flushed, Ended
  <2>7. CASE BatchDone
    BY <1>0, <2>7 DEF BatchDone, At
  <2>8. CASE SpeechStart
    BY <1>0, <2>8 DEF SpeechStart, TakeVadEvent, At
  <2>9. CASE FinalDecoded
    BY <1>0, <2>9 DEF FinalDecoded, At
  <2>10. CASE PartialDecoded
    BY <1>0, <2>10 DEF PartialDecoded, At
  <2>11. CASE PartialFails
    BY <1>0, <2>11 DEF PartialFails, At
  <2> QED BY <2>1, <2>2, <2>3, <2>4, <2>5, <2>6, <2>7, <2>8, <2>9, <2>10, <2>11
          DEF SessionStep
<1> QED BY <1>1, <1>2, Unmoved

\* The steps that begin a decode, or bring the session to the point where
\* nothing but the order of its events stands between it and the decode.
LEMMA DecodingStep ==
  ASSUME IInv, SpeechEnd \/ SubmitFinal \/ SpeechPartial
  PROVE  IInv'
<1>0. "pc" \in DOMAIN session
  BY DEF IInv, Types
<1>1. CASE SpeechEnd
  <2>1. late = 0 /\ \E c \in Conns : handler[c] = "serving"
    BY <1>1, NotYetLate DEF SpeechEnd, TakeVadEvent, At
  <2>2. "pc" \in DOMAIN session' /\ session'.pc = "submit"
    BY <1>0, <1>1 DEF SpeechEnd
  <2>3. UNCHANGED <<active, handler, cancel, late>>
    BY <1>1 DEF SpeechEnd, TakeVadEvent, sessionFrame, connVars
  <2> QED BY <2>1, <2>2, <2>3 DEF IInv, Types, Ownership, Cancellation, Running
<1>2. CASE SubmitFinal
  <2>1. late = 0 /\ late' \in {0, 1} /\ (late' = 1 => \A c \in Conns : handler[c] # "serving")
    BY <1>2 DEF SubmitFinal, BeginDecode, At, IInv, Types, Cancellation
  <2>2. "pc" \in DOMAIN session' /\ session'.pc = "decode" /\ session.pc = "submit"
    BY <1>0, <1>2 DEF SubmitFinal, At
  <2>3. UNCHANGED <<active, handler, cancel>>
    BY <1>2 DEF SubmitFinal, sessionFrame, connVars
  <2> QED BY <2>1, <2>2, <2>3 DEF IInv, Types, Ownership, Cancellation, Running
<1>3. CASE SpeechPartial
  <2>1. late = 0 /\ \E c \in Conns : handler[c] = "serving"
    BY <1>3, NotYetLate DEF SpeechPartial, TakeVadEvent, At
  <2>2. UNCHANGED <<active, handler, cancel, late>>
    BY <1>3, <2>1 DEF SpeechPartial, BeginDecode, TakeVadEvent, sessionFrame, connVars
  <2>3. "pc" \in DOMAIN session' /\ session'.pc = "partial" /\ session.pc = "batch"
    BY <1>0, <1>3 DEF SpeechPartial, TakeVadEvent, At
  <2> QED BY <2>2, <2>3, Unmoved
<1> QED BY <1>1, <1>2, <1>3

-----------------------------------------------------------------------------
\* Every step keeps the invariant.
LEMMA NextIInv == IInv /\ [Next]_vars => IInv'
<1> SUFFICES ASSUME IInv, [Next]_vars PROVE IInv'
  OBVIOUS
<1>1. CASE SessionStep
  BY <1>1, QuietSessionStep, DecodingStep
<1>2. ASSUME NEW c \in Conns,
             \/ Acquire(c) \/ RefuseBusy(c) \/ HandlerStep(c)
             \/ ReaderStep(c) \/ WriterStep(c)
             \/ \E s \in {"stalled", "gone"} : ClientMoves(c, s)
             \/ \E m \in Messages : Send(c, m)
      PROVE  IInv'
  BY <1>2, HandlerBegins, HandlerEnds, SocketStep DEF HandlerStep
<1>3. CASE UNCHANGED vars
  <2>1. UNCHANGED <<active, handler, cancel, late, session>>
    BY <1>3 DEF vars
  <2>2. "pc" \in DOMAIN session
    BY DEF IInv, Types
  <2> QED BY <2>1, <2>2, Unmoved
<1> QED BY <1>1, <1>2, <1>3 DEF Next

\* The inductive invariant holds in every reachable state.
LEMMA AlwaysIInv == Spec => []IInv
BY InitIInv, NextIInv, PTL DEF Spec

\* The streaming slot (AppState.streaming_session) belongs to the connection
\* whose handler has not returned and to nobody otherwise, and no session task
\* runs without it: SessionGuard with the await of the session before its drop.
THEOREM OneSessionAtATime == Spec => []OneSession
<1>1. IInv => OneSession
  BY SessionAssumption DEF IInv, Types, Ownership, OneSession, Running, Holding
<1> QED BY <1>1, AlwaysIInv, PTL

\* After the handler's select has returned at most one decode is begun, the
\* one of the phrase that the session was already closing: the cancel flag of
\* handle_realtime_socket, checked by run_session and handle_vad_events.
THEOREM AtMostOneLateDecode == Spec => []OneLateDecode
<1>1. IInv => OneLateDecode
  BY DEF IInv, Types, OneLateDecode
<1> QED BY <1>1, AlwaysIInv, PTL

-----------------------------------------------------------------------------
(* What the session says. *)

\* The events of a session, and its state.
EventTypes == {"created", "updated", "started", "delta", "stopped", "committed",
               "completed", "error"}
ServerEvents == [type : EventTypes, item : Nat, text : Seq(Words)]
Kinds == {"start", "partial", "end"}
Sessions ==
  [pc : {"recv", "batch", "submit", "decode", "partial", "ended"},
   outbox : Seq(ServerEvents), batch : Seq(Kinds), speaking : BOOLEAN,
   item : Nat, next : Nat \ {0}, emitted : Seq(Words), decoding : Nat,
   result : {"none", "ok", "err"}]

\* What the history says after one more event.
LEMMA ItemsInAppend ==
  ASSUME NEW t \in Seq(ServerEvents), NEW e \in ServerEvents, NEW type
  PROVE  ItemsIn(Append(t, e), type) =
           ItemsIn(t, type) \union (IF e.type = type THEN {e.item} ELSE {})
<1> DEFINE u == Append(t, e)
<1>1. /\ Len(t) \in Nat /\ DOMAIN t = 1..Len(t) /\ DOMAIN u = 1..(Len(t) + 1)
      /\ u[Len(t) + 1] = e /\ \A k \in 1..Len(t) : u[k] = t[k]
  OBVIOUS
<1> HIDE DEF u
<1>2. ItemsIn(u, type) =
        ItemsIn(t, type) \union (IF e.type = type THEN {e.item} ELSE {})
  BY <1>1 DEF ItemsIn
<1> QED BY <1>2 DEF u

\* Nothing was said before the first event, and one or two events say theirs.
LEMMA ItemsInFew ==
  ASSUME NEW type
  PROVE  /\ ItemsIn(<<>>, type) = {}
         /\ \A e \in ServerEvents :
              ItemsIn(<<e>>, type) = IF e.type = type THEN {e.item} ELSE {}
         /\ \A e, f \in ServerEvents :
              ItemsIn(<<e, f>>, type) = (IF e.type = type THEN {e.item} ELSE {})
                                 \union (IF f.type = type THEN {f.item} ELSE {})
<1>1. ItemsIn(<<>>, type) = {}
  BY DEF ItemsIn
<1>2. ASSUME NEW e \in ServerEvents
      PROVE  ItemsIn(<<e>>, type) = IF e.type = type THEN {e.item} ELSE {}
  <2>1. DOMAIN <<e>> = {1} /\ <<e>>[1] = e
    OBVIOUS
  <2> QED BY <2>1 DEF ItemsIn
<1>3. ASSUME NEW e \in ServerEvents, NEW f \in ServerEvents
      PROVE  ItemsIn(<<e, f>>, type) = (IF e.type = type THEN {e.item} ELSE {})
                                 \union (IF f.type = type THEN {f.item} ELSE {})
  <2>1. DOMAIN <<e, f>> = {1, 2} /\ <<e, f>>[1] = e /\ <<e, f>>[2] = f
    OBVIOUS
  <2> QED BY <2>1 DEF ItemsIn
<1> QED BY <1>1, <1>2, <1>3

\* The text of an event is the next piece of what the client puts together.
LEMMA TextOfAppend ==
  ASSUME NEW t \in Seq(ServerEvents), NEW e \in ServerEvents, NEW item,
         TextOf(t, item) \in Seq(Words)
  PROVE  TextOf(Append(t, e), item) = TextOf(t, item) \o DeltaOf(e, item)
<1> DEFINE pieces == [k \in DOMAIN t |-> DeltaOf(t[k], item)]
           piece == DeltaOf(e, item)
           u == Append(t, e)
           more == [k \in DOMAIN u |-> DeltaOf(u[k], item)]
<1>1. /\ Len(t) \in Nat /\ DOMAIN t = 1..Len(t) /\ DOMAIN u = 1..(Len(t) + 1)
      /\ u[Len(t) + 1] = e /\ \A k \in 1..Len(t) : u[k] = t[k] /\ t[k] \in ServerEvents
  OBVIOUS
<1>2. ASSUME NEW d \in ServerEvents PROVE DeltaOf(d, item) \in Seq(Words)
  BY <1>2 DEF DeltaOf, ServerEvents
<1>3. pieces \in Seq(Seq(Words)) /\ Len(pieces) = Len(t) /\ piece \in Seq(Words)
  <2>1. \A k \in 1..Len(t) : DeltaOf(t[k], item) \in Seq(Words)
    BY <1>1, <1>2
  <2>2. pieces = [k \in 1..Len(t) |-> DeltaOf(t[k], item)]
    BY <1>1
  <2>3. pieces \in Seq(Seq(Words))
    BY <1>1, <2>1, <2>2
  <2>4. DOMAIN pieces = 1..Len(t)
    BY <2>2
  <2> HIDE DEF pieces
  <2> QED BY <1>1, <1>2, <2>3, <2>4
<1>4. more = Append(pieces, piece)
  <2>1. more \in Seq(Seq(Words)) /\ Len(more) = Len(t) + 1
    <3>1. more = [k \in 1..(Len(t) + 1) |-> DeltaOf(u[k], item)]
      BY <1>1
    <3>2. \A k \in 1..(Len(t) + 1) : DeltaOf(u[k], item) \in Seq(Words)
      <4>1. \A k \in 1..(Len(t) + 1) : u[k] \in ServerEvents
        BY <1>1
      <4> QED BY <1>2, <4>1
    <3>3. more \in Seq(Seq(Words)) /\ DOMAIN more = 1..(Len(t) + 1)
      <4> HIDE DEF u
      <4> QED BY <1>1, <3>1, <3>2
    <3> HIDE DEF more
    <3> QED BY <1>1, <3>3
  <2>2. \A k \in 1..Len(t) : more[k] = pieces[k]
    <3> HIDE DEF u
    <3> QED BY <1>1
  <2>3. more[Len(t) + 1] = piece
    <3> HIDE DEF u
    <3> QED BY <1>1
  <2> HIDE DEF more, pieces, piece, u
  <2>4. /\ Append(pieces, piece) \in Seq(Seq(Words))
        /\ Len(Append(pieces, piece)) = Len(t) + 1
        /\ \A k \in 1..Len(t) : Append(pieces, piece)[k] = pieces[k]
        /\ Append(pieces, piece)[Len(t) + 1] = piece
    BY <1>1, <1>3
  <2> QED BY <1>1, <2>1, <2>2, <2>3, <2>4, SeqEqual
<1>5. TextOf(t, item) = FlattenSeq(pieces) /\ TextOf(u, item) = FlattenSeq(more)
  BY DEF TextOf
<1> HIDE DEF more, pieces, piece
<1>6. FlattenSeq(Append(pieces, piece)) = FlattenSeq(pieces) \o piece
  BY <1>3, <1>5, FlattenAppend
<1> QED BY <1>4, <1>5, <1>6 DEF piece

\* Every event of a history may follow those before it.
Ordered(t) == \A i \in DOMAIN t : MayFollow(SubSeq(t, 1, i - 1), t[i])

\* So may one more.
LEMMA OrderedAppend ==
  ASSUME NEW t \in Seq(ServerEvents), NEW e \in ServerEvents, Ordered(t), MayFollow(t, e)
  PROVE  Ordered(Append(t, e))
<1> DEFINE u == Append(t, e)
<1>1. /\ Len(t) \in Nat /\ DOMAIN t = 1..Len(t) /\ DOMAIN u = 1..(Len(t) + 1)
      /\ u[Len(t) + 1] = e /\ \A k \in 1..Len(t) : u[k] = t[k]
      /\ u \in Seq(ServerEvents) /\ Len(u) = Len(t) + 1
  OBVIOUS
<1> HIDE DEF u
<1>2. ASSUME NEW i \in 1..(Len(t) + 1)
      PROVE  SubSeq(u, 1, i - 1) = SubSeq(t, 1, i - 1)
  <2> DEFINE a == SubSeq(u, 1, i - 1)
             b == SubSeq(t, 1, i - 1)
  <2>1. a \in Seq(ServerEvents) /\ b \in Seq(ServerEvents) /\ Len(a) = i - 1 /\ Len(b) = i - 1
    BY <1>1, SubSeqProperties
  <2>2. \A k \in 1..(i - 1) : a[k] = b[k]
    BY <1>1, SubSeqProperties
  <2> HIDE DEF a, b
  <2>3. a = b
    BY <2>1, <2>2, SeqEqual
  <2> QED BY <2>3 DEF a, b
<1>3. SubSeq(t, 1, Len(t)) = t
  BY <1>1, SubSeqFull
<1>4. ASSUME NEW i \in 1..(Len(t) + 1) PROVE MayFollow(SubSeq(u, 1, i - 1), u[i])
  <2>1. CASE i = Len(t) + 1
    <3>1. i - 1 = Len(t)
      BY <1>1, <2>1
    <3> QED BY <1>1, <1>2, <1>3, <2>1, <3>1
  <2>2. CASE i # Len(t) + 1
    <3>1. i \in 1..Len(t)
      BY <1>1, <2>2
    <3> QED BY <1>1, <1>2, <3>1 DEF Ordered
  <2> QED BY <2>1, <2>2
<1> QED BY <1>1, <1>4 DEF Ordered, u

-----------------------------------------------------------------------------
\* Where the task stands: an item is open while a phrase is, or being decoded,
\* and the rest of a batch fits the phrase.
Stage(s, c) ==
  /\ s.item \in {0, s.next - 1} /\ s.decoding \in {0, s.next - 1}
  /\ s.item = 0 \/ s.decoding = 0
  /\ s.decoding # 0 => s.pc \in {"submit", "decode", "ended"}
  /\ s.pc \in {"submit", "decode"} => s.decoding # 0
  /\ s.pc = "recv" => s.batch = <<>>
  /\ ~c /\ s.pc # "ended" =>
       /\ Framed(s.item # 0, s.batch)
       /\ s.speaking <=> IF s.batch = <<>> THEN s.item # 0 ELSE s.batch[Len(s.batch)] # "end"

\* What is in the outbox.
Owes(s, e) ==
  \/ e.type \in {"created", "updated"}
  \/ e.type \in {"started", "delta"} /\ e.item = s.item /\ s.item # 0
  \/ e.type = "committed" /\ e.item = s.decoding /\ s.decoding # 0
  \/ e.type = "completed" /\ e.item = s.next - 1 /\ s.next > 1 /\ s.item = 0 /\ s.decoding = 0

\* What closes a phrase.
Closing(n) == <<Event("stopped", n, <<>>), Event("committed", n, <<>>)>>

\* It is empty, owes one event or closes a phrase.
Box(s) ==
  \/ s.outbox = <<>>
  \/ \E e \in ServerEvents : s.outbox = <<e>> /\ Owes(s, e)
  \/ s.decoding # 0 /\ s.outbox = Closing(s.decoding)

\* The events of every phrase so far are in the channel or in the outbox,
\* except those that are not due yet.
Ledger(s, t) ==
  LET Begun == 1..(s.next - 1)
      Left(type) == ItemsIn(s.outbox, type) IN
  /\ ItemsIn(t, "started") = Begun \ Left("started")
  /\ ItemsIn(t, "stopped") = Begun \ ({s.item} \union Left("stopped"))
  /\ ItemsIn(t, "committed") = Begun \ ({s.item} \union Left("committed"))
  /\ ItemsIn(t, "completed") = Begun \ ({s.item, s.decoding} \union Left("completed"))

\* The deltas of the open phrase, with the one in the outbox, are what was
\* emitted.
Wrote(s, t) ==
  /\ s.emitted \in Texts \union {<<>>}
  /\ \A n \in Nat : /\ TextOf(t, n) \in Texts \union {<<>>}
                    /\ n >= s.next => TextOf(t, n) = <<>>
  /\ s.item # 0 =>
       s.emitted = IF s.outbox = <<>> THEN TextOf(t, s.item)
                   ELSE TextOf(t, s.item) \o DeltaOf(s.outbox[1], s.item)

\* s: the session, t: what it put into the channel, c: the cancel flag.
Good(s, t, c) ==
  /\ s \in Sessions /\ t \in Seq(ServerEvents)
  /\ Stage(s, c) /\ Box(s) /\ Ledger(s, t) /\ Wrote(s, t) /\ Ordered(t)

\* What the recogniser returns, and the empty text.
LEMMA TextsAreSequences == \A x \in Texts \union {<<>>} : x \in Seq(Words)
<1>1. <<>> \in Seq(Words)
  OBVIOUS
<1> QED BY <1>1, SessionAssumption

\* The fields of a session.
LEMMA SessionFields ==
  ASSUME NEW s \in Sessions
  PROVE  /\ s.pc \in {"recv", "batch", "submit", "decode", "partial", "ended"}
         /\ s.outbox \in Seq(ServerEvents) /\ s.batch \in Seq(Kinds) /\ s.speaking \in BOOLEAN
         /\ s.item \in Nat /\ s.next \in Nat \ {0} /\ s.emitted \in Seq(Words)
         /\ s.decoding \in Nat /\ s.result \in {"none", "ok", "err"}
BY DEF Sessions

\* The two events that close a phrase.
LEMMA ClosingItems ==
  ASSUME NEW d \in Nat
  PROVE  /\ Head(Closing(d)) = Event("stopped", d, <<>>)
         /\ Closing(d)[1] = Event("stopped", d, <<>>)
         /\ Tail(Closing(d)) = <<Event("committed", d, <<>>)>>
         /\ \A type : /\ ItemsIn(Closing(d), type) =
                           IF type \in {"stopped", "committed"} THEN {d} ELSE {}
                      /\ ItemsIn(Tail(Closing(d)), type) = IF type = "committed" THEN {d} ELSE {}
<1> DEFINE e == Event("stopped", d, <<>>)
           f == Event("committed", d, <<>>)
<1>1. /\ e \in ServerEvents /\ f \in ServerEvents /\ e.type = "stopped" /\ f.type = "committed"
      /\ e.item = d /\ f.item = d
  BY DEF Event, ServerEvents, EventTypes
<1>2. Closing(d) = <<e, f>>
  BY DEF Closing
<1> HIDE DEF e, f
<1>3. Head(<<e, f>>) = e /\ Tail(<<e, f>>) = <<f>> /\ <<e, f>>[1] = e
  OBVIOUS
<1>4. ASSUME NEW type
      PROVE  /\ ItemsIn(<<e, f>>, type) = IF type \in {"stopped", "committed"} THEN {d} ELSE {}
             /\ ItemsIn(<<f>>, type) = IF type = "committed" THEN {d} ELSE {}
  <2>1. "stopped" # "committed"
    OBVIOUS
  <2>2. /\ \A a \in ServerEvents :
             ItemsIn(<<a>>, type) = IF a.type = type THEN {a.item} ELSE {}
        /\ \A a, b \in ServerEvents :
             ItemsIn(<<a, b>>, type) = (IF a.type = type THEN {a.item} ELSE {})
                                \union (IF b.type = type THEN {b.item} ELSE {})
    BY ItemsInFew
  <2>3. /\ ItemsIn(<<e, f>>, type) = (IF e.type = type THEN {e.item} ELSE {})
                               \union (IF f.type = type THEN {f.item} ELSE {})
        /\ ItemsIn(<<f>>, type) = IF f.type = type THEN {f.item} ELSE {}
    BY <1>1, <2>2, Zenon
  <2>4. ItemsIn(<<f>>, type) = IF type = "committed" THEN {d} ELSE {}
    BY <1>1, <2>3
  <2>5. ItemsIn(<<e, f>>, type) = (IF type = "stopped" THEN {d} ELSE {})
                           \union (IF type = "committed" THEN {d} ELSE {})
    BY <1>1, <2>3
  <2> QED BY <2>1, <2>4, <2>5
<1> QED BY <1>2, <1>3, <1>4 DEF e, f

\* What the outbox owes, item by item.
LEMMA OutboxItems ==
  ASSUME NEW s \in Sessions, Box(s), s.outbox # <<>>
  PROVE  \/ /\ \E e \in ServerEvents :
                 /\ s.outbox = <<e>> /\ Owes(s, e)
                 /\ Head(s.outbox) = e /\ Tail(s.outbox) = <<>> /\ s.outbox[1] = e
                 /\ \A type : ItemsIn(s.outbox, type) = IF e.type = type THEN {e.item} ELSE {}
         \/ /\ s.decoding # 0
            /\ Head(s.outbox) = Event("stopped", s.decoding, <<>>)
            /\ s.outbox[1] = Event("stopped", s.decoding, <<>>)
            /\ Tail(s.outbox) = <<Event("committed", s.decoding, <<>>)>>
            /\ \A type : ItemsIn(s.outbox, type) =
                           IF type \in {"stopped", "committed"} THEN {s.decoding} ELSE {}
            /\ \A type : ItemsIn(Tail(s.outbox), type) =
                           IF type = "committed" THEN {s.decoding} ELSE {}
<1>1. CASE \E e \in ServerEvents : s.outbox = <<e>> /\ Owes(s, e)
  <2>1. PICK e \in ServerEvents : s.outbox = <<e>> /\ Owes(s, e)
    BY <1>1
  <2>2. Head(<<e>>) = e /\ Tail(<<e>>) = <<>> /\ <<e>>[1] = e
    OBVIOUS
  <2>3. \A type : ItemsIn(<<e>>, type) = IF e.type = type THEN {e.item} ELSE {}
    BY ItemsInFew
  <2> QED BY <2>1, <2>2, <2>3
<1>2. CASE s.decoding # 0 /\ s.outbox = Closing(s.decoding)
  <2>1. s.decoding \in Nat
    BY SessionFields
  <2> QED BY <1>2, <2>1, ClosingItems
<1> QED BY <1>1, <1>2 DEF Box

\* send_event: the next event may follow, and the history and the outbox say
\* together what they said.
LEMMA SendKeeps ==
  ASSUME NEW s, NEW t, NEW c, Good(s, t, c), s.outbox # <<>>
  PROVE  Good([s EXCEPT !.outbox = Tail(@)], Append(t, Head(s.outbox)), c)
<1> DEFINE box == s.outbox
           e == Head(box)
           rest == Tail(box)
           w == [s EXCEPT !.outbox = rest]
           u == Append(t, e)
<1>1. s \in Sessions /\ t \in Seq(ServerEvents) /\ Ordered(t)
  BY DEF Good
<1>2. box \in Seq(ServerEvents) /\ box # <<>>
  BY <1>1, SessionFields
<1>3. e \in ServerEvents /\ rest \in Seq(ServerEvents)
  <2> HIDE DEF box
  <2> QED BY <1>2
<1> HIDE DEF e, rest
<1>4. w \in Sessions
  BY <1>1, <1>3 DEF Sessions
<1>5. /\ w.pc = s.pc /\ w.outbox = rest /\ w.batch = s.batch /\ w.speaking = s.speaking
      /\ w.item = s.item /\ w.next = s.next /\ w.emitted = s.emitted
      /\ w.decoding = s.decoding
  BY <1>1 DEF Sessions
<1> HIDE DEF w
<1>6. Stage(w, c)
  BY <1>5 DEF Good, Stage
<1>7. \A type : ItemsIn(u, type) = ItemsIn(t, type) \union (IF e.type = type THEN {e.item} ELSE {})
  BY <1>1, <1>3, ItemsInAppend
<1>8. u \in Seq(ServerEvents)
  BY <1>1, <1>3
<1> HIDE DEF u
<1> DEFINE One == /\ rest = <<>> /\ Owes(s, e)
                  /\ \A type : /\ ItemsIn(box, type) = IF e.type = type THEN {e.item} ELSE {}
                               /\ ItemsIn(rest, type) = {}
           Two == /\ s.decoding # 0 /\ e = Event("stopped", s.decoding, <<>>)
                  /\ rest = <<Event("committed", s.decoding, <<>>)>>
                  /\ \A type : /\ ItemsIn(box, type) =
                                    IF type \in {"stopped", "committed"} THEN {s.decoding} ELSE {}
                               /\ ItemsIn(rest, type) =
                                    IF type = "committed" THEN {s.decoding} ELSE {}
<1>9. One \/ Two
  <2>1. Box(s)
    BY DEF Good
  <2>2. \A type : ItemsIn(<<>>, type) = {}
    BY ItemsInFew
  <2>3. \/ \E d \in ServerEvents :
             /\ Owes(s, d) /\ e = d /\ rest = <<>>
             /\ \A type : ItemsIn(box, type) = IF d.type = type THEN {d.item} ELSE {}
        \/ /\ s.decoding # 0 /\ e = Event("stopped", s.decoding, <<>>)
           /\ rest = <<Event("committed", s.decoding, <<>>)>>
           /\ \A type : /\ ItemsIn(box, type) =
                             IF type \in {"stopped", "committed"} THEN {s.decoding} ELSE {}
                        /\ ItemsIn(rest, type) = IF type = "committed" THEN {s.decoding} ELSE {}
    BY <1>1, <1>2, <2>1, OutboxItems DEF e, rest
  <2> QED BY <2>2, <2>3
<1>10. /\ s.item \in Nat /\ s.next \in Nat \ {0} /\ s.decoding \in Nat
       /\ s.item \in {0, s.next - 1} /\ s.decoding \in {0, s.next - 1}
       /\ s.item = 0 \/ s.decoding = 0
  BY <1>1, SessionFields DEF Good, Stage
<1>11. /\ ItemsIn(t, "started") = 1..(s.next - 1) \ ItemsIn(box, "started")
       /\ ItemsIn(t, "stopped") = 1..(s.next - 1) \ ({s.item} \union ItemsIn(box, "stopped"))
       /\ ItemsIn(t, "committed") = 1..(s.next - 1) \ ({s.item} \union ItemsIn(box, "committed"))
       /\ ItemsIn(t, "completed") =
            1..(s.next - 1) \ ({s.item, s.decoding} \union ItemsIn(box, "completed"))
  BY DEF Good, Ledger
<1>12. /\ s.emitted \in Texts \union {<<>>}
       /\ \A n \in Nat : /\ TextOf(t, n) \in Texts \union {<<>>}
                         /\ n >= s.next => TextOf(t, n) = <<>>
       /\ s.item # 0 => s.emitted = TextOf(t, s.item) \o DeltaOf(e, s.item)
  <2>1. e = box[1]
    BY <1>2 DEF e
  <2>2. Wrote(s, t) /\ s.outbox # <<>>
    BY DEF Good
  <2> HIDE DEF e, u
  <2> QED BY <2>1, <2>2 DEF Wrote
<1> HIDE DEF box
<1>13. ASSUME One PROVE Box(w) /\ Ledger(w, u) /\ MayFollow(t, e)
  <2>1. Box(w)
    BY <1>5, <1>13 DEF Box
  <2>2. Ledger(w, u)
    BY <1>5, <1>7, <1>10, <1>11, <1>13 DEF Ledger, Owes
  <2>3. MayFollow(t, e)
    <3>1. CASE e.type \in {"created", "updated"}
      BY <3>1 DEF MayFollow
    <3>2. CASE e.type = "started" /\ e.item = s.item /\ s.item # 0
      <4>1. ItemsIn(t, "started") = 1..(s.next - 1) \ {s.next - 1} /\ e.item = s.next - 1
        BY <1>10, <1>11, <1>13, <3>2
      <4> QED BY <1>10, <3>2, <4>1 DEF MayFollow
    <3>3. CASE e.type = "delta" /\ e.item = s.item /\ s.item # 0
      <4>1. e.item \in ItemsIn(t, "started") /\ e.item \notin ItemsIn(t, "stopped")
        BY <1>10, <1>11, <1>13, <3>3
      <4> QED BY <3>3, <4>1 DEF MayFollow
    <3>4. CASE e.type = "committed" /\ e.item = s.decoding /\ s.decoding # 0
      <4>1. /\ ItemsIn(box, "stopped") = {} /\ ItemsIn(box, "completed") = {}
            /\ ItemsIn(box, "committed") = {s.decoding}
        BY <1>13, <3>4
      <4>2. s.item = 0 /\ s.decoding = s.next - 1 /\ s.decoding \in 1..(s.next - 1)
        BY <1>10, <3>4
      <4>3. /\ ItemsIn(t, "stopped") = 1..(s.next - 1) \ {0}
            /\ ItemsIn(t, "committed") = 1..(s.next - 1) \ {0, s.decoding}
            /\ ItemsIn(t, "completed") = 1..(s.next - 1) \ {0, s.decoding}
        BY <1>11, <4>1, <4>2
      <4>4. /\ e.item \in ItemsIn(t, "stopped") /\ e.item \notin ItemsIn(t, "committed")
            /\ ItemsIn(t, "committed") = ItemsIn(t, "completed")
        BY <1>10, <4>2, <4>3, <3>4
      <4> QED BY <3>4, <4>4 DEF MayFollow
    <3>5. CASE /\ e.type = "completed" /\ e.item = s.next - 1
               /\ s.next > 1 /\ s.item = 0 /\ s.decoding = 0
      <4>1. e.item \in ItemsIn(t, "committed") /\ e.item \notin ItemsIn(t, "completed")
        BY <1>10, <1>11, <1>13, <3>5
      <4> QED BY <3>5, <4>1 DEF MayFollow
    <3> QED BY <1>13, <3>1, <3>2, <3>3, <3>4, <3>5 DEF Owes
  <2> QED BY <2>1, <2>2, <2>3
<1>14. ASSUME Two PROVE Box(w) /\ Ledger(w, u) /\ MayFollow(t, e)
  <2>1. Box(w)
    <3> DEFINE f == Event("committed", s.decoding, <<>>)
    <3>1. f \in ServerEvents /\ f.type = "committed" /\ f.item = s.decoding
      BY <1>10 DEF Event, ServerEvents, EventTypes
    <3>2. rest = <<f>>
      BY <1>14
    <3> HIDE DEF f
    <3>3. Owes(w, f)
      BY <1>5, <1>14, <3>1 DEF Owes
    <3> QED BY <1>5, <3>1, <3>2, <3>3 DEF Box
  <2>2. Ledger(w, u)
    BY <1>5, <1>7, <1>10, <1>11, <1>14 DEF Ledger, Event
  <2>3. MayFollow(t, e)
    BY <1>10, <1>11, <1>14 DEF MayFollow, Event
  <2> QED BY <2>1, <2>2, <2>3
<1>15. ASSUME NEW n \in Nat
       PROVE  /\ TextOf(u, n) = TextOf(t, n) \o DeltaOf(e, n)
              /\ ~(e.type = "delta" /\ e.item = n) => TextOf(u, n) = TextOf(t, n)
  <2>1. TextOf(t, n) \in Seq(Words)
    BY <1>12, TextsAreSequences
  <2>2. TextOf(u, n) = TextOf(t, n) \o DeltaOf(e, n)
    BY <1>1, <1>3, <2>1, TextOfAppend DEF u
  <2>3. ASSUME ~(e.type = "delta" /\ e.item = n) PROVE DeltaOf(e, n) = <<>>
    BY <2>3 DEF DeltaOf
  <2> DEFINE x == TextOf(t, n)
  <2> HIDE DEF x
  <2>4. x \in Seq(Words) => x \o <<>> = x
    OBVIOUS
  <2> QED BY <2>1, <2>2, <2>3, <2>4 DEF x
<1>16. Wrote(w, u)
  <2>1. ~(e.type = "delta") \/ (e.type = "delta" /\ e.item = s.item /\ s.item # 0 /\ rest = <<>>)
    BY <1>9 DEF Owes, Event
  <2>2. \A n \in Nat : /\ TextOf(u, n) \in Texts \union {<<>>}
                       /\ n >= s.next => TextOf(u, n) = <<>>
    <3>1. ASSUME NEW n \in Nat
          PROVE  TextOf(u, n) \in Texts \union {<<>>} /\ (n >= s.next => TextOf(u, n) = <<>>)
      <4>1. CASE e.type = "delta" /\ e.item = n
        <5>1. n = s.item /\ s.item # 0 /\ n < s.next
          BY <1>10, <2>1, <4>1
        <5>2. TextOf(u, n) = s.emitted
          BY <1>12, <1>15, <5>1
        <5> QED BY <1>10, <1>12, <5>1, <5>2
      <4>2. CASE ~(e.type = "delta" /\ e.item = n)
        BY <1>12, <1>15, <4>2
      <4> QED BY <4>1, <4>2
    <3> QED BY <3>1
  <2>3. s.item # 0 => s.emitted = TextOf(u, s.item) /\ rest = <<>>
    <3>1. s.item # 0 => s.emitted = TextOf(u, s.item)
      BY <1>10, <1>12, <1>15
    <3>2. s.item # 0 => rest = <<>>
      BY <1>9, <1>10
    <3> QED BY <3>1, <3>2
  <2> QED BY <1>5, <1>12, <2>2, <2>3 DEF Wrote
<1>17. Box(w) /\ Ledger(w, u) /\ Ordered(u)
  <2>1. Box(w) /\ Ledger(w, u) /\ MayFollow(t, e)
    BY <1>9, <1>13, <1>14
  <2>2. Ordered(u)
    BY <1>1, <1>3, <2>1, OrderedAppend DEF u
  <2> QED BY <2>1, <2>2
<1>18. Good(w, u, c)
  BY <1>4, <1>6, <1>8, <1>16, <1>17 DEF Good
<1> QED BY <1>18 DEF w, u, box, e, rest

-----------------------------------------------------------------------------
\* A flag that is set, or a task that is over, asks less of the rest of a batch.
LEMMA CancelKeeps ==
  ASSUME NEW s, NEW t, NEW c, Good(s, t, c)
  PROVE  Good(s, t, TRUE)
BY DEF Good, Stage

\* An error from the reader comes between the events of the session.
LEMMA ErrorKeeps ==
  ASSUME NEW s, NEW t, NEW c, Good(s, t, c)
  PROVE  /\ Good(s, Append(t, Plain("error")), c)
         /\ Plain("error") \in ServerEvents
<1> DEFINE e == Plain("error")
           u == Append(t, e)
<1>1. e \in ServerEvents /\ e.type = "error"
  <2>1. <<>> \in Seq(Words)
    OBVIOUS
  <2> QED BY <2>1 DEF Plain, Event, ServerEvents, EventTypes
<1> HIDE DEF e
<1>2. t \in Seq(ServerEvents) /\ s \in Sessions /\ Ordered(t)
  BY DEF Good
<1>3. u \in Seq(ServerEvents)
  BY <1>1, <1>2
<1>4. ASSUME NEW type, type # "error" PROVE ItemsIn(u, type) = ItemsIn(t, type)
  <2>1. ItemsIn(u, type) = ItemsIn(t, type) \union (IF e.type = type THEN {e.item} ELSE {})
    BY <1>1, <1>2, ItemsInAppend
  <2> QED BY <1>1, <1>4, <2>1
<1>5. Ledger(s, u)
  BY <1>4 DEF Good, Ledger
<1>6. MayFollow(t, e)
  BY <1>1 DEF MayFollow
<1>7. Ordered(u)
  BY <1>1, <1>2, <1>6, OrderedAppend
<1>8. \A n \in Nat : TextOf(t, n) \in Texts \union {<<>>}
  BY DEF Good, Wrote
<1>9. ASSUME NEW n \in Nat PROVE TextOf(u, n) = TextOf(t, n)
  <2>1. TextOf(t, n) \in Seq(Words)
    BY <1>8, TextsAreSequences
  <2>2. TextOf(u, n) = TextOf(t, n) \o DeltaOf(e, n)
    BY <1>1, <1>2, <2>1, TextOfAppend DEF u
  <2>3. DeltaOf(e, n) = <<>>
    BY <1>1 DEF DeltaOf
  <2> DEFINE x == TextOf(t, n)
  <2> HIDE DEF x
  <2>4. x \in Seq(Words) => x \o <<>> = x
    OBVIOUS
  <2> QED BY <2>1, <2>2, <2>3, <2>4 DEF x
<1>10. s.item \in Nat
  BY <1>2, SessionFields
<1> HIDE DEF u
<1>11. Wrote(s, u)
  BY <1>9, <1>10 DEF Good, Wrote
<1> QED BY <1>1, <1>2, <1>3, <1>5, <1>7, <1>11 DEF Good, e, u

\* A step that says nothing, or confirms an update.
LEMMA QuietKeeps ==
  ASSUME NEW s, NEW t, NEW c, Good(s, t, c), s.outbox = <<>>,
         NEW w \in Sessions, w.item = s.item, w.next = s.next, w.decoding = s.decoding,
         w.emitted = s.emitted, w.outbox \in {<<>>, <<Plain("updated")>>}, Stage(w, c)
  PROVE  Good(w, t, c)
<1> DEFINE e == Plain("updated")
<1>1. e \in ServerEvents /\ e.type = "updated"
  <2>1. <<>> \in Seq(Words)
    OBVIOUS
  <2> QED BY <2>1 DEF Plain, Event, ServerEvents, EventTypes
<1> HIDE DEF e
<1>2. \A type : ItemsIn(s.outbox, type) = {}
  BY ItemsInFew
<1>3. \A type : type # "updated" => ItemsIn(w.outbox, type) = {}
  BY <1>1, ItemsInFew DEF e
<1>4. Box(w)
  <2>1. Owes(w, e)
    BY <1>1 DEF Owes
  <2> QED BY <1>1, <2>1 DEF Box, e
<1>5. Ledger(w, t)
  BY <1>2, <1>3 DEF Good, Ledger
<1>6. Wrote(w, t)
  <2>1. \A n \in Nat : TextOf(t, n) \in Texts \union {<<>>}
    BY DEF Good, Wrote
  <2>2. s.item \in Nat
    BY SessionFields DEF Good
  <2>3. w.outbox # <<>> => DeltaOf(w.outbox[1], w.item) = <<>>
    <3>1. <<e>>[1] = e
      OBVIOUS
    <3> QED BY <1>1, <3>1 DEF DeltaOf, e
  <2> DEFINE x == TextOf(t, s.item)
  <2> HIDE DEF x
  <2>4. x \in Seq(Words) => x \o <<>> = x
    OBVIOUS
  <2>5. x \in Seq(Words)
    BY <2>1, <2>2, TextsAreSequences DEF x
  <2>6. s.item # 0 => s.emitted = x
    BY DEF Good, Wrote, x
  <2>7. s.item # 0 => w.emitted = IF w.outbox = <<>> THEN x
                                  ELSE x \o DeltaOf(w.outbox[1], w.item)
    BY <2>3, <2>4, <2>5, <2>6
  <2> QED BY <2>7 DEF Good, Wrote, x
<1> QED BY <1>4, <1>5, <1>6 DEF Good

\* When the outbox is empty, the channel has everything that is due.
LEMMA NothingOwed ==
  ASSUME NEW s, NEW t, Ledger(s, t), s.outbox = <<>>
  PROVE  /\ ItemsIn(t, "started") = 1..(s.next - 1)
         /\ ItemsIn(t, "stopped") = 1..(s.next - 1) \ {s.item}
         /\ ItemsIn(t, "committed") = 1..(s.next - 1) \ {s.item}
         /\ ItemsIn(t, "completed") = 1..(s.next - 1) \ {s.item, s.decoding}
<1>1. \A type : ItemsIn(s.outbox, type) = {}
  BY ItemsInFew
<1> DEFINE begun == 1..(s.next - 1)
<1>2. /\ ItemsIn(t, "started") = begun \ {}
      /\ ItemsIn(t, "stopped") = begun \ ({s.item} \union {})
      /\ ItemsIn(t, "committed") = begun \ ({s.item} \union {})
      /\ ItemsIn(t, "completed") = begun \ ({s.item, s.decoding} \union {})
  BY <1>1 DEF Ledger
<1> HIDE DEF begun
<1>3. /\ ItemsIn(t, "started") = begun
      /\ ItemsIn(t, "stopped") = begun \ {s.item}
      /\ ItemsIn(t, "committed") = begun \ {s.item}
      /\ ItemsIn(t, "completed") = begun \ {s.item, s.decoding}
  BY <1>2
<1> QED BY <1>3 DEF begun

\* The first event of a batch, and the rest of it.
LEMMA FramedTail ==
  ASSUME NEW open \in BOOLEAN, NEW b \in Seq(Kinds), b # <<>>, Framed(open, b)
  PROVE  /\ Head(b) \in Kinds /\ Tail(b) \in Seq(Kinds)
         /\ Head(b) = "start" <=> ~open
         /\ Framed(Head(b) # "end", Tail(b))
         /\ b[Len(b)] = IF Tail(b) = <<>> THEN Head(b) ELSE Tail(b)[Len(Tail(b))]
<1> DEFINE a == Tail(b)
           h == Head(b)
<1>1. /\ Len(b) \in Nat /\ Len(b) > 0 /\ h = b[1] /\ DOMAIN b = 1..Len(b) /\ h \in Kinds
      /\ a \in Seq(Kinds) /\ Len(a) = Len(b) - 1 /\ DOMAIN a = 1..(Len(b) - 1)
      /\ \A i \in 1..(Len(b) - 1) : a[i] = b[i + 1]
  OBVIOUS
<1> HIDE DEF a, h
<1>2. a = <<>> <=> Len(b) = 1
  BY <1>1
<1>3. h = "start" <=> ~open
  <2>1. 1 \in DOMAIN b
    BY <1>1
  <2>2. b[1] = "start" <=> ~open
    BY <2>1 DEF Framed
  <2> QED BY <1>1, <2>2
<1>4. Framed(h # "end", a)
  <2>1. ASSUME NEW i \in 1..(Len(b) - 1)
        PROVE  a[i] = "start" <=> ~(IF i = 1 THEN h # "end" ELSE a[i - 1] # "end")
    <3>1. i + 1 \in DOMAIN b /\ i + 1 # 1 /\ (i + 1) - 1 = i
      BY <1>1
    <3>2. b[i + 1] = "start" <=> ~(b[i] # "end")
      BY <3>1 DEF Framed
    <3>3. b[i] = IF i = 1 THEN h ELSE a[i - 1]
      BY <1>1
    <3> QED BY <1>1, <3>2, <3>3
  <2> QED BY <1>1, <2>1 DEF Framed
<1>5. b[Len(b)] = IF a = <<>> THEN h ELSE a[Len(a)]
  BY <1>1, <1>2
<1> QED BY <1>1, <1>3, <1>4, <1>5 DEF a, h

\* What a session about to handle the next event of its batch knows.
LEMMA NextVadEvent ==
  ASSUME NEW s \in Sessions, Stage(s, FALSE), s.pc = "batch", s.batch # <<>>
  PROVE  /\ Head(s.batch) \in Kinds /\ Tail(s.batch) \in Seq(Kinds)
         /\ s.decoding = 0
         /\ Head(s.batch) = "start" <=> s.item = 0
         /\ Framed(Head(s.batch) # "end", Tail(s.batch))
         /\ s.speaking <=> IF Tail(s.batch) = <<>> THEN Head(s.batch) # "end"
                           ELSE Tail(s.batch)[Len(Tail(s.batch))] # "end"
<1> DEFINE b == s.batch
           open == s.item # 0
<1>1. /\ b \in Seq(Kinds) /\ b # <<>> /\ open \in BOOLEAN /\ Framed(open, b) /\ s.decoding = 0
      /\ s.speaking <=> b[Len(b)] # "end"
  BY SessionFields DEF Stage
<1> HIDE DEF b
<1>2. /\ Head(b) \in Kinds /\ Tail(b) \in Seq(Kinds)
      /\ Head(b) = "start" <=> ~open
      /\ Framed(Head(b) # "end", Tail(b))
      /\ b[Len(b)] = IF Tail(b) = <<>> THEN Head(b) ELSE Tail(b)[Len(Tail(b))]
  BY <1>1, FramedTail
<1> QED BY <1>1, <1>2 DEF b

\* The next item begins.
LEMMA StartKeeps ==
  ASSUME NEW s, NEW t, Good(s, t, FALSE), s.outbox = <<>>,
         s.pc = "batch", s.batch # <<>>, Head(s.batch) = "start",
         NEW w \in Sessions, w.pc = s.pc, w.batch = Tail(s.batch), w.speaking = s.speaking,
         w.item = s.next, w.next = s.next + 1, w.decoding = s.decoding, w.emitted = <<>>,
         w.outbox = <<Event("started", s.next, <<>>)>>
  PROVE  Good(w, t, FALSE)
<1> DEFINE e == Event("started", s.next, <<>>)
<1>1. s \in Sessions /\ Stage(s, FALSE)
  BY DEF Good
<1>2. s.next \in Nat \ {0} /\ s.item = 0 /\ s.decoding = 0
  BY <1>1, SessionFields, NextVadEvent
<1>3. e \in ServerEvents /\ e.type = "started" /\ e.item = s.next
  <2>1. <<>> \in Seq(Words)
    OBVIOUS
  <2> QED BY <1>2, <2>1 DEF Event, ServerEvents, EventTypes
<1> HIDE DEF e
<1>4. w.outbox = <<e>> /\ <<e>>[1] = e /\ <<e>> # <<>>
  BY DEF e
<1>5. Stage(w, FALSE)
  BY <1>1, <1>2, NextVadEvent DEF Stage
<1>6. Box(w)
  BY <1>2, <1>3, <1>4 DEF Box, Owes
<1>7. Ledger(w, t)
  <2>1. \A type : /\ ItemsIn(s.outbox, type) = {}
                  /\ ItemsIn(w.outbox, type) = IF e.type = type THEN {e.item} ELSE {}
    BY <1>3, <1>4, ItemsInFew
  <2>2. /\ ItemsIn(t, "started") = 1..(s.next - 1) /\ ItemsIn(t, "stopped") = 1..(s.next - 1)
        /\ ItemsIn(t, "committed") = 1..(s.next - 1) /\ ItemsIn(t, "completed") = 1..(s.next - 1)
    <3>1. Ledger(s, t)
      BY DEF Good
    <3>2. 0 \notin 1..(s.next - 1)
      BY <1>2
    <3> QED BY <1>2, <3>1, <3>2, NothingOwed
  <2>3. /\ ItemsIn(w.outbox, "started") = {s.next} /\ ItemsIn(w.outbox, "stopped") = {}
        /\ ItemsIn(w.outbox, "committed") = {} /\ ItemsIn(w.outbox, "completed") = {}
    BY <1>3, <2>1
  <2>4. 1..(s.next - 1) = 1..((s.next + 1) - 1) \ {s.next}
    BY <1>2
  <2> QED BY <1>2, <2>2, <2>3, <2>4 DEF Ledger
<1>8. Wrote(w, t)
  <2>1. TextOf(t, s.next) = <<>> /\ s.next \in Nat
    BY <1>2 DEF Good, Wrote
  <2>2. DeltaOf(e, s.next) = <<>>
    BY <1>3 DEF DeltaOf
  <2>3. <<>> \o <<>> = <<>>
    OBVIOUS
  <2>4. \A n \in Nat : /\ TextOf(t, n) \in Texts \union {<<>>}
                       /\ n >= s.next + 1 => TextOf(t, n) = <<>>
    BY <1>2 DEF Good, Wrote
  <2> QED BY <1>4, <2>1, <2>2, <2>3, <2>4 DEF Wrote
<1> QED BY <1>5, <1>6, <1>7, <1>8 DEF Good

\* The open phrase ends and goes to its decode.
LEMMA EndKeeps ==
  ASSUME NEW s, NEW t, Good(s, t, FALSE), s.outbox = <<>>,
         s.pc = "batch", s.batch # <<>>, Head(s.batch) = "end",
         NEW w \in Sessions, w.pc = "submit", w.batch = Tail(s.batch), w.speaking = s.speaking,
         w.item = 0, w.next = s.next, w.decoding = s.item, w.emitted = s.emitted,
         w.outbox = Closing(s.item)
  PROVE  Good(w, t, FALSE)
<1>1. s \in Sessions /\ Stage(s, FALSE)
  BY DEF Good
<1>2. s.next \in Nat \ {0} /\ s.item = s.next - 1 /\ s.item # 0 /\ s.decoding = 0
  BY <1>1, SessionFields, NextVadEvent DEF Stage
<1>3. Stage(w, FALSE)
  BY <1>1, <1>2, NextVadEvent DEF Stage
<1>4. Box(w)
  BY <1>2 DEF Box
<1>5. Ledger(w, t)
  <2>1. \A type : ItemsIn(w.outbox, type) = IF type \in {"stopped", "committed"} THEN {s.item} ELSE {}
    <3>1. ASSUME NEW type
          PROVE  ItemsIn(Closing(s.item), type) =
                   IF type \in {"stopped", "committed"} THEN {s.item} ELSE {}
      BY <1>1, <1>2, SessionFields, ClosingItems
    <3> QED BY <3>1
  <2>2. /\ ItemsIn(t, "started") = 1..(s.next - 1)
        /\ ItemsIn(t, "stopped") = 1..(s.next - 1) \ {s.item}
        /\ ItemsIn(t, "committed") = 1..(s.next - 1) \ {s.item}
        /\ ItemsIn(t, "completed") = 1..(s.next - 1) \ {s.item}
    <3>1. Ledger(s, t)
      BY DEF Good
    <3>2. 0 \notin 1..(s.next - 1)
      BY <1>2
    <3>3. 1..(s.next - 1) \ {s.item, 0} = 1..(s.next - 1) \ {s.item}
      BY <3>2
    <3> QED BY <1>2, <3>1, <3>3, NothingOwed
  <2>3. /\ ItemsIn(w.outbox, "started") = {} /\ ItemsIn(w.outbox, "stopped") = {s.item}
        /\ ItemsIn(w.outbox, "committed") = {s.item} /\ ItemsIn(w.outbox, "completed") = {}
    BY <2>1
  <2> QED BY <1>2, <2>2, <2>3 DEF Ledger
<1>6. Wrote(w, t)
  BY DEF Good, Wrote
<1> QED BY <1>3, <1>4, <1>5, <1>6 DEF Good

\* The decode of the last phrase returns.
LEMMA CompletedKeeps ==
  ASSUME NEW s, NEW t, NEW c, Good(s, t, c), s.outbox = <<>>, s.pc = "decode",
         NEW text \in Texts,
         NEW w \in Sessions, w.pc = "batch", w.batch = s.batch, w.speaking = s.speaking,
         w.item = s.item, w.next = s.next, w.decoding = 0, w.emitted = s.emitted,
         w.outbox = <<Event("completed", s.decoding, text)>>
  PROVE  Good(w, t, c)
<1> DEFINE e == Event("completed", s.decoding, text)
<1>1. s \in Sessions /\ Stage(s, c)
  BY DEF Good
<1>2. s.next \in Nat \ {0} /\ s.item = 0 /\ s.decoding = s.next - 1 /\ s.next > 1
  BY <1>1, SessionFields DEF Stage
<1>3. e \in ServerEvents /\ e.type = "completed" /\ e.item = s.decoding
  <2>1. text \in Seq(Words) /\ s.decoding \in Nat
    BY <1>2, TextsAreSequences
  <2> QED BY <2>1 DEF Event, ServerEvents, EventTypes
<1> HIDE DEF e
<1>4. w.outbox = <<e>>
  BY DEF e
<1>5. Stage(w, c)
  BY <1>1, <1>2 DEF Stage
<1>6. Box(w)
  BY <1>2, <1>3, <1>4 DEF Box, Owes
<1>7. Ledger(w, t)
  <2>1. \A type : /\ ItemsIn(s.outbox, type) = {}
                  /\ ItemsIn(w.outbox, type) = IF e.type = type THEN {e.item} ELSE {}
    BY <1>3, <1>4, ItemsInFew
  <2>2. /\ ItemsIn(t, "started") = 1..(s.next - 1)
        /\ ItemsIn(t, "stopped") = 1..(s.next - 1) \ {0}
        /\ ItemsIn(t, "committed") = 1..(s.next - 1) \ {0}
        /\ ItemsIn(t, "completed") = 1..(s.next - 1) \ {0, s.decoding}
    BY <1>2, <2>1 DEF Good, Ledger
  <2>3. /\ ItemsIn(w.outbox, "started") = {} /\ ItemsIn(w.outbox, "stopped") = {}
        /\ ItemsIn(w.outbox, "committed") = {} /\ ItemsIn(w.outbox, "completed") = {s.decoding}
    BY <1>3, <2>1
  <2> QED BY <1>2, <2>2, <2>3 DEF Ledger
<1>8. Wrote(w, t)
  BY <1>2 DEF Good, Wrote
<1> QED BY <1>5, <1>6, <1>7, <1>8 DEF Good

\* A text is what was emitted before it and the new text.
LEMMA NewTextCompletes ==
  ASSUME NEW old \in Seq(Words), NEW text \in Seq(Words), IsStrictPrefix(old, text)
  PROVE  /\ SubSeq(text, Len(old) + 1, Len(text)) \in Seq(Words)
         /\ old \o SubSeq(text, Len(old) + 1, Len(text)) = text
<1> DEFINE new == SubSeq(text, Len(old) + 1, Len(text))
           both == old \o new
<1>1. /\ Len(old) \in Nat /\ Len(text) \in Nat /\ Len(old) <= Len(text)
      /\ \A i \in 1..Len(old) : text[i] = old[i]
  BY PrefixIs DEF IsStrictPrefix
<1>2. /\ new \in Seq(Words) /\ Len(new) = Len(text) - Len(old)
      /\ \A i \in 1..(Len(text) - Len(old)) : new[i] = text[Len(old) + i]
  BY <1>1, SubSeqProperties
<1> HIDE DEF new
<1>3. /\ both \in Seq(Words) /\ Len(both) = Len(text)
      /\ \A i \in 1..Len(text) : both[i] = IF i <= Len(old) THEN old[i] ELSE new[i - Len(old)]
  BY <1>1, <1>2, ConcatProperties
<1> HIDE DEF both
<1>4. \A i \in 1..Len(text) : both[i] = text[i]
  BY <1>1, <1>2, <1>3
<1>5. both = text
  BY <1>1, <1>3, <1>4, SeqEqual
<1> QED BY <1>2, <1>5 DEF both, new

\* A partial result extends what was emitted.
LEMMA DeltaKeeps ==
  ASSUME NEW s, NEW t, NEW c, Good(s, t, c), s.outbox = <<>>, s.pc = "partial", s.item # 0,
         NEW text \in Texts, IsStrictPrefix(s.emitted, text), NEW new,
         new = SubSeq(text, Len(s.emitted) + 1, Len(text)),
         NEW w \in Sessions, w.pc = "batch", w.batch = s.batch, w.speaking = s.speaking,
         w.item = s.item, w.next = s.next, w.decoding = s.decoding, w.emitted = text,
         w.outbox = <<Event("delta", s.item, new)>>
  PROVE  Good(w, t, c)
<1> DEFINE e == Event("delta", s.item, new)
<1>1. s \in Sessions /\ Stage(s, c)
  BY DEF Good
<1>2. s.next \in Nat \ {0} /\ s.item \in Nat /\ s.item = s.next - 1 /\ s.decoding = 0
  BY <1>1, SessionFields DEF Stage
<1>3. s.emitted \in Seq(Words) /\ text \in Seq(Words)
  BY <1>1, SessionFields, TextsAreSequences
<1>4. new \in Seq(Words) /\ s.emitted \o new = text
  BY <1>3, NewTextCompletes
<1>5. e \in ServerEvents /\ e.type = "delta" /\ e.item = s.item /\ e.text = new
  BY <1>2, <1>4 DEF Event, ServerEvents, EventTypes
<1> HIDE DEF e
<1>6. w.outbox = <<e>> /\ <<e>>[1] = e /\ <<e>> # <<>>
  BY DEF e
<1>7. Stage(w, c)
  BY <1>1, <1>2 DEF Stage
<1>8. Box(w)
  BY <1>2, <1>5, <1>6 DEF Box, Owes
<1>9. Ledger(w, t)
  <2>1. \A type : /\ ItemsIn(s.outbox, type) = {}
                  /\ ItemsIn(w.outbox, type) = IF e.type = type THEN {e.item} ELSE {}
    BY <1>5, <1>6, ItemsInFew
  <2>2. \A type : type # "delta" => ItemsIn(w.outbox, type) = {}
    BY <1>5, <2>1
  <2> QED BY <2>1, <2>2 DEF Good, Ledger
<1>10. Wrote(w, t)
  <2>1. TextOf(t, s.item) = s.emitted
    BY DEF Good, Wrote
  <2>2. DeltaOf(e, s.item) = new
    BY <1>5 DEF DeltaOf
  <2>3. \A n \in Nat : /\ TextOf(t, n) \in Texts \union {<<>>}
                       /\ n >= s.next => TextOf(t, n) = <<>>
    BY DEF Good, Wrote
  <2>4. text = TextOf(t, s.item) \o DeltaOf(e, s.item)
    BY <1>4, <2>1, <2>2
  <2> QED BY <1>6, <2>3, <2>4 DEF Wrote
<1> QED BY <1>7, <1>8, <1>9, <1>10 DEF Good

\* A new session has said nothing and owes session.created.
LEMMA NewSessionIsGood ==
  /\ Good(NewSession, <<>>, FALSE)
  /\ Good(NoSession, <<>>, FALSE)
<1> DEFINE e == Plain("created")
           none == <<>>
           no == <<>>
           batch == <<>>
           text == <<>>
           a == [pc |-> "recv", outbox |-> <<e>>, batch |-> batch, speaking |-> FALSE,
                 item |-> 0, next |-> 1, emitted |-> text, decoding |-> 0, result |-> "none"]
           b == [a EXCEPT !.pc = "ended", !.outbox = no]
<1>1. /\ none \in Seq(ServerEvents) /\ no \in Seq(ServerEvents) /\ batch \in Seq(Kinds)
      /\ text \in Seq(Words)
  OBVIOUS
<1>2. e \in ServerEvents /\ e.type = "created" /\ e.item = 0
  BY <1>1 DEF Plain, Event, ServerEvents, EventTypes
<1>3. NewSession = a /\ NoSession = b
  <2>1. NewSession = a
    BY DEF NewSession
  <2> QED BY <2>1 DEF NoSession
<1>4. /\ a.pc = "recv" /\ a.outbox = <<e>> /\ a.batch = batch /\ ~a.speaking /\ a.item = 0
      /\ a.next = 1 /\ a.emitted = text /\ a.decoding = 0
  OBVIOUS
<1>5. a \in Sessions
  <2> DEFINE out == <<e>>
  <2>1. out \in Seq(ServerEvents)
    BY <1>2
  <2> HIDE DEF e, no, batch, text, out
  <2>2. [pc |-> "recv", outbox |-> out, batch |-> batch, speaking |-> FALSE,
         item |-> 0, next |-> 1, emitted |-> text, decoding |-> 0, result |-> "none"] \in Sessions
    BY <1>1, <2>1 DEF Sessions
  <2> QED BY <2>2 DEF out
<1> HIDE DEF a, e
<1>11. /\ b \in Sessions
       /\ b.pc = "ended" /\ b.outbox = no /\ b.batch = batch /\ ~b.speaking /\ b.item = 0
       /\ b.next = 1 /\ b.emitted = text /\ b.decoding = 0
  <2> HIDE DEF no, batch, text
  <2> QED BY <1>1, <1>4, <1>5 DEF Sessions
<1> HIDE DEF b
<1>6. Stage(a, FALSE) /\ Stage(b, FALSE)
  <2>1. batch = <<>> /\ Framed(FALSE, batch)
    BY DEF Framed
  <2> HIDE DEF batch
  <2> QED BY <1>4, <1>11, <2>1 DEF Stage
<1>7. Box(a) /\ Box(b)
  BY <1>2, <1>4, <1>11 DEF Box, Owes
<1>8. Ledger(a, none) /\ Ledger(b, none)
  <2>1. \A type : ItemsIn(none, type) = {} /\ ItemsIn(no, type) = {}
    BY ItemsInFew
  <2>2. \A type : type # "created" => ItemsIn(<<e>>, type) = {}
    BY <1>2, ItemsInFew
  <2>3. 1..(1 - 1) = {}
    OBVIOUS
  <2> HIDE DEF none, no
  <2> QED BY <1>4, <1>11, <2>1, <2>2, <2>3 DEF Ledger
<1>9. Wrote(a, none) /\ Wrote(b, none)
  <2>1. ASSUME NEW n \in Nat PROVE TextOf(none, n) = <<>>
    <3>1. [k \in DOMAIN none |-> DeltaOf(none[k], n)] = <<>>
      OBVIOUS
    <3> QED BY <3>1, FlattenEmpty DEF TextOf
  <2> HIDE DEF none
  <2> QED BY <1>4, <1>11, <2>1 DEF Wrote
<1>10. Ordered(none)
  BY DEF Ordered
<1> QED BY <1>1, <1>3, <1>5, <1>6, <1>7, <1>8, <1>9, <1>10, <1>11 DEF Good

-----------------------------------------------------------------------------
\* The channels, and what the reader and the writer hold.
Channels ==
  /\ socket \in [Conns -> {"open", "stalled", "gone"}]
  /\ held \in Messages \union {"none"}
  /\ inflight \in Seq(ServerEvents) /\ Len(inflight) \in 0..1
  /\ input \in Seq(Inputs) /\ Len(input) <= InputSlots
  /\ events \in Seq(ServerEvents) /\ Len(events) <= EventSlots
  /\ cancel \in BOOLEAN

\* The second invariant.
SInv == Channels /\ Good(session, sent, cancel)

\* The task returns.
LEMMA EndedIsGood ==
  ASSUME NEW t, NEW c, Good(session, t, c), session.outbox = <<>>, NEW r \in {"ok", "err"}
  PROVE  Good(Ended(r), t, c)
<1> DEFINE none == <<>>
           w == [session EXCEPT !.pc = "ended", !.result = r, !.batch = none]
<1>1. session \in Sessions /\ none \in Seq(Kinds) /\ Stage(session, c)
  BY DEF Good
<1>2. Ended(r) = w
  BY DEF Ended
<1> HIDE DEF none
<1>3. w \in Sessions
  BY <1>1 DEF Sessions
<1>4. /\ w.pc = "ended" /\ w.outbox = session.outbox /\ w.batch = none
      /\ w.item = session.item /\ w.next = session.next /\ w.emitted = session.emitted
      /\ w.decoding = session.decoding
  BY <1>1 DEF Sessions
<1> HIDE DEF w
<1>5. Stage(w, c)
  BY <1>1, <1>4 DEF Stage, none
<1> QED BY <1>2, <1>3, <1>4, <1>5, QuietKeeps

\* The task goes on to another place with the same batch.
LEMMA MovesOn ==
  ASSUME Good(session, sent, cancel), session.outbox = <<>>, NEW pc, NEW w,
         w = [session EXCEPT !.pc = pc],
         \/ session.pc = "submit" /\ pc = "decode"
         \/ session.pc = "partial" /\ pc = "batch"
  PROVE  Good(w, sent, cancel)
<1>1. session \in Sessions /\ Stage(session, cancel)
  BY DEF Good
<1>2. w \in Sessions
  BY <1>1 DEF Sessions
<1>3. /\ w.pc = pc /\ w.outbox = session.outbox /\ w.batch = session.batch
      /\ w.speaking = session.speaking
      /\ w.item = session.item /\ w.next = session.next /\ w.emitted = session.emitted
      /\ w.decoding = session.decoding
  BY <1>1 DEF Sessions
<1>4. Stage(w, cancel)
  BY <1>1, <1>3 DEF Stage
<1> QED BY <1>2, <1>3, <1>4, QuietKeeps

\* The flush of the segmenter closes the phrase, if one is open.
LEMMA FlushedIsGood ==
  ASSUME Good(session, sent, cancel), session.outbox = <<>>, session.pc = "recv"
  PROVE  Good(Flushed, sent, cancel)
<1> DEFINE b == IF session.speaking THEN <<"end">> ELSE <<>>
           w == [session EXCEPT !.pc = "batch", !.speaking = FALSE, !.batch = b]
<1>1. session \in Sessions /\ Stage(session, cancel)
  BY DEF Good
<1>2. Flushed = w
  BY DEF Flushed
<1>3. session.batch = <<>> /\ session.speaking \in BOOLEAN
  BY <1>1, SessionFields DEF Stage
<1>4. /\ b \in Seq(Kinds)
      /\ session.speaking => b # <<>> /\ b[Len(b)] = "end" /\ Framed(TRUE, b)
      /\ ~session.speaking => b = <<>> /\ Framed(FALSE, b)
  <2>1. CASE session.speaking
    <3>1. /\ b = <<"end">> /\ <<"end">> \in Seq(Kinds) /\ Len(<<"end">>) = 1
          /\ <<"end">>[1] = "end" /\ DOMAIN <<"end">> = {1} /\ <<"end">> # <<>>
      BY <2>1 DEF Kinds
    <3> HIDE DEF b
    <3> QED BY <2>1, <3>1 DEF Framed
  <2>2. CASE ~session.speaking
    <3>1. b = <<>> /\ <<>> \in Seq(Kinds) /\ DOMAIN <<>> = {}
      BY <2>2
    <3> HIDE DEF b
    <3> QED BY <2>2, <3>1 DEF Framed
  <2> QED BY <2>1, <2>2
<1> HIDE DEF b
<1>5. w \in Sessions
  BY <1>1, <1>4 DEF Sessions
<1>6. /\ w.pc = "batch" /\ w.outbox = session.outbox /\ w.batch = b
      /\ w.speaking = FALSE
      /\ w.item = session.item /\ w.next = session.next /\ w.emitted = session.emitted
      /\ w.decoding = session.decoding
  BY <1>1 DEF Sessions
<1> HIDE DEF w
<1>7. Stage(w, cancel)
  BY <1>1, <1>3, <1>4, <1>6 DEF Stage
<1> QED BY <1>2, <1>5, <1>6, <1>7, QuietKeeps

\* The steps of the loop that takes inputs.
LEMMA LoopKeeps ==
  ASSUME SInv,
         BreakOnCancel \/ RejectInput \/ ApplyUpdate \/ ProcessAudio \/ Commit \/ InputEnds
  PROVE  Good(session', sent', cancel')
<1>1. /\ session \in Sessions /\ Stage(session, cancel) /\ Good(session, sent, cancel)
      /\ UNCHANGED <<sent, cancel>> /\ session.outbox = <<>> /\ session.pc = "recv"
  BY DEF SInv, Good, BreakOnCancel, RejectInput, ApplyUpdate, ProcessAudio, Commit, InputEnds,
         Return, Receives, At, sessionFrame
<1>2. CASE BreakOnCancel
  BY <1>1, <1>2, EndedIsGood DEF BreakOnCancel, Return
<1>3. CASE RejectInput
  BY <1>1, <1>3, EndedIsGood DEF RejectInput, Return
<1>4. CASE ApplyUpdate
  <2> DEFINE out == <<Plain("updated")>>
             w == [session EXCEPT !.outbox = out]
  <2>1. session' = w
    BY <1>4 DEF ApplyUpdate
  <2>2. out \in Seq(ServerEvents)
    <3>1. <<>> \in Seq(Words)
      OBVIOUS
    <3>2. Plain("updated") \in ServerEvents
      BY <3>1 DEF Plain, Event, ServerEvents, EventTypes
    <3> QED BY <3>2
  <2>3. out \in {<<>>, <<Plain("updated")>>}
    OBVIOUS
  <2> HIDE DEF out
  <2>4. w \in Sessions
    BY <1>1, <2>2 DEF Sessions
  <2>5. /\ w.pc = session.pc /\ w.outbox = out /\ w.batch = session.batch
        /\ w.speaking = session.speaking
        /\ w.item = session.item /\ w.next = session.next /\ w.emitted = session.emitted
        /\ w.decoding = session.decoding
    BY <1>1 DEF Sessions
  <2> HIDE DEF w
  <2>6. Stage(w, cancel)
    BY <1>1, <2>5 DEF Stage
  <2>7. Good(w, sent, cancel)
    BY <1>1, <2>3, <2>4, <2>5, <2>6, QuietKeeps
  <2> QED BY <1>1, <2>1, <2>7
<1>5. CASE ProcessAudio
  <2>1. PICK b \in Batches(session.speaking) :
          session' = [session EXCEPT !.pc = "batch", !.batch = b,
                        !.speaking = IF b = <<>> THEN session.speaking ELSE Last(b) # "end"]
    BY <1>5 DEF ProcessAudio
  <2>2. b \in Seq(Kinds) /\ Framed(session.speaking, b)
    <3>1. PICK m \in 0..MaxBatch : b \in [1..m -> Kinds]
      BY DEF Batches, BoundedSeq, SeqOf, Kinds
    <3>2. m \in Nat
      BY SessionAssumption
    <3> QED BY <3>1, <3>2 DEF Batches
  <2> DEFINE talks == IF b = <<>> THEN session.speaking ELSE Last(b) # "end"
             w == [session EXCEPT !.pc = "batch", !.batch = b, !.speaking = talks]
  <2>3. talks \in BOOLEAN /\ session.speaking \in BOOLEAN
    BY <1>1, SessionFields
  <2>4. talks <=> IF b = <<>> THEN session.speaking ELSE b[Len(b)] # "end"
    BY DEF Last
  <2>5. session' = w
    BY <2>1
  <2> HIDE DEF talks
  <2>6. w \in Sessions
    BY <1>1, <2>2, <2>3 DEF Sessions
  <2>7. /\ w.pc = "batch" /\ w.outbox = session.outbox /\ w.batch = b
        /\ w.speaking = talks
        /\ w.item = session.item /\ w.next = session.next /\ w.emitted = session.emitted
        /\ w.decoding = session.decoding
    BY <1>1 DEF Sessions
  <2> HIDE DEF w
  <2>8. ~cancel
    BY <1>5 DEF ProcessAudio, Receives
  <2>9. session.speaking = (session.item # 0)
    BY <1>1, <2>3, <2>8 DEF Stage
  <2>10. Stage(w, cancel)
    BY <1>1, <2>2, <2>4, <2>7, <2>9 DEF Stage
  <2>11. Good(w, sent, cancel)
    BY <1>1, <2>6, <2>7, <2>10, QuietKeeps
  <2> QED BY <1>1, <2>5, <2>11
<1>6. CASE Commit
  BY <1>1, <1>6, FlushedIsGood DEF Commit
<1>7. CASE InputEnds
  BY <1>1, <1>7, FlushedIsGood, EndedIsGood DEF InputEnds
<1> QED BY <1>2, <1>3, <1>4, <1>5, <1>6, <1>7

\* The events of a batch.
LEMMA BatchKeeps ==
  ASSUME SInv, BatchDone \/ SpeechStart \/ SpeechEnd \/ SpeechPartial
  PROVE  Good(session', sent', cancel')
<1>1. /\ session \in Sessions /\ Stage(session, cancel) /\ Good(session, sent, cancel)
      /\ UNCHANGED <<sent, cancel>> /\ session.outbox = <<>> /\ session.pc = "batch"
  BY DEF SInv, Good, BatchDone, SpeechStart, SpeechEnd, SpeechPartial, TakeVadEvent, At,
         sessionFrame
<1>2. CASE BatchDone
  <2> DEFINE none == <<>>
             w == [session EXCEPT !.pc = "recv", !.batch = none]
  <2>1. session' = w /\ none \in Seq(Kinds) /\ (cancel \/ session.batch = <<>>)
    BY <1>2 DEF BatchDone
  <2> HIDE DEF none
  <2>2. w \in Sessions
    BY <1>1, <2>1 DEF Sessions
  <2>3. /\ w.pc = "recv" /\ w.outbox = session.outbox /\ w.batch = none
        /\ w.speaking = session.speaking
        /\ w.item = session.item /\ w.next = session.next /\ w.emitted = session.emitted
        /\ w.decoding = session.decoding
    BY <1>1 DEF Sessions
  <2> HIDE DEF w
  <2>4. Stage(w, cancel)
    BY <1>1, <2>1, <2>3 DEF Stage, none
  <2>5. Good(w, sent, cancel)
    BY <1>1, <2>2, <2>3, <2>4, QuietKeeps
  <2> QED BY <1>1, <2>1, <2>5
<1>3. CASE SpeechStart
  <2> DEFINE none == <<>>
             rest == Tail(session.batch)
             out == <<Event("started", session.next, <<>>)>>
             more == session.next + 1
             w == [session EXCEPT !.batch = rest, !.emitted = none, !.item = session.next,
                                  !.next = more, !.outbox = out]
  <2>1. /\ session' = w /\ cancel = FALSE /\ session.batch # <<>>
        /\ Head(session.batch) = "start"
    BY <1>3 DEF SpeechStart, TakeVadEvent, SInv, Channels
  <2>2. rest \in Seq(Kinds)
    BY <1>1, <2>1, NextVadEvent
  <2>3. none \in Seq(Words) /\ session.next \in Nat \ {0}
    BY <1>1, SessionFields
  <2>4. out \in Seq(ServerEvents)
    <3>1. Event("started", session.next, <<>>) \in ServerEvents
      BY <2>3 DEF Event, ServerEvents, EventTypes
    <3> QED BY <3>1
  <2>5. more \in Nat \ {0} /\ session.next \in Nat
    BY <2>3
  <2> HIDE DEF none, rest, out, more
  <2>6. w \in Sessions
    BY <1>1, <2>2, <2>3, <2>4, <2>5 DEF Sessions
  <2>7. /\ w.pc = session.pc /\ w.outbox = out /\ w.batch = rest
        /\ w.speaking = session.speaking
        /\ w.item = session.next /\ w.next = more /\ w.emitted = none
        /\ w.decoding = session.decoding
    BY <1>1 DEF Sessions
  <2> HIDE DEF w
  <2>8. Good(w, sent, FALSE)
    BY <1>1, <2>1, <2>6, <2>7, StartKeeps DEF none, rest, out, more
  <2> QED BY <1>1, <2>1, <2>8
<1>4. CASE SpeechEnd
  <2> DEFINE rest == Tail(session.batch)
             out == Closing(session.item)
             w == [session EXCEPT !.batch = rest, !.pc = "submit", !.item = 0,
                                  !.decoding = session.item, !.outbox = out]
  <2>1. /\ cancel = FALSE /\ session.batch # <<>> /\ Head(session.batch) = "end"
    BY <1>4 DEF SpeechEnd, TakeVadEvent, SInv, Channels
  <2>2. session.item # 0 /\ rest \in Seq(Kinds)
    BY <1>1, <2>1, NextVadEvent
  <2>3. session.item \in Nat /\ session.next \in Nat
    BY <1>1, SessionFields
  <2>4. session' = w
    <3>1. session' = [session EXCEPT !.batch = rest, !.pc = "submit", !.item = 0,
                        !.decoding = session.item, !.next = session.next, !.outbox = out]
      BY <1>4, <2>2 DEF SpeechEnd, Closing
    <3> HIDE DEF rest, out
    <3>2. [session EXCEPT !.batch = rest, !.pc = "submit", !.item = 0,
              !.decoding = session.item, !.next = session.next, !.outbox = out] = w
      BY <1>1 DEF Sessions
    <3> QED BY <3>1, <3>2
  <2>5. out \in Seq(ServerEvents)
    <3>1. /\ Event("stopped", session.item, <<>>) \in ServerEvents
          /\ Event("committed", session.item, <<>>) \in ServerEvents
      BY <2>3 DEF Event, ServerEvents, EventTypes
    <3> QED BY <3>1 DEF Closing
  <2> HIDE DEF rest, out
  <2>6. w \in Sessions
    BY <1>1, <2>2, <2>3, <2>5 DEF Sessions
  <2>7. /\ w.pc = "submit" /\ w.outbox = out /\ w.batch = rest
        /\ w.speaking = session.speaking
        /\ w.item = 0 /\ w.next = session.next /\ w.emitted = session.emitted
        /\ w.decoding = session.item
    BY <1>1 DEF Sessions
  <2> HIDE DEF w
  <2>8. Good(w, sent, FALSE)
    BY <1>1, <2>1, <2>6, <2>7, EndKeeps DEF rest, out
  <2> QED BY <1>1, <2>1, <2>4, <2>8
<1>5. CASE SpeechPartial
  <2> DEFINE rest == Tail(session.batch)
             w == [session EXCEPT !.batch = rest, !.pc = "partial"]
  <2>1. /\ session' = w /\ cancel = FALSE /\ session.batch # <<>>
        /\ Head(session.batch) = "partial"
    BY <1>5 DEF SpeechPartial, TakeVadEvent, SInv, Channels
  <2>2. /\ rest \in Seq(Kinds) /\ session.item # 0 /\ Framed(TRUE, rest)
        /\ session.decoding = 0
        /\ session.speaking <=> IF rest = <<>> THEN TRUE ELSE rest[Len(rest)] # "end"
    BY <1>1, <2>1, NextVadEvent
  <2> HIDE DEF rest
  <2>3. w \in Sessions
    BY <1>1, <2>2 DEF Sessions
  <2>4. /\ w.pc = "partial" /\ w.outbox = session.outbox /\ w.batch = rest
        /\ w.speaking = session.speaking
        /\ w.item = session.item /\ w.next = session.next /\ w.emitted = session.emitted
        /\ w.decoding = session.decoding
    BY <1>1 DEF Sessions
  <2> HIDE DEF w
  <2>5. Stage(w, cancel)
    BY <1>1, <2>2, <2>4 DEF Stage
  <2>6. Good(w, sent, cancel)
    BY <1>1, <2>3, <2>4, <2>5, QuietKeeps
  <2> QED BY <1>1, <2>1, <2>6
<1> QED BY <1>2, <1>3, <1>4, <1>5

\* The decodes.
LEMMA DecodeKeeps ==
  ASSUME SInv, SubmitFinal \/ FinalDecoded \/ FinalFails \/ PartialDecoded \/ PartialFails
  PROVE  Good(session', sent', cancel')
<1>1. /\ session \in Sessions /\ Stage(session, cancel) /\ Good(session, sent, cancel)
      /\ UNCHANGED <<sent, cancel>> /\ session.outbox = <<>>
  BY DEF SInv, Good, SubmitFinal, FinalDecoded, FinalFails, PartialDecoded, PartialFails,
         Return, At, sessionFrame
<1>2. CASE SubmitFinal
  BY <1>1, <1>2, MovesOn DEF SubmitFinal, At
<1>3. CASE FinalDecoded
  <2>1. PICK text \in Texts :
          session' = [session EXCEPT !.pc = "batch", !.decoding = 0,
                        !.outbox = <<Event("completed", session.decoding, text)>>]
    BY <1>3 DEF FinalDecoded
  <2> DEFINE out == <<Event("completed", session.decoding, text)>>
             w == [session EXCEPT !.pc = "batch", !.decoding = 0, !.outbox = out]
  <2>2. out \in Seq(ServerEvents)
    <3>1. session.decoding \in Nat /\ text \in Seq(Words)
      BY <1>1, SessionFields, TextsAreSequences
    <3>2. Event("completed", session.decoding, text) \in ServerEvents
      BY <3>1 DEF Event, ServerEvents, EventTypes
    <3> QED BY <3>2
  <2> HIDE DEF out
  <2>3. w \in Sessions
    BY <1>1, <2>2 DEF Sessions
  <2>4. /\ w.pc = "batch" /\ w.outbox = out /\ w.batch = session.batch
        /\ w.speaking = session.speaking
        /\ w.item = session.item /\ w.next = session.next /\ w.emitted = session.emitted
        /\ w.decoding = 0
    BY <1>1 DEF Sessions
  <2>5. session' = w
    BY <2>1 DEF out
  <2> HIDE DEF w
  <2>6. Good(w, sent, cancel)
    BY <1>1, <1>3, <2>3, <2>4, CompletedKeeps DEF out, FinalDecoded, At
  <2> QED BY <1>1, <2>5, <2>6
<1>4. CASE FinalFails
  BY <1>1, <1>4, EndedIsGood DEF FinalFails, Return
<1>5. CASE PartialFails
  BY <1>1, <1>5, MovesOn DEF PartialFails, At
<1>6. CASE PartialDecoded
  <2>1. PICK text \in Texts :
          session' =
            IF IsStrictPrefix(session.emitted, text) /\ session.item # 0
              THEN [session EXCEPT !.pc = "batch", !.emitted = text,
                      !.outbox = <<Event("delta", session.item, NewText(text))>>]
              ELSE [session EXCEPT !.pc = "batch"]
    BY <1>6 DEF PartialDecoded
  <2>2. session.pc = "partial"
    BY <1>6 DEF PartialDecoded, At
  <2>3. CASE ~(IsStrictPrefix(session.emitted, text) /\ session.item # 0)
    BY <1>1, <2>1, <2>2, <2>3, MovesOn
  <2>4. CASE IsStrictPrefix(session.emitted, text) /\ session.item # 0
    <3> DEFINE new == SubSeq(text, Len(session.emitted) + 1, Len(text))
               out == <<Event("delta", session.item, new)>>
               w == [session EXCEPT !.pc = "batch", !.emitted = text, !.outbox = out]
    <3>1. session.item \in Nat /\ text \in Seq(Words) /\ session.emitted \in Seq(Words)
      BY <1>1, SessionFields, TextsAreSequences
    <3>2. new \in Seq(Words)
      BY <2>4, <3>1, NewTextCompletes
    <3>3. session' = w
      BY <2>1, <2>4 DEF NewText
    <3> HIDE DEF new
    <3>4. out \in Seq(ServerEvents)
      <4>1. Event("delta", session.item, new) \in ServerEvents
        BY <3>1, <3>2 DEF Event, ServerEvents, EventTypes
      <4> QED BY <4>1
    <3> HIDE DEF out
    <3>5. w \in Sessions
      BY <1>1, <3>1, <3>4 DEF Sessions
    <3>6. /\ w.pc = "batch" /\ w.outbox = out /\ w.batch = session.batch
          /\ w.speaking = session.speaking
          /\ w.item = session.item /\ w.next = session.next /\ w.emitted = text
          /\ w.decoding = session.decoding
      BY <1>1 DEF Sessions
    <3> HIDE DEF w
    <3>7. Good(w, sent, cancel)
      BY <1>1, <2>2, <2>4, <3>5, <3>6, DeltaKeeps DEF out, new
    <3> QED BY <1>1, <3>3, <3>7
  <2> QED BY <2>3, <2>4
<1> QED BY <1>2, <1>3, <1>4, <1>5, <1>6

\* Every session step.
LEMMA SessionKeeps ==
  ASSUME SInv, SessionStep
  PROVE  SInv'
<1>1. Good(session', sent', cancel')
  <2>1. CASE SendEvent
    <3>1. /\ session' = [session EXCEPT !.outbox = Tail(session.outbox)]
          /\ sent' = Append(sent, Head(session.outbox)) /\ cancel' = cancel
          /\ session.outbox # <<>>
      BY <2>1 DEF SendEvent, sessionFrame
    <3>2. Good([session EXCEPT !.outbox = Tail(session.outbox)],
               Append(sent, Head(session.outbox)), cancel)
      BY <3>1, SendKeeps DEF SInv
    <3> QED BY <3>1, <3>2
  <2> QED BY <2>1, LoopKeeps, BatchKeeps, DecodeKeeps DEF SessionStep
<1>2. UNCHANGED <<socket, held, inflight, cancel>>
  BY DEF SessionStep, SendEvent, BreakOnCancel, RejectInput, ApplyUpdate, ProcessAudio,
         Commit, InputEnds, BatchDone, SpeechStart, SpeechEnd, SubmitFinal, SpeechPartial,
         FinalDecoded, FinalFails, PartialDecoded, PartialFails, Return, Receives,
         TakeVadEvent, sessionFrame, connVars
<1>3. input' \in Seq(Inputs) /\ Len(input') <= InputSlots
  <2>0. input \in Seq(Inputs) /\ Len(input) <= InputSlots
    BY DEF SInv, Channels
  <2>1. \/ UNCHANGED input \/ input' = <<>> \/ (input # <<>> /\ input' = Tail(input))
    BY DEF SessionStep, SendEvent, BreakOnCancel, RejectInput, ApplyUpdate, ProcessAudio,
           Commit, InputEnds, BatchDone, SpeechStart, SpeechEnd, SubmitFinal, SpeechPartial,
           FinalDecoded, FinalFails, PartialDecoded, PartialFails, Return, Receives,
           TakeVadEvent
  <2>2. InputSlots \in Nat
    BY SessionAssumption
  <2>3. CASE input # <<>> /\ input' = Tail(input)
    <3>1. Tail(input) \in Seq(Inputs) /\ Len(Tail(input)) = Len(input) - 1 /\ Len(input) \in Nat
      BY <2>0, <2>3, HeadTailProperties
    <3> QED BY <2>0, <2>2, <2>3, <3>1
  <2>4. CASE input' = <<>>
    <3>1. <<>> \in Seq(Inputs) /\ Len(<<>>) = 0
      OBVIOUS
    <3> QED BY <2>2, <2>4, <3>1
  <2> QED BY <2>0, <2>1, <2>3, <2>4
<1>4. events' \in Seq(ServerEvents) /\ Len(events') <= EventSlots
  <2>0. events \in Seq(ServerEvents) /\ Len(events) <= EventSlots /\ EventSlots \in Nat
    BY SessionAssumption DEF SInv, Channels
  <2>1. CASE SendEvent
    <3>1. Head(session.outbox) \in ServerEvents
      <4> DEFINE box == session.outbox
      <4>1. box \in Seq(ServerEvents) /\ box # <<>>
        BY <2>1, SessionFields DEF SInv, Good, SendEvent
      <4> HIDE DEF box
      <4>2. Head(box) \in ServerEvents
        BY <4>1
      <4> QED BY <4>2 DEF box
    <3>2. events' = Append(events, Head(session.outbox)) /\ Len(events) < EventSlots
      BY <2>1 DEF SendEvent
    <3> QED BY <2>0, <3>1, <3>2
  <2>2. CASE ~SendEvent
    <3>1. UNCHANGED events
      BY <2>2 DEF SessionStep, BreakOnCancel, RejectInput, ApplyUpdate, ProcessAudio,
           Commit, InputEnds, BatchDone, SpeechStart, SpeechEnd, SubmitFinal, SpeechPartial,
           FinalDecoded, FinalFails, PartialDecoded, PartialFails, Return, Receives,
           TakeVadEvent
    <3> QED BY <2>0, <3>1
  <2> QED BY <2>1, <2>2
<1> QED BY <1>1, <1>2, <1>3, <1>4 DEF SInv, Channels

\* The select returns: what reader and writer held is gone, the flag is set.
LEMMA SelectKeeps ==
  ASSUME SInv, NEW c \in Conns, EndSelect(c)
  PROVE  SInv'
<1>1. /\ UNCHANGED <<socket, input, events, session, sent>>
      /\ held' = "none" /\ inflight' = <<>> /\ cancel' = TRUE
  BY DEF EndSelect
<1>2. Good(session', sent', cancel')
  BY <1>1, CancelKeeps DEF SInv
<1>3. inflight' \in Seq(ServerEvents) /\ Len(inflight') \in 0..1
  BY <1>1
<1> QED BY <1>1, <1>2, <1>3 DEF SInv, Channels

\* A session begins with nothing in its channels.
LEMMA ServeKeeps ==
  ASSUME SInv, NEW c \in Conns, Serve(c)
  PROVE  SInv'
<1>1. /\ held' = "none" /\ inflight' = <<>> /\ input' = <<>> /\ events' = <<>>
      /\ cancel' = FALSE /\ session' = NewSession /\ sent' = <<>> /\ socket' = socket
  BY DEF Serve
<1>2. Good(session', sent', cancel')
  BY <1>1, NewSessionIsGood
<1>3. /\ inflight' \in Seq(ServerEvents) /\ Len(inflight') \in 0..1
      /\ input' \in Seq(Inputs) /\ Len(input') = 0
      /\ events' \in Seq(ServerEvents) /\ Len(events') = 0
  BY <1>1
<1>4. /\ Len(input') <= InputSlots /\ Len(events') <= EventSlots
      /\ held' \in Messages \union {"none"} /\ cancel' \in BOOLEAN
  <2>1. InputSlots \in Nat /\ EventSlots \in Nat
    BY SessionAssumption
  <2>2. Len(input') <= InputSlots /\ Len(events') <= EventSlots
    BY <1>3, <2>1
  <2>3. held' \in Messages \union {"none"} /\ cancel' \in BOOLEAN
    BY <1>1
  <2> QED BY <2>2, <2>3
<1>5. socket' \in [Conns -> {"open", "stalled", "gone"}]
  BY <1>1 DEF SInv, Channels
<1> QED BY <1>2, <1>3, <1>4, <1>5 DEF SInv, Channels

\* The reader and the writer.
LEMMA LoopsKeep ==
  ASSUME SInv, NEW c \in Conns, Forward(c) \/ Complain(c) \/ TakeEvent(c) \/ WriteEvent(c)
  PROVE  SInv'
<1>0. /\ input \in Seq(Inputs) /\ Len(input) <= InputSlots
      /\ events \in Seq(ServerEvents) /\ Len(events) <= EventSlots
      /\ InputSlots \in Nat /\ EventSlots \in Nat
  BY SessionAssumption DEF SInv, Channels
<1>1. CASE Forward(c)
  <2>1. /\ input' = Append(input, held) /\ held \in Inputs /\ Len(input) < InputSlots
        /\ held' = "none" /\ UNCHANGED <<socket, inflight, events, cancel, session, sent>>
    BY <1>1 DEF Forward, connVars
  <2>2. input' \in Seq(Inputs) /\ Len(input') <= InputSlots
    BY <1>0, <2>1
  <2> QED BY <2>1, <2>2 DEF SInv, Channels
<1>2. CASE Complain(c)
  <2>1. /\ events' = Append(events, Plain("error")) /\ Len(events) < EventSlots
        /\ sent' = Append(sent, Plain("error"))
        /\ held' = "none" /\ UNCHANGED <<socket, inflight, input, cancel, session>>
    BY <1>2 DEF Complain, connVars
  <2>2. Good(session', sent', cancel') /\ Plain("error") \in ServerEvents
    BY <2>1, ErrorKeeps DEF SInv
  <2>3. events' \in Seq(ServerEvents) /\ Len(events') <= EventSlots
    BY <1>0, <2>1, <2>2
  <2> QED BY <2>1, <2>2, <2>3 DEF SInv, Channels
<1>3. CASE TakeEvent(c)
  <2>1. /\ events # <<>> /\ inflight' = <<Head(events)>> /\ events' = Tail(events)
        /\ UNCHANGED <<socket, held, input, cancel, session, sent>>
    BY <1>3 DEF TakeEvent, connVars
  <2>2. /\ events' \in Seq(ServerEvents) /\ Len(events') <= EventSlots
        /\ inflight' \in Seq(ServerEvents) /\ Len(inflight') \in 0..1
    BY <1>0, <2>1
  <2> QED BY <2>1, <2>2 DEF SInv, Channels
<1>4. CASE WriteEvent(c)
  <2>1. inflight' = <<>> /\ UNCHANGED <<socket, held, input, events, cancel, session, sent>>
    BY <1>4 DEF WriteEvent, connVars
  <2>2. inflight' \in Seq(ServerEvents) /\ Len(inflight') \in 0..1
    BY <2>1
  <2> QED BY <2>1, <2>2 DEF SInv, Channels
<1> QED BY <1>1, <1>2, <1>3, <1>4

\* The rest: the handler and the client.
LEMMA OthersKeep ==
  ASSUME SInv, NEW c \in Conns,
         \/ Acquire(c) \/ RefuseBusy(c) \/ SetupFails(c) \/ DropSenders(c) \/ Release(c)
         \/ \E s \in {"stalled", "gone"} : ClientMoves(c, s)
         \/ \E m \in Messages : Send(c, m)
  PROVE  SInv'
<1>1. UNCHANGED <<inflight, input, events, cancel, session, sent>>
  BY DEF Acquire, RefuseBusy, SetupFails, DropSenders, Release, ClientMoves, Send, pipeVars
<1>2. held' \in Messages \union {"none"}
  BY DEF Acquire, RefuseBusy, SetupFails, DropSenders, Release, ClientMoves, Send, pipeVars,
         SInv, Channels
<1>3. socket' \in [Conns -> {"open", "stalled", "gone"}]
  BY DEF Acquire, RefuseBusy, SetupFails, DropSenders, Release, ClientMoves, Send, connVars,
         SInv, Channels
<1> QED BY <1>1, <1>2, <1>3 DEF SInv, Channels

\* Every step.
LEMMA NextSInv == SInv /\ [Next]_vars => SInv'
<1> SUFFICES ASSUME SInv, [Next]_vars PROVE SInv'
  OBVIOUS
<1>1. CASE SessionStep
  BY <1>1, SessionKeeps
<1>2. ASSUME NEW c \in Conns,
             \/ Acquire(c) \/ RefuseBusy(c) \/ HandlerStep(c)
             \/ ReaderStep(c) \/ WriterStep(c)
             \/ \E s \in {"stalled", "gone"} : ClientMoves(c, s)
             \/ \E m \in Messages : Send(c, m)
      PROVE  SInv'
  <2>1. CASE ReaderEnds(c) \/ WriterEnds(c)
    BY <2>1, SelectKeeps DEF ReaderEnds, WriterEnds
  <2>2. CASE Serve(c)
    BY <2>2, ServeKeeps
  <2>3. CASE Forward(c) \/ Complain(c) \/ TakeEvent(c) \/ WriteEvent(c)
    BY <2>3, LoopsKeep
  <2> QED BY <1>2, <2>1, <2>2, <2>3, OthersKeep DEF HandlerStep, ReaderStep, WriterStep
<1>3. CASE UNCHANGED vars
  BY <1>3 DEF vars, SInv, Channels
<1> QED BY <1>1, <1>2, <1>3 DEF Next

\* The initial states.
LEMMA InitSInv == Init => SInv
<1> SUFFICES ASSUME Init PROVE SInv
  OBVIOUS
<1>1. Good(session, sent, cancel)
  BY NewSessionIsGood DEF Init
<1>2. /\ held = "none" /\ inflight = <<>> /\ input = <<>> /\ events = <<>> /\ cancel = FALSE
      /\ socket \in [Conns -> {"open", "stalled", "gone"}]
  BY DEF Init
<1>3. /\ inflight \in Seq(ServerEvents) /\ Len(inflight) \in 0..1
      /\ input \in Seq(Inputs) /\ Len(input) = 0
      /\ events \in Seq(ServerEvents) /\ Len(events) = 0
  BY <1>2
<1>4. /\ Len(input) <= InputSlots /\ Len(events) <= EventSlots
      /\ held \in Messages \union {"none"} /\ cancel \in BOOLEAN
  <2>1. InputSlots \in Nat /\ EventSlots \in Nat
    BY SessionAssumption
  <2>2. Len(input) <= InputSlots /\ Len(events) <= EventSlots
    BY <1>3, <2>1
  <2>3. held \in Messages \union {"none"} /\ cancel \in BOOLEAN
    BY <1>2
  <2> QED BY <2>2, <2>3
<1> QED BY <1>1, <1>2, <1>3, <1>4 DEF SInv, Channels

\* The second invariant holds in every behaviour.
LEMMA AlwaysSInv == Spec => []SInv
BY InitSInv, NextSInv, PTL DEF Spec

\* The two channels stay within their capacities (src/http.rs:232-233), and the
\* places of the handler, the socket, the reader, the writer and the session
\* task are those of the code.
THEOREM TypesHold == Spec => []TypeOK
<1>1. IInv /\ SInv => TypeOK
  <2> SUFFICES ASSUME IInv, SInv PROVE TypeOK
    OBVIOUS
  <2>1. /\ session.pc \in {"recv", "batch", "submit", "decode", "partial", "ended"}
        /\ session.result \in {"none", "ok", "err"}
    BY SessionFields DEF SInv, Good
  <2> QED BY <2>1 DEF IInv, Types, HandlerStates, SInv, Channels, TypeOK
<1> QED BY <1>1, AlwaysIInv, AlwaysSInv, PTL

\* The events of a session keep the order that docs/streaming-api.md:150-154
\* guarantees: started, deltas, stopped, committed, completed for each phrase,
\* once each, one phrase after the other (handle_vad_events and decode_segment).
THEOREM EventsAreOrdered == Spec => []Protocol
<1>1. SInv => Protocol
  BY DEF SInv, Good, Ordered, Protocol
<1> QED BY <1>1, AlwaysSInv, PTL

\* What a client puts together from the deltas of a phrase is nothing or a text
\* that the recogniser returned, however many deltas, texts and phrases (the
\* strip_prefix of emit_partial_delta, src/streaming.rs:593).
THEOREM ClientHasATranscript == Spec => []ClientTextIsATranscript
<1>1. SInv => ClientTextIsATranscript
  <2> SUFFICES ASSUME SInv, NEW item \in 1..session.next
               PROVE  TextOf(sent, item) \in Texts \union {<<>>}
    BY DEF ClientTextIsATranscript
  <2>1. item \in Nat
    BY SessionFields DEF SInv, Good
  <2> QED BY <2>1 DEF SInv, Good, Wrote
<1> QED BY <1>1, AlwaysSInv, PTL
=============================================================================
