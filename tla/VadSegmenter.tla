---------------------------- MODULE VadSegmenter ----------------------------
(***************************************************************************)
(* src/vad.rs: cuts a stream of audio into phrases.  Silero judges one     *)
(* window of WindowSamples samples at a time; here its verdict is an       *)
(* arbitrary Boolean.  Audio arrives in pushes of any size, so a push      *)
(* completes zero, one or several windows and returns all their events.    *)
(* A phrase begins with a speech window and ends when the silence reaches  *)
(* min_silence, when it is forced to end at max_segment, or by flush       *)
(* (a client's commit, or the end of the input).  Times are milliseconds   *)
(* of audio; a window is named by the time at which it starts.             *)
(***************************************************************************)
EXTENDS Integers, Sequences, SequencesExt

CONSTANTS
  WindowSamples,   \* WINDOW_SAMPLES
  WindowMs,        \* WINDOW_MS
  MinSilence,      \* min_silence_ms of the configuration
  PartialSilence,  \* partial_silence_ms of the configuration; 0: no partials
  MaxSegment,      \* max_segment_ms
  SilenceUpdates,  \* what clients set min_silence_ms to, unvalidated: 0 too
  MaxPush,         \* bound: samples in one push
  MaxWindows       \* bound: windows judged in a behaviour

\* validate_config; the threshold only matters to the verdict.
ASSUME ConfigAssumption ==
  /\ WindowSamples \in Nat \ {0} /\ WindowMs \in Nat \ {0}
  /\ MinSilence \in Nat \ {0} /\ MaxSegment \in Nat \ {0}
  /\ PartialSilence \in Nat /\ SilenceUpdates \subseteq Nat
  /\ MaxWindows \in Nat /\ MaxPush \in Nat

VARIABLES
  pending,  \* how many samples wait for their window to be complete
  vad,      \* the other fields of VadSegmenter
  heard,    \* history: the windows judged to be speech, in order
  log       \* history: every event returned so far

vars == <<pending, vad, heard, log>>

\* The events that one call returns are collected in vad.out.
NewVad == [min_silence |-> MinSilence, in_speech |-> FALSE, start |-> 0,
           last_end |-> 0, now |-> 0, silence |-> 0, partial_done |-> FALSE,
           speech |-> <<>>, out |-> <<>>]

Event(kind, start, at, samples) ==
  [kind |-> kind, start |-> start, at |-> at, samples |-> samples]

Init == /\ pending = 0 /\ vad = NewVad /\ heard = <<>> /\ log = <<>>

TypeOK ==
  /\ pending \in 0..(WindowSamples - 1)
  /\ vad.min_silence \in {MinSilence} \union SilenceUpdates
  /\ vad.in_speech \in BOOLEAN /\ vad.partial_done \in BOOLEAN
  /\ vad.now \in {WindowMs * n : n \in 0..MaxWindows}
  /\ vad.start \in 0..vad.now /\ vad.last_end \in 0..vad.now
  /\ vad.silence \in 0..vad.now
  /\ vad.speech \in Seq(Nat) /\ vad.out = <<>>

-----------------------------------------------------------------------------
(* One window. *)

Emit(v, event) == [v EXCEPT !.out = Append(@, event)]

PartialsEnabled(v) == PartialSilence > 0 /\ PartialSilence < v.min_silence

\* Mutant of MustCut: > for >=.
CutsLate(v) == v.in_speech /\ v.now - v.start > MaxSegment

\* should_force_cut_before_next_speech_window
MustCut(v) == v.in_speech /\ v.now - v.start >= MaxSegment

StartSegment(v) ==
  Emit([v EXCEPT !.in_speech = TRUE, !.start = v.now, !.last_end = v.now,
                 !.silence = 0, !.partial_done = FALSE, !.speech = <<>>],
       Event("start", v.now, v.now, <<>>))

\* Mutant of FinishSegment: no test of in_speech.
FinishAlways(v) ==
  Emit([v EXCEPT !.in_speech = FALSE, !.silence = 0, !.speech = <<>>],
       Event("end", v.start, v.last_end, v.speech))

FinishSegment(v) ==
  IF v.in_speech
    THEN Emit([v EXCEPT !.in_speech = FALSE, !.silence = 0, !.speech = <<>>],
              Event("end", v.start, v.last_end, v.speech))
    ELSE v

\* Mutant of HearSpeech: the window that forces a cut opens nothing.
CutEatsWindow(v) ==
  LET open == IF v.in_speech THEN v ELSE StartSegment(v)
  IN  IF MustCut(v) THEN FinishSegment(v)
      ELSE [open EXCEPT !.silence = 0, !.partial_done = FALSE,
                        !.speech = Append(@, v.now), !.last_end = v.now + WindowMs]

\* A speech window, in the segment that it opens if there is none.
HearSpeech(v) ==
  LET ready == IF MustCut(v) THEN FinishSegment(v) ELSE v
      open  == IF ready.in_speech THEN ready ELSE StartSegment(ready)
  IN  [open EXCEPT !.silence = 0, !.partial_done = FALSE,
                   !.speech = Append(@, v.now), !.last_end = v.now + WindowMs]

\* Mutants of OfferPartial: the samples are taken, not copied; the flag is
\* not set.
PartialTakesSamples(v) ==
  IF /\ PartialsEnabled(v) /\ ~v.partial_done
     /\ v.silence >= PartialSilence /\ v.silence < v.min_silence
     /\ v.speech # <<>>
    THEN Emit([v EXCEPT !.partial_done = TRUE, !.speech = <<>>],
              Event("partial", v.start, v.now + WindowMs, v.speech))
    ELSE v

PartialEveryWindow(v) ==
  IF /\ PartialsEnabled(v)
     /\ v.silence >= PartialSilence /\ v.silence < v.min_silence
     /\ v.speech # <<>>
    THEN Emit(v, Event("partial", v.start, v.now + WindowMs, v.speech))
    ELSE v

\* The partial result that a pause yields, once, before it ends the segment.
OfferPartial(v) ==
  IF /\ PartialsEnabled(v) /\ ~v.partial_done
     /\ v.silence >= PartialSilence /\ v.silence < v.min_silence
     /\ v.speech # <<>>
    THEN Emit([v EXCEPT !.partial_done = TRUE],
              Event("partial", v.start, v.now + WindowMs, v.speech))
    ELSE v

HearSilence(v) ==
  IF ~v.in_speech THEN v
  ELSE LET offered == OfferPartial([v EXCEPT !.silence = @ + WindowMs])
       IN  IF offered.silence >= v.min_silence THEN FinishSegment(offered) ELSE offered

\* Mutant of ProcessWindow: it returns before the clock moves.
ClockStopsInSpeech(v, is_speech) ==
  IF is_speech THEN HearSpeech(v)
               ELSE [HearSilence(v) EXCEPT !.now = @ + WindowMs]

ProcessWindow(v, is_speech) ==
  LET after == IF is_speech THEN HearSpeech(v) ELSE HearSilence(v)
  IN  [after EXCEPT !.now = @ + WindowMs]

-----------------------------------------------------------------------------
(* The calls. *)

\* The call returns the events that v has collected.
Returns(v) ==
  /\ vad' = [v EXCEPT !.out = <<>>]
  /\ log' = log \o v.out

\* push: judges, in order, the windows that n more samples complete.
Push(n) ==
  LET complete == (pending + n) \div WindowSamples
  IN  /\ vad.now + complete * WindowMs <= MaxWindows * WindowMs
      /\ pending' = (pending + n) % WindowSamples
      /\ \E verdicts \in [1..complete -> BOOLEAN] :
           LET judged[i \in 0..complete] ==
                 IF i = 0 THEN vad ELSE ProcessWindow(judged[i - 1], verdicts[i])
               spoken[i \in 0..complete] ==
                 IF i = 0 THEN heard
                 ELSE IF verdicts[i] THEN Append(spoken[i - 1], vad.now + (i - 1) * WindowMs)
                 ELSE spoken[i - 1]
           IN  Returns(judged[complete]) /\ heard' = spoken[complete]

\* flush: the incomplete window is thrown away, and the clock does not move.
Flush ==
  /\ pending' = 0
  /\ Returns(FinishSegment(vad))
  /\ UNCHANGED heard

\* set_min_silence_ms, from a session update; any value, at any moment.
SetMinSilence(ms) ==
  /\ vad' = [vad EXCEPT !.min_silence = ms]
  /\ UNCHANGED <<pending, heard, log>>

Next == \/ \E n \in 0..MaxPush : Push(n)
        \/ Flush
        \/ \E ms \in SilenceUpdates : SetMinSilence(ms)

Spec == Init /\ [][Next]_vars

-----------------------------------------------------------------------------
(* Properties *)

\* docs/streaming-api.md:153: start and end frame every phrase.  A start opens
\* a phrase, partials and the end belong to the phrase that is open, and a
\* phrase begins no earlier than the one before it ended.
Framing ==
  /\ \A i \in DOMAIN log :
       LET e == log[i] IN
       IF e.kind = "start"
         THEN i > 1 => log[i - 1].kind = "end" /\ log[i - 1].at <= e.at
         ELSE i > 1 /\ log[i - 1].kind # "end" /\ log[i - 1].start = e.start /\ e.start < e.at
  /\ vad.in_speech <=> (log # <<>> /\ Last(log).kind # "end")
  /\ vad.in_speech => Last(log).start = vad.start

\* What the end of a phrase hands over.
Ended(e) == IF e.kind = "end" THEN e.samples ELSE <<>>

\* Every speech window is in exactly one phrase, in order, and a phrase holds
\* nothing else: what the ended phrases and the open one hold, put together,
\* is what was heard.  Forced cuts, commits and pauses lose and repeat nothing.
SpeechPreserved ==
  FlattenSeq([i \in DOMAIN log |-> Ended(log[i])]) \o vad.speech = heard

\* max_segment_ms bounds every phrase, up to the window in which it is reached.
SegmentBounded ==
  \A i \in DOMAIN log :
    log[i].kind = "end" => log[i].at - log[i].start < MaxSegment + WindowMs

\* What a partial holds is the beginning of what its phrase holds later: the
\* audio under the append-only deltas only ever grows.
PartialsGrow ==
  \A i \in DOMAIN log : log[i].kind = "partial" =>
    IsPrefix(log[i].samples,
             IF i = Len(log) THEN vad.speech ELSE log[i + 1].samples)

\* One partial per pause: between two partials of one phrase there was speech.
OnePartialPerPause ==
  \A i \in 1..(Len(log) - 1) :
    log[i].kind = "partial" /\ log[i + 1].kind = "partial"
      => Len(log[i].samples) < Len(log[i + 1].samples)

=============================================================================
