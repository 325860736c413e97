------------------------- MODULE VadSegmenterProofs -------------------------
(***************************************************************************)
(* What vad.rs promises of its phrases, for pushes of any size, verdicts   *)
(* of any kind and every configuration that validate_config accepts.  The  *)
(* segmenter v, the log l of all events and the history h of all speech    *)
(* are Good together: every event of the log follows from the one before   *)
(* it (Chain), the last event says where v stands (Fits), and the speech   *)
(* of the phrases, put together, is h (Holds).  One window keeps that      *)
(* (SpeechWindow, SilentWindow); a push is a chain of windows, so that its *)
(* proof goes by the first window that would break it (EveryWindow).       *)
(***************************************************************************)
EXTENDS VadSegmenter, SequenceLemmas

\* Events and segmenters, in types.
Kinds == {"start", "partial", "end"}
Events == [kind : Kinds, start : Nat, at : Nat, samples : Seq(Nat)]
Vads == [min_silence : Nat, in_speech : BOOLEAN, start : Nat, last_end : Nat,
         now : Nat, silence : Nat, partial_done : BOOLEAN,
         speech : Seq(Nat), out : Seq(Events)]

-----------------------------------------------------------------------------
(* What one window does, field by field. *)

\* The last statements of process_window for speech.
AddSpeech(o) ==
  [o EXCEPT !.silence = 0, !.partial_done = FALSE,
            !.speech = Append(@, o.now), !.last_end = o.now + WindowMs]

\* Its last one, after every window.
Tick(h) == [h EXCEPT !.now = @ + WindowMs]

\* A window of speech adds itself to the phrase, and the clock moves.
LEMMA SpeechAdds ==
  ASSUME NEW o \in Vads
  PROVE  LET w == Tick(AddSpeech(o)) IN
         /\ w \in Vads /\ w.out = o.out
         /\ w.min_silence = o.min_silence /\ w.in_speech = o.in_speech /\ w.start = o.start
         /\ w.last_end = o.now + WindowMs /\ w.now = o.now + WindowMs
         /\ w.silence = 0 /\ ~w.partial_done /\ w.speech = Append(o.speech, o.now)
<1> DEFINE h == AddSpeech(o)
           said == Append(o.speech, o.now)
           end == o.now + WindowMs
           w == [h EXCEPT !.now = end]
<1>1. o.now \in Nat /\ WindowMs \in Nat /\ o.speech \in Seq(Nat)
  BY ConfigAssumption DEF Vads
<1>2. end \in Nat /\ said \in Seq(Nat)
  BY <1>1
<1>3. h = [o EXCEPT !.silence = 0, !.partial_done = FALSE, !.speech = said, !.last_end = end]
  BY DEF AddSpeech
<1>4. Tick(AddSpeech(o)) = [h EXCEPT !.now = h.now + WindowMs]
  BY DEF Tick
<1> HIDE DEF h, said, end
<1>5. h \in Vads
  BY <1>2, <1>3 DEF Vads
<1>6. /\ h.out = o.out /\ h.now = o.now
      /\ h.min_silence = o.min_silence /\ h.in_speech = o.in_speech /\ h.start = o.start
      /\ h.last_end = end /\ h.silence = 0 /\ ~h.partial_done /\ h.speech = said
  BY <1>3 DEF Vads
<1>7. Tick(AddSpeech(o)) = w
  BY <1>4, <1>6 DEF end
<1>8. w \in Vads
  BY <1>2, <1>5 DEF Vads
<1>9. /\ w.out = h.out /\ w.now = end
      /\ w.min_silence = h.min_silence /\ w.in_speech = h.in_speech /\ w.start = h.start
      /\ w.last_end = h.last_end /\ w.silence = h.silence
      /\ w.partial_done = h.partial_done /\ w.speech = h.speech
  BY <1>5 DEF Vads
<1> HIDE DEF w
<1> QED BY <1>6, <1>7, <1>8, <1>9 DEF said, end

\* Speech inside a phrase that is not too long.
LEMMA SpeechGoesOn ==
  ASSUME NEW v \in Vads, v.in_speech, ~MustCut(v), NEW w, w = ProcessWindow(v, TRUE)
  PROVE  /\ w \in Vads /\ w.out = v.out
         /\ w.min_silence = v.min_silence /\ w.in_speech /\ w.start = v.start
         /\ w.last_end = v.now + WindowMs /\ w.now = v.now + WindowMs
         /\ w.silence = 0 /\ ~w.partial_done /\ w.speech = Append(v.speech, v.now)
<1>1. w = Tick(AddSpeech(v))
  BY DEF ProcessWindow, HearSpeech, Tick, AddSpeech
<1> QED BY <1>1, SpeechAdds

\* A phrase begins with a start.
LEMMA SegmentStarts ==
  ASSUME NEW v \in Vads, NEW o, o = StartSegment(v)
  PROVE  /\ o \in Vads /\ o.out = Append(v.out, Event("start", v.now, v.now, <<>>))
         /\ o.now = v.now /\ o.min_silence = v.min_silence /\ o.in_speech /\ o.start = v.now
         /\ o.speech = <<>>
<1> DEFINE e == Event("start", v.now, v.now, <<>>)
           more == Append(v.out, e)
           none == <<>>
<1>1. v.now \in Nat /\ v.out \in Seq(Events) /\ none \in Seq(Nat)
  BY DEF Vads
<1>2. e \in Events
  BY <1>1 DEF Event, Events, Kinds
<1>3. more \in Seq(Events)
  BY <1>1, <1>2
<1> DEFINE n == [v EXCEPT !.in_speech = TRUE, !.start = v.now, !.last_end = v.now,
             !.silence = 0, !.partial_done = FALSE, !.speech = none, !.out = more]
<1>4. o = n
  BY DEF StartSegment, Emit, Vads
<1> HIDE DEF e, more, none
<1>5. n \in Vads
  BY <1>1, <1>3 DEF Vads
<1>6. /\ n.out = more /\ n.now = v.now /\ n.min_silence = v.min_silence
      /\ n.in_speech /\ n.start = v.now /\ n.speech = none
  BY DEF Vads
<1> HIDE DEF n
<1> QED BY <1>4, <1>5, <1>6 DEF e, more, none

\* A phrase ends with an end, which takes the samples.
LEMMA SegmentFinishes ==
  ASSUME NEW v \in Vads, v.in_speech, NEW o, o = FinishSegment(v)
  PROVE  /\ o \in Vads /\ o.out = Append(v.out, Event("end", v.start, v.last_end, v.speech))
         /\ o.now = v.now /\ o.min_silence = v.min_silence /\ ~o.in_speech
         /\ o.start = v.start /\ o.last_end = v.last_end /\ o.silence = 0 /\ o.speech = <<>>
<1> DEFINE e == Event("end", v.start, v.last_end, v.speech)
           more == Append(v.out, e)
           none == <<>>
<1>1. v.start \in Nat /\ v.last_end \in Nat /\ v.speech \in Seq(Nat) /\ v.out \in Seq(Events)
      /\ none \in Seq(Nat)
  BY DEF Vads
<1>2. e \in Events
  BY <1>1 DEF Event, Events, Kinds
<1>3. more \in Seq(Events)
  BY <1>1, <1>2
<1> DEFINE n == [v EXCEPT !.in_speech = FALSE, !.silence = 0, !.speech = none, !.out = more]
<1>4. o = n
  BY DEF FinishSegment, Emit, Vads
<1> HIDE DEF e, more, none
<1>5. n \in Vads
  BY <1>1, <1>3 DEF Vads
<1>6. /\ n.out = more /\ n.now = v.now /\ n.min_silence = v.min_silence /\ ~n.in_speech
      /\ n.start = v.start /\ n.last_end = v.last_end /\ n.silence = 0 /\ n.speech = none
  BY DEF Vads
<1> HIDE DEF n
<1> QED BY <1>4, <1>5, <1>6 DEF e, more, none

\* Speech outside a phrase opens one.
LEMMA SpeechOpens ==
  ASSUME NEW v \in Vads, ~v.in_speech, NEW w, w = ProcessWindow(v, TRUE)
  PROVE  /\ w \in Vads /\ w.out = Append(v.out, Event("start", v.now, v.now, <<>>))
         /\ w.min_silence = v.min_silence /\ w.in_speech /\ w.start = v.now
         /\ w.last_end = v.now + WindowMs /\ w.now = v.now + WindowMs
         /\ w.silence = 0 /\ ~w.partial_done /\ w.speech = <<v.now>>
<1> DEFINE o == StartSegment(v)
<1>1. ~MustCut(v)
  BY DEF MustCut
<1>3. /\ o \in Vads /\ o.out = Append(v.out, Event("start", v.now, v.now, <<>>))
      /\ o.now = v.now /\ o.min_silence = v.min_silence /\ o.in_speech /\ o.start = v.now
      /\ o.speech = <<>>
  BY SegmentStarts
<1>2. w = Tick(AddSpeech(o))
  BY <1>1, <1>3 DEF ProcessWindow, HearSpeech, Tick, AddSpeech
<1> HIDE DEF o
<1>4. Append(o.speech, v.now) = <<v.now>>
  BY <1>3
<1> QED BY <1>2, <1>3, <1>4, SpeechAdds

\* Speech in a phrase that has reached its length ends it and opens the next.
LEMMA SpeechCuts ==
  ASSUME NEW v \in Vads, MustCut(v), NEW w, w = ProcessWindow(v, TRUE)
  PROVE  /\ w \in Vads
         /\ w.out = Append(Append(v.out, Event("end", v.start, v.last_end, v.speech)),
                           Event("start", v.now, v.now, <<>>))
         /\ w.min_silence = v.min_silence /\ w.in_speech /\ w.start = v.now
         /\ w.last_end = v.now + WindowMs /\ w.now = v.now + WindowMs
         /\ w.silence = 0 /\ ~w.partial_done /\ w.speech = <<v.now>>
<1> DEFINE r == FinishSegment(v)
           o == StartSegment(r)
<1>1. v.in_speech
  BY DEF MustCut
<1>2. /\ r \in Vads /\ r.out = Append(v.out, Event("end", v.start, v.last_end, v.speech))
      /\ r.now = v.now /\ r.min_silence = v.min_silence /\ ~r.in_speech
  BY <1>1, SegmentFinishes
<1>4. /\ o \in Vads /\ o.out = Append(r.out, Event("start", v.now, v.now, <<>>))
      /\ o.now = v.now /\ o.min_silence = r.min_silence /\ o.in_speech /\ o.start = v.now
      /\ o.speech = <<>>
  BY <1>2, SegmentStarts
<1>3. w = Tick(AddSpeech(o))
  BY <1>2, <1>4 DEF ProcessWindow, HearSpeech, Tick, AddSpeech
<1> HIDE DEF r, o
<1>5. Append(o.speech, v.now) = <<v.now>>
  BY <1>4
<1>6. /\ w \in Vads /\ w.out = o.out
      /\ w.min_silence = o.min_silence /\ w.in_speech = o.in_speech /\ w.start = o.start
      /\ w.last_end = o.now + WindowMs /\ w.now = o.now + WindowMs
      /\ w.silence = 0 /\ ~w.partial_done /\ w.speech = Append(o.speech, o.now)
  BY <1>3, <1>4, SpeechAdds
<1> QED BY <1>2, <1>4, <1>5, <1>6

\* The end of process_window: only the clock moves.
LEMMA ClockMoves ==
  ASSUME NEW h \in Vads
  PROVE  LET w == Tick(h) IN
         /\ w \in Vads /\ w.out = h.out /\ w.now = h.now + WindowMs
         /\ w.min_silence = h.min_silence /\ w.in_speech = h.in_speech /\ w.start = h.start
         /\ w.last_end = h.last_end /\ w.silence = h.silence
         /\ w.partial_done = h.partial_done /\ w.speech = h.speech
<1> DEFINE at == h.now + WindowMs
           w == [h EXCEPT !.now = at]
<1>1. h.now \in Nat /\ WindowMs \in Nat
  BY ConfigAssumption DEF Vads
<1>2. at \in Nat
  BY <1>1
<1>3. Tick(h) = w
  BY DEF Tick
<1> HIDE DEF at
<1>4. w \in Vads
  BY <1>2 DEF Vads
<1>5. /\ w.out = h.out /\ w.now = at
      /\ w.min_silence = h.min_silence /\ w.in_speech = h.in_speech /\ w.start = h.start
      /\ w.last_end = h.last_end /\ w.silence = h.silence
      /\ w.partial_done = h.partial_done /\ w.speech = h.speech
  BY DEF Vads
<1> HIDE DEF w
<1> QED BY <1>3, <1>4, <1>5 DEF at

\* Silence outside a phrase changes nothing else.
LEMMA SilenceOutside ==
  ASSUME NEW v \in Vads, ~v.in_speech
  PROVE  ProcessWindow(v, FALSE) = Tick(v)
BY DEF ProcessWindow, HearSilence, Tick

\* One more window of silence.
Waits(v) == [v EXCEPT !.silence = @ + WindowMs]

\* Silence in a phrase is counted.
LEMMA SilenceCounts ==
  ASSUME NEW v \in Vads
  PROVE  LET q == Waits(v) IN
         /\ q \in Vads /\ q.out = v.out /\ q.now = v.now
         /\ q.min_silence = v.min_silence /\ q.in_speech = v.in_speech /\ q.start = v.start
         /\ q.last_end = v.last_end /\ q.silence = v.silence + WindowMs
         /\ q.partial_done = v.partial_done /\ q.speech = v.speech
<1> DEFINE ms == v.silence + WindowMs
           q == [v EXCEPT !.silence = ms]
<1>1. v.silence \in Nat /\ WindowMs \in Nat
  BY ConfigAssumption DEF Vads
<1>2. ms \in Nat
  BY <1>1
<1>3. Waits(v) = q
  BY DEF Waits
<1> HIDE DEF ms
<1>4. q \in Vads
  BY <1>2 DEF Vads
<1>5. /\ q.out = v.out /\ q.now = v.now
      /\ q.min_silence = v.min_silence /\ q.in_speech = v.in_speech /\ q.start = v.start
      /\ q.last_end = v.last_end /\ q.silence = ms
      /\ q.partial_done = v.partial_done /\ q.speech = v.speech
  BY DEF Vads
<1> HIDE DEF q
<1> QED BY <1>3, <1>4, <1>5 DEF ms

\* When a pause has its partial.
Pauses(q) ==
  /\ PartialsEnabled(q) /\ ~q.partial_done
  /\ q.silence >= PartialSilence /\ q.silence < q.min_silence
  /\ q.speech # <<>>

\* A partial has the samples, and the phrase keeps them.
LEMMA PartialComes ==
  ASSUME NEW q \in Vads, Pauses(q)
  PROVE  LET o == OfferPartial(q) IN
         /\ o \in Vads /\ o.out = Append(q.out, Event("partial", q.start, q.now + WindowMs, q.speech))
         /\ o.now = q.now /\ o.min_silence = q.min_silence /\ o.in_speech = q.in_speech
         /\ o.start = q.start /\ o.last_end = q.last_end /\ o.silence = q.silence
         /\ o.partial_done /\ o.speech = q.speech
<1> DEFINE e == Event("partial", q.start, q.now + WindowMs, q.speech)
           more == Append(q.out, e)
           o == [q EXCEPT !.partial_done = TRUE, !.out = more]
<1>1. /\ q.start \in Nat /\ q.now \in Nat /\ WindowMs \in Nat
      /\ q.speech \in Seq(Nat) /\ q.out \in Seq(Events)
  BY ConfigAssumption DEF Vads
<1>2. e \in Events
  BY <1>1 DEF Event, Events, Kinds
<1>3. more \in Seq(Events)
  BY <1>1, <1>2
<1>4. OfferPartial(q) = o
  BY DEF OfferPartial, Pauses, Emit, Vads
<1> HIDE DEF e, more
<1>5. o \in Vads
  BY <1>3 DEF Vads
<1>6. /\ o.out = more /\ o.now = q.now /\ o.min_silence = q.min_silence
      /\ o.in_speech = q.in_speech
      /\ o.start = q.start /\ o.last_end = q.last_end /\ o.silence = q.silence
      /\ o.partial_done /\ o.speech = q.speech
  BY DEF Vads
<1> HIDE DEF o
<1> QED BY <1>4, <1>5, <1>6 DEF e, more

\* Silence in a phrase: a partial, or the end, or neither; never both.
LEMMA SilenceInside ==
  ASSUME NEW v \in Vads, v.in_speech
  PROVE  LET q == Waits(v) IN
         ProcessWindow(v, FALSE) =
           Tick(IF Pauses(q) THEN OfferPartial(q)
                ELSE IF q.silence >= q.min_silence THEN FinishSegment(q) ELSE q)
<1> DEFINE q == Waits(v)
<1>1. q \in Vads
  BY SilenceCounts
<1>2. q.silence \in Nat /\ q.min_silence \in Nat
  BY <1>1 DEF Vads
<1>3. HearSilence(v) = LET offered == OfferPartial(q)
       IN  IF offered.silence >= v.min_silence THEN FinishSegment(offered) ELSE offered
  BY DEF HearSilence, Waits
<1>4. q.min_silence = v.min_silence
  BY SilenceCounts
<1>5. ProcessWindow(v, FALSE) = Tick(HearSilence(v))
  BY DEF ProcessWindow, Tick
<1> HIDE DEF q
<1>6. CASE Pauses(q)
  <2>1. OfferPartial(q).silence = q.silence
    BY <1>1, <1>6, PartialComes
  <2>2. ~(q.silence >= v.min_silence)
    BY <1>2, <1>4, <1>6 DEF Pauses
  <2>3. HearSilence(v) = OfferPartial(q)
    BY <1>3, <2>1, <2>2
  <2> QED BY <1>5, <1>6, <2>3 DEF q
<1>7. CASE ~Pauses(q)
  <2>1. OfferPartial(q) = q
    BY <1>7 DEF OfferPartial, Pauses
  <2> QED BY <1>3, <1>4, <1>5, <1>7, <2>1 DEF q
<1> QED BY <1>6, <1>7

-----------------------------------------------------------------------------
(* The log, event by event. *)

\* Two consecutive events.
Follows(d, e) ==
  /\ IF e.kind = "start" THEN d.kind = "end" /\ d.at <= e.at
                         ELSE d.kind # "end" /\ d.start = e.start /\ e.start < e.at
  /\ d.kind = "partial" => IsPrefix(d.samples, e.samples)
  /\ d.kind = "partial" /\ e.kind = "partial" => Len(d.samples) < Len(e.samples)

\* A phrase that ended was not too long.
Bounded(e) == e.kind = "end" => e.at - e.start < MaxSegment + WindowMs

\* All events, from the start of the first phrase.
Chain(l) ==
  /\ l \in Seq(Events)
  /\ l # <<>> => l[1].kind = "start"
  /\ \A i \in DOMAIN l : Bounded(l[i]) /\ (i > 1 => Follows(l[i - 1], l[i]))

\* What the last event says of the segmenter.
Tip(v, e) ==
  /\ v.in_speech <=> e.kind # "end"
  /\ IF v.in_speech THEN e.start = v.start ELSE e.at <= v.now
  /\ e.kind = "partial" =>
       /\ IsPrefix(e.samples, v.speech)
       /\ ~v.partial_done => Len(e.samples) < Len(v.speech)

\* Before the first event no phrase is open.
Fits(v, l) == IF l = <<>> THEN ~v.in_speech ELSE Tip(v, l[Len(l)])

\* Where the segmenter stands.
Shape(v) ==
  /\ v \in Vads
  /\ v.min_silence \in {MinSilence} \union SilenceUpdates
  /\ v.start <= v.now /\ v.last_end <= v.now
  /\ IF v.in_speech
       THEN /\ v.speech # <<>> /\ v.start < v.last_end
            /\ v.last_end - v.start < MaxSegment + WindowMs
       ELSE v.speech = <<>>

\* What the phrases hold, ended and open.
Phrases(l) == [i \in DOMAIN l |-> Ended(l[i])]
Holds(v, l, h) ==
  /\ h \in Seq(Nat)
  /\ FlattenSeq(Phrases(l)) \in Seq(Nat)
  /\ FlattenSeq(Phrases(l)) \o v.speech = h

\* v: the segmenter, l: all events, those of this call included, h: what was
\* heard.
Good(v, l, h) == Shape(v) /\ Chain(l) /\ Fits(v, l) /\ Holds(v, l, h)

\* One more event.
LEMMA ChainGrows ==
  ASSUME NEW l, Chain(l), NEW e \in Events, Bounded(e),
         l = <<>> => e.kind = "start",
         l # <<>> => Follows(l[Len(l)], e)
  PROVE  /\ Chain(Append(l, e)) /\ Append(l, e) # <<>>
         /\ Append(l, e)[Len(Append(l, e))] = e
<1> DEFINE k == Append(l, e)
<1>1. /\ l \in Seq(Events) /\ Len(l) \in Nat /\ k \in Seq(Events) /\ k # <<>>
      /\ Len(k) = Len(l) + 1 /\ k[Len(l) + 1] = e
      /\ \A i \in 1..Len(l) : k[i] = l[i]
      /\ DOMAIN l = 1..Len(l) /\ DOMAIN k = 1..(Len(l) + 1)
      /\ l = <<>> <=> Len(l) = 0
  BY DEF Chain
<1> HIDE DEF k
<1>2. k[1].kind = "start"
  BY <1>1 DEF Chain
<1>3. ASSUME NEW i \in DOMAIN k PROVE Bounded(k[i]) /\ (i > 1 => Follows(k[i - 1], k[i]))
  <2>1. CASE i = Len(l) + 1
    BY <1>1, <2>1
  <2>2. CASE i # Len(l) + 1
    <3>1. i \in DOMAIN l /\ (i > 1 => i - 1 \in 1..Len(l))
      BY <1>1, <2>2
    <3> QED BY <1>1, <3>1 DEF Chain
  <2> QED BY <2>1, <2>2
<1>4. Chain(k)
  BY <1>1, <1>2, <1>3 DEF Chain
<1> QED BY <1>1, <1>4 DEF k

\* An event adds what it ends.
LEMMA PhrasesGrow ==
  ASSUME NEW l \in Seq(Events), NEW e \in Events, FlattenSeq(Phrases(l)) \in Seq(Nat)
  PROVE  /\ FlattenSeq(Phrases(Append(l, e))) = FlattenSeq(Phrases(l)) \o Ended(e)
         /\ FlattenSeq(Phrases(Append(l, e))) \in Seq(Nat)
<1>1. \A d \in Events : Ended(d) \in Seq(Nat)
  BY DEF Ended, Events
<1>2. ASSUME NEW k \in Seq(Events)
      PROVE  /\ Phrases(k) \in Seq(Seq(Nat)) /\ Len(Phrases(k)) = Len(k)
             /\ \A i \in 1..Len(k) : Phrases(k)[i] = Ended(k[i])
  <2>1. \A i \in 1..Len(k) : Ended(k[i]) \in Seq(Nat)
    BY <1>1
  <2>2. DOMAIN k = 1..Len(k) /\ Len(k) \in Nat
    OBVIOUS
  <2> QED BY <2>1, <2>2 DEF Phrases
<1>3. Phrases(Append(l, e)) = Append(Phrases(l), Ended(e))
  <2> DEFINE p == Phrases(l)
             q == Phrases(Append(l, e))
             r == Append(p, Ended(e))
             n == Len(l)
  <2>1. /\ n \in Nat /\ Append(l, e) \in Seq(Events) /\ Len(Append(l, e)) = n + 1
        /\ \A i \in 1..n : Append(l, e)[i] = l[i]
        /\ Append(l, e)[n + 1] = e
    OBVIOUS
  <2>2. /\ q \in Seq(Seq(Nat)) /\ Len(q) = n + 1
        /\ \A i \in 1..(n + 1) : q[i] = Ended(Append(l, e)[i])
    BY <1>2, <2>1
  <2>3. p \in Seq(Seq(Nat)) /\ Len(p) = n /\ \A i \in 1..n : p[i] = Ended(l[i])
    BY <1>2
  <2>4. Ended(e) \in Seq(Nat)
    BY <1>1
  <2> HIDE DEF p, q, n
  <2>5. /\ r \in Seq(Seq(Nat)) /\ Len(r) = n + 1
        /\ \A i \in 1..n : r[i] = p[i]
        /\ r[n + 1] = Ended(e)
    BY <2>3, <2>4, AppendProperties
  <2> HIDE DEF r
  <2>6. \A i \in 1..(n + 1) : q[i] = r[i]
    BY <2>1, <2>2, <2>3, <2>5
  <2>7. q = r
    BY <2>2, <2>5, <2>6, SeqEqual
  <2> QED BY <2>7 DEF p, q, r
<1> QED BY <1>1, <1>2, <1>3, FlattenAppend

-----------------------------------------------------------------------------
(* What each of these changes does to Good. *)

\* Time passes, or the threshold changes.
LEMMA NothingNew ==
  ASSUME NEW v, NEW l, NEW h, Good(v, l, h), NEW w \in Vads,
         w.in_speech = v.in_speech, w.start = v.start, w.last_end = v.last_end,
         w.partial_done = v.partial_done, w.speech = v.speech,
         w.now >= v.now, w.min_silence \in {MinSilence} \union SilenceUpdates
  PROVE  Good(w, l, h)
<1>0. w.now \in Nat /\ v.now \in Nat /\ v.start \in Nat /\ v.last_end \in Nat
  BY DEF Good, Shape, Vads
<1>1. Shape(w)
  BY <1>0 DEF Good, Shape
<1>2. Fits(w, l)
  <2>1. CASE l = <<>>
    BY <2>1 DEF Good, Fits
  <2>2. CASE l # <<>>
    <3>1. l[Len(l)].at \in Nat
      <4>1. l \in Seq(Events) /\ Len(l) \in 1..Len(l)
        BY <2>2 DEF Good, Chain
      <4>2. l[Len(l)] \in Events
        BY <4>1
      <4> QED BY <4>2 DEF Events
    <3> QED BY <1>0, <2>2, <3>1 DEF Good, Fits, Tip
  <2> QED BY <2>1, <2>2
<1>3. Holds(w, l, h)
  BY DEF Good, Holds
<1> QED BY <1>1, <1>2, <1>3 DEF Good

\* The phrase ends.
LEMMA EndKeeps ==
  ASSUME NEW v, NEW l, NEW h, Good(v, l, h), v.in_speech, NEW o, NEW e,
         o = FinishSegment(v), e = Event("end", v.start, v.last_end, v.speech)
  PROVE  Good(o, Append(l, e), h)
<1>0. /\ v \in Vads /\ v.now \in Nat /\ v.start \in Nat /\ v.last_end \in Nat
      /\ v.speech \in Seq(Nat) /\ WindowMs \in Nat /\ MaxSegment \in Nat
  BY ConfigAssumption DEF Good, Shape, Vads
<1>1. /\ o \in Vads /\ o.now = v.now /\ o.min_silence = v.min_silence /\ ~o.in_speech
      /\ o.start = v.start /\ o.last_end = v.last_end /\ o.speech = <<>>
  BY <1>0, SegmentFinishes
<1>2. /\ e \in Events /\ e.kind = "end" /\ e.start = v.start /\ e.at = v.last_end
      /\ e.samples = v.speech
  BY <1>0 DEF Event, Events, Kinds
<1>3. Shape(o)
  BY <1>1 DEF Good, Shape
<1>4. /\ l # <<>> /\ Tip(v, l[Len(l)]) /\ l \in Seq(Events)
  BY DEF Good, Fits, Chain
<1>5. Follows(l[Len(l)], e) /\ Bounded(e)
  BY <1>2, <1>4 DEF Good, Shape, Tip, Follows, Bounded
<1>6. /\ Chain(Append(l, e)) /\ Append(l, e) # <<>>
      /\ Append(l, e)[Len(Append(l, e))] = e
  BY <1>2, <1>4, <1>5, ChainGrows DEF Good
<1>7. Tip(o, e)
  BY <1>1, <1>2 DEF Tip, Good, Shape
<1>8. Holds(o, Append(l, e), h)
  <2>1. FlattenSeq(Phrases(Append(l, e))) = FlattenSeq(Phrases(l)) \o v.speech
    BY <1>2, <1>4, PhrasesGrow DEF Good, Holds, Ended
  <2>2. FlattenSeq(Phrases(Append(l, e))) = h
    BY <2>1 DEF Good, Holds
  <2>3. h \in Seq(Nat) /\ h \o <<>> = h
    BY DEF Good, Holds
  <2> QED BY <1>1, <2>2, <2>3 DEF Holds
<1> QED BY <1>3, <1>6, <1>7, <1>8 DEF Good, Fits

\* The phrase goes on with the window of speech.
LEMMA SpeechKeeps ==
  ASSUME NEW v, NEW l, NEW h, Good(v, l, h), v.in_speech, v.now - v.start < MaxSegment,
         NEW w \in Vads, w.min_silence = v.min_silence, w.in_speech, w.start = v.start,
         w.last_end = v.now + WindowMs, w.now = v.now + WindowMs,
         w.speech = Append(v.speech, v.now)
  PROVE  Good(w, l, Append(h, v.now))
<1>0. /\ v \in Vads /\ v.now \in Nat /\ v.start \in Nat /\ v.start <= v.now
      /\ v.speech \in Seq(Nat) /\ WindowMs \in Nat \ {0} /\ MaxSegment \in Nat
  BY ConfigAssumption DEF Good, Shape, Vads
<1>1. Shape(w)
  <2>1. w.speech # <<>>
    <3> DEFINE s == v.speech
               at == v.now
    <3>1. s \in Seq(Nat) /\ at \in Nat
      BY <1>0
    <3> HIDE DEF s, at
    <3>2. Append(s, at) # <<>>
      BY <3>1
    <3> QED BY <3>2 DEF s, at
  <2>2. w.start < w.last_end /\ w.last_end - w.start < MaxSegment + WindowMs
        /\ w.start <= w.now /\ w.last_end <= w.now
    BY <1>0
  <2> QED BY <2>1, <2>2 DEF Good, Shape
<1>2. /\ l # <<>> /\ Tip(v, l[Len(l)]) /\ l \in Seq(Events) /\ Len(l) \in 1..Len(l)
  BY DEF Good, Fits, Chain
<1>3. Tip(w, l[Len(l)])
  <2>1. l[Len(l)].samples \in Seq(Nat)
    <3>1. l[Len(l)] \in Events
      BY <1>2
    <3> QED BY <3>1 DEF Events
  <2>2. l[Len(l)].kind = "partial" =>
          IsPrefix(l[Len(l)].samples, w.speech) /\ Len(l[Len(l)].samples) < Len(w.speech)
    BY <1>0, <1>2, <2>1, PrefixOfAppend DEF Tip
  <2> QED BY <1>2, <2>2 DEF Tip
<1>4. Holds(w, l, Append(h, v.now))
  <2> DEFINE f == FlattenSeq(Phrases(l))
  <2>1. f \in Seq(Nat) /\ h \in Seq(Nat) /\ f \o v.speech = h
    BY DEF Good, Holds
  <2> HIDE DEF f
  <2>2. f \o Append(v.speech, v.now) = Append(f \o v.speech, v.now)
    <3> DEFINE s == v.speech
               at == v.now
    <3>1. s \in Seq(Nat) /\ at \in Nat
      BY <1>0
    <3> HIDE DEF s, at
    <3>2. f \o Append(s, at) = Append(f \o s, at)
      BY <2>1, <3>1, ConcatAppend
    <3> QED BY <3>2 DEF s, at
  <2>3. Append(h, v.now) \in Seq(Nat)
    BY <1>0, <2>1
  <2> QED BY <2>1, <2>2, <2>3 DEF f, Holds
<1> QED BY <1>1, <1>2, <1>3, <1>4 DEF Good, Fits

\* A phrase begins with the window of speech.
LEMMA StartKeeps ==
  ASSUME NEW v, NEW l, NEW h, Good(v, l, h), ~v.in_speech,
         NEW w \in Vads, w.min_silence = v.min_silence, w.in_speech, w.start = v.now,
         w.last_end = v.now + WindowMs, w.now = v.now + WindowMs, w.speech = <<v.now>>,
         NEW e, e = Event("start", v.now, v.now, <<>>)
  PROVE  Good(w, Append(l, e), Append(h, v.now))
<1>0. /\ v \in Vads /\ v.now \in Nat /\ v.speech = <<>>
      /\ WindowMs \in Nat \ {0} /\ MaxSegment \in Nat \ {0}
  BY ConfigAssumption DEF Good, Shape, Vads
<1>1. e \in Events /\ e.kind = "start" /\ e.start = v.now /\ e.at = v.now
  BY <1>0 DEF Event, Events, Kinds
<1>2. Shape(w)
  <2>1. w.start < w.last_end /\ w.last_end - w.start < MaxSegment + WindowMs
        /\ w.start <= w.now /\ w.last_end <= w.now
    BY <1>0
  <2> QED BY <2>1 DEF Good, Shape
<1>3. l \in Seq(Events) /\ (l # <<>> => Tip(v, l[Len(l)]))
  BY DEF Good, Fits, Chain
<1>4. (l # <<>> => Follows(l[Len(l)], e)) /\ Bounded(e)
  BY <1>1, <1>3 DEF Tip, Follows, Bounded
<1>5. /\ Chain(Append(l, e)) /\ Append(l, e) # <<>>
      /\ Append(l, e)[Len(Append(l, e))] = e
  BY <1>1, <1>3, <1>4, ChainGrows DEF Good
<1>6. Tip(w, e)
  BY <1>1 DEF Tip
<1>7. Holds(w, Append(l, e), Append(h, v.now))
  <2> DEFINE f == FlattenSeq(Phrases(l))
             g == FlattenSeq(Phrases(Append(l, e)))
  <2>1. f \in Seq(Nat) /\ h \in Seq(Nat) /\ f \o <<>> = h /\ g = f \o Ended(e)
    BY <1>0, <1>1, <1>3, PhrasesGrow DEF Good, Holds
  <2>2. Ended(e) = <<>>
    BY <1>1 DEF Ended
  <2> HIDE DEF f, g
  <2>3. g = h /\ g \in Seq(Nat)
    BY <2>1, <2>2
  <2>4. Append(h, v.now) = h \o <<v.now>> /\ Append(h, v.now) \in Seq(Nat)
    BY <1>0, <2>1, AppendIsConcat, AppendProperties
  <2> QED BY <2>3, <2>4 DEF g, Holds
<1> QED BY <1>2, <1>5, <1>6, <1>7 DEF Good, Fits

\* A partial is offered.
LEMMA PartialKeeps ==
  ASSUME NEW v, NEW l, NEW h, Good(v, l, h), v.in_speech, Pauses(v), NEW o, NEW e,
         o = OfferPartial(v), e = Event("partial", v.start, v.now + WindowMs, v.speech)
  PROVE  Good(o, Append(l, e), h)
<1>0. /\ v \in Vads /\ v.now \in Nat /\ v.start \in Nat /\ v.start <= v.now
      /\ v.speech \in Seq(Nat) /\ WindowMs \in Nat \ {0} /\ ~v.partial_done
  BY ConfigAssumption DEF Good, Shape, Vads, Pauses
<1>1. /\ o \in Vads /\ o.now = v.now /\ o.min_silence = v.min_silence /\ o.in_speech
      /\ o.start = v.start /\ o.last_end = v.last_end /\ o.speech = v.speech /\ o.partial_done
  BY <1>0, PartialComes
<1>2. /\ e \in Events /\ e.kind = "partial" /\ e.start = v.start /\ e.at = v.now + WindowMs
      /\ e.samples = v.speech
  BY <1>0 DEF Event, Events, Kinds
<1>3. Shape(o)
  BY <1>1 DEF Good, Shape
<1>4. /\ l # <<>> /\ Tip(v, l[Len(l)]) /\ l \in Seq(Events)
  BY DEF Good, Fits, Chain
<1>5. Follows(l[Len(l)], e) /\ Bounded(e)
  <2>1. e.start < e.at
    BY <1>0, <1>2
  <2> QED BY <1>0, <1>2, <1>4, <2>1 DEF Tip, Follows, Bounded
<1>6. /\ Chain(Append(l, e)) /\ Append(l, e) # <<>>
      /\ Append(l, e)[Len(Append(l, e))] = e
  BY <1>2, <1>4, <1>5, ChainGrows DEF Good
<1>7. Tip(o, e)
  BY <1>0, <1>1, <1>2, PrefixOfItself DEF Tip
<1>8. Holds(o, Append(l, e), h)
  <2> DEFINE f == FlattenSeq(Phrases(l))
             g == FlattenSeq(Phrases(Append(l, e)))
  <2>1. f \in Seq(Nat) /\ h \in Seq(Nat) /\ f \o v.speech = h /\ g = f \o Ended(e)
    BY <1>2, <1>4, PhrasesGrow DEF Good, Holds
  <2>2. Ended(e) = <<>>
    BY <1>2 DEF Ended
  <2> HIDE DEF f, g
  <2>3. g = f
    BY <2>1, <2>2
  <2> QED BY <1>1, <2>1, <2>3 DEF f, g, Holds
<1> QED BY <1>3, <1>6, <1>7, <1>8 DEF Good, Fits

\* An event more of this call is an event more of all.
LEMMA OneMoreEvent ==
  ASSUME NEW base \in Seq(Events), NEW v \in Vads, NEW e \in Events
  PROVE  base \o Append(v.out, e) = Append(base \o v.out, e)
<1> DEFINE out == v.out
<1>1. out \in Seq(Events)
  BY DEF Vads
<1> HIDE DEF out
<1>2. base \o Append(out, e) = Append(base \o out, e)
  BY <1>1, ConcatAppend
<1> QED BY <1>2 DEF out

\* The three events that a segmenter emits.
LEMMA EventTypes ==
  ASSUME NEW v \in Vads
  PROVE  /\ Event("start", v.now, v.now, <<>>) \in Events
         /\ Event("end", v.start, v.last_end, v.speech) \in Events
         /\ Event("partial", v.start, v.now + WindowMs, v.speech) \in Events
<1>1. /\ v.start \in Nat /\ v.last_end \in Nat /\ v.now \in Nat /\ v.now + WindowMs \in Nat
      /\ v.speech \in Seq(Nat)
  BY ConfigAssumption DEF Vads
<1> QED BY <1>1 DEF Event, Events, Kinds

\* A window of speech keeps the segmenter good, with its events added to those
\* of the call and itself to what was heard.
LEMMA SpeechWindow ==
  ASSUME NEW base \in Seq(Events), NEW v, NEW h, Good(v, base \o v.out, h),
         NEW w, w = ProcessWindow(v, TRUE)
  PROVE  Good(w, base \o w.out, Append(h, v.now))
<1>0. v \in Vads /\ v.now \in Nat /\ v.start \in Nat /\ v.start <= v.now /\ MaxSegment \in Nat
  BY ConfigAssumption DEF Good, Shape, Vads
<1> DEFINE s == Event("start", v.now, v.now, <<>>)
           e == Event("end", v.start, v.last_end, v.speech)
<1>1. CASE ~v.in_speech
  <2>1. /\ w \in Vads /\ w.out = Append(v.out, s)
        /\ w.min_silence = v.min_silence /\ w.in_speech /\ w.start = v.now
        /\ w.last_end = v.now + WindowMs /\ w.now = v.now + WindowMs
        /\ w.speech = <<v.now>>
    BY <1>0, <1>1, SpeechOpens
  <2>2. base \o w.out = Append(base \o v.out, s)
    <3>1. s \in Events
      BY <1>0, EventTypes
    <3> HIDE DEF s
    <3>2. base \o Append(v.out, s) = Append(base \o v.out, s)
      BY <1>0, <3>1, OneMoreEvent
    <3> QED BY <2>1, <3>2
  <2>3. Good(w, Append(base \o v.out, s), Append(h, v.now))
    BY <1>1, <2>1, StartKeeps
  <2> QED BY <2>2, <2>3
<1>2. CASE v.in_speech /\ ~MustCut(v)
  <2>1. /\ w \in Vads /\ w.out = v.out
        /\ w.min_silence = v.min_silence /\ w.in_speech /\ w.start = v.start
        /\ w.last_end = v.now + WindowMs /\ w.now = v.now + WindowMs
        /\ w.speech = Append(v.speech, v.now)
    BY <1>0, <1>2, SpeechGoesOn
  <2>2. v.now - v.start < MaxSegment
    BY <1>0, <1>2 DEF MustCut
  <2>3. Good(w, base \o v.out, Append(h, v.now))
    BY <1>2, <2>1, <2>2, SpeechKeeps
  <2> QED BY <2>1, <2>3
<1>3. CASE MustCut(v)
  <2> DEFINE r == FinishSegment(v)
  <2>1. /\ w \in Vads /\ w.out = Append(Append(v.out, e), s)
        /\ w.min_silence = v.min_silence /\ w.in_speech /\ w.start = v.now
        /\ w.last_end = v.now + WindowMs /\ w.now = v.now + WindowMs
        /\ w.speech = <<v.now>>
    BY <1>0, <1>3, SpeechCuts
  <2>2. v.in_speech
    BY <1>3 DEF MustCut
  <2>3. Good(r, Append(base \o v.out, e), h)
    BY <2>2, EndKeeps
  <2>4. /\ r \in Vads /\ r.out = Append(v.out, e) /\ ~r.in_speech /\ r.now = v.now
        /\ r.min_silence = v.min_silence
    BY <1>0, <2>2, SegmentFinishes
  <2>5. base \o w.out = Append(base \o r.out, s)
    <3>1. s \in Events
      BY <1>0, EventTypes
    <3> HIDE DEF r, s, e
    <3>2. base \o Append(r.out, s) = Append(base \o r.out, s)
      BY <2>4, <3>1, OneMoreEvent
    <3> QED BY <2>1, <2>4, <3>2
  <2>6. base \o r.out = Append(base \o v.out, e)
    BY <1>0, <2>4, OneMoreEvent, EventTypes
  <2> HIDE DEF r, e
  <2>7. Good(w, Append(Append(base \o v.out, e), s), Append(h, r.now))
    BY <2>1, <2>3, <2>4, StartKeeps
  <2> QED BY <2>4, <2>5, <2>6, <2>7
<1> QED BY <1>1, <1>2, <1>3 DEF MustCut

\* A window of silence keeps it good, and what was heard.
LEMMA SilentWindow ==
  ASSUME NEW base \in Seq(Events), NEW v, NEW h, Good(v, base \o v.out, h),
         NEW w, w = ProcessWindow(v, FALSE)
  PROVE  Good(w, base \o w.out, h)
<1>0. /\ v \in Vads /\ v.now \in Nat /\ v.min_silence \in {MinSilence} \union SilenceUpdates
      /\ WindowMs \in Nat
  BY ConfigAssumption DEF Good, Shape, Vads
<1>1. ASSUME NEW o, NEW l, Good(o, l, h)
      PROVE  Good(Tick(o), l, h) /\ Tick(o).out = o.out
  <2>1. /\ o \in Vads /\ o.now \in Nat
        /\ o.min_silence \in {MinSilence} \union SilenceUpdates
    BY <1>1 DEF Good, Shape, Vads
  <2>2. o.now + WindowMs >= o.now
    BY <1>0, <2>1
  <2> DEFINE t == Tick(o)
  <2>3. /\ t \in Vads /\ t.out = o.out /\ t.now = o.now + WindowMs
        /\ t.min_silence = o.min_silence /\ t.in_speech = o.in_speech /\ t.start = o.start
        /\ t.last_end = o.last_end
        /\ t.partial_done = o.partial_done /\ t.speech = o.speech
    BY <2>1, ClockMoves
  <2> HIDE DEF t
  <2>4. Good(t, l, h)
    BY <1>1, <2>1, <2>2, <2>3, NothingNew
  <2> QED BY <2>3, <2>4 DEF t
<1>2. CASE ~v.in_speech
  BY <1>0, <1>1, <1>2, SilenceOutside
<1>3. CASE v.in_speech
  <2> DEFINE q == Waits(v)
             o == IF Pauses(q) THEN OfferPartial(q)
                  ELSE IF q.silence >= q.min_silence THEN FinishSegment(q) ELSE q
             e == Event("end", q.start, q.last_end, q.speech)
             p == Event("partial", q.start, q.now + WindowMs, q.speech)
  <2>1. w = Tick(o)
    BY <1>0, <1>3, SilenceInside
  <2>2. /\ q \in Vads /\ q.out = v.out /\ q.now = v.now
        /\ q.min_silence = v.min_silence /\ q.in_speech = v.in_speech /\ q.start = v.start
        /\ q.last_end = v.last_end
        /\ q.partial_done = v.partial_done /\ q.speech = v.speech
    BY <1>0, SilenceCounts
  <2>3. e \in Events /\ p \in Events
    BY <2>2, EventTypes
  <2> HIDE DEF q
  <2>4. Good(q, base \o q.out, h)
    <3>1. q.now >= v.now
      BY <1>0, <2>2
    <3>2. Good(q, base \o v.out, h)
      BY <1>0, <2>2, <3>1, NothingNew
    <3> QED BY <2>2, <3>2
  <2>5. Good(o, base \o o.out, h)
    <3>1. CASE Pauses(q)
      <4>1. o = OfferPartial(q)
        BY <3>1
      <4>2. o.out = Append(q.out, p)
        BY <2>2, <3>1, <4>1, PartialComes
      <4>3. Good(o, Append(base \o q.out, p), h)
        BY <1>3, <2>2, <2>4, <3>1, <4>1, PartialKeeps
      <4>4. base \o Append(q.out, p) = Append(base \o q.out, p)
        <5> HIDE DEF p
        <5> QED BY <2>2, <2>3, OneMoreEvent
      <4> QED BY <4>2, <4>3, <4>4
    <3>2. CASE ~Pauses(q) /\ q.silence >= q.min_silence
      <4>1. o = FinishSegment(q)
        BY <3>2
      <4>2. o.out = Append(q.out, e)
        BY <1>3, <2>2, <4>1, SegmentFinishes
      <4>3. Good(o, Append(base \o q.out, e), h)
        BY <1>3, <2>2, <2>4, <4>1, EndKeeps
      <4>4. base \o Append(q.out, e) = Append(base \o q.out, e)
        <5> HIDE DEF e
        <5> QED BY <2>2, <2>3, OneMoreEvent
      <4> QED BY <4>2, <4>3, <4>4
    <3>3. CASE ~Pauses(q) /\ ~(q.silence >= q.min_silence)
      BY <2>4, <3>3
    <3> QED BY <3>1, <3>2, <3>3
  <2> HIDE DEF o
  <2> QED BY <1>1, <2>1, <2>5
<1> QED BY <1>2, <1>3

\* Every window moves the clock, and the silence never exceeds it.
LEMMA WindowClock ==
  ASSUME NEW v \in Vads, v.silence <= v.now, NEW b \in BOOLEAN, NEW w, w = ProcessWindow(v, b)
  PROVE  w \in Vads /\ w.now = v.now + WindowMs /\ w.silence <= w.now
<1>0. v.now \in Nat /\ v.silence \in Nat /\ WindowMs \in Nat \ {0}
  BY ConfigAssumption DEF Vads
<1>1. CASE b = TRUE
  <2>1. w \in Vads /\ w.now = v.now + WindowMs /\ w.silence = 0
    <3>1. w = ProcessWindow(v, TRUE)
      BY <1>1
    <3>2. CASE ~v.in_speech
      BY <3>1, <3>2, SpeechOpens
    <3>3. CASE v.in_speech /\ ~MustCut(v)
      BY <3>1, <3>3, SpeechGoesOn
    <3>4. CASE MustCut(v)
      BY <3>1, <3>4, SpeechCuts
    <3> QED BY <3>2, <3>3, <3>4
  <2> QED BY <1>0, <2>1
<1>2. CASE b = FALSE /\ ~v.in_speech
  <2>1. w = Tick(v)
    BY <1>2, SilenceOutside
  <2>2. w \in Vads /\ w.now = v.now + WindowMs /\ w.silence = v.silence
    BY <2>1, ClockMoves
  <2> QED BY <1>0, <2>2
<1>3. CASE b = FALSE /\ v.in_speech
  <2> DEFINE q == Waits(v)
             o == IF Pauses(q) THEN OfferPartial(q)
                  ELSE IF q.silence >= q.min_silence THEN FinishSegment(q) ELSE q
  <2>1. w = Tick(o)
    BY <1>3, SilenceInside
  <2>2. q \in Vads /\ q.now = v.now /\ q.silence = v.silence + WindowMs /\ q.in_speech
    BY <1>3, SilenceCounts
  <2> HIDE DEF q
  <2>3. o \in Vads /\ o.now = v.now /\ o.silence \in {0, v.silence + WindowMs}
    BY <2>2, PartialComes, SegmentFinishes
  <2> HIDE DEF o
  <2>4. w \in Vads /\ w.now = o.now + WindowMs /\ w.silence = o.silence
    BY <2>1, <2>3, ClockMoves
  <2> QED BY <1>0, <2>3, <2>4
<1> QED BY <1>1, <1>2, <1>3

-----------------------------------------------------------------------------
(* A call: window after window. *)

\* The functions that Push recurs with.
Judges(f, v, verdicts, n) ==
  f = [i \in 0..n |-> IF i = 0 THEN v ELSE ProcessWindow(f[i - 1], verdicts[i])]
Speaks(g, h, at, verdicts, n) ==
  g = [i \in 0..n |-> IF i = 0 THEN h
                      ELSE IF verdicts[i] THEN Append(g[i - 1], at + (i - 1) * WindowMs)
                      ELSE g[i - 1]]

\* The first exists for pushes of any length: the shortest without one is one
\* window longer than a push that has one.
LEMMA JudgesExists ==
  ASSUME NEW v, NEW verdicts
  PROVE  \A n \in Nat : \E f : Judges(f, v, verdicts, n)
<1> DEFINE Bad == {n \in Nat : ~ \E f : Judges(f, v, verdicts, n)}
<1> SUFFICES ASSUME Bad # {} PROVE FALSE
  OBVIOUS
<1>1. PICK n \in Bad : \A m \in Bad : n <= m
  BY LeastNatural
<1>2. n \in Nat
  OBVIOUS
<1>3. CASE n = 0
  <2> DEFINE f == [i \in 0..0 |-> v]
  <2>1. Judges(f, v, verdicts, 0)
    BY DEF Judges
  <2> QED BY <1>1, <1>3, <2>1
<1>4. CASE n # 0
  <2>1. n - 1 \in Nat /\ n - 1 < n
    BY <1>2, <1>4
  <2>2. n - 1 \notin Bad
    <3> HIDE DEF Bad
    <3> QED BY <1>1, <1>2, <2>1
  <2>3. PICK g : Judges(g, v, verdicts, n - 1)
    BY <2>1, <2>2
  <2> DEFINE f == [i \in 0..n |-> IF i = 0 THEN v ELSE ProcessWindow(g[i - 1], verdicts[i])]
  <2>4. ASSUME NEW i \in 0..n, i # 0 PROVE f[i - 1] = g[i - 1]
    <3>1. i - 1 \in 0..(n - 1) /\ i - 1 \in 0..n
      BY <2>1, <2>4
    <3> QED BY <2>3, <3>1 DEF Judges
  <2>5. Judges(f, v, verdicts, n)
    BY <2>4 DEF Judges
  <2> QED BY <1>1, <2>5
<1> QED BY <1>3, <1>4

\* And so does the second.
LEMMA SpeaksExists ==
  ASSUME NEW h, NEW at, NEW verdicts
  PROVE  \A n \in Nat : \E g : Speaks(g, h, at, verdicts, n)
<1> DEFINE Bad == {n \in Nat : ~ \E g : Speaks(g, h, at, verdicts, n)}
<1> SUFFICES ASSUME Bad # {} PROVE FALSE
  OBVIOUS
<1>1. PICK n \in Bad : \A m \in Bad : n <= m
  BY LeastNatural
<1>2. n \in Nat
  OBVIOUS
<1>3. CASE n = 0
  <2> DEFINE f == [i \in 0..0 |-> h]
  <2>1. Speaks(f, h, at, verdicts, 0)
    BY DEF Speaks
  <2> QED BY <1>1, <1>3, <2>1
<1>4. CASE n # 0
  <2>1. n - 1 \in Nat /\ n - 1 < n
    BY <1>2, <1>4
  <2>2. n - 1 \notin Bad
    <3> HIDE DEF Bad
    <3> QED BY <1>1, <1>2, <2>1
  <2>3. PICK g : Speaks(g, h, at, verdicts, n - 1)
    BY <2>1, <2>2
  <2> DEFINE f == [i \in 0..n |-> IF i = 0 THEN h
                      ELSE IF verdicts[i] THEN Append(g[i - 1], at + (i - 1) * WindowMs)
                      ELSE g[i - 1]]
  <2>4. ASSUME NEW i \in 0..n, i # 0 PROVE f[i - 1] = g[i - 1]
    <3>1. i - 1 \in 0..(n - 1) /\ i - 1 \in 0..n
      BY <2>1, <2>4
    <3> QED BY <2>3, <3>1 DEF Speaks
  <2>5. Speaks(f, h, at, verdicts, n)
    BY <2>4 DEF Speaks
  <2> QED BY <1>1, <2>5
<1> QED BY <1>3, <1>4

\* What a push does, with the two functions.
LEMMA PushIs ==
  ASSUME NEW n, Push(n), (pending + n) \div WindowSamples \in Nat
  PROVE  LET complete == (pending + n) \div WindowSamples IN
         \E verdicts \in [1..complete -> BOOLEAN] : \E f, g :
           /\ Judges(f, vad, verdicts, complete)
           /\ Speaks(g, heard, vad.now, verdicts, complete)
           /\ Returns(f[complete]) /\ heard' = g[complete]
<1> DEFINE complete == (pending + n) \div WindowSamples
           F(verdicts) == CHOOSE f : Judges(f, vad, verdicts, complete)
           G(verdicts) == CHOOSE g : Speaks(g, heard, vad.now, verdicts, complete)
<1>1. PICK verdicts \in [1..complete -> BOOLEAN] :
        Returns(F(verdicts)[complete]) /\ heard' = G(verdicts)[complete]
  BY DEF Push, Judges, Speaks
<1>2. Judges(F(verdicts), vad, verdicts, complete)
  BY JudgesExists
<1>3. Speaks(G(verdicts), heard, vad.now, verdicts, complete)
  BY SpeaksExists
<1> QED BY <1>1, <1>2, <1>3

\* After each window of a call, and with it the next call.
LEMMA EveryWindow ==
  ASSUME NEW v, NEW l \in Seq(Events), NEW h, v.out = <<>>, Good(v, l, h), v.silence <= v.now,
         NEW n \in Nat, NEW verdicts \in [1..n -> BOOLEAN], NEW f, NEW g,
         Judges(f, v, verdicts, n), Speaks(g, h, v.now, verdicts, n)
  PROVE  \A i \in 0..n : /\ Good(f[i], l \o f[i].out, g[i])
                         /\ f[i].now = v.now + i * WindowMs
                         /\ f[i].silence <= f[i].now
<1> DEFINE Fine(i) == /\ Good(f[i], l \o f[i].out, g[i])
                      /\ f[i].now = v.now + i * WindowMs
                      /\ f[i].silence <= f[i].now
           Bad == {i \in 0..n : ~Fine(i)}
<1> SUFFICES ASSUME Bad # {} PROVE FALSE
  OBVIOUS
<1>1. Bad \subseteq Nat
  OBVIOUS
<1> HIDE DEF Bad
<1>2. PICK i \in Bad : \A j \in Bad : i <= j
  BY <1>1, LeastNatural
<1>3. i \in 0..n /\ ~Fine(i)
  BY DEF Bad
<1>4. v.now \in Nat /\ WindowMs \in Nat
  BY ConfigAssumption DEF Good, Shape, Vads
<1>5. CASE i = 0
  <2>1. f[0] = v /\ g[0] = h
    BY <1>3, <1>5 DEF Judges, Speaks
  <2>2. l \o v.out = l
    OBVIOUS
  <2>3. v.now = v.now + 0 * WindowMs
    BY <1>4
  <2> QED BY <1>3, <1>5, <2>1, <2>2, <2>3
<1>6. CASE i # 0
  <2> DEFINE u == f[i - 1]
             w == f[i]
             k == g[i - 1]
  <2>1. i - 1 \in 0..n /\ i - 1 < i /\ i \in 1..n
    BY <1>3, <1>6
  <2>2. Fine(i - 1)
    <3>1. i - 1 \notin Bad
      <4> HIDE DEF Fine
      <4> QED BY <1>1, <1>2, <2>1
    <3> QED BY <2>1, <3>1 DEF Bad
  <2>3. verdicts[i] \in BOOLEAN
    BY <2>1
  <2>4. w = ProcessWindow(u, verdicts[i])
    BY <1>3, <1>6 DEF Judges
  <2>5. u \in Vads
    BY <2>2 DEF Good, Shape
  <2>6. g[i] = IF verdicts[i] THEN Append(k, u.now) ELSE k
    <3>1. g[i] = IF verdicts[i] THEN Append(k, v.now + (i - 1) * WindowMs) ELSE k
      BY <1>3, <1>6 DEF Speaks
    <3> QED BY <2>2, <3>1
  <2>7. w.now = u.now + WindowMs /\ w.silence <= w.now
    <3>1. u.silence <= u.now
      BY <2>2
    <3> HIDE DEF u, w
    <3> QED BY <2>3, <2>4, <2>5, <3>1, WindowClock
  <2>8. Good(w, l \o w.out, g[i])
    <3>1. Good(u, l \o u.out, k)
      BY <2>2
    <3> HIDE DEF u, w, k
    <3>2. CASE verdicts[i] = TRUE
      BY <2>4, <2>6, <3>1, <3>2, SpeechWindow
    <3>3. CASE verdicts[i] = FALSE
      BY <2>4, <2>6, <3>1, <3>3, SilentWindow
    <3> QED BY <2>3, <3>2, <3>3
  <2>9. w.now = v.now + i * WindowMs
    <3>1. u.now = v.now + (i - 1) * WindowMs
      BY <2>2
    <3>2. (i - 1) * WindowMs + WindowMs = i * WindowMs
      BY <1>4, <2>1
    <3>3. (i - 1) * WindowMs \in Nat /\ i * WindowMs \in Nat
      BY <1>4, <2>1
    <3> HIDE DEF u, w
    <3> QED BY <1>4, <2>7, <3>1, <3>2, <3>3
  <2> QED BY <1>3, <2>7, <2>8, <2>9
<1> QED BY <1>5, <1>6

-----------------------------------------------------------------------------
(* The invariant. *)

\* Between two calls the events are in the log, and no silence began before
\* the audio did.
IInv ==
  /\ pending \in 0..(WindowSamples - 1)
  /\ vad.out = <<>> /\ vad.silence <= vad.now
  /\ vad.now \in {WindowMs * n : n \in 0..MaxWindows}
  /\ Good(vad, log, heard)

\* A call adds its events to the log and takes nothing from it.
Adds == \E batch \in Seq(Events) : log' = log \o batch

\* A call returns: its events go to the log.
LEMMA CallReturns ==
  ASSUME NEW v, NEW h, log \in Seq(Events), Good(v, log \o v.out, h), v.silence <= v.now,
         Returns(v)
  PROVE  /\ vad'.out = <<>> /\ vad'.silence <= vad'.now /\ vad'.now = v.now
         /\ Good(vad', log', h)
<1> DEFINE none == <<>>
           w == [v EXCEPT !.out = none]
<1>1. v \in Vads /\ none \in Seq(Events)
  BY DEF Good, Shape
<1>2. vad' = w /\ log' = log \o v.out
  BY DEF Returns
<1> HIDE DEF none
<1>3. w \in Vads
  BY <1>1 DEF Vads
<1>4. /\ w.out = none /\ w.now = v.now /\ w.min_silence = v.min_silence
      /\ w.in_speech = v.in_speech /\ w.start = v.start /\ w.last_end = v.last_end
      /\ w.silence = v.silence /\ w.partial_done = v.partial_done /\ w.speech = v.speech
  BY <1>1 DEF Vads
<1> HIDE DEF w
<1>5. v.now \in Nat /\ v.min_silence \in {MinSilence} \union SilenceUpdates
  BY DEF Good, Shape, Vads
<1>6. w.now >= v.now
  BY <1>4, <1>5
<1>7. Good(w, log \o v.out, h)
  BY <1>3, <1>4, <1>5, <1>6, NothingNew
<1> QED BY <1>2, <1>4, <1>7 DEF none

\* A new segmenter.
LEMMA InitIInv == Init => IInv
<1> SUFFICES ASSUME Init PROVE IInv
  OBVIOUS
<1> DEFINE none == <<>>
           o == none
<1>1. /\ WindowMs \in Nat \ {0} /\ WindowSamples \in Nat \ {0} /\ MinSilence \in Nat
      /\ MaxWindows \in Nat
  BY ConfigAssumption
<1>2. none \in Seq(Nat) /\ o \in Seq(Events)
  OBVIOUS
<1>3. vad = [min_silence |-> MinSilence, in_speech |-> FALSE, start |-> 0,
           last_end |-> 0, now |-> 0, silence |-> 0, partial_done |-> FALSE,
           speech |-> none, out |-> o]
  BY DEF Init, NewVad
<1>4. pending = 0 /\ heard = <<>> /\ log = <<>>
  BY DEF Init
<1>5. vad.now = 0 /\ vad.out = <<>> /\ vad.silence = 0 /\ vad.speech = <<>> /\ ~vad.in_speech
      /\ vad.start = 0 /\ vad.last_end = 0 /\ vad.min_silence = MinSilence
  BY <1>3
<1> HIDE DEF none, o
<1>6. vad \in Vads
  BY <1>1, <1>2, <1>3 DEF Vads
<1>7. Shape(vad)
  BY <1>1, <1>5, <1>6 DEF Shape
<1>8. Chain(log)
  BY <1>4 DEF Chain
<1>9. Fits(vad, log)
  BY <1>4, <1>5 DEF Fits
<1>10. Holds(vad, log, heard)
  <2>1. Phrases(log) = <<>>
    BY <1>4 DEF Phrases
  <2>2. FlattenSeq(Phrases(log)) = <<>>
    BY <2>1, FlattenEmpty
  <2>3. none \o none = none
    BY <1>2 DEF none
  <2>4. vad.speech = none /\ heard = none /\ FlattenSeq(Phrases(log)) = none
    BY <1>4, <1>5, <2>2 DEF none
  <2>5. none \in Seq(Nat)
    BY <1>2
  <2>6. FlattenSeq(Phrases(log)) \in Seq(Nat) /\ FlattenSeq(Phrases(log)) \o vad.speech = heard
    BY <2>3, <2>4, <2>5
  <2> QED BY <2>6, <1>2, <2>4 DEF Holds
<1>11. pending \in 0..(WindowSamples - 1) /\ vad.now \in {WindowMs * n : n \in 0..MaxWindows}
  <2>1. 0 \in 0..MaxWindows /\ WindowMs * 0 = 0
    BY <1>1
  <2> QED BY <1>1, <1>4, <1>5, <2>1
<1> QED BY <1>5, <1>7, <1>8, <1>9, <1>10, <1>11 DEF IInv, Good

\* A call that returns no event.
LEMMA NothingAdded == ASSUME log \in Seq(Events), log' = log PROVE Adds
<1>1. <<>> \in Seq(Events) /\ log \o <<>> = log
  OBVIOUS
<1> QED BY <1>1 DEF Adds

\* push.
LEMMA PushKeeps ==
  ASSUME IInv, NEW n \in 0..MaxPush, Push(n)
  PROVE  IInv' /\ Adds
<1> DEFINE complete == (pending + n) \div WindowSamples
<1>1. /\ pending + n \in Nat /\ WindowSamples \in Nat \ {0} /\ WindowMs \in Nat \ {0}
      /\ MaxWindows \in Nat
  BY ConfigAssumption DEF IInv
<1>2. complete \in Nat /\ (pending + n) % WindowSamples \in 0..(WindowSamples - 1)
  <2> DEFINE m == pending + n
  <2>1. m \in Nat
    BY <1>1
  <2> HIDE DEF m
  <2>2. m \div WindowSamples \in Nat /\ m % WindowSamples \in 0..(WindowSamples - 1)
    BY <1>1, <2>1
  <2> QED BY <2>2 DEF m
<1>3a. PICK verdicts \in [1..complete -> BOOLEAN] : \E f, g :
         /\ Judges(f, vad, verdicts, complete)
         /\ Speaks(g, heard, vad.now, verdicts, complete)
         /\ Returns(f[complete]) /\ heard' = g[complete]
  BY <1>2, PushIs
<1>3. PICK f, g :
        /\ Judges(f, vad, verdicts, complete)
        /\ Speaks(g, heard, vad.now, verdicts, complete)
        /\ Returns(f[complete]) /\ heard' = g[complete]
  BY <1>3a
<1>4. /\ vad.now + complete * WindowMs <= MaxWindows * WindowMs
      /\ pending' = (pending + n) % WindowSamples
  BY DEF Push
<1>5. log \in Seq(Events) /\ vad.out = <<>> /\ Good(vad, log, heard) /\ vad.silence <= vad.now
  BY DEF IInv, Good, Chain
<1> HIDE DEF complete
<1>6. /\ Good(f[complete], log \o f[complete].out, g[complete])
      /\ f[complete].now = vad.now + complete * WindowMs
      /\ f[complete].silence <= f[complete].now
  <2>1. complete \in 0..complete
    BY <1>2
  <2> QED BY <1>2, <1>3, <1>5, <2>1, EveryWindow
<1>7. /\ vad'.out = <<>> /\ vad'.silence <= vad'.now /\ vad'.now = f[complete].now
      /\ Good(vad', log', g[complete])
  BY <1>3, <1>5, <1>6, CallReturns
<1>8. vad'.now \in {WindowMs * k : k \in 0..MaxWindows}
  <2>1. PICK k \in 0..MaxWindows : vad.now = WindowMs * k
    BY DEF IInv
  <2>2. WindowMs * k + complete * WindowMs = WindowMs * (k + complete)
    BY <1>1, <1>2, <2>1
  <2>3. vad'.now = WindowMs * (k + complete)
    BY <1>6, <1>7, <2>1, <2>2
  <2>4. WindowMs * (k + complete) <= WindowMs * MaxWindows
    BY <1>1, <1>4, <2>1, <2>2
  <2>5. k + complete <= MaxWindows
    <3> DEFINE j == k + complete
    <3>1. j \in Nat
      BY <1>2, <2>1
    <3> HIDE DEF j
    <3>2. ASSUME j > MaxWindows PROVE WindowMs * j > WindowMs * MaxWindows
      BY <1>1, <3>1, <3>2
    <3>3. j <= MaxWindows \/ j > MaxWindows
      BY <1>1, <3>1
    <3>4. WindowMs * j \in Nat /\ WindowMs * MaxWindows \in Nat
      BY <1>1, <3>1
    <3> QED BY <2>4, <3>2, <3>3, <3>4 DEF j
  <2>6. k + complete \in 0..MaxWindows
    BY <1>2, <2>1, <2>5
  <2> QED BY <2>3, <2>6
<1>9. Adds
  BY <1>3, <1>6 DEF Returns, Good, Shape, Vads, Adds
<1> QED BY <1>2, <1>3, <1>4, <1>7, <1>8, <1>9 DEF IInv

\* flush.
LEMMA FlushKeeps ==
  ASSUME IInv, Flush
  PROVE  IInv' /\ Adds
<1> DEFINE o == FinishSegment(vad)
           e == Event("end", vad.start, vad.last_end, vad.speech)
<1>1. log \in Seq(Events) /\ vad.out = <<>> /\ Good(vad, log, heard) /\ vad.silence <= vad.now
      /\ vad \in Vads
  BY DEF IInv, Good, Chain, Shape
<1>2. pending' = 0 /\ heard' = heard /\ Returns(o)
  BY DEF Flush
<1>3. Good(o, log \o o.out, heard) /\ o.silence <= o.now /\ o.now = vad.now
  <2>1. CASE vad.in_speech
    <3>1. /\ o.out = Append(vad.out, e) /\ o.now = vad.now /\ o.silence = 0
      BY <1>1, <2>1, SegmentFinishes
    <3>2. Good(o, Append(log, e), heard)
      BY <1>1, <2>1, EndKeeps
    <3>3. log \o Append(vad.out, e) = Append(log \o vad.out, e) /\ log \o vad.out = log
      <4>1. e \in Events
        BY <1>1, EventTypes
      <4> HIDE DEF e
      <4> QED BY <1>1, <4>1, OneMoreEvent
    <3>4. vad.now \in Nat
      BY <1>1 DEF Vads
    <3>5. log \o o.out = Append(log, e)
      <4> HIDE DEF o, e
      <4> QED BY <3>1, <3>3
    <3> HIDE DEF o, e
    <3> QED BY <3>1, <3>2, <3>4, <3>5, <1>1
  <2>2. CASE ~vad.in_speech
    <3>1. o = vad
      BY <2>2 DEF FinishSegment
    <3>2. log \o vad.out = log
      BY <1>1
    <3> QED BY <1>1, <3>1, <3>2
  <2> QED BY <2>1, <2>2
<1> HIDE DEF o
<1>4. /\ vad'.out = <<>> /\ vad'.silence <= vad'.now /\ vad'.now = o.now
      /\ Good(vad', log', heard)
  BY <1>1, <1>2, <1>3, CallReturns
<1>5. pending' \in 0..(WindowSamples - 1)
  BY <1>2, ConfigAssumption
<1>6. vad'.now \in {WindowMs * n : n \in 0..MaxWindows}
  BY <1>3, <1>4 DEF IInv
<1>7. Adds
  BY <1>2, <1>3 DEF Returns, Good, Shape, Vads, Adds
<1> QED BY <1>2, <1>4, <1>5, <1>6, <1>7 DEF IInv

\* set_min_silence_ms.
LEMMA UpdateKeeps ==
  ASSUME IInv, NEW ms \in SilenceUpdates, SetMinSilence(ms)
  PROVE  IInv' /\ Adds
<1> DEFINE w == [vad EXCEPT !.min_silence = ms]
<1>1. vad \in Vads /\ Good(vad, log, heard) /\ ms \in Nat
  BY ConfigAssumption DEF IInv, Good, Shape
<1>2. vad' = w /\ UNCHANGED <<pending, heard, log>>
  BY DEF SetMinSilence
<1>3. w \in Vads
  BY <1>1 DEF Vads
<1>4. /\ w.out = vad.out /\ w.now = vad.now /\ w.min_silence = ms
      /\ w.in_speech = vad.in_speech /\ w.start = vad.start /\ w.last_end = vad.last_end
      /\ w.silence = vad.silence /\ w.partial_done = vad.partial_done /\ w.speech = vad.speech
  BY <1>1 DEF Vads
<1> HIDE DEF w
<1>5. w.now >= vad.now
  BY <1>1, <1>4 DEF Vads
<1>6. Good(w, log, heard)
  BY <1>1, <1>3, <1>4, <1>5, NothingNew
<1>7. Adds
  BY <1>1, <1>2, NothingAdded DEF Good, Chain
<1> QED BY <1>2, <1>4, <1>6, <1>7 DEF IInv

\* Every step.
LEMMA NextIInv == IInv /\ [Next]_vars => IInv' /\ Adds
<1> SUFFICES ASSUME IInv, [Next]_vars PROVE IInv' /\ Adds
  OBVIOUS
<1>1. CASE Next
  BY <1>1, PushKeeps, FlushKeeps, UpdateKeeps DEF Next
<1>2. CASE UNCHANGED vars
  BY <1>2, NothingAdded DEF vars, IInv, Good, Chain
<1> QED BY <1>1, <1>2

\* The invariant holds in every behaviour.
LEMMA AlwaysIInv == Spec => []IInv
BY InitIInv, NextIInv, PTL DEF Spec

-----------------------------------------------------------------------------
(* The properties. *)

\* The segmenter between two calls: fewer pending samples than a window, a
\* clock of whole windows that no time in the state has passed, and no event
\* left behind by the call that collected it (struct VadSegmenter, vad.rs:56).
THEOREM TypesHold == Spec => []TypeOK
<1>1. ASSUME IInv PROVE TypeOK
  <2>1. /\ vad \in Vads /\ vad.min_silence \in {MinSilence} \union SilenceUpdates
        /\ vad.start <= vad.now /\ vad.last_end <= vad.now
    BY <1>1 DEF IInv, Good, Shape
  <2>2. /\ vad.start \in Nat /\ vad.last_end \in Nat /\ vad.silence \in Nat /\ vad.now \in Nat
        /\ vad.in_speech \in BOOLEAN /\ vad.partial_done \in BOOLEAN /\ vad.speech \in Seq(Nat)
    BY <2>1 DEF Vads
  <2>3. /\ pending \in 0..(WindowSamples - 1)
        /\ vad.out = <<>> /\ vad.silence <= vad.now
        /\ vad.now \in {WindowMs * n : n \in 0..MaxWindows}
    BY <1>1 DEF IInv
  <2>4. vad.start \in 0..vad.now /\ vad.last_end \in 0..vad.now /\ vad.silence \in 0..vad.now
    BY <2>1, <2>2, <2>3
  <2> QED BY <2>1, <2>2, <2>3, <2>4 DEF TypeOK
<1> QED BY <1>1, AlwaysIInv, PTL

\* Start, partials and end frame every phrase, the phrases follow one another
\* in time, and the segmenter and the log agree on whether one is open
\* (start_segment and finish_segment, vad.rs:198-222; docs/streaming-api.md:153).
THEOREM PhrasesAreFramed == Spec => []Framing
<1>1. ASSUME IInv PROVE Framing
  <2>1. Chain(log) /\ Fits(vad, log) /\ log \in Seq(Events)
    BY <1>1 DEF IInv, Good, Chain
  <2>2. ASSUME NEW i \in DOMAIN log
        PROVE  IF log[i].kind = "start"
                 THEN i > 1 => log[i - 1].kind = "end" /\ log[i - 1].at <= log[i].at
                 ELSE /\ i > 1 /\ log[i - 1].kind # "end" /\ log[i - 1].start = log[i].start
                      /\ log[i].start < log[i].at
    <3>1. i \in 1..Len(log) /\ log # <<>>
      BY <2>1, <2>2
    <3>2. CASE i = 1
      BY <2>1, <3>1, <3>2 DEF Chain
    <3>3. CASE i > 1
      BY <2>1, <3>3 DEF Chain, Follows
    <3> QED BY <3>1, <3>2, <3>3
  <2>3. log # <<>> => Last(log) = log[Len(log)]
    BY DEF Last
  <2>4. vad.in_speech <=> (log # <<>> /\ Last(log).kind # "end")
    BY <2>1, <2>3 DEF Fits, Tip
  <2>5. vad.in_speech => Last(log).start = vad.start
    BY <2>1, <2>3 DEF Fits, Tip
  <2> QED BY <2>2, <2>4, <2>5 DEF Framing
<1> QED BY <1>1, AlwaysIInv, PTL

\* What StreamingSession takes the segmenter to return (its operators Framed and
\* ProcessAudio): if a phrase was open before the call the first event belongs to
\* it, else it is a start, and the last event tells whether one is open after it.
BatchFramed(open, batch) ==
  \A i \in DOMAIN batch :
    batch[i].kind = "start" <=> ~(IF i = 1 THEN open ELSE batch[i - 1].kind # "end")

FramedCall ==
  \E batch \in Seq(Events) :
    /\ log' = log \o batch
    /\ BatchFramed(vad.in_speech, batch)
    /\ vad'.in_speech <=> IF batch = <<>> THEN vad.in_speech
                          ELSE batch[Len(batch)].kind # "end"

\* The events that one call of push or flush returns are framed by themselves, so
\* that run_session may handle them one by one (handle_vad_events, streaming.rs:447).
THEOREM EveryCallIsFramed == Spec => [][FramedCall]_vars
<1>1. ASSUME IInv, IInv', Adds
      PROVE  FramedCall
  <2>1. PICK b \in Seq(Events) : log' = log \o b
    BY <1>1 DEF Adds
  <2>2. /\ log \in Seq(Events) /\ Fits(vad, log) /\ Chain(log') /\ Fits(vad', log')
    BY <1>1 DEF IInv, Good, Chain
  <2> DEFINE m == Len(log)
             more == log'
  <2>3. /\ m \in Nat /\ Len(b) \in Nat /\ Len(more) = m + Len(b)
        /\ DOMAIN b = 1..Len(b) /\ DOMAIN more = 1..(m + Len(b))
        /\ \A i \in 1..Len(b) : more[m + i] = b[i]
        /\ m > 0 => more[m] = log[m]
        /\ b = <<>> => more = log
        /\ b # <<>> => Len(b) > 0 /\ more # <<>>
        /\ log = <<>> <=> m = 0
    BY <2>1, <2>2
  <2>4. BatchFramed(vad.in_speech, b)
    <3> SUFFICES ASSUME NEW i \in 1..Len(b)
                 PROVE  b[i].kind = "start" <=> ~(IF i = 1 THEN vad.in_speech
                                                           ELSE b[i - 1].kind # "end")
      BY <2>3 DEF BatchFramed
    <3>1. m + i \in DOMAIN more /\ more[m + i] = b[i]
      BY <2>3
    <3>2. CASE m + i = 1
      <4>1. i = 1 /\ m = 0
        BY <2>3, <3>2
      <4>2. b[i].kind = "start" /\ ~vad.in_speech
        BY <2>2, <2>3, <3>1, <3>2, <4>1 DEF Chain, Fits
      <4> QED BY <4>1, <4>2
    <3>3. CASE m + i > 1
      <4>1. Follows(more[m + i - 1], more[m + i])
        BY <2>2, <3>1, <3>3 DEF Chain
      <4>2. b[i].kind = "start" <=> more[m + i - 1].kind = "end"
        BY <3>1, <4>1 DEF Follows
      <4>3. CASE i = 1
        <5>1. more[m + i - 1] = log[m] /\ log # <<>>
          BY <2>3, <3>3, <4>3
        <5>2. vad.in_speech <=> log[m].kind # "end"
          BY <2>2, <5>1 DEF Fits, Tip
        <5> QED BY <4>2, <4>3, <5>1, <5>2
      <4>4. CASE i # 1
        <5>1. i - 1 \in 1..Len(b) /\ m + (i - 1) = m + i - 1
          BY <2>3, <4>4
        <5>2. more[m + i - 1] = b[i - 1]
          BY <2>3, <5>1
        <5> QED BY <4>2, <4>4, <5>2
      <4> QED BY <4>3, <4>4
    <3> QED BY <2>3, <3>2, <3>3
  <2>5. vad'.in_speech <=> IF b = <<>> THEN vad.in_speech ELSE b[Len(b)].kind # "end"
    <3>1. CASE b = <<>>
      BY <2>2, <2>3, <3>1 DEF Fits, Tip
    <3>2. CASE b # <<>>
      <4>1. more[Len(more)] = b[Len(b)] /\ more # <<>>
        BY <2>3, <3>2
      <4> QED BY <2>2, <3>2, <4>1 DEF Fits, Tip
    <3> QED BY <3>1, <3>2
  <2> QED BY <2>1, <2>4, <2>5 DEF FramedCall
<1>2. IInv /\ [Next]_vars => IInv' /\ Adds
  BY NextIInv
<1> QED BY <1>1, <1>2, AlwaysIInv, PTL DEF Spec

\* No window of speech is lost, repeated or moved to another phrase, whatever
\* the sizes of the pushes, the forced cuts, the commits and the updates of
\* min_silence_ms (process_window, vad.rs:147).
THEOREM NoSpeechIsLost == Spec => []SpeechPreserved
<1>1. ASSUME IInv PROVE SpeechPreserved
  BY <1>1 DEF IInv, Good, Holds, Phrases, SpeechPreserved
<1> QED BY <1>1, AlwaysIInv, PTL

\* No phrase is as long as max_segment_ms and one window more
\* (should_force_cut_before_next_speech_window, vad.rs:189).
THEOREM PhrasesAreBounded == Spec => []SegmentBounded
<1>1. ASSUME IInv PROVE SegmentBounded
  BY <1>1 DEF IInv, Good, Chain, Bounded, SegmentBounded
<1> QED BY <1>1, AlwaysIInv, PTL

\* A partial is a beginning of the next event of its phrase, or of the speech
\* that the open phrase holds (process_window, vad.rs:166).
THEOREM PartialsOnlyGrow == Spec => []PartialsGrow
<1>1. ASSUME IInv PROVE PartialsGrow
  <2>1. Chain(log) /\ Fits(vad, log) /\ log \in Seq(Events)
    BY <1>1 DEF IInv, Good, Chain
  <2>2. ASSUME NEW i \in DOMAIN log, log[i].kind = "partial"
        PROVE  IsPrefix(log[i].samples,
                        IF i = Len(log) THEN vad.speech ELSE log[i + 1].samples)
    <3>1. i \in 1..Len(log) /\ log # <<>>
      BY <2>1, <2>2
    <3>2. CASE i = Len(log)
      BY <2>1, <2>2, <3>1, <3>2 DEF Fits, Tip
    <3>3. CASE i # Len(log)
      <4>1. i + 1 \in DOMAIN log /\ i + 1 > 1 /\ (i + 1) - 1 = i
        BY <2>1, <3>1, <3>3
      <4>2. Follows(log[i], log[i + 1])
        BY <2>1, <4>1 DEF Chain
      <4> QED BY <2>2, <3>3, <4>2 DEF Follows
    <3> QED BY <3>2, <3>3
  <2> QED BY <2>2 DEF PartialsGrow
<1> QED BY <1>1, AlwaysIInv, PTL

\* A pause yields one partial: the next of the same phrase holds more speech
\* (partial_emitted_for_pause, vad.rs:167).
THEOREM PausesAreReportedOnce == Spec => []OnePartialPerPause
<1>1. ASSUME IInv PROVE OnePartialPerPause
  <2>1. Chain(log) /\ log \in Seq(Events)
    BY <1>1 DEF IInv, Good, Chain
  <2>2. ASSUME NEW i \in 1..(Len(log) - 1),
               log[i].kind = "partial", log[i + 1].kind = "partial"
        PROVE  Len(log[i].samples) < Len(log[i + 1].samples)
    <3>1. i + 1 \in DOMAIN log /\ i + 1 > 1 /\ (i + 1) - 1 = i
      BY <2>1, <2>2
    <3>2. Follows(log[i], log[i + 1])
      BY <2>1, <3>1 DEF Chain
    <3> QED BY <2>2, <3>2 DEF Follows
  <2> QED BY <2>2 DEF OnePartialPerPause
<1> QED BY <1>1, AlwaysIInv, PTL

=============================================================================
