--------------------------------- MODULE Vad ---------------------------------
(***************************************************************************)
(* Voice activity detection in whisper.cpp: whisper_full with params.vad   *)
(* finds the speech in the audio from a probability per window, transcribes*)
(* the speech alone, and keeps a table that maps the times of that audio   *)
(* back to the original's, for whisper_full_get_segment_t0 and _t1.        *)
(*                                                                         *)
(* A probability is "speech" (at least threshold), "silence" (less than    *)
(* threshold - 0.15) or "between".  Sample counts are scaled, so that few  *)
(* windows make a segment; times are centiseconds of Cs samples.           *)
(***************************************************************************)
EXTENDS Integers, Sequences, FiniteSetsExt

CONSTANTS
  NSamples,     \* the lengths of audio a call may be given
  MaxDurations, \* max_speech_duration_s, in samples
  NWindow,      \* n_window, 512
  Cs,           \* samples in a centisecond, 160
  MinSpeech,    \* min_speech_samples, 4000
  MinSilence,   \* min_silence_samples, 1600
  SilenceAtMax, \* min_silence_samples_at_max_speech, 1568
  MergeGap,     \* max_merge_gap_samples, 3200
  Pad,          \* speech_pad_samples, 480
  Overlap,      \* overlap_samples, 1600
  Silence,      \* silence_samples, 1600
  LongSegment,  \* min_segment_length, 100
  Interval,     \* point_interval, 20
  MinDuration,  \* min_duration, 10
  MaxCalls      \* bound: calls of whisper_full

ASSUME VadAssumption ==
  /\ NSamples \subseteq Nat \ {0} /\ MaxDurations \subseteq Nat
  /\ {NWindow, Cs, Interval} \subseteq Nat \ {0}
  /\ {MinSpeech, MinSilence, SilenceAtMax, MergeGap, Pad, Overlap, Silence, LongSegment,
      MinDuration, MaxCalls} \subseteq Nat

VARIABLES
  phase,        \* "idle", or "detect" while a call looks for speech
  calls,
  n_samples,    \* of the call
  max_duration, \* max_speech_duration_s of the call
  window,       \* the next window
  det,          \* the variables of whisper_vad_segments_from_probs
  segments,     \* vad_segments, in samples before they are rounded
  has_vad_segments, vad_mapping_table,
  duration,     \* centiseconds of the audio that was transcribed
  used_vad      \* history: the last call was one with params.vad

detection == <<n_samples, max_duration, window, det>>
mapping == <<segments, has_vad_segments, vad_mapping_table>>
vars == <<phase, calls, detection, mapping, duration, used_vad>>

Probs == {"speech", "between", "silence"}

NoSpeech == [is_speech |-> FALSE, has_curr |-> FALSE, start |-> 0,
             temp_end |-> 0, prev_end |-> 0, next_start |-> 0, speeches |-> <<>>]

Init ==
  /\ phase = "idle" /\ calls = 0
  /\ n_samples = 0 /\ max_duration = 0 /\ window = 0 /\ det = NoSpeech
  /\ segments = <<>> /\ has_vad_segments = FALSE /\ vad_mapping_table = {}
  /\ duration = 0 /\ used_vad = FALSE

cs_to_samples(cs) == cs * Cs
samples_to_cs(n) == (2 * n + Cs) \div (2 * Cs)

AtMost(a, b) == IF a < b THEN a ELSE b
AtLeast(a, b) == IF a > b THEN a ELSE b

\* The last window is filled up with silence.
NProbs == (n_samples + NWindow - 1) \div NWindow
AudioLength == NProbs * NWindow

-----------------------------------------------------------------------------
(* The loop over the probabilities.  d is det, cur the window's sample.    *)

Push(d, end) == [d EXCEPT !.speeches = Append(@, [start |-> d.start, end |-> end])]
Reset(d) == [d EXCEPT !.temp_end = 0, !.prev_end = 0, !.next_start = 0]
Quiet(d) == [Reset(d) EXCEPT !.is_speech = FALSE, !.has_curr = FALSE]

\* Silence that did not last.
Resumed(d, cur) ==
  [d EXCEPT !.temp_end = 0, !.next_start = IF @ < d.prev_end THEN cur ELSE @]

\* A segment that has grown too long ends at the last silence in it, if any.
Split(d, cur) ==
  IF d.prev_end = 0 THEN Quiet(Push(d, cur))
  ELSE IF d.next_start < d.prev_end THEN Quiet(Push(d, d.prev_end))
  ELSE Reset([Push(d, d.prev_end) EXCEPT !.start = d.next_start])

\* A window of silence; enough of it ends the segment, which may be too short.
Silent(d, cur) ==
  LET end == IF d.temp_end = 0 THEN cur ELSE d.temp_end
      s   == [d EXCEPT !.temp_end = end,
                       !.prev_end = IF cur - end > SilenceAtMax THEN end ELSE @]
  IN  IF cur - end < MinSilence THEN s
      ELSE IF end - d.start > MinSpeech THEN Quiet(Push(s, end)) ELSE Quiet(s)

\* INT_MAX / 2 when the duration leaves nothing: no limit.
TooLong(d, cur) ==
  LET max == max_duration - NWindow - 2 * Pad
  IN  max >= 0 /\ d.is_speech /\ cur - d.start > max

Heard(d, prob, cur) ==
  LET r == IF prob = "speech" /\ d.temp_end # 0 THEN Resumed(d, cur) ELSE d
  IN  IF prob = "speech" /\ ~r.is_speech
      THEN [r EXCEPT !.is_speech = TRUE, !.has_curr = TRUE, !.start = cur]
      ELSE LET s == IF TooLong(r, cur) THEN Split(r, cur) ELSE r
           IN  IF prob = "silence" /\ s.is_speech THEN Silent(s, cur) ELSE s

-----------------------------------------------------------------------------
(* From the speeches to the segments.                                      *)

\* Speech that lasts to the end.
AtEnd(d) ==
  IF d.has_curr /\ AudioLength - d.start > MinSpeech THEN Push(d, AudioLength).speeches
  ELSE d.speeches

\* The next speech, merged with the last one if the gap between them is small.
Joined(m, s) ==
  IF m # <<>> /\ s.start - m[Len(m)].end < MergeGap
  THEN [m EXCEPT ![Len(m)].end = s.end]
  ELSE Append(m, s)

Merged(speeches) ==
  LET merged[k \in 0..Len(speeches)] ==
        IF k = 0 THEN <<>> ELSE Joined(merged[k - 1], speeches[k])
  IN  merged[Len(speeches)]

\* The next speech, unless it is too short.
IfLong(m, s) == IF s.end - s.start < MinSpeech THEN m ELSE Append(m, s)

LongEnough(speeches) ==
  LET kept[k \in 0..Len(speeches)] ==
        IF k = 0 THEN <<>> ELSE IfLong(kept[k - 1], speeches[k])
  IN  kept[Len(speeches)]

\* Mutant of Padded: close neighbours are both padded in full.
PaddedInFull(s) ==
  [k \in DOMAIN s |-> [start |-> AtLeast(0, s[k].start - Pad),
                       end   |-> AtMost(s[k].end + Pad, AudioLength)]]

\* Padding on both sides; neighbours closer than that share what is between them.
Padded(s) ==
  LET gap(k)   == s[k + 1].start - s[k].end
      close(k) == gap(k) < 2 * Pad
  IN  [k \in DOMAIN s |->
        [start |-> AtLeast(0, s[k].start - (IF k > 1 /\ close(k - 1)
                                           THEN gap(k - 1) \div 2 ELSE Pad)),
         end   |-> IF k < Len(s) /\ close(k) THEN s[k].end + gap(k) \div 2
                   ELSE AtMost(s[k].end + Pad, AudioLength)]]

whisper_vad_segments_from_probs(d) == Padded(LongEnough(Merged(AtEnd(d))))

-----------------------------------------------------------------------------
(* The audio without what is not speech, and the table that maps it back.  *)

\* The times of the segments, in centiseconds.
Times(found) == [k \in DOMAIN found |-> [start |-> samples_to_cs(found[k].start),
                                         end   |-> samples_to_cs(found[k].end)]]

\* Every segment but the last is followed by this much of what comes after it.
OverlapEnd(segs, k) ==
  cs_to_samples(segs[k].end) + (IF k < Len(segs) THEN Overlap ELSE 0)

\* The first pass over the segments.
SizedLength(segs, k) ==
  AtMost(OverlapEnd(segs, k), n_samples - 1) - cs_to_samples(segs[k].start)

\* Mutant of SamplesNeeded: the silences between the segments are left out.
SamplesOfSpeech(segs) == MapThenSumSet(LAMBDA k : SizedLength(segs, k), DOMAIN segs)

\* The size of filtered_samples, whose audio is transcribed: a silence for every
\* segment but the last.
SamplesNeeded(segs) ==
  MapThenSumSet(LAMBDA k : SizedLength(segs, k), DOMAIN segs) + (Len(segs) - 1) * Silence

\* The second pass: the samples of segment k that are copied, if there are any.
StartOf(segs, k) == AtMost(cs_to_samples(segs[k].start), n_samples - 1)
EndOf(segs, k) == AtMost(OverlapEnd(segs, k), n_samples)
LengthOf(segs, k) == EndOf(segs, k) - StartOf(segs, k)
Copied(segs) == {k \in DOMAIN segs : LengthOf(segs, k) > 0}

\* Where segment k begins in the new audio: after the others, each with a silence.
\* A silence follows every segment but the last.
OffsetOf(segs, k) ==
  MapThenSumSet(LAMBDA l : LengthOf(segs, l) + (IF l < Len(segs) THEN Silence ELSE 0),
                {l \in Copied(segs) : l < k})

Point(processed, original) == [processed |-> processed, original |-> original]

\* Mutant of PointsOf: the silence after a segment is left out.
PointsOfSpeech(segs, k) ==
  LET off == OffsetOf(segs, k)
      vs  == samples_to_cs(off)
      ve  == samples_to_cs(off + LengthOf(segs, k))
  IN  {Point(vs, segs[k].start), Point(ve, segs[k].end)}
      \cup (IF k < Len(segs)
            THEN {Point(samples_to_cs(off + LengthOf(segs, k) + Silence), segs[k].end)} ELSE {})

\* Both ends of a segment, points within a long one, and the end of its silence.
PointsOf(segs, k) ==
  LET off  == OffsetOf(segs, k)
      vs   == samples_to_cs(off)
      ve   == samples_to_cs(off + LengthOf(segs, k))
      orig == segs[k].end - segs[k].start
      within == {j \in 1..((ve - vs) \div Interval - 1) :
                   ve - vs > LongSegment /\ vs + j * Interval < ve}
  IN  {Point(vs, segs[k].start), Point(ve, segs[k].end)}
      \cup {Point(vs + j * Interval, segs[k].start + (j * Interval * orig) \div (ve - vs))
            : j \in within}
      \cup (IF k < Len(segs)
            THEN {Point(samples_to_cs(off + LengthOf(segs, k) + Silence), segs[k + 1].start)}
            ELSE {})

\* What is said of one processed time is said once: two points of one time agree,
\* unless a segment is shorter than a centisecond.
MappingTable(segs) == UNION {PointsOf(segs, k) : k \in Copied(segs)}

\* The original time: of a point, or between the points on either side.
map_processed_to_original_time(t, table) ==
  LET lower == {p \in table : p.processed <= t}
      upper == {p \in table : p.processed >= t}
      first == CHOOSE p \in table : \A q \in table : p.processed <= q.processed
      last  == CHOOSE p \in table : \A q \in table : p.processed >= q.processed
      lo    == CHOOSE p \in lower : \A q \in lower : p.processed >= q.processed
      hi    == CHOOSE p \in upper : \A q \in upper : p.processed <= q.processed
  IN  IF table = {} THEN t
      ELSE IF lower = {} THEN first.original
      ELSE IF upper = {} THEN last.original
      ELSE IF lo.processed = hi.processed THEN lo.original
      ELSE lo.original + ((t - lo.processed) * (hi.original - lo.original))
                         \div (hi.processed - lo.processed)

\* whisper_full_get_segment_t0, of a segment that starts at t.
get_segment_t0(t) ==
  IF ~has_vad_segments \/ vad_mapping_table = {} THEN t
  ELSE map_processed_to_original_time(t, vad_mapping_table)

\* whisper_full_get_segment_t1, of a segment from t0 to t1: not of no length.
get_segment_t1(t0, t1) ==
  IF ~has_vad_segments \/ vad_mapping_table = {} THEN t1
  ELSE AtLeast(map_processed_to_original_time(t1, vad_mapping_table),
               get_segment_t0(t0) + MinDuration)

-----------------------------------------------------------------------------
(* whisper_full.                                                           *)

\* A call without params.vad leaves the table as it is.
FullWithoutVad(n) ==
  /\ phase = "idle" /\ calls < MaxCalls
  /\ calls' = calls + 1 /\ used_vad' = FALSE
  /\ duration' = samples_to_cs(n)
  /\ UNCHANGED <<phase, detection, mapping>>

FullWithVad(n, max) ==
  /\ phase = "idle" /\ calls < MaxCalls
  /\ calls' = calls + 1 /\ used_vad' = TRUE
  /\ phase' = "detect" /\ window' = 0 /\ det' = NoSpeech
  /\ n_samples' = n /\ max_duration' = max
  /\ vad_mapping_table' = {} /\ has_vad_segments' = FALSE
  /\ UNCHANGED <<segments, duration>>

Hear(prob) ==
  /\ phase = "detect" /\ window < NProbs
  /\ det' = Heard(det, prob, window * NWindow)
  /\ window' = window + 1
  /\ UNCHANGED <<phase, calls, n_samples, max_duration, mapping, duration, used_vad>>

\* Without speech there is no result.  det is not read again.
Detected ==
  LET found == whisper_vad_segments_from_probs(det)
      segs  == Times(found)
  IN
  /\ phase = "detect" /\ window = NProbs
  /\ phase' = "idle"
  /\ segments' = found
  /\ has_vad_segments' = (segs # <<>>)
  /\ vad_mapping_table' = MappingTable(segs)
  /\ duration' = IF segs = <<>> THEN 0 ELSE samples_to_cs(SamplesNeeded(segs))
  /\ det' = NoSpeech
  /\ UNCHANGED <<calls, n_samples, max_duration, window, used_vad>>

\* The detector cannot be loaded, or computes nothing; the call fails.
DetectionFails ==
  /\ phase = "detect" /\ window = 0
  /\ phase' = "idle"
  /\ UNCHANGED <<calls, detection, mapping, duration, used_vad>>

NoMoreCalls == phase = "idle" /\ calls = MaxCalls /\ UNCHANGED vars

Next ==
  \/ \E n \in NSamples : FullWithoutVad(n) \/ \E max \in MaxDurations : FullWithVad(n, max)
  \/ \E prob \in Probs : Hear(prob)
  \/ Detected \/ DetectionFails
  \/ NoMoreCalls

Spec == Init /\ [][Next]_vars

-----------------------------------------------------------------------------
Answered == phase = "idle" /\ used_vad /\ has_vad_segments

\* The segments are in order, do not overlap, lie within the windows of the audio, the
\* last of which is filled up with silence, and none is shorter than
\* min_speech_duration_ms.
SegmentsApart ==
  Answered =>
    \A k \in DOMAIN segments :
      /\ 0 <= segments[k].start /\ segments[k].end <= AudioLength
      /\ segments[k].end - segments[k].start >= MinSpeech
      /\ k > 1 => segments[k - 1].end <= segments[k].start

\* Times are mapped back in their order; what took some time does so there, and ends
\* no later than the last segment, unless it is stretched to the minimum duration.
MapsInOrder ==
  \A t \in 1..duration :
    LET t0 == get_segment_t0(t - 1)
        t1 == get_segment_t1(t - 1, t)
    IN  /\ t0 <= get_segment_t0(t) /\ t0 < t1
        /\ t1 <= AtLeast(Times(segments)[Len(segments)].end, t0 + MinDuration)

\* What begins in a segment is not said to be in another, or after the end.
MapsIntoSegments ==
  LET segs == Times(segments)
  IN  \A k \in Copied(segs) :
        LET off == OffsetOf(segs, k)
        IN  \A t \in samples_to_cs(off)..samples_to_cs(off + LengthOf(segs, k)) :
              get_segment_t0(t) \in segs[k].start..segs[k].end

\* What is copied fills the audio made for it, and exceeds it by one sample for each
\* segment that reaches the end: the first pass takes n_samples - 1 for the end of the
\* audio, the second n_samples.
CopiesFillAudio ==
  LET segs    == Times(segments)
      clamped == {k \in DOMAIN segs : OverlapEnd(segs, k) >= n_samples}
  IN  OffsetOf(segs, Len(segs) + 1) = SamplesNeeded(segs) + Cardinality(clamped)

\* The times of the audio that is transcribed are those of the original audio: it is
\* made of the copied segments, which the table maps back into place.
TimesMapBack == Answered => MapsInOrder /\ MapsIntoSegments /\ CopiesFillAudio
=============================================================================
