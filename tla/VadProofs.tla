------------------------------ MODULE VadProofs ------------------------------
(***************************************************************************)
(* What voice activity detection finds is in order, for any audio, any     *)
(* probabilities and any parameters (SegmentsApart).  The loop over the    *)
(* probabilities keeps, with what was said, where the present speech may   *)
(* still end (Detecting); the two loops over what was said (Rounds) keep   *)
(* its order, and so does the padding.                                     *)
(***************************************************************************)
EXTENDS Vad, FiniteSetTheorems, WellFoundedInduction, TLAPS

Speech == [start : Nat, end : Nat]

Detector == [is_speech : BOOLEAN, has_curr : BOOLEAN, start : Nat, temp_end : Nat,
             prev_end : Nat, next_start : Nat, speeches : Seq(Speech)]

\* Speeches in order, none longer than to n.
Said(s, n) ==
  /\ s \in Seq(Speech)
  /\ \A k \in DOMAIN s : /\ s[k].start <= s[k].end /\ s[k].end <= n
                         /\ k > 1 => s[k - 1].end <= s[k].start

\* The variables of the detector before the window that begins at cur: the present speech
\* begins after all that was said, and where it may end lies between there and cur.
Detecting(d, cur) ==
  /\ d \in Detector
  /\ d.has_curr = d.is_speech
  /\ d.is_speech =>
       /\ Said(d.speeches, d.start) /\ d.start <= cur
       /\ d.temp_end # 0 => d.start <= d.temp_end
       /\ d.prev_end # 0 => d.start <= d.prev_end
       /\ d.temp_end <= cur /\ d.prev_end <= cur /\ d.next_start <= cur
  /\ ~d.is_speech =>
       Said(d.speeches, cur) /\ d.temp_end = 0 /\ d.prev_end = 0 /\ d.next_start = 0

-----------------------------------------------------------------------------
(* The loop over the probabilities.                                        *)

\* Speeches start and end at numbers.
LEMMA SaidNumbers ==
  ASSUME NEW s \in Seq(Speech)
  PROVE  \A k \in 1..Len(s) : s[k] \in Speech /\ s[k].start \in Nat /\ s[k].end \in Nat
<1>1. \A k \in 1..Len(s) : s[k] \in Speech
  OBVIOUS
<1> QED BY <1>1 DEF Speech

\* What is said by n is said by any later time.
LEMMA SaidLater ==
  ASSUME NEW s, NEW n \in Nat, Said(s, n), NEW m \in Nat, n <= m
  PROVE  Said(s, m)
<1>1. \A k \in DOMAIN s : s[k].end \in Nat
  BY SaidNumbers DEF Said
<1> QED BY <1>1 DEF Said

\* A speech may be added that starts when the others have ended.
LEMMA SaidAppended ==
  ASSUME NEW s, NEW n \in Nat, Said(s, n), NEW x \in Speech, n <= x.start, x.start <= x.end
  PROVE  Said(Append(s, x), x.end)
<1> DEFINE all == Append(s, x)
           len == Len(s)
<1>1. /\ len \in Nat /\ DOMAIN s = 1..len /\ all \in Seq(Speech)
      /\ DOMAIN all = 1..(len + 1) /\ all[len + 1] = x /\ \A k \in 1..len : all[k] = s[k]
  BY DEF Said
<1>2. \A k \in 1..len : s[k].start \in Nat /\ s[k].end \in Nat
  BY SaidNumbers DEF Said
<1>3. x.start \in Nat /\ x.end \in Nat
  BY DEF Speech
<1> HIDE DEF all, len
<1>4. ASSUME NEW k \in 1..(len + 1)
      PROVE  /\ all[k].start <= all[k].end /\ all[k].end <= x.end
             /\ k > 1 => all[k - 1].end <= all[k].start
  <2>1. CASE k = len + 1
    <3>1. k > 1 => k - 1 \in 1..len /\ all[k - 1] = s[k - 1]
      BY <1>1, <2>1
    <3> QED BY <1>1, <1>2, <1>3, <2>1, <3>1 DEF Said
  <2>2. CASE k # len + 1
    <3>1. k \in 1..len /\ (k > 1 => k - 1 \in 1..len)
      BY <1>1, <2>2
    <3> QED BY <1>1, <1>2, <1>3, <3>1 DEF Said
  <2> QED BY <2>1, <2>2
<1>5. Said(all, x.end)
  BY <1>1, <1>4 DEF Said
<1> QED BY <1>5 DEF all

\* A speech that is pushed ends where the present one may end.
LEMMA PushOK ==
  ASSUME NEW d, NEW cur \in Nat, Detecting(d, cur), d.is_speech, NEW end \in Nat, d.start <= end
  PROVE  /\ Said(Push(d, end).speeches, end)
         /\ Push(d, end) = [d EXCEPT !.speeches = Push(d, end).speeches]
<1> DEFINE x == [start |-> d.start, end |-> end]
<1>1. x \in Speech /\ x.start = d.start /\ x.end = end /\ d.start \in Nat
  BY DEF Detecting, Detector, Speech
<1>2. Push(d, end) = [d EXCEPT !.speeches = Append(d.speeches, x)]
  BY DEF Push, Detecting, Detector
<1> HIDE DEF x
<1>3. Said(Append(d.speeches, x), end)
  BY <1>1, SaidAppended DEF Detecting
<1>4. Push(d, end).speeches = Append(d.speeches, x)
  BY <1>2 DEF Detecting
<1> QED BY <1>2, <1>3, <1>4

\* No speech is present: nothing is left of where it might end.
LEMMA QuietOK ==
  ASSUME NEW d, NEW cur \in Nat, NEW said, Said(said, cur),
         d \in Detector
  PROVE  Detecting(Quiet([d EXCEPT !.speeches = said]), cur)
BY DEF Quiet, Reset, Detecting, Detector, Said

\* Speech that resumes may be split off from here.
LEMMA ResumedOK ==
  ASSUME NEW d, NEW cur \in Nat, Detecting(d, cur), d.is_speech
  PROVE  Detecting(Resumed(d, cur), cur) /\ Resumed(d, cur).is_speech
<1> DEFINE next == IF d.next_start < d.prev_end THEN cur ELSE d.next_start
<1>1. d \in Detector /\ next \in Nat /\ next <= cur
  BY DEF Detecting, Detector
<1>2. PICK e : e = Resumed(d, cur)
  OBVIOUS
<1>3. e = [d EXCEPT !.temp_end = 0, !.next_start = next]
  BY <1>1, <1>2 DEF Resumed, Detector
<1> HIDE DEF next
<1>4. e \in Detector
  BY <1>1, <1>3 DEF Detector
<1>5. /\ e.start = d.start /\ e.is_speech = d.is_speech /\ e.has_curr = d.has_curr
      /\ e.prev_end = d.prev_end /\ e.speeches = d.speeches
      /\ e.temp_end = 0 /\ e.next_start = next
  BY <1>1, <1>3 DEF Detector
<1>6. d.start <= cur /\ Said(d.speeches, d.start) /\ d.prev_end <= cur /\ d.has_curr
  BY DEF Detecting
<1> QED BY <1>1, <1>2, <1>4, <1>5, <1>6 DEF Detecting

\* A speech that is too long is split where it was silent, and goes on after that silence.
LEMMA SplitOK ==
  ASSUME NEW d, NEW cur \in Nat, Detecting(d, cur), d.is_speech
  PROVE  Detecting(Split(d, cur), cur)
<1>1. CASE d.prev_end = 0
  <2>1. d.start <= cur
    BY DEF Detecting
  <2>2. PICK said : said = Push(d, cur).speeches
    OBVIOUS
  <2>3. Said(said, cur) /\ Push(d, cur) = [d EXCEPT !.speeches = said]
    BY <2>1, <2>2, PushOK
  <2>4. Split(d, cur) = Quiet([d EXCEPT !.speeches = said])
    BY <1>1, <2>3 DEF Split
  <2> QED BY <2>3, <2>4, QuietOK DEF Detecting
<1>2. CASE d.prev_end # 0
  <2>1. d.prev_end \in Nat /\ d.start <= d.prev_end /\ d.prev_end <= cur
    BY <1>2 DEF Detecting, Detector
  <2>2. PICK said : said = Push(d, d.prev_end).speeches
    OBVIOUS
  <2>3. Said(said, d.prev_end) /\ Push(d, d.prev_end) = [d EXCEPT !.speeches = said]
    BY <2>1, <2>2, PushOK
  <2>4. CASE d.next_start < d.prev_end
    <3>1. Split(d, cur) = Quiet([d EXCEPT !.speeches = said])
      BY <1>2, <2>3, <2>4 DEF Split
    <3>2. Said(said, cur)
      BY <2>1, <2>3, SaidLater
    <3> QED BY <3>1, <3>2, QuietOK DEF Detecting
  <2>5. CASE ~(d.next_start < d.prev_end)
    <3>1. Split(d, cur) = Reset([[d EXCEPT !.speeches = said] EXCEPT !.start = d.next_start])
      BY <1>2, <2>3, <2>5 DEF Split
    <3>2. d.next_start \in Nat /\ d.prev_end <= d.next_start /\ d.next_start <= cur
      BY <2>1, <2>5 DEF Detecting, Detector
    <3>3. Said(said, d.next_start)
      BY <2>1, <2>3, <3>2, SaidLater
    <3>4. d \in Detector /\ said \in Seq(Speech) /\ d.is_speech /\ d.has_curr
      BY <3>3 DEF Detecting, Said
    <3>5. PICK e : e = Split(d, cur)
      OBVIOUS
    <3>6. e = [d EXCEPT !.speeches = said, !.start = d.next_start,
                        !.temp_end = 0, !.prev_end = 0, !.next_start = 0]
      BY <3>1, <3>4, <3>5 DEF Reset, Detector
    <3>7. e \in Detector
      BY <3>2, <3>4, <3>6 DEF Detector
    <3>8. /\ e.is_speech /\ e.has_curr /\ e.start = d.next_start
          /\ e.temp_end = 0 /\ e.prev_end = 0 /\ e.next_start = 0 /\ e.speeches = said
      BY <3>4, <3>6 DEF Detector
    <3>9. Detecting(e, cur)
      BY <3>2, <3>3, <3>7, <3>8 DEF Detecting
    <3> QED BY <3>5, <3>9
  <2> QED BY <2>4, <2>5
<1> QED BY <1>1, <1>2

\* Silence ends the present speech where it began, or the speech goes on.
LEMMA SilentOK ==
  ASSUME NEW d, NEW cur \in Nat, Detecting(d, cur), d.is_speech
  PROVE  Detecting(Silent(d, cur), cur)
<1> DEFINE end == IF d.temp_end = 0 THEN cur ELSE d.temp_end
           s   == [d EXCEPT !.temp_end = end,
                            !.prev_end = IF cur - end > SilenceAtMax THEN end ELSE @]
<1>1. end \in Nat /\ d.start <= end /\ end <= cur
  BY DEF Detecting, Detector
<1>2. Silent(d, cur) = IF cur - end < MinSilence THEN s
                       ELSE IF end - d.start > MinSpeech THEN Quiet(Push(s, end)) ELSE Quiet(s)
  BY DEF Silent
<1> HIDE DEF end
<1>3. Detecting(s, cur) /\ s.is_speech /\ s.start = d.start /\ s.speeches = d.speeches
  BY <1>1 DEF Detecting, Detector
<1>4. s \in Detector
  BY <1>3 DEF Detecting
<1> HIDE DEF s
<1>5. CASE cur - end < MinSilence
  BY <1>2, <1>3, <1>5
<1>6. CASE ~(cur - end < MinSilence) /\ end - d.start > MinSpeech
  <2>1. PICK said : said = Push(s, end).speeches
    OBVIOUS
  <2>2. Said(said, end) /\ Push(s, end) = [s EXCEPT !.speeches = said]
    BY <1>1, <1>3, <2>1, PushOK
  <2>3. Said(said, cur)
    BY <1>1, <2>2, SaidLater
  <2>4. Silent(d, cur) = Quiet([s EXCEPT !.speeches = said])
    BY <1>2, <1>6, <2>2
  <2> QED BY <1>4, <2>3, <2>4, QuietOK
<1>7. CASE ~(cur - end < MinSilence) /\ ~(end - d.start > MinSpeech)
  <2>1. Said(s.speeches, cur)
    <3>1. s.start \in Nat /\ s.start <= cur /\ Said(s.speeches, s.start)
      BY <1>3 DEF Detecting, Detector
    <3> QED BY <3>1, SaidLater
  <2>2. s = [s EXCEPT !.speeches = s.speeches]
    BY <1>4 DEF Detector
  <2>3. Silent(d, cur) = Quiet([s EXCEPT !.speeches = s.speeches])
    BY <1>2, <1>7, <2>2
  <2> QED BY <1>4, <2>1, <2>3, QuietOK
<1> QED BY <1>5, <1>6, <1>7

\* A window, whatever is heard in it.
LEMMA HeardOK ==
  ASSUME NEW d, NEW cur \in Nat, Detecting(d, cur), NEW prob \in Probs
  PROVE  Detecting(Heard(d, prob, cur), cur)
<1> DEFINE r == IF prob = "speech" /\ d.temp_end # 0 THEN Resumed(d, cur) ELSE d
           s == IF TooLong(r, cur) THEN Split(r, cur) ELSE r
<1>1. Detecting(r, cur)
  <2>1. CASE prob = "speech" /\ d.temp_end # 0
    <3>1. d.is_speech
      BY <2>1 DEF Detecting
    <3> QED BY <2>1, <3>1, ResumedOK
  <2>2. CASE ~(prob = "speech" /\ d.temp_end # 0)
    BY <2>2
  <2> QED BY <2>1, <2>2
<1>2. Heard(d, prob, cur) =
        IF prob = "speech" /\ ~r.is_speech
        THEN [r EXCEPT !.is_speech = TRUE, !.has_curr = TRUE, !.start = cur]
        ELSE IF prob = "silence" /\ s.is_speech THEN Silent(s, cur) ELSE s
  BY DEF Heard
<1> HIDE DEF r
<1>3. CASE prob = "speech" /\ ~r.is_speech
  <2>1. PICK e : e = Heard(d, prob, cur)
    OBVIOUS
  <2>2. r \in Detector /\ r.temp_end = 0 /\ r.prev_end = 0 /\ r.next_start = 0 /\ Said(r.speeches, cur)
    BY <1>1, <1>3 DEF Detecting
  <2>3. /\ e \in Detector /\ e.is_speech /\ e.has_curr /\ e.start = cur
        /\ e.temp_end = 0 /\ e.prev_end = 0 /\ e.next_start = 0 /\ e.speeches = r.speeches
    BY <1>2, <1>3, <2>1, <2>2 DEF Detector
  <2>4. Detecting(e, cur)
    BY <2>2, <2>3 DEF Detecting
  <2> QED BY <2>1, <2>4
<1>4. CASE ~(prob = "speech" /\ ~r.is_speech)
  <2>1. Detecting(s, cur)
    <3>1. TooLong(r, cur) => r.is_speech
      BY DEF TooLong
    <3> QED BY <1>1, <3>1, SplitOK
  <2> HIDE DEF s
  <2> QED BY <1>2, <1>4, <2>1, SilentOK
<1> QED BY <1>3, <1>4

\* Until the next window nothing changes.
LEMMA DetectingLater ==
  ASSUME NEW d, NEW cur \in Nat, Detecting(d, cur), NEW n \in Nat, cur <= n
  PROVE  Detecting(d, n)
<1>1. CASE d.is_speech
  BY <1>1 DEF Detecting, Detector
<1>2. CASE ~d.is_speech
  BY <1>2, SaidLater DEF Detecting
<1> QED BY <1>1, <1>2

-----------------------------------------------------------------------------
(* The loops over the speeches.                                            *)

\* A set of numbers has a least element.
LEMMA LeastElement ==
  ASSUME NEW S \in SUBSET Nat, S # {}
  PROVE  \E x \in S : \A y \in S : x <= y
<1> DEFINE R == StrictSubsetOrdering(Nat)
           Up == {0..n : n \in S}
<1>1. \A n \in Nat : 0..n \in FiniteSubsetsOf(Nat)
  BY FS_Interval DEF FiniteSubsetsOf
<1>2. IsWellFoundedOn(R, FiniteSubsetsOf(Nat))
  BY FS_StrictSubsetOrderingWellFounded
<1>3. Up \subseteq FiniteSubsetsOf(Nat) /\ Up # {}
  BY <1>1
<1> HIDE DEF R
<1>4. PICK u \in Up : \A v \in Up : ~(<<v, u>> \in R)
  BY <1>2, <1>3, WFMin
<1>5. PICK x \in S : u = 0..x
  OBVIOUS
<1>6. \A y \in S : x <= y
  <2> SUFFICES ASSUME NEW y \in S, y < x PROVE FALSE
    OBVIOUS
  <2>1. 0..y \in Up /\ 0..y \subseteq 0..x /\ x \in 0..x /\ x \notin 0..y
    OBVIOUS
  <2>2. 0..x \in SUBSET Nat /\ 0..y \in SUBSET Nat
    OBVIOUS
  <2>3. <<0..y, 0..x>> \in R
    BY <2>1, <2>2 DEF R, StrictSubsetOrdering
  <2> QED BY <1>4, <1>5, <2>1, <2>3
<1> QED BY <1>6

\* A round of one loop or the other.
After(loop, m, s) == IF loop = "merge" THEN Joined(m, s) ELSE IfLong(m, s)

\* The first n rounds, from no speech.
Rounds(f, loop, speeches, n) ==
  f = [k \in 0..n |-> IF k = 0 THEN <<>> ELSE After(loop, f[k - 1], speeches[k])]

\* Every loop has an outcome.
LEMMA RoundsEnd ==
  ASSUME NEW loop, NEW speeches, NEW n \in Nat
  PROVE  \E f : Rounds(f, loop, speeches, n)
<1> DEFINE Open == {m \in Nat : ~\E f : Rounds(f, loop, speeches, m)}
<1>1. SUFFICES ASSUME Open # {} PROVE FALSE
  OBVIOUS
<1>2. PICK m \in Open : \A l \in Open : m <= l
  <2>1. Open \in SUBSET Nat
    OBVIOUS
  <2> HIDE DEF Open
  <2> QED BY <1>1, <2>1, LeastElement
<1>3. CASE m = 0
  <2> DEFINE f == [k \in 0..0 |-> <<>>]
  <2>1. f = [k \in 0..0 |-> IF k = 0 THEN <<>> ELSE After(loop, f[k - 1], speeches[k])]
    OBVIOUS
  <2>2. Rounds(f, loop, speeches, 0)
    BY <2>1 DEF Rounds
  <2> QED BY <1>2, <1>3, <2>2
<1>4. CASE m # 0
  <2>1. m - 1 \in Nat /\ m - 1 \notin Open
    BY <1>2, <1>4
  <2>2. PICK g : Rounds(g, loop, speeches, m - 1)
    BY <2>1
  <2>3. \A k \in 0..(m - 1) : g[k] = IF k = 0 THEN <<>> ELSE After(loop, g[k - 1], speeches[k])
    BY <2>2 DEF Rounds
  <2> DEFINE f == [k \in 0..m |-> IF k = m THEN After(loop, g[m - 1], speeches[m]) ELSE g[k]]
  <2>4. /\ f[m] = After(loop, g[m - 1], speeches[m])
        /\ \A k \in 0..(m - 1) : k \in 0..m /\ k # m /\ f[k] = g[k]
    BY <1>2
  <2>5. \A k \in 0..m : f[k] = IF k = 0 THEN <<>> ELSE After(loop, f[k - 1], speeches[k])
    <3> TAKE k \in 0..m
    <3>1. CASE k = m
      <4>1. m - 1 \in 0..(m - 1)
        BY <2>1
      <4>2. f[k - 1] = g[m - 1]
        BY <2>4, <3>1, <4>1
      <4> HIDE DEF f
      <4> QED BY <1>4, <2>4, <3>1, <4>2
    <3>2. CASE k # m
      <4>1. k \in 0..(m - 1)
        BY <1>2, <3>2
      <4>2. k # 0 => k - 1 \in 0..(m - 1)
        BY <4>1
      <4>3. k # 0 => f[k - 1] = g[k - 1]
        BY <2>4, <4>2
      <4> HIDE DEF f
      <4> QED BY <2>3, <2>4, <4>1, <4>3
    <3> QED BY <3>1, <3>2
  <2>6. f = [k \in 0..m |-> f[k]]
    OBVIOUS
  <2> HIDE DEF f
  <2>7. f = [k \in 0..m |-> IF k = 0 THEN <<>> ELSE After(loop, f[k - 1], speeches[k])]
    BY <2>5, <2>6
  <2>8. Rounds(f, loop, speeches, m)
    BY <2>7 DEF Rounds
  <2> QED BY <1>2, <2>8
<1> QED BY <1>3, <1>4

Long(s) == \A k \in DOMAIN s : s[k].end - s[k].start >= MinSpeech

\* What a loop has kept of the speeches by n.
Kept(loop, m, n) == Said(m, n) /\ (loop = "long" => Long(m))

\* A speech that is merged with the last one ends where the last one ended.
LEMMA JoinedOK ==
  ASSUME NEW m, NEW n \in Nat, Said(m, n), NEW x \in Speech, n <= x.start, x.start <= x.end
  PROVE  Said(Joined(m, x), x.end)
<1> DEFINE last == Len(m)
           all == [m EXCEPT ![Len(m)].end = x.end]
<1>1. CASE Joined(m, x) = Append(m, x)
  BY <1>1, SaidAppended
<1>2. CASE m # <<>> /\ Joined(m, x) = all
  <2>1. /\ last \in Nat /\ DOMAIN m = 1..last /\ last \in 1..last /\ m \in Seq(Speech)
        /\ \A k \in 1..last : m[k] \in Speech /\ m[k].start \in Nat /\ m[k].end \in Nat
        /\ x.start \in Nat /\ x.end \in Nat
    BY <1>2, SaidNumbers DEF Said, Speech
  <2>2. [m[last] EXCEPT !.end = x.end] \in Speech
    BY <2>1 DEF Speech
  <2>3. all \in Seq(Speech) /\ DOMAIN all = 1..last
    BY <2>1, <2>2
  <2>4. /\ all[last].start = m[last].start /\ all[last].end = x.end
        /\ \A k \in 1..last : k # last => all[k] = m[k]
    BY <2>1 DEF Speech
  <2> HIDE DEF all, last
  <2>5. ASSUME NEW k \in 1..last
        PROVE  /\ all[k].start <= all[k].end /\ all[k].end <= x.end
               /\ k > 1 => all[k - 1].end <= all[k].start
    <3>1. /\ m[k].start <= m[k].end /\ m[k].end <= n
          /\ k > 1 => k - 1 \in 1..last /\ k - 1 # last /\ m[k - 1].end <= m[k].start
      BY <2>1 DEF Said
    <3>2. all[k].start = m[k].start /\ (all[k].end = m[k].end \/ all[k].end = x.end)
      BY <2>4
    <3>3. k > 1 => all[k - 1].end = m[k - 1].end
      BY <2>4, <3>1
    <3> QED BY <2>1, <3>1, <3>2, <3>3
  <2>6. Said(all, x.end)
    BY <2>3, <2>5 DEF Said
  <2> QED BY <1>2, <2>6
<1> QED BY <1>1, <1>2 DEF Joined

\* A round keeps the order, and what is long.
LEMMA AfterOK ==
  ASSUME NEW loop \in {"merge", "long"}, NEW m, NEW n \in Nat, Kept(loop, m, n),
         NEW x \in Speech, n <= x.start, x.start <= x.end
  PROVE  Kept(loop, After(loop, m, x), x.end)
<1>1. CASE loop = "merge"
  BY <1>1, JoinedOK DEF After, Kept
<1>2. CASE loop = "long" /\ x.end - x.start < MinSpeech
  <2>1. x.end \in Nat /\ n <= x.end
    BY DEF Speech
  <2>2. After(loop, m, x) = m
    BY <1>2 DEF After, IfLong
  <2> QED BY <2>1, <2>2, SaidLater DEF Kept
<1>3. CASE loop = "long" /\ ~(x.end - x.start < MinSpeech)
  <2> DEFINE all == Append(m, x)
  <2>1. After(loop, m, x) = all
    BY <1>3 DEF After, IfLong
  <2>2. Said(all, x.end)
    BY SaidAppended DEF Kept
  <2>3. x.end - x.start >= MinSpeech
    <3>1. MinSpeech \in Nat /\ x.end \in Nat /\ x.start \in Nat
      BY VadAssumption DEF Speech
    <3> QED BY <1>3, <3>1
  <2>4. /\ DOMAIN all = 1..(Len(m) + 1) /\ all[Len(m) + 1] = x /\ Len(m) \in Nat
        /\ DOMAIN m = 1..Len(m) /\ \A k \in 1..Len(m) : all[k] = m[k]
    BY DEF Kept, Said
  <2>5. \A k \in 1..(Len(m) + 1) : k \in 1..Len(m) \/ k = Len(m) + 1
    BY <2>4
  <2> HIDE DEF all
  <2>6. Long(all)
    BY <1>3, <2>3, <2>4, <2>5 DEF Long, Kept
  <2> QED BY <2>1, <2>2, <2>6 DEF Kept
<1> QED BY <1>1, <1>2, <1>3

\* All rounds.
LEMMA RoundsOK ==
  ASSUME NEW loop \in {"merge", "long"}, NEW speeches, NEW end \in Nat, Said(speeches, end),
         NEW f, Rounds(f, loop, speeches, Len(speeches))
  PROVE  Kept(loop, f[Len(speeches)], end)
<1> DEFINE n == Len(speeches)
           by(k) == IF k = 0 THEN 0 ELSE speeches[k].end
           Bad == {k \in 0..n : ~Kept(loop, f[k], by(k))}
<1>1. /\ n \in Nat /\ DOMAIN speeches = 1..n /\ speeches \in Seq(Speech)
      /\ \A k \in 1..n : speeches[k] \in Speech /\ speeches[k].start \in Nat /\ speeches[k].end \in Nat
  BY SaidNumbers DEF Said
<1>2. /\ f[0] = <<>>
      /\ \A k \in 1..n : k - 1 \in 0..n /\ f[k] = After(loop, f[k - 1], speeches[k])
  <2>1. \A k \in 0..n : f[k] = IF k = 0 THEN <<>> ELSE After(loop, f[k - 1], speeches[k])
    BY DEF Rounds
  <2>2. 0 \in 0..n /\ \A k \in 1..n : k \in 0..n /\ k # 0 /\ k - 1 \in 0..n
    BY <1>1
  <2> QED BY <2>1, <2>2
<1>3. Bad = {}
  <2>1. SUFFICES ASSUME Bad # {} PROVE FALSE
    OBVIOUS
  <2>2. PICK k \in Bad : \A l \in Bad : k <= l
    <3>1. Bad \in SUBSET Nat
      BY <1>1
    <3> HIDE DEF Bad
    <3> QED BY <2>1, <3>1, LeastElement
  <2>3. k # 0
    <3>1. Kept(loop, <<>>, 0)
      BY DEF Kept, Said, Long
    <3> QED BY <1>2, <2>2, <3>1
  <2>4. k \in 1..n /\ k - 1 \in 0..n /\ k - 1 < k /\ (k - 1 = 0 \/ k - 1 \in 1..n)
    BY <1>1, <2>2, <2>3
  <2>5. Kept(loop, f[k - 1], by(k - 1)) /\ by(k - 1) \in Nat
    BY <1>1, <2>2, <2>4
  <2>6. by(k - 1) <= speeches[k].start /\ speeches[k].start <= speeches[k].end
    BY <1>1, <2>4 DEF Said
  <2> HIDE DEF by
  <2>7. Kept(loop, After(loop, f[k - 1], speeches[k]), speeches[k].end)
    BY <1>1, <2>4, <2>5, <2>6, AfterOK
  <2> QED BY <1>2, <2>2, <2>3, <2>4, <2>7 DEF by
<1>4. Kept(loop, f[n], by(n)) /\ by(n) \in Nat /\ by(n) <= end
  <2>1. n \in 0..n /\ (n = 0 \/ n \in 1..n)
    BY <1>1
  <2> QED BY <1>1, <1>3, <2>1 DEF Said
<1> QED BY <1>4, SaidLater DEF Kept

\* Merging keeps the order.
LEMMA MergedOK ==
  ASSUME NEW speeches, NEW end \in Nat, Said(speeches, end)
  PROVE  Said(Merged(speeches), end)
<1> DEFINE n == Len(speeches)
           Loop(f) == f = [k \in 0..n |-> IF k = 0 THEN <<>> ELSE Joined(f[k - 1], speeches[k])]
<1>1. n \in Nat
  BY DEF Said
<1>2. PICK f : Loop(f) /\ f = (CHOOSE g : Loop(g))
  <2>1. \E g : Rounds(g, "merge", speeches, n)
    BY <1>1, RoundsEnd
  <2>2. \E g : Loop(g)
    BY <2>1 DEF Rounds, After
  <2> HIDE DEF Loop
  <2> QED BY <2>2, Zenon
<1>3. Rounds(f, "merge", speeches, n)
  BY <1>2 DEF Rounds, After
<1>4. Merged(speeches) = (CHOOSE g : Loop(g))[n]
  BY DEF Merged
<1> HIDE DEF Loop
<1> QED BY <1>2, <1>3, <1>4, RoundsOK DEF Kept

\* So does taking out what is short.
LEMMA LongEnoughOK ==
  ASSUME NEW speeches, NEW end \in Nat, Said(speeches, end)
  PROVE  Said(LongEnough(speeches), end) /\ Long(LongEnough(speeches))
<1> DEFINE n == Len(speeches)
           Loop(f) == f = [k \in 0..n |-> IF k = 0 THEN <<>> ELSE IfLong(f[k - 1], speeches[k])]
<1>1. n \in Nat
  BY DEF Said
<1>2. PICK f : Loop(f) /\ f = (CHOOSE g : Loop(g))
  <2>1. \E g : Rounds(g, "long", speeches, n)
    BY <1>1, RoundsEnd
  <2>2. \E g : Loop(g)
    BY <2>1 DEF Rounds, After
  <2> HIDE DEF Loop
  <2> QED BY <2>2, Zenon
<1>3. Rounds(f, "long", speeches, n)
  BY <1>2 DEF Rounds, After
<1>4. LongEnough(speeches) = (CHOOSE g : Loop(g))[n]
  BY DEF LongEnough
<1> HIDE DEF Loop
<1> QED BY <1>2, <1>3, <1>4, RoundsOK DEF Kept

\* Neighbours that share what is between them do not overlap, and padding makes none shorter.
LEMMA PaddedOK ==
  ASSUME NEW s, AudioLength \in Nat, Said(s, AudioLength), Long(s), NEW k \in DOMAIN Padded(s)
  PROVE  /\ 0 <= Padded(s)[k].start /\ Padded(s)[k].end <= AudioLength
         /\ Padded(s)[k].end - Padded(s)[k].start >= MinSpeech
         /\ k > 1 => Padded(s)[k - 1].end <= Padded(s)[k].start
<1> DEFINE n == Len(s)
           gap(l) == s[l + 1].start - s[l].end
           close(l) == gap(l) < 2 * Pad
           half(l) == gap(l) \div 2
           start(l) == AtLeast(0, s[l].start - (IF l > 1 /\ close(l - 1) THEN half(l - 1) ELSE Pad))
           end(l) == IF l < n /\ close(l) THEN s[l].end + half(l)
                     ELSE AtMost(s[l].end + Pad, AudioLength)
<1>1. /\ n \in Nat /\ DOMAIN s = 1..n /\ Pad \in Nat /\ MinSpeech \in Nat
      /\ \A l \in 1..n : s[l].start \in Nat /\ s[l].end \in Nat
  <2>1. s \in Seq(Speech) /\ Pad \in Nat /\ MinSpeech \in Nat
    BY VadAssumption DEF Said
  <2> QED BY <2>1, SaidNumbers
<1>2. Padded(s) = [l \in DOMAIN s |-> [start |-> start(l), end |-> end(l)]]
  BY DEF Padded
<1>3. k \in 1..n /\ Padded(s)[k].start = start(k) /\ Padded(s)[k].end = end(k)
  BY <1>1, <1>2
<1>4. k > 1 => Padded(s)[k - 1].end = end(k - 1)
  <2>1. k > 1 => k - 1 \in DOMAIN s
    BY <1>1, <1>3
  <2> QED BY <1>2, <2>1
<1>5. ASSUME NEW l \in 1..n, l < n
      PROVE  /\ gap(l) \in Nat /\ half(l) \in Nat /\ 2 * half(l) <= gap(l)
             /\ s[l + 1].start = s[l].end + gap(l) /\ s[l + 1].start <= AudioLength
  <2>1. l + 1 \in 1..n /\ (l + 1) - 1 = l /\ l + 1 > 1
    BY <1>1, <1>5
  <2>2. /\ s[(l + 1) - 1].end <= s[l + 1].start
        /\ s[l + 1].start <= s[l + 1].end /\ s[l + 1].end <= AudioLength
    BY <1>1, <2>1 DEF Said
  <2>3. s[l].end <= s[l + 1].start
    BY <2>1, <2>2
  <2>4. PICK g : g = gap(l)
    OBVIOUS
  <2>5. g \in Nat
    BY <1>1, <2>1, <2>3, <2>4
  <2>6. g \div 2 \in Nat /\ 2 * (g \div 2) <= g
    BY <2>5
  <2>7. half(l) = g \div 2
    BY <2>4
  <2>8. /\ s[l].end \in Nat /\ s[l + 1].start \in Nat /\ s[l + 1].end \in Nat
    BY <1>1, <2>1
  <2>9. s[l + 1].start = s[l].end + g
    BY <2>4, <2>8
  <2>10. s[l + 1].start <= AudioLength
    BY <2>2, <2>8
  <2> QED BY <2>4, <2>5, <2>6, <2>7, <2>9, <2>10
<1>6. /\ s[k].start <= s[k].end /\ s[k].end <= AudioLength /\ s[k].end - s[k].start >= MinSpeech
      /\ s[k].start \in Nat /\ s[k].end \in Nat
  BY <1>1, <1>3 DEF Said, Long
<1>7. k > 1 => /\ k - 1 \in 1..n /\ k - 1 < n /\ (k - 1) + 1 = k
  BY <1>1, <1>3
<1>8. k > 1 => /\ gap(k - 1) \in Nat /\ half(k - 1) \in Nat /\ 2 * half(k - 1) <= gap(k - 1)
               /\ s[k].start = s[k - 1].end + gap(k - 1) /\ s[k - 1].end \in Nat
  BY <1>1, <1>5, <1>7
<1>9. k < n => gap(k) \in Nat /\ half(k) \in Nat /\ 2 * half(k) <= gap(k) /\ s[k].end + gap(k) <= AudioLength
  BY <1>3, <1>5
<1> HIDE DEF gap, half, n
<1>10. 0 <= start(k) /\ start(k) <= s[k].start
  BY <1>1, <1>6, <1>8 DEF AtLeast
<1>11. s[k].end <= end(k) /\ end(k) <= AudioLength
  BY <1>1, <1>6, <1>9 DEF AtMost
<1>12. k > 1 => end(k - 1) <= start(k)
  <2>1. CASE k > 1 /\ close(k - 1)
    BY <1>6, <1>7, <1>8, <2>1 DEF AtLeast
  <2>2. CASE k > 1 /\ ~close(k - 1)
    <3>1. end(k - 1) = AtMost(s[k - 1].end + Pad, AudioLength)
      BY <2>2
    <3>2. start(k) = AtLeast(0, s[k].start - Pad)
      BY <2>2
    <3>3. end(k - 1) <= s[k - 1].end + Pad
      BY <1>1, <1>8, <2>2, <3>1 DEF AtMost
    <3>4. end(k - 1) \in Int
      BY <1>1, <1>8, <2>2, <3>1 DEF AtMost
    <3>5. s[k].start - Pad <= start(k) /\ start(k) \in Int
      BY <1>1, <1>6, <3>2 DEF AtLeast
    <3>6. PICK g \in Nat, e \in Nat : g = gap(k - 1) /\ e = s[k - 1].end /\ s[k].start = e + g
      BY <1>8, <2>2
    <3>7. g >= 2 * Pad
      BY <1>1, <2>2, <3>6
    <3>8. e + Pad <= (e + g) - Pad
      BY <1>1, <3>6, <3>7
    <3>9. end(k - 1) <= e + Pad /\ (e + g) - Pad <= start(k)
      BY <3>3, <3>5, <3>6
    <3>10. PICK a \in Int, b \in Int : a = end(k - 1) /\ b = start(k)
      BY <3>4, <3>5
    <3>11. a <= e + Pad /\ (e + g) - Pad <= b
      BY <3>9, <3>10
    <3>12. a <= b
      BY <1>1, <3>6, <3>8, <3>11
    <3> QED BY <3>10, <3>12
  <2> QED BY <2>1, <2>2
<1>13. start(k) \in Int /\ end(k) \in Int
  <2>1. start(k) \in Int
    BY <1>1, <1>6, <1>8 DEF AtLeast
  <2>2. end(k) \in Int
    BY <1>1, <1>6, <1>9 DEF AtMost
  <2> QED BY <2>1, <2>2
<1> HIDE DEF start, end
<1> QED BY <1>1, <1>3, <1>4, <1>6, <1>10, <1>11, <1>12, <1>13

-----------------------------------------------------------------------------
(* The steps.                                                              *)

\* While a call looks for speech, what it has found so far is in order.
VInv ==
  /\ phase = "detect" => /\ window \in Nat /\ Detecting(det, window * NWindow)
                         /\ ~has_vad_segments
  /\ SegmentsApart

\* What is found at the end of the audio is in order.
LEMMA FoundApart ==
  ASSUME window \in Nat, window = NProbs, Detecting(det, window * NWindow)
  PROVE  LET found == whisper_vad_segments_from_probs(det)
         IN  \A k \in DOMAIN found :
               /\ 0 <= found[k].start /\ found[k].end <= AudioLength
               /\ found[k].end - found[k].start >= MinSpeech
               /\ k > 1 => found[k - 1].end <= found[k].start
<1>1. /\ NWindow \in Nat /\ MinSpeech \in Nat /\ window * NWindow \in Nat
      /\ window * NWindow = AudioLength
  BY VadAssumption DEF AudioLength
<1>2. Said(AtEnd(det), AudioLength)
  <2>1. CASE det.has_curr /\ AudioLength - det.start > MinSpeech
    <3>1. det.is_speech /\ det.start \in Nat
      BY <2>1 DEF Detecting, Detector
    <3>2. det.start <= AudioLength
      BY <1>1, <2>1, <3>1
    <3> QED BY <1>1, <2>1, <3>1, <3>2, PushOK DEF AtEnd
  <2>2. CASE ~(det.has_curr /\ AudioLength - det.start > MinSpeech)
    <3>1. AtEnd(det) = det.speeches
      BY <2>2 DEF AtEnd
    <3>2. det.is_speech => det.start \in Nat /\ det.start <= AudioLength /\ Said(det.speeches, det.start)
      BY <1>1 DEF Detecting, Detector
    <3>3. ~det.is_speech => Said(det.speeches, AudioLength)
      BY <1>1 DEF Detecting
    <3> QED BY <1>1, <3>1, <3>2, <3>3, SaidLater
  <2> QED BY <2>1, <2>2
<1>3. Said(Merged(AtEnd(det)), AudioLength)
  BY <1>1, <1>2, MergedOK
<1>4. PICK s : s = LongEnough(Merged(AtEnd(det)))
  OBVIOUS
<1>5. Said(s, AudioLength) /\ Long(s)
  BY <1>1, <1>3, <1>4, LongEnoughOK
<1>6. whisper_vad_segments_from_probs(det) = Padded(s)
  BY <1>4 DEF whisper_vad_segments_from_probs
<1> QED BY <1>1, <1>5, <1>6, PaddedOK

\* Every step keeps what is found in order.
LEMMA StepOK ==
  ASSUME VInv, [Next]_vars
  PROVE  VInv'
<1>1. CASE UNCHANGED vars
  BY <1>1 DEF vars, detection, mapping, VInv, SegmentsApart, Answered, AudioLength, NProbs
<1>2. ASSUME NEW n \in NSamples, FullWithoutVad(n) PROVE VInv'
  BY <1>2 DEF FullWithoutVad, VInv, SegmentsApart, Answered
<1>3. ASSUME NEW n \in NSamples, NEW max \in MaxDurations, FullWithVad(n, max) PROVE VInv'
  <2>1. phase' = "detect" /\ window' = 0 /\ det' = NoSpeech /\ ~has_vad_segments'
    BY <1>3 DEF FullWithVad
  <2>2. NoSpeech \in Detector /\ NoSpeech.has_curr = NoSpeech.is_speech /\ ~NoSpeech.is_speech
        /\ NoSpeech.temp_end = 0 /\ NoSpeech.prev_end = 0 /\ NoSpeech.next_start = 0
        /\ NoSpeech.speeches = <<>>
    BY DEF NoSpeech, Detector
  <2>3. Said(<<>>, 0) /\ 0 * NWindow = 0
    BY VadAssumption DEF Said
  <2>4. Detecting(NoSpeech, 0)
    BY <2>2, <2>3 DEF Detecting
  <2> QED BY <2>1, <2>3, <2>4 DEF VInv, SegmentsApart, Answered
<1>4. ASSUME NEW prob \in Probs, Hear(prob) PROVE VInv'
  <2>1. /\ phase = "detect" /\ phase' = phase /\ window' = window + 1
        /\ det' = Heard(det, prob, window * NWindow) /\ has_vad_segments' = has_vad_segments
    BY <1>4 DEF Hear, mapping
  <2>2. /\ window \in Nat /\ NWindow \in Nat /\ window * NWindow \in Nat
        /\ (window + 1) * NWindow = window * NWindow + NWindow
    BY <2>1, VadAssumption DEF VInv
  <2>3. Detecting(det', window * NWindow)
    BY <2>1, <2>2, HeardOK DEF VInv
  <2>4. Detecting(det', window' * NWindow)
    BY <2>1, <2>2, <2>3, DetectingLater
  <2> QED BY <2>1, <2>2, <2>4 DEF VInv, SegmentsApart, Answered
<1>5. ASSUME Detected PROVE VInv'
  <2>1. /\ phase = "detect" /\ phase' = "idle" /\ window = NProbs
        /\ segments' = whisper_vad_segments_from_probs(det)
        /\ n_samples' = n_samples
    BY <1>5 DEF Detected
  <2>2. AudioLength' = AudioLength
    BY <2>1 DEF AudioLength, NProbs
  <2>3. window \in Nat /\ Detecting(det, window * NWindow)
    BY <2>1 DEF VInv
  <2>4. SegmentsApart'
    BY <2>1, <2>2, <2>3, FoundApart DEF SegmentsApart
  <2> QED BY <2>1, <2>4 DEF VInv
<1>6. ASSUME DetectionFails PROVE VInv'
  BY <1>6 DEF DetectionFails, mapping, VInv, SegmentsApart, Answered
<1> QED BY <1>1, <1>2, <1>3, <1>4, <1>5, <1>6 DEF Next, NoMoreCalls

\* However loud and quiet follow each other, the segments of a call with params.vad lie
\* within the windows of the audio, the last of them filled up with silence, in order
\* and apart, and none is shorter than min_speech_duration_ms.
THEOREM SegmentsAlwaysApart == Spec => []SegmentsApart
<1>1. Init => VInv
  BY DEF Init, VInv, SegmentsApart, Answered
<1>2. VInv /\ [Next]_vars => VInv'
  BY StepOK
<1>3. VInv => SegmentsApart
  BY DEF VInv
<1> QED BY <1>1, <1>2, <1>3, PTL DEF Spec
=============================================================================
