----------------------------- MODULE WhisperFull -----------------------------
(***************************************************************************)
(* whisper_full_with_state in whisper.cpp: audio is transcribed window by  *)
(* window; a window is decoded by several decoders at once, again at a     *)
(* higher temperature when that fails; what the best decoder sampled gives *)
(* the segments, the prompt of the next window and where it starts.        *)
(*                                                                         *)
(* Times are frames of the spectrogram.  A token is a number: timestamp    *)
(* token_beg + t is t, a text token is negative, and EOT is the least.     *)
(* Temperatures are tenths.  Probabilities are left out: whatever the      *)
(* logit filters allow may be sampled, and any comparison of scores may go *)
(* either way.  A prompt is only as long as it is.                         *)
(***************************************************************************)
EXTENDS KVCache, FiniteSets

CONSTANTS
  Settings,     \* the whisper_full_params of the calls
  AudioLens,    \* whisper_n_len_from_state of the calls
  MaxCalls,     \* bound: calls with the same state
  TextTokens,   \* text tokens, negative
  NTextCtx,     \* n_text_ctx of the model
  MaxTs,        \* the last timestamp token, 1500
  MaxInitialTs, \* max_initial_ts in timestamps, 50
  DeltaMin,     \* delta_min, 10
  ShortTail,    \* 500: what is left too short for a prompt
  EntropyLen,   \* 32: longer results may fail for their entropy
  TokenBeg      \* id of the first timestamp token

ASSUME DecoderAssumption ==
  /\ NTextCtx \in Nat /\ NTextCtx > 9
  /\ TextTokens \subseteq Int /\ \A t \in TextTokens : t < 0
  /\ {MaxTs, MaxInitialTs, DeltaMin, ShortTail, EntropyLen, TokenBeg} \subseteq Nat
  /\ MaxTs > 0
  /\ AudioLens \subseteq Nat /\ MaxCalls \in Nat

\* Nothing is asked of the numbers but that the offset and the duration are not
\* negative, and that there is a temperature to try.
ASSUME SettingsAssumption ==
  /\ Settings \subseteq
       [strategy : {"greedy", "beam"}, best_of : Int, beam_size : Int,
        temperature : Int, temperature_inc : Int,
        n_max_text_ctx : Int, initial_prompt : Nat, carry_initial_prompt : BOOLEAN,
        no_context : BOOLEAN, no_timestamps : BOOLEAN, single_segment : BOOLEAN,
        max_tokens : Int, offset : Nat, duration : Nat, multilingual : BOOLEAN,
        abort_callback : BOOLEAN]
  /\ \A s \in Settings : /\ s.temperature <= 10 \/ s.temperature_inc <= 0
                         /\ s.strategy = "beam" => s.beam_size > 0

VARIABLES
  p,            \* params
  calls, rc,    \* calls made, and what the last one returned
  phase,        \* what the call does next, "idle" between calls
  seek_end, seek,
  it,           \* the temperature in use
  n_dec,        \* n_decoders_cur
  dec,          \* state->decoders
  best,         \* best_decoder_id
  prompt,       \* the prompt: [prev, past, init] lengths of its parts
  i,            \* tokens sampled since the prompt
  kv, kv_n_dec, \* kv_self, kv_self_n_dec
  past0, past1, \* lengths of prompt_past0 and prompt_past1
  result        \* result_all: [segs, from, end], the segments of the window just
                \* decoded, where it starts and where the segments before it end

call == <<p, calls, seek_end>>
past == <<past0, past1>>
cacheVars == <<kv, kv_n_dec>>
vars == <<call, rc, phase, seek, it, n_dec, dec, best, prompt, i, cacheVars, past, result>>

WHISPER_MAX_DECODERS == 8
Chunk == 2 * MaxTs            \* 100 * WHISPER_CHUNK_SIZE
EOT == -99
Tokens == TextTokens \cup {EOT} \cup 0..MaxTs
IsText(t) == t < 0 /\ t # EOT
NMax == NTextCtx \div 2 - 4   \* n_max

NoDecoder == [tokens |-> <<>>, result_len |-> 0, seek_delta |-> Chunk,
              failed |-> FALSE, completed |-> FALSE, has_ts |-> FALSE]
NoPrompt == [prev |-> 0, past |-> 0, init |-> 0]
NPrompt == prompt.prev + prompt.past + prompt.init

Init ==
  /\ p \in Settings /\ calls = 0 /\ rc = 0 /\ phase = "idle"
  /\ seek_end = 0 /\ seek = 0 /\ it = 1 /\ n_dec = 1
  /\ dec = [j \in {0} |-> NoDecoder] /\ best = 0
  /\ prompt = NoPrompt /\ i = 0
  /\ kv = whisper_kv_cache_init(NTextCtx) /\ kv_n_dec = 1
  /\ past0 = 0 /\ past1 = 0
  /\ result = [segs |-> <<>>, from |-> 0, end |-> 0]

\* The decoders that go on, and in their order; Place(j) is that of j.
Live == {j \in 0..(n_dec - 1) : ~dec[j].failed /\ ~dec[j].completed}
Place(j) == Cardinality({k \in Live : k <= j})
LiveSeq == [r \in 1..Cardinality(Live) |-> CHOOSE j \in Live : Place(j) = r]

\* for (j = 0; ...; ++j), skipping the decoders that are not in js.
ForEach(js, Do(_, _), cache) ==
  LET after[j \in 0..WHISPER_MAX_DECODERS] ==
        IF j = 0 THEN cache
        ELSE IF j - 1 \in js THEN Do(after[j - 1], j - 1) ELSE after[j - 1]
  IN  after[WHISPER_MAX_DECODERS]

\* The decoders of a finished window are not read again.
Forget ==
  /\ it' = 1 /\ n_dec' = 1 /\ dec' = [j \in {0} |-> NoDecoder]
  /\ best' = 0 /\ prompt' = NoPrompt /\ i' = 0

Return(r) == rc' = r /\ phase' = "idle" /\ Forget

-----------------------------------------------------------------------------
(* The parameters.                                                         *)

AtMost(a, b) == IF a < b THEN a ELSE b
AtLeast(a, b) == IF a > b THEN a ELSE b

Temperatures(s) ==
  IF s.temperature_inc > 0
  THEN [k \in 1..((10 - s.temperature) \div s.temperature_inc + 1) |->
          s.temperature + (k - 1) * s.temperature_inc]
  ELSE <<s.temperature>>

MaxDecoders(s) ==
  AtLeast(1, IF s.strategy = "greedy" THEN s.best_of ELSE AtLeast(s.best_of, s.beam_size))

\* Mutant of MaxPromptCtx: the budget is whatever the caller says.
MaxPromptCtxAsTold(s) == s.n_max_text_ctx

MaxPromptCtx(s) == AtMost(s.n_max_text_ctx, NTextCtx \div 2)

\* Past tokens are kept for the next call unless no_context is set; the initial
\* prompt goes before them, or apart when it is to be repeated.
Call(s, n_len) ==
  LET end == IF s.duration = 0 THEN n_len ELSE s.offset + s.duration
      p0  == IF s.no_context THEN 0 ELSE past0
      p1  == IF s.no_context THEN 0 ELSE past1
  IN
  /\ phase = "idle" /\ calls < MaxCalls
  /\ calls' = calls + 1 /\ p' = s
  /\ result' = [segs |-> <<>>, from |-> 0, end |-> 0]
  /\ \/ end < s.offset + DeltaMin /\ Return(0) /\ UNCHANGED <<seek_end, seek, past>>
     \/ /\ end >= s.offset + DeltaMin /\ MaxDecoders(s) > WHISPER_MAX_DECODERS
        /\ Return(-4) /\ UNCHANGED <<seek_end, seek, past>>
     \/ /\ end >= s.offset + DeltaMin /\ MaxDecoders(s) <= WHISPER_MAX_DECODERS
        /\ past0' = IF s.carry_initial_prompt /\ p0 = 0
                    THEN AtMost(s.initial_prompt, AtLeast(1, MaxPromptCtx(s) - 1)) ELSE p0
        /\ past1' = IF s.carry_initial_prompt THEN p1 ELSE p1 + s.initial_prompt
        /\ seek' = s.offset /\ seek_end' = end
        /\ phase' = "window" /\ rc' = 0
        /\ Forget
  /\ UNCHANGED cacheVars

-----------------------------------------------------------------------------
(* A window, and an attempt at it.                                         *)

EndOfAudio ==
  /\ phase = "window" /\ seek + DeltaMin >= seek_end
  /\ Return(0)
  /\ UNCHANGED <<call, seek, cacheVars, past, result>>

LastEnd == IF result.segs = <<>> THEN result.end ELSE result.segs[Len(result.segs)].t1

\* encoder_begin_callback may stop the call before the encoder does.
StopBeforeEncoder ==
  /\ phase = "window" /\ seek + DeltaMin < seek_end /\ p.abort_callback
  /\ \E r \in {0, -6} : Return(r)
  /\ UNCHANGED <<call, seek, cacheVars, past, result>>

EncodeWindow ==
  /\ phase = "window" /\ seek + DeltaMin < seek_end
  /\ IF seek > p.offset /\ seek + ShortTail >= seek_end
     THEN past0' = 0 /\ past1' = 0
     ELSE UNCHANGED past
  /\ best' = 0 /\ it' = 1 /\ phase' = "attempt"
  /\ result' = [segs |-> <<>>, from |-> seek, end |-> LastEnd]
  /\ UNCHANGED <<call, rc, seek, n_dec, dec, prompt, i, cacheVars>>

Temp == Temperatures(p)[it]

\* Mutant of DecodersAt: best_of is taken as it is.
DecodersAtAsTold(s, t) ==
  IF t > 0 THEN s.best_of ELSE IF s.strategy = "beam" THEN s.beam_size ELSE 1

DecodersAt(s, t) ==
  AtLeast(1, IF t > 0 THEN s.best_of ELSE IF s.strategy = "beam" THEN s.beam_size ELSE 1)

\* sot, the language and the task, no_timestamps
PromptInit(s) == 1 + (IF s.multilingual THEN 2 ELSE 0) + (IF s.no_timestamps THEN 1 ELSE 0)

\* Below WHISPER_HISTORY_CONDITIONING_TEMP_CUTOFF the prompt starts with a marker,
\* the tokens to repeat, and the latest others the budget has room for: none when
\* fewer than none, as the vector of the app's build then inserts nothing.
BuildPrompt ==
  LET take0 == IF p.carry_initial_prompt THEN past0 ELSE 0
      uses  == /\ p.n_max_text_ctx > 0 /\ Temp < 5
               /\ MaxPromptCtx(p) > 0 /\ (take0 > 0 \/ past1 > 0)
  IN  [prev |-> IF uses THEN 1 ELSE 0,
       past |-> IF uses THEN take0 + AtLeast(0, AtMost(MaxPromptCtx(p) - take0 - 1, past1))
               ELSE 0,
       init |-> PromptInit(p)]

\* Mutant of CacheSize: no more cells for more decoders.
CacheSizeOfOne(n) == NTextCtx

\* The cells of a cache for n decoders: more of them than they need, as the slots
\* of abandoned sequences leave it fragmented.
CacheSize(n) == NTextCtx * (IF n > 1 THEN n + 2 ELSE 1)

PromptBatch(n) == [k \in 1..n |-> [pos |-> k - 1, seq |-> 0, kv |-> <<>>]]

\* What whisper_decode_internal gives: the callback that aborts is asked at the end.
Decode(cache, batch, error) ==
  IF Slots(cache, Len(batch)) = {}
  THEN Return(error) /\ kv' = cache
  ELSE /\ kv' = whisper_kv_cache_find_slot(cache, batch)
       /\ p.abort_callback /\ Return(error)

Decoded(cache, batch) == Slots(cache, Len(batch)) # {}

\* The others of n decoders get the cells of the first.
Shared(cache, n) ==
  LET copy(c, j) == whisper_kv_cache_seq_cp(c, 0, j)
  IN  ForEach(1..(n - 1), copy, cache)

\* Decoders, prompt and cache for a temperature: the first decodes the prompt and
\* the others take its cells over.
Attempt ==
  LET n     == DecodersAt(p, Temp)
      pr    == BuildPrompt
      n_pr  == pr.prev + pr.past + pr.init
      clean == IF kv_n_dec < n THEN whisper_kv_cache_init(CacheSize(n))
                               ELSE whisper_kv_cache_clear(kv)
  IN
  /\ phase = "attempt"
  /\ kv_n_dec' = AtLeast(kv_n_dec, n)
  /\ \/ Decode(clean, PromptBatch(n_pr), -8)
     \/ /\ Decoded(clean, PromptBatch(n_pr))
        /\ kv' = Shared(whisper_kv_cache_find_slot(clean, PromptBatch(n_pr)), n)
        /\ n_dec' = n /\ prompt' = pr /\ i' = 0 /\ phase' = "sample"
        \* decoders of an earlier attempt that take no part in this one stay
        /\ dec' = [j \in (0..(n - 1)) \cup DOMAIN dec |-> IF j < n THEN NoDecoder ELSE dec[j]]
        /\ UNCHANGED <<rc, it, best>>
  /\ UNCHANGED <<call, seek, past, result>>

-----------------------------------------------------------------------------
(* Sampling the next tokens.                                               *)

\* Mutant of Allowed: timestamps need not increase.
AllowedAnyTime(d) ==
  LET n       == Len(d.tokens)
      last    == d.tokens[n]
      paired  == n > 0 /\ last >= 0 /\ (n < 2 \/ d.tokens[n - 1] >= 0)
      closing == n > 0 /\ last >= 0 /\ ~paired
  IN  {t \in Tokens :
        /\ t = EOT => n > 0
        /\ t >= 0 => ~p.no_timestamps /\ ~paired /\ (n = 0 => t <= MaxInitialTs)
        /\ IsText(t) => ~closing}

\* The tokens the logit filters leave to a decoder, with suppress_blank.
Allowed(d) ==
  LET n       == Len(d.tokens)
      last    == d.tokens[n]
      paired  == n > 0 /\ last >= 0 /\ (n < 2 \/ d.tokens[n - 1] >= 0)
      closing == n > 0 /\ last >= 0 /\ ~paired
  IN  {t \in Tokens :
        /\ t = EOT => n > 0
        /\ t >= 0 => /\ ~p.no_timestamps /\ ~paired
                     /\ n = 0 => t <= MaxInitialTs
                     /\ d.has_ts => t >= d.seek_delta \div 2
        /\ IsText(t) => ~closing}

Sampled(d, t) == [d EXCEPT !.tokens = Append(@, t)]

\* Every live decoder for itself; the threads that share them share nothing else.
SampleGreedy ==
  /\ phase = "sample" /\ p.strategy = "greedy"
  /\ \E t \in [Live -> Tokens] :
       /\ \A j \in Live : t[j] \in Allowed(dec[j])
       /\ dec' = [j \in DOMAIN dec |-> IF j \in Live THEN Sampled(dec[j], t[j]) ELSE dec[j]]
  /\ phase' = "update"
  /\ UNCHANGED <<call, rc, seek, it, n_dec, best, prompt, i, cacheVars, past, result>>

\* Mutant of TakeOver: what a decoder gives up is dropped before it is copied.
TakeOverInPlace(cache, src) ==
  LET move(c, j) == whisper_kv_cache_seq_cp(whisper_kv_cache_seq_rm(c, j), src[j], j)
  IN  ForEach({j \in DOMAIN src : src[j] # j}, move, cache)

\* Decoder j goes on with the sequence of decoder src[j], by way of a sequence of
\* its own as j's cells may be wanted by another.
TakeOver(cache, src) ==
  LET out(c, j) == whisper_kv_cache_seq_cp(c, src[j], WHISPER_MAX_DECODERS + j)
      back(c, j) ==
        whisper_kv_cache_seq_rm(
          whisper_kv_cache_seq_cp(whisper_kv_cache_seq_rm(c, j), WHISPER_MAX_DECODERS + j, j),
          WHISPER_MAX_DECODERS + j)
  IN  ForEach(DOMAIN src, back, ForEach(DOMAIN src, out, cache))

\* The candidates the live decoders go on with: c[k] for the k-th of them, from
\* the first again when there are fewer.  Of equal ones next to each other one is
\* taken after the first token, and there are fewer only when each decoder's are
\* among them.
Chosen(c) ==
  LET after(k) == Append(dec[c[k].src].tokens, c[k].token)
  IN  /\ \A k \in DOMAIN c : c[k].token \in Allowed(dec[c[k].src])
      /\ i > 0 => \A k \in DOMAIN c : k > 1 => after(k) # after(k - 1)
      /\ Len(c) < Cardinality(Live) =>
           i > 0 /\ \A j \in Live : \E k \in DOMAIN c : dec[c[k].src].tokens = dec[j].tokens

\* beam_size tokens are sampled for each live decoder, and the best of them all
\* are the decoders' next sequences, whoever's they are.
SampleBeam ==
  /\ phase = "sample" /\ p.strategy = "beam"
  /\ \E n \in 1..Cardinality(Live) : \E c \in [1..n -> [src : Live, token : Tokens]] :
       LET mine == [j \in Live |-> c[((Place(j) - 1) % n) + 1]]
       IN  /\ Chosen(c)
           /\ dec' = [j \in DOMAIN dec |->
                        IF j \in Live THEN Sampled(dec[mine[j].src], mine[j].token) ELSE dec[j]]
           /\ kv' = TakeOver(kv, [j \in Live |-> mine[j].src])
  /\ phase' = "update"
  /\ UNCHANGED <<call, rc, seek, it, n_dec, best, prompt, i, kv_n_dec, past, result>>

-----------------------------------------------------------------------------
(* What a sampled token does to its decoder.                               *)

Failed(d) == [d EXCEPT !.failed = TRUE]

\* Mutant of Stamped: the first timestamp counts as one that moves the window.
StampedAtZero(d) ==
  LET t == d.tokens[Len(d.tokens)]
  IN  IF t < 0 THEN d
      ELSE IF d.has_ts /\ d.seek_delta > 2 * t /\ d.result_len < i THEN Failed(d)
      ELSE [d EXCEPT !.seek_delta = 2 * t, !.result_len = i + 1, !.has_ts = TRUE]

\* A timestamp moves the window, but not back.
Stamped(d) ==
  LET t == d.tokens[Len(d.tokens)]
  IN  IF t <= 0 THEN d
      ELSE IF d.has_ts /\ d.seek_delta > 2 * t /\ d.result_len < i THEN Failed(d)
      ELSE [d EXCEPT !.seek_delta = 2 * t, !.result_len = i + 1, !.has_ts = TRUE]

AtEnd(d) == seek + d.seek_delta + DeltaMin >= seek_end

Ended(d) ==
  \/ d.tokens[Len(d.tokens)] = EOT
  \/ p.max_tokens > 0 /\ i >= p.max_tokens
  \/ d.has_ts /\ AtEnd(d)

\* No timestamp at all is a failure, but at the end of the audio.
Completed(d) ==
  IF d.result_len = 0 /\ ~p.no_timestamps /\ ~AtEnd(d) THEN Failed(d)
  ELSE IF p.single_segment \/ p.no_timestamps
  THEN [d EXCEPT !.completed = TRUE, !.result_len = i + 1, !.seek_delta = Chunk]
  ELSE [d EXCEPT !.completed = TRUE, !.result_len = IF @ = 0 THEN i + 1 ELSE @]

Updated(d) ==
  LET s == Stamped(d)
  IN  IF s.failed THEN s
      ELSE IF Ended(s) THEN Completed(s)
      ELSE IF i = NMax - 1 /\ (s.result_len = 0 \/ s.seek_delta < Chunk \div 2) THEN Failed(s)
      ELSE s

\* The loop ends here when every decoder has.
Update ==
  LET after == [j \in DOMAIN dec |-> IF j \in Live THEN Updated(dec[j]) ELSE dec[j]]
  IN  /\ phase = "update"
      /\ dec' = after
      /\ phase' = IF \A j \in 0..(n_dec - 1) : after[j].failed \/ after[j].completed
                  THEN "rank" ELSE "decode"
      /\ UNCHANGED <<call, rc, seek, it, n_dec, best, prompt, i, cacheVars, past, result>>

\* The last token of every live decoder, all at one position.
NextBatch ==
  [k \in DOMAIN LiveSeq |->
     [pos |-> NPrompt + i, seq |-> LiveSeq[k], kv |-> dec[LiveSeq[k]].tokens]]

DecodeNext ==
  /\ phase = "decode"
  /\ \/ Decode(kv, NextBatch, -9)
     \/ /\ Decoded(kv, NextBatch)
        /\ kv' = whisper_kv_cache_find_slot(kv, NextBatch)
        /\ i' = i + 1
        /\ phase' = IF i + 1 < NMax THEN "sample" ELSE "rank"
        /\ UNCHANGED <<rc, it, n_dec, dec, best, prompt>>
  /\ UNCHANGED <<call, seek, kv_n_dec, past, result>>

-----------------------------------------------------------------------------
(* The result of a window.                                                 *)

\* The best decoder that has not failed, if any has a result; the scores do not
\* let the window pass, except at the last temperature.
Rank ==
  /\ phase = "rank"
  /\ \E bad \in SUBSET {j \in 0..(n_dec - 1) : ~dec[j].failed /\ dec[j].result_len > EntropyLen} :
       LET ranked == [j \in DOMAIN dec |->
                        IF j >= n_dec \/ dec[j].failed THEN dec[j]
                        ELSE [dec[j] EXCEPT !.tokens = SubSeq(@, 1, dec[j].result_len),
                                            !.failed = j \in bad]]
           scored == {j \in 0..(n_dec - 1) : ~ranked[j].failed /\ ranked[j].result_len > 0}
       IN  /\ dec' = ranked
           /\ best' \in (IF scored = {} THEN {best} ELSE scored)
           /\ \/ phase' = "output" /\ (it = Len(Temperatures(p)) \/ ~ranked[best'].failed)
                 /\ UNCHANGED it
              \/ phase' = "attempt" /\ it < Len(Temperatures(p)) /\ it' = it + 1
  /\ UNCHANGED <<call, rc, seek, n_dec, prompt, i, cacheVars, past, result>>

\* The segments of a sequence that starts at t0: text up to the first timestamp
\* of a group, which is the start of the next one; what is left ends the window.
Segments(tokens, t0, t_end) ==
  LET add(s, k) ==
        LET t == tokens[k]
        IN  IF IsText(t) THEN [s EXCEPT !.text = TRUE]
            ELSE IF t <= 0 \/ p.single_segment \/ (k > 1 /\ tokens[k - 1] > 0) THEN s
            ELSE [segs |-> IF s.text THEN Append(s.segs, [t0 |-> s.t0, t1 |-> seek + 2 * t])
                                     ELSE s.segs,
                  t0 |-> seek + 2 * t, text |-> FALSE]
      after[k \in 0..Len(tokens)] ==
        IF k = 0 THEN [segs |-> <<>>, t0 |-> t0, text |-> FALSE] ELSE add(after[k - 1], k)
      all == after[Len(tokens)]
  IN  IF all.text THEN Append(all.segs, [t0 |-> all.t0, t1 |-> t_end]) ELSE all.segs

\* tid of the first token: its own if it is a timestamp, else the likeliest one of
\* those the filters leave (none of them: 0, or token_beg from the beam's sampler).
FrontTids(t) ==
  IF t >= 0 THEN {t}
  ELSE IF ~p.no_timestamps THEN 0..MaxInitialTs
  ELSE {IF p.strategy = "greedy" THEN -TokenBeg ELSE 0}

\* A single timestamp at the end: nothing is said in the rest of the chunk.
SingleTimestampEnding(tokens) ==
  LET n == Len(tokens) IN n > 1 /\ tokens[n - 1] < 0 /\ tokens[n] > 0

Output ==
  LET d      == dec[best]
      tokens == d.tokens
      kept   == IF p.carry_initial_prompt THEN 0 ELSE prompt.past
  IN
  /\ phase = "output"
  /\ \E is_no_speech \in BOOLEAN :
       /\ past1' = kept + (IF is_no_speech THEN 0 ELSE d.result_len)
       /\ IF is_no_speech \/ tokens = <<>>
          THEN UNCHANGED result
          ELSE \E tid \in FrontTids(tokens[1]) :
                 result' = [result EXCEPT
                   !.segs = Segments(tokens, seek + 2 * tid, seek + d.seek_delta)]
  /\ seek' = seek + (IF SingleTimestampEnding(tokens)
                     THEN AtMost(seek_end - seek, Chunk) ELSE d.seek_delta)
  /\ phase' = "window" /\ Forget
  /\ UNCHANGED <<call, rc, cacheVars, past0>>

-----------------------------------------------------------------------------
Work ==
  \/ EndOfAudio \/ StopBeforeEncoder \/ EncodeWindow \/ Attempt
  \/ SampleGreedy \/ SampleBeam \/ Update \/ DecodeNext \/ Rank \/ Output

\* The bound on calls is reached.
NoMoreCalls == phase = "idle" /\ calls = MaxCalls /\ UNCHANGED vars

Next == (\E s \in Settings, n_len \in AudioLens : Call(s, n_len)) \/ Work \/ NoMoreCalls

Spec == Init /\ [][Next]_vars

-----------------------------------------------------------------------------
TypeOK ==
  /\ p \in Settings /\ calls \in 0..MaxCalls /\ rc \in {0, -4, -6, -8, -9}
  /\ phase \in {"idle", "window", "attempt", "sample", "update", "decode", "rank", "output"}
  /\ seek_end \in Nat /\ seek \in Nat /\ it \in Nat /\ i \in 0..NMax
  /\ n_dec \in 1..WHISPER_MAX_DECODERS /\ kv_n_dec \in 1..WHISPER_MAX_DECODERS
  /\ 0..(n_dec - 1) \subseteq DOMAIN dec /\ best \in DOMAIN dec
  /\ prompt \in [prev : 0..1, past : Nat, init : 0..4]
  /\ past0 \in Nat /\ past1 \in Nat
  /\ kv.size = CacheSize(kv_n_dec)

\* The cache holds, of every decoder that goes on, its own sequence and nothing else:
\* one cell for each position, computed from the tokens the decoder has now.
CacheIsSequence ==
  phase \in {"sample", "update", "decode"} =>
    \A j \in Live :
      LET own == CellsOf(kv, j)
      IN  /\ {c.pos : c \in own} = 0..(NPrompt + i - 1)
          /\ \A c, d \in own : c.pos = d.pos => c = d
          /\ \A c \in own : c.kv = SubSeq(dec[j].tokens, 1, c.pos - NPrompt + 1)

\* The cache always has a slot for the next tokens: decoding fails only when the
\* caller's callback aborts it.
AlwaysASlot == rc \in {-8, -9} => p.abort_callback

\* Prompt and result together stay within the positions the model knows.
PositionsFit == \A c \in kv.cells : c.pos < NTextCtx

\* With timestamps, segments do not overlap, and end after they start and before
\* the next window starts.  Only text sampled before any timestamp may be given a
\* start after its end, as the timestamp likeliest there is taken for it; then the
\* start is no more than max_initial_ts into the window.
SegmentsInOrder ==
  phase = "window" /\ ~p.no_timestamps =>
    \A k \in DOMAIN result.segs :
      LET s == result.segs[k]
      IN  /\ (IF k = 1 THEN result.end ELSE result.segs[k - 1].t1) <= s.t0
          /\ s.t0 <= s.t1 \/ (k = 1 /\ s.t0 <= result.from + 2 * MaxInitialTs)
          /\ result.from <= s.t1 /\ (s.t1 <= seek \/ seek >= seek_end)

\* Steps a call may still take: what is left of the audio, of the temperatures, and
\* of the tokens of an attempt.
StepsLeft ==
  LET attempt == 3 * NMax + 3
      window  == Len(Temperatures(p)) * attempt + 1
      tokens  == 3 * (NMax - i)
      inAttempt == CASE phase = "attempt" -> 3 * NMax + 2
                     [] phase = "sample"  -> tokens + 1
                     [] phase = "update"  -> tokens
                     [] phase = "decode"  -> tokens - 1
                     [] phase = "rank"    -> 1
                     [] OTHER             -> 0
  IN  AtLeast(0, seek_end - seek) * (window + 1)
      + (IF phase = "window" THEN window
         ELSE IF phase = "output" THEN 0
         ELSE (Len(Temperatures(p)) - it) * attempt + inAttempt)

\* Every call returns: whatever is sampled, each step leaves fewer to take.
CallsReturn == [][phase # "idle" => phase' = "idle" \/ (0 <= StepsLeft' /\ StepsLeft' < StepsLeft)]_vars
=============================================================================
