# Voice notes: specifications, model checking and proofs

TLA+ for the voice notes application of this repository: the Android program in
`examples/whisper.android`, which records audio, transcribes it on the device
with whisper.cpp, keeps notes and asks a local LLM about them. The modules
specify what runs concurrently in it and where it may fail; TLC checks small
instances and TLAPS proves the central properties for every instance.

Paths below are relative to the repository. `App/` is
`examples/whisper.android/app/src/main/java/com/whispercppdemo/`, `Lib/` is
`examples/whisper.android/lib/src/main/`.

## 1. The system

| Component | Code | State | Operations | Modules |
|---|---|---|---|---|
| whisper context wrapper | `Lib/java/com/whispercpp/whisper/LibWhisper.kt`, `Lib/jni/whisper/jni.c` | `ptr`, the native context and its segments, a single-thread executor | `transcribeData`, `benchMemory`, `benchGgmlMulMat`, `release`, `finalize` | `ExclusiveContext`, `WhisperContext` |
| recorder | `App/recorder/Recorder.kt` | `recorder` (the thread), its `quit` flag, the file being written | `startRecording`, `stopRecording`, `AudioRecordThread.run` | `Recorder` |
| view model | `App/ui/main/MainScreenViewModel.kt` | `canTranscribe`, `isRecording`, `isProcessing`, `transcribedNote`, `recordedFile`, `whisperContext` | `toggleRecord`, `transcribeFile`, `deleteNote`, `benchmark`, `init`, `onCleared` | `MainScreenViewModel`, `AppLifecycle` |
| activity and screens | `App/MainActivity.kt`, `App/ui/main/*.kt`, `App/ui/notes/*.kt` | `currentScreen`, the keys of the effects, the file picker | the buttons, navigation, recreation, `onDestroy` | `MainActivity`, `AppLifecycle` |
| LLM manager | `App/llm/LLMManager.kt` | `llmInference`, `isInitialized`, the model file in the cache | `initialize`, `generateSummary`, `answerQuestion`, `release` | `LLMManager` |
| WAV conversion | `App/media/RiffWaveHelper.kt` | the bytes of a file | `encodeWaveFile`, `decodeWaveFile` | a file's completeness in `Recorder` |
| notes database | `App/data/database/*.kt` | the rows of `notes` | `insertNote`, `deleteNote`, the queries | the row counts in `MainScreenViewModel` |
| text embedding | `App/embedding/TextEmbedding.kt` | the vocabulary, an ONNX session | `initialize`, `embed`, `close` | - |
| ggml CPU thread pool | `ggml/src/ggml-cpu/ggml-cpu.c` | graph and chunk counters, barrier, `pause`, `stop` | `ggml_graph_compute`, `ggml_barrier`, `ggml_compute_forward_mul_mat`, pause, resume, free | `Barrier`, `GraphCompute`, `GraphInOrder`, `ThreadPool` |
| whisper decoder | `src/whisper.cpp` | decoders, KV cache cells, past tokens, `result_all`, the seek position | `whisper_full_with_state`, `whisper_kv_cache_*` | `KVCache`, `WhisperFull` |
| voice activity detection | `src/whisper.cpp` | `vad_segments`, `vad_mapping_table` | `whisper_full` with `params.vad`, `whisper_full_get_segment_t0`, `_t1` | `Vad` |
| ggml graph allocator | `ggml/src/ggml-alloc.c` | free blocks, `hash_values`, the addresses and buffers kept | `ggml_gallocr_reserve`, `ggml_gallocr_alloc_graph` | `DynTallocr`, `GraphAllocator` |

How they interact:

- A screen calls the view model **on the main thread**; each operation is a
  coroutine of `viewModelScope` there. It suspends into one of three places and
  is resumed by a message to the main looper: the recorder's executor, the IO
  dispatcher (files, database) and the whisper executor.
- The recorder's executor starts a **thread per recording** and, to stop it, sets
  `quit` and blocks in `join()`. The thread may fail at any time; it then calls
  `onError`, which launches a coroutine that sets `isRecording = false`.
- The view model's state is **observed by the composition**: a frame later the
  buttons change, and `LaunchedEffect(transcribedNote)` navigates to the note.
- A configuration change makes a new activity and a new `LLMManager` over the
  **same view model**; the old activity's `onDestroy` releases its manager.
- The wrapper's executor is the only thread that enters the native context; the
  garbage collector's finalizer thread submits a second `release()`.
- Inside the context that thread is thread 0 of a ggml CPU **thread pool**: it
  hands each graph to the workers, computes its own share and returns.

What is hard, and therefore what the properties are about:

- `canTranscribe` is used as a **lock** but is a Compose state: tested on entry of
  a coroutine that then suspends many times, and set again after a `catch`.
- `isRecording`, `recordedFile` and the recorder's own `recorder` are three
  variables about one recording, set in different turns of different threads.
- The **error callback** arrives two turns of the main thread later, possibly when
  a Stop or another recording is under way.
- The **native context** dies once and must not be entered afterwards, with two
  parties that free it.
- `LLMManager` tests and sets its fields from several threads **without a lock**,
  and minutes lie between the test and the set.
- The **main thread blocks** in `onCleared`.
- Under `whisper_full`, every graph is computed by **threads that spin** on a
  barrier and take chunks from one counter, with no lock; between graphs they
  first **poll** the pool's fields without its mutex and then sleep, and a graph,
  a pause or a free may come at any point of that.
- In `whisper_full` up to eight **decoders share one KV cache**: beams take over one
  another's cells, abandoned ones leave it fragmented, and a window that fails is
  decoded again at another temperature, with another number of decoders, over what
  the first attempt left. Where the next window starts is what was *sampled*, so
  that the loop ends is not a matter of counting.
- The allocator computes **lifetimes in advance**: memory is given away at the last
  read, also through views and by nodes that write over their operand, and the
  addresses are then used for graphs that were not looked at.
- Voice activity detection leaves out silence and **maps times back** through a table
  of rounded running sums.

The correctness of each component, and the name of the property that states it:

| Component | Property |
|---|---|
| wrapper | one thread at a time (`OneThreadAtATime`), not used after it was freed (`NoUseAfterFree`), freed once (`FreedOnce`, proved), a transcription reads its own segments (`SegmentsAreMine`), calls return (`CallsReturn`), `release()` frees (`ReleaseFrees`) |
| view model | one job in `transcribeAudio` (`TranscriberExclusive`), the lock is not lost (`TranscriberAvailable`), processing ends (`ProcessingEnds`) |
| recorder | Stop runs through (`StopsComplete`), it ends the recording it transcribes (`StopsItsOwnRecording`), nobody reads a file that is being written (`AudioIsFinished`) |
| screens | the microphone is on when the screen says so (`MicrophoneMatchesScreen`), a stopped recording is transcribed (`StopIsTranscribed`), a note is shown (`NoteIsShown`) |
| LLM manager | flag and engine agree (`FlagMeansEngine`), no closed engine is left to be found, and none generates for the activity in use (`NoClosedEngine`), requests return (`RequestsReturn`), the model file is whole (`ModelFileIsWhole`) |
| end of the activity | everything is released (`DestroyCleansUp`) |
| a graph's computation | chunks are computed once and nodes in order (`NodesInOrder`), from operands that are ready and not yet overwritten (`ReadsConverted`), and all of them unless it was aborted; nobody stays behind at a barrier (`GraphEnds`) |
| thread pool | `ggml_graph_compute` returns (`GraphsReturn`) with the whole result (`ResultReturned`); the next graph finds nobody in the last (`QuietAtReset`); a pause takes hold (`PauseTakesHold`), a free ends (`PoolIsFreed`) |
| decoder | the cache holds each decoder's sequence (`CacheIsSequence`) and has room (`AlwaysASlot`), positions are the model's (`PositionsFit`), segments are in order (`SegmentsInOrder`), `whisper_full` returns (`CallsReturn`) |
| voice activity | segments do not overlap (`SegmentsApart`), times map back in order, and what is copied fills the new audio, but exceeds it by a sample at the end (`TimesMapBack`) |
| graph allocator | what a node reads was not overwritten (`SourcesIntact`), free blocks are exactly the rest (`FreeIsTheRest`), tensors lie in their buffers (`WithinBuffer`) |

## 2. The modules

```
ExclusiveContext <-implements- WhisperContext <-EXTENDS- AppLifecycle
                                     ^
                               WhisperContextProofs

Recorder <-EXTENDS- MainScreenViewModel <-EXTENDS- MainActivity
                           ^                            ^
                MainScreenViewModelProofs <-EXTENDS- MainActivityProofs

LLMManager <-EXTENDS- LLMManagerProofs

                   GraphInOrder
                        ^ implements
                        |
Barrier <-EXTENDS- GraphCompute <-EXTENDS- ThreadPool
                                                ^
                                        ThreadPoolProofs

KVCache <-EXTENDS- WhisperFull <-EXTENDS- WhisperFullProofs

Vad <-EXTENDS- VadProofs

DynTallocr <-EXTENDS- GraphAllocator <-EXTENDS- GraphAllocatorProofs
```

**ExclusiveContext** is what the comment on `WhisperContext` demands ("Don't
access from more than one thread at a time"): a resource that one user enters,
that is freed once while nobody is inside, and that nobody enters afterwards.

**WhisperContext** has the executor: a queue of callers (`queue`), the one whose
block runs (`runner`) and where in the block it is (`at`). `Call` and `Finalize`
append to the queue; `Begin` takes the next block; one action per JNI call does
what the call does to the context (`native`, `nSegments`). `withContext` resumes
the caller in `EndBlock`, whether the block returns or throws. The segments
written by `whisper_full` are their number.

**Recorder** has the state and the steps of `Recorder.kt`. `execQ` and `joining`
are the executor and its blocked `join()`; `phase`, `quit`, `output` and `heard`
are an `AudioRecordThread`. `heard` is what `headerBytes` requires: enough bytes
for a header. `disk` says of a file whether it is absent, partly written or
complete. The module has no specification of its own: a call's return is the
view model's next step.

**MainScreenViewModel** adds the coroutines. A *job* is one call of an operation;
`pc[j]` is the suspension point it is at, and `mainQ` holds the jobs (and
`onError` callbacks, and the loader of `init`) that have been resumed and wait
for the main looper, in order. `Suspend` takes a job off the main thread,
`Resume` puts it back in `mainQ`. What happens between two suspension points is
one step, because nothing else runs on the main thread meanwhile. Two turns of
the main thread that touch no state are merged with their neighbours:
`stopPlayback()` inside `readAudioSamples`, and the second `withContext(Main)`
of `saveNote`.

**MainActivity** adds what the user sees: `shown` is the last composition, and
`Tap` needs a button of *that* composition, not of the state. `Recompose` is a
frame; it runs `LaunchedEffect` if its key changed. `Recreate` is a configuration
change. `Patient` restricts the user to one who waits until the screen has
settled; the runs say which user they assume.

**LLMManager** has one action per line that reads or writes a field another
thread uses, since nothing serialises them: `Initialize` tests the flag,
`AssignEngine` and `SetInitialized` are two steps, as are `CloseEngine`,
`ClearEngine` and `ResetInitialized` of `release()`. Its `try` is over as soon as
`llmInference.close()` or `textEmbedding.close()` throws: the field and the flag then
stay as they are (`closeFailed` remembers the first kind), and the engine may have been
closed or not. A process death keeps only the model file.

**AppLifecycle** composes the wrapper with the main thread at its end:
`OnCleared` blocks it, `StopPlayback` needs it.

**Barrier** is `ggml_barrier`, one action per access to an atomic: `ReadPassed`,
`Arrive`, `ResetCount`, `Open`, and `Pass` for the spin that ends. `bar[t]` is
where thread `t` is inside and `seen[t]` its local `n_passed`. `n_threads_cur` is
read where the step needs it; that it is not written meanwhile is `QuietAtReset`.

**GraphCompute** is `ggml_graph_compute_thread` for a graph whose nodes are matrix
products, the operation with the most synchronisation: inside a node the threads
convert an operand into the shared work buffer (`Convert`; `wdata[t]` is the node
of `t`'s share), meet at the barrier, and take chunks from `current_chunk`, which
thread 0 has set to the number of threads because each begins with its own.
`Chunks[n]` is the number of chunks of the usual size; `NChunks` is the rule that
makes it one per thread when that would be less than four each. `0` marks a node
with nothing to compute, which the loop skips without a barrier. `AbortCallback`
is the end of the loop's body: thread 0 may find that the graph is to be aborted
and names the node before which all will leave, then all meet at the barrier.
`done` counts computations of a chunk; it is a history variable.

**GraphInOrder** is what a graph promises: a chunk is computed once, and only when
every earlier node is complete; and it ends in success only when all are.

**ThreadPool** adds `ggml_graph_compute`, `ggml_graph_compute_kickoff` and the
workers' loop. The main thread writes the fields of the new graph (`ResetGraph`),
then under the mutex `n_threads_cur`, `n_graph` and `pause`: three steps
(`SetThreads`, `SignalGraph`, `WakeWorkers`), because a worker that polls reads
them without it; what a worker does under the mutex is one step (`Sleep`,
`SleepPaused`), guarded by `Unlocked`. `Poll` reads `n_graph`, `PollActive`
`n_threads_cur`. A worker at `"run"` has set `pending`. `Wake` is a spurious wake-up.

**KVCache** is `whisper_kv_cache` as operators on a record: the cells in use are a
set, each with its index, its position, the sequences it belongs to and, as a
history, the tokens its keys and values were computed from (`kv`). `head` is kept,
because it decides which of several slots is taken.

**WhisperFull** is `whisper_full_with_state`. A call is a walk through the phases
`"window"`, `"attempt"`, then `"sample"`, `"update"` and `"decode"` for each token,
`"rank"` and `"output"`; its steps are the blocks of the function in their order.
The logits are left out: a decoder samples any token the logit filters leave it
(`Allowed`), a comparison of scores goes either way (`Chosen`, `Rank`), and the
first token may be given any timestamp the filters leave (`FrontTids`). Timestamps
are tokens `0..MaxTs`, text is one negative token, times are frames. The threads
that sample for several decoders touch one decoder each, so that is one step. A
decoder beyond those of the present attempt stays as an earlier attempt left it,
because `best_decoder_id` may still name it; `Live` is taken, like the loops of the
code, over the decoders of the present one only. `ForEach` is such a loop over the
cache, `Shared` the one that gives the others the prompt's cells, `TakeOver` the two
that let beams change places. A prompt budget smaller than the tokens to repeat makes
`n_take1` negative; the vector of the application's build then inserts nothing, and
so does `BuildPrompt`. The two callbacks that abort are one
setting (`abort_callback`) under which any call of them may.

**Vad** is `whisper_full` up to the decoder: `Hear` is one round of the loop in
`whisper_vad_segments_from_probs` for a probability that is speech, silence or
between the thresholds, and `Detected` does all that follows: merging, filtering,
padding, rounding, the pass that sizes the audio without silence (`SamplesNeeded`, whose
length is what is transcribed), the pass that says where each segment is copied to
(`OffsetOf`, `Copied`), and the table. The samples themselves are left out. The two
functions that read a segment's times are operators.

**DynTallocr** and **GraphAllocator** are `ggml_dyn_tallocr` and `ggml_gallocr` with one
buffer. The caller builds any graph (`AddNode`). `ggml_gallocr_reserve` is a walk:
`AllocateLeaf` for each leaf, `CountReaders`, then for each node `AllocateNode` and one
`UpdateParent` for each of its sources, and `SetAllocs`. `AllocGraph` is
`ggml_gallocr_alloc_graph`, which keeps the addresses or goes back to reserve. `Tensors`
and `SameGraph` are what the caller promises: a tensor reads earlier ones and is a view of
one that is none, every leaf is read, and the graph that follows is the same in other
sizes, in which tensors of one layout still have one.
Nothing is computed: `SourcesIntact` says, of the addresses, what the computation of
the nodes in their order would find in memory.

The definitions named `... Mutant of ...` in a comment are deliberate bugs that no
specification uses: substituting one for the definition it names makes a run
fail, which shows that the property depends on that line of the code.

## 3. The runs

The application's runs have two jobs (three coroutines with the loader), which is
enough for every pair of operations to overlap; a third contends for the same
flags in the same way, and the theorems of section 5 hold for any number. The
pool's have three threads: a last one at the barrier, one that spins, and one
that is late.

| Run | Bounds | Shows |
|---|---|---|
| `whisper_context` | 2 callers, finalizer, 2 segments per transcription | every property of the wrapper, and that it implements `ExclusiveContext` |
| `view_model` | 2 jobs, 1 recording thread, 2 files; no user model: any operation whenever a job is free | the lock is exclusive and never lost, whatever fails; processing ends, Stop runs through |
| `patient_user` | 2 jobs, 2 threads, 2 files, `Patient` | the microphone, the recorded file, the transcription of a stopped recording; a saved note is navigated to |
| `hasty_user` | 2 jobs, 2 threads, 2 files, not `Patient` | **violated**: a stopped recording is not transcribed |
| `llm_manager` | 2 requests, 2 managers, 3 engines; `close()` may throw | flag, engine and spinner |
| `model_file` | the same | **violated**: an engine from a partial file |
| `finish` | 1 job | **violated**: `onDestroy` is never reached |
| `graph_compute` | 1 to 3 threads; a node of a chunk each, a NOP, a node of 12 chunks | chunks and nodes, aborted graphs included |
| `thread_pool` | 3 threads, 2 graphs of one node, `Steady` | the hand-over between graphs, pause, resume and free |
| `decoder` | 2 calls with any of 6 settings; 14 positions, 5 timestamps, 1 text token, 2 decoders | the shared cache, the positions, the order of segments, and that calls return |
| `vad` | 16 windows, 2 lengths of audio, with and without a limit; 1 call | segments, the times mapped back, the length of the audio |
| `allocator` | 2 leafs, 3 nodes of one or two sources, the last of one size, 2 sizes, 2 chunks; 2 graphs | lifetimes, the free list, and addresses used again |

Bounds in the guards: `RoomForFile`, `RoomForThread` and `RoomForEngine` keep a call
from starting that the finite sets could not finish, so no operation is ever cut
off in the middle; `MaxSegments` bounds one transcription; `Managers` bounds the
activities created. A path is named once: two recordings are assumed not to
begin in the same millisecond. A model ends when the paths, engines or
activities are used up, and the wrapper when it is finalized, so those runs have
`CHECK_DEADLOCK FALSE`; progress is checked by liveness properties instead. Under
`MainActivity` something can always happen and deadlock is checked.

Two threads may be alive because a second recording may start before the first
thread has ended its error path; two files allow one recorded and one selected,
or two recordings; three engines allow two initializations that overlap and one
after them.

Twelve chunks for three threads is the least number that is not turned into one
chunk per thread, so the shared counter is used; the NOP between the two products
has no barrier of its own, so a thread may be in the second while others are still
leaving the barrier after the first. `Steady`
says that every graph of the pool asks for as many threads as the first. The pool
runs keep the graph to one node of a chunk per thread, because what a graph does
inside is the question of `graph_compute`; `MaxGraphs` is the bound on `n_graph`.
Those models end when the graph is computed or the pool freed, hence
`CHECK_DEADLOCK FALSE`.

In `decoder` 14 positions give three tokens per attempt (`n_max` is half of them less
four), enough for a segment, its closing timestamp and the failure at the limit,
and the longest prompt the budget allows reaches the last position. Two beams are
enough to swap, to merge and to end apart; the cache for two has four times the
positions, as in the code. The settings are those of the application (greedy, two
decoders above temperature 0), beam search with `best_of` left at its default of -1,
so that an attempt with two beams is followed by attempts with one decoder over what
the second beam left, prompts of the greatest length for one decoder and for two, a
carried prompt with callbacks that abort, and one segment of limited length with an
offset and a carried prompt longer than its budget. Two calls
let the tokens and the cache of the first reach the second. A call returns because
`StepsLeft`, a number computed from the state, falls with every step
(`CallsReturn`), which needs no fairness.

In `vad` lengths are scaled so that speech takes three windows, silence two, and
gaps are merged, shared or padded in full within sixteen; three segments and the
points inside a long one occur. Audio lengths of 47 and 48 samples end within a window and at its end.
One call, as the table is emptied at the start of the next that uses it.

In `allocator` sizes 2 and 3 under an alignment of 2, and chunks of 6, make blocks that fit
exactly, too large and too small, and a second chunk; the second leaf may be external or the
allocator's own. The last node is of the larger size or a view: what it leaves
behind is not allocated again. Three nodes are the least in
which a view outlives the other readers of a tensor whose memory could be given
away. A second graph is the first in another size: smaller, it keeps the addresses;
larger, it is reserved again and may find one buffer large enough and not the other.

**Fairness.** Each of the application's threads keeps running what it has:
weak fairness of the main looper, of each executor, of each background block and
of the recorder's `run()` once `quit` is set (`AudioRecord.read` returns, at the
latest when its buffer is full). No fairness for the user, the garbage collector
or failures. `AppFairSpec` adds frames. In `LLMManager` a request's thread and the
main thread are fair; a model that is loaded or generates returns. In the pool every
thread keeps running, which is what the operating system gives a thread that is
not waiting; a thread that sleeps on the condition variable is woken by a
broadcast only: spurious wake-ups may happen and are not counted on. Nor are calls
of the pool's functions.

**What the violations mean.**

- `hasty_user`. Record and Select File are enabled from the same state and toggling
  either takes some turns of the main thread before the state changes. A tap on
  each in that window transcribes the file while the microphone records; Stop
  then finds `canTranscribe` false, and `transcribeAudio` returns without a word.
  The recording stays on disk and no note is made.
- `model_file`. `exists()` is true from the first byte. A second request, or any
  request after a copy that failed or a process that died, uses the part.
- `finish`. `onCleared` uses `runBlocking` on the main thread around a call that
  is `withContext(Dispatchers.Main)`.

## 4. What the passing runs rely on

`MicrophoneMatchesScreen`, `StopsItsOwnRecording`, `AudioIsFinished` and
`StopIsTranscribed` hold for the patient user only: two taps on Record before the
first has set `isRecording` start two threads, and the first is lost. That is the
price of a test and a set that are four turns apart, and the model makes the
condition explicit: `Settled` is what the UI would have to wait for.

`thread_pool` is `Steady`. whisper.cpp gives ggml no pool, so each graph gets one of
its own. Without `Steady` `QuietAtReset` does not hold, as TLC finds with `MaxThreads = 2`,
`MaxGraphs = 3` and `Steady = FALSE`: a polling worker reads `n_graph` and then `n_threads_cur`; if
the first belongs to one graph, which does not use this worker, and the second to the
next, which does, it remembers the *older* number, takes the graph for a new one when it
is done and is about to enter it again (`AboutToEnter`), while the main thread returns
and replaces it, against the comment at ggml-cpu.c:3177: "No worker threads should be
accessing the parameters below at this stage".

`NoteIsShown` says that a note opens, not that it opens once: the effect keys on a
view-model variable that outlives the activity, and a rotation later runs it again.

`SegmentsInOrder` is about calls with timestamps, and excepts text that is sampled
before any timestamp: its start is the likeliest timestamp there, and may be later
than its end, by no more than `max_initial_ts`.

`CopiesFillAudio`, a part of `TimesMapBack`, states a difference of one sample: the pass that sizes the audio clamps
a segment to `n_samples - 1` (whisper.cpp:6661), the pass that copies it to `n_samples`
(6696). Speech that lasts to the end of the audio is copied with one sample more than
room was made for, and the audio that is transcribed is one shorter than the log says
("Reduced audio from %d to %d samples", 6784). What the write past the end does is not
modelled.

`vad` makes one call per state. A call without `params.vad` after one with it maps its
times through the table of the first; the comment in
`whisper_full_get_segment_t0_from_state` ("If VAD wasn't used, return the original
timestamp") does not hold then. The application never enables VAD. In `TimesMapBack` a segment
may end later than the last speech when `get_segment_t1` stretches it to its minimum
duration: ten centiseconds, which a comment in whisper.cpp calls "10ms". "Within the
audio" in `SegmentsApart` means the windows, the last of which is filled up: a
segment may end up to a window after the last sample.

`allocator` follows a graph by the same graph in another size. `needs_realloc` compares
counts and sizes and not the edges: a graph of the same shape in which the last node
reads another tensor keeps addresses at which that tensor has been overwritten.
`ggml-alloc.h` says "automatic reallocation if the topology changes when using a
single buffer"; a caller has to know that this means a change of sizes or counts.
An output must be a tensor of its own: one that is a view keeps only the flag on the
view, and the tensor behind it is freed after its last reader.

`NoClosedEngine` allows the step between `close()` and `llmInference = null`, where
a request may find the closed engine (`FieldsHoldOpenEngines`), and a manager whose
`close()` threw, which keeps it for good; the engine then throws and the request fails.
It says nothing of what a request of the activity that is being destroyed generates
with: `release()` closes that engine, if there is one, and nothing in the code prevents
it. Nor does a property say that every engine is closed in the end, which is not so: an
engine that is assigned after `release()` has called `close()` and before it sets the
field to null is dropped while it is open, as is the first of two that overlapping
requests make.

## 5. The proofs

`tlapm` checks eight modules. They assume of the application that the "nobody"
constants are not members of the sets they complement, that the loader, the jobs and
the threads are different, that a file is not named like a screen
(`ActivityAssumption`), and that `MaxSegments` is a natural number. Of the pool they
assume a thread at least and a number of chunks for each node; of the decoder that
sizes are natural numbers, the model has ten positions or more (so that `n_max` is
positive), and text tokens are told from timestamps (`DecoderAssumption`); and of the
parameters of a call that offset and duration are not negative and that there is a
temperature to try, and that a beam search has a beam (`SettingsAssumption`; with `beam_size` 0 or less the code has no candidates to index); of the allocator a positive alignment, chunks
of aligned size, at least one of them (`TallocrAssumption`), a node at least, and leafs that
are tensors (`GraphAssumption`); of voice activity detection that windows and audio are not
empty and no length is negative (`VadAssumption`). `best_of`, prompt budget and the
length of prompts may be any numbers, the beam size any above 0.

**WhisperContextProofs.** `IInv` adds to `TypeOK` what ties the executor to the
context: the thread has a block exactly when `at` is not `"idle"`; a block is at a
JNI point only if `ptr` is set; `ptr` is set only while the context is allocated,
except between `freeContext` and `ptr = 0`; and a read of a segment is under a
count taken from the present `nSegments`. `NoUseAfterFree` alone is not inductive:
a block at its entry with a stale `ptr` would break it. From `IInv` follow
`NeverUsedAfterFree`, `NeverFreedTwice`, `ReadsOwnSegments`, and
`ImplementsExclusiveContext`, where every JNI call maps to `Enter`, `Leave`, `Free`
or a stutter of the abstract context.

**MainScreenViewModelProofs.** `TypeCorrect` needs one part beyond types: a job at
`"named"` has a file. `LockInv` says that `canTranscribe` is true only when nobody
is busy, that two busy jobs are one, that `isProcessing` is true exactly while a
job is inside `transcribeAudio`, and that the flag is false only because of a busy
job, a loader that is not done or a model that failed. It is inductive because a
step either moves a job within the critical section (`MoveLock`), leaves it
alone (`StayLock`), enters under the flag (`EnterLock`) or leaves and sets it
(`LeaveLock`); the lemmas are cited once per action. `TranscribesOneAtATime` and
`NeverLocksOut` follow, for any number of coroutines. `OneTurnEach` is about the main
looper: `mainQ` names nobody twice, and names exactly those that wait for a turn
(`QueueInv`), so no coroutine is resumed twice or forgotten.

**MainActivityProofs.** Every step of the screens is a step or a stutter of the
view model (`ScreensImplementViewModel`), so exclusion holds under every user. The
other four theorems have the hypothesis `Patient`, the condition section 4 is about;
the run `hasty_user` shows that the last of them needs it. `MicInv` says that one job at most is
between the turns of `toggleRecord`; that `isRecording`, the recorder's `recorder`, the
file in `recordedFile` and the thread that writes it are about one recording, but for
a job on its way into or out of it (`StartInv`, `StopInv`) and a thread that failed and
whose `onError` is on its way (`ThreadInv`, with `Ahead` for which turn comes first); and
that a new file is nobody's (`FilesInv`). `MicrophoneIsShown`, `StopsItsOwn` and
`AudioIsFinishedAlways` follow, and `StopTranscribes` with `RecorderReady`: while
something records, `canTranscribe` is true and no picker is open.

**LLMManagerProofs.** `FlagMeansEngine` needs the request that is between the two
assignments of `initialize()` (`FlagInv`), and that nobody has touched the manager of
an activity still to come (`ManagersInv`). The fields' part of `NoClosedEngine` needs that an engine is in
one place (`EngineInv`): in the local variable of the one request that made it, or in
the field of one manager. `GeneratesWithOpenEngine` needs in addition that the engine a
request generates with is in the field of no manager but its own, and is not one that
is still to be assigned (`GeneratingInv`), so that no other manager's `close()` reaches it.
`FlagIsHonest` and `ClosesItsOwn` follow, for any number of
requests, activities and engines, with exceptions in `release()` and the deaths of the
process among the steps.

**ThreadPoolProofs**, the graph. `BarrierInv` counts: `n_barrier` is the number of threads that
have arrived, the last to arrive finds all others waiting, and whoever is inside has
seen the present `n_barrier_passed` or is `Released`, that is, free to leave and not yet
gone. A barrier cuts the computation of a graph into stretches, and `Stretch(k, n)` says
of one (`k` is the loop, the chunks of node `n`, or the end) where every thread of the
team may be (`Control`) and what is computed, converted and taken (`Data`). A released
thread counts as being in the new stretch, so that a step within a stretch keeps it
and only the thread that opens the barrier leads to the next; it is here that the
rounds of `n_barrier_passed` matter. From `IInv`, that there is a stretch, follow
`ReadsConvertedAlways` and `ImplementsGraphInOrder`: the threads implement
`GraphInOrder`, for any number of threads and any graph.

**ThreadPoolProofs**, the pool. The stretches carry over from one graph to the next: a worker that
is still leaving the last barrier is released at the end of one graph, which is the
beginning of the next. `PoolInv` adds where the main thread is (`MainAt`) and that a
worker which has not noticed the present graph is not in it (`WorkerAt`), nor about to
enter one when none has begun.
`ResultIsComplete` and `WorkersQuietAtReset` have the hypothesis `Steady`, without
which `QuietAtReset` is false (section 4); whisper.cpp, whose graphs each have a pool of
their own, satisfies it.

**WhisperFullProofs.** `CacheIsSequence` is inductive only together with what decoding
relies on: all live decoders have as many tokens (`LoopInv`), their cells are theirs and
no one else's, and the cells of a position lie in one slot of `n_dec` cells
(`InPlace`), from which follows that there is a next slot. `Held` has the last two.
The loops of the code over the
decoders are recursive functions here; `CopyLoop`, `BackLoop` and their lemmas give
their values after every round as a change of the sequences of every cell (`Image`), so
that `TakesOver` states in one line what both loops do together, beams that swap or go
in a circle included. `Room` is the counting argument behind the comment "overallocate
to workaround KV cache fragmentation issues": `n_dec` cells in a slot meet at most two
windows of `n_dec` cells, so fewer than `n_max` tokens after a prompt leave a
window free among the `n_dec + 2` times `n_text_ctx` cells. `CacheStaysSequence`,
`SlotAlwaysFound` and `PositionsAlwaysFit` follow for every model, setting and audio, and
`CallsAlwaysReturn`: `StepsLeft` is positive and falls, since `seek` moves by the
positive `seek_delta` of a decoder (`NextWindow`).

`TimesNeverGoBack` states `SegmentsInOrder` for every model, setting and audio, and needs
`OrderInv`, which TLC checked on the run `decoder` first: the timestamps of a decoder
never decrease (`Increasing`), and its `seek_delta` is no earlier than any of them
(`Timed`), for the token just sampled only once `Update` has taken it into account
(`Heard`); what was shown of earlier windows ends before this one. It says so of all
decoders, those of an earlier attempt included, since `Attempt` resets some only. The loop
over the tokens that makes segments of them is a recursive function in `WhisperFull`;
`SegmentLoop` is its value after every token, `SegmentLoopEnds` that there is one
(by the least number of tokens without), and `SegmentsOrdered` that segments made of
timestamps that never decrease are a `Chain`, each starting where the one before has ended.

**GraphAllocatorProofs.** `Lay` says of chunks and a set of regions that the regions are
disjoint, that no free block meets one or touches another block, and that every byte in use
belongs to a block or to a region. An allocation and a free keep it, whatever the
regions are for: the lemmas about them know nothing of graphs. `Counted` says that
`n_children` and `n_views` are the reads and the views still to come, from which it follows
that memory is freed only when no node needs it (`Kept`), through views and by nodes that
compute in place included. `PlacedIntact` is `SourcesIntact` for the tensors that have
memory so far: a new tensor is apart from all that are allocated, which are all that are
needed. Once the memory is found `Fitting` is left: the present graph is in
no tensor larger than the one the addresses were made for. It holds because
`needs_realloc` compares every node and what it reads, and every leaf is
read. `MemoryAccounted`, `NothingOverwritten` and `InsideTheBuffer` follow for any graph,
alignment, chunk size, and any sizes that follow.

**VadProofs.** `SegmentsApart` needs what the loop over the probabilities keeps
(`Detecting`): everything said ends before the present speech begins (`Said`), and where
that may end, `temp_end` and `prev_end`, lies between its start and the present
window, however silences, splits and resumptions follow each other. `next_start` is read
only when it is not before `prev_end`, so a speech that is split goes on after the part
that was split off. The loops that merge speeches and take out short ones are recursive
functions; `Rounds` has both, and the least round that broke the order
shows that none does (`RoundsOK`). Neighbours that share what is between them take half of
it each, rounded down (`PaddedOK`). `SegmentsAlwaysApart` follows for any audio, probabilities
and parameters.

The proof of `CacheIsSequence` failed at first for a good reason: `Live` named the
decoders of an earlier, larger attempt too, which the code's loops do not.

Model-checked only: everything under fairness, which is the liveness of the
application and of the pool; `TimesMapBack`, which rests on quotients of products of
sample counts, rounded, beyond the provers' arithmetic, and on sums over the segments; and
the properties that are violated.

## 6. What is not modelled

- The ticker of `recordingDuration` and the waveform: display only.
- `transcribeSample` and `searchNotes`: nothing calls them.
- Asking for the permission to record: it is taken to be granted when Record is
  tapped (`TapRecord`).
- The layout of the screens, and the audio player of a note.
- Samples, prompts, embeddings and texts: see the plan.
- Loading a model through JNI is one step that succeeds or fails; `WhisperCpuConfig`
  chooses a number of threads.
- Of the thread pool: builds with OpenMP, which replace barrier and workers; CPU
  masks and priorities; memory orders weaker than sequential consistency;
  `n_barrier_passed` wrapping around after 2^32 barriers; nodes other than matrix
  products, which meet at the same barrier and at most share the same counter; the
  chunks of a NUMA machine, which are one per thread. A polling worker reads `stop`,
  `pause` and `n_graph` in one step (`Poll`), and `n_threads_cur` in the next.
- Of `whisper_full`: probabilities, and with them `entropy_thold`, `logprob_thold` and
  `no_speech_thold` (either outcome is possible); grammars, language detection, the
  alignment of single tokens (DTW, `token_timestamps`, `max_len`), `audio_ctx`,
  `print_special`, failing allocations, and `whisper_full_parallel`, which runs the
  same function on several states. The cell count is not padded to 256.
  `suppress_blank` is on, as by default.
- Of voice activity detection: the network, the samples that are copied, failing
  allocations, and which of two points of one time the table keeps when they differ, which
  takes a segment of less than a centisecond.
- Of the allocator: more than one buffer, in-place reuse of a *view's* memory (a view is
  never marked allocated, so the branch is only reached by views that are written
  through), nodes that are inputs, and `ggml_backend_sched`, which splits graphs
  between backends. Tensors of one size have one layout, each leaf is read by a node,
  and buffers can be allocated.
- The numeric kernels and GPU backends of ggml, the bindings for other
  languages, the other examples and the conversion scripts: not part of this
  application, or arithmetic that a state machine says nothing about.

## 7. Plan

Done: the wrapper, the recorder, the view model, the screens, the LLM manager's
control, the end of the activity, the thread pool, the decoder with its cache, voice
activity detection and the graph allocator, in that order; the proofs of
the wrapper, the view model under its screens, the microphone for a patient user, the
LLM manager, the barrier with the computation of a graph, the pool, the decoder with the
order of its segments, voice activity detection and the allocator.

Next, in order:

1. Proofs: exclusion at the end of the activity (`AppLifecycle`); which relations between
   the parameters of voice activity detection `TimesMapBack` needs.
2. `RiffWave`: header and samples as an operator over small files: `decode` after
   `encode`, and what the header declares.
3. `Retrieval`: `chunkText`, `retrieveRelevantChunks` and the prompt's length bound.
4. `ggml_backend_sched`: the splits of a graph and the copies of their inputs.
