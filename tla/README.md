# A verification project for gst-video-analytics

TLA+ models of the parts of gst-video-analytics (GStreamer elements for video
analytics on the Inference Engine of OpenVINO) where threads meet or where state lives
from frame to frame: the pool of inference requests and the preprocessing pipeline in
front of it, the frames in flight in the inference elements, the registry of shared
instances, the classification history of gvaclassify, the sliding window of
gvaaudiodetect, the publishing of metadata and the aggregation of branches. TLC checks
them on small instances; TLAPS proves the safety of all of them for every instance.
Paths below are relative to the repository, module names to this directory.

## 1. The system

A pipeline passes buffers from element to element. Each element has a streaming
thread that calls its `transform_ip`; the application starts, stops and finalizes
elements from its own thread.

| component (source) | state | operations | hard behaviour | correct when |
|---|---|---|---|---|
| **request pool** `inference_backend/image_inference/openvino/` | `freeRequests`, the `buffers` of each request, `requests_processing_`, two mutexes, a condition variable | `SubmitImage`, completion callback and error handler (engine threads), `Flush`, `Close` | the callback takes no lock; the counter is decremented after the request is returned; missed notifications; exceptions between pop and push | no request is in two places or lost, the counter is exact, `Flush` returns exactly when nothing is outstanding, `Close` is complete |
| **backend interface** `include/inference_backend/image_inference.h` | none of its own | `SubmitImage`, `Flush`, two callbacks | - | an image is given back at most once, and before `Flush` returns |
| **frames in flight** `gst/inference_elements/base/inference_impl.cpp` | `output_frames` with a count each, `num_skipped_frames`, `_mutex`, `output_frames_mutex` | `TransformFrameIp`, `SubmitImages`, `InferenceCompletionCallback`, `PushFramesIfInferenceFailed`, `PushOutput`, `SinkEvent`, `FlushInference` | completions in any order, several models and elements in one list, frames that need no inference, failures, EOS and stop with inferences in flight | frames leave in order, none before its inferences, none left out, none after stop |
| **base class** `gva_base_inference.c` | per element: `inference`, `post_proc`, properties | `start`, `set_caps`, `transform_ip`, `sink_event`, `stop`, `finalize` | order of state changes of several elements | an element that gets frames is initialized |
| **registry** `inference_singleton.cpp` | `inference_pool_`: by id, a count, elements to initialize, master, instance, video format | `registerElement`, `acquire_inference_instance`, `release_inference_instance` | elements come, restart and go in any order | the instance lives while an element has it; those that share it have its properties |
| **classification history** `gvaclassify/classification_history.cpp`, `utils/lru_cache.h` | LRU cache of object id -> (frame of last update, results), `current_num_frame` | `IsROIClassificationNeeded` (streaming thread), `UpdateROIParams` (callback), `FillROIParams` (source pad) | an object is marked before its result exists; eviction in flight; skipped frames | labels are there, fresh and never go back; reclassification is not too frequent |
| **VA-API pipeline** `async_with_va_api/` | `VaApiImagePool` (surfaces with `completed` and a future `sync` each), `ThreadPool` (queue of tasks) | `SubmitImage` with `AcquireBuffer`, the tasks, the deleter of a mapped image, `Flush` | the deleter sets `completed` and notifies without the mutex; the future of a surface is stored after its task is scheduled; a task runs with the mutex of the thread pool | no surface serves two images, `Flush` covers every image submitted before it, and it ends; a caller asleep for a surface wakes up |
| **audio inference** `gst/audio_inference_elements/` | `audioData`, `inferenceStartTime`, `startTimeSet`, the slide | `addSamples`, `setStartTime`, `fillAudioFrame`, `start`, `stop` | buffer, window and slide of sizes that need not divide each other; the slide may be set at any time, but is fitted to the buffers only once in the life of the element | each inference gets the window that follows the one before, with its time |
| **gvametaaggregate** | the queue, `buffer` and `end_time` of each pad, position and `nframes` of the source pad, flag for negotiation | `aggregate` (`fill_queues`, `do_aggregate`), deadlines, negotiation, EOS | branches that drop frames and end at different times; deadlines; a negotiation that needs a buffer | each frame of the first pad leaves once, with the metadata of its own time, and EOS is passed on |
| **gvametapublish** | properties, method, the position in the file; connection, attempts and sleep time of the clients | `start`, publish, `stop`; `on_connect_success`, `on_connect_failure`, `connection_lost`, `error_cb` | retries and their back-off against loss and success of the connection; files that are kept from an earlier start | the file is one JSON array of what was accepted; a connection is given up at the configured attempt and never left without an outcome |
| gvatrack, gvadetect, gvainference, gvapython, gvawatermark, gvametaconvert, gvafpscounter, metadata libraries, Python bindings, model-proc parser, pre- and post-processing, logger, registration, build | none, or a few counters | conversions | | |

How they interact: `gva_base_inference` gets its `InferenceImpl` from the registry
(`set_caps`), hands it each buffer (`transform_ip`) and flushes it (EOS, stop).
`InferenceImpl` calls `SubmitImage` of one backend per model and is called back from
engine threads, with results or with the images of a failed request. It calls the
region filter of gvaclassify (the history) before it submits, records the results in
the history when a frame's turn has come, and pushes the frame, on whose way out a pad
probe fills in what the history knows. With frames in GPU memory the backend that
`InferenceImpl` talks to is `ImageInferenceAsync`, which talks to the request pool through
the same interface. Audio, publishing and aggregation share nothing with the others but
the buffers. `PROJECT.json` lists every component with its
status, and the hazards with the line where each bites.

## 2. Modules

| module | models | state and actions |
|---|---|---|
| `ImageInference` | the contract of the interface | `given` of each image, the threads in `Flush` |
| `OpenVINOImageInference` | the request pool | One action per point where another thread may step in. `SubmitImage` is `SubmitLock` (mutex, counter), `SubmitPop`, then `SubmitAdd` or `SubmitThrow`. The callback is `CallbackReport`, `CallbackReturn`, `CallbackCount`, `CallbackNotify`, or `CallbackThrow`. `Flush` is `FlushLock`, then `FlushCheck`, `FlushTake`, `FlushPut`, `FlushAwait`, `FlushTimeout` in a loop, and `FlushReturn`; `Close` adds `CloseBegin`, `CloseDrain`, `CloseEnd`. |
| `FrameOrder` | what an element promises downstream | frames arrived and delivered, the phase of the stream |
| `InferenceImpl` | the frames in flight of the elements of one instance | `Decide` (interval and no-block), `FilterThrow`, `Enqueue`, `PassThrough`, `Submit`, `SubmitThrow` on the streaming threads; `CompletionCallback`, `PushFront`, `CallbackReturn`, `InferenceFailed` on engine threads; `SinkEventEos`, `Stop`, `FlushModel`. The backend is `ImageInference`, one per model. |
| `InferencePool` | one entry of the registry and the life of its elements | `Start`, `SetCaps`, `Acquire` or `AcquireFails`, `Initialize`, `Stop`, `Finalize`. `acquire_inference_instance` is one action, for it holds the mutex; the rest of `set_caps` is another, for a different element may acquire in between. |
| `LRUCache` | the cache template | operators on a sequence, least recently used first |
| `ClassificationHistory` | the history with the threads that use it | `TransformFrameIp`, `FilterRegion` (one region, `history_mutex` covers no more), `CountFrame`, `Enqueue`, `PassThrough`; `CompletionCallback`, `UpdateROIParams` (one result), `PushFront` (with the probe), `CallbackReturn` |
| `ImageInferenceAsync` | the VA-API pipeline | `SubmitCall`, `AcquireLock`, then `AcquireTake`, `AcquireNext`, `AcquireSleep`, `AcquireWake` for the loop over the surfaces, `Convert` or `ConvertThrow`, `Schedule`, `AssignSync`; `TaskTake`, `TaskSubmit`, `TaskReturn`, `TaskDone` for a worker; `FlushCall`, `FlushLock`, then `FlushSkip`, `FlushPastEnd`, `FlushWait`, `FlushThrow` over the surfaces, `FlushBackend`, `FlushReturn`. The backend is `ImageInference`; its completion, `GiveBack`, drops the references that release a surface. |
| `AudioWindow` | gvaaudiodetect | `SetProperty` (the slide, at any time), `Start`, `Stop`; one buffer is `Refuse` (its size does not fit), `Crash` (the slide was rounded to zero), `AddSamples` (no window is full) or `Infer` |
| `MetaPublish` | gvametapublish with its three methods | `SetProperty`, `StartFile`, `StartMqtt`, `StartKafka`; `PublishFile`, `PublishMqtt`, `PublishKafka`; the callbacks `OnConnectSuccess`, `OnConnectFailure`, `ConnectionLost`, `Reconnect` (what follows the sleep in either of the last two), `ErrorCb`; `failures` and `losses` are histories; `StopFile`, `StopMqtt`, `StopKafka`, each with the reset |
| `MetaAggregate` | gvametaaggregate, with what it uses of GstAggregator | `Chain`, `Eos` on the branches; `Ready`, `Deadline`, `Reconfigure` for the base class; a call of `aggregate` is `NeedData`, `EndOfStream` or `Aggregate` |
| `*_proofs` | | the theorems of section 5 about the module of that name |
| `MC*` | | symmetry sets and functions that a .cfg cannot write |

`OpenVINOImageInference` implements `ImageInference` (`Implements`, checked and
proved), `InferenceImpl` uses it within its rules (`UsesInterface`) and implements
`FrameOrder` (`ImplementsFrameOrder`). `ImageInferenceAsync` contains an `ImageInference`
as the backend behind it. The components meet in the interface and are never multiplied
into one state space.

Definitions whose comment starts with "Mutant" are plausible bugs. None is reached
from `Next`: each stands in front of the definition it would replace, and the property
that notices the replacement is named in `PROJECT.json`.

Abstractions worth knowing:

- The set of images stands for `buffers`; their order in a batch has no effect.
- `flush_mutex` is only taken under `requests_mutex_`, and one variable is both.
- In `InferenceImpl` a frame is named by its element and number. The code finds it by
  the address of its buffer; two list items with one buffer are not modelled.
- `_mutex` and `output_frames_mutex` are held as in the code; `output_frames_mutex` is
  `callback # {}` in `InferenceImpl` and `pushing` in `ClassificationHistory`.
- "The queue is full" (no-block) may be answered either way.
- An inference that fails gives a whole batch to `PushFramesIfInferenceFailed`. An
  exception out of `SubmitImage` leaks the open batch, as `SubmitThrow` of the pool
  shows.
- In `ClassificationHistory` a model has one output layer, and which frames
  `inference-interval` selects is a function of the number: `IntervalKept` of
  `InferenceImpl` is the reason. Results come back image by image.
- `ThreadPool` runs a task with its mutex held, so one task runs at a time however many
  workers there are. A worker that missed a notification looks again when `wait_for` is
  over, so its sleep is not modelled; the sleep for a surface has no timeout and is.
  `schedule` pushes a task without that mutex (thread_pool.cpp:43): push and pop are atomic
  here, for what the race does is undefined. An exception inside a task, of `Map` or of the
  backend, is caught by nobody and ends the process: it is not modelled.
- In `AudioWindow` a sample is its position in the stream, which is also the unit of time.
- In `MetaPublish` a file is a sequence of tokens, and a position counts bytes, since the
  code decides from the position whether to write a comma. The standard output may be
  one that cannot tell its position. Time is left out: a client that sleeps wakes up.
  Properties are set on a stopped element; the code does not insist, and with
  `max-connect-attempts` lowered below the current attempt its tests for equality
  (c_metapublish_mqtt.c:149, 204) would not be met again.
- In `MetaAggregate` frame `k` lasts from `k` to `k + 1` in every branch, and a branch
  may drop frames. The caps may have no framerate and the buffers no duration, with the
  other paths of the code that these take.
- In `InferencePool`, what is undefined in C++ (a pointer to a finalized element, an
  element that copies its strings to itself after a restart) ends the behaviour: guard
  `Defined`. It is reachable, and listed as a hazard.

## 3. Runs

Deadlock checks are off because the applications end: a closed pool, stopped or
finalized elements and a finished stream take no more steps.

| run | question | bounds | result |
|---|---|---|---|
| `pool` | Is the pool's bookkeeping right, with exceptions? Do `Flush` and `SubmitImage` return without? Does it implement its interface? | 2 requests, 3 images, 2 threads, batches of 2 | passes, 54 959 states |
| `frames_failures` | Are frames kept, counted and in order, and the interval kept, with failures and exceptions? | 2 elements, 1 model, 2 frames of up to 2 regions, batches of 2, interval 2 | passes, 288 804 |
| `frames_flush` | Is the backend used as it may be, does the flush end, and does each element implement `FrameOrder`? | 2 elements (full frame, list of regions), 2 models, 2 frames of up to 1 region, batches of 2, interval 2, no-block, no failures | passes, 39 452 |
| `frames_lost` | Are all frames pushed at EOS, after a failed inference? | 1 element, 2 frames | violated, see below |
| `async` | Are surfaces exclusive, does `Flush` cover and end, do sleepers wake? | 1 thread that submits and flushes, 1 that flushes, 3 images, 2 surfaces, batches of 2, shared or copied | passes, 320 904 |
| `publish` | Is the file an array, are retries bounded, has every attempt an outcome? | all methods, 2 messages of 2 bytes, 3 between two starts, 2 starts, up to 3 attempts, interval up to 5 | passes, 897 081 |
| `audio` | Is no window missed while the slide fits, and each at its time? | window 12, buffers of 1, 2, 3, 4, 5, 12, 16, slides of 2, 3, 4, 5, 6, 8, 10, 12, 36 buffers, 2 starts, the slide set at any time | passes, 225 760 |
| `aggregate` | Are frames merged with those of their time, and is EOS passed on? | 2 pads, 3 frames, queues of 2, 1 deadline, 1 reconfigure event | passes, 311 174 |
| `history` | Are labels there, fresh and monotonic, and is the interval kept? | 3 objects, room for 2, 3 frames of up to 2 regions, reclassify-interval 2 | passes, 260 592 up to symmetry |
| `history_interval` | The same with inference-interval 2 | as above | violated, see below |
| `instance` | Does the instance outlive its users, carry their model and go with the last? | 3 elements, 1 with a model, 1 with another format, 2 starts each, a constructor that may fail | passes, 106 543 |
| `instance_slaves` | Is every playing element initialized? | 3 elements, 1 start | violated, see below |

Why these bounds are enough. Pool: the hazards need one open batch, one request in
the engine and one thread in `Flush` beside one in `SubmitImage`; two requests make the queue
run empty, and three images fill a batch and leave an incomplete one (the theorems
cover the rest). Frames: overtaking takes two frames of one stream and another
element's frame between them; two models or two regions let a frame be completed by
several callbacks; two frames show an interval of two skipping one; `UintMax = 3` keeps the start
value `UINT_MAX - 1` and its increment apart from the interval, and lets the counter wrap
(the theorem covers longer streams). Async: the third image needs a surface that
another one has; two surfaces give the loop of `Flush` one to miss. Publish: two starts
show a file that exists and values kept by a stop; three messages, a first, a middle and
a last; three attempts, two waits, of two and of four seconds unless the limit comes before. Audio: sizes that divide
and that do not, a slide shorter and a buffer longer than the window; 36 buffers fill
three windows even of the smallest. Aggregate: a frame dropped by one branch before, between
and after frames it keeps. History: eviction takes one object more than fits, and a mark
that is two frames old takes three frames. Registry: two elements with one model are not
enough to have one element initialized by another while a third has a different format;
a second start shows the repeated registration.

### What the violated runs show

- `frames_lost`: `PushFramesIfInferenceFailed` (inference_impl.cpp:680) skips the frames
  it *finds*. The frame of a failed inference keeps its count, stays in the list with all
  frames behind it, and EOS is forwarded without them. (`FrameOfImageQueued` shows that the
  other branch, which would use the iterator past the end, is not reached in the model.)
- `history_interval`: the filter of regions runs, and marks objects, also on frames that
  `inference-interval` skips (inference_impl.cpp:600). With both intervals 2, an object
  first seen on a skipped frame is recent on every inferred one and is never classified;
  the documentation of `reclassify-interval` says the inference interval comes first.
- `instance_slaves`: an acquire gives the instance to all registered elements without a
  model; `set_caps` of those then skips their initialization (gva_base_inference.c:595).

More was seen that has no run of its own. Where `RetriesBounded` states what the MQTT
client does, the documentation of gvametapublish says otherwise twice: a lost connection
counts like a failed attempt (c_metapublish_mqtt.c:149), though gstgvametapublish.c:200 speaks
of failed attempts only, so that with a maximum of one the first loss is fatal; and
`sleep_time` is doubled before the first `g_usleep` (lines 155 and 210), so that the first
wait is of two seconds, where gstgvametapublish.c:207 has an initial interval of one. The
property states the code. No document contradicts the rest. A `sliding-window` set after the first
start is not fitted to the buffers, because the values are checked only once
(processor.cpp:82): with buffers of 3200 samples and 0.35 s the samples go 10400, 13600, 16800,
past the 16000 that `readyToInfer` waits for, and nothing is inferred on any more. The model
has this behaviour, and the premise of `WindowsKept` names it. The reshape properties are not among those copied from the
master (inference_singleton.cpp:76), and the instance is made from the first element that
gets caps. The start times of `AudioWindow` drift when the window is not a multiple of
the slide (`WindowsTimed` states what then fails; `WindowsKept` claims the times only
for slides that divide the window). A slide shorter than a buffer is rounded to zero
and divided by (action `Crash`).

## 4. Fairness

No run assumes that a call is made, that a lock is granted in preference to another
thread, or that an engine answers without cause. What is assumed:

- `pool`: every step of a call that has begun (a thread that is not blocked runs on),
  of every callback, and of the engine finishing a request that was started.
  `FlushTimeout` is fair because `wait_for` has a timeout of one second: this is what makes
  the missed notification harmless. Taking the lock is not fair, so `FlushTerminates` and
  `SubmitTerminates` speak of calls that have it. Both allow a call to wait for ever once
  an exception has left the pool with an image that never completes, as it then does.
- `frames_flush`: the steps of a streaming thread inside a call, the callbacks once they
  have begun, and, for a model that is being flushed, the return of its images. The last
  is the promise of `Flush`, established by the pool; without a flush nothing obliges the
  engine, as an incomplete batch may wait.
- `async`: a thread inside a call runs on; a worker takes the next task (its `wait_for`
  ends, so a missed notification is no excuse); the backend gives back an image when a
  full batch is pending or somebody flushes it. `SleeperWakes` therefore speaks of a
  sleeper whose surfaces are held by images that the backend can complete: with a
  backend that shares surfaces and has batches larger than the pool, everybody waits.
- `publish`: the client answers each attempt to connect, as it does within its timeout,
  and the sleep before the next attempt ends.
- `aggregate`: the thread of the source pad runs on. The branches need not deliver.

The other runs check safety and assume nothing.

## 5. Proofs

All for every value of the constants, from the named `ASSUME`s of the modules alone, except
where said. Each `_proofs` module has one inductive invariant, with a lemma for each part that
takes each action in turn. The properties themselves are not inductive; what follows is
the reason and the strengthening.

`OpenVINOImageInference_proofs`: `TypeCorrect`, `RequestsConserved`, `CounterIsExact`,
`BatchAtHead`, `CloseComplete` and `PoolImplementsInterface`, the refinement of
`ImageInference`, from `Invariant`. `IInv` adds `LockInv` (where a thread is, its locals and
its lock, and that the others stay out from `CloseBegin` on), `BatchInv` (batches are
disjoint, so that subtracting the size of one from the counter removes exactly its images
from `Outstanding`), `OpenInv` (a popped request was the only one that may hold images:
`OpenBatchAtHead` forgets it while the request is in a thread's hands), `LossInv` (a request
lost to an exception leaves an outstanding image, so `Close` is never reached with one
missing) and `CloseInv`. `CloseResetsAll` follows: the counter is zero, so nothing is outstanding, so
no request is in the engine, held or lost. `Flush` returns with counter zero,
hence with nothing pending, which is the step the refinement hangs on.

`InferencePool_proofs`: `TypeCorrect`, `InstanceAlive`, `EntryRegistered`, `DeletedWithLast`
from `AliveInvariant`, and `ModelIsShared`, which assumes that one element has a model
(`OneMaster`; with two, the second one's is ignored). The references may exceed the elements
registered, for an element that starts again registers again: `Counted` is an inequality,
between the count and the cardinality of the registered elements. `InstanceInv` says that an
instance, once an element has it or is about to have it, is that of the entry.
`DeletedWithLast`, about elements that start once, turns the inequality into an equation
(`OpenInv`). `MastersInitialized` and `AllInitialized` say whom the fault of `instance_slaves` spares:
an element with a model is never among those that others fill in (`MasterInv`).

`InferenceImpl_proofs`: `TypeCorrect`, `FrameQueued`, `InOrder` from `ListInvariant`, and
`Interval`. No frame is overtaken, because (`OrderInv`) until an element stops, what it has
delivered and what is in `output_frames` are together all of its frames, so that one that
bypasses the list (`pc = "pass"`) finds none of its own in it. A callback finds its frame, because
(`CoverInv`) each image it may still come for, submitted or about to be, has its frame
in the list, and (`CountInv`) the frame waits for no fewer inferences than such images, so
that a batch is subtracted without going below zero. `NewInv` and `TodoInv` say that
images are submitted once, by the call their frame came with. `Interval` has an
invariant of its own (`RanInv`): where `num_skipped_frames` stands in terms of the last frame
that was inferred on, through the start value `UINT_MAX - 1` and the wrap.

Four more theorems stand on `ListInvariant`. `Exact` (`CountExact`) is an induction of its own
(`ExactInv`): in the set of images a frame awaits, failed ones included, a callback removes
those of its batch, and the frame that joins the list awaits each of its images once, so that
the count and the cardinality change by the same number; a frame whose submission threw
waits for more, and its element never leaves its error (`ThrownKept`). `PushedAtEos` and
`KeepsFrameOrder` assume `NoFailure` (`~MayFail /\ ~MayThrow`): the run `frames_lost` shows that
with failures the frames of an element may stay behind for ever, and `FrameOrder`
promises a stream that loses none. Their invariant `EndInv` goes along the
flush: when model `m` has been flushed, no image of it is pending for a frame up to the
last one of the element that flushes (`FlushedInv`); a callback that is still in its loop
finds a frame that waits before it comes to one of that element (`AheadInv`), for otherwise
the frame at the front would have left (`HeadInv`). At EOS all models are flushed, so the list
has no frame of the element. In the refinement `Decide` is an arrival, `PushFront` and
`PassThrough` are deliveries, the last `FlushModel` is the end of the stream, `Stop` is `Stop`,
and the rest stutters.
`KeepsInterface` (`UsesInterface`) needs no assumption: a callback has a batch of one model and no
more than `batch_size` images (`BatchInv`), and each image is submitted once.

`ImageInferenceAsync_proofs`: `TypeCorrect`, `SurfacesExclusive`, `FlushCoversReturned` from
`PreprocessInvariant`. `StageInv` follows an image from its thread to the queue, the task and
the backend, in one place at a time; `SurfaceInv` says that it holds its surface all the
way, and nobody else does; `SyncInv`, that the surface has the future of its task once
`SubmitImage` has returned (before that it may have an older one, which `Flush` finds ready);
`FlushInv`, that what a flush has to cover and has not found handed over is on a surface its
loop has yet to come to.

`AudioWindow_proofs`: `WindowsAreKept` from `AudioInvariant`, for every size of window, slide and
buffer. `WindowInv` says that the samples kept are those from the start of the next window on
(`Placed`), and that the queue holds the start times of the windows that have begun
(`Queued`), which needs a slide that divides the window; `FreshInv`, that nothing has come before the
sizes are checked; `SlideInv`, that from the check on the slide fits the buffers, until it is set
after a start. A slide of zero never gets as far as a window (`Crash`).

`MetaPublish_proofs`: `TypeCorrect`, `ArrayWritten` and `RetriesInBounds` from `PublishInvariant`. `JsonInv`
says what an unfinished file holds, and that its position is past two bytes exactly when
a message was written, which is how the code decides to write a comma. `SleepInv` says that
`sleep_time` is the power of two that belongs to the attempt, or the maximum interval, and
`HistoryInv` which attempt the client is at in terms of the failures and losses so far: one
more than these, unless it has given up. Both together give the length of the sleep after the
n-th of them. That a
power doubles from one attempt to the next (`PowerDoubles`) is taken from the number of subsets of
`1..n` (`PowerCounts`), for which the library has a theorem without an induction schema.

`MetaAggregate_proofs`: `TypeCorrect`, `FramesAreMerged` from `MergeInvariant`. The frames of the first
pad leave in order, because each pad takes only buffers later than those it took before
(`OrderInv`); without deadlines and reconfigurations no pad that still gives runs ahead
of or falls behind the output (`StepInv`), so each frame that leaves had what the others have kept
of it (`MergeInv`).

`ClassificationHistory_proofs`: the history is a map in the invariants (`Known`, the objects it
has; `Entries`, what it says of each), and a list in the model. The lemmas of the cache say
what each of its operations does to the map: `SetFacts`, `PutFacts` and `PutDrops` (one
entry changes, at most one is dropped, and only from a full cache), `TouchFacts`
(nothing changes but the order), and `FilledFacts`, the same for the pass of `FillROIParams` over all
regions, whose recursive function is followed by an induction over a set of numbers
(`SetInduction`, from the least element of the set on which the claim fails).

`HistoryInv` is the inductive invariant for any properties of the element. Frames leave in
the order they came in (`OrderInv`); results are recorded from the first of the list alone
(`ResultsInv`, `RecordedInv`), so a recorded result is never from a later frame than those
on the source pad, but for the frame that is about to leave. `NotReclassifiedSooner` follows from
`ClassifiedInv`: an object the history has not dropped is marked with its last classification or
a later frame. `MarksNotAhead` needs only that callbacks mark with `frame_num`, which no entry
is ahead of (`MarksInv`). `LabelsNeverOlder` needs that no label is ahead of the result in the
history (`LabelInv`), and that results are recorded in the order of their frames, also when an object
was dropped and put back. `EveryObjectLabelled` and `LabelsFresh` assume `EveryFrame`
(`inference_interval = 1`), without which they are false: see `history_interval`, and with
intervals 2 and 3 an object marked on the skipped fourth frame leaves with a label from three frames
ago. `MarkedInv` says
that a mark then stands for a classification, `CoveredInv` that each frame in the list has one that is
recent enough for it, and `ResultInv` that it is on its way or its result, or a later
one, is in the history: so when the frame's turn has come the label is there.

Model-checked only: the liveness properties, which with ENABLED are out of the prover's reach
(`FlushTerminates` and `SubmitTerminates` of the pool, `FlushEnds`, `FlushTerminates` and
`SleeperWakes` of the preprocessing, `Reconnects`, `EosForwarded`). Every other property of a passing
run is a theorem. The three that are violated (`AllPushedAtEos`, `AlwaysLabelled`,
`PlayingInitialized`) are proved under the assumption that excludes the fault.

## 6. Not modelled

The elements that convert or draw (gvametaconvert, gvawatermark, the post-processors of
gvadetect, gvaclassify and gvainference) have no state that steps interleave on. Loading of
models, wrapping of blobs, parsing of model-proc files and pre-processing are sequential
calls into libraries, as are most of gvatrack (a tracker from a library) and gvapython (the
user's own code). Headers under thirdparty, the metadata libraries and the bindings are
declarations and accessors. These make up most of the repository's lines.

The reuse of buffer addresses and the race of `ThreadPool::schedule` are listed as hazards,
with the reason why no property covers them. Left out without being listed: other races on
plain data (`object_classes`, the counters of gvafpscounter), the wrap of 64-bit counters
and the static `probe_id`. Undefined behaviour is left out where no outcome can be named: an
MQTT client destroyed while its callback sleeps, a Kafka client whose start failed
halfway, pointers to finalized elements. What follows an exception of `StartAsync` depends
on the engine. Of gvametaaggregate, coordinates of regions, segments, negative rates and
flushing seeks are left out.

## 7. Plan

Done, in this order: the request pool and its interface, the frames, the history, the
registry, then the VA-API pipeline, publishing, audio, aggregation, and the proofs. What would come next:

1. Buffer identity in `InferenceImpl`: frames found by address, two items with one buffer.
2. Object classes and restarts in `ClassificationHistory` and `InferencePool`; the copy of an
   element's strings to itself.
3. gvafpscounter: its map of channels under several streaming threads, and the intervals
   it reports.
4. The two theorems under `NoFailure` with a weaker assumption: what an element loses when
   inferences of another one fail.
