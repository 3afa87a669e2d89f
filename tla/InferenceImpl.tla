--------------------------- MODULE InferenceImpl ----------------------------
(***************************************************************************)
(* Class InferenceImpl (gst/inference_elements/base/inference_impl.cpp):   *)
(* the elements that share one model-instance-id call TransformFrameIp,    *)
(* each from its own streaming thread, and the inference backend calls     *)
(* InferenceCompletionCallback or PushFramesIfInferenceFailed from its     *)
(* threads.  Frames wait in output_frames, a single list for all of the    *)
(* elements, until they and all frames before them are complete.           *)
(*                                                                         *)
(* The backend is taken at its word: an image is pending from SubmitImage  *)
(* until the callback it is given to is over, and Flush returns when no    *)
(* image of its model is pending (module ImageInference; property          *)
(* UsesInterface below).                                                   *)
(***************************************************************************)
EXTENDS Integers, Sequences, FiniteSets

CONSTANTS
    Elem,               \* the elements that share the instance
    Model,              \* 1..n: the models, in their order
    MaxFrames,          \* bound: frames of each stream
    MaxRois,            \* bound: regions of interest of a frame
    inference_interval, \* property of the elements
    no_block,           \* property of the elements
    inference_region,   \* [Elem -> {"FULL_FRAME", "ROI_LIST"}]
    batch_size,         \* property of the elements
    UintMax,            \* G_MAXUINT, small
    MayFail,            \* whether the engine may report a failed inference
    MayThrow,           \* whether the filter of regions, or SubmitImages, may throw
    NULL

ASSUME ModelAssumption == IsFiniteSet(Model) /\ Model # {} /\ Model = 1..Cardinality(Model)
ASSUME BoundAssumption == /\ MaxFrames \in Nat /\ MaxRois \in Nat \ {0}
                          /\ UintMax \in Nat /\ inference_interval \in 1..UintMax
                          /\ batch_size \in Nat \ {0}
ASSUME RegionAssumption == inference_region \in [Elem -> {"FULL_FRAME", "ROI_LIST"}]
ASSUME NullAssumption  == NULL \notin Elem

VARIABLES
    mutex,              \* InferenceImpl::_mutex: the element that holds it, or NULL
    pc,                 \* where the streaming thread of each element is
    metas,              \* local of TransformFrameIp: the regions to infer on, 0 to skip
    todo,               \* the images SubmitImages has still to submit, in order
    num_skipped_frames, \* GvaBaseInference::num_skipped_frames
    arrived,            \* how many frames each element has got
    output_frames,      \* std::list<OutputFrame>
    given,              \* what the backend has done with each image
    leaked,             \* pending images of a call that threw: never given back
    callback,           \* the batch of the callback that holds output_frames_mutex
    flushing,           \* the model an element is flushing, 0 for none
    phase,              \* "streaming", "eos" or "stopped", for each element
    delivered,          \* the frames each element has pushed on its source pad
    ran                 \* the frames each element ran the inference on

frameVars == <<num_skipped_frames, arrived, ran>>
callVars  == <<mutex, pc, metas, todo>>
endVars   == <<flushing, phase>>
vars == <<mutex, pc, metas, todo, num_skipped_frames, arrived, output_frames, given,
          leaked, callback, flushing, phase, delivered, ran>>

\* InferenceResult: one region of one frame for one model.
Image == [elem : Elem, frame : 1..MaxFrames, roi : 1..MaxRois, model : Model]
OutputFrame == [elem : Elem, frame : 1..MaxFrames, inference_count : Nat]

Pending == {i \in Image : given[i] = "pending"}

\* The types of the variables; no inference_count goes below zero, and callbacks
\* work on images the backend has.
TypeOK ==
    /\ mutex \in Elem \cup {NULL}
    /\ pc \in [Elem -> {"idle", "enqueue", "submit", "pass", "error"}]
    /\ metas \in [Elem -> 0..MaxRois]
    /\ todo \in [Elem -> Seq(Image)]
    /\ num_skipped_frames \in [Elem -> 0..UintMax]
    /\ arrived \in [Elem -> 0..MaxFrames]
    /\ output_frames \in Seq(OutputFrame)
    /\ given \in [Image -> {"new", "pending", "completed", "failed"}]
    /\ leaked \subseteq Pending
    /\ callback \subseteq Pending
    /\ flushing \in [Elem -> {0} \cup Model]
    /\ phase \in [Elem -> {"streaming", "eos", "stopped"}]
    /\ delivered \in [Elem -> Seq(1..MaxFrames)]
    /\ ran \in [Elem -> SUBSET (1..MaxFrames)]

\* gva_base_inference_cleanup sets num_skipped_frames to UINT_MAX - 1.
Init ==
    /\ mutex = NULL
    /\ pc = [e \in Elem |-> "idle"]
    /\ metas = [e \in Elem |-> 0]
    /\ todo = [e \in Elem |-> <<>>]
    /\ num_skipped_frames = [e \in Elem |-> UintMax - 1]
    /\ arrived = [e \in Elem |-> 0]
    /\ output_frames = <<>>
    /\ given = [i \in Image |-> "new"]
    /\ leaked = {}
    /\ callback = {}
    /\ flushing = [e \in Elem |-> 0]
    /\ phase = [e \in Elem |-> "streaming"]
    /\ delivered = [e \in Elem |-> <<>>]
    /\ ran = [e \in Elem |-> {}]

-----------------------------------------------------------------------------
(* TransformFrameIp, on the streaming thread *)

\* The frames of a region list are filtered, a full frame is one region.
Regions(e) == IF inference_region[e] = "FULL_FRAME" THEN {1} ELSE 0..MaxRois

\* ++num_skipped_frames, an unsigned int
Skipped(e) == (num_skipped_frames[e] + 1) % (UintMax + 1)

\* Mutant: one frame too early.
ExecutedEarly(e, full) == Skipped(e) + 1 >= inference_interval /\ ~(no_block /\ full)

\* INFERENCE_EXECUTED: inference_interval frames have passed since the last
\* one and, under no-block, the queue of no model is full.
Executed(e, full) == Skipped(e) >= inference_interval /\ ~(no_block /\ full)

\* Takes _mutex, decides whether to run the inference, counts the regions.
Decide(e) ==
    \E full \in BOOLEAN, n \in Regions(e) :
       /\ pc[e] = "idle"
       /\ phase[e] = "streaming"
       /\ flushing[e] = 0
       /\ arrived[e] < MaxFrames
       /\ mutex = NULL
       /\ mutex' = e
       /\ num_skipped_frames' = [num_skipped_frames EXCEPT ![e] =
                                    IF Executed(e, full) THEN 0 ELSE Skipped(e)]
       /\ ran' = [ran EXCEPT ![e] =
                     IF Executed(e, full) THEN @ \cup {arrived[e] + 1} ELSE @]
       /\ metas' = [metas EXCEPT ![e] = IF Executed(e, full) THEN n ELSE 0]
       /\ arrived' = [arrived EXCEPT ![e] = @ + 1]
       /\ pc' = [pc EXCEPT ![e] = "enqueue"]
       /\ UNCHANGED <<todo, output_frames, given, leaked, callback, endVars, delivered>>

\* The filter of the regions, is_roi_inference_needed, throws: GST_FLOW_ERROR.
FilterThrow(e) ==
    /\ MayThrow
    /\ inference_region[e] = "ROI_LIST"
    /\ pc[e] = "enqueue"
    /\ mutex' = NULL
    /\ metas' = [metas EXCEPT ![e] = 0]
    /\ pc' = [pc EXCEPT ![e] = "error"]
    /\ UNCHANGED <<todo, frameVars, output_frames, given, leaked, callback, endVars, delivered>>

inference_count(e) == metas[e] * Cardinality(Model)

\* SubmitImages goes through the models, and for each through the regions.
Images(e) == [k \in 1..inference_count(e) |->
                 [elem |-> e, frame |-> arrived[e],
                  roi |-> ((k - 1) % metas[e]) + 1, model |-> ((k - 1) \div metas[e]) + 1]]

\* Mutant: a frame without inference does not wait for those before it.
EnqueueOvertake(e) ==
    /\ pc[e] = "enqueue"
    /\ callback = {}
    /\ IF inference_count(e) = 0
         THEN /\ mutex' = NULL
              /\ pc' = [pc EXCEPT ![e] = "pass"]
              /\ UNCHANGED output_frames
         ELSE /\ output_frames' = Append(output_frames,
                     [elem |-> e, frame |-> arrived[e], inference_count |-> inference_count(e)])
              /\ pc' = [pc EXCEPT ![e] = "submit"]
              /\ UNCHANGED mutex
    /\ todo' = [todo EXCEPT ![e] = Images(e)]
    /\ metas' = [metas EXCEPT ![e] = 0]
    /\ UNCHANGED <<frameVars, given, leaked, callback, endVars, delivered>>

\* Under output_frames_mutex: a frame without inference passes through when no
\* frame is waiting, otherwise it joins the list and leaves with its turn.
Enqueue(e) ==
    /\ pc[e] = "enqueue"
    /\ callback = {}
    /\ IF inference_count(e) = 0 /\ output_frames = <<>>
         THEN UNCHANGED output_frames
         ELSE output_frames' = Append(output_frames,
                  [elem |-> e, frame |-> arrived[e], inference_count |-> inference_count(e)])
    /\ IF inference_count(e) = 0
         THEN /\ mutex' = NULL
              /\ pc' = [pc EXCEPT ![e] = IF output_frames = <<>> THEN "pass" ELSE "idle"]
         ELSE /\ pc' = [pc EXCEPT ![e] = "submit"]
              /\ UNCHANGED mutex
    /\ todo' = [todo EXCEPT ![e] = Images(e)]
    /\ metas' = [metas EXCEPT ![e] = 0]
    /\ UNCHANGED <<frameVars, given, leaked, callback, endVars, delivered>>

\* GST_FLOW_OK: the base class pushes the frame, with no lock held.
PassThrough(e) ==
    /\ pc[e] = "pass"
    /\ delivered' = [delivered EXCEPT ![e] = Append(@, arrived[e])]
    /\ pc' = [pc EXCEPT ![e] = "idle"]
    /\ UNCHANGED <<mutex, metas, todo, frameVars, output_frames, given, leaked,
                   callback, endVars>>

\* model.inference->SubmitImage: after the last one the call returns.
Submit(e) ==
    /\ pc[e] = "submit"
    /\ given' = [given EXCEPT ![Head(todo[e])] = "pending"]
    /\ todo' = [todo EXCEPT ![e] = Tail(@)]
    /\ IF Len(todo[e]) = 1
         THEN mutex' = NULL /\ pc' = [pc EXCEPT ![e] = "idle"]
         ELSE UNCHANGED <<mutex, pc>>
    /\ UNCHANGED <<metas, frameVars, output_frames, leaked, callback, endVars, delivered>>

\* An exception leaves TransformFrameIp: frame_to_base_inference turns it into
\* GST_FLOW_ERROR, the frame stays in output_frames, the stream is over.  When
\* it comes out of SubmitImage the backend has lost the image, with the others
\* of the batch that was being filled.
SubmitThrow(e) ==
    /\ MayThrow
    /\ pc[e] = "submit"
    /\ \/ UNCHANGED <<given, leaked>>
       \/ \E batch \in SUBSET (Pending \ (leaked \cup callback)) :
             /\ Cardinality(batch) < batch_size
             /\ \A i \in batch : i.model = Head(todo[e]).model
             /\ given' = [given EXCEPT ![Head(todo[e])] = "pending"]
             /\ leaked' = leaked \cup batch \cup {Head(todo[e])}
    /\ todo' = [todo EXCEPT ![e] = <<>>]
    /\ mutex' = NULL
    /\ pc' = [pc EXCEPT ![e] = "error"]
    /\ UNCHANGED <<metas, frameVars, output_frames, callback, endVars, delivered>>

-----------------------------------------------------------------------------
(* The callbacks of the backend, under output_frames_mutex *)

\* Mutant: frames of different elements with one number are not told apart.
FrameOfNumber(image, k) == output_frames[k].frame = image.frame

FrameOf(image, k) == /\ output_frames[k].elem = image.elem
                     /\ output_frames[k].frame = image.frame

Batches == {batch \in SUBSET (Pending \ leaked) :
               /\ batch # {}
               /\ Cardinality(batch) <= batch_size
               /\ \A i, j \in batch : i.model = j.model}

\* Mutant: a batch counts as one inference of a frame.
UpdateOnce(batch) ==
    [k \in DOMAIN output_frames |->
        [output_frames[k] EXCEPT
            !.inference_count = IF \E i \in batch : FrameOf(i, k) THEN @ - 1 ELSE @]]

\* UpdateOutputFrames, for every image of the batch: the frame it belongs to
\* waits for one inference fewer.
UpdateOutputFrames(batch) ==
    [k \in DOMAIN output_frames |->
        [output_frames[k] EXCEPT
            !.inference_count = @ - Cardinality({i \in batch : FrameOf(i, k)})]]

\* InferenceCompletionCallback.  Post-processing cannot fail the callback: its
\* exceptions are logged.
CompletionCallback(batch) ==
    /\ callback = {}
    /\ callback' = batch
    /\ output_frames' = UpdateOutputFrames(batch)
    /\ UNCHANGED <<callVars, frameVars, given, leaked, endVars, delivered>>

\* Mutant: the frame at the front goes, whatever it waits for.
CompleteAnyway == output_frames # <<>>

Complete == output_frames # <<>> /\ Head(output_frames).inference_count = 0

\* Mutant: frames of a stopped element are pushed too.
PushFrontStopped ==
    LET e == Head(output_frames).elem
    IN /\ callback # {}
       /\ Complete
       /\ output_frames' = Tail(output_frames)
       /\ delivered' = [delivered EXCEPT ![e] = Append(@, Head(output_frames).frame)]
       /\ UNCHANGED <<callVars, frameVars, given, leaked, callback, endVars>>

\* One turn of the loop of PushOutput: PushBufferToSrcPad does not push the
\* frames of a stopped element.
PushFront ==
    LET e == Head(output_frames).elem
    IN /\ callback # {}
       /\ Complete
       /\ output_frames' = Tail(output_frames)
       /\ delivered' = IF phase[e] = "stopped" THEN delivered
                       ELSE [delivered EXCEPT ![e] = Append(@, Head(output_frames).frame)]
       /\ UNCHANGED <<callVars, frameVars, given, leaked, callback, endVars>>

\* The callback returns; only then does the backend count its images as done.
CallbackReturn ==
    /\ callback # {}
    /\ ~Complete
    /\ callback' = {}
    /\ given' = [i \in Image |-> IF i \in callback THEN "completed" ELSE given[i]]
    /\ UNCHANGED <<callVars, frameVars, output_frames, leaked, endVars, delivered>>

\* PushFramesIfInferenceFailed: an image whose frame is found in output_frames
\* is skipped; one whose frame is not would be pushed from past the end of the
\* list, which FrameOfImageQueued excludes.
InferenceFailed(batch) ==
    /\ MayFail
    /\ callback = {}
    /\ given' = [i \in Image |-> IF i \in batch THEN "failed" ELSE given[i]]
    /\ UNCHANGED <<callVars, frameVars, output_frames, leaked, callback, endVars, delivered>>

-----------------------------------------------------------------------------
(* End of stream, and stop *)

\* SinkEvent on EOS, and FlushInference on stop, flush the models in their
\* order.  Stop comes from the application, when the pads are inactive and the
\* streaming thread is out of the element.
Ready(e) == pc[e] \in {"idle", "error"} /\ flushing[e] = 0

SinkEventEos(e) ==
    /\ Ready(e)
    /\ phase[e] = "streaming"
    /\ flushing' = [flushing EXCEPT ![e] = 1]
    /\ UNCHANGED <<callVars, frameVars, output_frames, given, leaked, callback, phase, delivered>>

Stop(e) ==
    /\ Ready(e)
    /\ phase[e] # "stopped"
    /\ phase' = [phase EXCEPT ![e] = "stopped"]
    /\ flushing' = [flushing EXCEPT ![e] = 1]
    /\ UNCHANGED <<callVars, frameVars, output_frames, given, leaked, callback, delivered>>

\* Mutant: the model is not waited for.
FlushModelAnyway(e) ==
    /\ flushing[e] # 0
    /\ IF flushing[e] + 1 \in Model
         THEN /\ flushing' = [flushing EXCEPT ![e] = @ + 1]
              /\ UNCHANGED phase
         ELSE /\ flushing' = [flushing EXCEPT ![e] = 0]
              /\ phase' = [phase EXCEPT ![e] = IF @ = "stopped" THEN @ ELSE "eos"]
    /\ UNCHANGED <<callVars, frameVars, output_frames, given, leaked, callback, delivered>>

\* Mutant: the flush of one model waits for the images of all.
FlushModelAll(e) ==
    /\ flushing[e] # 0
    /\ Pending = {}
    /\ IF flushing[e] + 1 \in Model
         THEN /\ flushing' = [flushing EXCEPT ![e] = @ + 1]
              /\ UNCHANGED phase
         ELSE /\ flushing' = [flushing EXCEPT ![e] = 0]
              /\ phase' = [phase EXCEPT ![e] = IF @ = "stopped" THEN @ ELSE "eos"]
    /\ UNCHANGED <<callVars, frameVars, output_frames, given, leaked, callback, delivered>>

\* Flush of one model returns; after the last one the base class forwards EOS.
FlushModel(e) ==
    /\ flushing[e] # 0
    /\ \A i \in Pending : i.model # flushing[e]
    /\ IF flushing[e] + 1 \in Model
         THEN /\ flushing' = [flushing EXCEPT ![e] = @ + 1]
              /\ UNCHANGED phase
         ELSE /\ flushing' = [flushing EXCEPT ![e] = 0]
              /\ phase' = [phase EXCEPT ![e] = IF @ = "stopped" THEN @ ELSE "eos"]
    /\ UNCHANGED <<callVars, frameVars, output_frames, given, leaked, callback, delivered>>

-----------------------------------------------------------------------------
Transforming(e) == \/ FilterThrow(e) \/ Enqueue(e) \/ PassThrough(e)
                   \/ Submit(e) \/ SubmitThrow(e)

CallbackStart(batch) == CompletionCallback(batch) \/ InferenceFailed(batch)
CallbackStep == PushFront \/ CallbackReturn

Next == \/ \E e \in Elem : Decide(e) \/ SinkEventEos(e) \/ Stop(e)
        \/ \E e \in Elem : Transforming(e) \/ FlushModel(e)
        \/ \E batch \in Batches : CallbackStart(batch)
        \/ CallbackStep

Spec == Init /\ [][Next]_vars

\* Threads that are in a call run on, and the backend keeps the promise of
\* Flush: the images of a model that is being flushed are given back.
Fairness == /\ \A e \in Elem : WF_vars(Transforming(e)) /\ WF_vars(FlushModel(e))
            /\ WF_vars(CallbackStep)
            /\ \A m \in Model : WF_vars(/\ \E e \in Elem : flushing[e] = m
                                        /\ \E batch \in Batches :
                                              /\ \A i \in batch : i.model = m
                                              /\ CallbackStart(batch))

FairSpec == Spec /\ Fairness

-----------------------------------------------------------------------------
(* Properties *)

\* Every image a callback may still come for has its frame in output_frames,
\* waiting: PushOutput lets no frame go before its last inference, and the
\* search of UpdateOutputFrames and PushFramesIfInferenceFailed, from another
\* thread, finds the frame.
FrameOfImageQueued ==
    \A i \in Pending \ callback :
        \E k \in DOMAIN output_frames :
            FrameOf(i, k) /\ output_frames[k].inference_count > 0

\* The inferences a waiting frame may still get, or has lost to a failure.
Awaited(k) == {i \in Image :
    /\ FrameOf(i, k)
    /\ \/ i \in Pending \ callback
       \/ given[i] = "failed"
       \/ \E e \in Elem : \E j \in DOMAIN todo[e] : todo[e][j] = i}

\* inference_count, set by the streaming thread and decremented by callbacks of
\* several models, is the number of inferences the frame still waits for; only
\* the frame whose submission threw waits for more than it will get.
CountExact ==
    \A k \in DOMAIN output_frames :
        LET f == output_frames[k]
        IN /\ f.inference_count >= Cardinality(Awaited(k))
           /\ \/ f.inference_count = Cardinality(Awaited(k))
              \/ pc[f.elem] = "error" /\ f.frame = arrived[f.elem]

\* The frames of a stream leave in their order, whether they pass through on the
\* streaming thread or are pushed by a callback, with inferences completing in
\* any order and other elements in the same list, even after failures.
FramesInOrder == \A e \in Elem : \A k \in DOMAIN delivered[e] : delivered[e][k] = k

\* "An interval of N performs inference on every Nth frame"
\* (gva_base_inference.c, inference-interval): never more often, and without
\* no-block exactly so, from the first frame on.
IntervalKept ==
    \A e \in Elem :
        /\ \A j, k \in ran[e] : j < k => k - j >= inference_interval
        /\ ~no_block => ran[e] = {k \in 1..arrived[e] : k % inference_interval
                                                         = 1 % inference_interval}

\* "we push buffers from separate thread" (inference_impl.cpp, SubmitImages):
\* when the end of the stream is forwarded all of its frames have been pushed.
AllPushedAtEos ==
    \A e \in Elem : phase[e] = "eos" => Len(delivered[e]) = arrived[e]

\* The elements keep the promise of FrameOrder to their downstream.
Output == INSTANCE FrameOrder
ImplementsFrameOrder == Output!Spec

\* The backend this module assumes is the interface ImageInference, for each
\* model, and the elements use it as it may be used.
Backend(m) == INSTANCE ImageInference WITH
    Image    <- {i \in Image : i.model = m},
    Thread   <- Elem,
    given    <- [i \in {j \in Image : j.model = m} |-> given[i]],
    flushing <- {e \in Elem : flushing[e] = m}
UsesInterface == /\ \A m \in Model : Backend(m)!Init
                 /\ [][\A m \in Model : [Backend(m)!Next]_(Backend(m)!vars)]_vars

\* The flush at end of stream, and the one at stop, come to an end.
FlushEnds == \A e \in Elem : (flushing[e] # 0) ~> (flushing[e] = 0)
=============================================================================
