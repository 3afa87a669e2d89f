----------------------- MODULE ClassificationHistory ------------------------
(***************************************************************************)
(* What gvaclassify remembers of tracked objects when reclassify-interval  *)
(* is not 1 (gst/inference_elements/gvaclassify/classification_history).   *)
(* The streaming thread asks IsROIClassificationNeeded for each region of  *)
(* a frame; callbacks record results (UpdateROIParams) when the frame's    *)
(* turn to leave has come; whoever pushes a frame fills in from the        *)
(* history what its objects lack (FillROIParams, a probe on the source     *)
(* pad).  history_mutex covers each of these alone, so that the streaming  *)
(* thread is ahead of the frames that leave.                               *)
(*                                                                         *)
(* Frames wait and leave as in InferenceImpl, here with one element, one   *)
(* model and images given back one by one; which frames the inference runs *)
(* on is what IntervalKept of that module says.                            *)
(***************************************************************************)
EXTENDS Naturals, Sequences, SequencesExt

CONSTANTS
    Object,                      \* the ids gvatrack gives to objects
    Untracked,                   \* a region without an id
    CLASSIFICATION_HISTORY_SIZE,
    inference_interval,          \* property of the element
    reclassify_interval,         \* property of the element, not 1
    MaxFrames,                   \* bound: frames of the stream
    MaxRegions,                  \* bound: regions of a frame
    NULL

ASSUME ObjectAssumption == Untracked \notin Object /\ NULL \notin Object
ASSUME SizeAssumption   == CLASSIFICATION_HISTORY_SIZE \in Nat \ {0}
ASSUME IntervalAssumption == /\ inference_interval \in Nat \ {0}
                             /\ reclassify_interval \in Nat \ {1}
                             /\ MaxFrames \in Nat /\ MaxRegions \in Nat

VARIABLES
    frame_num,          \* GvaBaseInference::frame_num
    pc,                 \* where the streaming thread is
    frame,              \* the frame it has
    todo,               \* the regions it has still to filter
    metas,              \* the regions to run the inference on
    output_frames,      \* InferenceImpl::output_frames
    pushing,            \* a callback holds output_frames_mutex
    history,            \* LRUCache<int, ROIClassificationHistory>
    current_num_frame,  \* ClassificationHistory::current_num_frame
    pushed,             \* the last frame on the source pad
    label,              \* the frame the last label of each object comes from
    classified,         \* the frames on which each object was classified
    evicted             \* the objects the history has ever dropped

LRU == INSTANCE LRUCache WITH MAX_SIZE <- CLASSIFICATION_HISTORY_SIZE

threadVars  == <<frame_num, pc, frame, todo, metas>>
historyVars == <<history, current_num_frame, evicted>>
outputVars  == <<pushed, label>>
vars == <<threadVars, output_frames, pushing, historyVars, outputVars, classified>>

Region == Object \cup {Untracked}
Source == 0..MaxFrames

\* The regions of a frame, in the order of their metadata.
Regions == UNION {{s \in [1..n -> Region] : \A i, j \in 1..n : i # j => s[i] # s[j]} :
                     n \in 0..MaxRegions}

Frame == [num : Source, regions : Regions]

ASSUME NullAssumption == NULL \notin Source /\ NULL \notin Frame

\* layers_to_roi_params, for one output layer: where the result comes from.
ROIClassificationHistory == [frame_of_last_update : Source, result : Source \cup {NULL}]

\* The types of the variables; the history holds no more than its size and no
\* object twice.
TypeOK ==
    /\ frame_num \in Source
    /\ pc \in {"idle", "filter", "enqueue", "pass"}
    /\ frame \in Frame \cup {NULL}
    /\ todo \in Regions
    /\ metas \subseteq Region
    /\ output_frames \in Seq([frame : Frame, inferred : SUBSET Region,
                              waiting : SUBSET Region, classifications : SUBSET Object])
    /\ pushing \in BOOLEAN
    /\ history \in Seq([key : Object, value : ROIClassificationHistory])
    /\ Len(history) <= CLASSIFICATION_HISTORY_SIZE
    /\ \A k, l \in DOMAIN history : history[k].key = history[l].key => k = l
    /\ current_num_frame \in Source
    /\ pushed \in Frame \cup {NULL}
    /\ label \in [Object -> Source \cup {NULL}]
    /\ classified \in [Object -> SUBSET Source]
    /\ evicted \subseteq Object

Init ==
    /\ frame_num = 0
    /\ pc = "idle"
    /\ frame = NULL
    /\ todo = <<>>
    /\ metas = {}
    /\ output_frames = <<>>
    /\ pushing = FALSE
    /\ history = <<>>
    /\ current_num_frame = 0
    /\ pushed = NULL
    /\ label = [o \in Object |-> NULL]
    /\ classified = [o \in Object |-> {}]
    /\ evicted = {}

-----------------------------------------------------------------------------
(* The streaming thread *)

TransformFrameIp(regions) ==
    /\ pc = "idle"
    /\ frame_num < MaxFrames
    /\ frame' = [num |-> frame_num, regions |-> regions]
    /\ todo' = regions
    /\ pc' = "filter"
    /\ UNCHANGED <<frame_num, metas, output_frames, pushing, historyVars, outputVars,
                   classified>>

Entry(o) == LRU!value(history, o)

\* The object is put in the history, or its entry is marked with the frame.
Mark(o, num) ==
    LET result == IF LRU!count(history, o) THEN Entry(o).result ELSE NULL
    IN /\ history' = LRU!put(history, o, [frame_of_last_update |-> num, result |-> result])
       /\ evicted' = evicted \cup LRU!Dropped(history, o)

Age(o) == frame.num - Entry(o).frame_of_last_update

\* Mutant: one frame late.
NeededLate(o) ==
    \/ o = Untracked
    \/ LRU!count(history, o) => reclassify_interval # 0 /\ Age(o) > reclassify_interval

\* Mutant: one frame early.
NeededEarly(o) ==
    \/ o = Untracked
    \/ LRU!count(history, o) => reclassify_interval # 0 /\ Age(o) + 1 >= reclassify_interval

\* An untracked region always is, an object when it is new to the history or
\* was marked reclassify_interval frames ago.
IsROIClassificationNeeded(o) ==
    \/ o = Untracked
    \/ LRU!count(history, o) => reclassify_interval # 0 /\ Age(o) >= reclassify_interval

\* One region goes through the filter; get() alone makes the entry recent.
FilterRegion ==
    LET o == Head(todo)
    IN /\ pc = "filter"
       /\ todo # <<>>
       /\ todo' = Tail(todo)
       /\ current_num_frame' = frame.num
       /\ IF IsROIClassificationNeeded(o)
            THEN metas' = metas \cup {o}
            ELSE UNCHANGED metas
       /\ IF o # Untracked /\ IsROIClassificationNeeded(o)
            THEN Mark(o, frame.num)
            ELSE /\ history' = IF o = Untracked \/ reclassify_interval = 0 THEN history
                               ELSE LRU!make_recently_used(history, o)
                 /\ UNCHANGED evicted
       /\ UNCHANGED <<frame_num, pc, frame, output_frames, pushing, outputVars, classified>>

\* The frames inference-interval selects.
Executed(num) == num % inference_interval = 0

\* The regions are all filtered, on every frame; only then does the interval
\* decide whether the inference runs.  frame_num is incremented.
CountFrame ==
    /\ pc = "filter"
    /\ todo = <<>>
    /\ metas' = IF Executed(frame.num) THEN metas ELSE {}
    /\ classified' = [o \in Object |-> IF o \in metas' THEN classified[o] \cup {frame.num}
                                       ELSE classified[o]]
    /\ frame_num' = frame_num + 1
    /\ pc' = "enqueue"
    /\ UNCHANGED <<frame, todo, output_frames, pushing, historyVars, outputVars>>

Enqueue ==
    /\ pc = "enqueue"
    /\ ~pushing
    /\ IF metas = {} /\ output_frames = <<>>
         THEN pc' = "pass" /\ UNCHANGED output_frames
         ELSE /\ pc' = "idle"
              /\ output_frames' = Append(output_frames,
                     [frame |-> frame, inferred |-> metas, waiting |-> metas,
                      classifications |-> {}])
    /\ metas' = {}
    /\ UNCHANGED <<frame_num, frame, todo, pushing, historyVars, outputVars, classified>>

-----------------------------------------------------------------------------
(* Frames on the source pad *)

Tracked(regions) == ToSet(regions) \ {Untracked}

\* FillROIParams: get() makes the objects of a frame recent, one after the other.
Filled(regions) ==
    LET get[n \in 0..Len(regions)] ==
            IF n = 0 THEN history
            ELSE LET o == regions[n]
                 IN IF o # Untracked /\ LRU!count(get[n - 1], o)
                      THEN LRU!make_recently_used(get[n - 1], o) ELSE get[n - 1]
    IN get[Len(regions)]

\* FillROIParams, then the push: an object has the label of its inference on
\* this frame, or else the one in the history, if any.
Push(f, inferred) ==
    /\ pushed' = f
    /\ label' = [o \in Object |->
                    IF o \in inferred THEN f.num
                    ELSE IF o \in ToSet(f.regions)
                      THEN IF LRU!count(history, o) THEN Entry(o).result ELSE NULL
                      ELSE label[o]]
    /\ history' = Filled(f.regions)

PassThrough ==
    /\ pc = "pass"
    /\ Push(frame, {})
    /\ pc' = "idle"
    /\ UNCHANGED <<frame_num, frame, todo, metas, output_frames, pushing,
                   current_num_frame, evicted, classified>>

\* Mutant: the result is recorded at once, not when it is the frame's turn.
CompleteAndRecord(k, o) ==
    /\ ~pushing
    /\ o \in output_frames[k].waiting
    /\ output_frames' = [output_frames EXCEPT ![k].waiting = @ \ {o}]
    /\ history' = IF o # Untracked /\ LRU!count(history, o)
                    THEN LRU!set(history, o, [Entry(o) EXCEPT
                                                 !.result = output_frames[k].frame.num])
                    ELSE history
    /\ pushing' = TRUE
    /\ UNCHANGED <<threadVars, current_num_frame, evicted, outputVars, classified>>

\* InferenceCompletionCallback, up to the loop of PushOutput.
CompletionCallback(k, o) ==
    /\ ~pushing
    /\ o \in output_frames[k].waiting
    /\ output_frames' = [output_frames EXCEPT
                            ![k].waiting = @ \ {o},
                            ![k].classifications = @ \cup ({o} \ {Untracked})]
    /\ pushing' = TRUE
    /\ UNCHANGED <<threadVars, historyVars, outputVars, classified>>

Complete == output_frames # <<>> /\ Head(output_frames).waiting = {}

\* Mutant: the frame of an entry that is put back is newer than current_num_frame.
UpdateUnseen(o) ==
    LET num == Head(output_frames).frame.num
    IN /\ pushing
       /\ Complete
       /\ o \in Head(output_frames).classifications
       /\ output_frames' = [output_frames EXCEPT ![1].classifications = @ \ {o}]
       /\ IF LRU!count(history, o)
            THEN /\ history' = LRU!set(history, o, [Entry(o) EXCEPT !.result = num])
                 /\ UNCHANGED evicted
            ELSE /\ history' = LRU!put(history, o, [frame_of_last_update |-> frame_num,
                                                    result |-> num])
                 /\ evicted' = evicted \cup LRU!Dropped(history, o)
       /\ UNCHANGED <<threadVars, pushing, current_num_frame, outputVars, classified>>

\* UpdateROIParams of one result; an object that was dropped in the meantime is
\* put back, marked with the frame the streaming thread has got to.
UpdateROIParams(o) ==
    LET num == Head(output_frames).frame.num
    IN /\ pushing
       /\ Complete
       /\ o \in Head(output_frames).classifications
       /\ output_frames' = [output_frames EXCEPT ![1].classifications = @ \ {o}]
       /\ IF LRU!count(history, o)
            THEN /\ history' = LRU!set(history, o, [Entry(o) EXCEPT !.result = num])
                 /\ UNCHANGED <<current_num_frame, evicted>>
            ELSE /\ history' = LRU!put(history, o, [frame_of_last_update |-> frame_num,
                                                    result |-> num])
                 /\ current_num_frame' = frame_num
                 /\ evicted' = evicted \cup LRU!Dropped(history, o)
       /\ UNCHANGED <<threadVars, pushing, outputVars, classified>>

\* Mutant: the frame is pushed before its results are recorded.
PushUnrecorded ==
    /\ pushing
    /\ Complete
    /\ Push(Head(output_frames).frame, Head(output_frames).inferred)
    /\ output_frames' = Tail(output_frames)
    /\ UNCHANGED <<threadVars, pushing, current_num_frame, evicted, classified>>

\* The results are recorded: the frame is pushed and leaves the list.
PushFront ==
    /\ pushing
    /\ Complete
    /\ Head(output_frames).classifications = {}
    /\ Push(Head(output_frames).frame, Head(output_frames).inferred)
    /\ output_frames' = Tail(output_frames)
    /\ UNCHANGED <<threadVars, pushing, current_num_frame, evicted, classified>>

CallbackReturn ==
    /\ pushing
    /\ ~Complete
    /\ pushing' = FALSE
    /\ UNCHANGED <<threadVars, output_frames, historyVars, outputVars, classified>>

-----------------------------------------------------------------------------
Next == \/ \E regions \in Regions : TransformFrameIp(regions)
        \/ FilterRegion
        \/ CountFrame
        \/ Enqueue
        \/ PassThrough
        \/ \E k \in DOMAIN output_frames, o \in Region : CompletionCallback(k, o)
        \/ \E o \in Object : UpdateROIParams(o)
        \/ PushFront
        \/ CallbackReturn

Spec == Init /\ [][Next]_vars

-----------------------------------------------------------------------------
(* Properties *)

\* On every frame that the inference interval selects, each tracked object has a
\* label, from this frame or from the history, though the streaming thread has
\* already marked it as classified before its result exists ("the
\* inference-interval is applied before determining if an object is to be
\* reclassified", gstgvaclassify.c).  Objects the history had no room for are
\* excepted.
AlwaysLabelled ==
    pushed # NULL /\ Executed(pushed.num) =>
        \A o \in Tracked(pushed.regions) \ evicted : label[o] # NULL

\* A label never comes from a later frame, and, with the inference on every
\* frame, never from reclassify_interval frames ago or more: a frame that waited
\* in output_frames gets the label that was current when it came in.
LabelFresh ==
    pushed # NULL =>
        \A o \in Tracked(pushed.regions) :
            label[o] # NULL =>
                /\ label[o] <= pushed.num
                /\ o \notin evicted /\ reclassify_interval # 0 =>
                       pushed.num - label[o] < reclassify_interval

\* "Tracked objects will be reclassified every N frames", 0 for never
\* (gstgvaclassify.c, reclassify-interval): not sooner, with results still on
\* their way, unless the history has dropped the object.
ReclassifyInterval ==
    \A o \in Object \ evicted : \A j, k \in classified[o] :
        j < k => reclassify_interval # 0 /\ k - j >= reclassify_interval

\* No entry is marked with a frame later than current_num_frame, although a
\* callback marks with the frame_num it reads without a lock: the differences
\* of unsigned numbers in IsROIClassificationNeeded and FillROIParams do not wrap.
NoFutureMark ==
    \A k \in DOMAIN history : history[k].value.frame_of_last_update <= current_num_frame

\* The labels of an object never go back to an older classification.
LabelsAdvance ==
    [][\A o \in Object : label[o] # NULL /\ label'[o] # NULL => label'[o] >= label[o]]_label
=============================================================================
