---------------------------- MODULE MetaAggregate ----------------------------
(***************************************************************************)
(* Element gvametaaggregate (gst/elements/gvametaaggregate), a subclass of *)
(* GstAggregator: the frames of the first sink pad go on downstream, with  *)
(* the metadata of the frames of the same time on the other pads.  Each    *)
(* pad is fed by the streaming thread of its branch; the thread of the     *)
(* source pad calls aggregate when every pad has a buffer or is at its     *)
(* end, or when the deadline of a live pipeline has passed.                *)
(*                                                                         *)
(* The branches come from one source: a frame has the same time in each,   *)
(* frame k from k to k + 1, and a branch may drop frames.  Left out: the   *)
(* coordinates of the regions, segments other than the whole stream,       *)
(* negative rates and flushing.                                            *)
(***************************************************************************)
EXTENDS Integers, Sequences

CONSTANTS
    Pad,                \* 1..n: the sink pads in their order
    MaxFrames,          \* bound: frames of the source
    MaxQueue,           \* bound: buffers queued on a pad
    MaxTimeouts,        \* bound: deadlines passed; 0 if the pipeline is not live
    MaxReconfigure      \* bound: reconfigure events from downstream

NONE == -1              \* GST_CLOCK_TIME_NONE, no buffer
First == 1              \* the first sink pad

ASSUME PadAssumption == /\ Pad \subseteq Nat /\ First \in Pad
ASSUME BoundAssumption == /\ MaxFrames \in Nat /\ MaxQueue \in Nat \ {0}
                          /\ MaxTimeouts \in Nat /\ MaxReconfigure \in Nat

VARIABLES
    fps,                \* framerate of the caps: 0 for a variable one
    durations,          \* whether the buffers have a duration
    queue,              \* the buffers waiting on each pad
    came,               \* the frames that have come on each pad
    ended,              \* the pads that got EOS
    buffer,             \* pad->buffer
    end_time,           \* pad->end_time
    nframes,            \* output frames so far
    position,           \* position of the source pad's segment
    needs_reconfigure,  \* flag of the source pad
    call,               \* the call of aggregate to come: "none", "data", "timeout"
    output,             \* the frames pushed, with the metadata they carry
    finished,           \* flow of the source pad: "ok", "eos" or "error"
    timeouts,           \* how many deadlines have passed
    reconfigures        \* how many reconfigure events have come

padVars == <<queue, came, ended>>
outVars == <<buffer, end_time, nframes, position, output, finished>>
vars == <<fps, durations, padVars, outVars, needs_reconfigure, call, timeouts, reconfigures>>

Frame == 0..(MaxFrames - 1)

\* The types of the variables; the output never starts past its frame count.
TypeOK ==
    /\ fps \in {0, 1} /\ durations \in BOOLEAN
    /\ queue \in [Pad -> Seq(Frame)]
    /\ came \in [Pad -> SUBSET Frame]
    /\ ended \subseteq Pad
    /\ buffer \in [Pad -> Frame \cup {NONE}]
    /\ end_time \in [Pad -> 0..MaxFrames \cup {NONE}]
    /\ nframes \in Nat /\ position \in 0..nframes \cup {NONE}
    /\ needs_reconfigure \in BOOLEAN
    /\ call \in {"none", "data", "timeout"}
    /\ output \in Seq([frame : Frame, metas : SUBSET ((Pad \ {First}) \X Frame)])
    /\ finished \in {"ok", "eos", "error"}
    /\ timeouts \in 0..MaxTimeouts /\ reconfigures \in 0..MaxReconfigure

\* A source pad is negotiated before it is first used.  The end time of a pad is
\* zero when the pad was requested after the reset.
Init ==
    /\ fps \in {0, 1} /\ durations \in BOOLEAN
    /\ queue = [p \in Pad |-> <<>>]
    /\ came = [p \in Pad |-> {}]
    /\ ended = {}
    /\ buffer = [p \in Pad |-> NONE]
    /\ end_time \in [Pad -> {NONE, 0}]
    /\ nframes = 0
    /\ position = NONE
    /\ needs_reconfigure = TRUE
    /\ call = "none"
    /\ output = <<>>
    /\ finished = "ok"
    /\ timeouts = 0
    /\ reconfigures = 0

-----------------------------------------------------------------------------
(* The branches, and downstream *)

\* A frame comes on a pad, the ones before it may have been dropped.
Chain(p) ==
    \E f \in Frame :
        /\ p \notin ended
        /\ \A g \in came[p] : g < f
        /\ Len(queue[p]) < MaxQueue
        /\ queue' = [queue EXCEPT ![p] = Append(@, f)]
        /\ came' = [came EXCEPT ![p] = @ \cup {f}]
        /\ UNCHANGED <<fps, durations, ended, outVars, needs_reconfigure, call,
                       timeouts, reconfigures>>

Eos(p) ==
    /\ p \notin ended
    /\ ended' = ended \cup {p}
    /\ UNCHANGED <<fps, durations, queue, came, outVars, needs_reconfigure, call,
                   timeouts, reconfigures>>

Reconfigure ==
    /\ reconfigures < MaxReconfigure
    /\ reconfigures' = reconfigures + 1
    /\ needs_reconfigure' = TRUE
    /\ UNCHANGED <<fps, durations, padVars, outVars, call, timeouts>>

-----------------------------------------------------------------------------
(* The thread of the source pad *)

AtEos(p) == p \in ended /\ queue[p] = <<>>

\* gst_gva_meta_aggregate_update_src_caps, when there is a need to negotiate: it
\* has to be done again if no pad has its caps, which come with the first buffer.
Negotiate == needs_reconfigure' = (needs_reconfigure /\ \A p \in Pad : came[p] = {})

\* GstAggregator waits for the pads.
Ready ==
    /\ call = "none"
    /\ finished = "ok"
    /\ \A p \in Pad : queue[p] # <<>> \/ p \in ended
    /\ call' = "data"
    /\ Negotiate
    /\ UNCHANGED <<fps, durations, padVars, outVars, timeouts, reconfigures>>

Deadline ==
    /\ call = "none"
    /\ finished = "ok"
    /\ timeouts < MaxTimeouts
    /\ timeouts' = timeouts + 1
    /\ call' = "timeout"
    /\ Negotiate
    /\ UNCHANGED <<fps, durations, padVars, outVars, reconfigures>>

\* Mutant: the deadline advances the position but not the count.
FramesKept == nframes

\* gst_gva_meta_aggregate_advance_on_timeout.
frames == IF call = "timeout" THEN nframes + 1 ELSE nframes

output_start == LET start == IF position = NONE THEN 0 ELSE position
                IN IF call = "timeout" THEN start + 1 ELSE start
output_end   == IF fps = 0 THEN NONE ELSE frames + 1

BeforeEnd(f) == output_end = NONE \/ f < output_end

\* What gst_gva_meta_aggregate_fill_queues does with the buffer f at the head of
\* pad p: "take" it for this output frame, "late" when it is for an earlier one
\* (taken, but more data is needed), "early" when it is for a later one, "keep"
\* when nothing changes, "drop".
Verdict(p, f) ==
    CASE ~durations /\ ~BeforeEnd(f) -> "keep"
      [] ~durations /\ f < output_start -> "late"
      [] ~durations /\ BeforeEnd(f) /\ f >= output_start -> "take"
      [] durations /\ end_time[p] # NONE /\ end_time[p] > f + 1 -> "drop"
      [] durations /\ end_time[p] <= f + 1 /\ ~BeforeEnd(f) -> "early"
      [] durations /\ end_time[p] <= f + 1 /\ BeforeEnd(f) /\ f + 1 >= output_start -> "take"
      [] OTHER -> "late"

FillVerdict == [p \in Pad |-> IF queue[p] = <<>> THEN "none" ELSE Verdict(p, Head(queue[p]))]

\* Mutant: a pad that has nothing for this frame keeps its last buffer.
FilledStale == [p \in Pad |-> IF FillVerdict[p] \in {"take", "late"} THEN Head(queue[p])
                              ELSE buffer[p]]

Filled == [p \in Pad |-> CASE FillVerdict[p] \in {"take", "late"} -> Head(queue[p])
                           [] FillVerdict[p] \in {"none", "early"} -> NONE
                           [] OTHER -> buffer[p]]

EndTimes == [p \in Pad |-> IF durations /\ FillVerdict[p] \in {"take", "late"}
                             THEN Head(queue[p]) + 1 ELSE end_time[p]]

\* Mutant: a buffer that is too late stays on its pad.
FillQueuesPeek ==
    /\ queue' = [p \in Pad |-> IF FillVerdict[p] \in {"take", "drop"} THEN Tail(queue[p])
                               ELSE queue[p]]
    /\ end_time' = EndTimes
    /\ buffer' = Filled

FillQueues ==
    /\ queue' = [p \in Pad |-> IF FillVerdict[p] \in {"take", "late", "drop"} THEN Tail(queue[p])
                               ELSE queue[p]]
    /\ end_time' = EndTimes
    /\ buffer' = Filled

\* GST_AGGREGATOR_FLOW_NEED_DATA, after the buffers have been taken: for want of
\* data, or because a reconfigure event has come since the negotiation.
NeedData ==
    /\ call # "none"
    /\ (\E p \in Pad : FillVerdict[p] = "late") \/ needs_reconfigure
    /\ ~(\A p \in Pad : AtEos(p))
    /\ FillQueues
    /\ nframes' = frames
    /\ position' = IF call = "timeout" THEN output_start ELSE position
    /\ call' = "none"
    /\ UNCHANGED <<fps, durations, came, ended, needs_reconfigure, output, finished,
                   timeouts, reconfigures>>

EndOfStream ==
    /\ call # "none"
    /\ \A p \in Pad : AtEos(p)
    /\ FillQueues
    /\ nframes' = frames
    /\ position' = IF call = "timeout" THEN output_start ELSE position
    /\ finished' = "eos"
    /\ call' = "none"
    /\ UNCHANGED <<fps, durations, came, ended, needs_reconfigure, output, timeouts, reconfigures>>

\* do_aggregate: the buffer of the first pad, if there is one, goes on with the
\* metadata of the other pads' buffers, and with what it got before if it is the
\* last one once more.  aggregate_metas fails for a region that
\* has no detection to scale it with.
Aggregate ==
    LET metas == {<<p, Filled[p]>> : p \in {q \in Pad \ {First} : Filled[q] # NONE}}
                   \cup UNION {output[k].metas : k \in {j \in DOMAIN output :
                                                           output[j].frame = Filled[First]}}
    IN /\ call # "none"
       /\ \A p \in Pad : FillVerdict[p] # "late"
       /\ ~needs_reconfigure
       /\ ~(\A p \in Pad : AtEos(p))
       /\ FillQueues
       /\ \/ /\ output' = IF Filled[First] = NONE THEN output
                          ELSE Append(output, [frame |-> Filled[First], metas |-> metas])
             /\ nframes' = frames + 1
             /\ position' = output_end
             /\ UNCHANGED finished
          \/ /\ Filled[First] # NONE /\ metas # {}
             /\ finished' = "error"
             /\ nframes' = frames
             /\ position' = IF call = "timeout" THEN output_start ELSE position
             /\ UNCHANGED output
       /\ call' = "none"
       /\ UNCHANGED <<fps, durations, came, ended, needs_reconfigure, timeouts, reconfigures>>

SrcPad == Ready \/ NeedData \/ EndOfStream \/ Aggregate

Next == \/ \E p \in Pad : Chain(p) \/ Eos(p)
        \/ Reconfigure \/ Deadline \/ SrcPad

Spec == Init /\ [][Next]_vars

\* The thread of the source pad runs on.
FairSpec == Spec /\ WF_vars(SrcPad)
-----------------------------------------------------------------------------
(* Properties *)

\* A first pad's frame leaves the element at most once and in its order, even
\* past deadlines and negotiations.  Without them each frame leaves that is not
\* waiting, with the metadata of just those pads whose branch has kept it: the
\* results "from multiple pipeline branches" (ELEMENT_DESCRIPTION) stay in step
\* although branches drop frames and end at different times.
FramesMerged ==
    fps # 0 /\ durations =>
        /\ \A j, k \in DOMAIN output : j < k => output[j].frame < output[k].frame
        /\ timeouts = 0 /\ reconfigures = 0 /\ finished # "error" =>
              \A f \in came[First] :
                  \/ \E i \in DOMAIN queue[First] : queue[First][i] = f
                  \/ \E k \in DOMAIN output :
                        /\ output[k].frame = f
                        /\ output[k].metas = {<<p, f>> : p \in {q \in Pad \ {First} : f \in came[q]}}

\* When all branches have ended the end of the stream is passed on, whatever the
\* framerate, durations and deadlines: aggregate does not ask for data for ever.
EosForwarded == (ended = Pad) ~> (finished # "ok")
=============================================================================
