----------------------------- MODULE AudioWindow -----------------------------
(***************************************************************************)
(* The sliding window of gvaaudiodetect (gst/audio_inference_elements):    *)
(* the samples of the buffers are collected until there are sample_length  *)
(* of them, the inference runs on these, synchronously, and the window     *)
(* moves on by sliding_samples.  Each result carries the start and the end *)
(* time of its window, from a queue of start times kept beside the samples.*)
(* The application may set the slide at any time; it is taken over by the  *)
(* next start, and is fitted to the size of the buffers only once, by the  *)
(* first buffer the element ever gets.                                     *)
(*                                                                         *)
(* A sample is represented by its position in the stream, which is also    *)
(* the unit of time; the upstream element delivers buffers of one size.    *)
(***************************************************************************)
EXTENDS Integers, Sequences

CONSTANTS
    sample_length,      \* samples of one window
    BufferSize,         \* sizes of buffers that may be met
    SlidingWindow,      \* values of the property, in samples
    MaxBuffers,         \* bound: buffers of a stream
    MaxStarts           \* bound: how often the element is started

ASSUME LengthAssumption == /\ sample_length \in Nat \ {0}
                           /\ BufferSize \subseteq Nat \ {0}
                           /\ SlidingWindow \subseteq 1..sample_length
                           /\ MaxBuffers \in Nat /\ MaxStarts \in Nat

VARIABLES
    state,              \* "stopped", "streaming", "error" or "crashed"
    starts,             \* how often the element was started
    num_samples,        \* the size of the buffers of the stream
    checked,            \* the size that was checked, 0 while !values_checked
    sliding_length,     \* property of the element, adjusted by the first buffer
    changed,            \* history: the property was set since the first start
    sliding_samples,    \* AudioInferImpl::sliding_samples
    audioData,          \* the samples not yet slid over
    inferenceStartTime, \* start times of this and later windows
    startTimeSet,       \* whether the window has got its start time
    position,           \* how many samples have come
    windows             \* the windows inferred on: samples and reported times

implVars == <<sliding_samples, audioData, inferenceStartTime, startTimeSet, windows>>
vars == <<state, starts, num_samples, checked, sliding_length, changed, implVars, position>>

Init ==
    /\ state = "stopped"
    /\ starts = 0
    /\ num_samples \in BufferSize
    /\ checked = 0
    /\ sliding_length \in SlidingWindow
    /\ changed = FALSE
    /\ sliding_samples = 0
    /\ audioData = <<>>
    /\ inferenceStartTime = <<>>
    /\ startTimeSet = FALSE
    /\ position = 0
    /\ windows = <<>>

\* The application sets sliding-window: nothing but the property changes, and
\* values_checked stays what it is.
SetProperty ==
    /\ state # "crashed"
    /\ sliding_length' \in SlidingWindow
    /\ changed' = (changed \/ starts > 0)
    /\ UNCHANGED <<state, starts, num_samples, checked, implVars, position>>

\* gva_audio_base_inference_start, create_handles: a new AudioInferImpl, whose
\* constructor takes the slide over; the values are not checked again.
Start ==
    /\ state \in {"stopped", "error"}
    /\ starts < MaxStarts
    /\ starts' = starts + 1
    /\ state' = "streaming"
    /\ num_samples' \in BufferSize
    /\ sliding_samples' = sliding_length
    /\ audioData' = <<>>
    /\ inferenceStartTime' = <<>>
    /\ startTimeSet' = FALSE
    /\ position' = 0
    /\ windows' = <<>>
    /\ UNCHANGED <<checked, sliding_length, changed>>

\* gva_audio_base_inference_stop keeps everything.
Stop ==
    /\ state = "streaming"
    /\ state' = "stopped"
    /\ UNCHANGED <<starts, num_samples, checked, sliding_length, changed, implVars, position>>

-----------------------------------------------------------------------------
(* infer_audio, for one buffer *)

\* check_and_adjust_properties refuses a size that does not fill the window.
Refused == checked = 0 /\ (sample_length < num_samples \/ sample_length % num_samples # 0)

\* It rounds the property down to a multiple of the size, which may be zero, and
\* has it taken over again; a property that fits already is not taken over.
Adjusts == /\ checked = 0
           /\ sliding_length < sample_length
           /\ sliding_length % num_samples # 0
Slide ==
    IF Adjusts THEN sliding_length - (sliding_length % num_samples) ELSE sliding_samples

Refuse ==
    /\ state = "streaming"
    /\ Refused
    /\ state' = "error"
    /\ UNCHANGED <<starts, num_samples, checked, sliding_length, changed, implVars, position>>

\* setStartTime takes the remainder by the slide: by zero the process ends.
Crash ==
    /\ state = "streaming"
    /\ ~Refused
    /\ Slide = 0
    /\ state' = "crashed"
    /\ UNCHANGED <<starts, num_samples, checked, sliding_length, changed, implVars, position>>

\* Mutant: the start time of a window is the one of its first buffer only.
StartTimesOnce ==
    IF startTimeSet THEN inferenceStartTime ELSE Append(inferenceStartTime, position)

\* setStartTime: a window begins at each multiple of the slide.
StartTimes ==
    IF ~startTimeSet \/ (Slide < sample_length /\ Len(audioData) % Slide = 0)
      THEN Append(inferenceStartTime, position)
      ELSE inferenceStartTime

Samples == audioData \o [i \in 1..num_samples |-> position + i - 1]

\* addSamples, and no inference yet.
Common ==
    /\ state = "streaming"
    /\ position < MaxBuffers * num_samples
    /\ ~Refused
    /\ Slide # 0
    /\ sliding_samples' = Slide
    /\ sliding_length' = IF Adjusts THEN Slide ELSE sliding_length
    /\ checked' = IF checked = 0 THEN num_samples ELSE checked
    /\ position' = position + num_samples
    /\ UNCHANGED <<starts, num_samples, changed>>

AddSamples ==
    /\ Common
    /\ Len(Samples) # sample_length
    /\ audioData' = Samples
    /\ inferenceStartTime' = StartTimes
    /\ startTimeSet' = TRUE
    /\ UNCHANGED <<state, windows>>

Window == [samples |-> Samples, startTime |-> Head(StartTimes),
           endTime |-> Head(StartTimes) + sample_length]

\* fillAudioFrame, and the inference, which may throw.
Infer ==
    /\ Common
    /\ Len(Samples) = sample_length
    /\ IF Slide < sample_length
         THEN /\ audioData' = SubSeq(Samples, Slide + 1, Len(Samples))
              /\ inferenceStartTime' = Tail(StartTimes)
         ELSE /\ audioData' = <<>>
              /\ inferenceStartTime' = <<>>
    /\ startTimeSet' = FALSE
    /\ \/ state' = state /\ windows' = Append(windows, Window)
       \/ state' = "error" /\ UNCHANGED windows

Next == SetProperty \/ Start \/ Stop \/ Refuse \/ Crash \/ AddSamples \/ Infer

Spec == Init /\ [][Next]_vars

-----------------------------------------------------------------------------
(* Properties *)

Timed(w) == w.startTime = Head(w.samples) /\ w.endTime = w.samples[Len(w.samples)] + 1

\* "Sliding window increment in seconds. Audio event detection is performed using
\* a window of 1 second with an increment specified by the user"
\* (gva_audio_base_inference.c, sliding-window): each result is for the time of
\* the samples it was computed from.
WindowsTimed == \A k \in DOMAIN windows : Timed(windows[k])

\* For a stream of the size that was checked, with a slide that fits it, no window
\* is missed, each has sample_length samples and begins one slide after the one
\* before it; and when the window is a multiple of the slide each has its own time.
\* The check sees to it that the slide fits as long as the application leaves it
\* alone once the element was started.  A value set later may fit or not: with one
\* that does not the samples step over sample_length (readyToInfer tests for
\* equality) and the rest of the stream is not inferred on.
WindowsKept ==
    /\ checked = num_samples /\ state = "streaming"
    /\ ~changed \/ sliding_samples % num_samples = 0
    =>  /\ Len(windows) = IF position < sample_length THEN 0
                          ELSE ((position - sample_length) \div sliding_samples) + 1
        /\ \A k \in DOMAIN windows :
              /\ windows[k].samples = [i \in 1..sample_length |-> (k - 1) * sliding_samples + i - 1]
              /\ sample_length % sliding_samples = 0 => Timed(windows[k])
=============================================================================
