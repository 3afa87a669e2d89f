--------------------------- MODULE ImageInference ---------------------------
(***************************************************************************)
(* What the interface ImageInference (inference_backend/image_inference.h) *)
(* promises to the elements that use it: an image handed to SubmitImage is *)
(* given back at most once, to the completion callback or to the error     *)
(* handler, together with at most batch_size - 1 others; and Flush returns *)
(* only when no submitted image is still to be given back.                 *)
(***************************************************************************)
EXTENDS Naturals, FiniteSets

CONSTANTS Image,        \* the images (frames or regions) to infer on
          Thread,       \* the threads that call into the interface
          batch_size    \* property batch-size of the element

VARIABLES given,        \* [Image -> Outcome]: what has become of each image
          flushing      \* the threads inside Flush

vars == <<given, flushing>>

Outcome == {"new", "pending", "completed", "failed"}

Pending == {i \in Image : given[i] = "pending"}

\* The types of the variables.
TypeOK == /\ given \in [Image -> Outcome]
          /\ flushing \subseteq Thread

Init == /\ given = [i \in Image |-> "new"]
        /\ flushing = {}

SubmitImage(i) == /\ given[i] = "new"
                  /\ given' = [given EXCEPT ![i] = "pending"]
                  /\ UNCHANGED flushing

\* One batch goes to the callback, or to the error handler, as a whole.
GiveBack(batch, outcome) ==
    /\ batch # {}
    /\ Cardinality(batch) <= batch_size
    /\ batch \subseteq Pending
    /\ given' = [i \in Image |-> IF i \in batch THEN outcome ELSE given[i]]
    /\ UNCHANGED flushing

FlushCall(t) == /\ t \notin flushing
                /\ flushing' = flushing \cup {t}
                /\ UNCHANGED given

FlushReturn(t) == /\ t \in flushing
                  /\ Pending = {}
                  /\ flushing' = flushing \ {t}
                  /\ UNCHANGED given

Next == \/ \E i \in Image : SubmitImage(i)
        \/ \E batch \in SUBSET Image, outcome \in {"completed", "failed"} :
               GiveBack(batch, outcome)
        \/ \E t \in Thread : FlushCall(t) \/ FlushReturn(t)

Spec == Init /\ [][Next]_vars
=============================================================================
