--------------------------- MODULE MCInferencePool --------------------------
(* Instances of InferencePool for TLC. *)
EXTENDS InferencePool

CONSTANTS a, b, c

\* Two elements deliver one video format; so do all of them.
TwoFormats == [e \in Elem |-> IF e = c THEN "NV12" ELSE "BGRx"]
OneFormat  == [e \in Elem |-> "BGRx"]
=============================================================================
