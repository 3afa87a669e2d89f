-------------------------- MODULE MCInferenceImpl ---------------------------
(* Instances of InferenceImpl for TLC. *)
EXTENDS InferenceImpl, TLC

CONSTANTS e1, e2

\* A classifier and a detector in one pipeline; a single element.
TwoRegions == e1 :> "FULL_FRAME" @@ e2 :> "ROI_LIST"
ListOnly   == [e \in Elem |-> "ROI_LIST"]

=============================================================================
