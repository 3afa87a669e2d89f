---------------------- MODULE MCClassificationHistory -----------------------
(* Instances of ClassificationHistory for TLC. *)
EXTENDS ClassificationHistory

\* Objects are interchangeable.
Symmetry == Permutations(Object)
=============================================================================
