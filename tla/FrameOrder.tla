----------------------------- MODULE FrameOrder -----------------------------
(***************************************************************************)
(* What an inference element promises to the elements downstream: it hands *)
(* on the frames of its stream in the order they came in, none twice and   *)
(* none left out, and the end of the stream after the last of them; once   *)
(* it is stopped it hands on nothing.                                      *)
(***************************************************************************)
EXTENDS Naturals, Sequences

CONSTANT Elem            \* the elements, each with a stream of its own

VARIABLES arrived,       \* [Elem -> Nat]: how many frames came in
          delivered,     \* [Elem -> Seq(Nat)]: the frames handed on, by number
          phase          \* [Elem -> {"streaming", "eos", "stopped"}]

vars == <<arrived, delivered, phase>>

Init == /\ arrived = [e \in Elem |-> 0]
        /\ delivered = [e \in Elem |-> <<>>]
        /\ phase = [e \in Elem |-> "streaming"]

Arrive(e) == /\ phase[e] = "streaming"
             /\ arrived' = [arrived EXCEPT ![e] = @ + 1]
             /\ UNCHANGED <<delivered, phase>>

Deliver(e) == /\ phase[e] = "streaming"
              /\ Len(delivered[e]) < arrived[e]
              /\ delivered' = [delivered EXCEPT ![e] = Append(@, Len(@) + 1)]
              /\ UNCHANGED <<arrived, phase>>

EndOfStream(e) == /\ phase[e] = "streaming"
                  /\ Len(delivered[e]) = arrived[e]
                  /\ phase' = [phase EXCEPT ![e] = "eos"]
                  /\ UNCHANGED <<arrived, delivered>>

Stop(e) == /\ phase[e] # "stopped"
           /\ phase' = [phase EXCEPT ![e] = "stopped"]
           /\ UNCHANGED <<arrived, delivered>>

Next == \E e \in Elem : Arrive(e) \/ Deliver(e) \/ EndOfStream(e) \/ Stop(e)

Spec == Init /\ [][Next]_vars
=============================================================================
