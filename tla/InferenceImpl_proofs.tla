------------------------ MODULE InferenceImpl_proofs ------------------------
(***************************************************************************)
(* Proofs about InferenceImpl, for any number of elements, models, frames  *)
(* and regions, with or without failures.                                  *)
(***************************************************************************)
EXTENDS InferenceImpl, FiniteSetTheorems, TLAPS

-----------------------------------------------------------------------------
(* The invariant *)

\* A thread in a call belongs to a streaming element that has got a frame, and
\* has images to submit exactly while it submits.
FlowInv ==
    \A e \in Elem :
        /\ pc[e] \in {"enqueue", "submit", "pass"} =>
              phase[e] = "streaming" /\ flushing[e] = 0 /\ arrived[e] >= 1
        /\ pc[e] = "submit" <=> todo[e] # <<>>

\* The images still to be submitted are different ones of the last frame, and new.
TodoInv ==
    \A e \in Elem : \A j \in DOMAIN todo[e] :
        /\ todo[e][j].elem = e
        /\ todo[e][j].frame = arrived[e]
        /\ given[todo[e][j]] = "new"
        /\ \A l \in DOMAIN todo[e] : l # j => todo[e][l] # todo[e][j]

\* The frame of which an image was submitted has arrived, and is past its turn
\* to join the list.
Past(e) == IF pc[e] = "enqueue" THEN arrived[e] - 1 ELSE arrived[e]
NewInv == \A i \in Image : given[i] # "new" => i.frame <= Past(i.elem)

\* The frames of an element are in output_frames in their order.  A frame that
\* passes through, or has not joined the list, is not among them.
Joined(e) == IF pc[e] \in {"enqueue", "pass"} THEN arrived[e] - 1 ELSE arrived[e]
QueueInv ==
    \A k \in DOMAIN output_frames :
        /\ output_frames[k].frame <= Joined(output_frames[k].elem)
        /\ \A l \in DOMAIN output_frames :
              k < l /\ output_frames[k].elem = output_frames[l].elem =>
                  output_frames[k].frame < output_frames[l].frame

\* Until the element stops, what it has delivered and what is in the list are all
\* of its frames; the frame an error was about may be missing.
Sure(e) == IF pc[e] \in {"enqueue", "pass", "error"} THEN arrived[e] - 1 ELSE arrived[e]
OrderOf(e) ==
    /\ \A k \in DOMAIN delivered[e] : delivered[e][k] = k
    /\ phase[e] # "stopped" =>
          /\ Len(delivered[e]) <= Joined(e)
          /\ \A k \in DOMAIN output_frames :
                output_frames[k].elem = e => output_frames[k].frame > Len(delivered[e])
          /\ \A n \in 1..Sure(e) : n > Len(delivered[e]) =>
                \E k \in DOMAIN output_frames :
                    output_frames[k].elem = e /\ output_frames[k].frame = n
    /\ pc[e] = "pass" => \A k \in DOMAIN output_frames : output_frames[k].elem # e
OrderInv == \A e \in Elem : OrderOf(e)

\* A callback works on images the backend has not lost.
CallbackInv == callback \cap leaked = {}

\* The images a callback may still come for, once they are submitted.
Due == {i \in Image : \/ i \in Pending \ callback
                      \/ \E e \in Elem : \E j \in DOMAIN todo[e] : todo[e][j] = i}
Owed(k) == {i \in Due : FrameOf(i, k)}

\* A frame waits for no fewer inferences than those, and each has its frame.
CountInv == \A k \in DOMAIN output_frames :
                output_frames[k].inference_count >= Cardinality(Owed(k))
CoverInv == \A i \in Due : \E k \in DOMAIN output_frames : FrameOf(i, k)

IInv == /\ TypeOK
        /\ FlowInv /\ TodoInv /\ NewInv
        /\ QueueInv /\ OrderInv
        /\ CallbackInv /\ CountInv /\ CoverInv
-----------------------------------------------------------------------------
(* Sequences, sets and numbers *)

\* The head leaves, the others move up one place.
LEMMA PopFacts ==
    ASSUME NEW S, NEW q \in Seq(S), q # <<>>
    PROVE  /\ 1 \in DOMAIN q
           /\ Head(q) = q[1]
           /\ Head(q) \in S
           /\ Tail(q) \in Seq(S)
           /\ \A k \in DOMAIN Tail(q) : k + 1 \in DOMAIN q /\ Tail(q)[k] = q[k + 1] /\ k \in Nat \ {0}
           /\ \A k \in DOMAIN q : k \in Nat /\ (k # 1 => k - 1 \in DOMAIN Tail(q) /\ Tail(q)[k - 1] = q[k])
OBVIOUS

\* The new one is the last, the others keep their places.
LEMMA PushFacts ==
    ASSUME NEW S, NEW q \in Seq(S), NEW x \in S
    PROVE  /\ Append(q, x) \in Seq(S)
           /\ DOMAIN Append(q, x) = DOMAIN q \cup {Len(q) + 1}
           /\ Len(q) + 1 \notin DOMAIN q
           /\ \A k \in DOMAIN q : Append(q, x)[k] = q[k] /\ k \in Nat /\ k < Len(q) + 1
           /\ Append(q, x)[Len(q) + 1] = x
           /\ Len(Append(q, x)) = Len(q) + 1
           /\ Len(q) \in Nat
OBVIOUS

\* Nothing is left when the only one leaves.
LEMMA LastFacts ==
    ASSUME NEW S, NEW q \in Seq(S), q # <<>>
    PROVE  Tail(q) = <<>> <=> Len(q) = 1
<1>1. Len(q) \in Nat \ {0} /\ Tail(q) \in Seq(S) /\ Len(Tail(q)) = Len(q) - 1
  OBVIOUS
<1>2. ASSUME NEW t \in Seq(S) PROVE t = <<>> <=> Len(t) = 0
  OBVIOUS
<1>3. Tail(q) = <<>> <=> Len(Tail(q)) = 0
  BY <1>1, <1>2, Zenon
<1>4. Len(Tail(q)) = 0 <=> Len(q) = 1
  BY <1>1
<1>. QED
  BY <1>3, <1>4, Zenon

\* A function on 1..n is a sequence.
LEMMA MappedSeq ==
    ASSUME NEW S, NEW n \in Nat, NEW q \in [1..n -> S]
    PROVE  q \in Seq(S) /\ DOMAIN q = 1..n
OBVIOUS

\* Incrementing an unsigned integer.
LEMMA WrapFacts ==
    ASSUME NEW max \in Nat, NEW n \in 0..max
    PROVE  /\ (n + 1) % (max + 1) \in 0..max
           /\ (n + 1) % (max + 1) = IF n = max THEN 0 ELSE n + 1
<1>1. CASE n = max
  <2>1. (n + 1) % (n + 1) = 0
    OBVIOUS
  <2>. QED
    BY <1>1, <2>1
<1>2. CASE n < max
  <2>1. (n + 1) % (max + 1) = n + 1
    BY <1>2
  <2>. QED
    BY <1>2, <2>1
<1>. QED
  BY <1>1, <1>2

\* The k-th of n rows of m regions: region and row are in range, and k is theirs
\* alone.
LEMMA RowFacts ==
    ASSUME NEW m \in Nat \ {0}, NEW n \in Nat, NEW k \in 1..(m * n)
    PROVE  /\ ((k - 1) % m) + 1 \in 1..m
           /\ ((k - 1) \div m) + 1 \in 1..n
           /\ k = m * ((k - 1) \div m) + ((k - 1) % m) + 1
<1> DEFINE d == (k - 1) \div m
           r == (k - 1) % m
<1>1. k - 1 \in Nat /\ m * n \in Nat /\ k <= m * n
  OBVIOUS
<1>2. d \in Int /\ r \in 0..(m - 1) /\ k - 1 = m * d + r
  BY <1>1
<1>. HIDE DEF d, r
<1>3. d >= 0
  <2>1. SUFFICES ASSUME d <= 0 - 1 PROVE FALSE
    BY <1>2
  <2>2. m * d <= m * (0 - 1)
    BY <1>2, <2>1
  <2>. QED
    BY <1>1, <1>2, <2>2
<1>4. d <= n - 1
  <2>1. SUFFICES ASSUME d >= n PROVE FALSE
    BY <1>2
  <2>2. m * d >= m * n
    BY <1>2, <2>1
  <2>. QED
    BY <1>1, <1>2, <2>2
<1>. QED
  BY <1>2, <1>3, <1>4 DEF d, r

\* The images of one frame are finitely many.
LEMMA SlotsFinite ==
    ASSUME NEW e, NEW f, NEW S \in SUBSET {i \in Image : i.elem = e /\ i.frame = f}
    PROVE  IsFiniteSet(S) /\ Cardinality(S) \in Nat
<1> DEFINE A == (1..MaxRois) \X Model
           T == {i \in Image : i.elem = e /\ i.frame = f}
           g == [i \in T |-> <<i.roi, i.model>>]
<1>1. IsFiniteSet(A)
  <2>1. 1 \in Int /\ MaxRois \in Int
    BY BoundAssumption
  <2>2. IsFiniteSet(1..MaxRois)
    BY <2>1, FS_Interval
  <2>. QED
    BY <2>2, FS_Product, ModelAssumption
<1>2. g \in [T -> A]
  BY DEF Image
<1>3. \A i, j \in T : g[i] = g[j] => i = j
  BY DEF Image
<1>4. g \in Injection(T, A)
  BY <1>2, <1>3 DEF Injection, IsInjective
<1>5. IsFiniteSet(T)
  BY <1>1, <1>4, FS_Injection
<1>. QED
  BY <1>5, FS_Subset, FS_CardinalityType

\* SubmitImages goes through as many images as are counted, all different.
LEMMA ImagesFacts ==
    ASSUME TypeOK, NEW e \in Elem, arrived[e] >= 1
    PROVE  /\ inference_count(e) \in Nat
           /\ Images(e) \in Seq(Image)
           /\ Len(Images(e)) = inference_count(e)
           /\ \A j \in DOMAIN Images(e) :
                 /\ Images(e)[j].elem = e
                 /\ Images(e)[j].frame = arrived[e]
                 /\ \A l \in DOMAIN Images(e) : l # j => Images(e)[l] # Images(e)[j]
<1> DEFINE m == metas[e]
           n == Cardinality(Model)
           N == inference_count(e)
           image(k) == [elem |-> e, frame |-> arrived[e],
                        roi |-> ((k - 1) % m) + 1, model |-> ((k - 1) \div m) + 1]
<1>1. m \in Nat /\ m <= MaxRois /\ n \in Nat /\ Model = 1..n /\ arrived[e] \in 1..MaxFrames
      /\ N = m * n
  BY FS_CardinalityType, ModelAssumption, BoundAssumption DEF TypeOK, inference_count
<1>2. N \in Nat
  BY <1>1
<1>3. Images(e) = [k \in 1..N |-> image(k)]
  BY DEF Images
<1>4. ASSUME NEW k \in 1..N
      PROVE  /\ m # 0
             /\ ((k - 1) % m) + 1 \in 1..m
             /\ ((k - 1) \div m) + 1 \in 1..n
             /\ k = m * ((k - 1) \div m) + ((k - 1) % m) + 1
  <2>1. m # 0
    BY <1>1
  <2>. QED
    BY <1>1, <2>1, RowFacts
<1>. HIDE DEF m, n, N
<1>5. ASSUME NEW k \in 1..N PROVE image(k) \in Image
  <2>1. ((k - 1) % m) + 1 \in 1..MaxRois
    BY <1>1, <1>4, BoundAssumption
  <2>. QED
    BY <1>1, <1>4, <2>1 DEF Image
<1>6. ASSUME NEW k \in 1..N, NEW l \in 1..N, image(k) = image(l) PROVE k = l
  <2>1. (k - 1) % m = (l - 1) % m /\ (k - 1) \div m = (l - 1) \div m
    <3>1. ((k - 1) % m) + 1 = ((l - 1) % m) + 1 /\ ((k - 1) \div m) + 1 = ((l - 1) \div m) + 1
      BY <1>6
    <3>2. (k - 1) % m \in Int /\ (l - 1) % m \in Int
          /\ (k - 1) \div m \in Int /\ (l - 1) \div m \in Int
      BY <1>1, <1>2, <1>4
    <3>. QED
      BY <3>1, <3>2
  <2>. QED
    BY <1>4, <2>1
<1>. HIDE DEF image
<1>7. Images(e) \in Seq(Image) /\ Len(Images(e)) = N /\ DOMAIN Images(e) = 1..N
  BY <1>2, <1>3, <1>5
<1>8. ASSUME NEW j \in 1..N PROVE Images(e)[j].elem = e /\ Images(e)[j].frame = arrived[e]
  BY <1>3 DEF image
<1>. QED
  BY <1>2, <1>3, <1>6, <1>7, <1>8 DEF N

-----------------------------------------------------------------------------
(* The list of frames *)

\* A frame that joins the list is the last.
LEMMA JoinFacts ==
    ASSUME TypeOK, NEW e \in Elem, arrived[e] >= 1,
           output_frames' = Append(output_frames,
               [elem |-> e, frame |-> arrived[e], inference_count |-> inference_count(e)])
    PROVE  LET n == Len(output_frames) + 1
           IN /\ output_frames' \in Seq(OutputFrame)
              /\ DOMAIN output_frames' = DOMAIN output_frames \cup {n}
              /\ n \notin DOMAIN output_frames
              /\ \A k \in DOMAIN output_frames :
                    output_frames'[k] = output_frames[k] /\ k \in Nat /\ k < n
              /\ output_frames'[n].elem = e
              /\ output_frames'[n].frame = arrived[e]
              /\ output_frames'[n].inference_count = inference_count(e)
<1> DEFINE f == [elem |-> e, frame |-> arrived[e], inference_count |-> inference_count(e)]
<1>1. f \in OutputFrame
  BY ImagesFacts, BoundAssumption, SMTT(30) DEF TypeOK, OutputFrame
<1>2. f.elem = e /\ f.frame = arrived[e] /\ f.inference_count = inference_count(e)
  OBVIOUS
<1>. HIDE DEF f
<1>3. output_frames \in Seq(OutputFrame) /\ output_frames' = Append(output_frames, f)
  BY DEF TypeOK, f
<1>. QED
  BY <1>1, <1>2, <1>3, PushFacts

\* The images of a batch that belong to one frame are among those it is owed.
LEMMA BatchFacts ==
    ASSUME TypeOK, CountInv, callback = {}, NEW batch \in SUBSET Pending,
           NEW k \in DOMAIN output_frames
    PROVE  LET B == {i \in batch : FrameOf(i, k)}
           IN /\ IsFiniteSet(Owed(k)) /\ Cardinality(Owed(k)) \in Nat
              /\ B \subseteq Owed(k)
              /\ IsFiniteSet(B) /\ Cardinality(B) \in Nat
              /\ Cardinality(Owed(k) \ B) = Cardinality(Owed(k)) - Cardinality(B)
              /\ Cardinality(Owed(k) \ B) \in Nat
              /\ output_frames[k].inference_count - Cardinality(B) >= Cardinality(Owed(k) \ B)
<1> DEFINE B == {i \in batch : FrameOf(i, k)}
<1>1. IsFiniteSet(Owed(k)) /\ Cardinality(Owed(k)) \in Nat
  BY SlotsFinite, ZenonT(30) DEF Owed, Due, FrameOf
<1>2. B \subseteq Owed(k)
  BY DEF Owed, Due, Pending
<1>3. IsFiniteSet(B) /\ Cardinality(B) \in Nat
  BY <1>1, <1>2, FS_Subset, FS_CardinalityType
<1>4. Owed(k) \cap B = B /\ IsFiniteSet(Owed(k) \ B)
  BY <1>1, <1>2, FS_Subset
<1>5. Cardinality(Owed(k) \ B) = Cardinality(Owed(k)) - Cardinality(B)
      /\ Cardinality(Owed(k) \ B) \in Nat
  <2>1. Cardinality(Owed(k) \ B) = Cardinality(Owed(k)) - Cardinality(Owed(k) \cap B)
    BY <1>1, FS_Difference
  <2>2. Cardinality(Owed(k) \ B) \in Nat
    BY <1>4, FS_CardinalityType
  <2>. QED
    BY <1>4, <2>1, <2>2
<1>6. output_frames[k].inference_count \in Nat
      /\ output_frames[k].inference_count >= Cardinality(Owed(k))
  <2>1. output_frames[k] \in OutputFrame
    BY DEF TypeOK
  <2>. QED
    BY <2>1 DEF OutputFrame, CountInv
<1>. HIDE DEF B
<1>7. output_frames[k].inference_count - Cardinality(B) >= Cardinality(Owed(k) \ B)
  BY <1>1, <1>3, <1>5, <1>6
<1>. QED
  BY <1>1, <1>2, <1>3, <1>5, <1>7 DEF B

\* UpdateOutputFrames keeps the frames where they are, and no count goes below
\* zero.
LEMMA UpdateFacts ==
    ASSUME TypeOK, CountInv, callback = {}, NEW batch \in SUBSET Pending,
           output_frames' = UpdateOutputFrames(batch)
    PROVE  /\ output_frames' \in Seq(OutputFrame)
           /\ DOMAIN output_frames' = DOMAIN output_frames
           /\ \A k \in DOMAIN output_frames :
                 /\ output_frames'[k].elem = output_frames[k].elem
                 /\ output_frames'[k].frame = output_frames[k].frame
                 /\ output_frames'[k].inference_count =
                       output_frames[k].inference_count - Cardinality({i \in batch : FrameOf(i, k)})
<1> DEFINE c(k) == output_frames[k].inference_count - Cardinality({i \in batch : FrameOf(i, k)})
           f(k) == [output_frames[k] EXCEPT !.inference_count = c(k)]
<1>1. output_frames' = [k \in DOMAIN output_frames |-> f(k)]
  BY DEF UpdateOutputFrames
<1>2. ASSUME NEW k \in DOMAIN output_frames
      PROVE  /\ f(k) \in OutputFrame
             /\ f(k).elem = output_frames[k].elem
             /\ f(k).frame = output_frames[k].frame
             /\ f(k).inference_count = c(k)
  <2>1. output_frames[k] \in OutputFrame
    BY DEF TypeOK
  <2>2. c(k) \in Nat
    <3>1. output_frames[k].inference_count \in Nat
      BY <2>1 DEF OutputFrame
    <3> DEFINE B == {i \in batch : FrameOf(i, k)}
    <3>2. /\ Cardinality(B) \in Nat
          /\ Cardinality(Owed(k) \ B) \in Nat
          /\ output_frames[k].inference_count - Cardinality(B) >= Cardinality(Owed(k) \ B)
      BY BatchFacts
    <3>. HIDE DEF B
    <3>3. output_frames[k].inference_count - Cardinality(B) \in Nat
      BY <3>1, <3>2
    <3>. QED
      BY <3>3 DEF B
  <2>. HIDE DEF c
  <2>. QED
    BY <2>1, <2>2 DEF OutputFrame
<1>. HIDE DEF f
<1>3. output_frames \in Seq(OutputFrame)
  BY DEF TypeOK
<1>4. output_frames' \in Seq(OutputFrame) /\ DOMAIN output_frames' = DOMAIN output_frames
  <2>1. Len(output_frames) \in Nat /\ DOMAIN output_frames = 1..Len(output_frames)
    BY <1>3
  <2>2. output_frames' = [k \in 1..Len(output_frames) |-> f(k)]
    BY <1>1, <2>1
  <2>3. output_frames' \in [1..Len(output_frames) -> OutputFrame]
    BY <1>2, <2>1, <2>2
  <2>. QED
    BY <2>1, <2>3, MappedSeq
<1>. QED
  BY <1>1, <1>2, <1>4 DEF c
-----------------------------------------------------------------------------
(* Types *)

\* Every step keeps the variables in their types, the counts of the frames too.
LEMMA TypeStep == IInv /\ [Next]_vars => TypeOK'
<1>. SUFFICES ASSUME IInv, [Next]_vars PROVE TypeOK'
  OBVIOUS
<1>. USE DEF IInv, TypeOK, Pending, callVars, frameVars, endVars
<1>1. ASSUME NEW e \in Elem, Decide(e) PROVE TypeOK'
  <2>1. num_skipped_frames' \in [Elem -> 0..UintMax]
    <3>1. Skipped(e) \in 0..UintMax /\ 0 \in 0..UintMax
      <4>1. UintMax \in Nat /\ num_skipped_frames[e] \in 0..UintMax
        BY BoundAssumption
      <4>2. (num_skipped_frames[e] + 1) % (UintMax + 1) \in 0..UintMax
        BY <4>1, WrapFacts
      <4>. HIDE DEF IInv, TypeOK
      <4>. QED
        BY <4>1, <4>2 DEF Skipped
    <3>. QED
      BY <1>1, <3>1 DEF Decide
  <2>2. arrived' \in [Elem -> 0..MaxFrames] /\ ran' \in [Elem -> SUBSET (1..MaxFrames)]
    <3>1. arrived[e] + 1 \in 1..MaxFrames
      BY <1>1, BoundAssumption DEF Decide
    <3>. QED
      BY <1>1, <3>1 DEF Decide
  <2>3. metas' \in [Elem -> 0..MaxRois]
    <3>1. Regions(e) \subseteq 0..MaxRois /\ 0 \in 0..MaxRois
      BY BoundAssumption DEF Regions
    <3>. QED
      BY <1>1, <3>1 DEF Decide
  <2>. QED
    BY <1>1, <2>1, <2>2, <2>3 DEF Decide
<1>2. ASSUME NEW e \in Elem, SinkEventEos(e) PROVE TypeOK'
  <2>1. flushing' \in [Elem -> {0} \cup Model]
    <3>1. 1 \in Model
      <4>1. Cardinality(Model) \in Nat /\ Cardinality(Model) # 0
        BY ModelAssumption, FS_CardinalityType, FS_EmptySet
      <4>. QED
        BY <4>1, ModelAssumption
    <3>. QED
      BY <1>2, <3>1 DEF SinkEventEos
  <2>. QED
    BY <1>2, <2>1 DEF SinkEventEos
<1>3. ASSUME NEW e \in Elem, Stop(e) PROVE TypeOK'
  <2>1. flushing' \in [Elem -> {0} \cup Model]
    <3>1. 1 \in Model
      <4>1. Cardinality(Model) \in Nat /\ Cardinality(Model) # 0
        BY ModelAssumption, FS_CardinalityType, FS_EmptySet
      <4>. QED
        BY <4>1, ModelAssumption
    <3>. QED
      BY <1>3, <3>1 DEF Stop
  <2>. QED
    BY <1>3, <2>1 DEF Stop
<1>4. ASSUME NEW e \in Elem, FilterThrow(e) PROVE TypeOK'
  BY <1>4, BoundAssumption DEF FilterThrow
<1>5. ASSUME NEW e \in Elem, Enqueue(e) PROVE TypeOK'
  <2>1. arrived[e] >= 1
    BY <1>5 DEF Enqueue, FlowInv
  <2>2. output_frames' \in Seq(OutputFrame)
    <3>1. CASE inference_count(e) = 0 /\ output_frames = <<>>
      BY <1>5, <3>1 DEF Enqueue
    <3>2. CASE ~(inference_count(e) = 0 /\ output_frames = <<>>)
      BY <1>5, <2>1, <3>2, JoinFacts DEF Enqueue
    <3>. QED
      BY <3>1, <3>2
  <2>3. todo' \in [Elem -> Seq(Image)]
    BY <1>5, <2>1, ImagesFacts DEF Enqueue
  <2>4. metas' \in [Elem -> 0..MaxRois]
    BY <1>5, BoundAssumption DEF Enqueue
  <2>5. mutex' \in Elem \cup {NULL}
        /\ pc' \in [Elem -> {"idle", "enqueue", "submit", "pass", "error"}]
    BY <1>5 DEF Enqueue
  <2>. QED
    BY <1>5, <2>2, <2>3, <2>4, <2>5 DEF Enqueue
<1>6. ASSUME NEW e \in Elem, PassThrough(e) PROVE TypeOK'
  <2>1. arrived[e] \in 1..MaxFrames
    BY <1>6 DEF PassThrough, FlowInv
  <2>2. delivered' \in [Elem -> Seq(1..MaxFrames)]
    <3>1. delivered[e] \in Seq(1..MaxFrames)
      OBVIOUS
    <3>2. Append(delivered[e], arrived[e]) \in Seq(1..MaxFrames)
      BY <2>1, <3>1
    <3>. QED
      BY <1>6, <3>2 DEF PassThrough
  <2>. QED
    BY <1>6, <2>2 DEF PassThrough
<1>7. ASSUME NEW e \in Elem, Submit(e) PROVE TypeOK'
  <2>1. todo[e] \in Seq(Image) /\ todo[e] # <<>>
    BY <1>7 DEF Submit, FlowInv
  <2>2. Head(todo[e]) \in Image /\ Tail(todo[e]) \in Seq(Image)
    BY <2>1, PopFacts
  <2>3. todo' \in [Elem -> Seq(Image)]
    BY <1>7, <2>2 DEF Submit
  <2>4. given' \in [Image -> {"new", "pending", "completed", "failed"}]
        /\ \A i \in Image : given[i] = "pending" => given'[i] = "pending"
    BY <1>7, <2>2 DEF Submit
  <2>. QED
    BY <1>7, <2>3, <2>4 DEF Submit
<1>8. ASSUME NEW e \in Elem, SubmitThrow(e) PROVE TypeOK'
  <2>1. todo[e] \in Seq(Image) /\ todo[e] # <<>>
    BY <1>8 DEF SubmitThrow, FlowInv
  <2>2. Head(todo[e]) \in Image
    BY <2>1, PopFacts
  <2>3. todo' \in [Elem -> Seq(Image)]
    BY <1>8 DEF SubmitThrow
  <2>4. /\ given' \in [Image -> {"new", "pending", "completed", "failed"}]
        /\ \A i \in Image : given[i] = "pending" => given'[i] = "pending"
        /\ leaked' \subseteq {i \in Image : given'[i] = "pending"}
    <3>1. CASE UNCHANGED <<given, leaked>>
      BY <3>1
    <3>2. ASSUME NEW batch \in SUBSET (Pending \ (leaked \cup callback)),
                 given' = [given EXCEPT ![Head(todo[e])] = "pending"],
                 leaked' = leaked \cup batch \cup {Head(todo[e])}
          PROVE  /\ given' \in [Image -> {"new", "pending", "completed", "failed"}]
                 /\ \A i \in Image : given[i] = "pending" => given'[i] = "pending"
                 /\ leaked' \subseteq {i \in Image : given'[i] = "pending"}
      BY <2>2, <3>2
    <3>. QED
      BY <1>8, <3>1, <3>2 DEF SubmitThrow
  <2>. QED
    BY <1>8, <2>3, <2>4 DEF SubmitThrow
<1>9. ASSUME NEW e \in Elem, FlushModel(e) PROVE TypeOK'
  BY <1>9 DEF FlushModel
<1>10. ASSUME NEW batch \in Batches, CompletionCallback(batch) PROVE TypeOK'
  <2>1. batch \subseteq Pending
    BY DEF Batches
  <2>2. output_frames' \in Seq(OutputFrame)
    BY <1>10, <2>1, UpdateFacts DEF CompletionCallback
  <2>. QED
    BY <1>10, <2>1, <2>2 DEF CompletionCallback
<1>11. ASSUME NEW batch \in Batches, InferenceFailed(batch) PROVE TypeOK'
  <2>1. batch \cap leaked = {}
    BY DEF Batches
  <2>. QED
    BY <1>11, <2>1 DEF InferenceFailed
<1>12. CASE PushFront
  <2>1. output_frames \in Seq(OutputFrame) /\ output_frames # <<>>
    BY <1>12 DEF PushFront, Complete
  <2>2. Head(output_frames) \in OutputFrame /\ output_frames' \in Seq(OutputFrame)
    BY <1>12, <2>1, PopFacts DEF PushFront
  <2> DEFINE e == Head(output_frames).elem
  <2>3. e \in Elem /\ Head(output_frames).frame \in 1..MaxFrames
    BY <2>2 DEF OutputFrame
  <2>4. delivered' \in [Elem -> Seq(1..MaxFrames)]
    <3>1. delivered[e] \in Seq(1..MaxFrames)
      BY <2>3
    <3>2. Append(delivered[e], Head(output_frames).frame) \in Seq(1..MaxFrames)
      BY <2>3, <3>1
    <3>. QED
      BY <1>12, <2>3, <3>2 DEF PushFront
  <2>. QED
    BY <1>12, <2>2, <2>4 DEF PushFront
<1>13. CASE CallbackReturn
  BY <1>13 DEF CallbackReturn, CallbackInv
<1>14. CASE UNCHANGED vars
  BY <1>14 DEF vars
<1>. QED
  BY <1>1, <1>2, <1>3, <1>4, <1>5, <1>6, <1>7, <1>8, <1>9, <1>10, <1>11, <1>12, <1>13, <1>14
  DEF Next, Transforming, CallbackStart, CallbackStep
-----------------------------------------------------------------------------
(* Calls *)

\* A thread keeps to the stages of its call.
LEMMA FlowStep == IInv /\ [Next]_vars => FlowInv'
<1>. SUFFICES ASSUME IInv, [Next]_vars PROVE FlowInv'
  OBVIOUS
<1>. USE DEF IInv, TypeOK, FlowInv, callVars, frameVars, endVars
<1>1. ASSUME NEW e \in Elem, Decide(e) PROVE FlowInv'
  BY <1>1 DEF Decide
<1>2. ASSUME NEW e \in Elem, SinkEventEos(e) PROVE FlowInv'
  BY <1>2 DEF SinkEventEos, Ready
<1>3. ASSUME NEW e \in Elem, Stop(e) PROVE FlowInv'
  BY <1>3 DEF Stop, Ready
<1>4. ASSUME NEW e \in Elem, FilterThrow(e) PROVE FlowInv'
  BY <1>4 DEF FilterThrow
<1>5. ASSUME NEW e \in Elem, Enqueue(e) PROVE FlowInv'
  <2>1. arrived[e] >= 1 /\ todo[e] = <<>>
    BY <1>5 DEF Enqueue
  <2>2. Images(e) \in Seq(Image) /\ Len(Images(e)) = inference_count(e)
    BY <2>1, ImagesFacts
  <2>3. Images(e) = <<>> <=> inference_count(e) = 0
    BY <2>2
  <2>. QED
    BY <1>5, <2>1, <2>2, <2>3, SMTT(30) DEF Enqueue
<1>6. ASSUME NEW e \in Elem, PassThrough(e) PROVE FlowInv'
  BY <1>6 DEF PassThrough
<1>7. ASSUME NEW e \in Elem, Submit(e) PROVE FlowInv'
  <2>1. todo[e] \in Seq(Image) /\ todo[e] # <<>>
    BY <1>7 DEF Submit
  <2>2. Tail(todo[e]) = <<>> <=> Len(todo[e]) = 1
    BY <2>1, LastFacts
  <2>. QED
    BY <1>7, <2>2, SMTT(30) DEF Submit
<1>8. ASSUME NEW e \in Elem, SubmitThrow(e) PROVE FlowInv'
  BY <1>8 DEF SubmitThrow
<1>9. ASSUME NEW e \in Elem, FlushModel(e) PROVE FlowInv'
  BY <1>9 DEF FlushModel
<1>10. ASSUME NEW batch \in Batches, CompletionCallback(batch) PROVE FlowInv'
  BY <1>10 DEF CompletionCallback
<1>11. ASSUME NEW batch \in Batches, InferenceFailed(batch) PROVE FlowInv'
  BY <1>11 DEF InferenceFailed
<1>12. CASE PushFront
  BY <1>12 DEF PushFront
<1>13. CASE CallbackReturn
  BY <1>13 DEF CallbackReturn
<1>14. CASE UNCHANGED vars
  BY <1>14 DEF vars
<1>. QED
  BY <1>1, <1>2, <1>3, <1>4, <1>5, <1>6, <1>7, <1>8, <1>9, <1>10, <1>11, <1>12, <1>13, <1>14
  DEF Next, Transforming, CallbackStart, CallbackStep

\* Images wait for their submission once, and nobody else touches them.
LEMMA TodoStep == IInv /\ [Next]_vars => TodoInv'
<1>. SUFFICES ASSUME IInv, [Next]_vars PROVE TodoInv'
  OBVIOUS
<1>. USE DEF IInv, TypeOK, FlowInv, TodoInv, Pending, callVars, frameVars, endVars
<1>1. ASSUME NEW e \in Elem, Decide(e) PROVE TodoInv'
  BY <1>1 DEF Decide
<1>2. ASSUME NEW e \in Elem, SinkEventEos(e) PROVE TodoInv'
  BY <1>2, SMTT(30) DEF SinkEventEos
<1>3. ASSUME NEW e \in Elem, Stop(e) PROVE TodoInv'
  BY <1>3, SMTT(30) DEF Stop
<1>4. ASSUME NEW e \in Elem, FilterThrow(e) PROVE TodoInv'
  BY <1>4 DEF FilterThrow
<1>5. ASSUME NEW e \in Elem, Enqueue(e) PROVE TodoInv'
  <2>1. arrived[e] >= 1 /\ pc[e] = "enqueue"
    BY <1>5 DEF Enqueue
  <2>2. /\ Images(e) \in Seq(Image)
        /\ \A j \in DOMAIN Images(e) :
              /\ Images(e)[j].elem = e
              /\ Images(e)[j].frame = arrived[e]
              /\ \A l \in DOMAIN Images(e) : l # j => Images(e)[l] # Images(e)[j]
    BY <2>1, ImagesFacts
  <2>3. \A i \in Image : i.elem = e /\ i.frame = arrived[e] => given[i] = "new"
    BY <2>1 DEF NewInv, Past
  <2>4. \A j \in DOMAIN Images(e) : given[Images(e)[j]] = "new"
    BY <2>2, <2>3
  <2>5. todo' = [todo EXCEPT ![e] = Images(e)] /\ UNCHANGED <<arrived, given>>
    BY <1>5 DEF Enqueue
  <2>. QED
    BY <2>2, <2>4, <2>5
<1>6. ASSUME NEW e \in Elem, PassThrough(e) PROVE TodoInv'
  BY <1>6, SMTT(30) DEF PassThrough
<1>7. ASSUME NEW e \in Elem, Submit(e) PROVE TodoInv'
  <2>1. todo[e] \in Seq(Image) /\ todo[e] # <<>>
    BY <1>7 DEF Submit
  <2>2. /\ 1 \in DOMAIN todo[e] /\ Head(todo[e]) = todo[e][1]
        /\ \A j \in DOMAIN Tail(todo[e]) :
              j + 1 \in DOMAIN todo[e] /\ Tail(todo[e])[j] = todo[e][j + 1] /\ j \in Nat \ {0}
    BY <2>1, PopFacts
  <2>3. \A d \in Elem : \A j \in DOMAIN todo'[d] :
           /\ todo'[d][j].elem = d
           /\ todo'[d][j].frame = arrived[d]
           /\ given[todo'[d][j]] = "new"
           /\ todo'[d][j] # Head(todo[e])
           /\ \A l \in DOMAIN todo'[d] : l # j => todo'[d][l] # todo'[d][j]
    <3>1. ASSUME NEW j \in DOMAIN Tail(todo[e])
          PROVE  /\ Tail(todo[e])[j].elem = e
                 /\ Tail(todo[e])[j].frame = arrived[e]
                 /\ given[Tail(todo[e])[j]] = "new"
                 /\ Tail(todo[e])[j] # Head(todo[e])
                 /\ \A l \in DOMAIN Tail(todo[e]) :
                       l # j => Tail(todo[e])[l] # Tail(todo[e])[j]
      BY <2>2, SMTT(30)
    <3>2. ASSUME NEW d \in Elem, d # e, NEW j \in DOMAIN todo[d]
          PROVE  /\ todo[d][j].elem = d
                 /\ todo[d][j].frame = arrived[d]
                 /\ given[todo[d][j]] = "new"
                 /\ todo[d][j] # Head(todo[e])
                 /\ \A l \in DOMAIN todo[d] : l # j => todo[d][l] # todo[d][j]
      <4>1. Head(todo[e]).elem = e
        BY <2>2
      <4>2. /\ todo[d][j].elem = d
            /\ todo[d][j].frame = arrived[d]
            /\ given[todo[d][j]] = "new"
            /\ \A l \in DOMAIN todo[d] : l # j => todo[d][l] # todo[d][j]
        BY <3>2 DEF TodoInv
      <4>3. todo[d][j] # Head(todo[e])
        BY <3>2, <4>1, <4>2, Zenon
      <4>. QED
        BY <4>2, <4>3, Zenon
    <3>3. todo' = [todo EXCEPT ![e] = Tail(todo[e])]
      BY <1>7 DEF Submit
    <3>4. todo'[e] = Tail(todo[e]) /\ \A d \in Elem : d # e => todo'[d] = todo[d]
      BY <3>3
    <3>. HIDE DEF IInv, TypeOK, FlowInv, TodoInv
    <3>. SUFFICES ASSUME NEW d \in Elem, NEW j \in DOMAIN todo'[d]
                  PROVE  /\ todo'[d][j].elem = d
                         /\ todo'[d][j].frame = arrived[d]
                         /\ given[todo'[d][j]] = "new"
                         /\ todo'[d][j] # Head(todo[e])
                         /\ \A l \in DOMAIN todo'[d] : l # j => todo'[d][l] # todo'[d][j]
      OBVIOUS
    <3>5. CASE d = e
      BY <3>1, <3>4, <3>5
    <3>6. CASE d # e
      BY <3>2, <3>4, <3>6
    <3>. QED
      BY <3>5, <3>6
  <2>. QED
    BY <1>7, <2>3 DEF Submit
<1>8. ASSUME NEW e \in Elem, SubmitThrow(e) PROVE TodoInv'
  <2>1. todo[e] \in Seq(Image) /\ todo[e] # <<>>
    BY <1>8 DEF SubmitThrow
  <2>2. Head(todo[e]) = todo[e][1] /\ 1 \in DOMAIN todo[e]
    BY <2>1, PopFacts
  <2>3. \A d \in Elem : d # e => \A j \in DOMAIN todo[d] : todo[d][j] # Head(todo[e])
    <3>1. Head(todo[e]).elem = e
      BY <2>2
    <3>2. ASSUME NEW d \in Elem, d # e, NEW j \in DOMAIN todo[d]
          PROVE  todo[d][j] # Head(todo[e])
      <4>1. todo[d][j].elem = d
        BY <3>2 DEF TodoInv
      <4>. QED
        BY <3>1, <3>2, <4>1, Zenon
    <3>. QED
      BY <3>2, Zenon
  <2>4. todo' = [todo EXCEPT ![e] = <<>>] /\ UNCHANGED arrived
        /\ given' \in {given, [given EXCEPT ![Head(todo[e])] = "pending"]}
    BY <1>8 DEF SubmitThrow
  <2>. QED
    BY <2>3, <2>4
<1>9. ASSUME NEW e \in Elem, FlushModel(e) PROVE TodoInv'
  BY <1>9, SMTT(30) DEF FlushModel
<1>10. ASSUME NEW batch \in Batches, CompletionCallback(batch) PROVE TodoInv'
  BY <1>10 DEF CompletionCallback
<1>11. ASSUME NEW batch \in Batches, InferenceFailed(batch) PROVE TodoInv'
  <2>1. \A i \in batch : given[i] = "pending"
    BY DEF Batches
  <2>2. \A i \in Image : given[i] = "new" => given'[i] = "new"
    BY <1>11, <2>1 DEF InferenceFailed
  <2>3. \A d \in Elem : \A j \in DOMAIN todo[d] : todo[d][j] \in Image
    OBVIOUS
  <2>. QED
    BY <1>11, <2>2, <2>3 DEF InferenceFailed
<1>12. CASE PushFront
  <2>1. UNCHANGED <<todo, arrived, given>>
    BY <1>12 DEF PushFront
  <2>. QED
    BY <2>1
<1>13. CASE CallbackReturn
  <2>1. \A i \in Image : given[i] = "new" => given'[i] = "new"
    BY <1>13 DEF CallbackReturn
  <2>2. \A d \in Elem : \A j \in DOMAIN todo[d] : todo[d][j] \in Image
    OBVIOUS
  <2>. QED
    BY <1>13, <2>1, <2>2 DEF CallbackReturn
<1>14. CASE UNCHANGED vars
  BY <1>14 DEF vars
<1>. QED
  BY <1>1, <1>2, <1>3, <1>4, <1>5, <1>6, <1>7, <1>8, <1>9, <1>10, <1>11, <1>12, <1>13, <1>14
  DEF Next, Transforming, CallbackStart, CallbackStep

\* One image more may be given when its frame is past its turn.
LEMMA GivenOne ==
    ASSUME NewInv, NEW e \in Elem, NEW image,
           image.elem = e, image.frame = arrived[e], Past(e) = arrived[e], arrived[e] \in Int,
           \A d \in Elem : Past(d)' = Past(d),
           \A i \in Image : given'[i] # "new" => given[i] # "new" \/ i = image
    PROVE  NewInv'
<1>. SUFFICES ASSUME NEW i \in Image, given'[i] # "new" PROVE i.frame <= Past(i.elem)'
  BY DEF NewInv
<1>1. i.elem \in Elem
  BY DEF Image
<1>. QED
  BY <1>1 DEF NewInv

\* Nothing is given while the frames arrive.
LEMMA Grows ==
    ASSUME NewInv, given' = given,
           \A d \in Elem : Past(d) \in Int /\ Past(d)' \in Int /\ Past(d)' >= Past(d)
    PROVE  NewInv'
<1>. SUFFICES ASSUME NEW i \in Image, given[i] # "new" PROVE i.frame <= Past(i.elem)'
  BY DEF NewInv
<1>1. i.elem \in Elem /\ i.frame \in Int
  BY DEF Image
<1>2. i.frame <= Past(i.elem)
  BY DEF NewInv
<1>. HIDE DEF Past
<1>. QED
  BY <1>1, <1>2

\* No image of a frame is submitted before the frame has joined the list.
LEMMA NewStep == IInv /\ [Next]_vars => NewInv'
<1>. SUFFICES ASSUME IInv, [Next]_vars PROVE NewInv'
  OBVIOUS
<1>. USE DEF IInv, TypeOK, FlowInv, NewInv, Past, Pending, callVars, frameVars, endVars
<1>1. ASSUME NEW e \in Elem, Decide(e) PROVE NewInv'
  <2>1. \A d \in Elem : Past(d) \in Int /\ Past(d)' >= Past(d)
    BY <1>1 DEF Decide
  <2>. QED
    BY <1>1, <2>1 DEF Decide, Image
<1>2. ASSUME NEW e \in Elem, SinkEventEos(e) PROVE NewInv'
  BY <1>2 DEF SinkEventEos
<1>3. ASSUME NEW e \in Elem, Stop(e) PROVE NewInv'
  BY <1>3 DEF Stop
<1>4. ASSUME NEW e \in Elem, FilterThrow(e) PROVE NewInv'
  BY <1>4 DEF FilterThrow, Image
<1>5. ASSUME NEW e \in Elem, Enqueue(e) PROVE NewInv'
  <2>1. given' = given
    BY <1>5 DEF Enqueue
  <2>2. ASSUME NEW d \in Elem
        PROVE  Past(d) \in Int /\ Past(d)' \in Int /\ Past(d)' >= Past(d)
    <3>1. arrived' = arrived /\ pc[e] = "enqueue"
          /\ pc' \in {[pc EXCEPT ![e] = "pass"], [pc EXCEPT ![e] = "idle"], [pc EXCEPT ![e] = "submit"]}
      BY <1>5 DEF Enqueue
    <3>2. arrived[d] \in Int
      OBVIOUS
    <3>. QED
      BY <3>1, <3>2, SMTT(30)
  <2>. QED
    BY <2>1, <2>2, Grows
<1>6. ASSUME NEW e \in Elem, PassThrough(e) PROVE NewInv'
  <2>1. given' = given /\ arrived' = arrived /\ pc[e] = "pass"
        /\ pc' = [pc EXCEPT ![e] = "idle"]
    BY <1>6 DEF PassThrough
  <2>2. ASSUME NEW d \in Elem
        PROVE  Past(d) \in Int /\ Past(d)' \in Int /\ Past(d)' >= Past(d)
    <3>1. arrived[d] \in Int
      OBVIOUS
    <3>. QED
      BY <2>1, <3>1, SMTT(30)
  <2>. QED
    BY <2>1, <2>2, Grows
<1>7. ASSUME NEW e \in Elem, Submit(e) PROVE NewInv'
  <2>1. todo[e] \in Seq(Image) /\ todo[e] # <<>> /\ pc[e] = "submit"
    BY <1>7 DEF Submit
  <2>2. Head(todo[e]) = todo[e][1] /\ 1 \in DOMAIN todo[e]
    BY <2>1, PopFacts
  <2>3. Head(todo[e]).elem = e /\ Head(todo[e]).frame = arrived[e]
    BY <2>2 DEF TodoInv
  <2>4. arrived' = arrived /\ \A d \in Elem : Past(d)' = Past(d) /\ Past(d) \in Int
    BY <1>7, SMTT(30) DEF Submit
  <2>5. given' \in {given, [given EXCEPT ![Head(todo[e])] = "pending"]}
    BY <1>7 DEF Submit
  <2>6. \A i \in Image : given'[i] # "new" => given[i] # "new" \/ i = Head(todo[e])
    BY <2>5
  <2>7. Past(e) = arrived[e] /\ arrived[e] \in Int
    BY <2>1
  <2>8. NewInv
    OBVIOUS
  <2>. HIDE DEF IInv, TypeOK, FlowInv, NewInv, Past
  <2>. QED
    BY <2>3, <2>4, <2>6, <2>7, <2>8, GivenOne
<1>8. ASSUME NEW e \in Elem, SubmitThrow(e) PROVE NewInv'
  <2>1. todo[e] \in Seq(Image) /\ todo[e] # <<>> /\ pc[e] = "submit"
    BY <1>8 DEF SubmitThrow
  <2>2. Head(todo[e]) = todo[e][1] /\ 1 \in DOMAIN todo[e]
    BY <2>1, PopFacts
  <2>3. Head(todo[e]).elem = e /\ Head(todo[e]).frame = arrived[e]
    BY <2>2 DEF TodoInv
  <2>4. arrived' = arrived /\ \A d \in Elem : Past(d)' = Past(d) /\ Past(d) \in Int
    BY <1>8 DEF SubmitThrow
  <2>5. given' \in {given, [given EXCEPT ![Head(todo[e])] = "pending"]}
    BY <1>8 DEF SubmitThrow
  <2>6. \A i \in Image : given'[i] # "new" => given[i] # "new" \/ i = Head(todo[e])
    BY <2>5
  <2>7. Past(e) = arrived[e] /\ arrived[e] \in Int
    BY <2>1
  <2>8. NewInv
    OBVIOUS
  <2>. HIDE DEF IInv, TypeOK, FlowInv, NewInv, Past
  <2>. QED
    BY <2>3, <2>4, <2>6, <2>7, <2>8, GivenOne
<1>9. ASSUME NEW e \in Elem, FlushModel(e) PROVE NewInv'
  BY <1>9 DEF FlushModel
<1>10. ASSUME NEW batch \in Batches, CompletionCallback(batch) PROVE NewInv'
  BY <1>10 DEF CompletionCallback
<1>11. ASSUME NEW batch \in Batches, InferenceFailed(batch) PROVE NewInv'
  BY <1>11 DEF InferenceFailed, Batches
<1>12. CASE PushFront
  BY <1>12 DEF PushFront
<1>13. CASE CallbackReturn
  BY <1>13, SMTT(30) DEF CallbackReturn
<1>14. CASE UNCHANGED vars
  BY <1>14, SMTT(30) DEF vars
<1>. QED
  BY <1>1, <1>2, <1>3, <1>4, <1>5, <1>6, <1>7, <1>8, <1>9, <1>10, <1>11, <1>12, <1>13, <1>14
  DEF Next, Transforming, CallbackStart, CallbackStep
-----------------------------------------------------------------------------
(* The order of the frames *)

\* A frame moves on to the list, never back.
LEMMA JoinedGrows == IInv /\ [Next]_vars => \A d \in Elem : Joined(d)' >= Joined(d)
<1>. SUFFICES ASSUME IInv, [Next]_vars PROVE \A d \in Elem : Joined(d)' >= Joined(d)
  OBVIOUS
<1>. USE DEF IInv, TypeOK, Joined, callVars, frameVars, endVars
<1>1. ASSUME NEW e \in Elem, Decide(e) PROVE \A d \in Elem : Joined(d)' >= Joined(d)
  BY <1>1, SMTT(30) DEF Decide
<1>2. ASSUME NEW e \in Elem, SinkEventEos(e) PROVE \A d \in Elem : Joined(d)' >= Joined(d)
  BY <1>2, SMTT(30) DEF SinkEventEos
<1>3. ASSUME NEW e \in Elem, Stop(e) PROVE \A d \in Elem : Joined(d)' >= Joined(d)
  BY <1>3, SMTT(30) DEF Stop
<1>4. ASSUME NEW e \in Elem, FilterThrow(e) PROVE \A d \in Elem : Joined(d)' >= Joined(d)
  BY <1>4, SMTT(30) DEF FilterThrow
<1>5. ASSUME NEW e \in Elem, Enqueue(e) PROVE \A d \in Elem : Joined(d)' >= Joined(d)
  BY <1>5, SMTT(30) DEF Enqueue
<1>6. ASSUME NEW e \in Elem, PassThrough(e) PROVE \A d \in Elem : Joined(d)' >= Joined(d)
  BY <1>6, SMTT(30) DEF PassThrough
<1>7. ASSUME NEW e \in Elem, Submit(e) PROVE \A d \in Elem : Joined(d)' >= Joined(d)
  BY <1>7, SMTT(30) DEF Submit
<1>8. ASSUME NEW e \in Elem, SubmitThrow(e) PROVE \A d \in Elem : Joined(d)' >= Joined(d)
  BY <1>8, SMTT(30) DEF SubmitThrow
<1>9. ASSUME NEW e \in Elem, FlushModel(e) PROVE \A d \in Elem : Joined(d)' >= Joined(d)
  BY <1>9, SMTT(30) DEF FlushModel
<1>10. ASSUME NEW batch \in Batches, CompletionCallback(batch) PROVE \A d \in Elem : Joined(d)' >= Joined(d)
  BY <1>10, SMTT(30) DEF CompletionCallback
<1>11. ASSUME NEW batch \in Batches, InferenceFailed(batch) PROVE \A d \in Elem : Joined(d)' >= Joined(d)
  BY <1>11, SMTT(30) DEF InferenceFailed
<1>12. CASE PushFront
  BY <1>12, SMTT(30) DEF PushFront
<1>13. CASE CallbackReturn
  BY <1>13, SMTT(30) DEF CallbackReturn
<1>14. CASE UNCHANGED vars
  BY <1>14, SMTT(30) DEF vars
<1>. QED
  BY <1>1, <1>2, <1>3, <1>4, <1>5, <1>6, <1>7, <1>8, <1>9, <1>10, <1>11, <1>12, <1>13, <1>14
  DEF Next, Transforming, CallbackStart, CallbackStep

\* The list is as it was, and frames have only moved on.
LEMMA FramesKept ==
    ASSUME TypeOK, QueueInv, DOMAIN output_frames' = DOMAIN output_frames,
           \A k \in DOMAIN output_frames :
               /\ output_frames'[k].elem = output_frames[k].elem
               /\ output_frames'[k].frame = output_frames[k].frame,
           \A d \in Elem : Joined(d) \in Int /\ Joined(d)' \in Int /\ Joined(d)' >= Joined(d)
    PROVE  QueueInv'
<1>1. ASSUME NEW k \in DOMAIN output_frames
      PROVE  output_frames[k].elem \in Elem /\ output_frames[k].frame \in Int
  <2>1. output_frames[k] \in OutputFrame
    BY DEF TypeOK
  <2>. QED
    BY <2>1 DEF OutputFrame
<1>2. ASSUME NEW k \in DOMAIN output_frames
      PROVE  output_frames[k].frame <= Joined(output_frames[k].elem)'
  <2>1. output_frames[k].frame <= Joined(output_frames[k].elem)
    BY DEF QueueInv
  <2>. HIDE DEF Joined
  <2>. QED
    BY <1>1, <2>1
<1>. HIDE DEF Joined
<1>. QED
  BY <1>2 DEF QueueInv

\* Frames join the list in the order in which they arrive, and keep it.
LEMMA QueueStep == IInv /\ [Next]_vars => QueueInv'
<1>. SUFFICES ASSUME IInv, [Next]_vars PROVE QueueInv'
  OBVIOUS
<1>. USE DEF IInv, callVars, frameVars, endVars
<1>0. /\ TypeOK /\ QueueInv
      /\ \A d \in Elem : Joined(d) \in Int /\ Joined(d)' \in Int /\ Joined(d)' >= Joined(d)
  <2>1. TypeOK /\ TypeOK' /\ \A d \in Elem : Joined(d)' >= Joined(d)
    BY JoinedGrows, TypeStep
  <2>2. ASSUME NEW d \in Elem PROVE Joined(d) \in Int /\ Joined(d)' \in Int
    <3>1. arrived[d] \in Int /\ arrived'[d] \in Int
      BY <2>1 DEF TypeOK
    <3>. QED
      BY <3>1 DEF Joined
  <2>3. QueueInv
    OBVIOUS
  <2>. HIDE DEF IInv, Joined
  <2>. QED
    BY <2>1, <2>2, <2>3
<1>1. ASSUME NEW e \in Elem, Decide(e) PROVE QueueInv'
  <2>. SUFFICES UNCHANGED output_frames
    BY <1>0, FramesKept
  <2>. QED
    BY <1>1 DEF Decide
<1>2. ASSUME NEW e \in Elem, SinkEventEos(e) PROVE QueueInv'
  <2>. SUFFICES UNCHANGED output_frames
    BY <1>0, FramesKept
  <2>. QED
    BY <1>2 DEF SinkEventEos
<1>3. ASSUME NEW e \in Elem, Stop(e) PROVE QueueInv'
  <2>. SUFFICES UNCHANGED output_frames
    BY <1>0, FramesKept
  <2>. QED
    BY <1>3 DEF Stop
<1>4. ASSUME NEW e \in Elem, FilterThrow(e) PROVE QueueInv'
  <2>. SUFFICES UNCHANGED output_frames
    BY <1>0, FramesKept
  <2>. QED
    BY <1>4 DEF FilterThrow
<1>5. ASSUME NEW e \in Elem, Enqueue(e) PROVE QueueInv'
  <2>1. arrived[e] >= 1 /\ arrived[e] \in Int /\ Joined(e) = arrived[e] - 1
    BY <1>5 DEF Enqueue, FlowInv, TypeOK, Joined
  <2>2. CASE UNCHANGED output_frames
    BY <1>0, <2>2, FramesKept
  <2>3. CASE output_frames' = Append(output_frames,
                 [elem |-> e, frame |-> arrived[e], inference_count |-> inference_count(e)])
             /\ pc'[e] # "pass"
    <3> DEFINE n == Len(output_frames) + 1
    <3>1. /\ DOMAIN output_frames' = DOMAIN output_frames \cup {n}
          /\ n \notin DOMAIN output_frames
          /\ \A k \in DOMAIN output_frames :
                output_frames'[k] = output_frames[k] /\ k \in Nat /\ k < n
          /\ output_frames'[n].elem = e
          /\ output_frames'[n].frame = arrived[e]
      BY <1>0, <2>1, <2>3, JoinFacts
    <3>2. n \in Nat
      BY <1>0 DEF TypeOK
    <3>3. Joined(e)' = arrived[e]
      BY <1>5, <2>3 DEF Enqueue, Joined, TypeOK
    <3>. HIDE DEF n, Joined
    <3>4. ASSUME NEW k \in DOMAIN output_frames
          PROVE  /\ output_frames[k].elem \in Elem /\ output_frames[k].frame \in Int
                 /\ \A d \in Elem : d = output_frames[k].elem => output_frames[k].frame <= Joined(d)'
                 /\ output_frames[k].elem = e => output_frames[k].frame < arrived[e]
      <4>1. /\ output_frames[k] \in OutputFrame
            /\ \A d \in Elem : d = output_frames[k].elem => output_frames[k].frame <= Joined(d)
        <5>. HIDE DEF IInv
        <5>1. output_frames[k] \in OutputFrame
          BY <1>0 DEF TypeOK
        <5>2. \A d \in Elem : d = output_frames[k].elem => output_frames[k].frame <= Joined(d)
          BY <1>0 DEF QueueInv
        <5>. QED
          BY <5>1, <5>2
      <4>2. output_frames[k].elem \in Elem /\ output_frames[k].frame \in Int
        BY <4>1 DEF OutputFrame
      <4>. QED
        BY <1>0, <2>1, <4>1, <4>2
    <3>5. ASSUME NEW k \in DOMAIN output_frames', NEW d \in Elem, d = output_frames'[k].elem
          PROVE  output_frames'[k].frame <= Joined(d)'
      BY <2>1, <3>1, <3>3, <3>4, <3>5
    <3>6. ASSUME NEW k \in DOMAIN output_frames', NEW l \in DOMAIN output_frames', k < l,
                 output_frames'[k].elem = output_frames'[l].elem
          PROVE  output_frames'[k].frame < output_frames'[l].frame
      <4>1. k \in DOMAIN output_frames
        BY <3>1, <3>2, <3>6
      <4>2. CASE l \in DOMAIN output_frames
        BY <1>0, <3>1, <3>6, <4>1, <4>2 DEF QueueInv
      <4>3. CASE l = n
        BY <3>1, <3>4, <3>6, <4>1, <4>3
      <4>. QED
        BY <3>1, <4>2, <4>3
    <3>7. \A k \in DOMAIN output_frames' : output_frames'[k].elem \in Elem
      BY <3>1, <3>4
    <3>. QED
      BY <3>5, <3>6, <3>7 DEF QueueInv, Joined
  <2>. QED
    BY <1>5, <2>2, <2>3 DEF Enqueue, TypeOK
<1>6. ASSUME NEW e \in Elem, PassThrough(e) PROVE QueueInv'
  <2>. SUFFICES UNCHANGED output_frames
    BY <1>0, FramesKept
  <2>. QED
    BY <1>6 DEF PassThrough
<1>7. ASSUME NEW e \in Elem, Submit(e) PROVE QueueInv'
  <2>. SUFFICES UNCHANGED output_frames
    BY <1>0, FramesKept
  <2>. QED
    BY <1>7 DEF Submit
<1>8. ASSUME NEW e \in Elem, SubmitThrow(e) PROVE QueueInv'
  <2>. SUFFICES UNCHANGED output_frames
    BY <1>0, FramesKept
  <2>. QED
    BY <1>8 DEF SubmitThrow
<1>9. ASSUME NEW e \in Elem, FlushModel(e) PROVE QueueInv'
  <2>. SUFFICES UNCHANGED output_frames
    BY <1>0, FramesKept
  <2>. QED
    BY <1>9 DEF FlushModel
<1>10. ASSUME NEW batch \in Batches, CompletionCallback(batch) PROVE QueueInv'
  <2>1. batch \subseteq Pending
    BY DEF Batches
  <2>2. /\ DOMAIN output_frames' = DOMAIN output_frames
        /\ \A k \in DOMAIN output_frames :
              /\ output_frames'[k].elem = output_frames[k].elem
              /\ output_frames'[k].frame = output_frames[k].frame
    BY <1>10, <2>1, UpdateFacts DEF CompletionCallback
  <2>. QED
    BY <1>0, <2>2, FramesKept
<1>11. ASSUME NEW batch \in Batches, InferenceFailed(batch) PROVE QueueInv'
  <2>. SUFFICES UNCHANGED output_frames
    BY <1>0, FramesKept
  <2>. QED
    BY <1>11 DEF InferenceFailed
<1>12. CASE PushFront
  <2>1. output_frames \in Seq(OutputFrame) /\ output_frames # <<>>
    BY <1>12 DEF PushFront, Complete, TypeOK
  <2>2. /\ output_frames' = Tail(output_frames)
        /\ \A k \in DOMAIN Tail(output_frames) :
              /\ k + 1 \in DOMAIN output_frames
              /\ Tail(output_frames)[k] = output_frames[k + 1] /\ k \in Nat \ {0}
    BY <1>12, <2>1, PopFacts DEF PushFront
  <2>3. \A d \in Elem : Joined(d)' = Joined(d)
    BY <1>12 DEF PushFront, Joined
  <2>. HIDE DEF IInv, Joined
  <2>4. ASSUME NEW k \in DOMAIN output_frames'
        PROVE  /\ output_frames'[k].elem \in Elem
               /\ \A d \in Elem : d = output_frames'[k].elem => output_frames'[k].frame <= Joined(d)'
    <3>1. output_frames[k + 1] \in OutputFrame
      BY <2>1, <2>2
    <3>2. output_frames[k + 1].elem \in Elem
      BY <3>1 DEF OutputFrame
    <3>3. \A d \in Elem : d = output_frames[k + 1].elem => output_frames[k + 1].frame <= Joined(d)
      BY <1>0, <2>2 DEF QueueInv
    <3>. QED
      BY <2>2, <2>3, <3>2, <3>3
  <2>5. ASSUME NEW k \in DOMAIN output_frames', NEW l \in DOMAIN output_frames', k < l,
               output_frames'[k].elem = output_frames'[l].elem
        PROVE  output_frames'[k].frame < output_frames'[l].frame
    <3>1. k + 1 < l + 1
      BY <2>2, <2>5
    <3>. QED
      BY <1>0, <2>2, <2>5, <3>1 DEF QueueInv
  <2>. QED
    BY <2>4, <2>5 DEF QueueInv, Joined
<1>13. CASE CallbackReturn
  <2>. SUFFICES UNCHANGED output_frames
    BY <1>0, FramesKept
  <2>. QED
    BY <1>13 DEF CallbackReturn
<1>14. CASE UNCHANGED vars
  <2>. SUFFICES UNCHANGED output_frames
    BY <1>0, FramesKept
  <2>. QED
    BY <1>14 DEF vars
<1>. QED
  BY <1>1, <1>2, <1>3, <1>4, <1>5, <1>6, <1>7, <1>8, <1>9, <1>10, <1>11, <1>12, <1>13, <1>14
  DEF Next, Transforming, CallbackStart, CallbackStep

\* Nothing is delivered, the list is as it was, and no frame is sure that was not.
LEMMA OrderKept ==
    ASSUME NEW d \in Elem, OrderOf(d), DOMAIN output_frames' = DOMAIN output_frames,
           \A k \in DOMAIN output_frames :
               /\ output_frames'[k].elem = output_frames[k].elem
               /\ output_frames'[k].frame = output_frames[k].frame,
           delivered' = delivered, delivered[d] \in Seq(1..MaxFrames),
           phase'[d] # "stopped" => phase[d] # "stopped",
           pc'[d] = "pass" => pc[d] = "pass",
           Joined(d) \in Int, Joined(d)' \in Int, Joined(d)' >= Joined(d),
           Sure(d) \in Int, Sure(d)' \in Int, Sure(d)' <= Sure(d)
    PROVE  OrderOf(d)'
<1>. HIDE DEF Joined, Sure
<1>1. Len(delivered[d]) \in Nat
  OBVIOUS
<1>2. \A k \in DOMAIN delivered'[d] : delivered'[d][k] = k
  BY DEF OrderOf
<1>3. ASSUME phase'[d] # "stopped"
      PROVE  /\ Len(delivered'[d]) <= Joined(d)'
             /\ \A k \in DOMAIN output_frames' :
                   output_frames'[k].elem = d => output_frames'[k].frame > Len(delivered'[d])
             /\ \A n \in 1..Sure(d)' : n > Len(delivered'[d]) =>
                   \E k \in DOMAIN output_frames' :
                       output_frames'[k].elem = d /\ output_frames'[k].frame = n
  <2>1. phase[d] # "stopped"
    BY <1>3
  <2>2. Len(delivered'[d]) <= Joined(d)'
    BY <1>1, <2>1 DEF OrderOf
  <2>3. \A k \in DOMAIN output_frames' :
           output_frames'[k].elem = d => output_frames'[k].frame > Len(delivered'[d])
    BY <2>1 DEF OrderOf
  <2>4. ASSUME NEW n \in 1..Sure(d)', n > Len(delivered'[d])
        PROVE  \E k \in DOMAIN output_frames' :
                   output_frames'[k].elem = d /\ output_frames'[k].frame = n
    <3>1. n \in 1..Sure(d)
      OBVIOUS
    <3>. QED
      BY <2>1, <2>4, <3>1 DEF OrderOf
  <2>. QED
    BY <2>2, <2>3, <2>4
<1>4. pc'[d] = "pass" => \A k \in DOMAIN output_frames' : output_frames'[k].elem # d
  BY DEF OrderOf
<1>. QED
  BY <1>2, <1>3, <1>4 DEF OrderOf

\* The frame at the front is the next one of its element.
LEMMA FrontIsNext ==
    ASSUME TypeOK, QueueInv, OrderInv, Complete,
           phase[Head(output_frames).elem] # "stopped"
    PROVE  LET f == Head(output_frames)
           IN f.elem \in Elem /\ f.frame = Len(delivered[f.elem]) + 1
<1>1. output_frames \in Seq(OutputFrame) /\ output_frames # <<>>
  BY DEF Complete, TypeOK
<1>2. 1 \in DOMAIN output_frames /\ Head(output_frames) = output_frames[1]
      /\ \A k \in DOMAIN output_frames : k \in Nat /\ (k # 1 => 1 < k)
  BY <1>1
<1>3. output_frames[1] \in OutputFrame
  BY <1>1, <1>2
<1> DEFINE e == output_frames[1].elem
           n == output_frames[1].frame
           len == Len(delivered[e])
<1>4. e \in Elem /\ n \in Nat
  BY <1>3 DEF OutputFrame
<1>5. len \in Nat /\ arrived[e] \in Nat
  BY <1>4 DEF TypeOK
<1>6. Joined(e) \in Int /\ Sure(e) \in Int /\ Sure(e) >= Joined(e) - 1
  BY <1>5 DEF Joined, Sure
<1>7. n <= Joined(e) /\ n > len /\ OrderOf(e)
  BY <1>2, <1>4 DEF QueueInv, OrderInv, OrderOf
<1>8. ASSUME n # len + 1 PROVE FALSE
  <2>1. len + 1 \in 1..Sure(e) /\ len + 1 > len
    <3>. HIDE DEF len, e, n, Sure, Joined
    <3>. QED
      BY <1>4, <1>5, <1>6, <1>7, <1>8
  <2>2. PICK k \in DOMAIN output_frames :
           output_frames[k].elem = e /\ output_frames[k].frame = len + 1
    BY <1>2, <1>4, <1>7, <2>1 DEF OrderOf
  <2>3. k # 1 /\ n < len + 1
    BY <1>2, <1>8, <2>2 DEF QueueInv
  <2>. QED
    BY <1>4, <1>5, <1>7, <2>3
<1>. QED
  BY <1>2, <1>4, <1>8

\* The frame at the front is not one that counts for this element.
LEMMA FrontLeaves ==
    ASSUME TypeOK, QueueInv, NEW d \in Elem, OrderOf(d), output_frames # <<>>,
           d # Head(output_frames).elem \/ phase[d] = "stopped",
           output_frames' = Tail(output_frames),
           delivered'[d] = delivered[d], phase' = phase, pc' = pc,
           Joined(d)' = Joined(d), Sure(d)' = Sure(d)
    PROVE  OrderOf(d)'
<1>1. /\ Head(output_frames) = output_frames[1]
      /\ \A k \in DOMAIN Tail(output_frames) :
            k + 1 \in DOMAIN output_frames /\ Tail(output_frames)[k] = output_frames[k + 1]
      /\ \A k \in DOMAIN output_frames :
            k # 1 => k - 1 \in DOMAIN Tail(output_frames)
                     /\ Tail(output_frames)[k - 1] = output_frames[k]
  BY PopFacts DEF TypeOK
<1>. HIDE DEF Joined, Sure
<1>2. ASSUME phase[d] # "stopped", NEW n \in 1..Sure(d), n > Len(delivered[d])
      PROVE  \E k \in DOMAIN output_frames' :
                 output_frames'[k].elem = d /\ output_frames'[k].frame = n
  <2>1. PICK k \in DOMAIN output_frames :
           output_frames[k].elem = d /\ output_frames[k].frame = n
    BY <1>2 DEF OrderOf
  <2>2. k # 1
    BY <1>1, <1>2, <2>1
  <2>3. k - 1 \in DOMAIN output_frames' /\ output_frames'[k - 1] = output_frames[k]
    BY <1>1, <2>2
  <2>. QED
    BY <2>1, <2>3
<1>. QED
  BY <1>1, <1>2 DEF OrderOf

\* The frame at the front is delivered: the frames behind it are later ones.
LEMMA FrontDelivered ==
    ASSUME TypeOK, QueueInv, output_frames # <<>>, NEW d \in Elem, OrderOf(d),
           d = Head(output_frames).elem, phase[d] # "stopped",
           delivered[d] \in Seq(1..MaxFrames), Head(output_frames).frame \in 1..MaxFrames,
           Head(output_frames).frame = Len(delivered[d]) + 1,
           output_frames' = Tail(output_frames),
           delivered'[d] = Append(delivered[d], Head(output_frames).frame),
           phase' = phase, pc' = pc,
           Joined(d)' = Joined(d), Sure(d)' = Sure(d)
    PROVE  OrderOf(d)'
<1> DEFINE len == Len(delivered[d])
<1>1. /\ 1 \in DOMAIN output_frames /\ Head(output_frames) = output_frames[1]
      /\ \A k \in DOMAIN Tail(output_frames) :
            /\ k + 1 \in DOMAIN output_frames /\ Tail(output_frames)[k] = output_frames[k + 1]
            /\ k \in Nat \ {0}
      /\ \A k \in DOMAIN output_frames :
            k # 1 => k - 1 \in DOMAIN Tail(output_frames)
                     /\ Tail(output_frames)[k - 1] = output_frames[k]
  BY PopFacts, SMTT(30) DEF TypeOK
<1>2. /\ DOMAIN delivered'[d] = DOMAIN delivered[d] \cup {len + 1}
      /\ \A k \in DOMAIN delivered[d] : delivered'[d][k] = delivered[d][k]
      /\ delivered'[d][len + 1] = len + 1
      /\ Len(delivered'[d]) = len + 1 /\ len \in Nat
  BY PushFacts
<1>3. output_frames[1].frame = len + 1 /\ output_frames[1].elem = d
  BY <1>1
<1>. HIDE DEF len, Joined, Sure
<1>4. \A k \in DOMAIN delivered'[d] : delivered'[d][k] = k
  BY <1>2 DEF OrderOf
<1>5. len + 1 <= Joined(d)'
  <2>1. \A c \in Elem : c = output_frames[1].elem => output_frames[1].frame <= Joined(c)
    BY <1>1 DEF QueueInv
  <2>. QED
    BY <1>3, <2>1
<1>6. ASSUME NEW k \in DOMAIN output_frames', output_frames'[k].elem = d
      PROVE  output_frames'[k].frame > len + 1
  <2>1. k + 1 \in DOMAIN output_frames /\ 1 < k + 1 /\ output_frames'[k] = output_frames[k + 1]
    BY <1>1
  <2>2. output_frames[1].frame < output_frames[k + 1].frame
    BY <1>1, <1>3, <1>6, <2>1 DEF QueueInv
  <2>3. output_frames[k + 1] \in OutputFrame
    BY <2>1 DEF TypeOK
  <2>. QED
    BY <1>2, <1>3, <2>1, <2>2, <2>3 DEF OutputFrame
<1>7. ASSUME NEW n \in 1..Sure(d), n > len + 1
      PROVE  \E k \in DOMAIN output_frames' :
                 output_frames'[k].elem = d /\ output_frames'[k].frame = n
  <2>1. n > len
    BY <1>2, <1>7
  <2>2. PICK k \in DOMAIN output_frames :
           output_frames[k].elem = d /\ output_frames[k].frame = n
    BY <2>1 DEF OrderOf, len
  <2>3. k # 1
    BY <1>2, <1>3, <1>7, <2>2
  <2>4. k - 1 \in DOMAIN output_frames' /\ output_frames'[k - 1] = output_frames[k]
    BY <1>1, <2>3
  <2>. QED
    BY <2>2, <2>4
<1>8. pc'[d] # "pass"
  BY <1>1, <1>3 DEF OrderOf
<1>9. Len(delivered'[d]) <= Joined(d)'
  BY <1>2, <1>5
<1>10. \A k \in DOMAIN output_frames' :
          output_frames'[k].elem = d => output_frames'[k].frame > Len(delivered'[d])
  BY <1>2, <1>6
<1>11. \A n \in 1..Sure(d)' : n > Len(delivered'[d]) =>
          \E k \in DOMAIN output_frames' :
             output_frames'[k].elem = d /\ output_frames'[k].frame = n
  BY <1>2, <1>7
<1>. QED
  BY <1>4, <1>8, <1>9, <1>10, <1>11 DEF OrderOf

\* Nothing changes for this element.
LEMMA OrderAlone ==
    ASSUME NEW d \in Elem, OrderOf(d), output_frames' = output_frames,
           delivered'[d] = delivered[d], phase' = phase, pc'[d] = pc[d],
           Joined(d)' = Joined(d), Sure(d)' = Sure(d)
    PROVE  OrderOf(d)'
BY DEF OrderOf

\* Frames are delivered in their order, and none is missing from the list.
LEMMA OrderStep == IInv /\ [Next]_vars => OrderInv'
<1>. SUFFICES ASSUME IInv, [Next]_vars PROVE OrderInv'
  OBVIOUS
<1>. USE DEF IInv, callVars, frameVars, endVars
<1>0. /\ TypeOK /\ CountInv /\ QueueInv /\ OrderInv
      /\ \A d \in Elem :
            /\ OrderOf(d) /\ delivered[d] \in Seq(1..MaxFrames)
            /\ Joined(d) \in Int /\ Joined(d)' \in Int /\ Joined(d)' >= Joined(d)
            /\ Sure(d) \in Int /\ Sure(d)' \in Int
  <2>1. /\ TypeOK /\ TypeOK' /\ CountInv /\ QueueInv /\ OrderInv
        /\ \A d \in Elem : Joined(d)' >= Joined(d)
    BY JoinedGrows, TypeStep
  <2>. HIDE DEF IInv
  <2>2. ASSUME NEW d \in Elem
        PROVE  Joined(d) \in Int /\ Joined(d)' \in Int /\ Sure(d) \in Int /\ Sure(d)' \in Int
    <3>1. arrived[d] \in Int /\ arrived'[d] \in Int
      BY <2>1 DEF TypeOK
    <3>. QED
      BY <3>1 DEF Joined, Sure
  <2>3. ASSUME NEW d \in Elem PROVE OrderOf(d) /\ delivered[d] \in Seq(1..MaxFrames)
    BY <2>1 DEF OrderInv, TypeOK
  <2>. HIDE DEF Joined, Sure
  <2>. QED
    BY <2>1, <2>2, <2>3
<1>1. ASSUME NEW e \in Elem, Decide(e) PROVE OrderInv'
  <2>. SUFFICES ASSUME NEW d \in Elem PROVE OrderOf(d)'
    BY DEF OrderInv
  <2>1. UNCHANGED <<output_frames, delivered>>
    BY <1>1 DEF Decide
  <2>2. phase'[d] # "stopped" => phase[d] # "stopped"
    BY <1>1, <1>0 DEF Decide, TypeOK
  <2>3. pc'[d] = "pass" => pc[d] = "pass"
    BY <1>1, <1>0 DEF Decide, TypeOK
  <2>4. Sure(d)' <= Sure(d)
    BY <1>1, <1>0, SMTT(30) DEF Decide, TypeOK, Sure, FlowInv
  <2>. HIDE DEF IInv
  <2>. QED
    BY <1>0, <2>1, <2>2, <2>3, <2>4, OrderKept
<1>2. ASSUME NEW e \in Elem, SinkEventEos(e) PROVE OrderInv'
  <2>. SUFFICES ASSUME NEW d \in Elem PROVE OrderOf(d)'
    BY DEF OrderInv
  <2>1. UNCHANGED <<output_frames, delivered>>
    BY <1>2 DEF SinkEventEos, Ready
  <2>2. phase'[d] # "stopped" => phase[d] # "stopped"
    BY <1>2, <1>0 DEF SinkEventEos, Ready, TypeOK
  <2>3. pc'[d] = "pass" => pc[d] = "pass"
    BY <1>2, <1>0 DEF SinkEventEos, Ready, TypeOK
  <2>4. Sure(d)' <= Sure(d)
    <3>1. UNCHANGED <<pc, arrived>>
      BY <1>2 DEF SinkEventEos, Ready
    <3>2. Sure(d)' = Sure(d)
      BY <3>1 DEF Sure
    <3>. HIDE DEF IInv
    <3>. QED
      BY <1>0, <3>2
  <2>. HIDE DEF IInv
  <2>. QED
    BY <1>0, <2>1, <2>2, <2>3, <2>4, OrderKept
<1>3. ASSUME NEW e \in Elem, Stop(e) PROVE OrderInv'
  <2>. SUFFICES ASSUME NEW d \in Elem PROVE OrderOf(d)'
    BY DEF OrderInv
  <2>1. UNCHANGED <<output_frames, delivered>>
    BY <1>3 DEF Stop, Ready
  <2>2. phase'[d] # "stopped" => phase[d] # "stopped"
    BY <1>3, <1>0 DEF Stop, Ready, TypeOK
  <2>3. pc'[d] = "pass" => pc[d] = "pass"
    BY <1>3, <1>0 DEF Stop, Ready, TypeOK
  <2>4. Sure(d)' <= Sure(d)
    <3>1. UNCHANGED <<pc, arrived>>
      BY <1>3 DEF Stop, Ready
    <3>2. Sure(d)' = Sure(d)
      BY <3>1 DEF Sure
    <3>. HIDE DEF IInv
    <3>. QED
      BY <1>0, <3>2
  <2>. HIDE DEF IInv
  <2>. QED
    BY <1>0, <2>1, <2>2, <2>3, <2>4, OrderKept
<1>4. ASSUME NEW e \in Elem, FilterThrow(e) PROVE OrderInv'
  <2>. SUFFICES ASSUME NEW d \in Elem PROVE OrderOf(d)'
    BY DEF OrderInv
  <2>1. UNCHANGED <<output_frames, delivered>>
    BY <1>4 DEF FilterThrow
  <2>2. phase'[d] # "stopped" => phase[d] # "stopped"
    BY <1>4, <1>0 DEF FilterThrow, TypeOK
  <2>3. pc'[d] = "pass" => pc[d] = "pass"
    BY <1>4, <1>0 DEF FilterThrow, TypeOK
  <2>4. Sure(d)' <= Sure(d)
    <3>1. arrived' = arrived /\ arrived[d] \in Nat
      BY <1>4, <1>0 DEF FilterThrow, TypeOK
    <3>2. pc'[d] = pc[d] \/ (pc[d] = "enqueue" /\ pc'[d] = "error")
      BY <1>4, <1>0 DEF FilterThrow, TypeOK
    <3>. HIDE DEF IInv
    <3>. QED
      BY <3>1, <3>2 DEF Sure
  <2>. HIDE DEF IInv
  <2>. QED
    BY <1>0, <2>1, <2>2, <2>3, <2>4, OrderKept
<1>5. ASSUME NEW e \in Elem, Enqueue(e) PROVE OrderInv'
  <2>1. /\ phase[e] = "streaming" /\ pc[e] = "enqueue" /\ arrived[e] >= 1
        /\ Joined(e) = arrived[e] - 1 /\ Sure(e) = arrived[e] - 1 /\ arrived[e] \in Nat
        /\ UNCHANGED <<arrived, phase, delivered>>
        /\ \A d \in Elem : d # e => pc'[d] = pc[d]
    BY <1>5, <1>0 DEF Enqueue, FlowInv, TypeOK, Joined, Sure
  <2>2. CASE output_frames = <<>> /\ output_frames' = <<>> /\ pc'[e] = "pass"
    <3>. SUFFICES ASSUME NEW d \in Elem PROVE OrderOf(d)'
      BY DEF OrderInv
    <3>1. Sure(d)' = Sure(d)
      BY <2>1, <2>2 DEF Sure
    <3>2. CASE d # e
      BY <1>0, <2>1, <2>2, <3>1, <3>2, OrderKept
    <3>3. CASE d = e
      BY <1>0, <2>1, <2>2, <3>1, <3>3 DEF OrderOf, Joined
    <3>. QED
      BY <3>2, <3>3
  <2>3. CASE /\ output_frames' = Append(output_frames,
                   [elem |-> e, frame |-> arrived[e], inference_count |-> inference_count(e)])
             /\ pc'[e] \in {"idle", "submit"}
    <3> DEFINE n == Len(output_frames) + 1
    <3>1. /\ DOMAIN output_frames' = DOMAIN output_frames \cup {n}
          /\ n \notin DOMAIN output_frames
          /\ \A k \in DOMAIN output_frames : output_frames'[k] = output_frames[k]
          /\ output_frames'[n].elem = e
          /\ output_frames'[n].frame = arrived[e]
      BY <1>0, <2>1, <2>3, JoinFacts
    <3>. HIDE DEF n, IInv
    <3>2. ASSUME NEW d \in Elem, d # e PROVE OrderOf(d)'
      <4>1. Joined(d)' = Joined(d) /\ Sure(d)' = Sure(d)
        BY <2>1, <3>2 DEF Joined, Sure
      <4>. QED
        BY <1>0, <2>1, <3>1, <3>2, <4>1 DEF OrderOf
    <3>3. OrderOf(e)'
      <4>1. Joined(e)' = arrived[e] /\ Sure(e)' = arrived[e]
        BY <2>1, <2>3 DEF Joined, Sure
      <4>2. /\ OrderOf(e) /\ Len(delivered[e]) \in Nat /\ Len(delivered[e]) <= arrived[e] - 1
        <5>1. OrderOf(e) /\ Len(delivered[e]) \in Nat
          BY <1>0
        <5>. QED
          BY <2>1, <5>1 DEF OrderOf
      <4>3. \A k \in DOMAIN output_frames' :
               output_frames'[k].elem = e => output_frames'[k].frame > Len(delivered[e])
        BY <2>1, <3>1, <4>2 DEF OrderOf
      <4>4. ASSUME NEW m \in 1..arrived[e], m > Len(delivered[e])
            PROVE  \E k \in DOMAIN output_frames' :
                       output_frames'[k].elem = e /\ output_frames'[k].frame = m
        <5>1. CASE m = arrived[e]
          BY <3>1, <5>1
        <5>2. CASE m # arrived[e]
          <6>1. m \in 1..Sure(e)
            BY <2>1, <5>2
          <6>2. PICK k \in DOMAIN output_frames :
                   output_frames[k].elem = e /\ output_frames[k].frame = m
            BY <2>1, <4>2, <4>4, <6>1 DEF OrderOf
          <6>. QED
            BY <3>1, <6>2
        <5>. QED
          BY <5>1, <5>2
      <4>5. Len(delivered'[e]) <= Joined(e)' /\ \A k \in DOMAIN delivered'[e] : delivered'[e][k] = k
        BY <2>1, <4>1, <4>2 DEF OrderOf
      <4>. QED
        BY <2>1, <2>3, <4>1, <4>3, <4>4, <4>5 DEF OrderOf
    <3>. QED
      BY <3>2, <3>3 DEF OrderInv
  <2>. QED
    BY <1>5, <1>0, <2>2, <2>3 DEF Enqueue, TypeOK
<1>6. ASSUME NEW e \in Elem, PassThrough(e) PROVE OrderInv'
  <2>1. /\ phase[e] = "streaming" /\ pc[e] = "pass" /\ pc' = [pc EXCEPT ![e] = "idle"]
        /\ delivered' = [delivered EXCEPT ![e] = Append(delivered[e], arrived[e])]
        /\ UNCHANGED <<output_frames, arrived, phase>>
    BY <1>6 DEF PassThrough, FlowInv
  <2>2. ASSUME NEW d \in Elem, d # e PROVE OrderOf(d)'
    <3>1. delivered'[d] = delivered[d] /\ pc'[d] = pc[d]
      BY <1>0, <2>1, <2>2 DEF TypeOK
    <3>2. Joined(d)' = Joined(d) /\ Sure(d)' = Sure(d)
      BY <2>1, <3>1 DEF Joined, Sure
    <3>. HIDE DEF IInv
    <3>. QED
      BY <1>0, <2>1, <3>1, <3>2, OrderAlone
  <2>3. OrderOf(e)'
    <3>1. /\ OrderOf(e) /\ Joined(e) = arrived[e] - 1 /\ Sure(e) = arrived[e] - 1
          /\ arrived[e] \in Nat \ {0} /\ delivered[e] \in Seq(1..MaxFrames)
          /\ arrived[e] \in 1..MaxFrames
      BY <1>0, <2>1 DEF Joined, Sure, TypeOK, FlowInv
    <3>2. Len(delivered[e]) \in Nat /\ Len(delivered[e]) <= arrived[e] - 1
      BY <2>1, <3>1 DEF OrderOf
    <3>3. \A k \in DOMAIN output_frames : output_frames[k].elem # e
      BY <2>1, <3>1 DEF OrderOf
    <3>4. ~(arrived[e] - 1 > Len(delivered[e]))
      <4>1. SUFFICES ASSUME arrived[e] - 1 > Len(delivered[e]) PROVE FALSE
        OBVIOUS
      <4>2. arrived[e] - 1 \in 1..Sure(e)
        BY <3>1, <3>2, <4>1
      <4>. QED
        BY <2>1, <3>1, <3>3, <4>1, <4>2 DEF OrderOf
    <3>5. Len(delivered[e]) = arrived[e] - 1
      BY <3>1, <3>2, <3>4
    <3>6. /\ pc'[e] = "idle" /\ delivered'[e] = Append(delivered[e], arrived[e])
          /\ Joined(e)' = arrived[e] /\ Sure(e)' = arrived[e]
      BY <1>0, <2>1 DEF TypeOK, Joined, Sure
    <3>. HIDE DEF IInv
    <3>7. /\ Len(delivered'[e]) = arrived[e]
          /\ \A k \in DOMAIN delivered'[e] : delivered'[e][k] = k
      <4>1. /\ DOMAIN delivered'[e] = DOMAIN delivered[e] \cup {arrived[e]}
            /\ \A k \in DOMAIN delivered[e] : delivered'[e][k] = delivered[e][k]
            /\ delivered'[e][arrived[e]] = arrived[e]
            /\ Len(delivered'[e]) = arrived[e]
        BY <3>1, <3>5, <3>6, PushFacts
      <4>. QED
        BY <3>1, <4>1 DEF OrderOf
    <3>8. \A n \in 1..arrived[e] : ~(n > arrived[e])
      BY <3>1
    <3>. QED
      BY <2>1, <3>1, <3>3, <3>6, <3>7, <3>8 DEF OrderOf
  <2>. QED
    BY <2>2, <2>3 DEF OrderInv
<1>7. ASSUME NEW e \in Elem, Submit(e) PROVE OrderInv'
  <2>. SUFFICES ASSUME NEW d \in Elem PROVE OrderOf(d)'
    BY DEF OrderInv
  <2>1. UNCHANGED <<output_frames, delivered>>
    BY <1>7 DEF Submit
  <2>2. phase'[d] # "stopped" => phase[d] # "stopped"
    BY <1>7, <1>0 DEF Submit, TypeOK
  <2>3. pc'[d] = "pass" => pc[d] = "pass"
    BY <1>7, <1>0 DEF Submit, TypeOK
  <2>4. Sure(d)' <= Sure(d)
    <3>1. arrived' = arrived /\ arrived[d] \in Nat
      BY <1>7, <1>0 DEF Submit, TypeOK
    <3>2. pc'[d] = pc[d] \/ (pc[d] = "submit" /\ pc'[d] \in {"submit", "idle"})
      BY <1>7, <1>0 DEF Submit, TypeOK
    <3>. HIDE DEF IInv
    <3>. QED
      BY <3>1, <3>2 DEF Sure
  <2>. HIDE DEF IInv
  <2>. QED
    BY <1>0, <2>1, <2>2, <2>3, <2>4, OrderKept
<1>8. ASSUME NEW e \in Elem, SubmitThrow(e) PROVE OrderInv'
  <2>. SUFFICES ASSUME NEW d \in Elem PROVE OrderOf(d)'
    BY DEF OrderInv
  <2>1. UNCHANGED <<output_frames, delivered>>
    BY <1>8 DEF SubmitThrow
  <2>2. phase'[d] # "stopped" => phase[d] # "stopped"
    BY <1>8, <1>0 DEF SubmitThrow, TypeOK
  <2>3. pc'[d] = "pass" => pc[d] = "pass"
    BY <1>8, <1>0 DEF SubmitThrow, TypeOK
  <2>4. Sure(d)' <= Sure(d)
    <3>1. arrived' = arrived /\ arrived[d] \in Nat
      BY <1>8, <1>0 DEF SubmitThrow, TypeOK
    <3>2. pc'[d] = pc[d] \/ (pc[d] = "submit" /\ pc'[d] \in {"submit", "error"})
      BY <1>8, <1>0 DEF SubmitThrow, TypeOK
    <3>. HIDE DEF IInv
    <3>. QED
      BY <3>1, <3>2 DEF Sure
  <2>. HIDE DEF IInv
  <2>. QED
    BY <1>0, <2>1, <2>2, <2>3, <2>4, OrderKept
<1>9. ASSUME NEW e \in Elem, FlushModel(e) PROVE OrderInv'
  <2>. SUFFICES ASSUME NEW d \in Elem PROVE OrderOf(d)'
    BY DEF OrderInv
  <2>1. UNCHANGED <<output_frames, delivered>>
    BY <1>9 DEF FlushModel
  <2>2. phase'[d] # "stopped" => phase[d] # "stopped"
    BY <1>9, <1>0 DEF FlushModel, TypeOK
  <2>3. pc'[d] = "pass" => pc[d] = "pass"
    BY <1>9, <1>0 DEF FlushModel, TypeOK
  <2>4. Sure(d)' <= Sure(d)
    <3>1. UNCHANGED <<pc, arrived>>
      BY <1>9 DEF FlushModel
    <3>2. Sure(d)' = Sure(d)
      BY <3>1 DEF Sure
    <3>. HIDE DEF IInv
    <3>. QED
      BY <1>0, <3>2
  <2>. HIDE DEF IInv
  <2>. QED
    BY <1>0, <2>1, <2>2, <2>3, <2>4, OrderKept
<1>10. ASSUME NEW batch \in Batches, CompletionCallback(batch) PROVE OrderInv'
  <2>1. batch \subseteq Pending
    BY DEF Batches
  <2>2. /\ DOMAIN output_frames' = DOMAIN output_frames
        /\ \A k \in DOMAIN output_frames :
              /\ output_frames'[k].elem = output_frames[k].elem
              /\ output_frames'[k].frame = output_frames[k].frame
    BY <1>10, <2>1, UpdateFacts DEF CompletionCallback
  <2>3. UNCHANGED <<delivered, phase, pc, arrived>>
    BY <1>10 DEF CompletionCallback
  <2>4. \A d \in Elem : Sure(d)' = Sure(d)
    BY <2>3 DEF Sure
  <2>. HIDE DEF IInv
  <2>5. ASSUME NEW d \in Elem PROVE OrderOf(d)'
    BY <1>0, <2>2, <2>3, <2>4, OrderKept
  <2>. QED
    BY <2>5 DEF OrderInv
<1>11. ASSUME NEW batch \in Batches, InferenceFailed(batch) PROVE OrderInv'
  <2>. SUFFICES ASSUME NEW d \in Elem PROVE OrderOf(d)'
    BY DEF OrderInv
  <2>1. UNCHANGED <<output_frames, delivered>>
    BY <1>11 DEF InferenceFailed
  <2>2. phase'[d] # "stopped" => phase[d] # "stopped"
    BY <1>11, <1>0 DEF InferenceFailed, TypeOK
  <2>3. pc'[d] = "pass" => pc[d] = "pass"
    BY <1>11, <1>0 DEF InferenceFailed, TypeOK
  <2>4. Sure(d)' <= Sure(d)
    <3>1. UNCHANGED <<pc, arrived>>
      BY <1>11 DEF InferenceFailed
    <3>2. Sure(d)' = Sure(d)
      BY <3>1 DEF Sure
    <3>. HIDE DEF IInv
    <3>. QED
      BY <1>0, <3>2
  <2>. HIDE DEF IInv
  <2>. QED
    BY <1>0, <2>1, <2>2, <2>3, <2>4, OrderKept
<1>12. CASE PushFront
  <2>1. /\ output_frames \in Seq(OutputFrame) /\ output_frames # <<>> /\ Complete
        /\ output_frames' = Tail(output_frames)
        /\ UNCHANGED <<phase, pc, arrived>>
    BY <1>12, <1>0 DEF PushFront, Complete, TypeOK
  <2>2. Head(output_frames) \in OutputFrame
    BY <2>1, PopFacts
  <2>3. PICK c \in Elem : c = Head(output_frames).elem
    BY <2>2 DEF OutputFrame
  <2>4. PICK n \in 1..MaxFrames : n = Head(output_frames).frame
    BY <2>2 DEF OutputFrame
  <2>5. /\ phase[c] = "stopped" => delivered' = delivered
        /\ phase[c] # "stopped" => delivered' = [delivered EXCEPT ![c] = Append(delivered[c], n)]
    BY <1>12, <2>3, <2>4 DEF PushFront
  <2>6. delivered \in [Elem -> Seq(1..MaxFrames)]
    BY <1>0 DEF TypeOK
  <2>7. ASSUME NEW d \in Elem PROVE Joined(d)' = Joined(d) /\ Sure(d)' = Sure(d)
    BY <2>1 DEF Joined, Sure
  <2>. HIDE DEF IInv
  <2>8. ASSUME NEW d \in Elem, d # c \/ phase[d] = "stopped" PROVE OrderOf(d)'
    <3>1. delivered'[d] = delivered[d]
      BY <2>5, <2>6, <2>8
    <3>. QED
      BY <1>0, <2>1, <2>3, <2>7, <2>8, <3>1, FrontLeaves
  <2>9. ASSUME phase[c] # "stopped" PROVE OrderOf(c)'
    <3>1. n = Len(delivered[c]) + 1
      BY <1>0, <2>1, <2>3, <2>4, <2>9, FrontIsNext
    <3>2. delivered'[c] = Append(delivered[c], n)
      BY <2>5, <2>6, <2>9
    <3>3. delivered[c] \in Seq(1..MaxFrames)
      BY <2>6
    <3>. QED
      BY <1>0, <2>1, <2>3, <2>4, <2>7, <2>9, <3>1, <3>2, <3>3, FrontDelivered
  <2>. QED
    BY <2>8, <2>9 DEF OrderInv
<1>13. CASE CallbackReturn
  <2>. SUFFICES ASSUME NEW d \in Elem PROVE OrderOf(d)'
    BY DEF OrderInv
  <2>1. UNCHANGED <<output_frames, delivered>>
    BY <1>13 DEF CallbackReturn
  <2>2. phase'[d] # "stopped" => phase[d] # "stopped"
    BY <1>13, <1>0 DEF CallbackReturn, TypeOK
  <2>3. pc'[d] = "pass" => pc[d] = "pass"
    BY <1>13, <1>0 DEF CallbackReturn, TypeOK
  <2>4. Sure(d)' <= Sure(d)
    <3>1. UNCHANGED <<pc, arrived>>
      BY <1>13 DEF CallbackReturn
    <3>2. Sure(d)' = Sure(d)
      BY <3>1 DEF Sure
    <3>. HIDE DEF IInv
    <3>. QED
      BY <1>0, <3>2
  <2>. HIDE DEF IInv
  <2>. QED
    BY <1>0, <2>1, <2>2, <2>3, <2>4, OrderKept
<1>14. CASE UNCHANGED vars
  <2>. SUFFICES ASSUME NEW d \in Elem PROVE OrderOf(d)'
    BY DEF OrderInv
  <2>1. UNCHANGED <<output_frames, delivered>>
    BY <1>14 DEF vars
  <2>2. phase'[d] # "stopped" => phase[d] # "stopped"
    BY <1>14, <1>0 DEF vars, TypeOK
  <2>3. pc'[d] = "pass" => pc[d] = "pass"
    BY <1>14, <1>0 DEF vars, TypeOK
  <2>4. Sure(d)' <= Sure(d)
    <3>1. UNCHANGED <<pc, arrived>>
      BY <1>14 DEF vars
    <3>2. Sure(d)' = Sure(d)
      BY <3>1 DEF Sure
    <3>. HIDE DEF IInv
    <3>. QED
      BY <1>0, <3>2
  <2>. HIDE DEF IInv
  <2>. QED
    BY <1>0, <2>1, <2>2, <2>3, <2>4, OrderKept
<1>. QED
  BY <1>1, <1>2, <1>3, <1>4, <1>5, <1>6, <1>7, <1>8, <1>9, <1>10, <1>11, <1>12, <1>13, <1>14
  DEF Next, Transforming, CallbackStart, CallbackStep
-----------------------------------------------------------------------------
(* Images and callbacks *)

\* What the backend has lost, it does not give to a callback.
LEMMA CallbackInvStep == IInv /\ [Next]_vars => CallbackInv'
<1>. SUFFICES ASSUME IInv, [Next]_vars PROVE CallbackInv'
  OBVIOUS
<1>. USE DEF IInv, CallbackInv, callVars, frameVars, endVars
<1>1. ASSUME NEW e \in Elem, Decide(e) PROVE CallbackInv'
  BY <1>1 DEF Decide
<1>2. ASSUME NEW e \in Elem, SinkEventEos(e) PROVE CallbackInv'
  BY <1>2 DEF SinkEventEos, Ready
<1>3. ASSUME NEW e \in Elem, Stop(e) PROVE CallbackInv'
  BY <1>3 DEF Stop, Ready
<1>4. ASSUME NEW e \in Elem, FilterThrow(e) PROVE CallbackInv'
  BY <1>4 DEF FilterThrow
<1>5. ASSUME NEW e \in Elem, Enqueue(e) PROVE CallbackInv'
  BY <1>5 DEF Enqueue
<1>6. ASSUME NEW e \in Elem, PassThrough(e) PROVE CallbackInv'
  BY <1>6 DEF PassThrough
<1>7. ASSUME NEW e \in Elem, Submit(e) PROVE CallbackInv'
  BY <1>7 DEF Submit
<1>8. ASSUME NEW e \in Elem, SubmitThrow(e) PROVE CallbackInv'
  <2>1. /\ callback' = callback /\ todo[e] \in Seq(Image) /\ todo[e] # <<>>
        /\ \/ leaked' = leaked
           \/ \E batch \in SUBSET (Pending \ (leaked \cup callback)) :
                 leaked' = leaked \cup batch \cup {Head(todo[e])}
    BY <1>8 DEF SubmitThrow, TypeOK, FlowInv
  <2>2. Head(todo[e]) = todo[e][1] /\ 1 \in DOMAIN todo[e]
    BY <2>1, PopFacts
  <2>3. given[Head(todo[e])] = "new"
    BY <2>2 DEF TodoInv
  <2>4. \A i \in callback : given[i] = "pending"
    BY DEF TypeOK, Pending
  <2>5. Head(todo[e]) \notin callback
    BY <2>3, <2>4
  <2>. HIDE DEF IInv
  <2>6. CallbackInv
    BY DEF IInv
  <2>. QED
    BY <2>1, <2>5, <2>6 DEF CallbackInv
<1>9. ASSUME NEW e \in Elem, FlushModel(e) PROVE CallbackInv'
  BY <1>9 DEF FlushModel
<1>10. ASSUME NEW batch \in Batches, CompletionCallback(batch) PROVE CallbackInv'
  BY <1>10 DEF CompletionCallback, Batches
<1>11. ASSUME NEW batch \in Batches, InferenceFailed(batch) PROVE CallbackInv'
  BY <1>11 DEF InferenceFailed
<1>12. CASE PushFront
  BY <1>12 DEF PushFront
<1>13. CASE CallbackReturn
  BY <1>13 DEF CallbackReturn
<1>14. CASE UNCHANGED vars
  BY <1>14 DEF vars
<1>. QED
  BY <1>1, <1>2, <1>3, <1>4, <1>5, <1>6, <1>7, <1>8, <1>9, <1>10, <1>11, <1>12, <1>13, <1>14
  DEF Next, Transforming, CallbackStart, CallbackStep
-----------------------------------------------------------------------------
(* What the frames wait for *)

\* A sequence has no more elements than its length.
LEMMA RangeFacts ==
    ASSUME NEW S, NEW q \in Seq(S), NEW T, T \subseteq S,
           \A x \in T : \E j \in DOMAIN q : x = q[j]
    PROVE  IsFiniteSet(T) /\ Cardinality(T) \in Nat /\ Cardinality(T) <= Len(q)
<1> DEFINE D == {j \in 1..Len(q) : q[j] \in T}
           f == [j \in D |-> q[j]]
<1>1. Len(q) \in Nat /\ DOMAIN q = 1..Len(q)
  OBVIOUS
<1>2. IsFiniteSet(1..Len(q)) /\ Cardinality(1..Len(q)) = Len(q)
  <2>1. 1 \in Int /\ Len(q) \in Int
    BY <1>1
  <2>. QED
    BY <1>1, <2>1, FS_Interval
<1>3. D \in SUBSET (1..Len(q))
  OBVIOUS
<1>4. IsFiniteSet(D) /\ Cardinality(D) <= Len(q) /\ Cardinality(D) \in Nat
  BY <1>2, <1>3, FS_Subset, FS_CardinalityType
<1>5. f \in Surjection(D, T)
  BY <1>1 DEF Surjection
<1>6. IsFiniteSet(T) /\ Cardinality(T) <= Cardinality(D)
  BY <1>4, <1>5, FS_Surjection
<1>7. Cardinality(T) \in Nat
  BY <1>6, FS_CardinalityType
<1>. HIDE DEF D
<1>. QED
  BY <1>1, <1>4, <1>6, <1>7

\* A frame of the list is owed finitely many images.
LEMMA OwedFinite ==
    ASSUME NEW k PROVE IsFiniteSet(Owed(k)) /\ Cardinality(Owed(k)) \in Nat
BY SlotsFinite, ZenonT(30) DEF Owed, Due, FrameOf

\* A frame is owed no more than before.
LEMMA OwedLess ==
    ASSUME NEW k, NEW T \in SUBSET Owed(k), NEW c \in Int, c >= Cardinality(Owed(k))
    PROVE  IsFiniteSet(T) /\ Cardinality(T) \in Nat /\ c >= Cardinality(T)
<1>1. IsFiniteSet(Owed(k)) /\ Cardinality(Owed(k)) \in Nat
  BY OwedFinite
<1>2. IsFiniteSet(T) /\ Cardinality(T) <= Cardinality(Owed(k))
  BY <1>1, FS_Subset
<1>3. Cardinality(T) \in Nat
  BY <1>2, FS_CardinalityType
<1>. QED
  BY <1>1, <1>2, <1>3

\* The list is as it was, and no image has become due.
LEMMA DueShrinks ==
    ASSUME TypeOK, CountInv, CoverInv, output_frames' = output_frames, Due' \subseteq Due
    PROVE  CountInv' /\ CoverInv'
<1>1. CoverInv'
  BY DEF CoverInv, FrameOf
<1>2. ASSUME NEW k \in DOMAIN output_frames
      PROVE  output_frames[k].inference_count >= Cardinality(Owed(k)')
  <2>1. Owed(k)' \in SUBSET Owed(k)
    BY DEF Owed, FrameOf
  <2>2. output_frames[k] \in OutputFrame
    BY DEF TypeOK
  <2>3. output_frames[k].inference_count \in Int
    BY <2>2 DEF OutputFrame
  <2>. QED
    BY <2>1, <2>3, OwedLess DEF CountInv
<1>3. CountInv'
  BY <1>2 DEF CountInv
<1>. QED
  BY <1>1, <1>3

\* A frame waits for the images a callback may still come for, at least, and is there until the last.
LEMMA CoverStep == IInv /\ [Next]_vars => CountInv' /\ CoverInv'
<1>. SUFFICES ASSUME IInv, [Next]_vars PROVE CountInv' /\ CoverInv'
  OBVIOUS
<1>. USE DEF callVars, frameVars, endVars
<1>0. /\ TypeOK /\ FlowInv /\ TodoInv /\ NewInv /\ QueueInv /\ CountInv /\ CoverInv
  BY DEF IInv
<1>1. ASSUME NEW e \in Elem, Decide(e) PROVE CountInv' /\ CoverInv'
  <2>1. UNCHANGED <<given, callback, todo, output_frames>>
    BY <1>1 DEF Decide
  <2>2. Due' \subseteq Due
    BY <2>1 DEF Due, Pending
  <2>. QED
    BY <1>0, <2>1, <2>2, DueShrinks
<1>2. ASSUME NEW e \in Elem, SinkEventEos(e) PROVE CountInv' /\ CoverInv'
  <2>1. UNCHANGED <<given, callback, todo, output_frames>>
    BY <1>2 DEF SinkEventEos
  <2>2. Due' \subseteq Due
    BY <2>1 DEF Due, Pending
  <2>. QED
    BY <1>0, <2>1, <2>2, DueShrinks
<1>3. ASSUME NEW e \in Elem, Stop(e) PROVE CountInv' /\ CoverInv'
  <2>1. UNCHANGED <<given, callback, todo, output_frames>>
    BY <1>3 DEF Stop
  <2>2. Due' \subseteq Due
    BY <2>1 DEF Due, Pending
  <2>. QED
    BY <1>0, <2>1, <2>2, DueShrinks
<1>4. ASSUME NEW e \in Elem, FilterThrow(e) PROVE CountInv' /\ CoverInv'
  <2>1. UNCHANGED <<given, callback, todo, output_frames>>
    BY <1>4 DEF FilterThrow
  <2>2. Due' \subseteq Due
    BY <2>1 DEF Due, Pending
  <2>. QED
    BY <1>0, <2>1, <2>2, DueShrinks
<1>5. ASSUME NEW e \in Elem, Enqueue(e) PROVE CountInv' /\ CoverInv'
  <2>1. /\ arrived[e] >= 1 /\ pc[e] = "enqueue" /\ todo[e] = <<>>
        /\ todo' = [todo EXCEPT ![e] = Images(e)] /\ UNCHANGED <<given, callback, arrived>>
    BY <1>5, <1>0 DEF Enqueue, FlowInv
  <2>2. /\ inference_count(e) \in Nat /\ Images(e) \in Seq(Image)
        /\ Len(Images(e)) = inference_count(e)
        /\ \A j \in DOMAIN Images(e) : Images(e)[j].elem = e /\ Images(e)[j].frame = arrived[e]
    BY <1>0, <2>1, ImagesFacts
  <2>3. ASSUME NEW i \in Due' PROVE i \in Due \/ \E j \in DOMAIN Images(e) : i = Images(e)[j]
    <3>1. CASE i \in Pending \ callback
      BY <3>1 DEF Due, Pending
    <3>2. ASSUME NEW d \in Elem, NEW j \in DOMAIN todo'[d], todo'[d][j] = i
          PROVE  i \in Due \/ \E l \in DOMAIN Images(e) : i = Images(e)[l]
      <4>0. todo'[e] = Images(e) /\ (d # e => todo'[d] = todo[d]) /\ i \in Image
        BY <1>0, <2>1, <2>3 DEF TypeOK, Due
      <4>1. CASE d = e
        BY <3>2, <4>0, <4>1
      <4>2. CASE d # e
        BY <3>2, <4>0, <4>2 DEF Due
      <4>. QED
        BY <4>1, <4>2
    <3>. QED
      BY <2>1, <3>1, <3>2 DEF Due, Pending
  <2>4. ASSUME NEW i \in Due PROVE ~(i.elem = e /\ i.frame = arrived[e])
    <3>1. CASE i \in Pending \ callback
      <4>1. i.frame <= Past(i.elem)
        BY <1>0, <3>1 DEF NewInv, Pending
      <4>2. Past(e) = arrived[e] - 1 /\ arrived[e] \in Int
        BY <1>0, <2>1 DEF Past, TypeOK
      <4>. HIDE DEF Past
      <4>. QED
        BY <4>1, <4>2
    <3>2. ASSUME NEW d \in Elem, NEW j \in DOMAIN todo[d], todo[d][j] = i
          PROVE  ~(i.elem = e /\ i.frame = arrived[e])
      <4>1. i.elem = d
        BY <1>0, <3>2 DEF TodoInv
      <4>2. d # e
        BY <2>1, <3>2
      <4>. QED
        BY <4>1, <4>2
    <3>. QED
      BY <3>1, <3>2 DEF Due
  <2>5. ASSUME NEW k \in DOMAIN output_frames
        PROVE  ~(output_frames[k].elem = e /\ output_frames[k].frame = arrived[e])
    <3>1. \A d \in Elem : d = output_frames[k].elem => output_frames[k].frame <= Joined(d)
      BY <1>0 DEF QueueInv
    <3>2. Joined(e) = arrived[e] - 1 /\ arrived[e] \in Int
      BY <1>0, <2>1 DEF Joined, TypeOK
    <3>. QED
      BY <3>1, <3>2
  <2>6. CASE inference_count(e) = 0 /\ output_frames' = output_frames
    <3>1. Due' \subseteq Due
      BY <2>2, <2>3, <2>6
    <3>. QED
      BY <1>0, <2>6, <3>1, DueShrinks
  <2>7. CASE output_frames' = Append(output_frames,
                 [elem |-> e, frame |-> arrived[e], inference_count |-> inference_count(e)])
    <3> DEFINE n == Len(output_frames) + 1
    <3>0. PICK m \in Nat : m = n
      BY <1>0 DEF TypeOK
    <3>1. /\ DOMAIN output_frames' = DOMAIN output_frames \cup {m}
          /\ m \notin DOMAIN output_frames
          /\ \A k \in DOMAIN output_frames : output_frames'[k] = output_frames[k]
          /\ output_frames'[m].elem = e
          /\ output_frames'[m].frame = arrived[e]
          /\ output_frames'[m].inference_count = inference_count(e)
      BY <1>0, <2>1, <2>7, <3>0, JoinFacts
    <3>2. ASSUME NEW k \in DOMAIN output_frames
          PROVE  output_frames'[k].inference_count >= Cardinality(Owed(k)')
      <4>1. Owed(k)' \subseteq Owed(k)
        <5>. SUFFICES ASSUME NEW i \in Due', FrameOf(i, k)' PROVE i \in Due /\ FrameOf(i, k)
          BY DEF Owed
        <5>1. FrameOf(i, k)
          BY <3>1 DEF FrameOf
        <5>2. ~(i.elem = e /\ i.frame = arrived[e])
          BY <2>5, <5>1 DEF FrameOf
        <5>. QED
          BY <2>2, <2>3, <5>1, <5>2
      <4>2. output_frames[k] \in OutputFrame
        BY <1>0 DEF TypeOK
      <4>3. output_frames[k].inference_count \in Int
        BY <4>2 DEF OutputFrame
      <4>4. Owed(k)' \in SUBSET Owed(k)
        BY <4>1
      <4>. QED
        BY <1>0, <3>1, <4>3, <4>4, OwedLess DEF CountInv
    <3>3. output_frames'[m].inference_count >= Cardinality(Owed(m)')
      <4>1. \A i \in Owed(m)' : \E j \in DOMAIN Images(e) : i = Images(e)[j]
        <5>. SUFFICES ASSUME NEW i \in Due', FrameOf(i, m)'
                      PROVE  \E j \in DOMAIN Images(e) : i = Images(e)[j]
          BY DEF Owed
        <5>1. i.elem = e /\ i.frame = arrived[e]
          BY <3>1 DEF FrameOf
        <5>. QED
          BY <2>3, <2>4, <5>1
      <4>2. Owed(m)' \subseteq Image
        BY DEF Owed, Due
      <4>3. Cardinality(Owed(m)') \in Nat /\ Cardinality(Owed(m)') <= Len(Images(e))
        BY <2>2, <4>1, <4>2, RangeFacts
      <4>. QED
        BY <2>2, <3>1, <4>3
    <3>4. CoverInv'
      <4>. SUFFICES ASSUME NEW i \in Due' PROVE \E k \in DOMAIN output_frames' : FrameOf(i, k)'
        BY DEF CoverInv
      <4>1. CASE i \in Due
        <5>1. PICK k \in DOMAIN output_frames : FrameOf(i, k)
          BY <1>0, <4>1 DEF CoverInv
        <5>. QED
          BY <3>1, <5>1 DEF FrameOf
      <4>2. CASE \E j \in DOMAIN Images(e) : i = Images(e)[j]
        BY <2>2, <3>1, <4>2 DEF FrameOf
      <4>. QED
        BY <2>3, <4>1, <4>2
    <3>. QED
      BY <3>1, <3>2, <3>3, <3>4 DEF CountInv
  <2>. QED
    BY <1>5, <2>6, <2>7 DEF Enqueue
<1>6. ASSUME NEW e \in Elem, PassThrough(e) PROVE CountInv' /\ CoverInv'
  <2>1. UNCHANGED <<given, callback, todo, output_frames>>
    BY <1>6 DEF PassThrough
  <2>2. Due' \subseteq Due
    BY <2>1 DEF Due, Pending
  <2>. QED
    BY <1>0, <2>1, <2>2, DueShrinks
<1>7. ASSUME NEW e \in Elem, Submit(e) PROVE CountInv' /\ CoverInv'
  <2>1. /\ todo[e] \in Seq(Image) /\ todo[e] # <<>> /\ UNCHANGED <<callback, output_frames>>
        /\ todo' = [todo EXCEPT ![e] = Tail(todo[e])]
        /\ given' = [given EXCEPT ![Head(todo[e])] = "pending"]
    BY <1>7, <1>0 DEF Submit, FlowInv, TypeOK
  <2>2. /\ 1 \in DOMAIN todo[e] /\ Head(todo[e]) = todo[e][1]
        /\ \A j \in DOMAIN Tail(todo[e]) : j + 1 \in DOMAIN todo[e] /\ Tail(todo[e])[j] = todo[e][j + 1]
    BY <2>1, PopFacts
  <2>3. Due' \subseteq Due
    <3>. SUFFICES ASSUME NEW i \in Image, i \in Due' PROVE i \in Due
      BY DEF Due
    <3>1. CASE given'[i] = "pending" /\ i \notin callback
      <4>1. CASE i = Head(todo[e])
        BY <2>2, <4>1 DEF Due
      <4>2. CASE i # Head(todo[e])
        BY <2>1, <3>1, <4>2, <1>0 DEF Due, Pending, TypeOK
      <4>. QED
        BY <4>1, <4>2
    <3>2. ASSUME NEW d \in Elem, NEW j \in DOMAIN todo'[d], todo'[d][j] = i PROVE i \in Due
      <4>0. todo'[e] = Tail(todo[e]) /\ (d # e => todo'[d] = todo[d])
        BY <1>0, <2>1 DEF TypeOK
      <4>1. CASE d = e
        BY <2>2, <3>2, <4>0, <4>1 DEF Due
      <4>2. CASE d # e
        BY <3>2, <4>0, <4>2 DEF Due
      <4>. QED
        BY <4>1, <4>2
    <3>. QED
      BY <2>1, <3>1, <3>2 DEF Due, Pending
  <2>. QED
    BY <1>0, <2>1, <2>3, DueShrinks
<1>8. ASSUME NEW e \in Elem, SubmitThrow(e) PROVE CountInv' /\ CoverInv'
  <2>1. /\ todo[e] \in Seq(Image) /\ todo[e] # <<>> /\ UNCHANGED <<callback, output_frames>>
        /\ todo' = [todo EXCEPT ![e] = <<>>]
        /\ given' \in {given, [given EXCEPT ![Head(todo[e])] = "pending"]}
    BY <1>8, <1>0 DEF SubmitThrow, FlowInv, TypeOK
  <2>2. 1 \in DOMAIN todo[e] /\ Head(todo[e]) = todo[e][1]
    BY <2>1, PopFacts
  <2>3. Due' \subseteq Due
    <3>. SUFFICES ASSUME NEW i \in Image, i \in Due' PROVE i \in Due
      BY DEF Due
    <3>1. CASE given'[i] = "pending" /\ i \notin callback
      <4>1. CASE i = Head(todo[e])
        BY <2>2, <4>1 DEF Due
      <4>2. CASE i # Head(todo[e])
        BY <2>1, <3>1, <4>2, <1>0 DEF Due, Pending, TypeOK
      <4>. QED
        BY <4>1, <4>2
    <3>2. ASSUME NEW d \in Elem, NEW j \in DOMAIN todo'[d], todo'[d][j] = i PROVE i \in Due
      <4>0. todo'[e] = <<>> /\ (d # e => todo'[d] = todo[d])
        BY <1>0, <2>1 DEF TypeOK
      <4>1. d # e
        BY <4>0, <3>2
      <4>. QED
        BY <3>2, <4>0, <4>1 DEF Due
    <3>. QED
      BY <2>1, <3>1, <3>2 DEF Due, Pending
  <2>. QED
    BY <1>0, <2>1, <2>3, DueShrinks
<1>9. ASSUME NEW e \in Elem, FlushModel(e) PROVE CountInv' /\ CoverInv'
  <2>1. UNCHANGED <<given, callback, todo, output_frames>>
    BY <1>9 DEF FlushModel
  <2>2. Due' \subseteq Due
    BY <2>1 DEF Due, Pending
  <2>. QED
    BY <1>0, <2>1, <2>2, DueShrinks
<1>10. ASSUME NEW batch \in Batches, CompletionCallback(batch) PROVE CountInv' /\ CoverInv'
  <2>1. /\ callback = {} /\ callback' = batch /\ UNCHANGED <<given, todo>>
        /\ output_frames' = UpdateOutputFrames(batch) /\ batch \subseteq Pending
    BY <1>10 DEF CompletionCallback, Batches
  <2>2. /\ DOMAIN output_frames' = DOMAIN output_frames
        /\ \A k \in DOMAIN output_frames :
              /\ output_frames'[k].elem = output_frames[k].elem
              /\ output_frames'[k].frame = output_frames[k].frame
              /\ output_frames'[k].inference_count =
                    output_frames[k].inference_count - Cardinality({i \in batch : FrameOf(i, k)})
    BY <1>0, <2>1, UpdateFacts
  <2>3. Due' \subseteq Due \ batch
    <3>1. \A d \in Elem : \A j \in DOMAIN todo[d] : todo[d][j] \notin batch
      BY <1>0, <2>1 DEF TodoInv, Pending
    <3>. QED
      BY <2>1, <3>1 DEF Due, Pending
  <2>4. CoverInv'
    BY <1>0, <2>2, <2>3, ZenonT(100) DEF CoverInv, FrameOf
  <2>5. ASSUME NEW k \in DOMAIN output_frames
        PROVE  output_frames'[k].inference_count >= Cardinality(Owed(k)')
    <3> DEFINE B == {i \in batch : FrameOf(i, k)}
               c == output_frames[k].inference_count - Cardinality(B)
    <3>1. Owed(k)' \in SUBSET (Owed(k) \ B)
      BY <2>2, <2>3 DEF Owed, FrameOf
    <3>2. /\ IsFiniteSet(Owed(k)) /\ Cardinality(Owed(k) \ B) \in Nat /\ Cardinality(B) \in Nat
          /\ c >= Cardinality(Owed(k) \ B)
      BY <1>0, <2>1, BatchFacts
    <3>. HIDE DEF B
    <3>3. IsFiniteSet(Owed(k) \ B)
      BY <3>2, FS_Subset
    <3>4. IsFiniteSet(Owed(k)') /\ Cardinality(Owed(k)') <= Cardinality(Owed(k) \ B)
      BY <3>1, <3>3, FS_Subset
    <3>5. Cardinality(Owed(k)') \in Nat
      BY <3>4, FS_CardinalityType
    <3>6. output_frames[k] \in OutputFrame
      BY <1>0 DEF TypeOK
    <3>7. c \in Int
      BY <3>2, <3>6 DEF OutputFrame
    <3>8. output_frames'[k].inference_count = c
      BY <2>2 DEF B
    <3>. HIDE DEF c
    <3>. QED
      BY <3>2, <3>4, <3>5, <3>7, <3>8
  <2>. QED
    BY <2>2, <2>4, <2>5 DEF CountInv
<1>11. ASSUME NEW batch \in Batches, InferenceFailed(batch) PROVE CountInv' /\ CoverInv'
  <2>1. UNCHANGED <<callback, todo, output_frames>>
    BY <1>11 DEF InferenceFailed
  <2>2. \A i \in Image : given'[i] = "pending" => given[i] = "pending"
    BY <1>11, <1>0 DEF InferenceFailed
  <2>3. Due' \subseteq Due
    BY <2>1, <2>2 DEF Due, Pending
  <2>. QED
    BY <1>0, <2>1, <2>3, DueShrinks
<1>12. CASE PushFront
  <2>1. /\ output_frames \in Seq(OutputFrame) /\ output_frames # <<>>
        /\ Head(output_frames).inference_count = 0
        /\ output_frames' = Tail(output_frames) /\ UNCHANGED <<given, todo, callback>>
    BY <1>12, <1>0 DEF PushFront, Complete, TypeOK
  <2>2. /\ 1 \in DOMAIN output_frames /\ Head(output_frames) = output_frames[1]
        /\ \A k \in DOMAIN Tail(output_frames) :
              k + 1 \in DOMAIN output_frames /\ Tail(output_frames)[k] = output_frames[k + 1]
        /\ \A k \in DOMAIN output_frames :
              k # 1 => k - 1 \in DOMAIN Tail(output_frames)
                       /\ Tail(output_frames)[k - 1] = output_frames[k]
    BY <2>1, PopFacts
  <2>3. Due' = Due
    BY <2>1 DEF Due, Pending
  <2>4. Owed(1) = {}
    <3>1. IsFiniteSet(Owed(1)) /\ Cardinality(Owed(1)) \in Nat
      BY OwedFinite
    <3>2. Cardinality(Owed(1)) <= 0
      BY <1>0, <2>1, <2>2 DEF CountInv
    <3>3. Cardinality(Owed(1)) = 0
      BY <3>1, <3>2
    <3>. QED
      BY <3>1, <3>3, FS_EmptySet
  <2>5. CoverInv'
    <3>. SUFFICES ASSUME NEW i \in Due PROVE \E k \in DOMAIN output_frames' : FrameOf(i, k)'
      BY <2>3 DEF CoverInv
    <3>1. PICK k \in DOMAIN output_frames : FrameOf(i, k)
      BY <1>0 DEF CoverInv
    <3>2. k # 1
      BY <2>4, <3>1 DEF Owed
    <3>3. k - 1 \in DOMAIN output_frames' /\ output_frames'[k - 1] = output_frames[k]
      BY <2>1, <2>2, <3>2
    <3>. QED
      BY <3>1, <3>3 DEF FrameOf
  <2>6. ASSUME NEW k \in DOMAIN output_frames'
        PROVE  output_frames'[k].inference_count >= Cardinality(Owed(k)')
    <3>1. k + 1 \in DOMAIN output_frames /\ output_frames'[k] = output_frames[k + 1]
      BY <2>1, <2>2
    <3>2. Owed(k)' = Owed(k + 1)
      BY <2>3, <3>1 DEF Owed, FrameOf
    <3>. QED
      BY <1>0, <3>1, <3>2 DEF CountInv
  <2>. QED
    BY <2>5, <2>6 DEF CountInv
<1>13. CASE CallbackReturn
  <2>1. UNCHANGED <<todo, output_frames>>
    BY <1>13 DEF CallbackReturn
  <2>2. \A i \in Image : given'[i] = "pending" => given[i] = "pending" /\ i \notin callback
    BY <1>13, <1>0 DEF CallbackReturn
  <2>3. Due' \subseteq Due
    BY <2>1, <2>2 DEF Due, Pending
  <2>. QED
    BY <1>0, <2>1, <2>3, DueShrinks
<1>14. CASE UNCHANGED vars
  <2>1. UNCHANGED <<given, callback, todo, output_frames>>
    BY <1>14 DEF vars
  <2>2. Due' \subseteq Due
    BY <2>1 DEF Due, Pending
  <2>. QED
    BY <1>0, <2>1, <2>2, DueShrinks
<1>. QED
  BY <1>1, <1>2, <1>3, <1>4, <1>5, <1>6, <1>7, <1>8, <1>9, <1>10, <1>11, <1>12, <1>13, <1>14
  DEF Next, Transforming, CallbackStart, CallbackStep
-----------------------------------------------------------------------------
(* Theorems *)

\* Nothing is queued, given or delivered at the start.
LEMMA InitIInv == Init => IInv
<1>. SUFFICES ASSUME Init PROVE IInv
  OBVIOUS
<1>. USE DEF Init
<1>1. TypeOK
  <2>1. UintMax - 1 \in 0..UintMax /\ 0 \in 0..MaxRois /\ 0 \in 0..MaxFrames
    BY BoundAssumption
  <2>. QED
    BY <2>1 DEF TypeOK, Pending
<1>2. FlowInv /\ TodoInv /\ NewInv /\ QueueInv /\ CallbackInv /\ CountInv
  BY DEF FlowInv, TodoInv, NewInv, QueueInv, CallbackInv, CountInv
<1>3. CoverInv
  BY DEF CoverInv, Due, Pending
<1>4. OrderInv
  <2>1. ASSUME NEW e \in Elem PROVE Joined(e) = 0 /\ Sure(e) = 0 /\ delivered[e] = <<>>
    BY DEF Joined, Sure
  <2>. QED
    BY <2>1 DEF OrderInv, OrderOf
<1>. QED
  BY <1>1, <1>2, <1>3, <1>4 DEF IInv

\* Whatever the elements, their threads, the callbacks and the failures do, the
\* calls keep to their stages, the list holds the frames in their order, and each
\* waits for at least the inferences it may still get.
THEOREM ListInvariant == Spec => []IInv
<1>1. IInv /\ [Next]_vars => IInv'
  BY TypeStep, FlowStep, TodoStep, NewStep, QueueStep, OrderStep, CallbackInvStep, CoverStep
  DEF IInv
<1>. QED
  BY <1>1, InitIInv, PTL DEF Spec

\* The variables keep their types: no inference_count goes below zero, a batch and
\* the images a throwing call has lost stay with the backend.
THEOREM TypeCorrect == Spec => []TypeOK
<1>1. IInv => TypeOK
  BY DEF IInv
<1>. QED
  BY <1>1, ListInvariant, PTL

\* An image a callback may still come for has its frame in output_frames, with an
\* inference_count that has not come down to zero: neither the search of
\* UpdateOutputFrames nor that of PushFramesIfInferenceFailed fails.
THEOREM FrameQueued == Spec => []FrameOfImageQueued
<1>1. IInv => FrameOfImageQueued
  <2>. SUFFICES ASSUME IInv, NEW i \in Pending \ callback
                PROVE  \E k \in DOMAIN output_frames :
                           FrameOf(i, k) /\ output_frames[k].inference_count > 0
    BY DEF FrameOfImageQueued
  <2>1. i \in Due
    BY DEF Due, Pending
  <2>2. PICK k \in DOMAIN output_frames : FrameOf(i, k)
    BY <2>1 DEF IInv, CoverInv
  <2>3. i \in Owed(k)
    BY <2>1, <2>2 DEF Owed
  <2>4. Cardinality(Owed(k)) \in Nat /\ Cardinality(Owed(k)) # 0
    BY <2>3, OwedFinite, FS_EmptySet
  <2>5. output_frames[k] \in OutputFrame /\ output_frames[k].inference_count >= Cardinality(Owed(k))
    BY DEF IInv, TypeOK, CountInv
  <2>. QED
    BY <2>2, <2>4, <2>5 DEF OutputFrame
<1>. QED
  BY <1>1, ListInvariant, PTL

\* The frames of each stream are delivered in their order, by whichever thread.
THEOREM InOrder == Spec => []FramesInOrder
<1>1. IInv => FramesInOrder
  BY DEF IInv, OrderInv, OrderOf, FramesInOrder
<1>. QED
  BY <1>1, ListInvariant, PTL

-----------------------------------------------------------------------------
(* The inference interval *)

\* Quotient and remainder are unique.
LEMMA ModUnique ==
    ASSUME NEW i \in Nat \ {0}, NEW a \in Int, NEW b \in Int,
           NEW r \in 0..(i - 1), NEW s \in 0..(i - 1), i * a + r = i * b + s
    PROVE  r = s
<1>1. CASE a = b
  BY <1>1
<1>2. CASE a >= b + 1
  <2>1. i * a >= i * (b + 1)
    BY <1>2
  <2>2. i * (b + 1) = i * b + i
    OBVIOUS
  <2>. QED
    BY <2>1, <2>2
<1>3. CASE b >= a + 1
  <2>1. i * b >= i * (a + 1)
    BY <1>3
  <2>2. i * (a + 1) = i * a + i
    OBVIOUS
  <2>. QED
    BY <2>1, <2>2
<1>. QED
  BY <1>1, <1>2, <1>3

\* The remainder of the next number.
LEMMA ModStep ==
    ASSUME NEW i \in Nat \ {0}, NEW n \in Nat
    PROVE  /\ n % i \in 0..(i - 1)
           /\ (n + 1) % i = IF n % i = i - 1 THEN 0 ELSE (n % i) + 1
<1> DEFINE q == n \div i
           r == n % i
           p == (n + 1) \div i
           s == (n + 1) % i
<1>1. q \in Int /\ r \in 0..(i - 1) /\ n = i * q + r
  OBVIOUS
<1>2. p \in Int /\ s \in 0..(i - 1) /\ n + 1 = i * p + s
  OBVIOUS
<1>. HIDE DEF q, r, p, s
<1>3. CASE r = i - 1
  <2>1. i * (q + 1) + 0 = i * p + s
    BY <1>1, <1>2, <1>3
  <2>2. 0 = s
    <3>1. q + 1 \in Int /\ 0 \in 0..(i - 1)
      BY <1>1
    <3>. QED
      BY <1>2, <2>1, <3>1, ModUnique
  <2>. QED
    BY <1>1, <1>3, <2>2 DEF r, s
<1>4. CASE r # i - 1
  <2>1. i * q + (r + 1) = i * p + s
    BY <1>1, <1>2
  <2>2. r + 1 = s
    <3>1. r + 1 \in 0..(i - 1)
      BY <1>1, <1>4
    <3>. QED
      BY <1>1, <1>2, <2>1, <3>1, ModUnique
  <2>. QED
    BY <1>1, <1>4, <2>2 DEF r, s
<1>. QED
  BY <1>3, <1>4

\* Every i-th number from the first on.
LEMMA ModOne ==
    ASSUME NEW i \in Nat \ {0}, NEW k \in Nat \ {0}
    PROVE  k % i = 1 % i <=> (k - 1) % i = 0
<1>1. 0 % i = 0
  <2>1. 0 \div i \in Int /\ 0 % i \in 0..(i - 1) /\ 0 = i * (0 \div i) + (0 % i)
    OBVIOUS
  <2>2. i * (0 \div i) + (0 % i) = i * 0 + 0 /\ 0 \in 0..(i - 1) /\ 0 \in Int
    BY <2>1
  <2>. QED
    BY <2>1, <2>2, ModUnique
<1>2. (0 + 1) % i = IF 0 % i = i - 1 THEN 0 ELSE (0 % i) + 1
  BY ModStep
<1>3. 1 % i = IF i = 1 THEN 0 ELSE 1
  BY <1>1, <1>2
<1>4. PICK n \in Nat : k = n + 1
  <2>1. k - 1 \in Nat /\ k = (k - 1) + 1
    OBVIOUS
  <2>. QED
    BY <2>1
<1>5. /\ n % i \in 0..(i - 1)
      /\ (n + 1) % i = IF n % i = i - 1 THEN 0 ELSE (n % i) + 1
  BY ModStep
<1> DEFINE r == n % i
<1>6. r \in 0..(i - 1) /\ k % i = (IF r = i - 1 THEN 0 ELSE r + 1) /\ (k - 1) % i = r
  BY <1>4, <1>5
<1>. HIDE DEF r
<1>. QED
  BY <1>3, <1>6

\* The last frame the inference ran on is at least num_skipped_frames frames back and,
\* without no-block, num_skipped_frames and ran follow from the number of frames.
RanOf(e) ==
    /\ \A j \in ran[e] : j \in 1..arrived[e] /\ num_skipped_frames[e] <= arrived[e] - j
    /\ \A j, k \in ran[e] : j < k => k - j >= inference_interval
    /\ ~no_block =>
          /\ arrived[e] = 0 => num_skipped_frames[e] = UintMax - 1
          /\ arrived[e] >= 1 => num_skipped_frames[e] = (arrived[e] - 1) % inference_interval
          /\ ran[e] = {k \in 1..arrived[e] : (k - 1) % inference_interval = 0}
RanInv == \A e \in Elem : RanOf(e)

\* One more frame, with the inference or without: skipped is the counter of the
\* frame, the inference runs when it has come to the interval.
LEMMA NextFrame ==
    ASSUME TypeOK, NEW e \in Elem, RanOf(e), NEW run \in BOOLEAN,
           run => Skipped(e) >= inference_interval,
           ~no_block => (run <=> Skipped(e) >= inference_interval),
           arrived'[e] = arrived[e] + 1,
           num_skipped_frames'[e] = (IF run THEN 0 ELSE Skipped(e)),
           ran'[e] = (IF run THEN ran[e] \cup {arrived[e] + 1} ELSE ran[e])
    PROVE  RanOf(e)'
<1> DEFINE a == arrived[e]
           n == num_skipped_frames[e]
           i == inference_interval
           s == Skipped(e)
<1>1. a \in Nat /\ n \in 0..UintMax /\ UintMax \in Nat /\ i \in Nat \ {0} /\ i <= UintMax
  BY BoundAssumption DEF TypeOK
<1>2. s \in 0..UintMax /\ s = IF n = UintMax THEN 0 ELSE n + 1
  <2>. HIDE DEF i, a
  <2>1. /\ (n + 1) % (UintMax + 1) \in 0..UintMax
        /\ (n + 1) % (UintMax + 1) = IF n = UintMax THEN 0 ELSE n + 1
    BY <1>1, WrapFacts
  <2>2. s = (n + 1) % (UintMax + 1)
    BY DEF Skipped
  <2>. QED
    BY <2>1, <2>2
<1>3. \A j \in ran[e] : j \in 1..a /\ n <= a - j
  BY DEF RanOf
<1>4. \A j, k \in ran[e] : j < k => k - j >= i
  BY DEF RanOf
<1>5. ~no_block => /\ a = 0 => n = UintMax - 1
                   /\ a >= 1 => n = (a - 1) % i
                   /\ ran[e] = {k \in 1..a : (k - 1) % i = 0}
  BY DEF RanOf
<1>6. /\ arrived'[e] = a + 1
      /\ num_skipped_frames'[e] = (IF run THEN 0 ELSE s)
      /\ ran'[e] = (IF run THEN ran[e] \cup {a + 1} ELSE ran[e])
      /\ run => s >= i
      /\ ~no_block => (run <=> s >= i)
  OBVIOUS
<1>. HIDE DEF a, n, i, s
<1>7. \A j \in ran'[e] : j \in 1..arrived'[e] /\ num_skipped_frames'[e] <= arrived'[e] - j
  <2>1. ASSUME NEW j \in ran[e] PROVE j \in 1..(a + 1) /\ s <= a + 1 - j /\ 0 <= a + 1 - j
    BY <1>1, <1>2, <1>3
  <2>2. a + 1 \in 1..(a + 1) /\ 0 <= a + 1 - (a + 1)
    BY <1>1
  <2>3. CASE run
    BY <1>6, <2>1, <2>2, <2>3
  <2>4. CASE ~run
    <3>1. num_skipped_frames'[e] = s /\ ran'[e] = ran[e] /\ arrived'[e] = a + 1
      BY <1>6, <2>4
    <3>2. a \in Nat /\ s \in Nat /\ \A j \in ran[e] : j \in Nat
      BY <1>1, <1>2, <1>3
    <3>3. \A j \in ran[e] : j \in 1..(a + 1) /\ s <= a + 1 - j
      BY <2>1, Zenon
    <3>. QED
      BY <3>1, <3>2, <3>3
  <2>. QED
    BY <2>3, <2>4
<1>8. \A j, k \in ran'[e] : j < k => k - j >= i
  <2>1. ASSUME run, NEW j \in ran[e] PROVE a + 1 - j >= i /\ ~(a + 1 < j)
    <3>1. s <= n + 1 /\ n <= a - j /\ j \in 1..a /\ s >= i
      BY <1>1, <1>2, <1>3, <1>6, <2>1
    <3>. QED
      BY <1>1, <1>2, <3>1
  <2>2. ~(a + 1 < a + 1)
    BY <1>1
  <2>3. CASE run
    <3>1. ran'[e] = ran[e] \cup {a + 1}
      BY <1>6, <2>3
    <3>. SUFFICES ASSUME NEW j \in ran[e] \cup {a + 1}, NEW k \in ran[e] \cup {a + 1}, j < k
                  PROVE  k - j >= i
      BY <3>1
    <3>2. CASE j = a + 1
      BY <2>1, <2>2, <2>3, <3>2
    <3>3. CASE j \in ran[e] /\ k = a + 1
      <4>1. a + 1 - j >= i
        BY <2>1, <2>3, <3>3, Zenon
      <4>2. a \in Nat /\ j \in Nat /\ i \in Nat
        BY <1>1, <1>3, <3>3
      <4>. QED
        BY <3>3, <4>1, <4>2
    <3>4. CASE j \in ran[e] /\ k \in ran[e]
      BY <1>4, <3>4
    <3>. QED
      BY <3>2, <3>3, <3>4
  <2>4. CASE ~run
    <3>1. ran'[e] = ran[e]
      BY <1>6, <2>4
    <3>. QED
      BY <1>4, <3>1
  <2>. QED
    BY <2>3, <2>4
<1>9. ASSUME ~no_block
      PROVE  /\ num_skipped_frames'[e] = a % i
             /\ run <=> a % i = 0
  <2>1. CASE a = 0
    <3>1. n = UintMax - 1 /\ s = UintMax /\ s >= i
      BY <1>1, <1>2, <1>5, <1>9, <2>1
    <3>2. a % i = 0
      <4>1. 1 \in Nat \ {0} /\ 1 % i = 1 % i
        OBVIOUS
      <4>2. (1 - 1) % i = 0
        BY <1>1, <4>1, ModOne
      <4>. QED
        BY <2>1, <4>2
    <3>. QED
      BY <1>6, <1>9, <3>1, <3>2
  <2>2. CASE a # 0
    <3>1. PICK b \in Nat : a = b + 1
      <4>1. a - 1 \in Nat /\ a = (a - 1) + 1
        BY <1>1, <2>2
      <4>. QED
        BY <4>1
    <3>2. n = b % i
      <4>1. a >= 1 /\ a - 1 = b
        BY <3>1
      <4>. QED
        BY <1>5, <1>9, <4>1
    <3>3. n \in 0..(i - 1) /\ a % i = IF n = i - 1 THEN 0 ELSE n + 1
      BY <1>1, <3>1, <3>2, ModStep
    <3>4. s = n + 1
      BY <1>1, <1>2, <3>3
    <3>. QED
      BY <1>1, <1>6, <1>9, <3>3, <3>4
  <2>. QED
    BY <2>1, <2>2
<1>10. ASSUME ~no_block
       PROVE  ran'[e] = {k \in 1..arrived'[e] : (k - 1) % i = 0}
  <2>1. ran[e] = {k \in 1..a : (k - 1) % i = 0} /\ (run <=> a % i = 0)
    BY <1>5, <1>9, <1>10
  <2>2. \A k : k \in 1..(a + 1) <=> k \in 1..a \/ k = a + 1
    BY <1>1
  <2>3. ((a + 1) - 1) % i = a % i /\ a + 1 \notin 1..a
    <3>1. (a + 1) - 1 = a
      BY <1>1
    <3>. QED
      BY <1>1, <3>1
  <2>4. ASSUME NEW k PROVE k \in ran'[e] <=> k \in 1..(a + 1) /\ (k - 1) % i = 0
    <3>1. CASE k = a + 1
      BY <1>6, <2>1, <2>2, <2>3, <3>1
    <3>2. CASE k # a + 1
      BY <1>6, <2>1, <2>2, <3>2
    <3>. QED
      BY <3>1, <3>2
  <2>. QED
    BY <1>6, <2>4
<1>11. ~no_block => /\ arrived'[e] # 0
                    /\ num_skipped_frames'[e] = (arrived'[e] - 1) % i
  <2>1. (a + 1) - 1 = a /\ a + 1 # 0
    BY <1>1
  <2>. QED
    BY <1>6, <1>9, <2>1
<1>. QED
  BY <1>6, <1>7, <1>8, <1>10, <1>11 DEF RanOf, i

\* Only a frame that arrives changes the counter.
LEMMA RanStep == TypeOK /\ RanInv /\ [Next]_vars => RanInv'
<1>. SUFFICES ASSUME TypeOK, RanInv, [Next]_vars PROVE RanInv'
  OBVIOUS
<1>1. ASSUME UNCHANGED frameVars PROVE RanInv'
  BY <1>1 DEF RanInv, RanOf, frameVars
<1>2. ASSUME NEW e \in Elem, Decide(e) PROVE RanInv'
  <2>. SUFFICES ASSUME NEW d \in Elem PROVE RanOf(d)'
    BY DEF RanInv
  <2>1. PICK full \in BOOLEAN :
           /\ num_skipped_frames' = [num_skipped_frames EXCEPT ![e] =
                                        IF Executed(e, full) THEN 0 ELSE Skipped(e)]
           /\ ran' = [ran EXCEPT ![e] =
                         IF Executed(e, full) THEN ran[e] \cup {arrived[e] + 1} ELSE ran[e]]
           /\ arrived' = [arrived EXCEPT ![e] = arrived[e] + 1]
    BY <1>2 DEF Decide
  <2>2. CASE d # e
    <3>1. /\ num_skipped_frames'[d] = num_skipped_frames[d]
          /\ ran'[d] = ran[d] /\ arrived'[d] = arrived[d]
      BY <2>1, <2>2 DEF TypeOK
    <3>. QED
      BY <3>1 DEF RanInv, RanOf
  <2>3. CASE d = e
    <3> DEFINE run == Executed(e, full)
    <3>1. /\ num_skipped_frames'[e] = (IF run THEN 0 ELSE Skipped(e))
          /\ ran'[e] = (IF run THEN ran[e] \cup {arrived[e] + 1} ELSE ran[e])
          /\ arrived'[e] = arrived[e] + 1
      BY <2>1 DEF TypeOK
    <3>2. /\ run \in BOOLEAN
          /\ run => Skipped(e) >= inference_interval
          /\ ~no_block => (run <=> Skipped(e) >= inference_interval)
      BY DEF Executed
    <3>. HIDE DEF run
    <3>. QED
      BY <2>3, <3>1, <3>2, NextFrame DEF RanInv
  <2>. QED
    BY <2>2, <2>3
<1>3. ASSUME NEW e \in Elem,
             \/ SinkEventEos(e) \/ Stop(e) \/ Transforming(e) \/ FlushModel(e)
      PROVE  UNCHANGED frameVars
  BY <1>3 DEF SinkEventEos, Stop, Transforming, FilterThrow, Enqueue, PassThrough, Submit,
              SubmitThrow, FlushModel
<1>4. ASSUME NEW batch \in Batches, CallbackStart(batch) PROVE UNCHANGED frameVars
  BY <1>4 DEF CallbackStart, CompletionCallback, InferenceFailed
<1>5. CASE CallbackStep
  <2>1. UNCHANGED frameVars
    BY <1>5 DEF CallbackStep, PushFront, CallbackReturn
  <2>. QED
    BY <1>1, <2>1
<1>6. CASE UNCHANGED vars
  <2>1. UNCHANGED frameVars
    BY <1>6 DEF vars, frameVars
  <2>. QED
    BY <1>1, <2>1
<1>. QED
  BY <1>1, <1>2, <1>3, <1>4, <1>5, <1>6 DEF Next

\* The inference never runs more often than every inference_interval frames and,
\* without no-block, runs on the first frame and exactly every inference_interval-th
\* after it, for any interval up to G_MAXUINT and through the wrap of the counter.
THEOREM Interval == Spec => []IntervalKept
<1>1. Init => RanInv
  BY DEF Init, RanInv, RanOf
<1>2. TypeOK /\ RanInv => IntervalKept
  <2>. SUFFICES ASSUME TypeOK, RanInv, NEW e \in Elem
                PROVE  /\ \A j, k \in ran[e] : j < k => k - j >= inference_interval
                       /\ ~no_block => ran[e] = {k \in 1..arrived[e] :
                               k % inference_interval = 1 % inference_interval}
    BY DEF IntervalKept
  <2>1. RanOf(e) /\ arrived[e] \in Nat /\ inference_interval \in Nat \ {0}
    BY BoundAssumption DEF RanInv, TypeOK
  <2>2. ASSUME NEW k \in 1..arrived[e]
        PROVE  (k - 1) % inference_interval = 0
                 <=> k % inference_interval = 1 % inference_interval
    <3>1. k \in Nat \ {0}
      BY <2>1
    <3>. QED
      BY <2>1, <3>1, ModOne
  <2>. QED
    BY <2>1, <2>2 DEF RanOf
<1>. QED
  BY <1>1, <1>2, RanStep, TypeCorrect, PTL DEF Spec

-----------------------------------------------------------------------------
(* The count of a frame is exact *)

\* The frame at k waits for as many inferences as it is still to get, or has lost
\* to failures, unless its submission threw.
Thrown(k) == LET f == output_frames[k]
             IN pc[f.elem] = "error" /\ f.frame = arrived[f.elem]
ExactAt(k) == LET n == output_frames[k].inference_count
              IN /\ n >= Cardinality(Awaited(k))
                 /\ n = Cardinality(Awaited(k)) \/ Thrown(k)

\* A frame of the list waits for finitely many images.
LEMMA AwaitedFinite ==
    ASSUME NEW k PROVE IsFiniteSet(Awaited(k)) /\ Cardinality(Awaited(k)) \in Nat
BY SlotsFinite, ZenonT(30) DEF Awaited, FrameOf

\* An exact count stays so when the frame, and what it waits for, is the same; the
\* frame may have moved up.
LEMMA ExactKept ==
    ASSUME NEW k, NEW l, ExactAt(k), output_frames'[l] = output_frames[k],
           Awaited(l)' = Awaited(k), Thrown(k) => Thrown(l)'
    PROVE  ExactAt(l)'
BY DEF ExactAt

\* A submission that threw is not repeated: its element is in error, and takes no
\* other frame.
LEMMA ThrownKept ==
    ASSUME IInv, [Next]_vars, NEW e \in Elem, pc[e] = "error"
    PROVE  pc'[e] = "error" /\ arrived'[e] = arrived[e]
<1>. USE DEF callVars, frameVars, endVars
<1>0. pc \in [Elem -> {"idle", "enqueue", "submit", "pass", "error"}]
      /\ arrived \in [Elem -> 0..MaxFrames]
  BY DEF IInv, TypeOK
<1>1. ASSUME NEW d \in Elem, Decide(d) PROVE pc'[e] = "error" /\ arrived'[e] = arrived[e]
  <2>1. d # e
    BY <1>1 DEF Decide
  <2>. QED
    BY <1>0, <1>1, <2>1 DEF Decide
<1>2. ASSUME NEW d \in Elem, SinkEventEos(d) \/ Stop(d) \/ FlushModel(d)
      PROVE  pc'[e] = "error" /\ arrived'[e] = arrived[e]
  BY <1>2 DEF SinkEventEos, Stop, FlushModel
<1>3. ASSUME NEW d \in Elem, Transforming(d) PROVE pc'[e] = "error" /\ arrived'[e] = arrived[e]
  <2>1. d # e /\ UNCHANGED arrived
    BY <1>3 DEF Transforming, FilterThrow, Enqueue, PassThrough, Submit, SubmitThrow
  <2>2. pc' = pc \/ \E x : pc' = [pc EXCEPT ![d] = x]
    BY <1>3, Zenon DEF Transforming, FilterThrow, Enqueue, PassThrough, Submit, SubmitThrow
  <2>. QED
    BY <1>0, <2>1, <2>2
<1>4. ASSUME NEW batch \in Batches, CallbackStart(batch)
      PROVE  pc'[e] = "error" /\ arrived'[e] = arrived[e]
  BY <1>4 DEF CallbackStart, CompletionCallback, InferenceFailed
<1>5. ASSUME CallbackStep PROVE pc'[e] = "error" /\ arrived'[e] = arrived[e]
  BY <1>5 DEF CallbackStep, PushFront, CallbackReturn
<1>6. ASSUME UNCHANGED vars PROVE pc'[e] = "error" /\ arrived'[e] = arrived[e]
  BY <1>6 DEF vars
<1>. QED
  BY <1>1, <1>2, <1>3, <1>4, <1>5, <1>6 DEF Next

\* As many different elements as the length of a sequence without repetition.
LEMMA RangeExact ==
    ASSUME NEW S, NEW q \in Seq(S), NEW T,
           \A x : x \in T <=> \E j \in DOMAIN q : x = q[j],
           \A j, l \in DOMAIN q : l # j => q[l] # q[j]
    PROVE  IsFiniteSet(T) /\ Cardinality(T) = Len(q)
<1> DEFINE D == 1..Len(q)
           f == [j \in D |-> q[j]]
<1>1. Len(q) \in Nat /\ DOMAIN q = D
  OBVIOUS
<1>2. IsFiniteSet(D) /\ Cardinality(D) = Len(q)
  <2>1. 1 \in Int /\ Len(q) \in Int
    BY <1>1
  <2>. QED
    BY <1>1, <2>1, FS_Interval
<1>3. f \in [D -> T]
  BY <1>1
<1>4. \A j, l \in D : f[j] = f[l] => j = l
  BY <1>1
<1>5. \A x \in T : \E j \in D : f[j] = x
  BY <1>1
<1>. HIDE DEF D, f
<1>6. f \in Bijection(D, T)
  BY <1>3, <1>4, <1>5 DEF Bijection, Injection, Surjection, IsInjective
<1>. QED
  BY <1>2, <1>6, FS_Bijection DEF ExistsBijection

\* An image is waited for until a callback has counted it, or for good when it
\* fails, and a frame that joins the list waits for each of its images once.
ExactInv == \A k \in DOMAIN output_frames : ExactAt(k)
LEMMA ExactStep == IInv /\ ExactInv /\ [Next]_vars => ExactInv'
<1>. SUFFICES ASSUME IInv, ExactInv, [Next]_vars PROVE ExactInv'
  OBVIOUS
<1>. USE DEF callVars, frameVars, endVars
<1>0. /\ TypeOK /\ FlowInv /\ TodoInv /\ NewInv /\ QueueInv
  BY DEF IInv
<1>a. ASSUME NEW k \in DOMAIN output_frames, NEW l, output_frames'[l] = output_frames[k]
      PROVE  Thrown(k) => Thrown(l)'
  <2>1. output_frames[k] \in OutputFrame
    BY <1>0 DEF TypeOK
  <2>2. PICK c \in Elem : c = output_frames[k].elem
    BY <2>1 DEF OutputFrame
  <2>. QED
    BY <1>a, <2>2, ThrownKept DEF Thrown
<1>b. ASSUME output_frames' = output_frames, \A k \in DOMAIN output_frames : Awaited(k)' = Awaited(k)
      PROVE  ExactInv'
  BY <1>a, <1>b, ExactKept DEF ExactInv
<1>c. ASSUME UNCHANGED <<given, callback, todo, output_frames>> PROVE ExactInv'
  BY <1>b, <1>c DEF Awaited, Pending, FrameOf
<1>1. ASSUME NEW e \in Elem, Decide(e) PROVE ExactInv'
  BY <1>1, <1>c DEF Decide
<1>2. ASSUME NEW e \in Elem, SinkEventEos(e) PROVE ExactInv'
  BY <1>2, <1>c DEF SinkEventEos
<1>3. ASSUME NEW e \in Elem, Stop(e) PROVE ExactInv'
  BY <1>3, <1>c DEF Stop
<1>4. ASSUME NEW e \in Elem, FilterThrow(e) PROVE ExactInv'
  BY <1>4, <1>c DEF FilterThrow
<1>5. ASSUME NEW e \in Elem, Enqueue(e) PROVE ExactInv'
  <2>1. /\ arrived[e] >= 1 /\ pc[e] = "enqueue" /\ todo[e] = <<>>
        /\ todo' = [todo EXCEPT ![e] = Images(e)] /\ UNCHANGED <<given, callback, arrived>>
    BY <1>5, <1>0 DEF Enqueue, FlowInv
  <2>2. /\ inference_count(e) \in Nat /\ Images(e) \in Seq(Image)
        /\ Len(Images(e)) = inference_count(e)
        /\ \A j \in DOMAIN Images(e) :
              /\ Images(e)[j].elem = e /\ Images(e)[j].frame = arrived[e]
              /\ \A l \in DOMAIN Images(e) : l # j => Images(e)[l] # Images(e)[j]
    BY <1>0, <2>1, ImagesFacts
  <2>3. todo'[e] = Images(e) /\ \A d \in Elem : d # e => todo'[d] = todo[d]
    BY <1>0, <2>1 DEF TypeOK
  <2>4. ASSUME NEW i \in Image, ~(i.elem = e /\ i.frame = arrived[e])
        PROVE  (\E d \in Elem : \E j \in DOMAIN todo'[d] : todo'[d][j] = i)
               <=> (\E d \in Elem : \E j \in DOMAIN todo[d] : todo[d][j] = i)
    BY <2>1, <2>2, <2>3, <2>4
  <2>5. ASSUME NEW i \in Image, i.elem = e, i.frame = arrived[e]
        PROVE  given'[i] = "new" /\ ((\E d \in Elem : \E j \in DOMAIN todo'[d] : todo'[d][j] = i)
                                     <=> \E j \in DOMAIN Images(e) : i = Images(e)[j])
    <3>1. given[i] = "new"
      <4>1. Past(e) = arrived[e] - 1 /\ arrived[e] \in Int
        BY <1>0, <2>1 DEF Past, TypeOK
      <4>. HIDE DEF Past
      <4>. QED
        BY <1>0, <2>5, <4>1 DEF NewInv
    <3>2. \A d \in Elem : d # e => \A j \in DOMAIN todo[d] : todo[d][j].elem = d
      BY <1>0 DEF TodoInv
    <3>. QED
      BY <2>1, <2>3, <2>5, <3>1, <3>2
  <2>6. ASSUME NEW k \in DOMAIN output_frames
        PROVE  ~(output_frames[k].elem = e /\ output_frames[k].frame = arrived[e])
    <3>1. \A d \in Elem : d = output_frames[k].elem => output_frames[k].frame <= Joined(d)
      BY <1>0 DEF QueueInv
    <3>2. Joined(e) = arrived[e] - 1 /\ arrived[e] \in Int
      BY <1>0, <2>1 DEF Joined, TypeOK
    <3>. QED
      BY <3>1, <3>2
  <2>7. ASSUME NEW k \in DOMAIN output_frames, output_frames'[k] = output_frames[k]
        PROVE  ExactAt(k)'
    <3>1. \A i \in Image : FrameOf(i, k)' <=> FrameOf(i, k)
      BY <2>7 DEF FrameOf
    <3>2. \A i \in Image : FrameOf(i, k) => ~(i.elem = e /\ i.frame = arrived[e])
      BY <2>6 DEF FrameOf
    <3>3. Pending' = Pending /\ callback' = callback /\ given' = given
      BY <2>1 DEF Pending
    <3>4. Awaited(k)' = Awaited(k)
      BY <2>4, <3>1, <3>2, <3>3, Zenon DEF Awaited
    <3>. QED
      BY <1>a, <2>7, <3>4, ExactKept DEF ExactInv
  <2>8. CASE output_frames' = output_frames
    BY <2>7, <2>8 DEF ExactInv
  <2>9. CASE output_frames' = Append(output_frames,
                 [elem |-> e, frame |-> arrived[e], inference_count |-> inference_count(e)])
    <3>0. PICK m \in Nat : m = Len(output_frames) + 1
      BY <1>0 DEF TypeOK
    <3>1. /\ DOMAIN output_frames' = DOMAIN output_frames \cup {m}
          /\ \A k \in DOMAIN output_frames : output_frames'[k] = output_frames[k]
          /\ output_frames'[m].elem = e
          /\ output_frames'[m].frame = arrived[e]
          /\ output_frames'[m].inference_count = inference_count(e)
      BY <1>0, <2>1, <2>9, <3>0, JoinFacts
    <3>2. \A i \in Image : FrameOf(i, m)' <=> i.elem = e /\ i.frame = arrived[e]
      BY <3>1 DEF FrameOf
    <3>3. ASSUME NEW i PROVE i \in Awaited(m)' <=> \E j \in DOMAIN Images(e) : i = Images(e)[j]
      <4>1. CASE i \in Image /\ i.elem = e /\ i.frame = arrived[e]
        BY <2>5, <3>2, <4>1 DEF Awaited, Pending
      <4>2. CASE ~(i \in Image /\ i.elem = e /\ i.frame = arrived[e])
        <5>1. i \notin Awaited(m)'
          BY <3>2, <4>2 DEF Awaited
        <5>. QED
          BY <2>2, <4>2, <5>1
      <4>. QED
        BY <4>1, <4>2
    <3>4. Cardinality(Awaited(m)') = inference_count(e)
      BY <2>2, <3>3, RangeExact
    <3>5. ExactAt(m)'
      BY <2>2, <3>1, <3>4 DEF ExactAt
    <3>. QED
      BY <2>7, <3>1, <3>5 DEF ExactInv
  <2>. QED
    BY <1>5, <2>8, <2>9 DEF Enqueue
<1>6. ASSUME NEW e \in Elem, PassThrough(e) PROVE ExactInv'
  BY <1>6, <1>c DEF PassThrough
<1>7. ASSUME NEW e \in Elem, Submit(e) PROVE ExactInv'
  <2>1. /\ todo[e] \in Seq(Image) /\ todo[e] # <<>> /\ UNCHANGED <<callback, output_frames>>
        /\ todo' = [todo EXCEPT ![e] = Tail(todo[e])]
        /\ given' = [given EXCEPT ![Head(todo[e])] = "pending"]
    BY <1>7, <1>0 DEF Submit, FlowInv, TypeOK
  <2>2. /\ 1 \in DOMAIN todo[e] /\ Head(todo[e]) = todo[e][1] /\ Head(todo[e]) \in Image
        /\ \A j \in DOMAIN Tail(todo[e]) : j + 1 \in DOMAIN todo[e] /\ Tail(todo[e])[j] = todo[e][j + 1]
        /\ \A j \in DOMAIN todo[e] :
              j # 1 => j - 1 \in DOMAIN Tail(todo[e]) /\ Tail(todo[e])[j - 1] = todo[e][j]
    BY <2>1, PopFacts
  <2>3. todo'[e] = Tail(todo[e]) /\ \A d \in Elem : d # e => todo'[d] = todo[d]
    BY <1>0, <2>1 DEF TypeOK
  <2>4. given[Head(todo[e])] = "new" /\ given'[Head(todo[e])] = "pending"
        /\ Head(todo[e]) \notin callback /\ given \in [Image -> {"new", "pending", "completed", "failed"}]
    BY <1>0, <2>1, <2>2 DEF TodoInv, TypeOK, Pending
  <2>5. ASSUME NEW i \in Image, i # Head(todo[e])
        PROVE  /\ given'[i] = given[i]
               /\ (\E d \in Elem : \E j \in DOMAIN todo'[d] : todo'[d][j] = i)
                  <=> (\E d \in Elem : \E j \in DOMAIN todo[d] : todo[d][j] = i)
    <3>1. given'[i] = given[i]
      BY <2>1, <2>4, <2>5
    <3>2. ASSUME NEW d \in Elem, NEW j \in DOMAIN todo'[d], todo'[d][j] = i
          PROVE  \E b \in Elem : \E l \in DOMAIN todo[b] : todo[b][l] = i
      <4>1. CASE d = e
        <5>1. j + 1 \in DOMAIN todo[e] /\ todo[e][j + 1] = i
          BY <2>2, <2>3, <3>2, <4>1
        <5>. QED
          BY <5>1
      <4>2. CASE d # e
        BY <2>3, <3>2, <4>2
      <4>. QED
        BY <4>1, <4>2
    <3>3. ASSUME NEW d \in Elem, NEW j \in DOMAIN todo[d], todo[d][j] = i
          PROVE  \E b \in Elem : \E l \in DOMAIN todo'[b] : todo'[b][l] = i
      <4>1. CASE d = e
        <5>1. j - 1 \in DOMAIN todo'[e] /\ todo'[e][j - 1] = i
          BY <2>2, <2>3, <2>5, <3>3, <4>1
        <5>. QED
          BY <5>1
      <4>2. CASE d # e
        BY <2>3, <3>3, <4>2
      <4>. QED
        BY <4>1, <4>2
    <3>. QED
      BY <3>1, <3>2, <3>3
  <2>6. ASSUME NEW k \in DOMAIN output_frames PROVE Awaited(k)' = Awaited(k)
    <3>. SUFFICES ASSUME NEW i \in Image PROVE i \in Awaited(k)' <=> i \in Awaited(k)
      BY DEF Awaited
    <3>1. FrameOf(i, k)' <=> FrameOf(i, k)
      BY <2>1 DEF FrameOf
    <3>2. CASE i = Head(todo[e])
      BY <2>1, <2>2, <2>4, <3>1, <3>2 DEF Awaited, Pending
    <3>3. CASE i # Head(todo[e])
      BY <2>1, <2>5, <3>1, <3>3 DEF Awaited, Pending
    <3>. QED
      BY <3>2, <3>3
  <2>. QED
    BY <1>b, <2>1, <2>6
<1>8. ASSUME NEW e \in Elem, SubmitThrow(e) PROVE ExactInv'
  <2>1. /\ todo[e] \in Seq(Image) /\ todo[e] # <<>> /\ UNCHANGED <<callback, output_frames, arrived>>
        /\ todo' = [todo EXCEPT ![e] = <<>>] /\ pc' = [pc EXCEPT ![e] = "error"]
        /\ given' \in {given, [given EXCEPT ![Head(todo[e])] = "pending"]}
    BY <1>8, <1>0 DEF SubmitThrow, FlowInv, TypeOK
  <2>2. 1 \in DOMAIN todo[e] /\ Head(todo[e]) = todo[e][1] /\ Head(todo[e]) \in Image
    BY <2>1, PopFacts
  <2>3. todo'[e] = <<>> /\ (\A d \in Elem : d # e => todo'[d] = todo[d]) /\ pc'[e] = "error"
    BY <1>0, <2>1 DEF TypeOK
  <2>4. given \in [Image -> {"new", "pending", "completed", "failed"}]
    BY <1>0 DEF TypeOK
  <2>5. \A j \in DOMAIN todo[e] : todo[e][j].elem = e /\ todo[e][j].frame = arrived[e]
    BY <1>0 DEF TodoInv
  <2>6. ASSUME NEW k \in DOMAIN output_frames,
               ~(output_frames[k].elem = e /\ output_frames[k].frame = arrived[e])
        PROVE  ExactAt(k)'
    <3>1. \A i \in Image : FrameOf(i, k)' <=> FrameOf(i, k)
      BY <2>1 DEF FrameOf
    <3>2. ASSUME NEW i \in Image, FrameOf(i, k)
          PROVE  /\ given'[i] = given[i]
                 /\ (\E d \in Elem : \E j \in DOMAIN todo'[d] : todo'[d][j] = i)
                    <=> (\E d \in Elem : \E j \in DOMAIN todo[d] : todo[d][j] = i)
      <4>1. ~(i.elem = e /\ i.frame = arrived[e])
        BY <2>6, <3>2 DEF FrameOf
      <4>2. i # Head(todo[e]) /\ \A j \in DOMAIN todo[e] : todo[e][j] # i
        BY <2>2, <2>5, <4>1
      <4>. QED
        BY <2>1, <2>3, <2>4, <4>2
    <3>3. Awaited(k)' = Awaited(k)
      BY <2>1, <3>1, <3>2 DEF Awaited, Pending
    <3>. QED
      BY <1>a, <2>1, <3>3, ExactKept DEF ExactInv
  <2>7. ASSUME NEW k \in DOMAIN output_frames,
               output_frames[k].elem = e, output_frames[k].frame = arrived[e]
        PROVE  ExactAt(k)'
    <3>1. Awaited(k)' \subseteq Awaited(k)
      <4>. SUFFICES ASSUME NEW i \in Image, i \in Awaited(k)' PROVE i \in Awaited(k)
        BY DEF Awaited
      <4>0. FrameOf(i, k)
        BY <2>1 DEF Awaited, FrameOf
      <4>1. CASE i = Head(todo[e])
        BY <2>2, <4>0, <4>1 DEF Awaited
      <4>2. CASE i # Head(todo[e])
        <5>1. given'[i] = given[i]
          BY <2>1, <2>4, <4>2
        <5>2. ASSUME NEW d \in Elem, NEW j \in DOMAIN todo'[d], todo'[d][j] = i
              PROVE  \E b \in Elem : \E l \in DOMAIN todo[b] : todo[b][l] = i
          BY <2>3, <5>2
        <5>. QED
          BY <2>1, <4>0, <5>1, <5>2 DEF Awaited, Pending
      <4>. QED
        BY <4>1, <4>2
    <3>2. Cardinality(Awaited(k)') \in Nat /\ Cardinality(Awaited(k)') <= Cardinality(Awaited(k))
      BY <3>1, AwaitedFinite, FS_Subset, FS_CardinalityType
    <3>3. output_frames[k] \in OutputFrame
      BY <1>0 DEF TypeOK
    <3>4. Thrown(k)'
      BY <2>1, <2>3, <2>7 DEF Thrown
    <3>. QED
      BY <2>1, <3>2, <3>3, <3>4, AwaitedFinite DEF ExactInv, ExactAt, OutputFrame
  <2>. QED
    BY <2>1, <2>6, <2>7 DEF ExactInv
<1>9. ASSUME NEW e \in Elem, FlushModel(e) PROVE ExactInv'
  BY <1>9, <1>c DEF FlushModel
<1>10. ASSUME NEW batch \in Batches, CompletionCallback(batch) PROVE ExactInv'
  <2>1. /\ callback = {} /\ callback' = batch /\ UNCHANGED <<given, todo, pc, arrived>>
        /\ output_frames' = UpdateOutputFrames(batch) /\ batch \subseteq Pending
    BY <1>10 DEF CompletionCallback, Batches
  <2>2. /\ DOMAIN output_frames' = DOMAIN output_frames
        /\ \A k \in DOMAIN output_frames :
              /\ output_frames'[k].elem = output_frames[k].elem
              /\ output_frames'[k].frame = output_frames[k].frame
              /\ output_frames'[k].inference_count =
                    output_frames[k].inference_count - Cardinality({i \in batch : FrameOf(i, k)})
    BY <2>1, UpdateFacts DEF IInv
  <2>3. ASSUME NEW k \in DOMAIN output_frames PROVE ExactAt(k)'
    <3> DEFINE B == {i \in batch : FrameOf(i, k)}
               c == output_frames[k].inference_count
    <3>1. \A i \in Image : FrameOf(i, k)' <=> FrameOf(i, k)
      BY <2>2 DEF FrameOf
    <3>2. \A d \in Elem : \A j \in DOMAIN todo[d] : todo[d][j] \notin batch
      BY <1>0, <2>1 DEF TodoInv, Pending
    <3>3. Awaited(k)' = Awaited(k) \ B /\ B \subseteq Awaited(k)
      BY <2>1, <3>1, <3>2 DEF Awaited, Pending
    <3>. HIDE DEF B
    <3>4. IsFiniteSet(B) /\ Cardinality(B) \in Nat
      BY <3>3, AwaitedFinite, FS_Subset, FS_CardinalityType
    <3>5. Awaited(k) \cap B = B
      BY <3>3
    <3>6. Cardinality(Awaited(k)') = Cardinality(Awaited(k)) - Cardinality(B)
      BY <3>3, <3>5, AwaitedFinite, FS_Difference
    <3>7. output_frames[k] \in OutputFrame
      BY <1>0 DEF TypeOK
    <3>8. c \in Nat
      BY <3>7 DEF OutputFrame
    <3>9. output_frames'[k].inference_count = c - Cardinality(B)
      BY <2>2 DEF B
    <3>10. c >= Cardinality(Awaited(k)) /\ (c = Cardinality(Awaited(k)) \/ Thrown(k))
      BY DEF ExactInv, ExactAt
    <3>11. Thrown(k)' <=> Thrown(k)
      BY <2>1, <2>2 DEF Thrown
    <3>12. Cardinality(Awaited(k)) \in Nat
      BY AwaitedFinite
    <3>. HIDE DEF c
    <3>13. output_frames'[k].inference_count >= Cardinality(Awaited(k)')
      BY <3>4, <3>6, <3>8, <3>9, <3>10, <3>12
    <3>14. c = Cardinality(Awaited(k)) => output_frames'[k].inference_count = Cardinality(Awaited(k)')
      BY <3>6, <3>9
    <3>. QED
      BY <3>10, <3>11, <3>13, <3>14 DEF ExactAt
  <2>. QED
    BY <2>2, <2>3 DEF ExactInv
<1>11. ASSUME NEW batch \in Batches, InferenceFailed(batch) PROVE ExactInv'
  <2>1. UNCHANGED <<callback, todo, output_frames>> /\ callback = {} /\ batch \subseteq Pending
    BY <1>11 DEF InferenceFailed, Batches
  <2>2. \A i \in Image : given'[i] = IF i \in batch THEN "failed" ELSE given[i]
    BY <1>11 DEF InferenceFailed
  <2>3. ASSUME NEW k PROVE Awaited(k)' = Awaited(k)
    BY <2>1, <2>2 DEF Awaited, Pending, FrameOf
  <2>. QED
    BY <1>b, <2>1, <2>3
<1>12. CASE PushFront
  <2>1. /\ output_frames \in Seq(OutputFrame) /\ output_frames # <<>>
        /\ output_frames' = Tail(output_frames) /\ UNCHANGED <<given, todo, callback>>
    BY <1>12, <1>0 DEF PushFront, Complete, TypeOK
  <2>2. ASSUME NEW k \in DOMAIN output_frames' PROVE ExactAt(k)'
    <3>1. k + 1 \in DOMAIN output_frames /\ output_frames'[k] = output_frames[k + 1]
      BY <2>1, PopFacts
    <3>2. Awaited(k)' = Awaited(k + 1)
      BY <2>1, <3>1 DEF Awaited, FrameOf, Pending
    <3>. QED
      BY <1>a, <3>1, <3>2, ExactKept DEF ExactInv
  <2>. QED
    BY <2>2 DEF ExactInv
<1>13. CASE CallbackReturn
  <2>1. UNCHANGED <<todo, output_frames>> /\ callback' = {} /\ callback \subseteq Pending
    BY <1>13, <1>0 DEF CallbackReturn, TypeOK
  <2>2. \A i \in Image : given'[i] = IF i \in callback THEN "completed" ELSE given[i]
    BY <1>13 DEF CallbackReturn
  <2>3. \A d \in Elem : \A j \in DOMAIN todo[d] : todo[d][j] \notin callback
    BY <1>0, <2>1 DEF TodoInv, Pending
  <2>4. ASSUME NEW k PROVE Awaited(k)' = Awaited(k)
    BY <2>1, <2>2, <2>3 DEF Awaited, Pending, FrameOf
  <2>. QED
    BY <1>b, <2>1, <2>4
<1>14. CASE UNCHANGED vars
  BY <1>14, <1>c DEF vars
<1>. QED
  BY <1>1, <1>2, <1>3, <1>4, <1>5, <1>6, <1>7, <1>8, <1>9, <1>10, <1>11, <1>12, <1>13, <1>14
  DEF Next, Transforming, CallbackStart, CallbackStep

\* No frame waits at the start.
LEMMA InitExact == Init => ExactInv
<1>. SUFFICES ASSUME Init PROVE \A k \in DOMAIN output_frames : ExactAt(k)
  BY DEF ExactInv
<1>1. DOMAIN output_frames = {}
  BY DEF Init
<1>. QED
  BY <1>1

\* The count of every frame in the list is exact, whichever callbacks and failures
\* there have been.
THEOREM Exact == Spec => []CountExact
<1>1. Init => ExactInv
  BY InitExact
<1>2. ExactInv => CountExact
  BY DEF ExactInv, ExactAt, Thrown, CountExact
<1>3. IInv /\ ExactInv /\ [Next]_vars => ExactInv'
  BY ExactStep
<1>. QED
  BY <1>1, <1>2, <1>3, ListInvariant, PTL DEF Spec

-----------------------------------------------------------------------------
(* The end of the stream, without failures *)

NoFailure == ~MayFail /\ ~MayThrow

\* Without failures no thread ends in an error and no image fails.
QuietInv == /\ \A e \in Elem : pc[e] # "error"
            /\ \A i \in Image : given[i] # "failed"

\* One thread at a time is between the decision and the last image.
MutexInv == \A e \in Elem : pc[e] \in {"enqueue", "submit"} => mutex = e

\* The frame whose images are being submitted is the last of the list.
LastInv == \A e \in Elem : pc[e] = "submit" =>
              LET n == Len(output_frames)
              IN n # 0 /\ output_frames[n].elem = e /\ output_frames[n].frame = arrived[e]

\* Between callbacks the frame at the front waits for an inference.
HeadInv == callback = {} /\ output_frames # <<>> => Head(output_frames).inference_count > 0

\* Up to the last frame of an element that flushes, no image is pending of the
\* models it has flushed.
FlushedInv ==
    \A e \in Elem : \A l \in DOMAIN output_frames :
        flushing[e] # 0 /\ output_frames[l].elem = e =>
            \A k \in DOMAIN output_frames : k <= l =>
                \A i \in Pending : FrameOf(i, k) => i.model >= flushing[e]

\* While a callback is in the loop of PushOutput with images of those models, it
\* finds a frame that waits before it comes to one of the element.
AheadInv ==
    \A e \in Elem : \A l \in DOMAIN output_frames :
        /\ output_frames[l].elem = e
        /\ callback # {}
        /\ \A i \in callback : i.model < flushing[e]
        => \E k \in DOMAIN output_frames : k <= l /\ output_frames[k].inference_count > 0

EndInv == /\ QuietInv /\ MutexInv /\ LastInv /\ HeadInv
          /\ FlushedInv /\ AheadInv /\ AllPushedAtEos

\* No inference fails and nothing is thrown.
LEMMA QuietStep == NoFailure /\ IInv /\ QuietInv /\ [Next]_vars => QuietInv'
<1>. SUFFICES ASSUME NoFailure, IInv, QuietInv, [Next]_vars PROVE QuietInv'
  OBVIOUS
<1>. USE DEF callVars, frameVars, endVars
<1>0. TypeOK
  BY DEF IInv
<1>1. \A e \in Elem : pc'[e] # "error"
  <2>1. pc' = pc \/ \E d \in Elem, x \in {"idle", "enqueue", "submit", "pass"} :
                       pc' = [pc EXCEPT ![d] = x]
    <3>1. ASSUME NEW e \in Elem, Decide(e) \/ SinkEventEos(e) \/ Stop(e) \/ FlushModel(e)
          PROVE  pc' = pc \/ pc' = [pc EXCEPT ![e] = "enqueue"]
      BY <3>1 DEF Decide, SinkEventEos, Stop, FlushModel
    <3>2. ASSUME NEW e \in Elem, Transforming(e)
          PROVE  pc' = pc \/ \E x \in {"idle", "submit", "pass"} : pc' = [pc EXCEPT ![e] = x]
      BY <3>2 DEF NoFailure, Transforming, FilterThrow, Enqueue, PassThrough, Submit, SubmitThrow
    <3>3. ASSUME NEW batch \in Batches, CallbackStart(batch) PROVE pc' = pc
      BY <3>3 DEF CallbackStart, CompletionCallback, InferenceFailed
    <3>4. ASSUME CallbackStep PROVE pc' = pc
      BY <3>4 DEF CallbackStep, PushFront, CallbackReturn
    <3>. QED
      BY <3>1, <3>2, <3>3, <3>4 DEF Next, vars
  <2>. QED
    BY <1>0, <2>1 DEF QuietInv, TypeOK
<1>2. \A i \in Image : given'[i] # "failed"
  <2>1. \/ given' = given
        \/ \E i \in Image : given' = [given EXCEPT ![i] = "pending"]
        \/ \A i \in Image : given'[i] = IF i \in callback THEN "completed" ELSE given[i]
    <3>1. ASSUME NEW e \in Elem, Decide(e) \/ SinkEventEos(e) \/ Stop(e) \/ FlushModel(e)
          PROVE  given' = given
      BY <3>1 DEF Decide, SinkEventEos, Stop, FlushModel
    <3>2. ASSUME NEW e \in Elem, Submit(e)
          PROVE  \E i \in Image : given' = [given EXCEPT ![i] = "pending"]
      <4>1. todo[e] \in Seq(Image) /\ todo[e] # <<>>
        BY <3>2 DEF IInv, TypeOK, FlowInv, Submit
      <4>2. Head(todo[e]) \in Image
        BY <4>1, PopFacts
      <4>. QED
        BY <3>2, <4>2 DEF Submit
    <3>3. ASSUME NEW e \in Elem, Transforming(e), ~Submit(e) PROVE given' = given
      BY <3>3 DEF NoFailure, Transforming, FilterThrow, Enqueue, PassThrough, SubmitThrow
    <3>4. ASSUME NEW batch \in Batches, CallbackStart(batch) PROVE given' = given
      BY <3>4 DEF NoFailure, CallbackStart, CompletionCallback, InferenceFailed
    <3>5. ASSUME PushFront PROVE given' = given
      BY <3>5 DEF PushFront
    <3>6. ASSUME CallbackReturn
          PROVE  \A i \in Image : given'[i] = IF i \in callback THEN "completed" ELSE given[i]
      BY <3>6 DEF CallbackReturn
    <3>. QED
      BY <3>1, <3>2, <3>3, <3>4, <3>5, <3>6 DEF Next, CallbackStep, vars
  <2>2. CASE given' = given
    BY <2>2 DEF QuietInv
  <2>3. ASSUME NEW i \in Image, given' = [given EXCEPT ![i] = "pending"]
        PROVE  \A j \in Image : given'[j] # "failed"
    BY <1>0, <2>3 DEF QuietInv, TypeOK
  <2>4. CASE \A i \in Image : given'[i] = IF i \in callback THEN "completed" ELSE given[i]
    BY <2>4 DEF QuietInv
  <2>. QED
    BY <2>1, <2>2, <2>3, <2>4
<1>. QED
  BY <1>1, <1>2 DEF QuietInv

\* _mutex is held from the decision to the last image.
LEMMA MutexStep == IInv /\ MutexInv /\ [Next]_vars => MutexInv'
<1>. SUFFICES ASSUME IInv, MutexInv, [Next]_vars PROVE MutexInv'
  OBVIOUS
<1>. USE DEF callVars, frameVars, endVars
<1>0. pc \in [Elem -> {"idle", "enqueue", "submit", "pass", "error"}]
  BY DEF IInv, TypeOK
<1>a. ASSUME UNCHANGED <<pc, mutex>> PROVE MutexInv'
  BY <1>a DEF MutexInv
<1>b. ASSUME NEW e \in Elem, NEW x, pc' = [pc EXCEPT ![e] = x],
             mutex = NULL \/ mutex = e, mutex' = e \/ x \notin {"enqueue", "submit"}
      PROVE  MutexInv'
  <2>. SUFFICES ASSUME NEW d \in Elem, pc'[d] \in {"enqueue", "submit"} PROVE mutex' = d
    BY DEF MutexInv
  <2>1. CASE d = e
    BY <1>0, <1>b, <2>1
  <2>2. CASE d # e
    <3>1. mutex = d
      BY <1>0, <1>b, <2>2 DEF MutexInv
    <3>. QED
      BY <1>b, <2>2, <3>1, NullAssumption
  <2>. QED
    BY <2>1, <2>2
<1>1. ASSUME NEW e \in Elem, Decide(e) PROVE MutexInv'
  BY <1>1, <1>b DEF Decide
<1>2. ASSUME NEW e \in Elem, SinkEventEos(e) \/ Stop(e) \/ FlushModel(e) PROVE MutexInv'
  BY <1>2, <1>a DEF SinkEventEos, Stop, FlushModel
<1>3. ASSUME NEW e \in Elem, FilterThrow(e) PROVE MutexInv'
  BY <1>0, <1>3, <1>b DEF FilterThrow, MutexInv
<1>4. ASSUME NEW e \in Elem, Enqueue(e) PROVE MutexInv'
  <2>1. mutex = e
    BY <1>4 DEF Enqueue, MutexInv
  <2>2. \E x : pc' = [pc EXCEPT ![e] = x] /\ (mutex' = e \/ x \notin {"enqueue", "submit"})
    <3>1. CASE inference_count(e) = 0
      <4>1. PICK x : x = IF output_frames = <<>> THEN "pass" ELSE "idle"
        OBVIOUS
      <4>. QED
        BY <1>4, <3>1, <4>1, ZenonT(30) DEF Enqueue
    <3>2. CASE inference_count(e) # 0
      BY <1>4, <2>1, <3>2 DEF Enqueue
    <3>. QED
      BY <3>1, <3>2
  <2>. QED
    BY <1>b, <2>1, <2>2
<1>5. ASSUME NEW e \in Elem, PassThrough(e) PROVE MutexInv'
  <2>1. pc' = [pc EXCEPT ![e] = "idle"] /\ mutex' = mutex
    BY <1>5 DEF PassThrough
  <2>. QED
    BY <1>0, <2>1 DEF MutexInv
<1>6. ASSUME NEW e \in Elem, Submit(e) PROVE MutexInv'
  <2>1. mutex = e
    BY <1>6 DEF Submit, MutexInv
  <2>. QED
    BY <1>6, <2>1, <1>a, <1>b DEF Submit
<1>7. ASSUME NEW e \in Elem, SubmitThrow(e) PROVE MutexInv'
  <2>1. mutex = e
    BY <1>7 DEF SubmitThrow, MutexInv
  <2>. QED
    BY <1>7, <2>1, <1>b DEF SubmitThrow
<1>8. ASSUME NEW batch \in Batches, CallbackStart(batch) PROVE MutexInv'
  BY <1>8, <1>a DEF CallbackStart, CompletionCallback, InferenceFailed
<1>9. ASSUME CallbackStep PROVE MutexInv'
  BY <1>9, <1>a DEF CallbackStep, PushFront, CallbackReturn
<1>10. ASSUME UNCHANGED vars PROVE MutexInv'
  BY <1>10, <1>a DEF vars
<1>. QED
  BY <1>1, <1>2, <1>3, <1>4, <1>5, <1>6, <1>7, <1>8, <1>9, <1>10 DEF Next, Transforming

\* The frame at the front is not the one whose images are being submitted, when
\* it waits for nothing.
LEMMA FrontNotLast ==
    ASSUME IInv, LastInv, Complete, NEW e \in Elem, pc[e] = "submit"
    PROVE  Len(output_frames) > 1
<1>1. output_frames \in Seq(OutputFrame) /\ output_frames # <<>>
      /\ Head(output_frames).inference_count = 0
  BY DEF Complete, IInv, TypeOK
<1>2. 1 \in DOMAIN output_frames /\ Head(output_frames) = output_frames[1]
      /\ Len(output_frames) \in Nat /\ Len(output_frames) >= 1
  BY <1>1
<1>3. SUFFICES ASSUME Len(output_frames) = 1 PROVE FALSE
  BY <1>2
<1>4. output_frames[1].elem = e /\ output_frames[1].frame = arrived[e]
  BY <1>3 DEF LastInv
<1>5. todo[e] \in Seq(Image) /\ todo[e] # <<>>
  BY DEF IInv, TypeOK, FlowInv
<1>6. 1 \in DOMAIN todo[e] /\ todo[e][1] \in Image
      /\ todo[e][1].elem = e /\ todo[e][1].frame = arrived[e]
  <2>1. 1 \in DOMAIN todo[e] /\ todo[e][1] \in Image
    BY <1>5
  <2>. QED
    BY <2>1 DEF IInv, TodoInv
<1>7. todo[e][1] \in Owed(1)
  BY <1>4, <1>6 DEF Owed, Due, FrameOf
<1>8. IsFiniteSet(Owed(1)) /\ Cardinality(Owed(1)) \in Nat /\ Cardinality(Owed(1)) # 0
  BY <1>7, OwedFinite, FS_EmptySet
<1>9. 0 >= Cardinality(Owed(1))
  BY <1>1, <1>2 DEF IInv, CountInv
<1>. QED
  BY <1>8, <1>9

\* A frame joins the list behind the others, and only when no other thread is
\* submitting.
LEMMA LastStep == NoFailure /\ IInv /\ MutexInv /\ LastInv /\ [Next]_vars => LastInv'
<1>. SUFFICES ASSUME NoFailure, IInv, MutexInv, LastInv, [Next]_vars PROVE LastInv'
  OBVIOUS
<1>. USE DEF callVars, frameVars, endVars
<1>0. /\ pc \in [Elem -> {"idle", "enqueue", "submit", "pass", "error"}]
      /\ arrived \in [Elem -> 0..MaxFrames]
      /\ output_frames \in Seq(OutputFrame)
  BY DEF IInv, TypeOK
<1>a. ASSUME UNCHANGED <<output_frames, arrived>>, \A d \in Elem : pc'[d] = "submit" => pc[d] = "submit"
      PROVE  LastInv'
  BY <1>a DEF LastInv
<1>1. ASSUME NEW e \in Elem, Decide(e) PROVE LastInv'
  <2>1. ASSUME NEW d \in Elem, pc'[d] = "submit"
        PROVE  pc[d] = "submit" /\ arrived'[d] = arrived[d] /\ output_frames' = output_frames
    <3>1. d # e
      BY <1>0, <1>1, <2>1 DEF Decide
    <3>. QED
      BY <1>0, <1>1, <2>1, <3>1 DEF Decide
  <2>. QED
    BY <2>1 DEF LastInv
<1>2. ASSUME NEW e \in Elem, SinkEventEos(e) \/ Stop(e) \/ FlushModel(e) PROVE LastInv'
  BY <1>2, <1>a DEF SinkEventEos, Stop, FlushModel
<1>3. ASSUME NEW e \in Elem, Enqueue(e) PROVE LastInv'
  <2>1. mutex = e /\ pc[e] = "enqueue" /\ arrived' = arrived /\ arrived[e] >= 1
    BY <1>3 DEF Enqueue, MutexInv, IInv, FlowInv
  <2>2. ASSUME NEW d \in Elem, d # e PROVE pc'[d] # "submit"
    <3>1. pc[d] # "submit"
      BY <2>1, <2>2 DEF MutexInv
    <3>. QED
      BY <1>0, <1>3, <2>2, <3>1 DEF Enqueue
  <2>3. CASE inference_count(e) = 0
    <3>1. pc'[e] # "submit"
      BY <1>0, <1>3, <2>3 DEF Enqueue
    <3>. QED
      BY <2>2, <3>1 DEF LastInv
  <2>4. CASE inference_count(e) # 0
    <3>1. output_frames' = Append(output_frames,
             [elem |-> e, frame |-> arrived[e], inference_count |-> inference_count(e)])
      BY <1>3, <2>4 DEF Enqueue
    <3>2. Len(output_frames') = Len(output_frames) + 1 /\ Len(output_frames) \in Nat
      BY <1>0, <3>1
    <3>3. TypeOK
      BY DEF IInv
    <3>4. output_frames'[Len(output_frames')].elem = e
          /\ output_frames'[Len(output_frames')].frame = arrived'[e]
      BY <2>1, <3>1, <3>2, <3>3, JoinFacts
    <3>. QED
      BY <2>2, <3>2, <3>4 DEF LastInv
  <2>. QED
    BY <2>3, <2>4
<1>4. ASSUME NEW e \in Elem, PassThrough(e) \/ Submit(e) PROVE LastInv'
  <2>1. UNCHANGED <<output_frames, arrived>> /\ (pc' = pc \/ pc' = [pc EXCEPT ![e] = "idle"])
    BY <1>4 DEF PassThrough, Submit
  <2>. QED
    BY <1>0, <1>a, <2>1
<1>5. ASSUME NEW batch \in Batches, CompletionCallback(batch) PROVE LastInv'
  <2>1. /\ UNCHANGED <<pc, arrived>> /\ batch \subseteq Pending /\ callback = {}
        /\ output_frames' = UpdateOutputFrames(batch)
    BY <1>5 DEF CompletionCallback, Batches
  <2>2. /\ DOMAIN output_frames' = DOMAIN output_frames
        /\ output_frames' \in Seq(OutputFrame)
        /\ \A k \in DOMAIN output_frames :
              /\ output_frames'[k].elem = output_frames[k].elem
              /\ output_frames'[k].frame = output_frames[k].frame
    BY <2>1, UpdateFacts DEF IInv
  <2>3. Len(output_frames') = Len(output_frames)
    BY <1>0, <2>2
  <2>4. Len(output_frames) # 0 => Len(output_frames) \in DOMAIN output_frames
    BY <1>0
  <2>. QED
    BY <2>1, <2>2, <2>3, <2>4 DEF LastInv
<1>6. CASE PushFront
  <2>1. Complete /\ output_frames' = Tail(output_frames) /\ output_frames # <<>>
        /\ UNCHANGED <<pc, arrived>>
    BY <1>6 DEF PushFront, Complete
  <2>. SUFFICES ASSUME NEW e \in Elem, pc[e] = "submit"
                PROVE  LET n == Len(output_frames')
                       IN n # 0 /\ output_frames'[n] = output_frames[Len(output_frames)]
    BY <2>1 DEF LastInv
  <2>2. Len(output_frames) > 1
    BY <2>1, FrontNotLast
  <2>. QED
    BY <1>0, <2>1, <2>2
<1>7. CASE CallbackReturn
  BY <1>7, <1>a DEF CallbackReturn
<1>8. CASE UNCHANGED vars
  BY <1>8, <1>a DEF vars
<1>. QED
  BY <1>1, <1>2, <1>3, <1>4, <1>5, <1>6, <1>7, <1>8
  DEF NoFailure, Next, Transforming, FilterThrow, SubmitThrow, InferenceFailed,
      CallbackStart, CallbackStep

\* A callback leaves the loop of PushOutput when the front waits, and a frame
\* that waits for nothing does not join an empty list.
LEMMA HeadStep == NoFailure /\ IInv /\ HeadInv /\ [Next]_vars => HeadInv'
<1>. SUFFICES ASSUME NoFailure, IInv, HeadInv, [Next]_vars PROVE HeadInv'
  OBVIOUS
<1>. USE DEF callVars, frameVars, endVars
<1>0. output_frames \in Seq(OutputFrame)
  BY DEF IInv, TypeOK
<1>a. ASSUME UNCHANGED <<output_frames, callback>> PROVE HeadInv'
  BY <1>a DEF HeadInv
<1>1. ASSUME NEW e \in Elem, Decide(e) \/ SinkEventEos(e) \/ Stop(e) \/ FlushModel(e)
      PROVE  HeadInv'
  BY <1>1, <1>a DEF Decide, SinkEventEos, Stop, FlushModel
<1>2. ASSUME NEW e \in Elem, Enqueue(e) PROVE HeadInv'
  <2> DEFINE f == [elem |-> e, frame |-> arrived[e], inference_count |-> inference_count(e)]
  <2>1. callback = {} /\ callback' = callback /\ output_frames' \in {output_frames, Append(output_frames, f)}
    BY <1>2 DEF Enqueue
  <2>2. CASE output_frames' = output_frames
    BY <1>a, <2>1, <2>2
  <2>3. CASE output_frames' = Append(output_frames, f) /\ output_frames # <<>>
    <3>1. Head(output_frames') = Head(output_frames)
      <4>. HIDE DEF f
      <4>. QED
        BY <1>0, <2>3
    <3>. QED
      BY <2>1, <2>3, <3>1 DEF HeadInv
  <2>4. CASE output_frames' = Append(output_frames, f) /\ output_frames = <<>>
    <3>1. Head(output_frames') = f
      <4>. HIDE DEF f
      <4>. QED
        BY <2>4
    <3>2. inference_count(e) # 0
      <4>1. output_frames' # output_frames
        BY <2>4
      <4>. QED
        BY <1>2, <2>4, <4>1 DEF Enqueue
    <3>3. inference_count(e) \in Nat
      BY <1>2, ImagesFacts DEF Enqueue, IInv, FlowInv
    <3>. QED
      BY <3>1, <3>2, <3>3 DEF HeadInv
  <2>. QED
    BY <2>1, <2>2, <2>3, <2>4
<1>3. ASSUME NEW e \in Elem, PassThrough(e) \/ Submit(e) PROVE HeadInv'
  BY <1>3, <1>a DEF PassThrough, Submit
<1>4. ASSUME NEW batch \in Batches, CompletionCallback(batch) PROVE HeadInv'
  BY <1>4 DEF CompletionCallback, Batches, HeadInv
<1>5. CASE PushFront
  BY <1>5 DEF PushFront, HeadInv
<1>6. CASE CallbackReturn
  <2>1. output_frames' = output_frames /\ (output_frames # <<>> => Head(output_frames).inference_count # 0)
    BY <1>6 DEF CallbackReturn, Complete
  <2>2. output_frames # <<>> => Head(output_frames) \in OutputFrame
    BY <1>0
  <2>. QED
    BY <2>1, <2>2 DEF HeadInv, OutputFrame
<1>7. CASE UNCHANGED vars
  BY <1>7, <1>a DEF vars
<1>. QED
  BY <1>1, <1>2, <1>3, <1>4, <1>5, <1>6, <1>7
  DEF NoFailure, Next, Transforming, FilterThrow, SubmitThrow, InferenceFailed,
      CallbackStart, CallbackStep

\* A flush starts with the first model, and ends or goes on to the next when no
\* image of its model is pending.
LEMMA FlushMoves ==
    ASSUME IInv, NEW e \in Elem, SinkEventEos(e) \/ Stop(e) \/ FlushModel(e),
           NEW d \in Elem, flushing'[d] # 0
    PROVE  \/ flushing'[d] = flushing[d]
           \/ flushing'[d] = 1
           \/ /\ flushing[d] # 0 /\ flushing'[d] = flushing[d] + 1
              /\ \A i \in Pending : i.model # flushing[d]
<1>1. flushing \in [Elem -> {0} \cup Model]
  BY DEF IInv, TypeOK
<1>2. CASE SinkEventEos(e) \/ Stop(e)
  BY <1>1, <1>2 DEF SinkEventEos, Stop
<1>3. CASE FlushModel(e)
  BY <1>1, <1>3 DEF FlushModel
<1>. QED
  BY <1>2, <1>3

\* The models are numbered from 1 to n.
LEMMA ModelFacts ==
    /\ Cardinality(Model) \in Nat \ {0}
    /\ \A m : m \in Model <=> m \in Nat /\ m >= 1 /\ m <= Cardinality(Model)
    /\ \A i \in Image : i.model \in Model
<1>1. Cardinality(Model) \in Nat /\ Model = 1..Cardinality(Model) /\ Model # {}
  BY ModelAssumption, FS_CardinalityType
<1>2. \A i \in Image : i.model \in Model
  BY DEF Image
<1>. QED
  BY <1>1, <1>2

\* The images that are being submitted are of the last frame, whose element does
\* not flush.
LEMMA SubmittedLast ==
    ASSUME IInv, LastInv, NEW k \in DOMAIN output_frames,
           NEW d \in Elem, NEW j \in DOMAIN todo[d], FrameOf(todo[d][j], k)
    PROVE  k = Len(output_frames) /\ output_frames[k].elem = d /\ flushing[d] = 0
<1>1. output_frames \in Seq(OutputFrame) /\ todo[d] # <<>>
  BY DEF IInv, TypeOK
<1>2. pc[d] = "submit" /\ flushing[d] = 0
  BY <1>1 DEF IInv, FlowInv
<1>3. output_frames[k].elem = d /\ output_frames[k].frame = arrived[d]
  BY DEF FrameOf, IInv, TodoInv
<1>4. PICK n \in Nat : n = Len(output_frames)
  BY <1>1
<1>5. /\ n \in DOMAIN output_frames /\ k \in Nat /\ k <= n
      /\ output_frames[n].elem = d /\ output_frames[n].frame = arrived[d]
  BY <1>1, <1>2, <1>4 DEF LastInv
<1>6. output_frames[k] \in OutputFrame
  BY <1>1
<1>7. ~(k < n)
  BY <1>3, <1>5, <1>6 DEF IInv, QueueInv, OutputFrame
<1>. QED
  BY <1>2, <1>3, <1>4, <1>5, <1>7

\* An image that becomes pending is of the last frame, whose element does not
\* flush.
LEMMA FlushedStep ==
    NoFailure /\ IInv /\ LastInv /\ FlushedInv /\ [Next]_vars => FlushedInv'
<1>. SUFFICES ASSUME NoFailure, IInv, LastInv, FlushedInv, [Next]_vars PROVE FlushedInv'
  OBVIOUS
<1>. USE DEF callVars, frameVars, endVars
<1>0. /\ TypeOK /\ output_frames \in Seq(OutputFrame)
      /\ flushing \in [Elem -> {0} \cup Model]
      /\ given \in [Image -> {"new", "pending", "completed", "failed"}]
  BY DEF IInv, TypeOK
<1>a. ASSUME flushing' = flushing, Pending' \subseteq Pending,
             DOMAIN output_frames' = DOMAIN output_frames,
             \A k \in DOMAIN output_frames :
                 /\ output_frames'[k].elem = output_frames[k].elem
                 /\ output_frames'[k].frame = output_frames[k].frame
      PROVE  FlushedInv'
  <2>. SUFFICES ASSUME NEW e \in Elem, NEW l \in DOMAIN output_frames,
                       flushing[e] # 0, output_frames[l].elem = e,
                       NEW k \in DOMAIN output_frames, k <= l,
                       NEW i \in Pending, FrameOf(i, k)
                PROVE  i.model >= flushing[e]
    BY <1>a DEF FlushedInv, FrameOf
  <2>. QED
    BY DEF FlushedInv
<1>b. ASSUME UNCHANGED <<flushing, given, output_frames>> PROVE FlushedInv'
  BY <1>a, <1>b DEF Pending
<1>1. ASSUME NEW e \in Elem, Decide(e) PROVE FlushedInv'
  BY <1>1, <1>b DEF Decide
<1>2. ASSUME NEW e \in Elem, SinkEventEos(e) \/ Stop(e) \/ FlushModel(e) PROVE FlushedInv'
  <2>1. UNCHANGED <<given, output_frames>>
    BY <1>2 DEF SinkEventEos, Stop, FlushModel
  <2>2. Pending' = Pending /\ \A i, k : FrameOf(i, k)' <=> FrameOf(i, k)
    BY <2>1 DEF Pending, FrameOf
  <2>. SUFFICES ASSUME NEW d \in Elem, NEW l \in DOMAIN output_frames,
                       flushing'[d] # 0, output_frames[l].elem = d,
                       NEW k \in DOMAIN output_frames, k <= l,
                       NEW i \in Pending, FrameOf(i, k)
                PROVE  i.model >= flushing'[d]
    BY <2>1, <2>2 DEF FlushedInv
  <2>3. i.model \in Nat /\ i.model >= 1
    BY ModelFacts DEF Pending
  <2>4. flushing[d] # 0 => i.model >= flushing[d] /\ flushing[d] \in Nat
    BY <1>0, ModelFacts DEF FlushedInv
  <2>. QED
    BY <1>2, <2>3, <2>4, FlushMoves
<1>3. ASSUME NEW e \in Elem, Enqueue(e) PROVE FlushedInv'
  <2>1. /\ UNCHANGED <<given, flushing>> /\ flushing[e] = 0 /\ arrived[e] >= 1
        /\ \/ output_frames' = output_frames
           \/ output_frames' = Append(output_frames,
                  [elem |-> e, frame |-> arrived[e], inference_count |-> inference_count(e)])
    BY <1>3 DEF Enqueue, IInv, FlowInv
  <2>2. CASE output_frames' = output_frames
    BY <1>b, <2>1, <2>2
  <2>3. CASE output_frames' # output_frames
    <3>0. PICK m \in Nat : m = Len(output_frames) + 1
      BY <1>0
    <3>1. /\ DOMAIN output_frames' = DOMAIN output_frames \cup {m}
          /\ m \notin DOMAIN output_frames
          /\ \A k \in DOMAIN output_frames :
                output_frames'[k] = output_frames[k] /\ k \in Nat /\ k < m
          /\ output_frames'[m].elem = e
      BY <1>0, <2>1, <2>3, <3>0, JoinFacts
    <3>. SUFFICES ASSUME NEW d \in Elem, NEW l \in DOMAIN output_frames',
                         flushing'[d] # 0, output_frames'[l].elem = d,
                         NEW k \in DOMAIN output_frames', k <= l,
                         NEW i \in Pending', FrameOf(i, k)'
                  PROVE  i.model >= flushing'[d]
      BY DEF FlushedInv
    <3>2. l # m
      BY <2>1, <3>1
    <3>3. l \in DOMAIN output_frames /\ k \in DOMAIN output_frames
      BY <3>1, <3>2
    <3>4. FrameOf(i, k) /\ i \in Pending
      BY <2>1, <3>1, <3>3 DEF FrameOf, Pending
    <3>. QED
      BY <2>1, <3>1, <3>3, <3>4 DEF FlushedInv
  <2>. QED
    BY <2>2, <2>3
<1>4. ASSUME NEW e \in Elem, PassThrough(e) PROVE FlushedInv'
  BY <1>4, <1>b DEF PassThrough
<1>5. ASSUME NEW e \in Elem, Submit(e) PROVE FlushedInv'
  <2>1. /\ pc[e] = "submit" /\ flushing[e] = 0 /\ UNCHANGED <<flushing, output_frames>>
        /\ given' = [given EXCEPT ![Head(todo[e])] = "pending"]
        /\ todo[e] \in Seq(Image) /\ todo[e] # <<>>
    BY <1>5, <1>0 DEF Submit, IInv, FlowInv, TypeOK
  <2>2. 1 \in DOMAIN todo[e] /\ Head(todo[e]) = todo[e][1] /\ Head(todo[e]) \in Image
    BY <2>1, PopFacts
  <2>. SUFFICES ASSUME NEW d \in Elem, NEW l \in DOMAIN output_frames,
                       flushing[d] # 0, output_frames[l].elem = d,
                       NEW k \in DOMAIN output_frames, k <= l,
                       NEW i \in Pending', FrameOf(i, k)
                PROVE  i.model >= flushing[d]
    BY <2>1 DEF FlushedInv, FrameOf
  <2>6. CASE i = Head(todo[e])
    <3>1. k = Len(output_frames) /\ output_frames[k].elem = e
      BY <2>2, <2>6, SubmittedLast
    <3>2. l = k
      BY <1>0, <3>1
    <3>. QED
      BY <2>1, <3>1, <3>2
  <2>7. CASE i # Head(todo[e])
    <3>1. i \in Pending
      BY <1>0, <2>1, <2>7 DEF Pending
    <3>. QED
      BY <3>1 DEF FlushedInv
  <2>. QED
    BY <2>6, <2>7
<1>6. ASSUME NEW batch \in Batches, CompletionCallback(batch) PROVE FlushedInv'
  <2>1. /\ UNCHANGED <<flushing, given>> /\ batch \subseteq Pending /\ callback = {}
        /\ output_frames' = UpdateOutputFrames(batch)
    BY <1>6 DEF CompletionCallback, Batches
  <2>. QED
    BY <1>a, <2>1, UpdateFacts DEF IInv, Pending
<1>7. CASE PushFront
  <2>1. output_frames # <<>> /\ output_frames' = Tail(output_frames) /\ UNCHANGED <<given, flushing>>
    BY <1>7 DEF PushFront, Complete
  <2>2. \A k \in DOMAIN output_frames' :
           k + 1 \in DOMAIN output_frames /\ output_frames'[k] = output_frames[k + 1] /\ k \in Nat
    BY <1>0, <2>1, PopFacts
  <2>3. Pending' = Pending
    BY <2>1 DEF Pending
  <2>. SUFFICES ASSUME NEW d \in Elem, NEW l \in DOMAIN output_frames',
                       flushing[d] # 0, output_frames'[l].elem = d,
                       NEW k \in DOMAIN output_frames', k <= l,
                       NEW i \in Pending, FrameOf(i, k)'
                PROVE  i.model >= flushing[d]
    BY <2>1, <2>3 DEF FlushedInv
  <2>4. FrameOf(i, k + 1) /\ output_frames[l + 1].elem = d /\ k + 1 <= l + 1
    BY <2>2 DEF FrameOf
  <2>. QED
    BY <2>2, <2>4 DEF FlushedInv
<1>8. CASE CallbackReturn
  <2>1. UNCHANGED <<flushing, output_frames>> /\ Pending' \subseteq Pending
    BY <1>8 DEF CallbackReturn, Pending
  <2>. QED
    BY <1>a, <2>1
<1>9. CASE UNCHANGED vars
  BY <1>9, <1>b DEF vars
<1>. QED
  BY <1>1, <1>2, <1>3, <1>4, <1>5, <1>6, <1>7, <1>8, <1>9
  DEF NoFailure, Next, Transforming, FilterThrow, SubmitThrow, InferenceFailed,
      CallbackStart, CallbackStep

\* A callback for images of models that are flushed finds the front waiting, and
\* takes nothing from it: the loop stops there, or at a frame behind it.
LEMMA AheadStep ==
    NoFailure /\ IInv /\ HeadInv /\ FlushedInv /\ AheadInv /\ [Next]_vars => AheadInv'
<1>. SUFFICES ASSUME NoFailure, IInv, HeadInv, FlushedInv, AheadInv, [Next]_vars PROVE AheadInv'
  OBVIOUS
<1>. USE DEF callVars, frameVars, endVars
<1>0. /\ TypeOK /\ output_frames \in Seq(OutputFrame) /\ callback \subseteq Pending
      /\ flushing \in [Elem -> {0} \cup Model]
  BY DEF IInv, TypeOK
<1>a. ASSUME UNCHANGED <<flushing, callback, output_frames>> PROVE AheadInv'
  BY <1>a DEF AheadInv
<1>b. ASSUME callback' = {} PROVE AheadInv'
  BY <1>b DEF AheadInv
<1>1. ASSUME NEW e \in Elem, Decide(e) \/ PassThrough(e) \/ Submit(e) PROVE AheadInv'
  BY <1>1, <1>a DEF Decide, PassThrough, Submit
<1>2. ASSUME NEW e \in Elem, SinkEventEos(e) \/ Stop(e) \/ FlushModel(e) PROVE AheadInv'
  <2>1. UNCHANGED <<callback, output_frames>>
    BY <1>2 DEF SinkEventEos, Stop, FlushModel
  <2>. SUFFICES ASSUME NEW d \in Elem, NEW l \in DOMAIN output_frames,
                       output_frames[l].elem = d, callback # {},
                       \A i \in callback : i.model < flushing'[d]
                PROVE  \E k \in DOMAIN output_frames :
                          k <= l /\ output_frames[k].inference_count > 0
    BY <2>1 DEF AheadInv
  <2>2. \A i \in callback : i \in Pending /\ i.model \in Nat /\ i.model >= 1
    BY <1>0, ModelFacts DEF Pending
  <2>3. flushing'[d] # 0 /\ flushing'[d] # 1
    BY <2>2
  <2>4. flushing[d] \in Nat
    BY <1>0, ModelFacts
  <2>5. \A i \in callback : i.model < flushing[d]
    <3>1. CASE flushing'[d] = flushing[d]
      BY <3>1
    <3>2. CASE flushing'[d] = flushing[d] + 1 /\ \A i \in Pending : i.model # flushing[d]
      BY <2>2, <2>4, <3>2
    <3>. QED
      BY <1>2, <2>3, <3>1, <3>2, FlushMoves
  <2>. QED
    BY <2>5 DEF AheadInv
<1>3. ASSUME NEW e \in Elem, Enqueue(e) PROVE AheadInv'
  BY <1>3, <1>b DEF Enqueue
<1>4. ASSUME NEW batch \in Batches, CompletionCallback(batch) PROVE AheadInv'
  <2>1. /\ UNCHANGED <<flushing, given>> /\ batch \subseteq Pending /\ callback = {}
        /\ callback' = batch /\ batch # {} /\ output_frames' = UpdateOutputFrames(batch)
    BY <1>4 DEF CompletionCallback, Batches
  <2>2. /\ DOMAIN output_frames' = DOMAIN output_frames
        /\ \A k \in DOMAIN output_frames :
              /\ output_frames'[k].elem = output_frames[k].elem
              /\ output_frames'[k].inference_count =
                    output_frames[k].inference_count - Cardinality({i \in batch : FrameOf(i, k)})
    BY <2>1, UpdateFacts DEF IInv
  <2>. SUFFICES ASSUME NEW d \in Elem, NEW l \in DOMAIN output_frames,
                       output_frames[l].elem = d, \A i \in batch : i.model < flushing[d]
                PROVE  \E k \in DOMAIN output_frames :
                          k <= l /\ output_frames'[k].inference_count > 0
    BY <2>1, <2>2, ZenonT(30) DEF AheadInv
  <2>3. 1 \in DOMAIN output_frames /\ Head(output_frames) = output_frames[1] /\ 1 <= l
        /\ output_frames[1] \in OutputFrame /\ output_frames # <<>>
    BY <1>0
  <2>4. output_frames[1].inference_count > 0
    BY <2>1, <2>3 DEF HeadInv
  <2>5. {i \in batch : FrameOf(i, 1)} = {}
    <3>. SUFFICES ASSUME NEW i \in batch, FrameOf(i, 1) PROVE FALSE
      OBVIOUS
    <3>1. i \in Pending /\ i.model \in Nat /\ i.model >= 1 /\ i.model < flushing[d]
      BY <2>1, ModelFacts DEF Pending
    <3>2. flushing[d] \in Nat /\ flushing[d] # 0
      BY <1>0, <3>1, ModelFacts
    <3>3. i.model >= flushing[d]
      BY <2>3, <3>1, <3>2 DEF FlushedInv
    <3>. QED
      BY <3>1, <3>2, <3>3
  <2>6. output_frames'[1].inference_count > 0
    BY <2>2, <2>3, <2>4, <2>5, FS_EmptySet DEF OutputFrame
  <2>. QED
    BY <2>3, <2>6
<1>5. CASE PushFront
  <2>1. /\ output_frames # <<>> /\ output_frames' = Tail(output_frames)
        /\ UNCHANGED <<callback, flushing>> /\ Head(output_frames).inference_count = 0
    BY <1>5 DEF PushFront, Complete
  <2>2. /\ Head(output_frames) = output_frames[1]
        /\ \A k \in DOMAIN output_frames' :
              k + 1 \in DOMAIN output_frames /\ output_frames'[k] = output_frames[k + 1] /\ k \in Nat
        /\ \A k \in DOMAIN output_frames : k \in Nat
              /\ (k # 1 => k - 1 \in DOMAIN output_frames' /\ output_frames'[k - 1] = output_frames[k])
    BY <1>0, <2>1, PopFacts
  <2>. SUFFICES ASSUME NEW d \in Elem, NEW l \in DOMAIN output_frames',
                       output_frames'[l].elem = d, callback # {},
                       \A i \in callback : i.model < flushing[d]
                PROVE  \E k \in DOMAIN output_frames' :
                          k <= l /\ output_frames'[k].inference_count > 0
    BY <2>1 DEF AheadInv
  <2>3. l + 1 \in DOMAIN output_frames /\ output_frames[l + 1].elem = d
    BY <2>2
  <2>4. PICK k \in DOMAIN output_frames : k <= l + 1 /\ output_frames[k].inference_count > 0
    BY <2>3 DEF AheadInv
  <2>5. k # 1
    BY <2>1, <2>2, <2>4
  <2>6. k - 1 \in DOMAIN output_frames' /\ output_frames'[k - 1].inference_count > 0 /\ k - 1 <= l
    BY <2>2, <2>4, <2>5
  <2>. QED
    BY <2>6
<1>6. CASE CallbackReturn
  BY <1>6, <1>b DEF CallbackReturn
<1>7. CASE UNCHANGED vars
  BY <1>7, <1>a DEF vars
<1>. QED
  BY <1>1, <1>2, <1>3, <1>4, <1>5, <1>6, <1>7
  DEF NoFailure, Next, Transforming, FilterThrow, SubmitThrow, InferenceFailed,
      CallbackStart, CallbackStep

\* A frame whose count is not zero has an image that is pending or still to be
\* submitted.
LEMMA WaitsFor ==
    ASSUME IInv, ExactInv, QuietInv, NEW k \in DOMAIN output_frames,
           output_frames[k].inference_count > 0
    PROVE  \/ \E i \in Pending : FrameOf(i, k)
           \/ \E d \in Elem : \E j \in DOMAIN todo[d] : FrameOf(todo[d][j], k)
<1>1. output_frames[k] \in OutputFrame
  BY DEF IInv, TypeOK
<1>2. ~Thrown(k)
  BY <1>1 DEF Thrown, QuietInv, OutputFrame
<1>3. Cardinality(Awaited(k)) # 0
  BY <1>1, <1>2 DEF ExactInv, ExactAt, OutputFrame
<1>4. PICK i \in Image : i \in Awaited(k)
  <2>1. Awaited(k) # {}
    BY <1>3, FS_EmptySet
  <2>. QED
    BY <2>1 DEF Awaited
<1>. QED
  BY <1>4 DEF Awaited, QuietInv

\* When the flush of the last model returns no frame of the element is left.
LEMMA FlushedLast ==
    ASSUME IInv, ExactInv, EndInv, NEW e \in Elem, flushing[e] # 0,
           \A i \in Pending : i.model # flushing[e], flushing[e] + 1 \notin Model,
           NEW l \in DOMAIN output_frames
    PROVE  output_frames[l].elem # e
<1>. SUFFICES ASSUME output_frames[l].elem = e PROVE FALSE
  OBVIOUS
<1>0. /\ output_frames \in Seq(OutputFrame) /\ callback \subseteq Pending
      /\ flushing \in [Elem -> {0} \cup Model]
  BY DEF IInv, TypeOK
<1>1. \A i \in Pending : i.model < flushing[e]
  <2>1. flushing[e] = Cardinality(Model)
    BY <1>0, ModelFacts
  <2>. QED
    BY <2>1, ModelFacts DEF Pending
<1>2. PICK k \in DOMAIN output_frames : k <= l /\ output_frames[k].inference_count > 0
  <2>1. CASE callback = {}
    <3>1. 1 \in DOMAIN output_frames /\ Head(output_frames) = output_frames[1] /\ 1 <= l
          /\ output_frames # <<>>
      BY <1>0
    <3>. QED
      BY <2>1, <3>1 DEF EndInv, HeadInv
  <2>2. CASE callback # {}
    BY <1>0, <1>1, <2>2 DEF EndInv, AheadInv
  <2>. QED
    BY <2>1, <2>2
<1>3. ASSUME NEW i \in Pending, FrameOf(i, k) PROVE FALSE
  <2>1. i.model >= flushing[e]
    BY <1>2, <1>3 DEF EndInv, FlushedInv
  <2>2. flushing[e] \in Nat /\ i.model \in Nat
    BY <1>0, ModelFacts DEF Pending
  <2>. QED
    BY <1>1, <2>1, <2>2
<1>4. ASSUME NEW d \in Elem, NEW j \in DOMAIN todo[d], FrameOf(todo[d][j], k) PROVE FALSE
  <2>1. k = Len(output_frames) /\ output_frames[k].elem = d /\ flushing[d] = 0
    BY <1>4, SubmittedLast DEF EndInv
  <2>2. l = k
    BY <1>0, <1>2, <2>1
  <2>. QED
    BY <2>1, <2>2
<1>. QED
  BY <1>2, <1>3, <1>4, WaitsFor DEF EndInv

\* What an element has delivered when none of its frames is in the list.
LEMMA DeliveredAll ==
    ASSUME IInv, NEW e \in Elem, phase[e] # "stopped",
           \A k \in DOMAIN output_frames : output_frames[k].elem # e
    PROVE  Len(delivered[e]) >= Sure(e) /\ Len(delivered[e]) <= Joined(e)
<1>1. OrderOf(e) /\ Len(delivered[e]) \in Nat /\ arrived[e] \in Nat
  BY DEF IInv, OrderInv, TypeOK
<1>2. Sure(e) \in Int /\ Sure(e) <= arrived[e]
  BY <1>1 DEF Sure
<1>3. \A n \in 1..Sure(e) : ~(n > Len(delivered[e]))
  BY <1>1 DEF OrderOf
<1>4. Len(delivered[e]) <= Joined(e)
  BY <1>1 DEF OrderOf
<1>. HIDE DEF Sure, Joined
<1>5. ASSUME Len(delivered[e]) < Sure(e) PROVE FALSE
  <2>1. Sure(e) \in 1..Sure(e)
    BY <1>1, <1>2, <1>5
  <2>. QED
    BY <1>1, <1>2, <1>3, <1>5, <2>1
<1>. QED
  BY <1>1, <1>2, <1>4, <1>5

\* The frame at the front has arrived, and its element has not forwarded the end
\* of its stream.
LEMMA FrontStreams ==
    ASSUME IInv, AllPushedAtEos, Complete, phase[Head(output_frames).elem] # "stopped"
    PROVE  LET f == Head(output_frames)
           IN /\ f.elem \in Elem /\ phase[f.elem] = "streaming"
              /\ f.frame = Len(delivered[f.elem]) + 1
              /\ Len(delivered[f.elem]) < arrived[f.elem]
<1> DEFINE f == Head(output_frames)
<1>1. f.elem \in Elem /\ f.frame = Len(delivered[f.elem]) + 1
  BY FrontIsNext DEF IInv
<1>2. 1 \in DOMAIN output_frames /\ f = output_frames[1]
  BY PopFacts DEF Complete, IInv, TypeOK
<1>3. PICK e \in Elem : e = f.elem
  BY <1>1
<1>4. /\ arrived[e] \in Nat /\ Len(delivered[e]) \in Nat
      /\ phase[e] \in {"streaming", "eos", "stopped"}
  BY DEF IInv, TypeOK
<1>5. f.frame <= Joined(e) /\ Joined(e) <= arrived[e] /\ Joined(e) \in Int
  BY <1>2, <1>3, <1>4 DEF IInv, QueueInv, Joined
<1>. HIDE DEF f, Joined
<1>6. Len(delivered[e]) < arrived[e]
  BY <1>1, <1>3, <1>4, <1>5
<1>7. phase[e] # "eos"
  BY <1>4, <1>6 DEF AllPushedAtEos
<1>8. phase[e] # "stopped"
  BY <1>3 DEF f
<1>. QED
  BY <1>1, <1>3, <1>4, <1>6, <1>7, <1>8 DEF f

\* Each step is one that FrameOrder allows, or none, and an element that forwards
\* the end of its stream has delivered all of its frames.
LEMMA OutputStep ==
    ASSUME NoFailure, IInv, ExactInv, EndInv, [Next]_vars
    PROVE  [Output!Next]_(Output!vars) /\ AllPushedAtEos'
<1>. USE DEF callVars, frameVars, endVars
<1>0. /\ arrived \in [Elem -> 0..MaxFrames] /\ delivered \in [Elem -> Seq(1..MaxFrames)]
      /\ phase \in [Elem -> {"streaming", "eos", "stopped"}]
  BY DEF IInv, TypeOK
<1>p. \A e \in Elem : phase[e] = "eos" => Len(delivered[e]) = arrived[e]
  BY DEF EndInv, AllPushedAtEos
<1>a. ASSUME UNCHANGED <<arrived, delivered, phase>>
      PROVE  [Output!Next]_(Output!vars) /\ AllPushedAtEos'
  BY <1>a, <1>p DEF Output!vars, AllPushedAtEos
<1>b. ASSUME NEW e \in Elem, Output!Deliver(e)
      PROVE  [Output!Next]_(Output!vars) /\ AllPushedAtEos'
  <2>1. /\ phase[e] = "streaming" /\ UNCHANGED <<arrived, phase>>
        /\ \A d \in Elem : d # e => delivered'[d] = delivered[d]
    BY <1>b, <1>0 DEF Output!Deliver
  <2>2. AllPushedAtEos'
    BY <1>p, <2>1 DEF AllPushedAtEos
  <2>. QED
    BY <1>b, <2>2 DEF Output!Next
<1>1. ASSUME NEW e \in Elem, Decide(e) PROVE [Output!Next]_(Output!vars) /\ AllPushedAtEos'
  <2>1. Output!Arrive(e)
    BY <1>1 DEF Decide, Output!Arrive
  <2>2. AllPushedAtEos'
    BY <1>0, <1>p, <2>1 DEF AllPushedAtEos, Output!Arrive
  <2>. QED
    BY <2>1, <2>2 DEF Output!Next
<1>2. ASSUME NEW e \in Elem, SinkEventEos(e) PROVE [Output!Next]_(Output!vars) /\ AllPushedAtEos'
  BY <1>2, <1>a DEF SinkEventEos
<1>3. ASSUME NEW e \in Elem, Stop(e) PROVE [Output!Next]_(Output!vars) /\ AllPushedAtEos'
  <2>1. Output!Stop(e)
    BY <1>3 DEF Stop, Output!Stop
  <2>2. AllPushedAtEos'
    BY <1>0, <1>p, <2>1 DEF AllPushedAtEos, Output!Stop
  <2>. QED
    BY <2>1, <2>2 DEF Output!Next
<1>4. ASSUME NEW e \in Elem, Enqueue(e) \/ Submit(e)
      PROVE  [Output!Next]_(Output!vars) /\ AllPushedAtEos'
  BY <1>4, <1>a DEF Enqueue, Submit
<1>5. ASSUME NEW e \in Elem, PassThrough(e) PROVE [Output!Next]_(Output!vars) /\ AllPushedAtEos'
  <2>1. pc[e] = "pass" /\ phase[e] = "streaming"
        /\ \A k \in DOMAIN output_frames : output_frames[k].elem # e
    BY <1>5 DEF PassThrough, IInv, FlowInv, OrderInv, OrderOf
  <2>2. Sure(e) = arrived[e] - 1 /\ Joined(e) = arrived[e] - 1
    BY <2>1 DEF Sure, Joined
  <2>3. arrived[e] = Len(delivered[e]) + 1
    <3>1. Len(delivered[e]) >= arrived[e] - 1 /\ Len(delivered[e]) <= arrived[e] - 1
      BY <2>1, <2>2, DeliveredAll
    <3>2. Len(delivered[e]) \in Nat /\ arrived[e] \in Nat
      BY <1>0
    <3>. QED
      BY <3>1, <3>2
  <2>4. Len(delivered[e]) < arrived[e]
    BY <1>0, <2>3
  <2>5. Output!Deliver(e)
    BY <1>5, <2>1, <2>3, <2>4 DEF PassThrough, Output!Deliver
  <2>. QED
    BY <1>b, <2>5
<1>6. ASSUME NEW batch \in Batches, CompletionCallback(batch)
      PROVE  [Output!Next]_(Output!vars) /\ AllPushedAtEos'
  BY <1>6, <1>a DEF CompletionCallback
<1>7. CASE PushFront
  <2> DEFINE f == Head(output_frames)
  <2>1. Complete /\ UNCHANGED <<phase, arrived>>
        /\ delivered' = IF phase[f.elem] = "stopped" THEN delivered
                        ELSE [delivered EXCEPT ![f.elem] = Append(@, f.frame)]
    BY <1>7 DEF PushFront
  <2>2. CASE phase[f.elem] = "stopped"
    BY <1>a, <2>1, <2>2
  <2>3. CASE phase[f.elem] # "stopped"
    <3>1. /\ f.elem \in Elem /\ phase[f.elem] = "streaming"
          /\ f.frame = Len(delivered[f.elem]) + 1
          /\ Len(delivered[f.elem]) < arrived[f.elem]
      BY <2>1, <2>3, FrontStreams DEF EndInv
    <3>2. Output!Deliver(f.elem)
      BY <2>1, <2>3, <3>1 DEF Output!Deliver
    <3>. HIDE DEF f
    <3>. QED
      BY <1>b, <3>1, <3>2
  <2>. QED
    BY <2>2, <2>3
<1>8. CASE CallbackReturn
  BY <1>8, <1>a DEF CallbackReturn
<1>9. ASSUME NEW e \in Elem, FlushModel(e) PROVE [Output!Next]_(Output!vars) /\ AllPushedAtEos'
  <2>0. UNCHANGED <<arrived, delivered>>
    BY <1>9 DEF FlushModel
  <2>1. CASE flushing[e] + 1 \in Model
    BY <1>9, <1>a, <2>1 DEF FlushModel
  <2>2. CASE flushing[e] + 1 \notin Model /\ phase[e] = "stopped"
    <3>1. phase' = phase
      BY <1>0, <1>9, <2>2 DEF FlushModel
    <3>. QED
      BY <1>a, <2>0, <3>1
  <2>3. CASE flushing[e] + 1 \notin Model /\ phase[e] # "stopped"
    <3>1. phase' = [phase EXCEPT ![e] = "eos"]
      BY <1>9, <2>3 DEF FlushModel
    <3>2. \A k \in DOMAIN output_frames : output_frames[k].elem # e
      BY <1>9, <2>3, FlushedLast DEF FlushModel
    <3>3. Sure(e) = arrived[e] /\ Joined(e) = arrived[e]
      <4>1. pc[e] \in {"idle", "submit"}
        BY <1>9 DEF FlushModel, IInv, TypeOK, FlowInv, EndInv, QuietInv
      <4>. QED
        BY <4>1 DEF Sure, Joined
    <3>4. Len(delivered[e]) = arrived[e]
      <4>1. Len(delivered[e]) >= arrived[e] /\ Len(delivered[e]) <= arrived[e]
        BY <2>3, <3>2, <3>3, DeliveredAll
      <4>. QED
        BY <1>0, <4>1
    <3>5. AllPushedAtEos'
      BY <1>0, <1>p, <2>0, <3>1, <3>4 DEF AllPushedAtEos
    <3>6. phase[e] = "streaming" => Output!EndOfStream(e)
      BY <2>0, <3>1, <3>4 DEF Output!EndOfStream
    <3>7. phase[e] # "streaming" => phase' = phase
      BY <1>0, <2>3, <3>1
    <3>. QED
      BY <1>a, <2>0, <3>5, <3>6, <3>7 DEF Output!Next
  <2>. QED
    BY <2>1, <2>2, <2>3
<1>10. CASE UNCHANGED vars
  BY <1>10, <1>a DEF vars
<1>. QED
  BY <1>1, <1>2, <1>3, <1>4, <1>5, <1>6, <1>7, <1>8, <1>9, <1>10
  DEF NoFailure, Next, Transforming, FilterThrow, SubmitThrow, InferenceFailed,
      CallbackStart, CallbackStep

\* Nothing has arrived, nothing waits and nobody holds the mutex at the start.
LEMMA InitEnd == Init => EndInv
<1>. SUFFICES ASSUME Init PROVE EndInv
  OBVIOUS
<1>1. DOMAIN output_frames = {} /\ output_frames = <<>>
  BY DEF Init
<1>2. QuietInv /\ MutexInv /\ LastInv /\ HeadInv /\ AllPushedAtEos
  BY <1>1 DEF Init, QuietInv, MutexInv, LastInv, HeadInv, AllPushedAtEos
<1>3. FlushedInv /\ AheadInv
  BY <1>1 DEF FlushedInv, AheadInv
<1>. QED
  BY <1>2, <1>3 DEF EndInv

\* Without failures the threads, the callbacks and the flush keep all of the above.
LEMMA EndInvariant == ASSUME NoFailure PROVE Spec => [](IInv /\ ExactInv /\ EndInv)
<1>1. Init => ExactInv
  BY InitExact
<1>2. IInv /\ ExactInv /\ EndInv /\ [Next]_vars => ExactInv' /\ EndInv'
  BY ExactStep, QuietStep, MutexStep, LastStep, HeadStep, FlushedStep, AheadStep, OutputStep
  DEF EndInv
<1>. QED
  BY <1>1, <1>2, InitEnd, ListInvariant, PTL DEF Spec

\* Without failures all frames of a stream have been pushed when its end is
\* forwarded: no flush returns while one of them waits.
THEOREM PushedAtEos == ASSUME NoFailure PROVE Spec => []AllPushedAtEos
<1>1. EndInv => AllPushedAtEos
  BY DEF EndInv
<1>. QED
  BY <1>1, EndInvariant, PTL

\* Without failures the elements keep the promise of FrameOrder: every frame, in
\* order, once, then the end of the stream, and nothing after they are stopped.
THEOREM KeepsFrameOrder == ASSUME NoFailure PROVE Spec => ImplementsFrameOrder
<1>1. Init => Output!Init
  BY DEF Init, Output!Init
<1>2. IInv /\ ExactInv /\ EndInv /\ [Next]_vars => [Output!Next]_(Output!vars)
  BY OutputStep
<1>. QED
  BY <1>1, <1>2, EndInvariant, PTL DEF Spec, ImplementsFrameOrder, Output!Spec

-----------------------------------------------------------------------------
(* The interface the elements use *)

\* A callback works on one batch: images of one model, no more than batch_size.
BatchInv == callback # {} => /\ Cardinality(callback) <= batch_size
                             /\ \A i, j \in callback : i.model = j.model

\* The callback keeps its batch until it returns.
LEMMA BatchStep == BatchInv /\ [Next]_vars => BatchInv'
<1>. SUFFICES ASSUME BatchInv, [Next]_vars PROVE BatchInv'
  OBVIOUS
<1>. USE DEF callVars, frameVars, endVars
<1>1. \/ callback' = callback
      \/ callback' = {}
      \/ \E batch \in Batches : callback' = batch
  <2>1. ASSUME NEW e \in Elem, Decide(e) \/ SinkEventEos(e) \/ Stop(e) \/ FlushModel(e)
        PROVE  callback' = callback
    BY <2>1 DEF Decide, SinkEventEos, Stop, FlushModel
  <2>2. ASSUME NEW e \in Elem, Transforming(e) PROVE callback' = callback
    BY <2>2 DEF Transforming, FilterThrow, Enqueue, PassThrough, Submit, SubmitThrow
  <2>3. ASSUME NEW batch \in Batches, CallbackStart(batch)
        PROVE  callback' = callback \/ callback' = batch
    BY <2>3 DEF CallbackStart, CompletionCallback, InferenceFailed
  <2>4. ASSUME CallbackStep PROVE callback' = callback \/ callback' = {}
    BY <2>4 DEF CallbackStep, PushFront, CallbackReturn
  <2>. QED
    BY <2>1, <2>2, <2>3, <2>4 DEF Next, vars
<1>2. \A batch \in Batches : /\ Cardinality(batch) <= batch_size
                             /\ \A i, j \in batch : i.model = j.model
  BY DEF Batches
<1>. QED
  BY <1>1, <1>2 DEF BatchInv

\* The images of the model, and the elements in its Flush, are as they were.
LEMMA BackendRests ==
    ASSUME NEW m, \A i \in Image : i.model = m => given'[i] = given[i],
           \A e \in Elem : flushing'[e] = m <=> flushing[e] = m
    PROVE  UNCHANGED Backend(m)!vars
BY DEF Backend!vars

\* An image is submitted to its model.
LEMMA BackendSubmits ==
    ASSUME NEW i \in Image, given[i] = "new", given \in [Image -> Backend(i.model)!Outcome],
           given' = [given EXCEPT ![i] = "pending"], flushing' = flushing
    PROVE  Backend(i.model)!Next
<1>1. Backend(i.model)!SubmitImage(i)
  BY DEF Backend!SubmitImage
<1>. QED
  BY <1>1 DEF Backend!Next

\* The instances count as this module does.
LEMMA SameCardinality == \A m, S : Backend(m)!Cardinality(S) = Cardinality(S)
BY DEF Backend!Cardinality, Cardinality

\* A batch is given back by its model.
LEMMA BackendGivesBack ==
    ASSUME NEW m, NEW batch, batch # {}, Cardinality(batch) <= batch_size,
           batch \subseteq Pending, \A i \in batch : i.model = m,
           NEW outcome \in {"completed", "failed"},
           given' = [i \in Image |-> IF i \in batch THEN outcome ELSE given[i]],
           flushing' = flushing
    PROVE  Backend(m)!Next
<1>1. batch \in SUBSET {i \in Image : i.model = m}
  BY DEF Pending
<1>2. Backend(m)!GiveBack(batch, outcome)
  <2> DEFINE I == {i \in Image : i.model = m}
  <2>1. batch \subseteq {i \in I : [j \in I |-> given[j]][i] = "pending"}
    BY <1>1 DEF Pending
  <2>2. [i \in I |-> given'[i]]
          = [i \in I |-> IF i \in batch THEN outcome ELSE [j \in I |-> given[j]][i]]
    OBVIOUS
  <2>3. {e \in Elem : flushing'[e] = m} = {e \in Elem : flushing[e] = m}
    OBVIOUS
  <2>. QED
    BY <2>1, <2>2, <2>3, SameCardinality DEF Backend!GiveBack, Backend!Pending
<1>. QED
  BY <1>1, <1>2 DEF Backend!Next

\* An element calls Flush of the model, or Flush of the model returns.
LEMMA BackendFlushes ==
    ASSUME NEW e \in Elem, NEW m,
           given' = given, \A d \in Elem : d # e => flushing'[d] = flushing[d],
           \/ flushing[e] # m /\ flushing'[e] = m
           \/ flushing[e] = m /\ flushing'[e] # m /\ \A i \in Pending : i.model # m
    PROVE  Backend(m)!Next
<1>1. CASE flushing[e] # m /\ flushing'[e] = m
  <2>1. Backend(m)!FlushCall(e)
    BY <1>1 DEF Backend!FlushCall
  <2>. QED
    BY <2>1 DEF Backend!Next
<1>2. CASE flushing[e] = m /\ flushing'[e] # m /\ \A i \in Pending : i.model # m
  <2>1. Backend(m)!FlushReturn(e)
    BY <1>2 DEF Backend!FlushReturn, Backend!Pending, Pending
  <2>. QED
    BY <2>1 DEF Backend!Next
<1>. QED
  BY <1>1, <1>2

\* Each step is one that the interface of each model allows, or none.
LEMMA InterfaceStep ==
    ASSUME IInv, BatchInv, [Next]_vars, NEW m \in Model
    PROVE  [Backend(m)!Next]_(Backend(m)!vars)
<1>. USE DEF callVars, frameVars, endVars
<1>0. /\ given \in [Image -> {"new", "pending", "completed", "failed"}]
      /\ flushing \in [Elem -> {0} \cup Model] /\ callback \subseteq Pending
  BY DEF IInv, TypeOK
<1>1. CASE UNCHANGED <<given, flushing>>
  BY <1>1, BackendRests
<1>2. ASSUME NEW e \in Elem, SinkEventEos(e) \/ Stop(e) \/ FlushModel(e)
      PROVE  [Backend(m)!Next]_(Backend(m)!vars)
  <2>1. /\ given' = given /\ \A d \in Elem : d # e => flushing'[d] = flushing[d]
        /\ flushing[e] # 0 => \A i \in Pending : i.model # flushing[e]
    BY <1>0, <1>2 DEF SinkEventEos, Stop, FlushModel, Ready
  <2>2. m # 0
    BY ModelFacts
  <2>3. CASE flushing[e] = m /\ flushing'[e] # m
    BY <2>1, <2>2, <2>3, BackendFlushes
  <2>4. CASE flushing[e] # m /\ flushing'[e] = m
    BY <2>1, <2>4, BackendFlushes
  <2>5. CASE flushing[e] = m <=> flushing'[e] = m
    BY <2>1, <2>5, BackendRests
  <2>. QED
    BY <2>3, <2>4, <2>5
<1>3. ASSUME NEW e \in Elem, Submit(e) \/ SubmitThrow(e), given' # given
      PROVE  [Backend(m)!Next]_(Backend(m)!vars)
  <2>1. todo[e] \in Seq(Image) /\ todo[e] # <<>>
    BY <1>3 DEF Submit, SubmitThrow, IInv, TypeOK, FlowInv
  <2>2. PICK i \in Image : i = Head(todo[e])
    BY <2>1, PopFacts
  <2>3. given[i] = "new"
    BY <2>1, <2>2, PopFacts DEF IInv, TodoInv
  <2>4. given' = [given EXCEPT ![i] = "pending"] /\ flushing' = flushing
    BY <1>3, <2>2 DEF Submit, SubmitThrow
  <2>5. CASE m = i.model
    BY <1>0, <2>3, <2>4, <2>5, BackendSubmits DEF Backend!Outcome
  <2>6. CASE m # i.model
    BY <1>0, <2>4, <2>6, BackendRests
  <2>. QED
    BY <2>5, <2>6
<1>4. ASSUME NEW batch \in SUBSET Pending, batch # {}, Cardinality(batch) <= batch_size,
             \A i, j \in batch : i.model = j.model, NEW outcome \in {"completed", "failed"},
             given' = [i \in Image |-> IF i \in batch THEN outcome ELSE given[i]],
             flushing' = flushing
      PROVE  [Backend(m)!Next]_(Backend(m)!vars)
  <2>1. CASE \A i \in batch : i.model = m
    BY <1>4, <2>1, BackendGivesBack
  <2>2. CASE \A i \in batch : i.model # m
    BY <1>4, <2>2, BackendRests
  <2>. QED
    BY <1>4, <2>1, <2>2
<1>5. ASSUME NEW batch \in Batches, InferenceFailed(batch)
      PROVE  [Backend(m)!Next]_(Backend(m)!vars)
  BY <1>4, <1>5 DEF InferenceFailed, Batches
<1>6. ASSUME CallbackReturn PROVE [Backend(m)!Next]_(Backend(m)!vars)
  BY <1>0, <1>4, <1>6 DEF CallbackReturn, BatchInv
<1>7. ASSUME NEW e \in Elem, Decide(e) \/ FilterThrow(e) \/ Enqueue(e) \/ PassThrough(e)
      PROVE  UNCHANGED <<given, flushing>>
  BY <1>7 DEF Decide, FilterThrow, Enqueue, PassThrough
<1>8. ASSUME NEW e \in Elem, Submit(e) \/ SubmitThrow(e) PROVE UNCHANGED flushing
  BY <1>8 DEF Submit, SubmitThrow
<1>9. ASSUME NEW batch \in Batches, CompletionCallback(batch) PROVE UNCHANGED <<given, flushing>>
  BY <1>9 DEF CompletionCallback
<1>10. ASSUME PushFront PROVE UNCHANGED <<given, flushing>>
  BY <1>10 DEF PushFront
<1>11. ASSUME UNCHANGED vars PROVE UNCHANGED <<given, flushing>>
  BY <1>11 DEF vars
<1>. QED
  BY <1>1, <1>2, <1>3, <1>5, <1>6, <1>7, <1>8, <1>9, <1>10, <1>11
  DEF Next, Transforming, CallbackStart, CallbackStep

\* The elements use each model's backend as the interface ImageInference allows,
\* and what this module lets a backend do is what the interface promises.
THEOREM KeepsInterface == Spec => UsesInterface
<1>1. Init => \A m \in Model : Backend(m)!Init
  <2>. SUFFICES ASSUME Init, NEW m \in Model PROVE Backend(m)!Init
    OBVIOUS
  <2>1. [i \in {j \in Image : j.model = m} |-> given[i]] = [i \in {j \in Image : j.model = m} |-> "new"]
    BY DEF Init
  <2>2. {e \in Elem : flushing[e] = m} = {}
    BY ModelFacts DEF Init
  <2>. QED
    BY <2>1, <2>2 DEF Backend!Init
<1>2. Init => BatchInv
  BY DEF Init, BatchInv
<1>3. IInv /\ BatchInv /\ [Next]_vars =>
          BatchInv' /\ [\A m \in Model : [Backend(m)!Next]_(Backend(m)!vars)]_vars
  BY BatchStep, InterfaceStep
<1>. QED
  BY <1>1, <1>2, <1>3, ListInvariant, PTL DEF Spec, UsesInterface
=============================================================================
