------------------------- MODULE MetaAggregate_proofs -------------------------
(***************************************************************************)
(* That the frames of the first pad leave in their order, each with the    *)
(* metadata the other branches have for it (FramesMerged), for every       *)
(* number of pads, frames, deadlines and negotiations.                     *)
(***************************************************************************)
EXTENDS MetaAggregate, SequenceTheorems, TLAPS

\* The frames of a pad come, and wait, in their order; each is later than those
\* taken before it; and a frame has been taken when it leaves the element.
OrderInv ==
    durations =>
        /\ \A p \in Pad :
              /\ \A i, j \in DOMAIN queue[p] : i < j => queue[p][i] < queue[p][j]
              /\ \A i \in DOMAIN queue[p] : end_time[p] <= queue[p][i]
              /\ end_time[p] \in {NONE, 0} \/ end_time[p] - 1 \in came[p]
        /\ \A j, k \in DOMAIN output : j < k => output[j].frame < output[k].frame
        /\ \A k \in DOMAIN output : output[k].frame < end_time[First]

\* A call of aggregate finds a buffer on each pad that has not ended; and it has
\* negotiated, if there is anything to negotiate.  What waits on a pad has come.
CallInv ==
    /\ \A p \in Pad : \A i \in DOMAIN queue[p] : queue[p][i] \in came[p]
    /\ call # "none" => finished = "ok"
    /\ call = "timeout" => timeouts # 0
    /\ call = "data" => \A p \in Pad : queue[p] # <<>> \/ p \in ended
    /\ call = "data" /\ needs_reconfigure /\ reconfigures = 0 =>
           \A p \in Pad : queue[p] = <<>> /\ p \in ended

Undisturbed == fps # 0 /\ durations /\ timeouts = 0 /\ reconfigures = 0 /\ finished # "error"

\* The pads are in step: those that have not ended have got as far as the output.
StepInv ==
    Undisturbed =>
        /\ IF position = NONE THEN nframes = 0 ELSE position = nframes
        /\ \A p \in Pad : p \in ended \/ nframes = 0 \/ \E g \in came[p] : g >= nframes - 1
        /\ \A p \in Pad : \A i \in DOMAIN queue[p] : queue[p][i] >= nframes
        /\ \A p \in Pad : \A f \in came[p] :
              f >= nframes => \E i \in DOMAIN queue[p] : queue[p][i] = f

\* The frames before this output frame have left, each with what the other pads had for it.
Merged(f) == \E k \in DOMAIN output :
                /\ output[k].frame = f
                /\ output[k].metas = {<<p, f>> : p \in {q \in Pad \ {First} : f \in came[q]}}
MergeInv == Undisturbed => \A f \in came[First] : f < nframes => Merged(f)

IInv == TypeOK /\ OrderInv /\ CallInv /\ StepInv /\ MergeInv
-----------------------------------------------------------------------------
(* The queues *)

\* What is left of a queue.
LEMMA TailIs ==
    ASSUME NEW S, NEW s \in Seq(S), s # <<>>
    PROVE  /\ Head(s) = s[1] /\ 1 \in DOMAIN s /\ Head(s) \in S /\ Tail(s) \in Seq(S)
           /\ \A i \in DOMAIN Tail(s) : i \in Nat \ {0} /\ i + 1 \in DOMAIN s /\ Tail(s)[i] = s[i + 1]
           /\ \A i \in DOMAIN s : i # 1 => i - 1 \in DOMAIN Tail(s)
<1>1. Len(s) \in Nat \ {0} /\ DOMAIN s = 1..Len(s)
  BY EmptySeq
<1>2. /\ Tail(s) \in Seq(S) /\ Len(Tail(s)) = Len(s) - 1 /\ Head(s) \in S
      /\ \A i \in 1 .. Len(Tail(s)) : Tail(s)[i] = s[i + 1]
  BY HeadTailProperties
<1>3. DOMAIN Tail(s) = 1..(Len(s) - 1)
  BY <1>2
<1>. QED
  BY <1>1, <1>2, <1>3

\* The types of what fill_queues leaves.
LEMMA FillTypes ==
    ASSUME TypeOK, FillQueues
    PROVE  /\ queue' \in [Pad -> Seq(Frame)]
           /\ buffer' \in [Pad -> Frame \cup {NONE}]
           /\ end_time' \in [Pad -> 0..MaxFrames \cup {NONE}]
           /\ buffer' = Filled /\ end_time' = EndTimes
<1>. USE PadAssumption, BoundAssumption
<1>1. ASSUME NEW p \in Pad
      PROVE  /\ Filled[p] \in Frame \cup {NONE}
             /\ EndTimes[p] \in 0..MaxFrames \cup {NONE}
             /\ queue'[p] \in Seq(Frame)
  <2>1. queue[p] \in Seq(Frame) /\ buffer[p] \in Frame \cup {NONE}
        /\ end_time[p] \in 0..MaxFrames \cup {NONE}
    BY DEF TypeOK
  <2>2. CASE queue[p] = <<>>
    <3>1. FillVerdict[p] = "none"
      BY <2>2 DEF FillVerdict
    <3>. QED
      BY <2>1, <3>1 DEF Filled, EndTimes, FillQueues
  <2>3. CASE queue[p] # <<>>
    <3>1. Head(queue[p]) \in Frame /\ Tail(queue[p]) \in Seq(Frame)
      BY <2>1, <2>3, TailIs
    <3>2. Head(queue[p]) + 1 \in 0..MaxFrames
      BY <3>1 DEF Frame
    <3>. QED
      BY <2>1, <3>1, <3>2 DEF Filled, EndTimes, FillQueues
  <2>. QED
    BY <2>2, <2>3
<1>. QED
  BY <1>1 DEF FillQueues, Filled, EndTimes

\* The verdict on a buffer that is later than those taken before it.
LEMMA VerdictIs ==
    ASSUME TypeOK, durations, NEW p \in Pad, NEW f \in Frame, end_time[p] <= f
    PROVE  Verdict(p, f) = IF ~BeforeEnd(f) THEN "early"
                           ELSE IF f + 1 >= output_start THEN "take" ELSE "late"
<1>1. f \in Nat /\ end_time[p] \in Int /\ end_time[p] <= f + 1 /\ durations = TRUE
  BY BoundAssumption DEF TypeOK, Frame, NONE
<1>. QED
  BY <1>1 DEF Verdict

\* What fill_queues does with one pad.
LEMMA FillOne ==
    ASSUME TypeOK, OrderInv, durations, FillQueues, NEW p \in Pad
    PROVE  \/ /\ queue[p] = <<>>
              /\ queue'[p] = <<>> /\ Filled[p] = NONE /\ end_time'[p] = end_time[p]
              /\ FillVerdict[p] = "none"
           \/ /\ queue[p] # <<>> /\ ~BeforeEnd(Head(queue[p]))
              /\ queue'[p] = queue[p] /\ Filled[p] = NONE /\ end_time'[p] = end_time[p]
              /\ FillVerdict[p] = "early"
           \/ /\ queue[p] # <<>> /\ BeforeEnd(Head(queue[p]))
              /\ queue'[p] = Tail(queue[p]) /\ Filled[p] = Head(queue[p])
              /\ end_time'[p] = Head(queue[p]) + 1
              /\ FillVerdict[p] = IF Head(queue[p]) + 1 >= output_start THEN "take" ELSE "late"
<1>1. CASE queue[p] = <<>>
  <2>1. FillVerdict[p] = "none"
    BY <1>1 DEF FillVerdict
  <2>. QED
    BY <1>1, <2>1 DEF FillQueues, Filled, EndTimes
<1>2. CASE queue[p] # <<>>
  <2>. DEFINE f == Head(queue[p])
  <2>1. f \in Frame /\ f = queue[p][1] /\ 1 \in DOMAIN queue[p]
    BY <1>2, TailIs DEF TypeOK
  <2>2. end_time[p] <= f
    BY <2>1 DEF OrderInv
  <2>3. FillVerdict[p] = IF ~BeforeEnd(f) THEN "early"
                         ELSE IF f + 1 >= output_start THEN "take" ELSE "late"
    BY <1>2, <2>1, <2>2, VerdictIs DEF FillVerdict
  <2>. QED
    BY <1>2, <2>3 DEF FillQueues, Filled, EndTimes
<1>. QED
  BY <1>1, <1>2

-----------------------------------------------------------------------------
(* The steps *)

Metas == {<<p, Filled[p]>> : p \in {q \in Pad \ {First} : Filled[q] # NONE}}
           \cup UNION {output[k].metas : k \in {j \in DOMAIN output :
                                                   output[j].frame = Filled[First]}}

Output == [frame : Frame, metas : SUBSET ((Pad \ {First}) \X Frame)]

\* The frames that have left.
LEMMA OutputType ==
    ASSUME TypeOK
    PROVE  /\ output \in Seq(Output)
           /\ \A k \in DOMAIN output : /\ k \in 1..Len(output)
                                       /\ output[k] \in Output /\ output[k].frame \in Frame
<1>1. output \in Seq(Output)
  BY DEF TypeOK, Output
<1>2. ASSUME NEW k \in DOMAIN output PROVE k \in 1..Len(output) /\ output[k] \in Output
  BY <1>1
<1>. QED
  BY <1>1, <1>2 DEF Output

\* The metadata that goes with a frame.
LEMMA MetasType ==
    ASSUME TypeOK, FillQueues
    PROVE  Metas \in SUBSET ((Pad \ {First}) \X Frame)
<1>1. ASSUME NEW p \in Pad \ {First}, Filled[p] # NONE
      PROVE  <<p, Filled[p]>> \in (Pad \ {First}) \X Frame
  <2>1. Filled[p] \in Frame
    BY <1>1, FillTypes
  <2>. QED
    BY <2>1
<1>2. ASSUME NEW k \in DOMAIN output
      PROVE  output[k].metas \in SUBSET ((Pad \ {First}) \X Frame)
  <2>1. output \in Seq(Output)
    BY DEF TypeOK, Output
  <2>2. output[k] \in Output
    BY <2>1
  <2>. QED
    BY <2>2 DEF Output
<1>. QED
  BY <1>1, <1>2 DEF Metas

\* The variables keep their types.
LEMMA TypeStep == TypeOK /\ CallInv /\ [Next]_vars => TypeOK'
<1>. SUFFICES ASSUME TypeOK, CallInv, [Next]_vars PROVE TypeOK'
  OBVIOUS
<1>. USE PadAssumption, BoundAssumption
<1>1. ASSUME NEW p \in Pad, Chain(p) PROVE TypeOK'
  BY <1>1 DEF Chain, TypeOK, outVars
<1>2. ASSUME NEW p \in Pad, Eos(p) PROVE TypeOK'
  BY <1>2 DEF Eos, TypeOK, outVars
<1>3. CASE Reconfigure
  BY <1>3 DEF Reconfigure, TypeOK, outVars, padVars
<1>4. CASE Ready
  BY <1>4 DEF Ready, Negotiate, TypeOK, outVars, padVars
<1>5. CASE Deadline
  BY <1>5 DEF Deadline, Negotiate, TypeOK, outVars, padVars
<1>6. /\ frames \in Nat /\ frames >= nframes
      /\ (IF call = "timeout" THEN output_start ELSE position) \in 0..frames \cup {NONE}
      /\ output_end \in 0..(frames + 1) \cup {NONE}
  BY DEF TypeOK, frames, output_start, output_end, NONE
<1>7. CASE NeedData
  <2>1. FillQueues /\ UNCHANGED <<fps, durations, came, ended, needs_reconfigure, output, finished,
                   timeouts, reconfigures>>
        /\ nframes' = frames /\ call' = "none"
        /\ position' = IF call = "timeout" THEN output_start ELSE position
    BY <1>7 DEF NeedData
  <2>. QED
    BY <1>6, <2>1, FillTypes DEF TypeOK
<1>8. CASE EndOfStream
  <2>1. FillQueues /\ UNCHANGED <<fps, durations, came, ended, needs_reconfigure, output,
                   timeouts, reconfigures>>
        /\ nframes' = frames /\ call' = "none" /\ finished' = "eos"
        /\ position' = IF call = "timeout" THEN output_start ELSE position
    BY <1>8 DEF EndOfStream
  <2>. QED
    BY <1>6, <2>1, FillTypes DEF TypeOK
<1>9. CASE Aggregate
  <2>1. FillQueues /\ UNCHANGED <<fps, durations, came, ended, needs_reconfigure,
                   timeouts, reconfigures>>
        /\ call' = "none"
    BY <1>9 DEF Aggregate
  <2>2. \/ /\ output' = IF Filled[First] = NONE THEN output
                        ELSE Append(output, [frame |-> Filled[First], metas |-> Metas])
           /\ nframes' = frames + 1 /\ position' = output_end /\ UNCHANGED finished
        \/ /\ finished' = "error" /\ nframes' = frames /\ UNCHANGED output
           /\ position' = IF call = "timeout" THEN output_start ELSE position
    BY <1>9 DEF Aggregate, Metas
  <2>3. output' \in Seq(Output)
    <3>1. output \in Seq(Output)
      BY DEF TypeOK, Output
    <3>2. Filled[First] # NONE => [frame |-> Filled[First], metas |-> Metas] \in Output
      BY <2>1, FillTypes, MetasType DEF Output
    <3>. QED
      BY <2>2, <3>1, <3>2
  <2>4. nframes' \in Nat /\ position' \in 0..nframes' \cup {NONE}
        /\ finished' \in {"ok", "eos", "error"}
    BY <1>6, <2>2 DEF TypeOK
  <2>. QED
    BY <2>1, <2>3, <2>4, FillTypes DEF TypeOK, Output
<1>10. CASE UNCHANGED vars
  BY <1>10 DEF vars, TypeOK, outVars, padVars
<1>. QED
  BY <1>1, <1>2, <1>3, <1>4, <1>5, <1>7, <1>8, <1>9, <1>10 DEF Next, SrcPad

\* fill_queues adds nothing to a queue.
LEMMA FillCame ==
    ASSUME TypeOK, CallInv, FillQueues, came' = came, NEW p \in Pad
    PROVE  \A i \in DOMAIN queue'[p] : queue'[p][i] \in came'[p]
<1>1. queue'[p] = queue[p] \/ (queue[p] # <<>> /\ queue'[p] = Tail(queue[p]))
  BY DEF FillQueues, FillVerdict
<1>2. queue[p] # <<>> => \A i \in DOMAIN Tail(queue[p]) :
                            i + 1 \in DOMAIN queue[p] /\ Tail(queue[p])[i] = queue[p][i + 1]
  BY TailIs DEF TypeOK
<1>. QED
  BY <1>1, <1>2 DEF CallInv

\* A frame that comes.
LEMMA ChainIs ==
    ASSUME TypeOK, NEW p \in Pad, Chain(p)
    PROVE  \E f \in Frame :
              /\ p \notin ended /\ \A g \in came[p] : g < f
              /\ came'[p] = came[p] \cup {f} /\ queue'[p] = Append(queue[p], f)
              /\ DOMAIN queue'[p] = DOMAIN queue[p] \cup {Len(queue[p]) + 1}
              /\ queue'[p][Len(queue[p]) + 1] = f
              /\ \A i \in DOMAIN queue[p] : i \in 1..Len(queue[p]) /\ queue'[p][i] = queue[p][i]
              /\ \A q \in Pad : q # p => queue'[q] = queue[q] /\ came'[q] = came[q]
<1>1. PICK f \in Frame :
         /\ p \notin ended /\ \A g \in came[p] : g < f
         /\ queue' = [queue EXCEPT ![p] = Append(queue[p], f)]
         /\ came' = [came EXCEPT ![p] = came[p] \cup {f}]
  BY DEF Chain
<1>2. queue[p] \in Seq(Frame) /\ queue \in [Pad -> Seq(Frame)] /\ came \in [Pad -> SUBSET Frame]
  BY DEF TypeOK
<1>3. queue'[p] = Append(queue[p], f)
  BY <1>1, <1>2
<1>4. /\ DOMAIN queue'[p] = DOMAIN queue[p] \cup {Len(queue[p]) + 1}
      /\ queue'[p][Len(queue[p]) + 1] = f
      /\ \A i \in DOMAIN queue[p] : i \in 1..Len(queue[p]) /\ queue'[p][i] = queue[p][i]
  BY <1>2, <1>3, AppendProperties
<1>. QED
  BY <1>1, <1>2, <1>3, <1>4

\* What a call of aggregate finds.
LEMMA CallStep == TypeOK /\ CallInv /\ [Next]_vars => CallInv'
<1>. SUFFICES ASSUME TypeOK, CallInv, [Next]_vars PROVE CallInv'
  OBVIOUS
<1>. USE PadAssumption, BoundAssumption
<1>1. ASSUME NEW p \in Pad, Chain(p) PROVE CallInv'
  <2>1. PICK f \in Frame :
           /\ p \notin ended
           /\ came'[p] = came[p] \cup {f}
           /\ DOMAIN queue'[p] = DOMAIN queue[p] \cup {Len(queue[p]) + 1}
           /\ queue'[p][Len(queue[p]) + 1] = f
           /\ \A i \in DOMAIN queue[p] : i \in 1..Len(queue[p]) /\ queue'[p][i] = queue[p][i]
           /\ \A q \in Pad : q # p => queue'[q] = queue[q] /\ came'[q] = came[q]
    BY <1>1, ChainIs
  <2>2. DOMAIN queue'[p] # {} /\ DOMAIN <<>> = {}
    BY <2>1
  <2>3. \A q \in Pad : queue[q] # <<>> => queue'[q] # <<>>
    BY <2>1, <2>2
  <2>4. \A q \in Pad : \A i \in DOMAIN queue'[q] : queue'[q][i] \in came'[q]
    BY <2>1 DEF CallInv
  <2>. QED
    BY <1>1, <2>1, <2>3, <2>4 DEF Chain, CallInv, outVars
<1>2. ASSUME NEW p \in Pad, Eos(p) PROVE CallInv'
  BY <1>2 DEF Eos, CallInv, outVars
<1>3. CASE Reconfigure
  BY <1>3 DEF Reconfigure, CallInv, outVars, padVars, TypeOK
<1>4. CASE Ready
  <2>1. /\ call' = "data" /\ finished' = "ok" /\ UNCHANGED <<padVars, timeouts, reconfigures>>
        /\ \A p \in Pad : queue[p] # <<>> \/ p \in ended
        /\ needs_reconfigure' => \A p \in Pad : came[p] = {}
    BY <1>4 DEF Ready, Negotiate, outVars
  <2>2. ASSUME NEW p \in Pad, came[p] = {} PROVE queue[p] = <<>>
    <3>1. DOMAIN queue[p] = {}
      BY <2>2 DEF CallInv
    <3>2. queue[p] \in Seq(Frame) /\ DOMAIN queue[p] = 1..Len(queue[p]) /\ Len(queue[p]) \in Nat
      BY DEF TypeOK
    <3>3. Len(queue[p]) # 0 => 1 \in 1..Len(queue[p])
      BY <3>2
    <3>. QED
      BY <3>1, <3>2, <3>3, EmptySeq
  <2>. QED
    BY <2>1, <2>2 DEF CallInv, padVars
<1>5. CASE Deadline
  BY <1>5 DEF Deadline, CallInv, outVars, padVars, TypeOK
<1>6. CASE NeedData \/ EndOfStream \/ Aggregate
  <2>1. call' = "none" /\ came' = came /\ FillQueues
    BY <1>6 DEF NeedData, EndOfStream, Aggregate
  <2>. QED
    BY <2>1, FillCame DEF CallInv
<1>7. CASE UNCHANGED vars
  BY <1>7 DEF vars, CallInv, outVars, padVars
<1>. QED
  BY <1>1, <1>2, <1>3, <1>4, <1>5, <1>6, <1>7 DEF Next, SrcPad

\* The pads, after fill_queues.
LEMMA FillOrder ==
    ASSUME TypeOK, CallInv, OrderInv, durations, FillQueues, came' = came, NEW p \in Pad
    PROVE  /\ \A i, j \in DOMAIN queue'[p] : i < j => queue'[p][i] < queue'[p][j]
           /\ \A i \in DOMAIN queue'[p] : end_time'[p] <= queue'[p][i]
           /\ end_time'[p] \in {NONE, 0} \/ end_time'[p] - 1 \in came'[p]
           /\ end_time[p] <= end_time'[p]
<1>. USE BoundAssumption
<1>1. /\ \A i, j \in DOMAIN queue[p] : i < j => queue[p][i] < queue[p][j]
      /\ \A i \in DOMAIN queue[p] : end_time[p] <= queue[p][i]
      /\ end_time[p] \in Int /\ queue[p] \in Seq(Frame)
      /\ \A i \in DOMAIN queue[p] : i \in Nat \ {0} /\ queue[p][i] \in Nat
      /\ end_time[p] \in {NONE, 0} \/ end_time[p] - 1 \in came[p]
  BY DEF OrderInv, TypeOK, NONE, Frame
<1>2. CASE queue'[p] = queue[p] /\ end_time'[p] = end_time[p]
  BY <1>1, <1>2
<1>3. CASE queue[p] # <<>> /\ queue'[p] = Tail(queue[p]) /\ end_time'[p] = Head(queue[p]) + 1
  <2>1. /\ Head(queue[p]) = queue[p][1] /\ 1 \in DOMAIN queue[p]
        /\ \A i \in DOMAIN queue'[p] : i \in Nat \ {0} /\ i + 1 \in DOMAIN queue[p]
                                       /\ queue'[p][i] = queue[p][i + 1]
    BY <1>1, <1>3, TailIs
  <2>2. ASSUME NEW i \in DOMAIN queue'[p], NEW j \in DOMAIN queue'[p], i < j
        PROVE  queue'[p][i] < queue'[p][j]
    <3>1. i + 1 < j + 1 /\ i + 1 \in DOMAIN queue[p] /\ j + 1 \in DOMAIN queue[p]
      BY <2>1, <2>2
    <3>. QED
      BY <1>1, <2>1, <3>1
  <2>3. ASSUME NEW i \in DOMAIN queue'[p] PROVE end_time'[p] <= queue'[p][i]
    <3>1. i + 1 \in DOMAIN queue[p] /\ 1 < i + 1 /\ queue'[p][i] = queue[p][i + 1]
      BY <1>1, <2>1
    <3>2. queue[p][1] < queue[p][i + 1]
      BY <1>1, <2>1, <3>1
    <3>. QED
      BY <1>1, <1>3, <2>1, <3>1, <3>2
  <2>4. Head(queue[p]) \in came'[p] /\ (Head(queue[p]) + 1) - 1 = Head(queue[p])
    BY <1>1, <2>1 DEF CallInv
  <2>. QED
    BY <1>1, <1>3, <2>1, <2>2, <2>3, <2>4
<1>. QED
  BY <1>2, <1>3, FillOne

\* The order of the frames.
LEMMA OrderStep == TypeOK /\ CallInv /\ OrderInv /\ [Next]_vars => OrderInv'
<1>. SUFFICES ASSUME TypeOK, CallInv, OrderInv, [Next]_vars, durations' PROVE OrderInv'
  BY DEF OrderInv
<1>. USE PadAssumption, BoundAssumption
<1>0. UNCHANGED durations /\ durations
  BY DEF Next, vars, Chain, Eos, Reconfigure, Ready, Deadline, SrcPad, NeedData, EndOfStream,
         Aggregate
<1>1. ASSUME NEW p \in Pad, Chain(p) PROVE OrderInv'
  <2>1. PICK f \in Frame :
           /\ \A g \in came[p] : g < f
           /\ DOMAIN queue'[p] = DOMAIN queue[p] \cup {Len(queue[p]) + 1}
           /\ queue'[p][Len(queue[p]) + 1] = f
           /\ \A i \in DOMAIN queue[p] : i \in 1..Len(queue[p]) /\ queue'[p][i] = queue[p][i]
           /\ \A q \in Pad : q # p => queue'[q] = queue[q]
    BY <1>1, ChainIs
  <2>2. came'[p] = came[p] \cup {f} /\ \A q \in Pad : q # p => came'[q] = came[q]
    BY <1>1, <2>1 DEF Chain, TypeOK
  <2>3. UNCHANGED <<end_time, output>>
    BY <1>1 DEF Chain, outVars
  <2>4. \A i \in DOMAIN queue[p] : i < Len(queue[p]) + 1 /\ queue[p][i] < f
    BY <2>1 DEF CallInv, TypeOK
  <2>5. end_time[p] <= f /\ f \in Nat
    <3>1. f \in Nat /\ end_time[p] \in Int
      BY DEF TypeOK, Frame, NONE
    <3>2. end_time[p] \in {NONE, 0} \/ end_time[p] - 1 < f
      BY <1>0, <2>1 DEF OrderInv
    <3>. QED
      BY <3>1, <3>2 DEF NONE
  <2>6. \A i, j \in DOMAIN queue'[p] : i < j => queue'[p][i] < queue'[p][j]
    <3>1. \A i \in DOMAIN queue[p] : i \in Nat /\ i <= Len(queue[p]) /\ Len(queue[p]) \in Nat
      BY <2>1 DEF TypeOK
    <3>2. \A i, j \in DOMAIN queue[p] : i < j => queue[p][i] < queue[p][j]
      BY <1>0 DEF OrderInv
    <3>. QED
      BY <2>1, <2>4, <3>1, <3>2
  <2>7. \A i \in DOMAIN queue'[p] : end_time[p] <= queue'[p][i]
    BY <1>0, <2>1, <2>5 DEF OrderInv
  <2>. QED
    BY <1>0, <2>1, <2>2, <2>3, <2>6, <2>7 DEF OrderInv
<1>2. (\E p \in Pad : Eos(p)) \/ Reconfigure \/ Ready \/ Deadline \/ UNCHANGED vars => OrderInv'
  BY <1>0 DEF Eos, Reconfigure, Ready, Deadline, vars, outVars, padVars, OrderInv
<1>3. ASSUME FillQueues, came' = came
      PROVE  /\ \A p \in Pad :
                   /\ \A i, j \in DOMAIN queue'[p] : i < j => queue'[p][i] < queue'[p][j]
                   /\ \A i \in DOMAIN queue'[p] : end_time'[p] <= queue'[p][i]
                   /\ end_time'[p] \in {NONE, 0} \/ end_time'[p] - 1 \in came'[p]
             /\ end_time[First] <= end_time'[First]
  BY <1>0, <1>3, FillOrder
<1>4. ASSUME FillQueues, UNCHANGED output, came' = came PROVE OrderInv'
  <2>1. ASSUME NEW k \in DOMAIN output PROVE output[k].frame < end_time'[First]
    <3>1. output[k].frame < end_time[First] /\ output[k].frame \in Frame
      BY <1>0, OutputType DEF OrderInv
    <3>2. end_time[First] \in Int /\ end_time'[First] \in Int
      BY <1>4, FillTypes DEF TypeOK, NONE
    <3>. QED
      BY <1>3, <1>4, <3>1, <3>2 DEF Frame
  <2>. QED
    BY <1>0, <1>3, <1>4, <2>1 DEF OrderInv
<1>5. CASE NeedData \/ EndOfStream
  BY <1>4, <1>5 DEF NeedData, EndOfStream
<1>6. CASE Aggregate
  <2>1. FillQueues /\ FillVerdict[First] # "late" /\ came' = came
    BY <1>6 DEF Aggregate
  <2>2. CASE UNCHANGED output
    BY <1>4, <2>1, <2>2
  <2>3. CASE Filled[First] # NONE /\ output' = Append(output, [frame |-> Filled[First], metas |-> Metas])
    <3>. DEFINE f == Head(queue[First])
                n == Len(output)
    <3>1. Filled[First] = f /\ end_time'[First] = f + 1 /\ queue[First] # <<>>
      BY <1>0, <2>1, <2>3, FillOne
    <3>2. f = queue[First][1] /\ 1 \in DOMAIN queue[First] /\ f \in Frame
      BY <3>1, TailIs DEF TypeOK
    <3>3. end_time[First] <= f /\ end_time[First] \in Int /\ f \in Nat
      BY <1>0, <3>2 DEF OrderInv, TypeOK, NONE, Frame
    <3>4. \A k \in DOMAIN output : output[k].frame < f /\ output[k].frame \in Nat /\ k \in 1..n
      <4>1. \A k \in DOMAIN output : output[k].frame < end_time[First] /\ output[k].frame \in Frame
                                     /\ k \in 1..n
        BY <1>0, OutputType DEF OrderInv
      <4>. QED
        BY <3>3, <4>1 DEF Frame
    <3>5. output \in Seq(Output) /\ [frame |-> f, metas |-> Metas] \in Output
      BY <2>1, <3>2, <3>1, MetasType DEF TypeOK, Output
    <3>6. /\ DOMAIN output' = DOMAIN output \cup {n + 1} /\ output'[n + 1].frame = f
          /\ \A k \in DOMAIN output : output'[k] = output[k] /\ k # n + 1
      <4>. DEFINE r == [frame |-> f, metas |-> Metas]
      <4>1. output' = Append(output, r) /\ r.frame = f
        BY <2>3, <3>1
      <4>. HIDE DEF r, f
      <4>2. r \in Output
        BY <3>5 DEF r, f
      <4>. QED
        BY <3>5, <4>1, <4>2, AppendProperties
    <3>7. \A j, k \in DOMAIN output' : j < k => output'[j].frame < output'[k].frame
      BY <1>0, <3>4, <3>6 DEF OrderInv
    <3>8. \A k \in DOMAIN output' : output'[k].frame < end_time'[First]
      BY <3>1, <3>3, <3>4, <3>6
    <3>. QED
      BY <1>3, <2>1, <3>7, <3>8 DEF OrderInv
  <2>. QED
    BY <1>6, <2>2, <2>3 DEF Aggregate, Metas
<1>. QED
  BY <1>1, <1>2, <1>5, <1>6 DEF Next, SrcPad

-----------------------------------------------------------------------------
(* Frames in step *)

\* What a call of aggregate does with each pad when all are in step.
LEMMA InStep ==
    ASSUME TypeOK, CallInv, OrderInv, StepInv, Undisturbed, call = "data", FillQueues
    PROVE  /\ frames = nframes /\ output_start = nframes /\ output_end = nframes + 1
           /\ \A f : BeforeEnd(f) <=> f < nframes + 1
           /\ \A p \in Pad : queue[p] # <<>> => /\ Head(queue[p]) = queue[p][1]
                                                /\ 1 \in DOMAIN queue[p]
                                                /\ queue[p][1] >= nframes
           /\ \A p \in Pad : FillVerdict[p] # "late"
           /\ \A p \in Pad : Filled[p] = IF nframes \in came[p] THEN nframes ELSE NONE
<1>. USE BoundAssumption
<1>1. frames = nframes /\ output_start = nframes /\ output_end = nframes + 1 /\ nframes \in Nat
  BY DEF frames, output_start, output_end, StepInv, Undisturbed, TypeOK
<1>2. \A f : BeforeEnd(f) <=> f < nframes + 1
  BY <1>1 DEF BeforeEnd, NONE
<1>3. ASSUME NEW p \in Pad, queue[p] # <<>>
      PROVE  Head(queue[p]) = queue[p][1] /\ 1 \in DOMAIN queue[p] /\ queue[p][1] >= nframes
             /\ queue[p][1] \in Nat /\ queue[p][1] \in came[p]
  <2>1. Head(queue[p]) = queue[p][1] /\ 1 \in DOMAIN queue[p] /\ Head(queue[p]) \in Frame
    BY <1>3, TailIs DEF TypeOK
  <2>. QED
    BY <2>1 DEF StepInv, CallInv, Frame
<1>4. ASSUME NEW p \in Pad PROVE FillVerdict[p] # "late"
  <2>1. durations
    BY DEF Undisturbed
  <2>. QED
    BY <1>1, <1>3, <1>4, <2>1, FillOne
<1>5. ASSUME NEW p \in Pad, nframes \in came[p] PROVE Filled[p] = nframes
  <2>1. PICK i \in DOMAIN queue[p] : queue[p][i] = nframes
    BY <1>1, <1>5 DEF StepInv
  <2>2. queue[p] # <<>> /\ i \in Nat \ {0} /\ durations
    <3>1. queue[p] \in Seq(Frame) /\ DOMAIN queue[p] = 1..Len(queue[p])
      BY DEF TypeOK
    <3>. QED
      BY <2>1, <3>1, EmptySeq DEF Undisturbed
  <2>3. queue[p][1] = nframes
    <3>1. i # 1 => queue[p][1] < queue[p][i]
      BY <1>3, <2>1, <2>2 DEF OrderInv
    <3>. QED
      BY <1>1, <1>3, <2>1, <2>2, <3>1
  <2>4. BeforeEnd(Head(queue[p]))
    BY <1>1, <1>2, <1>3, <2>2, <2>3
  <2>. QED
    BY <1>3, <2>2, <2>3, <2>4, FillOne
<1>6. ASSUME NEW p \in Pad, nframes \notin came[p] PROVE Filled[p] = NONE
  <2>1. CASE queue[p] = <<>>
    BY <2>1, FillOne DEF Undisturbed
  <2>2. CASE queue[p] # <<>>
    <3>1. queue[p][1] # nframes
      BY <1>3, <1>6, <2>2
    <3>2. ~BeforeEnd(Head(queue[p]))
      BY <1>1, <1>2, <1>3, <2>2, <3>1
    <3>. QED
      BY <2>2, <3>2, FillOne DEF Undisturbed
  <2>. QED
    BY <2>1, <2>2
<1>. QED
  BY <1>1, <1>2, <1>3, <1>4, <1>5, <1>6

\* Nothing that disturbs the order of the pads is undone.
LEMMA StaysUndisturbed == TypeOK /\ CallInv /\ [Next]_vars /\ Undisturbed' => Undisturbed
<1>. SUFFICES ASSUME TypeOK, CallInv, [Next]_vars, Undisturbed' PROVE Undisturbed
  OBVIOUS
<1>1. UNCHANGED <<fps, durations>>
  BY DEF Next, vars, Chain, Eos, Reconfigure, Ready, Deadline, SrcPad, NeedData, EndOfStream,
         Aggregate
<1>2. timeouts = 0
  <2>1. timeouts' = timeouts \/ timeouts' = timeouts + 1
    BY DEF Next, vars, padVars, outVars, Chain, Eos, Reconfigure, Ready, Deadline, SrcPad, NeedData,
         EndOfStream, Aggregate
  <2>. QED
    BY <2>1, BoundAssumption DEF Undisturbed, TypeOK
<1>3. reconfigures = 0
  <2>1. reconfigures' = reconfigures \/ reconfigures' = reconfigures + 1
    BY DEF Next, vars, padVars, outVars, Chain, Eos, Reconfigure, Ready, Deadline, SrcPad, NeedData,
         EndOfStream, Aggregate
  <2>. QED
    BY <2>1, BoundAssumption DEF Undisturbed, TypeOK
<1>4. finished # "error"
  BY DEF Next, vars, Chain, Eos, Reconfigure, Ready, Deadline, SrcPad, NeedData,
         EndOfStream, Aggregate, Undisturbed, outVars, CallInv
<1>. QED
  BY <1>1, <1>2, <1>3, <1>4 DEF Undisturbed

\* A frame that comes is not before this output frame.
LEMMA ChainInStep ==
    ASSUME TypeOK, StepInv, Undisturbed, NEW p \in Pad, Chain(p)
    PROVE  \A f \in came'[p] : f \in came[p] \/ f >= nframes
<1>1. PICK f \in Frame : p \notin ended /\ (\A g \in came[p] : g < f) /\ came'[p] = came[p] \cup {f}
  BY ChainIs
<1>2. nframes \in Nat /\ f \in Nat /\ came[p] \subseteq Nat
  BY BoundAssumption DEF TypeOK, Frame
<1>3. nframes = 0 \/ \E g \in came[p] : g >= nframes - 1
  BY <1>1 DEF StepInv
<1>. QED
  BY <1>1, <1>2, <1>3

\* The pads stay in step.
LEMMA StepStep == TypeOK /\ CallInv /\ OrderInv /\ StepInv /\ [Next]_vars => StepInv'
<1>. SUFFICES ASSUME TypeOK, CallInv, OrderInv, StepInv, [Next]_vars, Undisturbed' PROVE StepInv'
  BY DEF StepInv
<1>. USE PadAssumption, BoundAssumption
<1>0. Undisturbed /\ durations /\ nframes \in Nat
  BY StaysUndisturbed DEF Undisturbed, TypeOK
<1>1. ASSUME NEW p \in Pad, Chain(p) PROVE StepInv'
  <2>1. PICK f \in Frame :
           /\ came'[p] = came[p] \cup {f}
           /\ DOMAIN queue'[p] = DOMAIN queue[p] \cup {Len(queue[p]) + 1}
           /\ queue'[p][Len(queue[p]) + 1] = f
           /\ \A i \in DOMAIN queue[p] : queue'[p][i] = queue[p][i]
           /\ \A q \in Pad : q # p => queue'[q] = queue[q] /\ came'[q] = came[q]
    BY <1>1, ChainIs
  <2>2. UNCHANGED <<nframes, position, ended>>
    BY <1>1 DEF Chain, outVars
  <2>3. f \in came[p] \/ f >= nframes
    BY <1>0, <1>1, <2>1, ChainInStep
  <2>4. f \in came[p] => f < f
    BY <1>1, <2>1 DEF Chain, TypeOK
  <2>5. f >= nframes
    BY <2>3, <2>4 DEF Frame
  <2>6. \A q \in Pad : \A i \in DOMAIN queue'[q] : queue'[q][i] >= nframes
    BY <1>0, <2>1, <2>5 DEF StepInv
  <2>7. \A q \in Pad : \A g \in came'[q] :
           g >= nframes => \E i \in DOMAIN queue'[q] : queue'[q][i] = g
    BY <1>0, <2>1 DEF StepInv
  <2>8. \A q \in Pad : q \in ended \/ nframes = 0 \/ \E g \in came'[q] : g >= nframes - 1
    BY <1>0, <2>1 DEF StepInv
  <2>. QED
    BY <1>0, <2>2, <2>6, <2>7, <2>8 DEF StepInv
<1>2. ASSUME NEW p \in Pad, Eos(p) PROVE StepInv'
  BY <1>0, <1>2 DEF Eos, outVars, StepInv
<1>3. CASE Reconfigure
  BY <1>3 DEF Reconfigure, Undisturbed, TypeOK
<1>4. CASE Ready \/ UNCHANGED vars
  BY <1>0, <1>4 DEF Ready, vars, outVars, padVars, StepInv
<1>5. CASE Deadline
  BY <1>5 DEF Deadline, Undisturbed, TypeOK
<1>6. call = "none" \/ call = "data"
  BY <1>0 DEF CallInv, TypeOK, Undisturbed
<1>7. CASE NeedData
  <2>1. call = "data" /\ FillQueues /\ (needs_reconfigure \/ \E p \in Pad : FillVerdict[p] = "late")
        /\ ~(\A p \in Pad : AtEos(p))
    BY <1>6, <1>7 DEF NeedData
  <2>2. ~needs_reconfigure
    BY <1>0, <2>1 DEF CallInv, Undisturbed, AtEos
  <2>. QED
    BY <1>0, <2>1, <2>2, InStep
<1>8. CASE EndOfStream
  <2>1. FillQueues /\ (\A p \in Pad : AtEos(p)) /\ UNCHANGED <<came, ended>>
    BY <1>8 DEF EndOfStream
  <2>2. call = "data"
    BY <1>6, <1>8 DEF EndOfStream
  <2>3. nframes' = nframes /\ position' = position
    BY <1>8, <2>2 DEF EndOfStream, frames
  <2>4. ASSUME NEW p \in Pad PROVE queue'[p] = queue[p]
    <3>1. queue[p] = <<>>
      BY <2>1 DEF AtEos
    <3>. QED
      BY <1>0, <2>1, <3>1, FillOne
  <2>. QED
    <3>1. IF position' = NONE THEN nframes' = 0 ELSE position' = nframes'
      BY <1>0, <2>3 DEF StepInv
    <3>2. \A p \in Pad : p \in ended' \/ nframes' = 0 \/ \E g \in came'[p] : g >= nframes' - 1
      BY <1>0, <2>1, <2>3 DEF StepInv
    <3>3. \A p \in Pad : \A i \in DOMAIN queue'[p] : queue'[p][i] >= nframes'
      BY <1>0, <2>3, <2>4 DEF StepInv
    <3>4. ASSUME NEW p \in Pad, NEW f \in came'[p], f >= nframes'
          PROVE  \E i \in DOMAIN queue'[p] : queue'[p][i] = f
      <4>1. f \in came[p] /\ f >= nframes
        BY <2>1, <2>3, <3>4
      <4>2. \E i \in DOMAIN queue[p] : queue[p][i] = f
        BY <1>0, <4>1 DEF StepInv
      <4>. QED
        BY <2>4, <4>2, Zenon
    <3>. QED
      BY <3>1, <3>2, <3>3, <3>4 DEF StepInv
<1>9. CASE Aggregate
  <2>1. /\ call = "data" /\ FillQueues /\ nframes' = frames + 1 /\ position' = output_end
        /\ UNCHANGED <<came, ended>>
    BY <1>6, <1>9 DEF Aggregate, Undisturbed
  <2>2. /\ nframes' = nframes + 1 /\ position' = nframes + 1
        /\ \A f : BeforeEnd(f) <=> f < nframes + 1
        /\ \A p \in Pad : queue[p] # <<>> => /\ Head(queue[p]) = queue[p][1]
                                             /\ 1 \in DOMAIN queue[p]
                                             /\ queue[p][1] >= nframes
    BY <1>0, <2>1, InStep
  <2>3. \A p \in Pad : p \in ended \/ \E g \in came[p] : g >= nframes
    BY <2>1, <2>2 DEF CallInv
  <2>4. ASSUME NEW p \in Pad, queue[p] # <<>>
        PROVE  /\ \A i \in DOMAIN queue'[p] : queue'[p][i] >= nframes + 1
               /\ \A f \in came[p] : f >= nframes + 1 =>
                                        \E i \in DOMAIN queue'[p] : queue'[p][i] = f
    <3>1. /\ queue[p] \in Seq(Frame)
          /\ \A i \in DOMAIN queue[p] : i \in Nat \ {0} /\ queue[p][i] \in Nat
          /\ \A i \in DOMAIN queue[p] : 1 < i => queue[p][1] < queue[p][i]
      BY <1>0, <2>2, <2>4 DEF OrderInv, TypeOK, Frame
    <3>2. \A f \in came[p] : f \in Nat
                             /\ (f >= nframes => \E i \in DOMAIN queue[p] : queue[p][i] = f)
      BY <1>0 DEF StepInv, TypeOK, Frame
    <3>3. CASE queue'[p] = queue[p] /\ ~BeforeEnd(Head(queue[p]))
      <4>1. queue[p][1] >= nframes + 1
        BY <1>0, <2>2, <2>4, <3>1, <3>3
      <4>2. \A i \in DOMAIN queue[p] : queue[p][i] >= nframes + 1
        BY <1>0, <3>1, <4>1
      <4>. QED
        BY <1>0, <3>2, <3>3, <4>2
    <3>4. CASE queue'[p] = Tail(queue[p]) /\ BeforeEnd(Head(queue[p]))
      <4>1. queue[p][1] = nframes
        BY <1>0, <2>2, <2>4, <3>1, <3>4
      <4>2. /\ \A i \in DOMAIN queue'[p] : /\ i \in Nat \ {0} /\ i + 1 \in DOMAIN queue[p]
                                           /\ queue'[p][i] = queue[p][i + 1]
            /\ \A i \in DOMAIN queue[p] : i # 1 => i - 1 \in DOMAIN queue'[p]
        BY <2>4, <3>1, <3>4, TailIs, SMTT(30)
      <4>3. ASSUME NEW i \in DOMAIN queue'[p] PROVE queue'[p][i] >= nframes + 1
        <5>1. i + 1 \in DOMAIN queue[p] /\ 1 < i + 1 /\ queue'[p][i] = queue[p][i + 1]
          BY <4>2
        <5>2. queue[p][1] < queue[p][i + 1] /\ queue[p][i + 1] \in Nat
          BY <3>1, <5>1
        <5>. QED
          BY <1>0, <4>1, <5>1, <5>2
      <4>4. ASSUME NEW f \in came[p], f >= nframes + 1
            PROVE  \E i \in DOMAIN queue'[p] : queue'[p][i] = f
        <5>1. PICK i \in DOMAIN queue[p] : queue[p][i] = f
          BY <1>0, <3>2, <4>4
        <5>2. i # 1 /\ i \in Nat
          BY <1>0, <3>1, <4>1, <4>4, <5>1
        <5>3. i - 1 \in DOMAIN queue'[p] /\ (i - 1) + 1 = i
          BY <4>2, <5>2
        <5>4. queue'[p][i - 1] = queue[p][(i - 1) + 1]
          BY <4>2, <5>3
        <5>. QED
          BY <5>1, <5>3, <5>4
      <4>. QED
        BY <4>3, <4>4
    <3>. QED
      BY <1>0, <2>1, <2>4, <3>3, <3>4, FillOne
  <2>5. ASSUME NEW p \in Pad, queue[p] = <<>>
        PROVE  /\ \A i \in DOMAIN queue'[p] : queue'[p][i] >= nframes + 1
               /\ \A f \in came[p] : f >= nframes + 1 =>
                                        \E i \in DOMAIN queue'[p] : queue'[p][i] = f
    <3>1. queue'[p] = queue[p] /\ DOMAIN queue[p] = {}
      BY <1>0, <2>1, <2>5, FillOne
    <3>2. \A f \in came[p] : f \in Nat /\ ~(f >= nframes)
      BY <1>0, <3>1 DEF StepInv, TypeOK, Frame
    <3>. QED
      BY <1>0, <3>1, <3>2
  <2>6. IF position' = NONE THEN nframes' = 0 ELSE position' = nframes'
    BY <1>0, <2>2 DEF NONE
  <2>7. \A p \in Pad : p \in ended' \/ nframes' = 0 \/ \E g \in came'[p] : g >= nframes' - 1
    <3>1. nframes' - 1 = nframes
      BY <1>0, <2>2
    <3>. QED
      BY <2>1, <2>3, <3>1
  <2>8. \A p \in Pad : \A i \in DOMAIN queue'[p] : queue'[p][i] >= nframes'
    BY <2>2, <2>4, <2>5
  <2>9. ASSUME NEW p \in Pad, NEW f \in came'[p], f >= nframes'
        PROVE  \E i \in DOMAIN queue'[p] : queue'[p][i] = f
    <3>1. f \in came[p] /\ f >= nframes + 1
      BY <2>1, <2>2, <2>9
    <3>. QED
      BY <2>4, <2>5, <3>1, Zenon
  <2>. QED
    BY <2>6, <2>7, <2>8, <2>9 DEF StepInv
<1>. QED
  BY <1>1, <1>2, <1>3, <1>4, <1>5, <1>7, <1>8, <1>9 DEF Next, SrcPad

\* Each frame before this output frame has left.
LEMMA MergeStep ==
    TypeOK /\ CallInv /\ OrderInv /\ StepInv /\ MergeInv /\ [Next]_vars => MergeInv'
<1>. SUFFICES ASSUME TypeOK, CallInv, OrderInv, StepInv, MergeInv, [Next]_vars, Undisturbed'
              PROVE  \A f \in came'[First] : f < nframes' => Merged(f)'
  BY DEF MergeInv
<1>. USE PadAssumption, BoundAssumption
<1>0. Undisturbed /\ durations /\ nframes \in Nat /\ First \in Pad
  BY StaysUndisturbed DEF Undisturbed, TypeOK
<1>1. ASSUME NEW p \in Pad, Chain(p), NEW f \in came'[First], f < nframes' PROVE Merged(f)'
  <2>1. UNCHANGED <<nframes, output>>
    BY <1>1 DEF Chain, outVars
  <2>2. \A q \in Pad : came[q] \subseteq came'[q]
                       /\ \A g \in came'[q] : g \in came[q] \/ (q = p /\ g >= nframes)
    BY <1>0, <1>1, ChainIs, ChainInStep
  <2>3. f \in Nat
    <3>1. came'[First] \subseteq Frame
      BY <1>1, ChainIs DEF TypeOK
    <3>. QED
      BY <3>1 DEF Frame
  <2>4. \A q \in Pad : f \in came'[q] <=> f \in came[q]
    BY <1>0, <1>1, <2>1, <2>2, <2>3
  <2>5. Merged(f)
    BY <1>0, <1>1, <2>1, <2>4 DEF MergeInv
  <2>6. {q \in Pad \ {First} : f \in came'[q]} = {q \in Pad \ {First} : f \in came[q]}
    BY <2>4
  <2>. QED
    BY <2>1, <2>5, <2>6 DEF Merged
<1>2. ASSUME UNCHANGED <<came, nframes, output>>, NEW f \in came'[First], f < nframes'
      PROVE  Merged(f)'
  <2>1. Merged(f)
    BY <1>0, <1>2 DEF MergeInv
  <2>. QED
    BY <1>2, <2>1 DEF Merged
<1>3. (\E p \in Pad : Eos(p)) \/ Reconfigure \/ Ready \/ Deadline \/ UNCHANGED vars
        => UNCHANGED <<came, nframes, output>>
  BY DEF Eos, Reconfigure, Ready, Deadline, vars, outVars, padVars
<1>4. call = "none" \/ call = "data"
  BY <1>0 DEF CallInv, TypeOK, Undisturbed
<1>5. CASE NeedData \/ EndOfStream
  <2>1. call = "data" /\ FillQueues /\ nframes' = frames /\ UNCHANGED <<came, output>>
    BY <1>4, <1>5 DEF NeedData, EndOfStream
  <2>2. nframes' = nframes
    BY <1>0, <2>1, InStep
  <2>. QED
    BY <1>2, <2>1, <2>2
<1>6. CASE Aggregate
  <2>1. /\ call = "data" /\ FillQueues /\ nframes' = frames + 1 /\ came' = came
        /\ output' = IF Filled[First] = NONE THEN output
                     ELSE Append(output, [frame |-> Filled[First], metas |-> Metas])
    BY <1>4, <1>6 DEF Aggregate, Undisturbed, Metas
  <2>2. /\ nframes' = nframes + 1
        /\ \A p \in Pad : Filled[p] = IF nframes \in came[p] THEN nframes ELSE NONE
    BY <1>0, <2>1, InStep
  <2>3. DOMAIN output \subseteq DOMAIN output' /\ \A k \in DOMAIN output : output'[k] = output[k]
    <3>1. output \in Seq(Output)
      BY OutputType
    <3>2. ASSUME NEW r \in Output, output' = Append(output, r)
          PROVE  DOMAIN output \subseteq DOMAIN output'
                 /\ \A k \in DOMAIN output : output'[k] = output[k]
      BY <3>1, <3>2, AppendProperties
    <3>3. Filled[First] # NONE => [frame |-> Filled[First], metas |-> Metas] \in Output
      BY <2>1, FillTypes, MetasType DEF Output
    <3>. QED
      BY <2>1, <3>2, <3>3
  <2>4. ASSUME NEW f \in came[First], f < nframes PROVE Merged(f)'
    <3>1. Merged(f)
      BY <1>0, <2>4 DEF MergeInv
    <3>. QED
      BY <2>1, <2>3, <3>1 DEF Merged
  <2>5. ASSUME NEW f \in came[First], f = nframes PROVE Merged(f)'
    <3>. DEFINE n == Len(output) + 1
                r == [frame |-> nframes, metas |-> Metas]
    <3>1. Filled[First] = nframes /\ nframes # NONE
      BY <1>0, <2>2, <2>5 DEF NONE
    <3>2. output' = Append(output, r) /\ r \in Output
      BY <2>1, <2>5, <3>1, MetasType DEF Output, TypeOK
    <3>3. n \in DOMAIN output' /\ output'[n] = r
      <4>. HIDE DEF r
      <4>. QED
        BY <3>2, OutputType, AppendProperties
    <3>4. \A k \in DOMAIN output : output[k].frame # nframes
      <4>1. \E i \in DOMAIN queue[First] : queue[First][i] = nframes
        <5>1. f >= nframes => \E i \in DOMAIN queue[First] : queue[First][i] = f
          BY <1>0 DEF StepInv
        <5>. QED
          BY <1>0, <2>5, <5>1
      <4>2. end_time[First] <= nframes /\ end_time[First] \in Int
        BY <1>0, <4>1 DEF OrderInv, TypeOK, NONE
      <4>3. \A k \in DOMAIN output : output[k].frame < end_time[First] /\ output[k].frame \in Frame
        BY <1>0, OutputType DEF OrderInv
      <4>. QED
        BY <1>0, <4>2, <4>3 DEF Frame
    <3>5. {k \in DOMAIN output : output[k].frame = Filled[First]} = {}
      BY <3>1, <3>4
    <3>6. Metas = {<<p, Filled[p]>> : p \in {q \in Pad \ {First} : Filled[q] # NONE}}
      BY <3>5 DEF Metas
    <3>7. {q \in Pad \ {First} : Filled[q] # NONE} = {q \in Pad \ {First} : nframes \in came[q]}
      <4>1. \A q \in Pad : Filled[q] # NONE <=> nframes \in came[q]
        BY <2>2, <3>1
      <4>. QED
        BY <4>1
    <3>8. Metas = {<<p, nframes>> : p \in {q \in Pad \ {First} : nframes \in came[q]}}
      BY <2>2, <3>1, <3>6, <3>7
    <3>9. output'[n].frame = f /\ output'[n].metas = Metas
      BY <2>5, <3>3
    <3>10. Metas = {<<p, f>> : p \in {q \in Pad \ {First} : f \in came'[q]}}
      BY <2>1, <2>5, <3>8
    <3>. HIDE DEF n, r
    <3>. QED
      BY <3>3, <3>9, <3>10 DEF Merged
  <2>6. \A f \in came[First] : f \in Nat
    BY <1>0 DEF TypeOK, Frame
  <2>. QED
    BY <1>0, <2>1, <2>2, <2>4, <2>5, <2>6
<1>. QED
  BY <1>1, <1>2, <1>3, <1>5, <1>6 DEF Next, SrcPad

-----------------------------------------------------------------------------
(* Theorems *)

\* An element that starts has its pads in step.
LEMMA InitIInv == Init => IInv
<1>. SUFFICES ASSUME Init PROVE IInv
  OBVIOUS
<1>. USE PadAssumption, BoundAssumption
<1>1. \A p \in Pad : queue[p] = <<>> /\ DOMAIN queue[p] = {} /\ came[p] = {} /\ end_time[p] \in {NONE, 0}
  <2>1. DOMAIN <<>> = {}
    OBVIOUS
  <2>. QED
    BY <2>1 DEF Init
<1>2. DOMAIN output = {}
  BY DEF Init
<1>3. TypeOK
  <2>1. <<>> \in Seq(Frame) /\ <<>> \in Seq(Output)
    BY EmptySeq
  <2>. QED
    BY <2>1 DEF Init, TypeOK, Output
<1>4. OrderInv
  BY <1>1, <1>2 DEF OrderInv
<1>5. CallInv
  BY <1>1 DEF CallInv, Init
<1>6. StepInv
  BY <1>1 DEF StepInv, Init
<1>7. MergeInv
  BY <1>1 DEF MergeInv
<1>. QED
  BY <1>3, <1>4, <1>5, <1>6, <1>7 DEF IInv

\* The frames leave in their order, and the pads stay in step with them while no
\* deadline passes and no reconfigure event comes.
THEOREM MergeInvariant == Spec => []IInv
<1>1. IInv /\ [Next]_vars => IInv'
  BY TypeStep, CallStep, OrderStep, StepStep, MergeStep DEF IInv
<1>. QED
  BY InitIInv, <1>1, PTL DEF Spec

\* The variables keep their types, and the position never passes the frame count.
THEOREM TypeCorrect == Spec => []TypeOK
<1>1. IInv => TypeOK
  BY DEF IInv
<1>. QED
  BY MergeInvariant, <1>1, PTL

\* The frames of the first pad leave in their order, each with what the branches
\* have kept of it (do_aggregate, gst_gva_meta_aggregate_fill_queues).
THEOREM FramesAreMerged == Spec => []FramesMerged
<1>1. ASSUME IInv PROVE FramesMerged
  <2>1. durations => \A j, k \in DOMAIN output : j < k => output[j].frame < output[k].frame
    BY <1>1 DEF IInv, OrderInv
  <2>2. ASSUME Undisturbed, NEW f \in came[First]
        PROVE  (\E i \in DOMAIN queue[First] : queue[First][i] = f) \/ Merged(f)
    <3>1. f \in Nat /\ nframes \in Nat
      BY <1>1, PadAssumption, BoundAssumption DEF IInv, TypeOK, Frame
    <3>2. CASE f < nframes
      BY <1>1, <2>2, <3>2 DEF IInv, MergeInv
    <3>3. CASE f >= nframes
      BY <1>1, <2>2, <3>3, PadAssumption DEF IInv, StepInv
    <3>. QED
      BY <3>1, <3>2, <3>3
  <2>. QED
    BY <2>1, <2>2 DEF FramesMerged, Undisturbed, Merged
<1>. QED
  BY MergeInvariant, <1>1, PTL
=============================================================================
