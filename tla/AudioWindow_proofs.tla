-------------------------- MODULE AudioWindow_proofs --------------------------
(***************************************************************************)
(* That no window of a stream of the checked size, with a slide that fits  *)
(* it, is missed, repeated or given the time of another one (WindowsKept), *)
(* for every size of the window, of the slide and of the buffers, and      *)
(* whenever the application sets the slide.                                *)
(***************************************************************************)
EXTENDS AudioWindow, SequenceTheorems, TLAPS

\* The sizes fit once they have been checked.
Fit(n, s) == n \in BufferSize /\ s \in 1..sample_length /\ sample_length % n = 0 /\ s % n = 0

\* One inference.
Result == [samples : Seq(Nat), startTime : Nat, endTime : Nat]

\* The types.
TypeInv ==
    /\ state \in {"stopped", "streaming", "error", "crashed"}
    /\ num_samples \in BufferSize
    /\ checked \in BufferSize \cup {0}
    /\ sliding_length \in 1..sample_length
    /\ sliding_samples \in 0..sample_length
    /\ starts \in Nat
    /\ changed \in BOOLEAN
    /\ position \in Nat
    /\ startTimeSet \in BOOLEAN
    /\ audioData \in Seq(Nat)
    /\ inferenceStartTime \in Seq(Nat)
    /\ windows \in Seq(Result)
    /\ startTimeSet => inferenceStartTime # <<>>

\* The checked size divides the window, and the element and its AudioInferImpl
\* agree on a slide that fits it, until the property is set.
SlideInv ==
    /\ starts = 0 => state = "stopped" /\ checked = 0
    /\ state = "streaming" => sliding_samples # 0
    /\ state = "streaming" /\ ~changed => sliding_samples = sliding_length
    /\ checked # 0 => sample_length % checked = 0
    /\ checked # 0 /\ ~changed => sliding_length % checked = 0

\* Nothing has come yet.
Empty == /\ position = 0 /\ audioData = <<>> /\ inferenceStartTime = <<>> /\ windows = <<>>
         /\ ~startTimeSet
FreshInv == state = "streaming" /\ checked = 0 => Empty

\* The samples from the start of the next window on are kept, fewer than a window,
\* and the windows before it have been inferred on.
Placed(s) ==
    /\ Len(audioData) < sample_length
    /\ Len(audioData) % num_samples = 0
    /\ position = Len(windows) * s + Len(audioData)
    /\ Len(windows) = 0 \/ Len(audioData) + s >= sample_length
    /\ \A i \in 1..Len(audioData) : audioData[i] = Len(windows) * s + i - 1
    /\ \A k \in 1..Len(windows) :
          /\ Len(windows[k].samples) = sample_length
          /\ \A i \in 1..sample_length : windows[k].samples[i] = (k - 1) * s + i - 1

\* The queue holds the start times of the windows that have begun.
Queued(s) ==
    /\ Len(inferenceStartTime) * s >= Len(audioData)
    /\ (Len(inferenceStartTime) - 1) * s < Len(audioData)
    /\ \A i \in 1..Len(inferenceStartTime) :
          inferenceStartTime[i] = (Len(windows) + i - 1) * s
    /\ ~startTimeSet => Len(audioData) % s = 0
    /\ startTimeSet => Len(audioData) # 0
    /\ \A k \in 1..Len(windows) :
          windows[k].startTime = (k - 1) * s /\ windows[k].endTime = (k - 1) * s + sample_length

WindowInv ==
    state = "streaming" /\ checked = num_samples /\ sliding_samples % num_samples = 0 =>
        /\ Placed(sliding_samples)
        /\ sample_length % sliding_samples = 0 => Queued(sliding_samples)

IInv == TypeInv /\ SlideInv /\ FreshInv /\ WindowInv
-----------------------------------------------------------------------------
(* Arithmetic *)

\* Multiples of n are n apart.
LEMMA NextMultiple ==
    ASSUME NEW n \in Nat \ {0}, NEW a \in Nat, NEW b \in Nat, a % n = 0, b % n = 0, a < b
    PROVE  a + n <= b
<1>1. a = n * (a \div n) /\ b = n * (b \div n) /\ a \div n \in Nat /\ b \div n \in Nat
  OBVIOUS
<1>. DEFINE p == a \div n
            q == b \div n
<1>2. p < q
  <2>1. q <= p => n * q <= n * p
    BY <1>1
  <2>. QED
    BY <1>1, <2>1
<1>3. n * (p + 1) <= n * q
  BY <1>1, <1>2
<1>. QED
  BY <1>1, <1>3

\* Products with n are multiples of n.
LEMMA MultipleIs ==
    ASSUME NEW n \in Nat \ {0}, NEW q \in Nat PROVE (q * n) % n = 0
OBVIOUS

\* Zero is a multiple.
LEMMA ZeroMultiple ==
    ASSUME NEW n \in Nat \ {0} PROVE 0 % n = 0 /\ 0 * n = 0 /\ (0 - 1) * n < 0
OBVIOUS

\* A number from 1 to n - 1 is not a multiple of n.
LEMMA SmallRemainder ==
    ASSUME NEW n \in Nat \ {0}, NEW a \in 1..(n - 1) PROVE a % n # 0
OBVIOUS

\* Sums of multiples of n are multiples of n.
LEMMA AddMultiple ==
    ASSUME NEW n \in Nat \ {0}, NEW a \in Nat, NEW b \in Nat, a % n = 0, b % n = 0
    PROVE  (a + b) % n = 0
<1>1. a = n * (a \div n) /\ b = n * (b \div n) /\ a \div n \in Nat /\ b \div n \in Nat
  OBVIOUS
<1>2. a + b = ((a \div n) + (b \div n)) * n + 0
  BY <1>1
<1>. DEFINE q == (a \div n) + (b \div n)
<1>3. q \in Nat /\ a + b = q * n
  BY <1>1, <1>2
<1>. HIDE DEF q
<1>. QED
  BY <1>3, MultipleIs

\* Differences of multiples of n are multiples of n.
LEMMA SubMultiple ==
    ASSUME NEW n \in Nat \ {0}, NEW a \in Nat, NEW b \in Nat, a % n = 0, b % n = 0, b <= a
    PROVE  (a - b) % n = 0
<1>1. a = n * (a \div n) /\ b = n * (b \div n) /\ a \div n \in Nat /\ b \div n \in Nat
  OBVIOUS
<1>2. a - b = ((a \div n) - (b \div n)) * n + 0
  BY <1>1
<1>. DEFINE q == (a \div n) - (b \div n)
<1>3. CASE (a \div n) < (b \div n)
  <2>1. ((a \div n) + 1) * n <= (b \div n) * n
    BY <1>1, <1>3
  <2>. QED
    BY <1>1, <2>1
<1>4. CASE (a \div n) >= (b \div n)
  <2>1. q \in Nat /\ a - b = q * n
    BY <1>1, <1>2, <1>4
  <2>. HIDE DEF q
  <2>. QED
    BY <2>1
<1>. QED
  BY <1>1, <1>3, <1>4

\* Products with a multiple of n are multiples of n.
LEMMA MulMultiple ==
    ASSUME NEW n \in Nat \ {0}, NEW a \in Nat, NEW k \in Nat, a % n = 0
    PROVE  (k * a) % n = 0
<1>1. a = n * (a \div n) /\ a \div n \in Nat
  OBVIOUS
<1>. DEFINE q == k * (a \div n)
<1>2. q \in Nat /\ k * a = q * n
  BY <1>1
<1>. HIDE DEF q
<1>. QED
  BY <1>2

\* What is between two multiples of s determines the quotient.
LEMMA QuotientIs ==
    ASSUME NEW s \in Nat \ {0}, NEW q \in Nat, NEW r \in 0..(s - 1)
    PROVE  (q * s + r) \div s = q
OBVIOUS

\* A multiple of s that is less than one s short of Q * s is Q * s.
LEMMA LastMultiple ==
    ASSUME NEW s \in Nat \ {0}, NEW Q \in Nat, NEW a \in Nat,
           a % s = 0, a <= Q * s, (Q - 1) * s < a
    PROVE  a = Q * s
<1>1. (Q * s) % s = 0 /\ Q * s \in Nat
  BY MulMultiple
<1>2. CASE a < Q * s
  <2>1. a + s <= Q * s
    BY <1>1, <1>2, NextMultiple
  <2>2. (Q - 1) * s = Q * s - s
    OBVIOUS
  <2>. QED
    BY <1>1, <2>1, <2>2
<1>. QED
  BY <1>1, <1>2

-----------------------------------------------------------------------------
(* A buffer arrives *)

\* The slide in effect: it fits the buffers it is checked with, unless the property
\* was set after the start.
LEMMA SlideFits ==
    ASSUME TypeInv, SlideInv, state = "streaming", ~Refused, Slide # 0
    PROVE  /\ Slide \in 1..sample_length
           /\ checked = 0 => sample_length % num_samples = 0
           /\ Adjusts => Slide % num_samples = 0
           /\ checked = 0 /\ ~changed => Slide % num_samples = 0
           /\ ~Adjusts => Slide = sliding_samples
<1>. USE LengthAssumption
<1>. DEFINE n == num_samples
<1>1. n \in Nat \ {0} /\ sliding_length \in 1..sample_length /\ sample_length \in Nat \ {0}
  BY DEF TypeInv
<1>2. checked = 0 => sample_length % n = 0
  BY DEF Refused
<1>3. CASE Adjusts
  <2>. DEFINE q == sliding_length \div n
  <2>1. sliding_length = n * q + (sliding_length % n) /\ q \in Nat /\ sliding_length % n \in 0..(n - 1)
    BY <1>1
  <2>2. Slide = q * n
    BY <1>1, <1>3, <2>1 DEF Slide
  <2>. HIDE DEF q
  <2>3. Slide \in Nat /\ Slide <= sliding_length
    BY <1>1, <2>1, <2>2
  <2>4. Slide % n = 0
    BY <1>1, <2>1, <2>2
  <2>. QED
    BY <1>1, <1>2, <1>3, <2>3, <2>4
<1>4. CASE ~Adjusts
  <2>1. Slide = sliding_samples /\ Slide \in 1..sample_length
    BY <1>1, <1>4 DEF Slide, TypeInv, SlideInv
  <2>2. ASSUME checked = 0, ~changed PROVE Slide % n = 0
    <3>1. Slide = sliding_length
      BY <2>1, <2>2 DEF SlideInv
    <3>2. sliding_length = sample_length \/ sliding_length % n = 0
      BY <1>1, <1>4, <2>2 DEF Adjusts
    <3>. QED
      BY <1>2, <2>2, <3>1, <3>2
  <2>. QED
    BY <1>2, <1>4, <2>1, <2>2
<1>. QED
  BY <1>3, <1>4

\* What the buffer finds, with the slide it brings about.
LEMMA Found ==
    ASSUME TypeInv, SlideInv, FreshInv, WindowInv, Common, checked \in {0, num_samples},
           Slide % num_samples = 0
    PROVE  /\ Fit(num_samples, Slide)
           /\ Placed(Slide)
           /\ sample_length % Slide = 0 => Queued(Slide)
<1>. USE LengthAssumption
<1>1. Fit(num_samples, Slide) /\ Slide \in 1..sample_length
  <2>1. sample_length % num_samples = 0
    <3>1. CASE checked = 0
      BY <3>1 DEF Common, Refused
    <3>2. CASE checked # 0
      BY <3>2 DEF SlideInv
    <3>. QED
      BY <3>1, <3>2
  <2>. QED
    BY <2>1, SlideFits DEF Common, Fit, TypeInv
<1>2. num_samples \in Nat \ {0} /\ state = "streaming" /\ 0 % num_samples = 0 /\ 0 % Slide = 0
  BY <1>1 DEF TypeInv, Common
<1>3. CASE checked = 0
  <2>1. Empty
    BY <1>2, <1>3 DEF FreshInv
  <2>2. /\ Len(audioData) = 0 /\ Len(inferenceStartTime) = 0 /\ Len(windows) = 0
        /\ position = 0 /\ ~startTimeSet
    BY <2>1 DEF Empty
  <2>3. 0 * Slide = 0 /\ (0 - 1) * Slide < 0 /\ sample_length > 0
    BY <1>1, ZeroMultiple
  <2>4. Placed(Slide)
    BY <1>2, <2>2, <2>3 DEF Placed
  <2>5. Queued(Slide)
    BY <1>2, <2>2, <2>3 DEF Queued
  <2>. QED
    BY <1>1, <2>4, <2>5
<1>4. CASE checked # 0
  <2>1. checked = num_samples /\ Slide = sliding_samples
    BY <1>2, <1>4, SlideFits DEF Common, Adjusts
  <2>. QED
    BY <1>1, <1>2, <2>1 DEF WindowInv
<1>. QED
  BY <1>3, <1>4

\* The samples with those of the buffer.
LEMMA SamplesAre ==
    ASSUME TypeInv
    PROVE  /\ Samples \in Seq(Nat)
           /\ Len(Samples) = Len(audioData) + num_samples
           /\ \A i \in 1..Len(audioData) : Samples[i] = audioData[i]
           /\ \A i \in Len(audioData) + 1 .. Len(audioData) + num_samples :
                 Samples[i] = position + (i - Len(audioData)) - 1
<1>. USE LengthAssumption
<1>. DEFINE new == [i \in 1..num_samples |-> position + i - 1]
<1>1. num_samples \in Nat \ {0} /\ position \in Nat /\ audioData \in Seq(Nat)
  BY DEF TypeInv
<1>2. new \in Seq(Nat) /\ Len(new) = num_samples
  BY <1>1
<1>3. \A i \in 1..num_samples : new[i] = position + i - 1
  OBVIOUS
<1>. HIDE DEF new
<1>4. Samples = audioData \o new
  BY DEF Samples, new
<1>5. Samples \in Seq(Nat) /\ Len(Samples) = Len(audioData) + num_samples
  BY <1>1, <1>2, <1>4, ConcatProperties
<1>6. ASSUME NEW i \in 1..Len(audioData) PROVE Samples[i] = audioData[i]
  BY <1>1, <1>2, <1>4
<1>7. ASSUME NEW i \in Len(audioData) + 1 .. Len(audioData) + num_samples
      PROVE  Samples[i] = position + (i - Len(audioData)) - 1
  <2>1. i - Len(audioData) \in 1..num_samples /\ Len(audioData) \in Nat
    BY <1>1
  <2>2. Samples[i] = new[i - Len(audioData)]
    BY <1>1, <1>2, <1>4, <2>1
  <2>. QED
    BY <1>3, <2>1, <2>2
<1>. QED
  BY <1>5, <1>6, <1>7

\* A buffer always leaves a start time for the window it is in.
LEMMA StartTimesSet == ASSUME TypeInv PROVE StartTimes # <<>>
<1>1. Append(inferenceStartTime, position) # <<>>
  <2>1. Len(Append(inferenceStartTime, position)) = Len(inferenceStartTime) + 1
        /\ Len(inferenceStartTime) \in Nat
    BY DEF TypeInv
  <2>. QED
    BY <2>1
<1>2. startTimeSet => inferenceStartTime # <<>>
  BY DEF TypeInv
<1>3. \/ StartTimes = Append(inferenceStartTime, position)
      \/ startTimeSet /\ StartTimes = inferenceStartTime
  BY DEF StartTimes
<1>. QED
  BY <1>1, <1>2, <1>3

\* They go on from those of the window.
LEMMA SamplesPlaced ==
    ASSUME TypeInv, NEW s \in 1..sample_length, Placed(s)
    PROVE  \A i \in 1..Len(Samples) : Samples[i] = Len(windows) * s + i - 1
<1>. USE LengthAssumption
<1>1. num_samples \in Nat \ {0} /\ Len(audioData) \in Nat /\ Len(windows) * s \in Nat
  BY DEF TypeInv
<1>2. ASSUME NEW i \in 1..Len(audioData) PROVE Samples[i] = Len(windows) * s + i - 1
  BY <1>1, SamplesAre DEF Placed
<1>3. ASSUME NEW i \in Len(audioData) + 1 .. Len(audioData) + num_samples
      PROVE  Samples[i] = Len(windows) * s + i - 1
  <2>1. Samples[i] = position + (i - Len(audioData)) - 1
    BY SamplesAre
  <2>2. position = Len(windows) * s + Len(audioData)
    BY DEF Placed
  <2>. QED
    BY <1>1, <2>1, <2>2
<1>. QED
  BY <1>1, <1>2, <1>3, SamplesAre

-----------------------------------------------------------------------------
(* The steps *)

\* The start times with that of the buffer, when a window begins at it.
LEMMA StartTimesAre ==
    ASSUME TypeInv, Fit(num_samples, Slide), Placed(Slide), sample_length % Slide = 0,
           Queued(Slide)
    PROVE  /\ StartTimes \in Seq(Nat)
           /\ Len(StartTimes) * Slide >= Len(audioData) + num_samples
           /\ (Len(StartTimes) - 1) * Slide < Len(audioData) + num_samples
           /\ \A i \in 1..Len(StartTimes) : StartTimes[i] = (Len(windows) + i - 1) * Slide
<1>. USE LengthAssumption
<1>. DEFINE Q == Len(inferenceStartTime)
            a == Len(audioData)
            s == Slide
            n == num_samples
<1>1. /\ n \in Nat \ {0} /\ s \in Nat \ {0} /\ a \in Nat /\ Q \in Nat /\ s % n = 0
      /\ a % n = 0 /\ Q * s >= a /\ (Q - 1) * s < a /\ Len(windows) \in Nat /\ position \in Nat
      /\ inferenceStartTime \in Seq(Nat)
  BY SMTT(30) DEF TypeInv, Fit, Placed, Queued
<1>2. n <= s
  <2>1. 0 % n = 0
    BY <1>1
  <2>. QED
    BY <1>1, <2>1, NextMultiple
<1>3. (~startTimeSet \/ (s < sample_length /\ a % s = 0)) <=> a % s = 0
  <2>1. ~startTimeSet => a % s = 0
    BY DEF Queued
  <2>2. s \in 1..sample_length
    BY DEF Fit
  <2>3. ASSUME s = sample_length, startTimeSet PROVE a % s # 0
    <3>1. a # 0 /\ a < s
      BY <2>3 DEF Placed, Queued
    <3>2. a \in 1..(s - 1)
      BY <1>1, <3>1
    <3>. QED
      BY <1>1, <3>2, SmallRemainder
  <2>. QED
    BY <2>1, <2>2, <2>3
<1>4. CASE a % s = 0
  <2>1. a = Q * s
    BY <1>1, <1>4, LastMultiple
  <2>2. StartTimes = Append(inferenceStartTime, position)
    BY <1>3, <1>4 DEF StartTimes
  <2>3. position = (Len(windows) + Q) * s
    <3>1. position = Len(windows) * s + a
      BY DEF Placed
    <3>. HIDE DEF s, a, Q
    <3>. QED
      BY <1>1, <2>1, <3>1
  <2>4. Len(StartTimes) = Q + 1 /\ StartTimes \in Seq(Nat)
    BY <1>1, <2>2
  <2>5. (Q + 1) * s = Q * s + s /\ (Q + 1) - 1 = Q
    BY <1>1
  <2>6. ASSUME NEW i \in 1..(Q + 1) PROVE StartTimes[i] = (Len(windows) + i - 1) * s
    <3>1. CASE i = Q + 1
      <4>1. StartTimes[i] = position /\ Len(windows) + i - 1 = Len(windows) + Q
        BY <1>1, <2>2, <3>1
      <4>. QED
        BY <2>3, <4>1
    <3>2. CASE i # Q + 1
      <4>1. StartTimes[i] = inferenceStartTime[i] /\ i \in 1..Q
        BY <1>1, <2>2, <3>2, SMTT(30)
      <4>. QED
        BY <4>1 DEF Queued
    <3>. QED
      BY <3>1, <3>2
  <2>7. Len(StartTimes) * s >= a + n /\ (Len(StartTimes) - 1) * s < a + n
    BY <1>1, <1>2, <2>1, <2>4, <2>5
  <2>. QED
    BY <2>4, <2>6, <2>7
<1>5. CASE a % s # 0
  <2>1. StartTimes = inferenceStartTime
    BY <1>3, <1>5 DEF StartTimes
  <2>2. (Q * s) % s = 0 /\ (Q * s) % n = 0 /\ Q * s \in Nat
    <3>. HIDE DEF Q, s, n, a
    <3>1. (Q * s) % s = 0
      BY <1>1, MultipleIs
    <3>2. (Q * s) % n = 0
      BY <1>1, MulMultiple
    <3>. QED
      BY <1>1, <3>1, <3>2
  <2>3. a < Q * s
    BY <1>1, <1>5, <2>2
  <2>4. a + n <= Q * s
    BY <1>1, <2>2, <2>3, NextMultiple
  <2>. HIDE DEF a, s, Q, n
  <2>5. Len(StartTimes) * s >= a + n /\ (Len(StartTimes) - 1) * s < a + n
    BY <1>1, <2>1, <2>2, <2>4 DEF Q
  <2>. QED
    BY <1>1, <2>1, <2>5 DEF Queued, a, s, Q, n
<1>. QED
  BY <1>4, <1>5

\* A buffer that does not fill the window.
LEMMA AddStep ==
    ASSUME TypeInv, AddSamples, Fit(num_samples, Slide), Placed(Slide),
           sample_length % Slide = 0 => Queued(Slide)
    PROVE  /\ Placed(sliding_samples)'
           /\ sample_length % Slide = 0 => Queued(sliding_samples)'
<1>. USE LengthAssumption
<1>1. /\ sliding_samples' = Slide /\ audioData' = Samples /\ windows' = windows
      /\ num_samples' = num_samples /\ position' = position + num_samples
      /\ inferenceStartTime' = StartTimes /\ startTimeSet' = TRUE
      /\ Len(Samples) # sample_length
  BY DEF AddSamples, Common
<1>2. /\ num_samples \in Nat \ {0} /\ Slide \in Nat \ {0} /\ Len(audioData) \in Nat
      /\ Len(windows) \in Nat /\ position \in Nat /\ Len(Samples) = Len(audioData) + num_samples
      /\ sample_length \in Nat \ {0}
  BY SamplesAre DEF TypeInv, Fit
<1>3. Len(Samples) < sample_length /\ Len(Samples) % num_samples = 0
  <2>1. Len(audioData) + num_samples <= sample_length
    BY <1>2, NextMultiple DEF Fit, Placed
  <2>2. num_samples % num_samples = 0
    BY <1>2
  <2>3. (Len(audioData) + num_samples) % num_samples = 0
    BY <1>2, <2>2, AddMultiple DEF Placed
  <2>. QED
    BY <1>1, <1>2, <2>1, <2>3
<1>4. Placed(sliding_samples)'
  <2>1. \A i \in 1..Len(Samples) : Samples[i] = Len(windows) * Slide + i - 1
    BY SamplesPlaced DEF Fit
  <2>2. Len(windows) * Slide \in Nat
    BY <1>2
  <2>. QED
    BY <1>1, <1>2, <1>3, <2>1, <2>2 DEF Placed
<1>5. sample_length % Slide = 0 => Queued(sliding_samples)'
  BY <1>1, <1>2, StartTimesAre DEF Queued
<1>. QED
  BY <1>4, <1>5

\* A buffer that fills the window, on which the inference runs.
LEMMA InferStep ==
    ASSUME TypeInv, Infer, state' = "streaming", Fit(num_samples, Slide), Placed(Slide),
           sample_length % Slide = 0 => Queued(Slide)
    PROVE  /\ Placed(sliding_samples)'
           /\ sample_length % Slide = 0 => Queued(sliding_samples)'
<1>. USE LengthAssumption
<1>. DEFINE s == Slide
            W == Len(windows)
            L == sample_length
<1>1. /\ sliding_samples' = s /\ windows' = Append(windows, Window)
      /\ num_samples' = num_samples /\ position' = position + num_samples
      /\ startTimeSet' = FALSE
      /\ Len(Samples) = L
      /\ s < L => audioData' = SubSeq(Samples, s + 1, L) /\ inferenceStartTime' = Tail(StartTimes)
      /\ s >= L => audioData' = <<>> /\ inferenceStartTime' = <<>>
  BY DEF Infer, Common, Fit
<1>2. /\ num_samples \in Nat \ {0} /\ s \in 1..L /\ Len(audioData) \in Nat
      /\ W \in Nat /\ position \in Nat /\ L = Len(audioData) + num_samples
      /\ L \in Nat \ {0} /\ Samples \in Seq(Nat) /\ W * s \in Nat
  BY <1>1, SamplesAre DEF TypeInv, Fit
<1>3. \A i \in 1..L : Samples[i] = W * s + i - 1
  BY <1>1, SamplesPlaced DEF Fit
<1>4. (W + 1) * s = W * s + s /\ (W + 1) - 1 = W
  BY <1>2
<1>5. /\ Len(windows') = W + 1 /\ windows'[W + 1] = Window
      /\ \A k \in 1..W : windows'[k] = windows[k]
  BY <1>1 DEF TypeInv
<1>6. Len(audioData') = L - s /\ \A i \in 1..(L - s) : audioData'[i] = Samples[s + i]
  <2>1. CASE s < L
    <3>. HIDE DEF s, L
    <3>1. s + 1 \in 1..L + 1 /\ L \in 0..Len(Samples) /\ L - (s + 1) + 1 = L - s
      BY <1>1, <1>2, <2>1
    <3>2. /\ Len(SubSeq(Samples, s + 1, L)) = L - s
          /\ \A i \in 1..(L - s) : SubSeq(Samples, s + 1, L)[i] = Samples[(s + 1) + i - 1]
      BY <1>1, <1>2, <2>1, <3>1, SubSeqProperties
    <3>3. \A i \in 1..(L - s) : (s + 1) + i - 1 = s + i
      BY <1>2
    <3>. QED
      BY <1>1, <2>1, <3>2, <3>3
  <2>2. CASE s = L
    BY <1>1, <1>2, <2>2
  <2>. QED
    BY <1>2, <2>1, <2>2
<1>7. (L - s) % num_samples = 0
  <2>1. L % num_samples = 0 /\ s % num_samples = 0
    BY DEF Fit
  <2>2. L \in Nat /\ s \in Nat /\ s <= L /\ num_samples \in Nat \ {0}
    BY <1>2
  <2>. HIDE DEF s, L
  <2>. QED
    BY <2>1, <2>2, SubMultiple
<1>8. position' = (W + 1) * s + (L - s)
  BY <1>1, <1>2, <1>4 DEF Placed
<1>9. ASSUME NEW i \in 1..(L - s) PROVE audioData'[i] = (W + 1) * s + i - 1
  <2>1. audioData'[i] = Samples[s + i] /\ s + i \in 1..L
    <3>1. s \in Nat /\ L \in Nat /\ i \in Nat /\ i <= L - s /\ i >= 1 /\ s >= 1
      BY <1>2
    <3>2. s + i \in 1..L
      BY <3>1
    <3>. QED
      BY <1>6, <3>2
  <2>2. Samples[s + i] = W * s + (s + i) - 1
    BY <1>3, <2>1
  <2>. HIDE DEF s, W, L
  <2>. QED
    BY <1>2, <1>4, <2>1, <2>2
<1>10. ASSUME NEW k \in 1..(W + 1)
       PROVE  /\ Len(windows'[k].samples) = L
              /\ \A i \in 1..L : windows'[k].samples[i] = (k - 1) * s + i - 1
  <2>1. CASE k = W + 1
    <3>1. windows'[k].samples = Samples
      BY <1>5, <2>1 DEF Window
    <3>. QED
      BY <1>1, <1>2, <1>3, <1>4, <2>1, <3>1
  <2>2. CASE k # W + 1
    <3>1. k \in 1..W
      BY <1>2, <2>2
    <3>. QED
      BY <1>5, <3>1 DEF Placed
  <2>. QED
    BY <2>1, <2>2
<1>11. Placed(sliding_samples)'
  <2>1. L - s < L /\ (L - s) + s >= L
    BY <1>2
  <2>. HIDE DEF s, W, L
  <2>2. Len(audioData') = L - s /\ Len(windows') = W + 1 /\ sliding_samples' = s
        /\ num_samples' = num_samples /\ sample_length = L
    BY <1>1, <1>5, <1>6 DEF L
  <2>. QED
    BY <1>7, <1>8, <1>9, <1>10, <2>1, <2>2 DEF Placed
<1>12. ASSUME L % s = 0 PROVE Queued(sliding_samples)'
  <2>. DEFINE Q == Len(StartTimes)
  <2>1. /\ StartTimes \in Seq(Nat) /\ Q * s >= L /\ (Q - 1) * s < L
        /\ \A i \in 1..Q : StartTimes[i] = (W + i - 1) * s
    BY <1>2, <1>12, StartTimesAre
  <2>2. Q \in Nat /\ Q # 0
    <3>1. Q \in Nat
      BY <2>1
    <3>2. Q = 0 => Q * s = 0
      BY <1>2
    <3>. QED
      BY <1>2, <2>1, <3>1, <3>2
  <2>3. Head(StartTimes) = W * s /\ Q >= 1
    BY <1>2, <2>1, <2>2
  <2>4. (Q - 1) * s = Q * s - s /\ (Q - 2) * s = (Q - 1) * s - s /\ (Q - 1) - 1 = Q - 2
    BY <1>2, <2>2
  <2>5. (L - s) % s = 0 /\ 0 % s = 0
    <3>1. s % s = 0
      BY <1>2
    <3>2. L \in Nat /\ s \in Nat \ {0} /\ s <= L
      BY <1>2
    <3>3. 0 % s = 0
      BY <3>2
    <3>. HIDE DEF s, L
    <3>. QED
      BY <1>12, <3>1, <3>2, <3>3, SubMultiple
  <2>6. ASSUME NEW k \in 1..(W + 1)
        PROVE  windows'[k].startTime = (k - 1) * s /\ windows'[k].endTime = (k - 1) * s + L
    <3>1. CASE k = W + 1
      BY <1>4, <1>5, <2>3, <3>1 DEF Window
    <3>2. CASE k # W + 1
      <4>1. k \in 1..W
        BY <1>2, <3>2
      <4>. QED
        BY <1>5, <1>12, <4>1 DEF Queued
    <3>. QED
      BY <3>1, <3>2
  <2>7. CASE s < L
    <3>1. inferenceStartTime' = Tail(StartTimes)
      BY <1>1, <2>7
    <3>2. Len(inferenceStartTime') = Q - 1
          /\ \A i \in 1..(Q - 1) : inferenceStartTime'[i] = StartTimes[i + 1]
      BY <2>1, <2>2, <3>1
    <3>3. ASSUME NEW i \in 1..(Q - 1)
          PROVE  inferenceStartTime'[i] = ((W + 1) + i - 1) * s
      <4>1. i + 1 \in 1..Q /\ (W + 1) + i - 1 = W + (i + 1) - 1
        BY <1>2, <2>2
      <4>. QED
        BY <2>1, <3>2, <4>1
    <3>4. (Q - 1) * s >= L - s /\ ((Q - 1) - 1) * s < L - s
      BY <1>2, <2>1, <2>2, <2>4
    <3>. HIDE DEF s, W, L, Q
    <3>5. Len(audioData') = L - s /\ Len(windows') = W + 1 /\ sliding_samples' = s
          /\ sample_length = L /\ startTimeSet' = FALSE
      BY <1>1, <1>5, <1>6 DEF L
    <3>. QED
      BY <2>5, <2>6, <3>2, <3>3, <3>4, <3>5 DEF Queued
  <2>8. CASE s = L
    <3>1. Len(inferenceStartTime') = 0 /\ Len(audioData') = 0 /\ 0 * s >= 0 /\ (0 - 1) * s < 0
      BY <1>1, <1>2, <1>6, <2>8
    <3>. HIDE DEF s, W, L, Q
    <3>2. Len(windows') = W + 1 /\ sliding_samples' = s
          /\ sample_length = L /\ startTimeSet' = FALSE
      BY <1>1, <1>5 DEF L
    <3>. QED
      BY <2>5, <2>6, <3>1, <3>2 DEF Queued
  <2>. QED
    BY <1>2, <2>7, <2>8
<1>. QED
  BY <1>11, <1>12

\* The slide the element and its AudioInferImpl have.
LEMMA SlideStep == IInv /\ [Next]_vars => SlideInv'
<1>. SUFFICES ASSUME IInv, [Next]_vars PROVE SlideInv'
  OBVIOUS
<1>. USE LengthAssumption DEF IInv
<1>1. CASE SetProperty
  <2>1. /\ changed' = (changed \/ starts > 0)
        /\ UNCHANGED <<state, starts, num_samples, checked, implVars, position>>
    BY <1>1 DEF SetProperty
  <2>2. ~changed' => state = "stopped" /\ checked = 0
    <3>1. starts > 0 \/ starts = 0
      BY DEF TypeInv
    <3>. QED
      BY <2>1, <3>1 DEF SlideInv
  <2>. QED
    BY <2>1, <2>2 DEF SlideInv, implVars
<1>2. CASE Start
  <2>1. /\ state' = "streaming" /\ sliding_samples' = sliding_length /\ starts' = starts + 1
        /\ UNCHANGED <<checked, sliding_length, changed>>
    BY <1>2 DEF Start
  <2>2. starts' # 0 /\ sliding_length # 0
    BY <2>1 DEF TypeInv
  <2>. QED
    BY <2>1, <2>2 DEF SlideInv
<1>3. CASE Stop \/ Refuse \/ Crash
  <2>1. /\ state = "streaming" /\ state' # "streaming"
        /\ UNCHANGED <<starts, checked, sliding_length, changed>>
    BY <1>3 DEF Stop, Refuse, Crash
  <2>. QED
    BY <2>1 DEF SlideInv
<1>4. CASE AddSamples \/ Infer
  <2>1. Common
    BY <1>4 DEF AddSamples, Infer
  <2>2. /\ Slide \in 1..sample_length
        /\ checked = 0 => sample_length % num_samples = 0
        /\ checked = 0 /\ ~changed => Slide % num_samples = 0
        /\ ~Adjusts => Slide = sliding_samples
        /\ Adjusts => checked = 0
    BY <2>1, SlideFits DEF Common, Adjusts
  <2>3. /\ sliding_samples' = Slide /\ sliding_length' = IF Adjusts THEN Slide ELSE sliding_length
        /\ checked' = IF checked = 0 THEN num_samples ELSE checked
        /\ state = "streaming" /\ UNCHANGED <<starts, changed>>
    BY <2>1 DEF Common
  <2>4. starts # 0 /\ Slide # 0
    BY <2>2, <2>3 DEF SlideInv
  <2>5. ~changed => sliding_samples' = sliding_length'
    BY <2>2, <2>3 DEF SlideInv
  <2>6. sample_length % checked' = 0
    BY <2>2, <2>3 DEF SlideInv
  <2>7. ASSUME ~changed PROVE sliding_length' % checked' = 0
    <3>1. CASE checked = 0
      BY <2>2, <2>3, <2>5, <2>7, <3>1
    <3>2. CASE checked # 0
      BY <2>2, <2>3, <2>7, <3>2 DEF SlideInv
    <3>. QED
      BY <3>1, <3>2
  <2>. QED
    BY <2>3, <2>4, <2>5, <2>6, <2>7 DEF SlideInv
<1>5. CASE UNCHANGED vars
  BY <1>5 DEF vars, implVars, SlideInv
<1>. QED
  BY <1>1, <1>2, <1>3, <1>4, <1>5 DEF Next

\* The types.
LEMMA TypeStep == IInv /\ [Next]_vars => TypeInv'
<1>. SUFFICES ASSUME IInv, [Next]_vars PROVE TypeInv'
  OBVIOUS
<1>. USE LengthAssumption DEF IInv
<1>0. CASE SetProperty
  <2>1. /\ sliding_length' \in 1..sample_length
        /\ changed' = (changed \/ starts > 0)
        /\ UNCHANGED <<state, starts, num_samples, checked, implVars, position>>
    BY <1>0 DEF SetProperty
  <2>2. changed' \in BOOLEAN
    BY <2>1
  <2>. QED
    BY <2>1, <2>2 DEF TypeInv, implVars
<1>1. CASE Start
  <2>1. /\ state' = "streaming" /\ num_samples' \in BufferSize /\ startTimeSet' = FALSE
        /\ sliding_samples' = sliding_length /\ position' = 0
        /\ UNCHANGED <<checked, sliding_length, changed>> /\ starts' = starts + 1
    BY <1>1 DEF Start
  <2>2. audioData' \in Seq(Nat) /\ inferenceStartTime' \in Seq(Nat) /\ windows' \in Seq(Result)
    BY <1>1 DEF Start
  <2>3. starts' \in Nat /\ sliding_length \in 0..sample_length
    BY <2>1 DEF TypeInv
  <2>. QED
    BY <2>1, <2>2, <2>3 DEF TypeInv
<1>2. CASE Stop
  BY <1>2 DEF Stop, TypeInv, implVars
<1>3. CASE Refuse
  BY <1>3 DEF Refuse, TypeInv, implVars
<1>4. CASE Crash
  BY <1>4 DEF Crash, TypeInv, implVars
<1>5. ASSUME Common
      PROVE  /\ num_samples' \in BufferSize /\ checked' \in BufferSize \cup {0}
             /\ sliding_length' \in 1..sample_length /\ sliding_samples' \in 1..sample_length
             /\ position' \in Nat /\ StartTimes \in Seq(Nat) /\ Samples \in Seq(Nat)
             /\ state = "streaming" /\ UNCHANGED <<starts, changed>>
  <2>1. Slide \in 1..sample_length
    BY <1>5, SlideFits DEF Common
  <2>2. StartTimes \in Seq(Nat)
    BY DEF StartTimes, TypeInv
  <2>3. Samples \in Seq(Nat)
    BY SamplesAre
  <2>. QED
    BY <1>5, <2>1, <2>2, <2>3 DEF Common, TypeInv
<1>6. CASE AddSamples
  <2>1. Common
    BY <1>6 DEF AddSamples
  <2>. QED
    <3>1. StartTimes # <<>>
      BY StartTimesSet
    <3>. QED
      BY <1>5, <1>6, <2>1, <3>1 DEF AddSamples, TypeInv
<1>7. CASE Infer
  <2>1. Common
    BY <1>7 DEF Infer
  <2>2. Slide \in 1..sample_length
    BY <2>1, SlideFits DEF Common
  <2>3. Len(StartTimes) # 0 /\ Head(StartTimes) \in Nat /\ Tail(StartTimes) \in Seq(Nat)
    <3>1. StartTimes # <<>>
      BY StartTimesSet
    <3>. QED
      BY <1>5, <2>1, <3>1
  <2>4. audioData' \in Seq(Nat) /\ inferenceStartTime' \in Seq(Nat)
    <3>1. SubSeq(Samples, Slide + 1, Len(Samples)) \in Seq(Nat)
      BY <1>5, <2>1, <2>2
    <3>. QED
      BY <1>7, <2>3, <3>1, EmptySeq DEF Infer
  <2>5. Window \in Result
    <3>1. Head(StartTimes) + sample_length \in Nat
      BY <2>3
    <3>. QED
      BY <1>5, <2>1, <2>3, <3>1 DEF Window, Result
  <2>6. windows' \in Seq(Result)
    <3>1. windows \in Seq(Result)
      BY DEF TypeInv
    <3>2. windows' = Append(windows, Window) \/ windows' = windows
      BY <1>7 DEF Infer
    <3>. QED
      BY <2>5, <3>1, <3>2
  <2>7. state' \in {"streaming", "error"} /\ startTimeSet' = FALSE
    BY <1>5, <1>7, <2>1 DEF Infer
  <2>8. sliding_samples' \in 0..sample_length /\ starts' \in Nat /\ changed' \in BOOLEAN
    BY <1>5, <2>1 DEF TypeInv
  <2>. HIDE DEF IInv
  <2>. QED
    BY <1>5, <2>1, <2>4, <2>6, <2>7, <2>8 DEF TypeInv
<1>8. CASE UNCHANGED vars
  BY <1>8 DEF vars, TypeInv, implVars
<1>. QED
  BY <1>0, <1>1, <1>2, <1>3, <1>4, <1>6, <1>7, <1>8 DEF Next

\* Before the first buffer.
LEMMA FreshStep == IInv /\ [Next]_vars => FreshInv'
<1>. SUFFICES ASSUME IInv, [Next]_vars PROVE FreshInv'
  OBVIOUS
<1>. USE LengthAssumption DEF IInv
<1>0. CASE SetProperty
  BY <1>0 DEF SetProperty, implVars, FreshInv, Empty
<1>1. CASE Start
  BY <1>1 DEF Start, FreshInv, Empty
<1>2. CASE Stop
  BY <1>2 DEF Stop, FreshInv
<1>3. CASE Refuse
  BY <1>3 DEF Refuse, FreshInv
<1>4. CASE Crash
  BY <1>4 DEF Crash, FreshInv
<1>5. Common => checked' # 0
  BY DEF Common, TypeInv
<1>6. CASE AddSamples \/ Infer
  BY <1>5, <1>6 DEF FreshInv, AddSamples, Infer
<1>7. CASE UNCHANGED vars
  BY <1>7 DEF vars, implVars, FreshInv, Empty
<1>. QED
  BY <1>0, <1>1, <1>2, <1>3, <1>4, <1>6, <1>7 DEF Next

\* The windows and the samples.
LEMMA WindowStep == IInv /\ [Next]_vars => WindowInv'
<1>. SUFFICES ASSUME IInv, [Next]_vars PROVE WindowInv'
  OBVIOUS
<1>. USE LengthAssumption DEF IInv
<1>0. CASE SetProperty
  BY <1>0 DEF SetProperty, implVars, WindowInv, Placed, Queued
<1>1. CASE Start
  <2>1. /\ Len(windows') = 0 /\ Len(audioData') = 0 /\ Len(inferenceStartTime') = 0
        /\ position' = 0 /\ ~startTimeSet' /\ sliding_samples' = sliding_length
        /\ sliding_length \in 1..sample_length /\ num_samples' \in BufferSize
    BY <1>1 DEF Start, TypeInv
  <2>2. num_samples' \in Nat \ {0} /\ sliding_length \in Nat \ {0}
    BY <2>1
  <2>3. /\ 0 % num_samples' = 0 /\ 0 % sliding_length = 0
        /\ 0 * sliding_length = 0 /\ (0 - 1) * sliding_length < 0
    BY <2>2, ZeroMultiple
  <2>. HIDE DEF IInv
  <2>4. Placed(sliding_samples)'
    <3>1. 1..Len(audioData') = {} /\ 1..Len(windows') = {}
      BY <2>1
    <3>2. /\ Len(audioData') < sample_length /\ Len(audioData') % num_samples' = 0
          /\ position' = Len(windows') * sliding_samples' + Len(audioData')
      <4>1. Len(audioData') % num_samples' = 0
        BY <2>1, <2>3
      <4>2. position' = 0 * sliding_length + 0
        BY <2>1, <2>3
      <4>3. Len(audioData') < sample_length
        BY <2>1
      <4>. QED
        BY <2>1, <4>1, <4>2, <4>3
    <3>. QED
      BY <2>1, <3>1, <3>2 DEF Placed
  <2>5. Queued(sliding_samples)'
    BY <2>1, <2>2, <2>3 DEF Queued
  <2>. QED
    BY <2>4, <2>5 DEF WindowInv
<1>2. CASE Stop
  BY <1>2 DEF Stop, WindowInv
<1>3. CASE Refuse
  BY <1>3 DEF Refuse, WindowInv
<1>4. CASE Crash
  BY <1>4 DEF Crash, WindowInv
<1>5. ASSUME Common, checked' = num_samples', sliding_samples' % num_samples' = 0
      PROVE  /\ sliding_samples' = Slide /\ Fit(num_samples, Slide) /\ Placed(Slide)
             /\ sample_length % Slide = 0 => Queued(Slide)
  <2>1. checked \in {0, num_samples} /\ sliding_samples' = Slide /\ Slide % num_samples = 0
    BY <1>5 DEF Common
  <2>. QED
    BY <1>5, <2>1, Found
<1>6. CASE AddSamples
  <2>1. Common
    BY <1>6 DEF AddSamples
  <2>. QED
    BY <1>5, <1>6, <2>1, AddStep DEF WindowInv
<1>7. CASE Infer
  <2>1. Common
    BY <1>7 DEF Infer
  <2>. QED
    BY <1>5, <1>7, <2>1, InferStep DEF WindowInv
<1>8. CASE UNCHANGED vars
  BY <1>8 DEF vars, implVars, WindowInv, Placed, Queued
<1>. QED
  BY <1>0, <1>1, <1>2, <1>3, <1>4, <1>6, <1>7, <1>8 DEF Next

-----------------------------------------------------------------------------
(* The theorems *)

\* The element has not been started.
LEMMA InitIInv == Init => IInv
<1>. SUFFICES ASSUME Init PROVE IInv
  OBVIOUS
<1>. USE LengthAssumption DEF Init
<1>1. windows \in Seq(Result) /\ audioData \in Seq(Nat) /\ inferenceStartTime \in Seq(Nat)
  OBVIOUS
<1>2. TypeInv
  <2>1. sliding_length \in 1..sample_length /\ checked = 0 /\ position \in Nat
        /\ sliding_samples = 0 /\ state = "stopped" /\ startTimeSet = FALSE
        /\ starts = 0 /\ changed = FALSE /\ 0 \in 0..sample_length
        /\ num_samples \in BufferSize
    OBVIOUS
  <2>. HIDE DEF Init
  <2>. QED
    BY <1>1, <2>1 DEF TypeInv
<1>3. SlideInv /\ FreshInv /\ WindowInv
  BY DEF SlideInv, FreshInv, WindowInv
<1>. QED
  BY <1>2, <1>3 DEF IInv

\* The invariant is inductive: while the slide fits the checked size, what is kept
\* is what follows the windows inferred on; until the property is set it does fit.
THEOREM AudioInvariant == Spec => []IInv
<1>1. IInv /\ [Next]_vars => IInv'
  BY TypeStep, SlideStep, FreshStep, WindowStep DEF IInv
<1>. QED
  BY InitIInv, <1>1, PTL DEF Spec

\* The invariant gives the number of windows, their samples and their times.
LEMMA KeptByInvariant == IInv => WindowsKept
<1>. SUFFICES ASSUME IInv, checked = num_samples, state = "streaming",
                     ~changed \/ sliding_samples % num_samples = 0
              PROVE  WindowsKept
  BY DEF WindowsKept
<1>. USE LengthAssumption
<1>. DEFINE s == sliding_samples
            W == Len(windows)
            L == sample_length
            a == Len(audioData)
<1>1. Placed(s) /\ (L % s = 0 => Queued(s))
  <2>1. ~changed => s % num_samples = 0
    BY DEF IInv, TypeInv, SlideInv
  <2>. QED
    BY <2>1 DEF IInv, WindowInv
<1>2. /\ s \in 1..L /\ W \in Nat /\ a \in Nat /\ L \in Nat \ {0} /\ position \in Nat
      /\ windows \in Seq(Result)
  BY DEF IInv, TypeInv, SlideInv
<1>3. position = W * s + a /\ a < L /\ (W = 0 \/ a + s >= L)
  BY <1>1 DEF Placed
<1>4. W = IF position < L THEN 0 ELSE ((position - L) \div s) + 1
  <2>. HIDE DEF W, s, L, a
  <2>1. CASE W = 0
    <3>1. position < L
      BY <1>2, <1>3, <2>1
    <3>. QED
      BY <2>1, <3>1
  <2>2. CASE W # 0
    <3>1. W - 1 \in Nat /\ s \in Nat \ {0} /\ (W - 1) * s = W * s - s /\ (W - 1) * s \in Nat
      BY <1>2, <2>2
    <3>2. position - L = (W - 1) * s + (a + s - L) /\ (a + s - L) \in 0..(s - 1)
      BY <1>2, <1>3, <2>2, <3>1
    <3>3. (position - L) \div s = W - 1
      BY <3>1, <3>2, QuotientIs
    <3>4. position >= L
      <4>. DEFINE x == (W - 1) * s
                  r == a + s - L
      <4>1. x \in Nat /\ r \in Nat /\ position - L = x + r
        BY <1>2, <3>1, <3>2
      <4>. HIDE DEF x, r
      <4>. QED
        BY <1>2, <4>1
    <3>. QED
      BY <1>2, <3>3, <3>4
  <2>. QED
    BY <2>1, <2>2
<1>5. ASSUME NEW k \in DOMAIN windows
      PROVE  windows[k].samples = [i \in 1..L |-> (k - 1) * s + i - 1]
  <2>1. k \in 1..W /\ windows[k] \in Result
    BY <1>2
  <2>2. Len(windows[k].samples) = L /\ \A i \in 1..L : windows[k].samples[i] = (k - 1) * s + i - 1
    BY <1>1, <2>1 DEF Placed
  <2>3. windows[k].samples \in [1..L -> Nat]
    BY <2>1, <2>2, LenProperties DEF Result
  <2>. QED
    BY <2>2, <2>3
<1>6. ASSUME NEW k \in DOMAIN windows, L % s = 0 PROVE Timed(windows[k])
  <2>1. k \in 1..W
    BY <1>2
  <2>2. windows[k].startTime = (k - 1) * s /\ windows[k].endTime = (k - 1) * s + L
    BY <1>1, <1>6, <2>1 DEF Queued
  <2>3. windows[k].samples = [i \in 1..L |-> (k - 1) * s + i - 1]
    BY <1>5
  <2>4. (k - 1) * s \in Nat
    <3>1. k - 1 \in Nat /\ s \in Nat
      BY <1>2, <2>1
    <3>. QED
      BY <3>1
  <2>5. /\ Len(windows[k].samples) = L /\ Head(windows[k].samples) = (k - 1) * s
        /\ windows[k].samples[L] = (k - 1) * s + L - 1
    <3>. DEFINE f == [i \in 1..L |-> (k - 1) * s + i - 1]
    <3>1. L \in Nat \ {0} /\ 1 \in 1..L /\ L \in 1..L
      BY <1>2
    <3>2. f[1] = (k - 1) * s /\ f[L] = (k - 1) * s + L - 1
      BY <3>1, <2>4
    <3>3. f \in Seq(Nat) /\ Len(f) = L
      <4>1. \A i \in 1..L : (k - 1) * s + i - 1 \in Nat
        BY <2>4, <3>1
      <4>. QED
        BY <3>1, <4>1
    <3>4. Head(f) = f[1]
      BY <3>3, <3>1
    <3>. QED
      BY <2>3, <3>2, <3>3, <3>4
  <2>. QED
    BY <1>2, <2>2, <2>4, <2>5 DEF Timed
<1>. QED
  BY <1>4, <1>5, <1>6 DEF WindowsKept

\* Of a stream of the checked size no window is missed, each begins one slide after
\* the one before it, and each has its own time when the window is a multiple of
\* the slide (AudioInferImpl::addSamples, setStartTime, fillAudioFrame): whatever the
\* sizes, as long as the slide was not set after the start or fits the buffers.
THEOREM WindowsAreKept == Spec => []WindowsKept
BY AudioInvariant, KeptByInvariant, PTL

=============================================================================
