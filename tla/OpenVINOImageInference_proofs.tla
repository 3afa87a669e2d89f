------------------- MODULE OpenVINOImageInference_proofs --------------------
(***************************************************************************)
(* Proofs about OpenVINOImageInference, for any number of requests, images *)
(* and threads and any batch size.                                         *)
(***************************************************************************)
EXTENDS OpenVINOImageInference, FiniteSetTheorems, TLAPS

-----------------------------------------------------------------------------
(* The queue operations *)

\* pop(): the head leaves, the others move up one place.
LEMMA PopFacts ==
    ASSUME NEW S, NEW q \in Seq(S), q # <<>>
    PROVE  /\ 1 \in DOMAIN q
           /\ Head(q) = q[1]
           /\ Head(q) \in S
           /\ Tail(q) \in Seq(S)
           /\ \A k \in DOMAIN Tail(q) : k + 1 \in DOMAIN q /\ Tail(q)[k] = q[k + 1] /\ k \in Nat \ {0}
           /\ \A k \in DOMAIN q : k \in Nat /\ (k # 1 => k - 1 \in DOMAIN Tail(q) /\ Tail(q)[k - 1] = q[k])
OBVIOUS

\* push(t): t is the last, the others keep their places.
LEMMA PushFacts ==
    ASSUME NEW S, NEW q \in Seq(S), NEW x \in S
    PROVE  /\ Append(q, x) \in Seq(S)
           /\ \A k \in DOMAIN Append(q, x) :
                 \/ k \in DOMAIN q /\ Append(q, x)[k] = q[k]
                 \/ k \notin DOMAIN q /\ k = Len(q) + 1 /\ Append(q, x)[k] = x
           /\ \A k \in DOMAIN q : k \in DOMAIN Append(q, x) /\ Append(q, x)[k] = q[k]
           /\ Len(q) + 1 \in DOMAIN Append(q, x) /\ Append(q, x)[Len(q) + 1] = x
OBVIOUS

\* push_front(t): t is the first, the others move down one place.
LEMMA PushFrontFacts ==
    ASSUME NEW S, NEW q \in Seq(S), NEW x \in S
    PROVE  /\ <<x>> \o q \in Seq(S)
           /\ 1 \in DOMAIN (<<x>> \o q) /\ (<<x>> \o q)[1] = x
           /\ \A k \in DOMAIN (<<x>> \o q) :
                 \/ k = 1
                 \/ k - 1 \in DOMAIN q /\ (<<x>> \o q)[k] = q[k - 1] /\ k \in Nat
           /\ \A k \in DOMAIN q : k \in Nat /\ k + 1 \in DOMAIN (<<x>> \o q) /\ (<<x>> \o q)[k + 1] = q[k]
OBVIOUS

-----------------------------------------------------------------------------
(* The counter *)

\* A batch still to be counted is part of what the counter stands for.
LEMMA OutstandingFacts ==
    ASSUME TypeOK
    PROVE  /\ Outstanding \subseteq Image
           /\ IsFiniteSet(Outstanding)
           /\ Cardinality(Outstanding) \in Nat
           /\ \A batch \in uncounted : batch \subseteq Outstanding
<1>1. Outstanding \subseteq Image
  BY DEF TypeOK, Outstanding
<1>2. IsFiniteSet(Outstanding)
  BY <1>1, FS_Subset, ImageAssumption
<1>3. Cardinality(Outstanding) \in Nat
  BY <1>2, FS_CardinalityType
<1>4. \A batch \in uncounted : batch \subseteq Outstanding
  BY DEF TypeOK, Outstanding
<1>. QED
  BY <1>1, <1>2, <1>3, <1>4

\* A batch is finite and not larger than what contains it.
LEMMA BatchFinite ==
    ASSUME NEW batch \in SUBSET Image
    PROVE  IsFiniteSet(batch) /\ Cardinality(batch) \in Nat
BY FS_Subset, FS_CardinalityType, ImageAssumption

\* What a part leaves of a finite set.
LEMMA SubsetSize ==
    ASSUME NEW S, IsFiniteSet(S), NEW batch \in SUBSET S
    PROVE  /\ Cardinality(batch) \in Nat
           /\ Cardinality(batch) <= Cardinality(S)
           /\ Cardinality(S \ batch) = Cardinality(S) - Cardinality(batch)
<1>1. IsFiniteSet(batch) /\ Cardinality(batch) <= Cardinality(S)
  BY FS_Subset
<1>2. Cardinality(S \ batch) = Cardinality(S) - Cardinality(S \cap batch)
  BY FS_Difference
<1>3. S \cap batch = batch
  OBVIOUS
<1>. QED
  BY <1>1, <1>2, <1>3, FS_CardinalityType

-----------------------------------------------------------------------------
(* Types *)

\* A thread that has a request, or submits an image, has it in its locals.
LEMMA LocalFacts ==
    ASSUME TypeOK, LockInv, NEW t \in Thread
    PROVE  /\ pc[t] \in {"prepare", "put"} => request[t] \in Request
           /\ pc[t] \in InSubmit => user_data[t] \in Image /\ status[user_data[t]] = "submitting"
BY DEF TypeOK, LockInv

\* Every step keeps the variables in their types.
LEMMA TypeStep == IInv /\ [Next]_vars => TypeOK'
<1>. SUFFICES ASSUME IInv, [Next]_vars PROVE TypeOK'
  OBVIOUS
<1>1. ASSUME NEW t \in Thread, NEW i \in Image, SubmitLock(t, i) PROVE TypeOK'
  BY <1>1 DEF SubmitLock, IInv, TypeOK, LockInv, poolVars, threadVars, Stage, InSubmit, InFlush, Status, Leave, Pop
<1>2. ASSUME NEW t \in Thread, SubmitPop(t) PROVE TypeOK'
  BY <1>2 DEF SubmitPop, IInv, TypeOK, LockInv, poolVars, threadVars, Stage, InSubmit, InFlush, Status, Leave, Pop
<1>3. ASSUME NEW t \in Thread, SubmitAdd(t) PROVE TypeOK'
  <2>1. request[t] \in Request /\ user_data[t] \in Image
    BY <1>3, LocalFacts DEF SubmitAdd, IInv, InSubmit
  <2>2. freeRequests \in Seq(Request)
    BY DEF IInv, TypeOK
  <2>3. freeRequests' \in Seq(Request)
    BY <1>3, <2>1, <2>2, PushFrontFacts, SMTT(30) DEF SubmitAdd
  <2>4. buffers' \in [Request -> SUBSET Image]
    BY <1>3, <2>1 DEF SubmitAdd, IInv, TypeOK
  <2>5. engine' \in [Request -> {"idle", "running", "reported"}]
    BY <1>3, <2>1 DEF SubmitAdd, IInv, TypeOK
  <2>. QED
    BY <1>3, <2>1, <2>3, <2>4, <2>5 DEF SubmitAdd, IInv, TypeOK, Leave, Stage, Status
<1>4. ASSUME NEW t \in Thread, SubmitThrow(t) PROVE TypeOK'
  BY <1>4 DEF SubmitThrow, IInv, TypeOK, LockInv, poolVars, threadVars, Stage, InSubmit, InFlush, Status, Leave, Pop
<1>5. ASSUME NEW r \in Request, NEW o \in {"completed", "failed"}, CallbackReport(r, o) PROVE TypeOK'
  BY <1>5 DEF CallbackReport, IInv, TypeOK, LockInv, poolVars, threadVars, Stage, InSubmit, InFlush, Status, Leave, Pop
<1>6. ASSUME NEW r \in Request, CallbackThrow(r) PROVE TypeOK'
  BY <1>6 DEF CallbackThrow, IInv, TypeOK, LockInv, poolVars, threadVars, Stage, InSubmit, InFlush, Status, Leave, Pop
<1>7. ASSUME NEW r \in Request, CallbackReturn(r) PROVE TypeOK'
  BY <1>7 DEF CallbackReturn, IInv, TypeOK, LockInv, poolVars, threadVars, Stage, InSubmit, InFlush, Status, Leave, Pop
<1>8. ASSUME NEW b \in uncounted \cup unnotified, CallbackCount(b) PROVE TypeOK'
  BY <1>8, OutstandingFacts, BatchFinite, SubsetSize, ZenonT(30) DEF CallbackCount, IInv, TypeOK, CounterExact, poolVars, threadVars
<1>9. ASSUME NEW b \in uncounted \cup unnotified, CallbackNotify(b) PROVE TypeOK'
  BY <1>9 DEF CallbackNotify, IInv, TypeOK, LockInv, poolVars, threadVars, Stage, InSubmit, InFlush, Status, Leave, Pop
<1>10. ASSUME NEW t \in Thread, FlushLock(t) PROVE TypeOK'
  BY <1>10 DEF FlushLock, IInv, TypeOK, LockInv, poolVars, threadVars, Stage, InSubmit, InFlush, Status, Leave, Pop
<1>11. ASSUME NEW t \in Thread, FlushCheck(t) PROVE TypeOK'
  BY <1>11 DEF FlushCheck, IInv, TypeOK, LockInv, poolVars, threadVars, Stage, InSubmit, InFlush, Status, Leave, Pop
<1>12. ASSUME NEW t \in Thread, FlushReturn(t) PROVE TypeOK'
  BY <1>12 DEF FlushReturn, IInv, TypeOK, LockInv, poolVars, threadVars, Stage, InSubmit, InFlush, Status, Leave, Pop
<1>13. ASSUME NEW t \in Thread, FlushTake(t) PROVE TypeOK'
  BY <1>13 DEF FlushTake, IInv, TypeOK, LockInv, poolVars, threadVars, Stage, InSubmit, InFlush, Status, Leave, Pop
<1>14. ASSUME NEW t \in Thread, FlushPut(t) PROVE TypeOK'
  BY <1>14, SMTT(30) DEF FlushPut, IInv, TypeOK, LockInv, poolVars, threadVars, Stage, InSubmit, InFlush, Status, Leave, Pop
<1>15. ASSUME NEW t \in Thread, FlushAwait(t) PROVE TypeOK'
  BY <1>15 DEF FlushAwait, IInv, TypeOK, LockInv, poolVars, threadVars, Stage, InSubmit, InFlush, Status, Leave, Pop
<1>16. ASSUME NEW t \in Thread, FlushTimeout(t) PROVE TypeOK'
  BY <1>16 DEF FlushTimeout, IInv, TypeOK, LockInv, poolVars, threadVars, Stage, InSubmit, InFlush, Status, Leave, Pop
<1>17. ASSUME NEW t \in Thread, CloseBegin(t) PROVE TypeOK'
  BY <1>17 DEF CloseBegin, IInv, TypeOK, LockInv, poolVars, threadVars, Stage, InSubmit, InFlush, Status, Leave, Pop
<1>18. ASSUME NEW t \in Thread, CloseDrain(t) PROVE TypeOK'
  BY <1>18 DEF CloseDrain, IInv, TypeOK, LockInv, poolVars, threadVars, Stage, InSubmit, InFlush, Status, Leave, Pop
<1>19. ASSUME NEW t \in Thread, CloseEnd(t) PROVE TypeOK'
  BY <1>19 DEF CloseEnd, IInv, TypeOK, LockInv, poolVars, threadVars, Stage, InSubmit, InFlush, Status, Leave, Pop
<1>20. CASE UNCHANGED vars
  BY <1>20 DEF vars, IInv, TypeOK, LockInv, poolVars, threadVars, Stage, InSubmit, InFlush, Status, Leave, Pop
<1>. QED
  BY <1>1, <1>2, <1>3, <1>4, <1>5, <1>6, <1>7, <1>8, <1>9, <1>10, <1>11, <1>12, <1>13, <1>14, <1>15, <1>16, <1>17, <1>18, <1>19, <1>20
  DEF Next, Submitting, Flushing, Closing, Callback, CallbackTail

-----------------------------------------------------------------------------
(* The lock *)

\* Every step keeps one call at a time, with its locals.
LEMMA LockStep == IInv /\ [Next]_vars => LockInv'
<1>. SUFFICES ASSUME IInv, [Next]_vars PROVE LockInv'
  OBVIOUS
<1>1. ASSUME NEW t \in Thread, NEW i \in Image, SubmitLock(t, i) PROVE LockInv'
  BY <1>1, NullAssumption, LocalFacts DEF SubmitLock, IInv, TypeOK, LockInv, poolVars, threadVars, Stage, InSubmit, InFlush, Leave, Pop
<1>2. ASSUME NEW t \in Thread, SubmitPop(t) PROVE LockInv'
  BY <1>2, NullAssumption, PopFacts DEF SubmitPop, IInv, TypeOK, LockInv, poolVars, threadVars, Stage, InSubmit, InFlush, Leave, Pop
<1>3. ASSUME NEW t \in Thread, SubmitAdd(t) PROVE LockInv'
  BY <1>3, NullAssumption, LocalFacts DEF SubmitAdd, IInv, TypeOK, LockInv, poolVars, threadVars, Stage, InSubmit, InFlush, Leave, Pop
<1>4. ASSUME NEW t \in Thread, SubmitThrow(t) PROVE LockInv'
  BY <1>4, NullAssumption, LocalFacts DEF SubmitThrow, IInv, TypeOK, LockInv, poolVars, threadVars, Stage, InSubmit, InFlush, Leave, Pop
<1>5. ASSUME NEW r \in Request, NEW o \in {"completed", "failed"}, CallbackReport(r, o) PROVE LockInv'
  BY <1>5 DEF CallbackReport, BatchInv, IInv, TypeOK, LockInv, poolVars, threadVars, Stage, InSubmit, InFlush, Leave, Pop
<1>6. ASSUME NEW r \in Request, CallbackThrow(r) PROVE LockInv'
  BY <1>6 DEF CallbackThrow, IInv, TypeOK, LockInv, poolVars, threadVars, Stage, InSubmit, InFlush, Leave, Pop
<1>7. ASSUME NEW r \in Request, CallbackReturn(r) PROVE LockInv'
  BY <1>7 DEF CallbackReturn, IInv, TypeOK, LockInv, poolVars, threadVars, Stage, InSubmit, InFlush, Leave, Pop
<1>8. ASSUME NEW b \in uncounted \cup unnotified, CallbackCount(b) PROVE LockInv'
  BY <1>8 DEF CallbackCount, IInv, TypeOK, LockInv, poolVars, threadVars, Stage, InSubmit, InFlush, Leave, Pop
<1>9. ASSUME NEW b \in uncounted \cup unnotified, CallbackNotify(b) PROVE LockInv'
  BY <1>9 DEF CallbackNotify, IInv, TypeOK, LockInv, poolVars, threadVars, Stage, InSubmit, InFlush, Leave, Pop
<1>10. ASSUME NEW t \in Thread, FlushLock(t) PROVE LockInv'
  BY <1>10, NullAssumption, LocalFacts DEF FlushLock, IInv, TypeOK, LockInv, poolVars, threadVars, Stage, InSubmit, InFlush, Leave, Pop
<1>11. ASSUME NEW t \in Thread, FlushCheck(t) PROVE LockInv'
  BY <1>11 DEF FlushCheck, IInv, TypeOK, LockInv, poolVars, threadVars, Stage, InSubmit, InFlush, Leave, Pop
<1>12. ASSUME NEW t \in Thread, FlushReturn(t) PROVE LockInv'
  BY <1>12, NullAssumption, LocalFacts DEF FlushReturn, IInv, TypeOK, LockInv, poolVars, threadVars, Stage, InSubmit, InFlush, Leave, Pop
<1>13. ASSUME NEW t \in Thread, FlushTake(t) PROVE LockInv'
  BY <1>13, NullAssumption, PopFacts DEF FlushTake, IInv, TypeOK, LockInv, poolVars, threadVars, Stage, InSubmit, InFlush, Leave, Pop
<1>14. ASSUME NEW t \in Thread, FlushPut(t) PROVE LockInv'
  BY <1>14, NullAssumption, LocalFacts DEF FlushPut, IInv, TypeOK, LockInv, poolVars, threadVars, Stage, InSubmit, InFlush, Leave, Pop
<1>15. ASSUME NEW t \in Thread, FlushAwait(t) PROVE LockInv'
  BY <1>15 DEF FlushAwait, IInv, TypeOK, LockInv, poolVars, threadVars, Stage, InSubmit, InFlush, Leave, Pop
<1>16. ASSUME NEW t \in Thread, FlushTimeout(t) PROVE LockInv'
  BY <1>16 DEF FlushTimeout, IInv, TypeOK, LockInv, poolVars, threadVars, Stage, InSubmit, InFlush, Leave, Pop
<1>17. ASSUME NEW t \in Thread, CloseBegin(t) PROVE LockInv'
  BY <1>17 DEF CloseBegin, IInv, TypeOK, LockInv, poolVars, threadVars, Stage, InSubmit, InFlush, Leave, Pop
<1>18. ASSUME NEW t \in Thread, CloseDrain(t) PROVE LockInv'
  BY <1>18 DEF CloseDrain, IInv, TypeOK, LockInv, poolVars, threadVars, Stage, InSubmit, InFlush, Leave, Pop
<1>19. ASSUME NEW t \in Thread, CloseEnd(t) PROVE LockInv'
  BY <1>19 DEF CloseEnd, IInv, TypeOK, LockInv, poolVars, threadVars, Stage, InSubmit, InFlush, Leave, Pop
<1>20. CASE UNCHANGED vars
  BY <1>20 DEF vars, IInv, TypeOK, LockInv, poolVars, threadVars, Stage, InSubmit, InFlush, Leave, Pop
<1>. QED
  BY <1>1, <1>2, <1>3, <1>4, <1>5, <1>6, <1>7, <1>8, <1>9, <1>10, <1>11, <1>12, <1>13, <1>14, <1>15, <1>16, <1>17, <1>18, <1>19, <1>20
  DEF Next, Submitting, Flushing, Closing, Callback, CallbackTail

-----------------------------------------------------------------------------
(* The batches *)

\* A request in the hands of a thread is not in the engine, nor in the queue.
LEMMA HeldFacts ==
    ASSUME TypeOK, LockInv, RequestConservation, NEW t \in Thread, pc[t] \in {"prepare", "put"}
    PROVE  /\ engine[request[t]] = "idle"
           /\ request[t] \notin reset
           /\ ~InQueue(request[t])
<1>1. request[t] \in Request
  BY LocalFacts
<1>2. Held(request[t])
  BY DEF Held
<1>. QED
  BY <1>1, <1>2 DEF RequestConservation

\* Every step keeps the batches disjoint and the status of their images.
LEMMA BatchStep == IInv /\ [Next]_vars => BatchInv'
<1>. SUFFICES ASSUME IInv, [Next]_vars PROVE BatchInv'
  OBVIOUS
<1>1. ASSUME NEW t \in Thread, NEW i \in Image, SubmitLock(t, i) PROVE BatchInv'
  BY <1>1 DEF SubmitLock, IInv, TypeOK, LockInv, BatchInv, poolVars, threadVars, Leave, Pop
<1>2. ASSUME NEW t \in Thread, SubmitPop(t) PROVE BatchInv'
  BY <1>2 DEF SubmitPop, IInv, TypeOK, LockInv, BatchInv, poolVars, threadVars, Leave, Pop
<1>3. ASSUME NEW t \in Thread, SubmitAdd(t) PROVE BatchInv'
  <2>1. request[t] \in Request /\ user_data[t] \in Image
    BY <1>3, LocalFacts DEF SubmitAdd, IInv, InSubmit
  <2>2. status[user_data[t]] = "submitting"
    BY <1>3, LocalFacts DEF SubmitAdd, IInv, InSubmit
  <2>3. engine[request[t]] = "idle"
    BY <1>3, <2>1, HeldFacts DEF SubmitAdd, IInv
  <2>4. \A r \in Request : user_data[t] \notin buffers[r]
    BY <2>2 DEF IInv, BatchInv
  <2>5. \A b \in uncounted : user_data[t] \notin b
    BY <2>2 DEF IInv, BatchInv
  <2>0. buffers \in [Request -> SUBSET Image] /\ uncounted \subseteq SUBSET Image
    BY DEF IInv, TypeOK
  <2>6. /\ \A i \in Image : i \in buffers'[request[t]] <=> i \in buffers[request[t]] \/ i = user_data[t]
        /\ engine'[request[t]] \in {"idle", "running"}
        /\ \A r \in Request \ {request[t]} : buffers'[r] = buffers[r] /\ engine'[r] = engine[r]
        /\ buffers' \in [Request -> SUBSET Image]
    <3>1. buffers' = [buffers EXCEPT ![request[t]] = buffers[request[t]] \cup {user_data[t]}]
      BY <1>3 DEF SubmitAdd
    <3>2. \/ engine' = engine
          \/ engine' = [engine EXCEPT ![request[t]] = "running"]
      BY <1>3 DEF SubmitAdd
    <3>3. engine \in [Request -> {"idle", "running", "reported"}]
      BY DEF IInv, TypeOK
    <3>. QED
      BY <2>1, <2>3, <2>0, <3>1, <3>2, <3>3
  <2>7. \A i \in Image : status'[i] = IF i = user_data[t] THEN "batched" ELSE status[i]
    BY <1>3 DEF SubmitAdd, IInv, TypeOK
  <2>8. uncounted' = uncounted
    BY <1>3 DEF SubmitAdd
  <2>10. \A s \in Request :
            /\ engine'[s] # "idle" => buffers'[s] # {}
            /\ \A i \in buffers'[s] : IF engine'[s] = "reported"
                                         THEN status'[i] \in {"completed", "failed"}
                                         ELSE status'[i] = "batched"
    <3>. TAKE s \in Request
    <3>1. CASE s = request[t]
      BY <3>1, <2>1, <2>3, <2>6, <2>7, <2>0 DEF IInv, BatchInv
    <3>2. CASE s # request[t]
      BY <3>2, <2>1, <2>4, <2>6, <2>7, <2>0 DEF IInv, BatchInv
    <3>. QED
      BY <3>1, <3>2
  <2>11. \A r, s \in Request : r # s => buffers'[r] \cap buffers'[s] = {}
    BY <2>4, <2>6 DEF IInv, BatchInv
  <2>12. \A batch \in uncounted :
            /\ batch # {}
            /\ \A i \in batch : status'[i] \in {"completed", "failed"}
            /\ \A r \in Request : batch \cap buffers'[r] = {}
    BY <2>5, <2>6, <2>7, <2>0 DEF IInv, BatchInv
  <2>. QED
    BY <2>8, <2>10, <2>11, <2>12 DEF IInv, BatchInv
<1>4. ASSUME NEW t \in Thread, SubmitThrow(t) PROVE BatchInv'
  <2>1. user_data[t] \in Image /\ status[user_data[t]] = "submitting"
    BY <1>4, LocalFacts DEF SubmitThrow, IInv, InSubmit
  <2>. QED
    BY <1>4, <2>1 DEF SubmitThrow, IInv, TypeOK, LockInv, BatchInv, poolVars, threadVars, Leave, Pop
<1>5. ASSUME NEW r \in Request, NEW o \in {"completed", "failed"}, CallbackReport(r, o) PROVE BatchInv'
  BY <1>5 DEF CallbackReport, IInv, TypeOK, LockInv, BatchInv, poolVars, threadVars, Leave, Pop
<1>6. ASSUME NEW r \in Request, CallbackThrow(r) PROVE BatchInv'
  BY <1>6 DEF CallbackThrow, IInv, TypeOK, LockInv, BatchInv, poolVars, threadVars, Leave, Pop
<1>7. ASSUME NEW r \in Request, CallbackReturn(r) PROVE BatchInv'
  BY <1>7 DEF CallbackReturn, IInv, TypeOK, LockInv, BatchInv, poolVars, threadVars, Leave, Pop
<1>8. ASSUME NEW b \in uncounted \cup unnotified, CallbackCount(b) PROVE BatchInv'
  BY <1>8 DEF CallbackCount, IInv, TypeOK, LockInv, BatchInv, poolVars, threadVars, Leave, Pop
<1>9. ASSUME NEW b \in uncounted \cup unnotified, CallbackNotify(b) PROVE BatchInv'
  BY <1>9 DEF CallbackNotify, IInv, TypeOK, LockInv, BatchInv, poolVars, threadVars, Leave, Pop
<1>10. ASSUME NEW t \in Thread, FlushLock(t) PROVE BatchInv'
  BY <1>10 DEF FlushLock, IInv, TypeOK, LockInv, BatchInv, poolVars, threadVars, Leave, Pop
<1>11. ASSUME NEW t \in Thread, FlushCheck(t) PROVE BatchInv'
  BY <1>11 DEF FlushCheck, IInv, TypeOK, LockInv, BatchInv, poolVars, threadVars, Leave, Pop
<1>12. ASSUME NEW t \in Thread, FlushReturn(t) PROVE BatchInv'
  BY <1>12 DEF FlushReturn, IInv, TypeOK, LockInv, BatchInv, poolVars, threadVars, Leave, Pop
<1>13. ASSUME NEW t \in Thread, FlushTake(t) PROVE BatchInv'
  BY <1>13 DEF FlushTake, IInv, TypeOK, LockInv, BatchInv, poolVars, threadVars, Leave, Pop
<1>14. ASSUME NEW t \in Thread, FlushPut(t) PROVE BatchInv'
  <2>1. request[t] \in Request
    BY <1>14, LocalFacts DEF FlushPut, IInv
  <2>2. engine[request[t]] = "idle"
    BY <1>14, <2>1, HeldFacts DEF FlushPut, IInv
  <2>. QED
    BY <1>14, <2>1, <2>2 DEF FlushPut, IInv, TypeOK, LockInv, BatchInv, poolVars, threadVars, Leave, Pop
<1>15. ASSUME NEW t \in Thread, FlushAwait(t) PROVE BatchInv'
  BY <1>15 DEF FlushAwait, IInv, TypeOK, LockInv, BatchInv, poolVars, threadVars, Leave, Pop
<1>16. ASSUME NEW t \in Thread, FlushTimeout(t) PROVE BatchInv'
  BY <1>16 DEF FlushTimeout, IInv, TypeOK, LockInv, BatchInv, poolVars, threadVars, Leave, Pop
<1>17. ASSUME NEW t \in Thread, CloseBegin(t) PROVE BatchInv'
  BY <1>17 DEF CloseBegin, IInv, TypeOK, LockInv, BatchInv, poolVars, threadVars, Leave, Pop
<1>18. ASSUME NEW t \in Thread, CloseDrain(t) PROVE BatchInv'
  BY <1>18 DEF CloseDrain, IInv, TypeOK, LockInv, BatchInv, poolVars, threadVars, Leave, Pop
<1>19. ASSUME NEW t \in Thread, CloseEnd(t) PROVE BatchInv'
  BY <1>19 DEF CloseEnd, IInv, TypeOK, LockInv, BatchInv, poolVars, threadVars, Leave, Pop
<1>20. CASE UNCHANGED vars
  BY <1>20 DEF vars, IInv, TypeOK, LockInv, BatchInv, poolVars, threadVars, Leave, Pop
<1>. QED
  BY <1>1, <1>2, <1>3, <1>4, <1>5, <1>6, <1>7, <1>8, <1>9, <1>10, <1>11, <1>12, <1>13, <1>14, <1>15, <1>16, <1>17, <1>18, <1>19, <1>20
  DEF Next, Submitting, Flushing, Closing, Callback, CallbackTail

-----------------------------------------------------------------------------
(* The counter is exact *)

\* Every step keeps requests_processing_ equal to the number of images outstanding.
LEMMA CounterStep == IInv /\ [Next]_vars => CounterExact'
<1>. SUFFICES ASSUME IInv, [Next]_vars PROVE CounterExact'
  OBVIOUS
<1>1. ASSUME NEW t \in Thread, NEW i \in Image, SubmitLock(t, i) PROVE CounterExact'
  <2>1. i \notin Outstanding
    BY <1>1 DEF SubmitLock, Outstanding, IInv, BatchInv
  <2>2. Outstanding' = Outstanding \cup {i}
    BY <1>1 DEF SubmitLock, Outstanding, poolVars, IInv, TypeOK
  <2>3. Cardinality(Outstanding') = Cardinality(Outstanding) + 1
    BY <2>1, <2>2, OutstandingFacts, FS_AddElement DEF IInv
  <2>. QED
    BY <1>1, <2>3 DEF SubmitLock, IInv, CounterExact
<1>2. ASSUME NEW t \in Thread, SubmitPop(t) PROVE CounterExact'
  <2>1. Outstanding' = Outstanding
    BY <1>2 DEF SubmitPop, Outstanding, poolVars, threadVars, IInv, TypeOK, BatchInv
  <2>. QED
    BY <1>2, <2>1 DEF SubmitPop, IInv, CounterExact, poolVars
<1>3. ASSUME NEW t \in Thread, SubmitAdd(t) PROVE CounterExact'
  <2>1. request[t] \in Request /\ user_data[t] \in Image /\ status[user_data[t]] = "submitting"
    BY <1>3, LocalFacts DEF SubmitAdd, IInv, InSubmit
  <2>2. Outstanding' = Outstanding
    BY <1>3, <2>1 DEF SubmitAdd, Outstanding, poolVars, IInv, TypeOK
  <2>. QED
    BY <1>3, <2>2 DEF SubmitAdd, IInv, CounterExact, poolVars
<1>4. ASSUME NEW t \in Thread, SubmitThrow(t) PROVE CounterExact'
  <2>1. request[t] \in Request /\ user_data[t] \in Image /\ status[user_data[t]] = "submitting"
    BY <1>4, LocalFacts DEF SubmitThrow, IInv, InSubmit
  <2>2. Outstanding' = Outstanding
    BY <1>4, <2>1 DEF SubmitThrow, Outstanding, poolVars, IInv, TypeOK
  <2>. QED
    BY <1>4, <2>2 DEF SubmitThrow, IInv, CounterExact, poolVars
<1>5. ASSUME NEW r \in Request, NEW o \in {"completed", "failed"}, CallbackReport(r, o) PROVE CounterExact'
  <2>1. Outstanding' = Outstanding
    BY <1>5 DEF CallbackReport, Outstanding, poolVars, threadVars, IInv, TypeOK, BatchInv
  <2>. QED
    BY <1>5, <2>1 DEF CallbackReport, IInv, CounterExact, poolVars
<1>6. ASSUME NEW r \in Request, CallbackThrow(r) PROVE CounterExact'
  <2>1. Outstanding' = Outstanding
    BY <1>6 DEF CallbackThrow, Outstanding, poolVars, threadVars, IInv, TypeOK, BatchInv
  <2>. QED
    BY <1>6, <2>1 DEF CallbackThrow, IInv, CounterExact, poolVars
<1>7. ASSUME NEW r \in Request, CallbackReturn(r) PROVE CounterExact'
  <2>1. Outstanding' = Outstanding
    BY <1>7 DEF CallbackReturn, Outstanding, poolVars, threadVars, IInv, TypeOK, BatchInv
  <2>. QED
    BY <1>7, <2>1 DEF CallbackReturn, IInv, CounterExact, poolVars
<1>8. ASSUME NEW b \in uncounted \cup unnotified, CallbackCount(b) PROVE CounterExact'
  <2>1. Outstanding' = Outstanding \ b
    BY <1>8 DEF CallbackCount, Outstanding, poolVars, threadVars, IInv, TypeOK, BatchInv
  <2>2. b \subseteq Outstanding
    BY <1>8, OutstandingFacts DEF CallbackCount, IInv
  <2>3. Cardinality(Outstanding') = Cardinality(Outstanding) - Cardinality(b)
    BY <2>1, <2>2, OutstandingFacts, SubsetSize DEF IInv
  <2>. QED
    BY <1>8, <2>3 DEF CallbackCount, IInv, CounterExact
<1>9. ASSUME NEW b \in uncounted \cup unnotified, CallbackNotify(b) PROVE CounterExact'
  <2>1. Outstanding' = Outstanding
    BY <1>9 DEF CallbackNotify, Outstanding, poolVars, threadVars, IInv, TypeOK, BatchInv
  <2>. QED
    BY <1>9, <2>1 DEF CallbackNotify, IInv, CounterExact, poolVars
<1>10. ASSUME NEW t \in Thread, FlushLock(t) PROVE CounterExact'
  <2>1. Outstanding' = Outstanding
    BY <1>10 DEF FlushLock, Outstanding, poolVars, threadVars, IInv, TypeOK, BatchInv
  <2>. QED
    BY <1>10, <2>1 DEF FlushLock, IInv, CounterExact, poolVars
<1>11. ASSUME NEW t \in Thread, FlushCheck(t) PROVE CounterExact'
  <2>1. Outstanding' = Outstanding
    BY <1>11 DEF FlushCheck, Outstanding, poolVars, threadVars, IInv, TypeOK, BatchInv
  <2>. QED
    BY <1>11, <2>1 DEF FlushCheck, IInv, CounterExact, poolVars
<1>12. ASSUME NEW t \in Thread, FlushReturn(t) PROVE CounterExact'
  <2>1. Outstanding' = Outstanding
    BY <1>12 DEF FlushReturn, Outstanding, poolVars, threadVars, IInv, TypeOK, BatchInv
  <2>. QED
    BY <1>12, <2>1 DEF FlushReturn, IInv, CounterExact, poolVars
<1>13. ASSUME NEW t \in Thread, FlushTake(t) PROVE CounterExact'
  <2>1. Outstanding' = Outstanding
    BY <1>13 DEF FlushTake, Outstanding, poolVars, threadVars, IInv, TypeOK, BatchInv
  <2>. QED
    BY <1>13, <2>1 DEF FlushTake, IInv, CounterExact, poolVars
<1>14. ASSUME NEW t \in Thread, FlushPut(t) PROVE CounterExact'
  <2>1. Outstanding' = Outstanding
    BY <1>14 DEF FlushPut, Outstanding, poolVars, threadVars, IInv, TypeOK, BatchInv
  <2>. QED
    BY <1>14, <2>1 DEF FlushPut, IInv, CounterExact, poolVars
<1>15. ASSUME NEW t \in Thread, FlushAwait(t) PROVE CounterExact'
  <2>1. Outstanding' = Outstanding
    BY <1>15 DEF FlushAwait, Outstanding, poolVars, threadVars, IInv, TypeOK, BatchInv
  <2>. QED
    BY <1>15, <2>1 DEF FlushAwait, IInv, CounterExact, poolVars
<1>16. ASSUME NEW t \in Thread, FlushTimeout(t) PROVE CounterExact'
  <2>1. Outstanding' = Outstanding
    BY <1>16 DEF FlushTimeout, Outstanding, poolVars, threadVars, IInv, TypeOK, BatchInv
  <2>. QED
    BY <1>16, <2>1 DEF FlushTimeout, IInv, CounterExact, poolVars
<1>17. ASSUME NEW t \in Thread, CloseBegin(t) PROVE CounterExact'
  <2>1. Outstanding' = Outstanding
    BY <1>17 DEF CloseBegin, Outstanding, poolVars, threadVars, IInv, TypeOK, BatchInv
  <2>. QED
    BY <1>17, <2>1 DEF CloseBegin, IInv, CounterExact, poolVars
<1>18. ASSUME NEW t \in Thread, CloseDrain(t) PROVE CounterExact'
  <2>1. Outstanding' = Outstanding
    BY <1>18 DEF CloseDrain, Outstanding, poolVars, threadVars, IInv, TypeOK, BatchInv
  <2>. QED
    BY <1>18, <2>1 DEF CloseDrain, IInv, CounterExact, poolVars
<1>19. ASSUME NEW t \in Thread, CloseEnd(t) PROVE CounterExact'
  <2>1. Outstanding' = Outstanding
    BY <1>19 DEF CloseEnd, Outstanding, poolVars, threadVars, IInv, TypeOK, BatchInv
  <2>. QED
    BY <1>19, <2>1 DEF CloseEnd, IInv, CounterExact, poolVars
<1>20. CASE UNCHANGED vars
  BY <1>20 DEF vars, Outstanding, IInv, CounterExact
<1>. QED
  BY <1>1, <1>2, <1>3, <1>4, <1>5, <1>6, <1>7, <1>8, <1>9, <1>10, <1>11, <1>12, <1>13, <1>14, <1>15, <1>16, <1>17, <1>18, <1>19, <1>20
  DEF Next, Submitting, Flushing, Closing, Callback, CallbackTail

-----------------------------------------------------------------------------
(* Where the requests are *)

\* What pop leaves in the queue: everything but the head, and no open batch.
LEMMA QueuePop ==
    ASSUME TypeOK, RequestConservation, OpenBatchAtHead, freeRequests # <<>>,
           freeRequests' = Tail(freeRequests)
    PROVE  /\ Head(freeRequests) \in Request
           /\ InQueue(Head(freeRequests))
           /\ \A k, l \in DOMAIN freeRequests' : freeRequests'[k] = freeRequests'[l] => k = l
           /\ \A k \in DOMAIN freeRequests' :
                 freeRequests'[k] # Head(freeRequests) /\ buffers[freeRequests'[k]] = {}
           /\ \A r \in Request : InQueue(r)' <=> InQueue(r) /\ r # Head(freeRequests)
<1>1. freeRequests \in Seq(Request)
  BY DEF TypeOK
<1>2. \A k, l \in DOMAIN freeRequests : freeRequests[k] = freeRequests[l] => k = l
  BY DEF RequestConservation
<1>3. \A k \in DOMAIN freeRequests : buffers[freeRequests[k]] # {} => k = 1
  BY DEF OpenBatchAtHead
<1>4. /\ 1 \in DOMAIN freeRequests
      /\ Head(freeRequests) = freeRequests[1]
      /\ Head(freeRequests) \in Request
      /\ \A k \in DOMAIN freeRequests' :
            k + 1 \in DOMAIN freeRequests /\ freeRequests'[k] = freeRequests[k + 1] /\ k \in Nat \ {0}
      /\ \A k \in DOMAIN freeRequests :
            k \in Nat /\ (k # 1 => k - 1 \in DOMAIN freeRequests' /\ freeRequests'[k - 1] = freeRequests[k])
  BY <1>1, PopFacts
<1>5. InQueue(Head(freeRequests))
  BY <1>4 DEF InQueue
<1>6. \A k, l \in DOMAIN freeRequests' : freeRequests'[k] = freeRequests'[l] => k = l
  BY <1>2, <1>4
<1>7. \A k \in DOMAIN freeRequests' :
         freeRequests'[k] # Head(freeRequests) /\ buffers[freeRequests'[k]] = {}
  BY <1>2, <1>3, <1>4
<1>8. \A r \in Request : InQueue(r)' <=> InQueue(r) /\ r # Head(freeRequests)
  <2>. TAKE r \in Request
  <2>1. ASSUME NEW k \in DOMAIN freeRequests', freeRequests'[k] = r
        PROVE  InQueue(r) /\ r # Head(freeRequests)
    BY <2>1, <1>4, <1>7 DEF InQueue
  <2>2. ASSUME NEW k \in DOMAIN freeRequests, freeRequests[k] = r, r # Head(freeRequests)
        PROVE  InQueue(r)'
    <3>1. k - 1 \in DOMAIN freeRequests' /\ freeRequests'[k - 1] = r
      BY <2>2, <1>4
    <3>. QED
      BY <3>1 DEF InQueue
  <2>. QED
    BY <2>1, <2>2 DEF InQueue
<1>. QED
  BY <1>4, <1>5, <1>6, <1>7, <1>8

\* What push makes of the queue: one more request, after the others.
LEMMA QueuePush ==
    ASSUME TypeOK, RequestConservation, NEW x \in Request, ~InQueue(x),
           freeRequests' = Append(freeRequests, x)
    PROVE  /\ \A k, l \in DOMAIN freeRequests' : freeRequests'[k] = freeRequests'[l] => k = l
           /\ \A k \in DOMAIN freeRequests' :
                 \/ k \in DOMAIN freeRequests /\ freeRequests'[k] = freeRequests[k]
                 \/ freeRequests'[k] = x
           /\ \A r \in Request : InQueue(r)' <=> InQueue(r) \/ r = x
<1>1. freeRequests \in Seq(Request)
  BY DEF TypeOK
<1>2. \A k, l \in DOMAIN freeRequests : freeRequests[k] = freeRequests[l] => k = l
  BY DEF RequestConservation
<1>3. /\ \A k \in DOMAIN freeRequests' :
            \/ k \in DOMAIN freeRequests /\ freeRequests'[k] = freeRequests[k]
            \/ k \notin DOMAIN freeRequests /\ k = Len(freeRequests) + 1 /\ freeRequests'[k] = x
      /\ \A k \in DOMAIN freeRequests : k \in DOMAIN freeRequests' /\ freeRequests'[k] = freeRequests[k]
      /\ Len(freeRequests) + 1 \in DOMAIN freeRequests' /\ freeRequests'[Len(freeRequests) + 1] = x
  BY <1>1, PushFacts
<1>4. \A k \in DOMAIN freeRequests : freeRequests[k] # x
  BY DEF InQueue
<1>5. \A k, l \in DOMAIN freeRequests' : freeRequests'[k] = freeRequests'[l] => k = l
  BY <1>2, <1>3, <1>4
<1>6. \A r \in Request : InQueue(r)' <=> InQueue(r) \/ r = x
  BY <1>3 DEF InQueue
<1>. QED
  BY <1>3, <1>5, <1>6

\* What push_front makes of the queue: one more request, before the others.
LEMMA QueuePushFront ==
    ASSUME TypeOK, RequestConservation, NEW x \in Request, ~InQueue(x),
           freeRequests' = <<x>> \o freeRequests
    PROVE  /\ \A k, l \in DOMAIN freeRequests' : freeRequests'[k] = freeRequests'[l] => k = l
           /\ \A k \in DOMAIN freeRequests' :
                 \/ k = 1 /\ freeRequests'[k] = x
                 \/ \E l \in DOMAIN freeRequests : freeRequests'[k] = freeRequests[l]
           /\ \A r \in Request : InQueue(r)' <=> InQueue(r) \/ r = x
<1>1. freeRequests \in Seq(Request)
  BY DEF TypeOK
<1>2. \A k, l \in DOMAIN freeRequests : freeRequests[k] = freeRequests[l] => k = l
  BY DEF RequestConservation
<1>3. /\ 1 \in DOMAIN freeRequests' /\ freeRequests'[1] = x
      /\ \A k \in DOMAIN freeRequests' :
            \/ k = 1
            \/ k - 1 \in DOMAIN freeRequests /\ freeRequests'[k] = freeRequests[k - 1] /\ k \in Nat
      /\ \A k \in DOMAIN freeRequests :
            k \in Nat /\ k + 1 \in DOMAIN freeRequests' /\ freeRequests'[k + 1] = freeRequests[k]
  BY <1>1, PushFrontFacts
<1>4. \A k \in DOMAIN freeRequests : freeRequests[k] # x
  BY DEF InQueue
<1>5. \A k, l \in DOMAIN freeRequests' : freeRequests'[k] = freeRequests'[l] => k = l
  BY <1>2, <1>3, <1>4
<1>6. \A r \in Request : InQueue(r)' <=> InQueue(r) \/ r = x
  <2>. TAKE r \in Request
  <2>1. InQueue(r)' => InQueue(r) \/ r = x
    BY <1>3 DEF InQueue
  <2>2. ASSUME NEW k \in DOMAIN freeRequests, freeRequests[k] = r
        PROVE  InQueue(r)'
    <3>1. k + 1 \in DOMAIN freeRequests' /\ freeRequests'[k + 1] = r
      BY <2>2, <1>3
    <3>. QED
      BY <3>1 DEF InQueue
  <2>3. InQueue(x)'
    BY <1>3 DEF InQueue
  <2>. QED
    BY <2>1, <2>2, <2>3 DEF InQueue
<1>. QED
  BY <1>3, <1>5, <1>6

\* A thread takes a request, or lets go of the one it has.
LEMMA HeldTake ==
    ASSUME TypeOK, NEW t \in Thread, request[t] = NULL, NEW x \in Request,
           request' = [request EXCEPT ![t] = x]
    PROVE  \A r \in Request : Held(r)' <=> Held(r) \/ r = x
BY NullAssumption DEF TypeOK, Held

\* A thread gives up the request it holds.
LEMMA HeldLeave ==
    ASSUME TypeOK, RequestConservation, NEW t \in Thread, request[t] \in Request,
           request' = [request EXCEPT ![t] = NULL]
    PROVE  \A r \in Request : Held(r)' <=> Held(r) /\ r # request[t]
BY NullAssumption DEF TypeOK, Held, RequestConservation

\* Where every request is, and why one may be missing.
RequestInv == RequestConservation /\ LossInv

\* Every step keeps each request in one place, and loses none but by an exception.
LEMMA RequestStep == IInv /\ [Next]_vars => RequestInv'
<1>. SUFFICES ASSUME IInv, [Next]_vars PROVE RequestInv'
  OBVIOUS
<1>1. ASSUME NEW t \in Thread, NEW i \in Image, SubmitLock(t, i) PROVE RequestInv'
  BY <1>1 DEF SubmitLock, RequestInv, IInv, TypeOK, RequestConservation, LossInv, Lost, InQueue, Held, poolVars, threadVars
<1>2. ASSUME NEW t \in Thread, SubmitPop(t) PROVE RequestInv'
  <2>. DEFINE h == Head(freeRequests)
  <2>1. freeRequests # <<>> /\ freeRequests' = Tail(freeRequests)
    BY <1>2 DEF SubmitPop, Pop
  <2>2. /\ h \in Request /\ InQueue(h)
        /\ \A k, l \in DOMAIN freeRequests' : freeRequests'[k] = freeRequests'[l] => k = l
        /\ \A r \in Request : InQueue(r)' <=> InQueue(r) /\ r # h
    BY <2>1, QueuePop DEF IInv
  <2>3. request[t] = NULL /\ request' = [request EXCEPT ![t] = h]
    BY <1>2 DEF SubmitPop, Pop, IInv, LockInv
  <2>4. \A r \in Request : Held(r)' <=> Held(r) \/ r = h
    BY <2>2, <2>3, HeldTake DEF IInv
  <2>5. ~Held(h) /\ engine[h] = "idle" /\ h \notin reset
    BY <2>2 DEF IInv, RequestConservation
  <2>6. \A u, v \in Thread : request'[u] = request'[v] /\ request'[u] # NULL => u = v
    BY <2>3, <2>5 DEF IInv, TypeOK, RequestConservation, Held
  <2>7. UNCHANGED <<engine, reset, buffers, status>>
    BY <1>2 DEF SubmitPop
  <2>8. LossInv'
    BY <2>2, <2>4, <2>7 DEF IInv, LossInv, Lost
  <2>. QED
    BY <2>2, <2>4, <2>5, <2>6, <2>7, <2>8 DEF RequestInv, IInv, RequestConservation, LossInv
<1>3. ASSUME NEW t \in Thread, SubmitAdd(t) PROVE RequestInv'
  <2>. DEFINE x == request[t]
  <2>1. x \in Request /\ engine[x] = "idle" /\ x \notin reset /\ ~InQueue(x)
    BY <1>3, LocalFacts, HeldFacts DEF SubmitAdd, IInv
  <2>2. request' = [request EXCEPT ![t] = NULL] /\ UNCHANGED reset
    BY <1>3 DEF SubmitAdd, Leave
  <2>3. \A r \in Request : Held(r)' <=> Held(r) /\ r # x
    BY <2>1, <2>2, HeldLeave DEF IInv
  <2>4. \A u, v \in Thread : request'[u] = request'[v] /\ request'[u] # NULL => u = v
    BY <2>2 DEF IInv, TypeOK, RequestConservation
  <2>7. /\ \A r \in Request \ {x} : buffers'[r] = buffers[r]
        /\ \A i \in Image : status[i] = "thrown" => status'[i] = "thrown"
    BY <1>3, <2>1, LocalFacts DEF SubmitAdd, IInv, TypeOK, InSubmit
  <2>5. CASE freeRequests' = freeRequests /\ engine' = [engine EXCEPT ![x] = "running"]
    <3>1. \A r \in Request : InQueue(r)' <=> InQueue(r)
      BY <2>5 DEF InQueue
    <3>2. \A r \in Request : engine'[r] = IF r = x THEN "running" ELSE engine[r]
      BY <2>1, <2>5 DEF IInv, TypeOK
    <3>3. \A r \in Request : Lost(r)' => Lost(r) /\ r # x
      BY <2>1, <2>2, <2>3, <3>1, <3>2 DEF Lost
    <3>4. LossInv'
      BY <3>3, <2>7 DEF LossInv, IInv
    <3>. QED
      BY <2>1, <2>2, <2>3, <2>4, <2>5, <3>1, <3>2, <3>4 DEF RequestInv, IInv, RequestConservation, LossInv
  <2>6. CASE freeRequests' = <<x>> \o freeRequests /\ engine' = engine
    <3>1. /\ \A k, l \in DOMAIN freeRequests' : freeRequests'[k] = freeRequests'[l] => k = l
          /\ \A r \in Request : InQueue(r)' <=> InQueue(r) \/ r = x
      BY <2>1, <2>6, QueuePushFront DEF IInv
    <3>2. \A r \in Request : Lost(r)' => Lost(r) /\ r # x
      BY <2>1, <2>2, <2>3, <2>6, <3>1 DEF Lost
    <3>3. LossInv'
      BY <3>2, <2>7 DEF LossInv, IInv
    <3>. QED
      BY <2>1, <2>2, <2>3, <2>4, <2>6, <3>1, <3>3 DEF RequestInv, IInv, RequestConservation, LossInv
  <2>. QED
    BY <1>3, <2>5, <2>6 DEF SubmitAdd
<1>4. ASSUME NEW t \in Thread, SubmitThrow(t) PROVE RequestInv'
  <2>. DEFINE x == request[t]
  <2>1. x \in Request /\ engine[x] = "idle" /\ x \notin reset /\ ~InQueue(x)
    BY <1>4, LocalFacts, HeldFacts DEF SubmitThrow, IInv
  <2>2. request' = [request EXCEPT ![t] = NULL] /\ UNCHANGED reset
    BY <1>4 DEF SubmitThrow, Leave
  <2>3. \A r \in Request : Held(r)' <=> Held(r) /\ r # x
    BY <2>1, <2>2, HeldLeave DEF IInv
  <2>4. \A u, v \in Thread : request'[u] = request'[v] /\ request'[u] # NULL => u = v
    BY <2>2 DEF IInv, TypeOK, RequestConservation
  <2>5. UNCHANGED <<freeRequests, buffers, engine>> /\ MayThrow
    BY <1>4 DEF SubmitThrow, poolVars
  <2>6. \A r \in Request : InQueue(r)' <=> InQueue(r)
    BY <2>5 DEF InQueue
  <2>7. user_data[t] \in Image /\ status'[user_data[t]] = "thrown"
    BY <1>4, LocalFacts DEF SubmitThrow, IInv, TypeOK, InSubmit
  <2>8. LossInv'
    BY <2>5, <2>7 DEF LossInv
  <2>. QED
    BY <2>1, <2>2, <2>3, <2>4, <2>5, <2>6, <2>8 DEF RequestInv, IInv, RequestConservation, LossInv
<1>5. ASSUME NEW r \in Request, NEW o \in {"completed", "failed"}, CallbackReport(r, o) PROVE RequestInv'
  <2>1. UNCHANGED <<freeRequests, buffers, request, reset>>
    BY <1>5 DEF CallbackReport, threadVars
  <2>2. \A s \in Request : (InQueue(s)' <=> InQueue(s)) /\ (Held(s)' <=> Held(s))
    BY <2>1 DEF InQueue, Held
  <2>3. /\ engine'[r] = "reported" /\ engine[r] = "running"
        /\ \A s \in Request \ {r} : engine'[s] = engine[s]
    BY <1>5 DEF CallbackReport, IInv, TypeOK
  <2>4. \A i \in Image : status[i] = "thrown" => status'[i] = "thrown"
    BY <1>5 DEF CallbackReport, IInv, BatchInv
  <2>5. LossInv'
    BY <2>1, <2>2, <2>3, <2>4 DEF IInv, LossInv, Lost
  <2>. QED
    BY <2>1, <2>2, <2>3, <2>5 DEF RequestInv, IInv, RequestConservation, LossInv
<1>6. ASSUME NEW r \in Request, CallbackThrow(r) PROVE RequestInv'
  <2>1. buffers[r] # {} /\ MayThrow
    BY <1>6 DEF CallbackThrow, IInv, BatchInv
  <2>2. UNCHANGED <<freeRequests, buffers, request, reset, status>>
    BY <1>6 DEF CallbackThrow, threadVars
  <2>3. \A s \in Request : (InQueue(s)' <=> InQueue(s)) /\ (Held(s)' <=> Held(s))
    BY <2>2 DEF InQueue, Held
  <2>4. /\ engine'[r] = "idle" /\ engine[r] = "running"
        /\ \A s \in Request \ {r} : engine'[s] = engine[s]
    BY <1>6 DEF CallbackThrow, IInv, TypeOK
  <2>5. LossInv'
    BY <2>1, <2>2, <2>3, <2>4 DEF IInv, LossInv, Lost
  <2>. QED
    BY <2>2, <2>3, <2>4, <2>5 DEF RequestInv, IInv, RequestConservation, LossInv
<1>7. ASSUME NEW r \in Request, CallbackReturn(r) PROVE RequestInv'
  <2>1. ~InQueue(r) /\ ~Held(r) /\ r \notin reset
    BY <1>7 DEF CallbackReturn, IInv, RequestConservation
  <2>2. /\ \A k, l \in DOMAIN freeRequests' : freeRequests'[k] = freeRequests'[l] => k = l
        /\ \A s \in Request : InQueue(s)' <=> InQueue(s) \/ s = r
    BY <1>7, <2>1, QueuePush DEF CallbackReturn, IInv
  <2>3. UNCHANGED <<request, reset, status>>
    BY <1>7 DEF CallbackReturn, threadVars
  <2>4. \A s \in Request : Held(s)' <=> Held(s)
    BY <2>3 DEF Held
  <2>5. /\ engine'[r] = "idle"
        /\ \A s \in Request \ {r} : engine'[s] = engine[s] /\ buffers'[s] = buffers[s]
    BY <1>7 DEF CallbackReturn, IInv, TypeOK
  <2>6. LossInv'
    BY <2>2, <2>3, <2>4, <2>5 DEF IInv, LossInv, Lost
  <2>. QED
    BY <2>1, <2>2, <2>3, <2>4, <2>5, <2>6 DEF RequestInv, IInv, RequestConservation, LossInv
<1>8. ASSUME NEW b \in uncounted \cup unnotified, CallbackCount(b) PROVE RequestInv'
  BY <1>8 DEF CallbackCount, RequestInv, IInv, TypeOK, RequestConservation, LossInv, Lost, InQueue, Held, poolVars, threadVars
<1>9. ASSUME NEW b \in uncounted \cup unnotified, CallbackNotify(b) PROVE RequestInv'
  BY <1>9 DEF CallbackNotify, RequestInv, IInv, TypeOK, RequestConservation, LossInv, Lost, InQueue, Held, poolVars, threadVars
<1>10. ASSUME NEW t \in Thread, FlushLock(t) PROVE RequestInv'
  BY <1>10 DEF FlushLock, RequestInv, IInv, TypeOK, RequestConservation, LossInv, Lost, InQueue, Held, poolVars, threadVars
<1>11. ASSUME NEW t \in Thread, FlushCheck(t) PROVE RequestInv'
  BY <1>11 DEF FlushCheck, RequestInv, IInv, TypeOK, RequestConservation, LossInv, Lost, InQueue, Held, poolVars, threadVars
<1>12. ASSUME NEW t \in Thread, FlushReturn(t) PROVE RequestInv'
  BY <1>12 DEF FlushReturn, RequestInv, IInv, TypeOK, RequestConservation, LossInv, Lost, InQueue, Held, poolVars, threadVars
<1>13. ASSUME NEW t \in Thread, FlushTake(t) PROVE RequestInv'
  <2>. DEFINE h == Head(freeRequests)
  <2>1. freeRequests # <<>> /\ freeRequests' = Tail(freeRequests)
    BY <1>13 DEF FlushTake, Pop
  <2>2. /\ h \in Request /\ InQueue(h)
        /\ \A k, l \in DOMAIN freeRequests' : freeRequests'[k] = freeRequests'[l] => k = l
        /\ \A r \in Request : InQueue(r)' <=> InQueue(r) /\ r # h
    BY <2>1, QueuePop DEF IInv
  <2>3. request[t] = NULL /\ request' = [request EXCEPT ![t] = h]
    BY <1>13 DEF FlushTake, Pop, IInv, LockInv
  <2>4. \A r \in Request : Held(r)' <=> Held(r) \/ r = h
    BY <2>2, <2>3, HeldTake DEF IInv
  <2>5. ~Held(h) /\ engine[h] = "idle" /\ h \notin reset
    BY <2>2 DEF IInv, RequestConservation
  <2>6. \A u, v \in Thread : request'[u] = request'[v] /\ request'[u] # NULL => u = v
    BY <2>3, <2>5 DEF IInv, TypeOK, RequestConservation, Held
  <2>7. UNCHANGED <<engine, reset, buffers, status>>
    BY <1>13 DEF FlushTake
  <2>8. LossInv'
    BY <2>2, <2>4, <2>7 DEF IInv, LossInv, Lost
  <2>. QED
    BY <2>2, <2>4, <2>5, <2>6, <2>7, <2>8 DEF RequestInv, IInv, RequestConservation, LossInv
<1>14. ASSUME NEW t \in Thread, FlushPut(t) PROVE RequestInv'
  <2>. DEFINE x == request[t]
  <2>1. x \in Request /\ engine[x] = "idle" /\ x \notin reset /\ ~InQueue(x)
    BY <1>14, LocalFacts, HeldFacts DEF FlushPut, IInv
  <2>2. request' = [request EXCEPT ![t] = NULL] /\ UNCHANGED reset
    BY <1>14 DEF FlushPut, Leave
  <2>3. \A r \in Request : Held(r)' <=> Held(r) /\ r # x
    BY <2>1, <2>2, HeldLeave DEF IInv
  <2>4. \A u, v \in Thread : request'[u] = request'[v] /\ request'[u] # NULL => u = v
    BY <2>2 DEF IInv, TypeOK, RequestConservation
  <2>7. UNCHANGED <<buffers, status>>
    BY <1>14 DEF FlushPut
  <2>5. CASE freeRequests' = freeRequests /\ engine' = [engine EXCEPT ![x] = "running"]
    <3>1. \A r \in Request : InQueue(r)' <=> InQueue(r)
      BY <2>5 DEF InQueue
    <3>2. \A r \in Request : engine'[r] = IF r = x THEN "running" ELSE engine[r]
      BY <2>1, <2>5 DEF IInv, TypeOK
    <3>3. \A r \in Request : Lost(r)' => Lost(r) /\ r # x
      BY <2>1, <2>2, <2>3, <3>1, <3>2 DEF Lost
    <3>4. LossInv'
      BY <3>3, <2>7 DEF LossInv, IInv
    <3>. QED
      BY <2>1, <2>2, <2>3, <2>4, <2>5, <3>1, <3>2, <3>4 DEF RequestInv, IInv, RequestConservation, LossInv
  <2>6. CASE freeRequests' = Append(freeRequests, x) /\ engine' = engine
    <3>1. /\ \A k, l \in DOMAIN freeRequests' : freeRequests'[k] = freeRequests'[l] => k = l
          /\ \A r \in Request : InQueue(r)' <=> InQueue(r) \/ r = x
      BY <2>1, <2>6, QueuePush DEF IInv
    <3>2. \A r \in Request : Lost(r)' => Lost(r) /\ r # x
      BY <2>1, <2>2, <2>3, <2>6, <3>1 DEF Lost
    <3>3. LossInv'
      BY <3>2, <2>7 DEF LossInv, IInv
    <3>. QED
      BY <2>1, <2>2, <2>3, <2>4, <2>6, <3>1, <3>3 DEF RequestInv, IInv, RequestConservation, LossInv
  <2>. QED
    BY <1>14, <2>5, <2>6 DEF FlushPut
<1>15. ASSUME NEW t \in Thread, FlushAwait(t) PROVE RequestInv'
  BY <1>15 DEF FlushAwait, RequestInv, IInv, TypeOK, RequestConservation, LossInv, Lost, InQueue, Held, poolVars, threadVars
<1>16. ASSUME NEW t \in Thread, FlushTimeout(t) PROVE RequestInv'
  BY <1>16 DEF FlushTimeout, RequestInv, IInv, TypeOK, RequestConservation, LossInv, Lost, InQueue, Held, poolVars, threadVars
<1>17. ASSUME NEW t \in Thread, CloseBegin(t) PROVE RequestInv'
  BY <1>17 DEF CloseBegin, RequestInv, IInv, TypeOK, RequestConservation, LossInv, Lost, InQueue, Held, poolVars, threadVars
<1>18. ASSUME NEW t \in Thread, CloseDrain(t) PROVE RequestInv'
  <2>. DEFINE h == Head(freeRequests)
  <2>1. /\ h \in Request /\ InQueue(h)
        /\ \A k, l \in DOMAIN freeRequests' : freeRequests'[k] = freeRequests'[l] => k = l
        /\ \A r \in Request : InQueue(r)' <=> InQueue(r) /\ r # h
    BY <1>18, QueuePop DEF CloseDrain, IInv
  <2>2. UNCHANGED <<request, engine, buffers, status>> /\ reset' = reset \cup {h}
    BY <1>18 DEF CloseDrain, threadVars
  <2>3. \A r \in Request : Held(r)' <=> Held(r)
    BY <2>2 DEF Held
  <2>4. ~Held(h) /\ engine[h] = "idle"
    BY <2>1 DEF IInv, RequestConservation
  <2>5. LossInv'
    BY <2>1, <2>2, <2>3 DEF IInv, LossInv, Lost
  <2>. QED
    BY <2>1, <2>2, <2>3, <2>4, <2>5 DEF RequestInv, IInv, RequestConservation, LossInv
<1>19. ASSUME NEW t \in Thread, CloseEnd(t) PROVE RequestInv'
  BY <1>19 DEF CloseEnd, RequestInv, IInv, TypeOK, RequestConservation, LossInv, Lost, InQueue, Held, poolVars, threadVars
<1>20. CASE UNCHANGED vars
  BY <1>20 DEF vars, RequestInv, IInv, RequestConservation, LossInv, Lost, InQueue, Held
<1>. QED
  BY <1>1, <1>2, <1>3, <1>4, <1>5, <1>6, <1>7, <1>8, <1>9, <1>10, <1>11, <1>12, <1>13, <1>14, <1>15, <1>16, <1>17, <1>18, <1>19, <1>20
  DEF Next, Submitting, Flushing, Closing, Callback, CallbackTail

-----------------------------------------------------------------------------
(* The open batch *)

\* Where images gather, and how many.
BatchOpenInv == OpenBatchAtHead /\ OpenInv

\* Only the thread that has the lock has a request.
LEMMA HolderFacts ==
    ASSUME TypeOK, LockInv, NEW t \in Thread, pc[t] \in InSubmit \cup InFlush
    PROVE  /\ requests_mutex_ = t
           /\ \A u \in Thread \ {t} : request[u] = NULL
BY DEF LockInv, InSubmit, InFlush

\* Every step keeps a single batch open, at the head of the queue or in the
\* hands of a thread.
LEMMA OpenStep == IInv /\ [Next]_vars => BatchOpenInv'
<1>. SUFFICES ASSUME IInv, [Next]_vars PROVE BatchOpenInv'
  OBVIOUS
<1>1. ASSUME NEW t \in Thread, NEW i \in Image, SubmitLock(t, i) PROVE BatchOpenInv'
  BY <1>1 DEF SubmitLock, BatchOpenInv, IInv, TypeOK, LockInv, OpenBatchAtHead, OpenInv, InQueue, poolVars, threadVars
<1>2. ASSUME NEW t \in Thread, SubmitPop(t) PROVE BatchOpenInv'
  <2>. DEFINE h == Head(freeRequests)
  <2>1. freeRequests # <<>> /\ freeRequests' = Tail(freeRequests)
    BY <1>2 DEF SubmitPop, Pop
  <2>2. /\ h \in Request /\ InQueue(h)
        /\ \A k \in DOMAIN freeRequests' : freeRequests'[k] # h /\ buffers[freeRequests'[k]] = {}
        /\ \A r \in Request : InQueue(r)' <=> InQueue(r) /\ r # h
    BY <2>1, QueuePop DEF IInv
  <2>3. UNCHANGED buffers /\ request' = [request EXCEPT ![t] = h]
    BY <1>2 DEF SubmitPop, Pop
  <2>4. \A u \in Thread \ {t} : request'[u] = NULL
    BY <1>2, <2>3, HolderFacts DEF SubmitPop, InSubmit, InFlush, IInv, TypeOK
  <2>5. request'[t] = h
    BY <2>3 DEF IInv, TypeOK
  <2>6. OpenInv'
    BY <2>2, <2>3, <2>4, <2>5 DEF IInv, OpenBatchAtHead, OpenInv
  <2>7. OpenBatchAtHead'
    BY <2>2, <2>3 DEF IInv, OpenBatchAtHead
  <2>. QED
    BY <2>6, <2>7 DEF BatchOpenInv
<1>3. ASSUME NEW t \in Thread, SubmitAdd(t) PROVE BatchOpenInv'
  <2>. DEFINE x == request[t]
             i == user_data[t]
  <2>1. x \in Request /\ i \in Image /\ ~InQueue(x)
    BY <1>3, LocalFacts, HeldFacts DEF SubmitAdd, IInv, InSubmit
  <2>2. i \notin buffers[x] /\ buffers[x] \in SUBSET Image
    BY <1>3, <2>1, LocalFacts DEF SubmitAdd, IInv, BatchInv, TypeOK, InSubmit
  <2>3. buffers' = [buffers EXCEPT ![x] = buffers[x] \cup {i}]
    BY <1>3 DEF SubmitAdd
  <2>4. buffers'[x] = buffers[x] \cup {i} /\ \A r \in Request \ {x} : buffers'[r] = buffers[r]
    BY <2>1, <2>3 DEF IInv, TypeOK
  <2>5. Cardinality(buffers'[x]) = Cardinality(buffers[x]) + 1 /\ Cardinality(buffers[x]) \in Nat
    BY <2>2, <2>4, BatchFinite, FS_AddElement
  <2>6. /\ Cardinality(buffers[x]) < batch_size
        /\ \A k \in DOMAIN freeRequests : buffers[freeRequests[k]] = {}
    BY <1>3, <2>1, NullAssumption DEF SubmitAdd, IInv, OpenInv
  <2>7. Cardinality(buffers'[x]) <= batch_size
    BY <2>5, <2>6, BatchAssumption
  <2>8. \A u \in Thread : request'[u] = NULL
    BY <1>3, HolderFacts DEF SubmitAdd, Leave, InSubmit, IInv, TypeOK
  <2>9. OpenInv'
    BY <2>8 DEF OpenInv
  <2>10. \A r \in Request : Cardinality(buffers'[r]) <= batch_size
    BY <2>4, <2>7 DEF IInv, OpenBatchAtHead
  <2>11. \A k \in DOMAIN freeRequests : freeRequests[k] \in Request \ {x}
    BY <2>1 DEF IInv, TypeOK, InQueue
  <2>12. CASE freeRequests' = freeRequests
    <3>1. \A r \in Request : InQueue(r)' <=> InQueue(r)
      BY <2>12 DEF InQueue
    <3>2. \A k \in DOMAIN freeRequests' : buffers'[freeRequests'[k]] = {}
      BY <2>4, <2>6, <2>11, <2>12
    <3>3. \A r \in Request : InQueue(r)' => Cardinality(buffers'[r]) < batch_size
      BY <2>1, <2>4, <3>1 DEF IInv, OpenBatchAtHead
    <3>. QED
      BY <2>9, <2>10, <3>2, <3>3 DEF BatchOpenInv, OpenBatchAtHead
  <2>13. CASE freeRequests' = <<x>> \o freeRequests /\ ~(Cardinality(buffers'[x]) >= batch_size)
    <3>1. /\ \A k \in DOMAIN freeRequests' :
                \/ k = 1 /\ freeRequests'[k] = x
                \/ \E l \in DOMAIN freeRequests : freeRequests'[k] = freeRequests[l]
          /\ \A r \in Request : InQueue(r)' <=> InQueue(r) \/ r = x
      BY <2>1, <2>13, QueuePushFront DEF IInv
    <3>2. \A k \in DOMAIN freeRequests' : buffers'[freeRequests'[k]] # {} => k = 1
      BY <2>4, <2>6, <2>11, <3>1
    <3>3. Cardinality(buffers'[x]) < batch_size
      BY <2>5, <2>13, BatchAssumption
    <3>4. \A r \in Request : InQueue(r)' => Cardinality(buffers'[r]) < batch_size
      BY <2>4, <3>1, <3>3 DEF IInv, OpenBatchAtHead
    <3>. QED
      BY <2>9, <2>10, <3>2, <3>4 DEF BatchOpenInv, OpenBatchAtHead
  <2>. QED
    BY <1>3, <2>12, <2>13 DEF SubmitAdd
<1>4. ASSUME NEW t \in Thread, SubmitThrow(t) PROVE BatchOpenInv'
  <2>1. \A u \in Thread : request'[u] = NULL
    BY <1>4, HolderFacts DEF SubmitThrow, Leave, InSubmit, IInv, TypeOK
  <2>2. UNCHANGED <<freeRequests, buffers>>
    BY <1>4 DEF SubmitThrow, poolVars
  <2>. QED
    BY <2>1, <2>2 DEF BatchOpenInv, IInv, OpenBatchAtHead, OpenInv, InQueue
<1>5. ASSUME NEW r \in Request, NEW o \in {"completed", "failed"}, CallbackReport(r, o) PROVE BatchOpenInv'
  BY <1>5 DEF CallbackReport, BatchOpenInv, IInv, TypeOK, LockInv, OpenBatchAtHead, OpenInv, InQueue, poolVars, threadVars
<1>6. ASSUME NEW r \in Request, CallbackThrow(r) PROVE BatchOpenInv'
  BY <1>6 DEF CallbackThrow, BatchOpenInv, IInv, TypeOK, LockInv, OpenBatchAtHead, OpenInv, InQueue, poolVars, threadVars
<1>7. ASSUME NEW r \in Request, CallbackReturn(r) PROVE BatchOpenInv'
  <2>1. ~InQueue(r) /\ ~Held(r)
    BY <1>7 DEF CallbackReturn, IInv, RequestConservation
  <2>2. UNCHANGED request /\ buffers'[r] = {} /\ \A s \in Request \ {r} : buffers'[s] = buffers[s]
    BY <1>7 DEF CallbackReturn, threadVars, IInv, TypeOK
  <2>3. /\ \A k \in DOMAIN freeRequests' :
              \/ k \in DOMAIN freeRequests /\ freeRequests'[k] = freeRequests[k]
              \/ freeRequests'[k] = r
        /\ \A s \in Request : InQueue(s)' <=> InQueue(s) \/ s = r
    BY <1>7, <2>1, QueuePush DEF CallbackReturn, IInv
  <2>4. Cardinality(buffers'[r]) = 0
    BY <2>2, FS_EmptySet
  <2>5. \A k \in DOMAIN freeRequests : freeRequests[k] \in Request \ {r}
    BY <2>1 DEF InQueue, IInv, TypeOK
  <2>6. OpenBatchAtHead'
    <3>1. \A k \in DOMAIN freeRequests' : buffers'[freeRequests'[k]] # {} => k = 1
      BY <2>2, <2>3, <2>5 DEF IInv, OpenBatchAtHead
    <3>2. \A s \in Request : Cardinality(buffers'[s]) <= batch_size
      BY <2>2, <2>4, BatchAssumption DEF IInv, OpenBatchAtHead
    <3>3. \A s \in Request : InQueue(s)' => Cardinality(buffers'[s]) < batch_size
      BY <2>2, <2>3, <2>4, BatchAssumption DEF IInv, OpenBatchAtHead
    <3>. QED
      BY <3>1, <3>2, <3>3 DEF OpenBatchAtHead
  <2>7. ASSUME NEW t \in Thread, request'[t] # NULL
        PROVE  /\ \A k \in DOMAIN freeRequests' : buffers'[freeRequests'[k]] = {}
               /\ Cardinality(buffers'[request'[t]]) < batch_size
    <3>1. request[t] \in Request \ {r}
      BY <2>1, <2>2, <2>7 DEF Held, IInv, TypeOK
    <3>. QED
      BY <2>2, <2>3, <2>5, <2>7, <3>1 DEF IInv, OpenInv
  <2>. QED
    BY <2>6, <2>7 DEF BatchOpenInv, OpenInv
<1>8. ASSUME NEW b \in uncounted \cup unnotified, CallbackCount(b) PROVE BatchOpenInv'
  BY <1>8 DEF CallbackCount, BatchOpenInv, IInv, TypeOK, LockInv, OpenBatchAtHead, OpenInv, InQueue, poolVars, threadVars
<1>9. ASSUME NEW b \in uncounted \cup unnotified, CallbackNotify(b) PROVE BatchOpenInv'
  BY <1>9 DEF CallbackNotify, BatchOpenInv, IInv, TypeOK, LockInv, OpenBatchAtHead, OpenInv, InQueue, poolVars, threadVars
<1>10. ASSUME NEW t \in Thread, FlushLock(t) PROVE BatchOpenInv'
  BY <1>10 DEF FlushLock, BatchOpenInv, IInv, TypeOK, LockInv, OpenBatchAtHead, OpenInv, InQueue, poolVars, threadVars
<1>11. ASSUME NEW t \in Thread, FlushCheck(t) PROVE BatchOpenInv'
  BY <1>11 DEF FlushCheck, BatchOpenInv, IInv, TypeOK, LockInv, OpenBatchAtHead, OpenInv, InQueue, poolVars, threadVars
<1>12. ASSUME NEW t \in Thread, FlushReturn(t) PROVE BatchOpenInv'
  BY <1>12 DEF FlushReturn, BatchOpenInv, IInv, TypeOK, LockInv, OpenBatchAtHead, OpenInv, InQueue, poolVars, threadVars
<1>13. ASSUME NEW t \in Thread, FlushTake(t) PROVE BatchOpenInv'
  <2>. DEFINE h == Head(freeRequests)
  <2>1. freeRequests # <<>> /\ freeRequests' = Tail(freeRequests)
    BY <1>13 DEF FlushTake, Pop
  <2>2. /\ h \in Request /\ InQueue(h)
        /\ \A k \in DOMAIN freeRequests' : freeRequests'[k] # h /\ buffers[freeRequests'[k]] = {}
        /\ \A r \in Request : InQueue(r)' <=> InQueue(r) /\ r # h
    BY <2>1, QueuePop DEF IInv
  <2>3. UNCHANGED buffers /\ request' = [request EXCEPT ![t] = h]
    BY <1>13 DEF FlushTake, Pop
  <2>4. \A u \in Thread \ {t} : request'[u] = NULL
    BY <1>13, <2>3, HolderFacts DEF FlushTake, InSubmit, InFlush, IInv, TypeOK
  <2>5. request'[t] = h
    BY <2>3 DEF IInv, TypeOK
  <2>6. OpenInv'
    BY <2>2, <2>3, <2>4, <2>5 DEF IInv, OpenBatchAtHead, OpenInv
  <2>7. OpenBatchAtHead'
    BY <2>2, <2>3 DEF IInv, OpenBatchAtHead
  <2>. QED
    BY <2>6, <2>7 DEF BatchOpenInv
<1>14. ASSUME NEW t \in Thread, FlushPut(t) PROVE BatchOpenInv'
  <2>. DEFINE x == request[t]
  <2>1. x \in Request /\ ~InQueue(x) /\ UNCHANGED buffers
    BY <1>14, LocalFacts, HeldFacts DEF FlushPut, IInv
  <2>2. /\ Cardinality(buffers[x]) < batch_size
        /\ \A k \in DOMAIN freeRequests : buffers[freeRequests[k]] = {}
    BY <1>14, <2>1, NullAssumption DEF FlushPut, IInv, OpenInv
  <2>3. \A u \in Thread : request'[u] = NULL
    BY <1>14, HolderFacts DEF FlushPut, InFlush, IInv, TypeOK
  <2>4. OpenInv'
    BY <2>3 DEF OpenInv
  <2>5. CASE freeRequests' = freeRequests
    BY <2>1, <2>4, <2>5 DEF BatchOpenInv, IInv, OpenBatchAtHead, InQueue
  <2>6. CASE freeRequests' = Append(freeRequests, x) /\ buffers[x] = {}
    <3>1. /\ \A k \in DOMAIN freeRequests' :
                \/ k \in DOMAIN freeRequests /\ freeRequests'[k] = freeRequests[k]
                \/ freeRequests'[k] = x
          /\ \A r \in Request : InQueue(r)' <=> InQueue(r) \/ r = x
      BY <2>1, <2>6, QueuePush DEF IInv
    <3>2. OpenBatchAtHead'
      BY <2>1, <2>2, <2>6, <3>1 DEF IInv, OpenBatchAtHead
    <3>. QED
      BY <2>4, <3>2 DEF BatchOpenInv
  <2>. QED
    BY <1>14, <2>5, <2>6 DEF FlushPut
<1>15. ASSUME NEW t \in Thread, FlushAwait(t) PROVE BatchOpenInv'
  BY <1>15 DEF FlushAwait, BatchOpenInv, IInv, TypeOK, LockInv, OpenBatchAtHead, OpenInv, InQueue, poolVars, threadVars
<1>16. ASSUME NEW t \in Thread, FlushTimeout(t) PROVE BatchOpenInv'
  BY <1>16 DEF FlushTimeout, BatchOpenInv, IInv, TypeOK, LockInv, OpenBatchAtHead, OpenInv, InQueue, poolVars, threadVars
<1>17. ASSUME NEW t \in Thread, CloseBegin(t) PROVE BatchOpenInv'
  BY <1>17 DEF CloseBegin, BatchOpenInv, IInv, TypeOK, LockInv, OpenBatchAtHead, OpenInv, InQueue, poolVars, threadVars
<1>18. ASSUME NEW t \in Thread, CloseDrain(t) PROVE BatchOpenInv'
  <2>1. /\ \A k \in DOMAIN freeRequests' : buffers[freeRequests'[k]] = {}
        /\ \A r \in Request : InQueue(r)' => InQueue(r)
    BY <1>18, QueuePop DEF CloseDrain, IInv
  <2>2. UNCHANGED <<buffers, request>>
    BY <1>18 DEF CloseDrain, threadVars
  <2>. QED
    BY <2>1, <2>2 DEF BatchOpenInv, IInv, OpenBatchAtHead, OpenInv
<1>19. ASSUME NEW t \in Thread, CloseEnd(t) PROVE BatchOpenInv'
  BY <1>19 DEF CloseEnd, BatchOpenInv, IInv, TypeOK, LockInv, OpenBatchAtHead, OpenInv, InQueue, poolVars, threadVars
<1>20. CASE UNCHANGED vars
  BY <1>20 DEF vars, BatchOpenInv, IInv, OpenBatchAtHead, OpenInv, InQueue
<1>. QED
  BY <1>1, <1>2, <1>3, <1>4, <1>5, <1>6, <1>7, <1>8, <1>9, <1>10, <1>11, <1>12, <1>13, <1>14, <1>15, <1>16, <1>17, <1>18, <1>19, <1>20
  DEF Next, Submitting, Flushing, Closing, Callback, CallbackTail

-----------------------------------------------------------------------------
(* Close *)

\* When the counter is 0 the pool is at rest: no batch anywhere, no request in
\* the engine, and none lost.
LEMMA RestFacts ==
    ASSUME IInv, requests_processing_ = 0
    PROVE  /\ Outstanding = {}
           /\ \A i \in Image : status[i] \in {"new", "completed", "failed"}
           /\ \A r \in Request : buffers[r] = {} /\ engine[r] = "idle" /\ ~Lost(r)
           /\ uncounted = {}
<1>1. Outstanding = {}
  BY OutstandingFacts, FS_EmptySet DEF IInv, CounterExact
<1>2. \A i \in Image : status[i] \notin {"submitting", "batched", "thrown"}
  BY <1>1 DEF Outstanding
<1>3. \A i \in Image : status[i] \in {"new", "completed", "failed"}
  BY <1>2 DEF IInv, TypeOK, Status
<1>4. \A r \in Request : buffers[r] = {}
  BY <1>1 DEF Outstanding, IInv, TypeOK
<1>5. \A r \in Request : engine[r] = "idle"
  BY <1>4 DEF IInv, BatchInv
<1>6. \A r \in Request : ~Lost(r)
  BY <1>2, <1>4 DEF IInv, LossInv
<1>7. \A batch \in uncounted : batch \subseteq Outstanding /\ batch # {}
  BY OutstandingFacts DEF IInv, BatchInv
<1>8. uncounted = {}
  BY <1>1, <1>7
<1>. QED
  BY <1>1, <1>3, <1>4, <1>5, <1>6, <1>8

\* What Close relies on and what it achieves.
ClosingInv == CloseInv /\ CloseResetsAll

\* Every step keeps the pool at rest while Close empties the queue, and Close
\* ends with every request reset.
LEMMA CloseStep == IInv /\ [Next]_vars => ClosingInv'
<1>. SUFFICES ASSUME IInv, [Next]_vars PROVE ClosingInv'
  OBVIOUS
<1>1. ASSUME NEW t \in Thread, NEW i \in Image, SubmitLock(t, i) PROVE ClosingInv'
  <2>1. \A u \in Thread : pc[u] \notin {"drain", "closed"}
    BY <1>1, NullAssumption DEF SubmitLock, IInv, LockInv
  <2>2. \A u \in Thread : pc'[u] \notin {"drain", "closed"}
    BY <1>1, <2>1 DEF SubmitLock, IInv, TypeOK
  <2>. QED
    BY <2>2 DEF ClosingInv, CloseInv, CloseResetsAll
<1>2. ASSUME NEW t \in Thread, SubmitPop(t) PROVE ClosingInv'
  BY <1>2 DEF SubmitPop, ClosingInv, IInv, TypeOK, LockInv, CloseInv, CloseResetsAll, Pop, poolVars, threadVars
<1>3. ASSUME NEW t \in Thread, SubmitAdd(t) PROVE ClosingInv'
  BY <1>3 DEF SubmitAdd, ClosingInv, IInv, TypeOK, LockInv, CloseInv, CloseResetsAll, Leave, poolVars, threadVars
<1>4. ASSUME NEW t \in Thread, SubmitThrow(t) PROVE ClosingInv'
  BY <1>4 DEF SubmitThrow, ClosingInv, IInv, TypeOK, LockInv, CloseInv, CloseResetsAll, Leave, poolVars, threadVars
<1>5. ASSUME NEW r \in Request, NEW o \in {"completed", "failed"}, CallbackReport(r, o) PROVE ClosingInv'
  BY <1>5 DEF CallbackReport, ClosingInv, IInv, TypeOK, LockInv, CloseInv, CloseResetsAll, poolVars, threadVars
<1>6. ASSUME NEW r \in Request, CallbackThrow(r) PROVE ClosingInv'
  BY <1>6 DEF CallbackThrow, ClosingInv, IInv, TypeOK, LockInv, CloseInv, CloseResetsAll, poolVars, threadVars
<1>7. ASSUME NEW r \in Request, CallbackReturn(r) PROVE ClosingInv'
  BY <1>7 DEF CallbackReturn, ClosingInv, IInv, TypeOK, LockInv, CloseInv, CloseResetsAll, poolVars, threadVars
<1>8. ASSUME NEW b \in uncounted \cup unnotified, CallbackCount(b) PROVE ClosingInv'
  <2>1. b \in uncounted /\ UNCHANGED <<pc, reset>>
    BY <1>8 DEF CallbackCount, threadVars
  <2>2. \A t \in Thread : pc[t] \notin {"drain", "closed"}
    BY <2>1, RestFacts DEF IInv, CloseInv
  <2>. QED
    BY <2>1, <2>2 DEF ClosingInv, CloseInv, CloseResetsAll
<1>9. ASSUME NEW b \in uncounted \cup unnotified, CallbackNotify(b) PROVE ClosingInv'
  <2>1. \A u \in Thread : pc'[u] \in {"drain", "closed"} => pc'[u] = pc[u]
    BY <1>9 DEF CallbackNotify
  <2>2. UNCHANGED <<requests_processing_, reset>>
    BY <1>9 DEF CallbackNotify
  <2>. QED
    BY <2>1, <2>2 DEF ClosingInv, IInv, CloseInv, CloseResetsAll
<1>10. ASSUME NEW t \in Thread, FlushLock(t) PROVE ClosingInv'
  BY <1>10 DEF FlushLock, ClosingInv, IInv, TypeOK, LockInv, CloseInv, CloseResetsAll, poolVars, threadVars
<1>11. ASSUME NEW t \in Thread, FlushCheck(t) PROVE ClosingInv'
  BY <1>11 DEF FlushCheck, ClosingInv, IInv, TypeOK, LockInv, CloseInv, CloseResetsAll, poolVars, threadVars
<1>12. ASSUME NEW t \in Thread, FlushReturn(t) PROVE ClosingInv'
  BY <1>12 DEF FlushReturn, ClosingInv, IInv, TypeOK, LockInv, CloseInv, CloseResetsAll, poolVars, threadVars
<1>13. ASSUME NEW t \in Thread, FlushTake(t) PROVE ClosingInv'
  BY <1>13 DEF FlushTake, ClosingInv, IInv, TypeOK, LockInv, CloseInv, CloseResetsAll, poolVars, threadVars
<1>14. ASSUME NEW t \in Thread, FlushPut(t) PROVE ClosingInv'
  BY <1>14 DEF FlushPut, ClosingInv, IInv, TypeOK, LockInv, CloseInv, CloseResetsAll, poolVars, threadVars
<1>15. ASSUME NEW t \in Thread, FlushAwait(t) PROVE ClosingInv'
  BY <1>15 DEF FlushAwait, ClosingInv, IInv, TypeOK, LockInv, CloseInv, CloseResetsAll, poolVars, threadVars
<1>16. ASSUME NEW t \in Thread, FlushTimeout(t) PROVE ClosingInv'
  BY <1>16 DEF FlushTimeout, ClosingInv, IInv, TypeOK, LockInv, CloseInv, CloseResetsAll, poolVars, threadVars
<1>17. ASSUME NEW t \in Thread, CloseBegin(t) PROVE ClosingInv'
  BY <1>17 DEF CloseBegin, ClosingInv, IInv, TypeOK, LockInv, CloseInv, CloseResetsAll, poolVars, threadVars
<1>18. ASSUME NEW t \in Thread, CloseDrain(t) PROVE ClosingInv'
  <2>1. UNCHANGED <<requests_processing_, pc>> /\ reset' = reset \cup {Head(freeRequests)}
    BY <1>18 DEF CloseDrain, threadVars
  <2>2. Head(freeRequests) \in Request
    BY <1>18, QueuePop DEF CloseDrain, IInv
  <2>. QED
    BY <2>1, <2>2 DEF ClosingInv, IInv, CloseInv, CloseResetsAll
<1>19. ASSUME NEW t \in Thread, CloseEnd(t) PROVE ClosingInv'
  <2>1. requests_processing_ = 0 /\ UNCHANGED <<requests_processing_, reset>>
    BY <1>19 DEF CloseEnd, IInv, CloseInv
  <2>2. \A r \in Request : engine[r] = "idle" /\ ~Lost(r)
    BY <2>1, RestFacts
  <2>3. \A u \in Thread : pc[u] \in {"idle", "drain", "closed"}
    BY <1>19, NullAssumption DEF CloseEnd, IInv, LockInv
  <2>4. \A r \in Request : ~Held(r)
    BY <2>3, NullAssumption DEF Held, IInv, LockInv
  <2>5. \A r \in Request : ~InQueue(r)
    BY <1>19 DEF CloseEnd, InQueue
  <2>6. reset = Request
    BY <2>2, <2>4, <2>5 DEF Lost, IInv, TypeOK
  <2>7. CloseInv'
    BY <2>1 DEF CloseInv
  <2>. QED
    BY <2>1, <2>6, <2>7 DEF ClosingInv, CloseResetsAll
<1>20. CASE UNCHANGED vars
  BY <1>20 DEF vars, ClosingInv, IInv, CloseInv, CloseResetsAll
<1>. QED
  BY <1>1, <1>2, <1>3, <1>4, <1>5, <1>6, <1>7, <1>8, <1>9, <1>10, <1>11, <1>12, <1>13, <1>14, <1>15, <1>16, <1>17, <1>18, <1>19, <1>20
  DEF Next, Submitting, Flushing, Closing, Callback, CallbackTail

-----------------------------------------------------------------------------
(* The initial state *)

\* An enumeration of the requests without repetition leaves none out.
LEMMA InitQueue == Init => freeRequests \in Seq(Request) /\ \A r \in Request : InQueue(r)
<1>. SUFFICES ASSUME Init PROVE freeRequests \in Seq(Request) /\ \A r \in Request : InQueue(r)
  OBVIOUS
<1>. DEFINE n == Cardinality(Request)
<1>1. n \in Nat
  BY FS_CardinalityType, RequestAssumption
<1>2. /\ freeRequests \in [1..n -> Request]
      /\ \A i, j \in 1..n : i # j => freeRequests[i] # freeRequests[j]
  BY DEF Init
<1>3. freeRequests \in Seq(Request)
  BY <1>1, <1>2
<1>4. freeRequests \in Injection(1..n, Request)
  BY <1>2 DEF Injection, IsInjective
<1>5. IsFiniteSet(1..n) /\ Cardinality(1..n) = n
  BY <1>1, FS_Interval
<1>. DEFINE S == {freeRequests[k] : k \in 1..n}
<1>6. S \subseteq Request
  BY <1>2
<1>7. Cardinality(S) = n
  <2>1. freeRequests \in Bijection(1..n, S)
    BY <1>2 DEF Bijection, Injection, Surjection, IsInjective
  <2>. QED
    BY <2>1, <1>5, FS_Bijection DEF ExistsBijection
<1>8. S = Request
  BY <1>6, <1>7, FS_Subset, RequestAssumption
<1>. QED
  BY <1>1, <1>2, <1>3, <1>8 DEF InQueue

\* The strengthened invariant holds in the initial states.
LEMMA InitIInv == Init => IInv
<1>. SUFFICES ASSUME Init PROVE IInv
  OBVIOUS
<1>1. freeRequests \in Seq(Request) /\ \A r \in Request : InQueue(r)
  BY InitQueue
<1>2. TypeOK
  BY <1>1 DEF Init, TypeOK, Stage, Status
<1>3. LockInv
  BY NullAssumption DEF Init, LockInv, InSubmit, InFlush
<1>4. BatchInv
  BY DEF Init, BatchInv
<1>5. CounterExact
  <2>1. Outstanding = {}
    BY DEF Init, Outstanding
  <2>. QED
    BY <2>1, FS_EmptySet DEF Init, CounterExact
<1>6. RequestConservation
  <2>1. \A k, l \in DOMAIN freeRequests : freeRequests[k] = freeRequests[l] => k = l
    BY DEF Init
  <2>2. \A r \in Request : ~Held(r)
    BY NullAssumption DEF Init, Held
  <2>. QED
    BY <1>1, <2>1, <2>2 DEF Init, RequestConservation, Lost
<1>7. \A r \in Request : Cardinality(buffers[r]) = 0
  BY FS_EmptySet DEF Init
<1>8. OpenBatchAtHead
  BY <1>1, <1>7, BatchAssumption DEF Init, OpenBatchAtHead, TypeOK
<1>9. OpenInv
  BY DEF Init, OpenInv
<1>10. LossInv
  BY <1>1 DEF LossInv, Lost
<1>11. CloseInv /\ CloseResetsAll
  BY DEF Init, CloseInv, CloseResetsAll
<1>. QED
  BY <1>2, <1>3, <1>4, <1>5, <1>6, <1>8, <1>9, <1>10, <1>11 DEF IInv

-----------------------------------------------------------------------------
(* The safety theorems *)

\* The strengthened invariant is inductive, and so holds in every state.
THEOREM Invariant == Spec => []IInv
<1>1. IInv /\ [Next]_vars => IInv'
  BY TypeStep, LockStep, BatchStep, CounterStep, RequestStep, OpenStep, CloseStep
  DEF IInv, RequestInv, BatchOpenInv, ClosingInv
<1>. QED
  BY InitIInv, <1>1, PTL DEF Spec

\* Every variable keeps to its type; the counter, an unsigned integer in the
\* code, is never decremented below 0.
THEOREM TypeCorrect == Spec => []TypeOK
BY Invariant, PTL DEF IInv

\* No request is in two places at once, and none is lost but by an exception.
THEOREM RequestsConserved == Spec => []RequestConservation
BY Invariant, PTL DEF IInv

\* requests_processing_ is the number of images not yet through.
THEOREM CounterIsExact == Spec => []CounterExact
BY Invariant, PTL DEF IInv

\* At most one incomplete batch waits in the queue, at its head.
THEOREM BatchAtHead == Spec => []OpenBatchAtHead
BY Invariant, PTL DEF IInv

\* Close ends with the callback of every request reset.
THEOREM CloseComplete == Spec => []CloseResetsAll
BY Invariant, PTL DEF IInv

-----------------------------------------------------------------------------
(* The class implements its interface *)

\* What the interface sees of an image, and of the threads in Flush.
GivenBar    == [i \in Image |-> IF status[i] \in {"submitting", "batched", "thrown"}
                                  THEN "pending" ELSE status[i]]
FlushingBar == {t \in Thread : pc[t] \in InFlush}

\* A new pool is one that has been given nothing.
LEMMA InitRefines == Init => Interface!Init
BY DEF Init, Interface!Init, InFlush

\* Both modules take Cardinality from FiniteSets.
LEMMA SameCardinality == \A S : Interface!Cardinality(S) = Cardinality(S)
BY DEF Interface!Cardinality, Cardinality

\* A step that changes neither is a stutter of the interface.
LEMMA Stutter ==
    ASSUME UNCHANGED <<GivenBar, FlushingBar>>
    PROVE  [Interface!Next]_(Interface!vars)
BY DEF GivenBar, FlushingBar, Interface!vars

\* Every step is one of the interface, or a stutter.
LEMMA StepRefines == IInv /\ [Next]_vars => [Interface!Next]_(Interface!vars)
<1>. SUFFICES ASSUME IInv, [Next]_vars PROVE [Interface!Next]_(Interface!vars)
  OBVIOUS
<1>1. ASSUME NEW t \in Thread, NEW i \in Image, SubmitLock(t, i) PROVE [Interface!Next]_(Interface!vars)
  <2>1. GivenBar[i] = "new" /\ GivenBar' = [GivenBar EXCEPT ![i] = "pending"]
    BY <1>1 DEF SubmitLock, GivenBar, IInv, TypeOK
  <2>2. FlushingBar' = FlushingBar
    BY <1>1 DEF SubmitLock, FlushingBar, InFlush, IInv, TypeOK
  <2>3. Interface!SubmitImage(i)
    BY <2>1, <2>2 DEF Interface!SubmitImage, GivenBar, FlushingBar
  <2>. QED
    BY <2>3 DEF Interface!Next
<1>2. ASSUME NEW t \in Thread, SubmitPop(t) PROVE [Interface!Next]_(Interface!vars)
  <2>1. UNCHANGED <<GivenBar, FlushingBar>>
    BY <1>2 DEF SubmitPop, GivenBar, FlushingBar, InFlush, IInv, TypeOK, poolVars, threadVars
  <2>. QED
    BY <2>1, Stutter
<1>3. ASSUME NEW t \in Thread, SubmitAdd(t) PROVE [Interface!Next]_(Interface!vars)
  <2>1. user_data[t] \in Image /\ status[user_data[t]] = "submitting"
    BY <1>3, LocalFacts DEF SubmitAdd, IInv, InSubmit
  <2>2. UNCHANGED GivenBar
    BY <1>3, <2>1 DEF SubmitAdd, GivenBar, IInv, TypeOK
  <2>3. UNCHANGED FlushingBar
    BY <1>3 DEF SubmitAdd, Leave, FlushingBar, InFlush, IInv, TypeOK
  <2>. QED
    BY <2>2, <2>3, Stutter
<1>4. ASSUME NEW t \in Thread, SubmitThrow(t) PROVE [Interface!Next]_(Interface!vars)
  <2>1. user_data[t] \in Image /\ status[user_data[t]] = "submitting"
    BY <1>4, LocalFacts DEF SubmitThrow, IInv, InSubmit
  <2>2. UNCHANGED GivenBar
    BY <1>4, <2>1 DEF SubmitThrow, GivenBar, IInv, TypeOK
  <2>3. UNCHANGED FlushingBar
    BY <1>4 DEF SubmitThrow, Leave, FlushingBar, InFlush, IInv, TypeOK
  <2>. QED
    BY <2>2, <2>3, Stutter
<1>5. ASSUME NEW r \in Request, NEW o \in {"completed", "failed"}, CallbackReport(r, o) PROVE [Interface!Next]_(Interface!vars)
  <2>1. \A i \in buffers[r] : status[i] = "batched"
    BY <1>5 DEF CallbackReport, IInv, BatchInv
  <2>2. buffers[r] # {} /\ Cardinality(buffers[r]) <= batch_size /\ buffers[r] \in SUBSET Image
    BY <1>5 DEF CallbackReport, IInv, BatchInv, OpenBatchAtHead, TypeOK
  <2>3. GivenBar' = [i \in Image |-> IF i \in buffers[r] THEN o ELSE GivenBar[i]]
    BY <1>5, <2>1 DEF CallbackReport, GivenBar
  <2>4. FlushingBar' = FlushingBar
    BY <1>5 DEF CallbackReport, threadVars, FlushingBar
  <2>5. buffers[r] \subseteq Interface!Pending
    BY <2>1, <2>2 DEF Interface!Pending
  <2>6. Interface!GiveBack(buffers[r], o)
    BY <2>2, <2>3, <2>4, <2>5, SameCardinality DEF Interface!GiveBack, GivenBar, FlushingBar
  <2>. QED
    BY <2>2, <2>6 DEF Interface!Next
<1>6. ASSUME NEW r \in Request, CallbackThrow(r) PROVE [Interface!Next]_(Interface!vars)
  <2>1. UNCHANGED <<GivenBar, FlushingBar>>
    BY <1>6 DEF CallbackThrow, GivenBar, FlushingBar, InFlush, IInv, TypeOK, poolVars, threadVars
  <2>. QED
    BY <2>1, Stutter
<1>7. ASSUME NEW r \in Request, CallbackReturn(r) PROVE [Interface!Next]_(Interface!vars)
  <2>1. UNCHANGED <<GivenBar, FlushingBar>>
    BY <1>7 DEF CallbackReturn, GivenBar, FlushingBar, InFlush, IInv, TypeOK, poolVars, threadVars
  <2>. QED
    BY <2>1, Stutter
<1>8. ASSUME NEW b \in uncounted \cup unnotified, CallbackCount(b) PROVE [Interface!Next]_(Interface!vars)
  <2>1. UNCHANGED <<GivenBar, FlushingBar>>
    BY <1>8 DEF CallbackCount, GivenBar, FlushingBar, InFlush, IInv, TypeOK, poolVars, threadVars
  <2>. QED
    BY <2>1, Stutter
<1>9. ASSUME NEW b \in uncounted \cup unnotified, CallbackNotify(b) PROVE [Interface!Next]_(Interface!vars)
  <2>1. UNCHANGED <<GivenBar, FlushingBar>>
    BY <1>9 DEF CallbackNotify, GivenBar, FlushingBar, InFlush, IInv, TypeOK, poolVars, threadVars
  <2>. QED
    BY <2>1, Stutter
<1>10. ASSUME NEW t \in Thread, FlushLock(t) PROVE [Interface!Next]_(Interface!vars)
  <2>1. GivenBar' = GivenBar
    BY <1>10 DEF FlushLock, GivenBar
  <2>2. t \notin FlushingBar /\ FlushingBar' = FlushingBar \cup {t}
    BY <1>10 DEF FlushLock, FlushingBar, InFlush, IInv, TypeOK
  <2>3. Interface!FlushCall(t)
    BY <2>1, <2>2 DEF Interface!FlushCall, GivenBar, FlushingBar
  <2>. QED
    BY <2>3 DEF Interface!Next
<1>11. ASSUME NEW t \in Thread, FlushCheck(t) PROVE [Interface!Next]_(Interface!vars)
  <2>1. UNCHANGED <<GivenBar, FlushingBar>>
    BY <1>11 DEF FlushCheck, GivenBar, FlushingBar, InFlush, IInv, TypeOK, poolVars, threadVars
  <2>. QED
    BY <2>1, Stutter
<1>12. ASSUME NEW t \in Thread, FlushReturn(t) PROVE [Interface!Next]_(Interface!vars)
  <2>1. GivenBar' = GivenBar
    BY <1>12 DEF FlushReturn, GivenBar
  <2>2. t \in FlushingBar /\ FlushingBar' = FlushingBar \ {t}
    BY <1>12 DEF FlushReturn, FlushingBar, InFlush, IInv, TypeOK
  <2>3. \A i \in Image : status[i] \in {"new", "completed", "failed"}
    BY <1>12, RestFacts DEF FlushReturn
  <2>4. Interface!Pending = {}
    BY <2>3 DEF Interface!Pending
  <2>5. Interface!FlushReturn(t)
    BY <2>1, <2>2, <2>4 DEF Interface!FlushReturn, GivenBar, FlushingBar
  <2>. QED
    BY <2>5 DEF Interface!Next
<1>13. ASSUME NEW t \in Thread, FlushTake(t) PROVE [Interface!Next]_(Interface!vars)
  <2>1. UNCHANGED <<GivenBar, FlushingBar>>
    BY <1>13 DEF FlushTake, GivenBar, FlushingBar, InFlush, IInv, TypeOK, poolVars, threadVars
  <2>. QED
    BY <2>1, Stutter
<1>14. ASSUME NEW t \in Thread, FlushPut(t) PROVE [Interface!Next]_(Interface!vars)
  <2>1. UNCHANGED <<GivenBar, FlushingBar>>
    BY <1>14 DEF FlushPut, GivenBar, FlushingBar, InFlush, IInv, TypeOK, poolVars, threadVars
  <2>. QED
    BY <2>1, Stutter
<1>15. ASSUME NEW t \in Thread, FlushAwait(t) PROVE [Interface!Next]_(Interface!vars)
  <2>1. UNCHANGED <<GivenBar, FlushingBar>>
    BY <1>15 DEF FlushAwait, GivenBar, FlushingBar, InFlush, IInv, TypeOK, poolVars, threadVars
  <2>. QED
    BY <2>1, Stutter
<1>16. ASSUME NEW t \in Thread, FlushTimeout(t) PROVE [Interface!Next]_(Interface!vars)
  <2>1. UNCHANGED <<GivenBar, FlushingBar>>
    BY <1>16 DEF FlushTimeout, GivenBar, FlushingBar, InFlush, IInv, TypeOK, poolVars, threadVars
  <2>. QED
    BY <2>1, Stutter
<1>17. ASSUME NEW t \in Thread, CloseBegin(t) PROVE [Interface!Next]_(Interface!vars)
  <2>1. UNCHANGED <<GivenBar, FlushingBar>>
    BY <1>17 DEF CloseBegin, GivenBar, FlushingBar, InFlush, IInv, TypeOK, poolVars, threadVars
  <2>. QED
    BY <2>1, Stutter
<1>18. ASSUME NEW t \in Thread, CloseDrain(t) PROVE [Interface!Next]_(Interface!vars)
  <2>1. UNCHANGED <<GivenBar, FlushingBar>>
    BY <1>18 DEF CloseDrain, GivenBar, FlushingBar, InFlush, IInv, TypeOK, poolVars, threadVars
  <2>. QED
    BY <2>1, Stutter
<1>19. ASSUME NEW t \in Thread, CloseEnd(t) PROVE [Interface!Next]_(Interface!vars)
  <2>1. UNCHANGED <<GivenBar, FlushingBar>>
    BY <1>19 DEF CloseEnd, GivenBar, FlushingBar, InFlush, IInv, TypeOK, poolVars, threadVars
  <2>. QED
    BY <2>1, Stutter
<1>20. CASE UNCHANGED vars
  BY <1>20, Stutter DEF vars, GivenBar, FlushingBar
<1>. QED
  BY <1>1, <1>2, <1>3, <1>4, <1>5, <1>6, <1>7, <1>8, <1>9, <1>10, <1>11, <1>12, <1>13, <1>14, <1>15, <1>16, <1>17, <1>18, <1>19, <1>20
  DEF Next, Submitting, Flushing, Closing, Callback, CallbackTail

\* What the elements may count on: an image handed to the pool comes back at
\* most once, with its batch, and Flush returns only when none is still out.
THEOREM PoolImplementsInterface == Spec => Implements
BY Invariant, InitRefines, StepRefines, PTL DEF Spec, Implements, Interface!Spec

=============================================================================
