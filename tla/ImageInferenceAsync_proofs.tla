--------------------- MODULE ImageInferenceAsync_proofs ----------------------
(***************************************************************************)
(* Proofs about ImageInferenceAsync, for any number of images, threads and *)
(* surfaces, whether the backend infers on the surfaces or copies them.    *)
(***************************************************************************)
EXTENDS ImageInferenceAsync, TLAPS

-----------------------------------------------------------------------------
(* The invariant *)

\* A thread in SubmitImage has the mutex of InferenceImpl and an image that is its
\* own, and one in AcquireBuffer or in the loop of Flush the mutex of the surfaces.
ThreadInv ==
    \A t \in Thread :
        /\ pc[t] \in InSubmit <=> impl_mutex = t
        /\ pc[t] \in InSubmit <=> user_data[t] # NULL
        /\ user_data[t] # NULL => user_data[t] \in begun
        /\ pc[t] \in {"scan", "wait", "sync"} <=> free_images_mutex = t

\* The image is not scheduled yet.
Early(i) == \/ i \notin begun
            \/ \E t \in Thread : user_data[t] = i /\ pc[t] # "assign"

\* An image is scheduled once, waits for its task, is handed to the backend by it,
\* and has its references until they are dropped.
StageOf(i) ==
    /\ Early(i) => i \notin ToSet(tasks) /\ task # i /\ i \notin done /\ given[i] = "new"
    /\ i \in ToSet(tasks) => task # i /\ i \notin done /\ given[i] = "new"
    /\ task = i => i \notin done /\ (ran = "taken" <=> given[i] = "new")
    /\ i \in done => given[i] # "new"
    /\ "task" \in refs[i] <=> task = i /\ ran = "submitted"
    /\ "user_data" \in refs[i] => given[i] = "pending"
StageInv == /\ \A j, k \in DOMAIN tasks : tasks[j] = tasks[k] => j = k
            /\ \A i \in Image : StageOf(i)

\* The image still has its surface: it uses it, or its thread is about to give the
\* surface the future of its task.
Holds(i) == Uses(i) \/ \E t \in Thread : user_data[t] = i /\ pc[t] = "assign"
SurfaceInv ==
    /\ \A i \in Image : Holds(i) => dst_image[i] \in Surface
    /\ \A i \in Image : Uses(i) => ~completed[dst_image[i]]
    /\ \A i, j \in Image : Holds(i) /\ Holds(j) /\ dst_image[i] = dst_image[j] => i = j

\* The image waits for its task.
Waits(i) == i \in ToSet(tasks) \/ (task = i /\ ran = "taken")

\* The surface of an image that waits has the future of its task, once SubmitImage
\* has returned.
SyncInv == \A i \in Image : Waits(i) /\ (\A t \in Thread : user_data[t] # i)
                               => sync[dst_image[i]] = i

\* What a Flush has to cover, and has not found done, is on a surface still ahead.
FlushOf(t, i) ==
    /\ pc[t] \in InFlush /\ i \in begun /\ \A u \in Thread : user_data[u] # i
    /\ given[i] = "new" => Waits(i) /\ pc[t] \in {"flush", "sync"}
    /\ given[i] = "new" /\ pc[t] = "sync" => dst_image[i] >= pos[t]
FlushInv == \A t \in Thread : \A i \in due[t] : FlushOf(t, i)

IInv == TypeOK /\ ThreadInv /\ StageInv /\ SurfaceInv /\ SyncInv /\ FlushInv

-----------------------------------------------------------------------------
(* The queue of tasks *)

\* A task joins the queue.
LEMMA PushSet ==
    ASSUME NEW S, NEW q \in Seq(S), NEW x \in S, \A j, k \in DOMAIN q : q[j] = q[k] => j = k,
           x \notin ToSet(q)
    PROVE  /\ Append(q, x) \in Seq(S)
           /\ ToSet(Append(q, x)) = ToSet(q) \cup {x}
           /\ \A j, k \in DOMAIN Append(q, x) : Append(q, x)[j] = Append(q, x)[k] => j = k
<1>1. /\ Append(q, x) \in Seq(S)
      /\ DOMAIN Append(q, x) = DOMAIN q \cup {Len(q) + 1} /\ Len(q) + 1 \notin DOMAIN q
      /\ \A k \in DOMAIN q : Append(q, x)[k] = q[k]
      /\ Append(q, x)[Len(q) + 1] = x
  OBVIOUS
<1>. QED
  BY <1>1 DEF ToSet

\* The first task leaves the queue.
LEMMA PopSet ==
    ASSUME NEW S, NEW q \in Seq(S), q # <<>>, \A j, k \in DOMAIN q : q[j] = q[k] => j = k
    PROVE  /\ Head(q) \in S /\ Tail(q) \in Seq(S)
           /\ Head(q) \in ToSet(q)
           /\ ToSet(Tail(q)) = ToSet(q) \ {Head(q)}
           /\ \A j, k \in DOMAIN Tail(q) : Tail(q)[j] = Tail(q)[k] => j = k
<1>1. /\ 1 \in DOMAIN q /\ Head(q) = q[1] /\ Head(q) \in S /\ Tail(q) \in Seq(S)
      /\ \A k \in DOMAIN Tail(q) :
            k + 1 \in DOMAIN q /\ Tail(q)[k] = q[k + 1] /\ k \in Nat /\ k + 1 # 1
      /\ \A k \in DOMAIN q : k # 1 => k - 1 \in DOMAIN Tail(q) /\ Tail(q)[k - 1] = q[k]
  OBVIOUS
<1>2. Head(q) \in ToSet(q)
  BY <1>1 DEF ToSet
<1>3. ASSUME NEW x \in ToSet(Tail(q)) PROVE x \in ToSet(q) \ {Head(q)}
  <2>1. PICK k \in DOMAIN Tail(q) : x = Tail(q)[k]
    BY DEF ToSet
  <2>. QED
    BY <1>1, <2>1 DEF ToSet
<1>4. ASSUME NEW x \in ToSet(q) \ {Head(q)} PROVE x \in ToSet(Tail(q))
  <2>1. PICK k \in DOMAIN q : x = q[k]
    BY DEF ToSet
  <2>. QED
    BY <1>1, <2>1 DEF ToSet
<1>5. ASSUME NEW j \in DOMAIN Tail(q), NEW k \in DOMAIN Tail(q), Tail(q)[j] = Tail(q)[k]
      PROVE  j = k
  <2>1. j + 1 = k + 1
    BY <1>1, <1>5
  <2>. QED
    BY <1>1, <2>1
<1>. QED
  BY <1>1, <1>2, <1>3, <1>4, <1>5
-----------------------------------------------------------------------------
(* Types *)

\* Every step keeps the variables in their types.
LEMMA TypeStep == IInv /\ [Next]_vars => TypeOK'
<1>. SUFFICES ASSUME IInv, [Next]_vars PROVE TypeOK'
  OBVIOUS
<1>. USE DEF IInv, TypeOK, ThreadInv, Surface, InSubmit, InFlush, Backend!TypeOK, Backend!Outcome, backendVars, surfaceVars, taskVars, threadVars
<1>1. ASSUME NEW t \in Streaming, NEW j \in Image, SubmitCall(t, j) PROVE TypeOK'
  BY <1>1, ThreadAssumption DEF SubmitCall, Goto
<1>2. ASSUME NEW t \in Thread, AcquireLock(t) PROVE TypeOK'
  <2>1. 1 \in 1..PoolSize
    BY PoolAssumption
  <2>. QED
    BY <1>2, <2>1 DEF AcquireLock, Goto
<1>3. ASSUME NEW t \in Thread, AcquireTake(t) PROVE TypeOK'
  BY <1>3 DEF AcquireTake, Goto
<1>4. ASSUME NEW t \in Thread, AcquireNext(t) PROVE TypeOK'
  <2>1. pos[t] # PoolSize => pos[t] + 1 \in 1..PoolSize
    BY PoolAssumption
  <2>2. pos' \in [Thread -> 1..PoolSize]
    BY <1>4, <2>1 DEF AcquireNext
  <2>. QED
    BY <1>4, <2>2 DEF AcquireNext, Goto
<1>5. ASSUME NEW t \in Thread, AcquireSleep(t) PROVE TypeOK'
  BY <1>5 DEF AcquireSleep, Goto
<1>6. ASSUME NEW t \in Thread, AcquireWake(t) PROVE TypeOK'
  BY <1>6 DEF AcquireWake, Goto
<1>7. ASSUME NEW t \in Thread, Convert(t) PROVE TypeOK'
  BY <1>7 DEF Convert, Goto
<1>8. ASSUME NEW t \in Thread, ConvertThrow(t) PROVE TypeOK'
  BY <1>8 DEF ConvertThrow, Return, Goto
<1>9. ASSUME NEW t \in Thread, Schedule(t) PROVE TypeOK'
  BY <1>9 DEF Schedule, Goto
<1>10. ASSUME NEW t \in Thread, AssignSync(t) PROVE TypeOK'
  BY <1>10 DEF AssignSync, Return, Goto
<1>11. ASSUME NEW t \in Thread, FlushCall(t) PROVE TypeOK'
  <2>1. Returned \in SUBSET Image
    BY DEF Returned
  <2>. QED
    BY <1>11, <2>1 DEF FlushCall, Goto
<1>12. ASSUME NEW t \in Thread, FlushLock(t) PROVE TypeOK'
  <2>1. 1 \in 1..PoolSize
    BY PoolAssumption
  <2>. QED
    BY <1>12, <2>1 DEF FlushLock, Goto
<1>13. ASSUME NEW t \in Thread, FlushWait(t) PROVE TypeOK'
  <2>1. pos[t] # PoolSize => pos[t] + 1 \in 1..PoolSize
    BY PoolAssumption
  <2>2. pos' \in [Thread -> 1..PoolSize]
    BY <1>13, <2>1 DEF FlushWait
  <2>. QED
    BY <1>13, <2>2 DEF FlushWait, Goto
<1>14. ASSUME NEW t \in Thread, FlushThrow(t) PROVE TypeOK'
  BY <1>14 DEF FlushThrow, Goto
<1>15. ASSUME NEW t \in Thread, FlushBackend(t) PROVE TypeOK'
  BY <1>15 DEF FlushBackend, Backend!FlushCall, Goto
<1>16. ASSUME NEW t \in Thread, FlushReturn(t) PROVE TypeOK'
  BY <1>16 DEF FlushReturn, Backend!FlushReturn, Goto
<1>17. CASE TaskTake
  BY <1>17 DEF TaskTake
<1>18. CASE TaskSubmit
  BY <1>18 DEF TaskSubmit, Backend!SubmitImage
<1>19. CASE TaskReturn
  BY <1>19 DEF TaskReturn, Drop, ReleaseBuffer
<1>20. CASE TaskDone
  BY <1>20 DEF TaskDone
<1>21. ASSUME NEW batch \in SUBSET Backend!Pending, GiveBack(batch) PROVE TypeOK'
  BY <1>21 DEF GiveBack, Drop, ReleaseBuffer, Backend!GiveBack, Backend!Pending
<1>22. CASE UNCHANGED vars
  BY <1>22 DEF vars
<1>. QED
  BY <1>1, <1>2, <1>3, <1>4, <1>5, <1>6, <1>7, <1>8, <1>9, <1>10, <1>11, <1>12, <1>13, <1>14, <1>15, <1>16, <1>17, <1>18, <1>19, <1>20, <1>21, <1>22
  DEF Next, Submitting, Flushing, Task, GivesBack
-----------------------------------------------------------------------------
(* Threads and tasks *)

\* Threads take and leave the mutexes as they go through their calls.
LEMMA ThreadStep == IInv /\ [Next]_vars => ThreadInv'
<1>. SUFFICES ASSUME IInv, [Next]_vars PROVE ThreadInv'
  OBVIOUS
<1>. USE DEF IInv, TypeOK, ThreadInv, InSubmit, InFlush, backendVars, surfaceVars, taskVars, threadVars
<1>1. ASSUME NEW t \in Streaming, NEW j \in Image, SubmitCall(t, j) PROVE ThreadInv'
  BY <1>1, ThreadAssumption, ImageAssumption DEF SubmitCall, Goto
<1>2. ASSUME NEW t \in Thread, AcquireLock(t) PROVE ThreadInv'
  BY <1>2, ImageAssumption DEF AcquireLock, Goto
<1>3. ASSUME NEW t \in Thread, AcquireTake(t) PROVE ThreadInv'
  BY <1>3, ImageAssumption DEF AcquireTake, Goto
<1>4. ASSUME NEW t \in Thread, AcquireNext(t) PROVE ThreadInv'
  BY <1>4, ImageAssumption DEF AcquireNext, Goto
<1>5. ASSUME NEW t \in Thread, AcquireSleep(t) PROVE ThreadInv'
  BY <1>5, ImageAssumption DEF AcquireSleep, Goto
<1>6. ASSUME NEW t \in Thread, AcquireWake(t) PROVE ThreadInv'
  BY <1>6, ImageAssumption DEF AcquireWake, Goto
<1>7. ASSUME NEW t \in Thread, Convert(t) PROVE ThreadInv'
  BY <1>7, ImageAssumption DEF Convert, Goto
<1>8. ASSUME NEW t \in Thread, ConvertThrow(t) PROVE ThreadInv'
  BY <1>8, ImageAssumption DEF ConvertThrow, Return, Goto
<1>9. ASSUME NEW t \in Thread, Schedule(t) PROVE ThreadInv'
  BY <1>9, ImageAssumption DEF Schedule, Goto
<1>10. ASSUME NEW t \in Thread, AssignSync(t) PROVE ThreadInv'
  BY <1>10, ImageAssumption DEF AssignSync, Return, Goto
<1>11. ASSUME NEW t \in Thread, FlushCall(t) PROVE ThreadInv'
  BY <1>11, ImageAssumption DEF FlushCall, Goto
<1>12. ASSUME NEW t \in Thread, FlushLock(t) PROVE ThreadInv'
  BY <1>12, ImageAssumption DEF FlushLock, Goto
<1>13. ASSUME NEW t \in Thread, FlushWait(t) PROVE ThreadInv'
  BY <1>13, ImageAssumption DEF FlushWait, Goto
<1>14. ASSUME NEW t \in Thread, FlushThrow(t) PROVE ThreadInv'
  BY <1>14, ImageAssumption DEF FlushThrow, Goto
<1>15. ASSUME NEW t \in Thread, FlushBackend(t) PROVE ThreadInv'
  BY <1>15, ImageAssumption DEF FlushBackend, Backend!FlushCall, Goto
<1>16. ASSUME NEW t \in Thread, FlushReturn(t) PROVE ThreadInv'
  BY <1>16, ImageAssumption DEF FlushReturn, Backend!FlushReturn, Goto
<1>17. CASE TaskTake
  BY <1>17, ImageAssumption DEF TaskTake
<1>18. CASE TaskSubmit
  BY <1>18, ImageAssumption DEF TaskSubmit, Backend!SubmitImage
<1>19. CASE TaskReturn
  BY <1>19, ImageAssumption DEF TaskReturn, Drop, ReleaseBuffer
<1>20. CASE TaskDone
  BY <1>20, ImageAssumption DEF TaskDone
<1>21. ASSUME NEW batch \in SUBSET Backend!Pending, GiveBack(batch) PROVE ThreadInv'
  BY <1>21, ImageAssumption DEF GiveBack, Drop, ReleaseBuffer, Backend!GiveBack, Backend!Pending
<1>22. CASE UNCHANGED vars
  BY <1>22, ImageAssumption DEF vars
<1>. QED
  BY <1>1, <1>2, <1>3, <1>4, <1>5, <1>6, <1>7, <1>8, <1>9, <1>10, <1>11, <1>12, <1>13, <1>14, <1>15, <1>16, <1>17, <1>18, <1>19, <1>20, <1>21, <1>22
  DEF Next, Submitting, Flushing, Task, GivesBack

\* An image goes through its stages.
LEMMA StageStep == IInv /\ [Next]_vars => StageInv'
<1>. SUFFICES ASSUME IInv, [Next]_vars PROVE StageInv'
  OBVIOUS
<1>. USE DEF IInv, StageInv, StageOf, Early, InSubmit, InFlush, TypeOK, ThreadInv, Backend!TypeOK, Backend!Outcome, backendVars, surfaceVars, taskVars, threadVars
<1>1. ASSUME NEW t \in Streaming, NEW j \in Image, SubmitCall(t, j) PROVE StageInv'
  BY <1>1, ThreadAssumption, ImageAssumption DEF SubmitCall, Goto
<1>2. ASSUME NEW t \in Thread, AcquireLock(t) PROVE StageInv'
  BY <1>2, ImageAssumption DEF AcquireLock, Goto
<1>3. ASSUME NEW t \in Thread, AcquireTake(t) PROVE StageInv'
  BY <1>3, ImageAssumption DEF AcquireTake, Goto
<1>4. ASSUME NEW t \in Thread, AcquireNext(t) PROVE StageInv'
  BY <1>4, ImageAssumption DEF AcquireNext, Goto
<1>5. ASSUME NEW t \in Thread, AcquireSleep(t) PROVE StageInv'
  BY <1>5, ImageAssumption DEF AcquireSleep, Goto
<1>6. ASSUME NEW t \in Thread, AcquireWake(t) PROVE StageInv'
  BY <1>6, ImageAssumption DEF AcquireWake, Goto
<1>7. ASSUME NEW t \in Thread, Convert(t) PROVE StageInv'
  BY <1>7, ImageAssumption DEF Convert, Goto
<1>8. ASSUME NEW t \in Thread, ConvertThrow(t) PROVE StageInv'
  BY <1>8, ImageAssumption DEF ConvertThrow, Return, Goto
<1>9. ASSUME NEW t \in Thread, Schedule(t) PROVE StageInv'
  <2>1. /\ pc[t] = "schedule" /\ pc' = [pc EXCEPT ![t] = "assign"]
        /\ tasks' = Append(tasks, user_data[t])
        /\ UNCHANGED <<done, given, refs, begun, user_data, task, ran>>
    BY <1>9 DEF Schedule, Goto
  <2>2. /\ user_data[t] \in Image /\ tasks \in Seq(Image) /\ pc \in [Thread -> {"idle"} \cup InSubmit \cup InFlush]
        /\ user_data \in [Thread -> Image \cup {NULL}]
        /\ user_data[t] \in begun
    BY <2>1
  <2>3. \A u \in Thread : u # t => user_data[u] = NULL
    BY <2>1
  <2>4. StageInv
    OBVIOUS
  <2>. HIDE DEF IInv, StageInv, StageOf, TypeOK, ThreadInv, Early
  <2>5. StageOf(user_data[t]) /\ Early(user_data[t])
    BY <2>1, <2>2, <2>4 DEF StageInv, Early
  <2>6. user_data[t] \notin ToSet(tasks)
    BY <2>5 DEF StageOf
  <2>7. /\ ToSet(Append(tasks, user_data[t])) = ToSet(tasks) \cup {user_data[t]}
        /\ \A j, k \in DOMAIN tasks' : tasks'[j] = tasks'[k] => j = k
    BY <2>1, <2>2, <2>4, <2>6, PushSet DEF StageInv
  <2>8. ASSUME NEW i \in Image PROVE StageOf(i)'
    <3>1. StageOf(i)
      BY <2>4 DEF StageInv
    <3>2. CASE i = user_data[t]
      <4>1. ~Early(i)'
        BY <2>1, <2>2, <2>3, <3>2, ImageAssumption DEF Early
      <4>. QED
        BY <2>1, <2>5, <2>7, <3>2, <4>1 DEF StageOf
    <3>3. CASE i # user_data[t]
      <4>1. Early(i)' => Early(i)
        BY <2>1, <2>2, <3>3 DEF Early
      <4>. QED
        BY <2>1, <2>7, <3>1, <3>3, <4>1 DEF StageOf
    <3>. QED
      BY <3>2, <3>3
  <2>. QED
    BY <2>7, <2>8 DEF StageInv
<1>10. ASSUME NEW t \in Thread, AssignSync(t) PROVE StageInv'
  BY <1>10, ImageAssumption DEF AssignSync, Return, Goto
<1>11. ASSUME NEW t \in Thread, FlushCall(t) PROVE StageInv'
  BY <1>11, ImageAssumption DEF FlushCall, Goto
<1>12. ASSUME NEW t \in Thread, FlushLock(t) PROVE StageInv'
  BY <1>12, ImageAssumption DEF FlushLock, Goto
<1>13. ASSUME NEW t \in Thread, FlushWait(t) PROVE StageInv'
  BY <1>13, ImageAssumption DEF FlushWait, Goto
<1>14. ASSUME NEW t \in Thread, FlushThrow(t) PROVE StageInv'
  BY <1>14, ImageAssumption DEF FlushThrow, Goto
<1>15. ASSUME NEW t \in Thread, FlushBackend(t) PROVE StageInv'
  BY <1>15, ImageAssumption DEF FlushBackend, Backend!FlushCall, Goto
<1>16. ASSUME NEW t \in Thread, FlushReturn(t) PROVE StageInv'
  BY <1>16, ImageAssumption DEF FlushReturn, Backend!FlushReturn, Goto
<1>17. CASE TaskTake
  <2>1. /\ tasks \in Seq(Image) /\ tasks # <<>> /\ task = NULL
        /\ task' = Head(tasks) /\ tasks' = Tail(tasks) /\ ran' = "taken"
        /\ UNCHANGED <<done, given, refs, begun, user_data, pc>>
    BY <1>17 DEF TaskTake
  <2>2. /\ \A j, k \in DOMAIN tasks : tasks[j] = tasks[k] => j = k
        /\ \A i \in Image : StageOf(i)
    OBVIOUS
  <2>. HIDE DEF IInv, StageInv, StageOf, TypeOK, ThreadInv
  <2>3. /\ Head(tasks) \in Image /\ Head(tasks) \in ToSet(tasks)
        /\ ToSet(Tail(tasks)) = ToSet(tasks) \ {Head(tasks)}
        /\ \A j, k \in DOMAIN Tail(tasks) : Tail(tasks)[j] = Tail(tasks)[k] => j = k
    BY <2>1, <2>2, PopSet
  <2>4. ASSUME NEW i \in Image PROVE StageOf(i)'
    <3>1. CASE i = Head(tasks)
      BY <2>1, <2>2, <2>3, <3>1, ImageAssumption DEF StageOf
    <3>2. CASE i # Head(tasks)
      BY <2>1, <2>2, <2>3, <3>2, ImageAssumption DEF StageOf
    <3>. QED
      BY <3>1, <3>2
  <2>. QED
    BY <2>1, <2>3, <2>4 DEF StageInv
<1>18. CASE TaskSubmit
  BY <1>18, ImageAssumption DEF TaskSubmit, Backend!SubmitImage
<1>19. CASE TaskReturn
  BY <1>19, ImageAssumption DEF TaskReturn, Drop, ReleaseBuffer
<1>20. CASE TaskDone
  <2>1. /\ task # NULL /\ ran = "returned" /\ done' = done \cup {task} /\ task' = NULL
        /\ UNCHANGED <<tasks, ran, given, refs, begun, user_data, pc>>
    BY <1>20 DEF TaskDone
  <2>2. StageInv
    OBVIOUS
  <2>. HIDE DEF IInv, StageInv, StageOf, TypeOK, ThreadInv
  <2>3. ASSUME NEW i \in Image PROVE StageOf(i)'
    <3>1. StageOf(i)
      BY <2>2 DEF StageInv
    <3>2. CASE i = task
      BY <2>1, <3>1, <3>2, ImageAssumption DEF StageOf
    <3>3. CASE i # task
      BY <2>1, <3>1, <3>3, ImageAssumption DEF StageOf
    <3>. QED
      BY <3>2, <3>3
  <2>. QED
    BY <2>1, <2>2, <2>3 DEF StageInv
<1>21. ASSUME NEW batch \in SUBSET Backend!Pending, GiveBack(batch) PROVE StageInv'
  BY <1>21, ImageAssumption DEF GiveBack, Drop, ReleaseBuffer, Backend!GiveBack, Backend!Pending
<1>22. CASE UNCHANGED vars
  BY <1>22, ImageAssumption DEF vars
<1>. QED
  BY <1>1, <1>2, <1>3, <1>4, <1>5, <1>6, <1>7, <1>8, <1>9, <1>10, <1>11, <1>12, <1>13, <1>14, <1>15, <1>16, <1>17, <1>18, <1>19, <1>20, <1>21, <1>22
  DEF Next, Submitting, Flushing, Task, GivesBack
-----------------------------------------------------------------------------
(* Surfaces *)

\* No surface is taken, and those released were given up.
LEMMA HoldsShrinks ==
    ASSUME TypeOK, SurfaceInv, NEW R \in SUBSET Image,
           \A i \in R : Uses(i),
           \A i \in Image : Uses(i)' => Uses(i) /\ i \notin R,
           \A i \in Image : Holds(i)' => Holds(i),
           completed' = [s \in Surface |-> completed[s] \/ s \in {dst_image[i] : i \in R}],
           dst_image' = dst_image
    PROVE  SurfaceInv'
<1>1. ASSUME NEW i \in Image, Uses(i)' PROVE ~completed'[dst_image'[i]]
  <2>1. Uses(i) /\ i \notin R /\ Holds(i) /\ ~completed[dst_image[i]] /\ dst_image[i] \in Surface
    BY <1>1 DEF SurfaceInv, Holds
  <2>2. dst_image[i] \notin {dst_image[j] : j \in R}
    BY <2>1 DEF SurfaceInv, Holds
  <2>. QED
    BY <2>1, <2>2
<1>2. \A i \in Image : Holds(i)' => dst_image'[i] \in Surface
  <2>. HIDE DEF Surface
  <2>. QED
    BY DEF SurfaceInv
<1>3. \A i, j \in Image : Holds(i)' /\ Holds(j)' /\ dst_image'[i] = dst_image'[j] => i = j
  BY DEF SurfaceInv
<1>. HIDE DEF Uses, Holds
<1>. QED
  BY <1>1, <1>2, <1>3 DEF SurfaceInv, Surface

\* No surface is taken or released.
LEMMA HoldsKept ==
    ASSUME TypeOK, SurfaceInv, UNCHANGED <<dst_image, completed>>,
           \A i \in Image : (Uses(i)' => Uses(i)) /\ (Holds(i)' => Holds(i))
    PROVE  SurfaceInv'
<1>1. completed' = [s \in Surface |-> completed[s] \/ s \in {dst_image[i] : i \in {}}]
  BY DEF TypeOK
<1>. HIDE DEF Uses, Holds
<1>. QED
  BY <1>1, HoldsShrinks

\* A surface is taken when it is free, and released when nothing uses it.
LEMMA SurfaceStep == IInv /\ [Next]_vars => SurfaceInv'
<1>. SUFFICES ASSUME IInv, [Next]_vars PROVE SurfaceInv'
  OBVIOUS
<1>. USE DEF IInv, SurfaceInv, ThreadInv, InSubmit, InFlush, TypeOK, backendVars, surfaceVars, taskVars, threadVars
<1>0. TypeOK /\ SurfaceInv /\ StageInv
  OBVIOUS
<1>1. ASSUME NEW t \in Streaming, NEW j \in Image, SubmitCall(t, j) PROVE SurfaceInv'
  <2>1. UNCHANGED <<dst_image, completed>>
    BY <1>1 DEF SubmitCall, Goto
  <2>2. \A i \in Image : Uses(i)' => Uses(i)
    BY <1>1, ImageAssumption, ThreadAssumption DEF SubmitCall, Goto, Uses
  <2>3. \A i \in Image : Holds(i)' => Holds(i)
    BY <1>1, <2>2, ImageAssumption, ThreadAssumption DEF SubmitCall, Goto, Uses, Holds
  <2>. QED
    BY <1>0, <2>1, <2>2, <2>3, HoldsKept
<1>2. ASSUME NEW t \in Thread, AcquireLock(t) PROVE SurfaceInv'
  <2>1. UNCHANGED <<dst_image, completed>>
    BY <1>2 DEF AcquireLock, Goto
  <2>2. \A i \in Image : Uses(i)' => Uses(i)
    BY <1>2, ImageAssumption DEF AcquireLock, Goto, Uses
  <2>3. \A i \in Image : Holds(i)' => Holds(i)
    BY <1>2, <2>2, ImageAssumption DEF AcquireLock, Goto, Uses, Holds
  <2>. QED
    BY <1>0, <2>1, <2>2, <2>3, HoldsKept
<1>3. ASSUME NEW t \in Thread, AcquireTake(t) PROVE SurfaceInv'
  <2>1. /\ pc[t] = "scan" /\ pc' = [pc EXCEPT ![t] = "convert"] /\ completed[pos[t]]
        /\ completed' = [completed EXCEPT ![pos[t]] = FALSE]
        /\ dst_image' = [dst_image EXCEPT ![user_data[t]] = pos[t]]
        /\ UNCHANGED <<tasks, task, ran, refs, user_data>>
    BY <1>3 DEF AcquireTake, Goto
  <2>2. PICK i \in Image : i = user_data[t]
    BY <2>1
  <2>3. PICK s \in Surface : s = pos[t]
    OBVIOUS
  <2>4. \A u \in Thread : u # t => user_data[u] = NULL
    BY <2>1
  <2>5. \A j \in Image : j # i => (Uses(j)' => Uses(j)) /\ (Holds(j)' => Holds(j))
    BY <2>1, <2>2, <2>4, ImageAssumption DEF Uses, Holds
  <2>6. dst_image'[i] = s /\ \A j \in Image : j # i => dst_image'[j] = dst_image[j]
    BY <2>1, <2>2, <2>3
  <2>7. completed'[s] = FALSE /\ \A r \in Surface : r # s => completed'[r] = completed[r]
    BY <2>1, <2>3
  <2>8. \A j \in Image : Holds(j) /\ j # i => Uses(j)
    BY <2>1, <2>2, <2>4, ImageAssumption DEF Holds
  <2>9. ASSUME NEW j \in Image, j # i, Holds(j)'
        PROVE  dst_image'[j] \in Surface /\ dst_image'[j] # s /\ ~completed'[dst_image'[j]]
    <3>1. Holds(j) /\ Uses(j)
      BY <2>5, <2>8, <2>9
    <3>2. dst_image[j] \in Surface /\ ~completed[dst_image[j]]
      BY <1>0, <3>1 DEF SurfaceInv
    <3>. QED
      BY <2>1, <2>3, <2>6, <2>7, <2>9, <3>2
  <2>. HIDE DEF IInv, SurfaceInv, ThreadInv, TypeOK, Uses, Holds, Surface
  <2>10. \A j \in Image : Uses(j)' => Holds(j)'
    BY DEF Holds
  <2>. QED
    BY <1>0, <2>5, <2>6, <2>7, <2>9, <2>10 DEF SurfaceInv
<1>4. ASSUME NEW t \in Thread, AcquireNext(t) PROVE SurfaceInv'
  <2>1. UNCHANGED <<dst_image, completed>>
    BY <1>4 DEF AcquireNext, Goto
  <2>2. \A i \in Image : Uses(i)' => Uses(i)
    BY <1>4, ImageAssumption DEF AcquireNext, Goto, Uses
  <2>3. \A i \in Image : Holds(i)' => Holds(i)
    BY <1>4, <2>2, ImageAssumption DEF AcquireNext, Goto, Uses, Holds
  <2>. QED
    BY <1>0, <2>1, <2>2, <2>3, HoldsKept
<1>5. ASSUME NEW t \in Thread, AcquireSleep(t) PROVE SurfaceInv'
  <2>1. UNCHANGED <<dst_image, completed>>
    BY <1>5 DEF AcquireSleep, Goto
  <2>2. \A i \in Image : Uses(i)' => Uses(i)
    BY <1>5, ImageAssumption DEF AcquireSleep, Goto, Uses
  <2>3. \A i \in Image : Holds(i)' => Holds(i)
    BY <1>5, <2>2, ImageAssumption DEF AcquireSleep, Goto, Uses, Holds
  <2>. QED
    BY <1>0, <2>1, <2>2, <2>3, HoldsKept
<1>6. ASSUME NEW t \in Thread, AcquireWake(t) PROVE SurfaceInv'
  <2>1. UNCHANGED <<dst_image, completed>>
    BY <1>6 DEF AcquireWake, Goto
  <2>2. \A i \in Image : Uses(i)' => Uses(i)
    BY <1>6, ImageAssumption DEF AcquireWake, Goto, Uses
  <2>3. \A i \in Image : Holds(i)' => Holds(i)
    BY <1>6, <2>2, ImageAssumption DEF AcquireWake, Goto, Uses, Holds
  <2>. QED
    BY <1>0, <2>1, <2>2, <2>3, HoldsKept
<1>7. ASSUME NEW t \in Thread, Convert(t) PROVE SurfaceInv'
  <2>1. UNCHANGED <<dst_image, completed>>
    BY <1>7 DEF Convert, Goto
  <2>2. \A i \in Image : Uses(i)' => Uses(i)
    BY <1>7, ImageAssumption DEF Convert, Goto, Uses
  <2>3. \A i \in Image : Holds(i)' => Holds(i)
    BY <1>7, <2>2, ImageAssumption DEF Convert, Goto, Uses, Holds
  <2>. QED
    BY <1>0, <2>1, <2>2, <2>3, HoldsKept
<1>8. ASSUME NEW t \in Thread, ConvertThrow(t) PROVE SurfaceInv'
  <2>1. UNCHANGED <<dst_image, completed>>
    BY <1>8 DEF ConvertThrow, Return, Goto
  <2>2. \A i \in Image : Uses(i)' => Uses(i)
    BY <1>8, ImageAssumption DEF ConvertThrow, Return, Goto, Uses
  <2>3. \A i \in Image : Holds(i)' => Holds(i)
    BY <1>8, <2>2, ImageAssumption DEF ConvertThrow, Return, Goto, Uses, Holds
  <2>. QED
    BY <1>0, <2>1, <2>2, <2>3, HoldsKept
<1>9. ASSUME NEW t \in Thread, Schedule(t) PROVE SurfaceInv'
  <2>1. /\ pc[t] = "schedule" /\ pc' = [pc EXCEPT ![t] = "assign"]
        /\ tasks' = Append(tasks, user_data[t]) /\ user_data[t] \in Image /\ tasks \in Seq(Image)
        /\ UNCHANGED <<task, ran, refs, user_data, dst_image, completed>>
    BY <1>9 DEF Schedule, Goto
  <2>2. user_data[t] \notin ToSet(tasks)
    BY <1>0, <2>1 DEF StageInv, StageOf, Early
  <2>3. ToSet(tasks') = ToSet(tasks) \cup {user_data[t]}
    BY <1>0, <2>1, <2>2, PushSet DEF StageInv
  <2>4. \A i \in Image : Uses(i)' => Uses(i)
    BY <2>1, <2>3 DEF Uses
  <2>5. \A i \in Image : Holds(i)' => Holds(i)
    BY <2>1, <2>4 DEF Holds, Uses
  <2>. QED
    BY <1>0, <2>1, <2>4, <2>5, HoldsKept
<1>10. ASSUME NEW t \in Thread, AssignSync(t) PROVE SurfaceInv'
  <2>1. UNCHANGED <<dst_image, completed>>
    BY <1>10 DEF AssignSync, Return, Goto
  <2>2. \A i \in Image : Uses(i)' => Uses(i)
    BY <1>10, ImageAssumption DEF AssignSync, Return, Goto, Uses
  <2>3. \A i \in Image : Holds(i)' => Holds(i)
    BY <1>10, <2>2, ImageAssumption DEF AssignSync, Return, Goto, Uses, Holds
  <2>. QED
    BY <1>0, <2>1, <2>2, <2>3, HoldsKept
<1>11. ASSUME NEW t \in Thread, FlushCall(t) PROVE SurfaceInv'
  <2>1. UNCHANGED <<dst_image, completed>>
    BY <1>11 DEF FlushCall, Goto
  <2>2. \A i \in Image : Uses(i)' => Uses(i)
    BY <1>11, ImageAssumption DEF FlushCall, Goto, Uses
  <2>3. \A i \in Image : Holds(i)' => Holds(i)
    BY <1>11, <2>2, ImageAssumption DEF FlushCall, Goto, Uses, Holds
  <2>. QED
    BY <1>0, <2>1, <2>2, <2>3, HoldsKept
<1>12. ASSUME NEW t \in Thread, FlushLock(t) PROVE SurfaceInv'
  <2>1. UNCHANGED <<dst_image, completed>>
    BY <1>12 DEF FlushLock, Goto
  <2>2. \A i \in Image : Uses(i)' => Uses(i)
    BY <1>12, ImageAssumption DEF FlushLock, Goto, Uses
  <2>3. \A i \in Image : Holds(i)' => Holds(i)
    BY <1>12, <2>2, ImageAssumption DEF FlushLock, Goto, Uses, Holds
  <2>. QED
    BY <1>0, <2>1, <2>2, <2>3, HoldsKept
<1>13. ASSUME NEW t \in Thread, FlushWait(t) PROVE SurfaceInv'
  <2>1. UNCHANGED <<dst_image, completed>>
    BY <1>13 DEF FlushWait, Goto
  <2>2. \A i \in Image : Uses(i)' => Uses(i)
    BY <1>13, ImageAssumption DEF FlushWait, Goto, Uses
  <2>3. \A i \in Image : Holds(i)' => Holds(i)
    BY <1>13, <2>2, ImageAssumption DEF FlushWait, Goto, Uses, Holds
  <2>. QED
    BY <1>0, <2>1, <2>2, <2>3, HoldsKept
<1>14. ASSUME NEW t \in Thread, FlushThrow(t) PROVE SurfaceInv'
  <2>1. UNCHANGED <<dst_image, completed>>
    BY <1>14 DEF FlushThrow, Goto
  <2>2. \A i \in Image : Uses(i)' => Uses(i)
    BY <1>14, ImageAssumption DEF FlushThrow, Goto, Uses
  <2>3. \A i \in Image : Holds(i)' => Holds(i)
    BY <1>14, <2>2, ImageAssumption DEF FlushThrow, Goto, Uses, Holds
  <2>. QED
    BY <1>0, <2>1, <2>2, <2>3, HoldsKept
<1>15. ASSUME NEW t \in Thread, FlushBackend(t) PROVE SurfaceInv'
  <2>1. UNCHANGED <<dst_image, completed>>
    BY <1>15 DEF FlushBackend, Backend!FlushCall, Goto
  <2>2. \A i \in Image : Uses(i)' => Uses(i)
    BY <1>15, ImageAssumption DEF FlushBackend, Backend!FlushCall, Goto, Uses
  <2>3. \A i \in Image : Holds(i)' => Holds(i)
    BY <1>15, <2>2, ImageAssumption DEF FlushBackend, Backend!FlushCall, Goto, Uses, Holds
  <2>. QED
    BY <1>0, <2>1, <2>2, <2>3, HoldsKept
<1>16. ASSUME NEW t \in Thread, FlushReturn(t) PROVE SurfaceInv'
  <2>1. UNCHANGED <<dst_image, completed>>
    BY <1>16 DEF FlushReturn, Backend!FlushReturn, Goto
  <2>2. \A i \in Image : Uses(i)' => Uses(i)
    BY <1>16, ImageAssumption DEF FlushReturn, Backend!FlushReturn, Goto, Uses
  <2>3. \A i \in Image : Holds(i)' => Holds(i)
    BY <1>16, <2>2, ImageAssumption DEF FlushReturn, Backend!FlushReturn, Goto, Uses, Holds
  <2>. QED
    BY <1>0, <2>1, <2>2, <2>3, HoldsKept
<1>17. CASE TaskTake
  <2>1. /\ tasks \in Seq(Image) /\ tasks # <<>> /\ task' = Head(tasks) /\ tasks' = Tail(tasks)
        /\ UNCHANGED <<pc, refs, user_data, dst_image, completed>>
    BY <1>17 DEF TaskTake
  <2>2. Head(tasks) \in ToSet(tasks) /\ ToSet(tasks') = ToSet(tasks) \ {Head(tasks)}
    BY <1>0, <2>1, PopSet DEF StageInv
  <2>3. \A i \in Image : Uses(i)' => Uses(i)
    BY <2>1, <2>2 DEF Uses
  <2>4. \A i \in Image : Holds(i)' => Holds(i)
    BY <2>1, <2>3 DEF Holds
  <2>. QED
    BY <1>0, <2>1, <2>3, <2>4, HoldsKept
<1>18. CASE TaskSubmit
  <2>1. UNCHANGED <<dst_image, completed>>
    BY <1>18 DEF TaskSubmit, Backend!SubmitImage
  <2>2. \A i \in Image : Uses(i)' => Uses(i)
    BY <1>18, ImageAssumption DEF TaskSubmit, Backend!SubmitImage, Uses
  <2>3. \A i \in Image : Holds(i)' => Holds(i)
    BY <1>18, <2>2, ImageAssumption DEF TaskSubmit, Backend!SubmitImage, Uses, Holds
  <2>. QED
    BY <1>0, <2>1, <2>2, <2>3, HoldsKept
<1>19. CASE TaskReturn
  <2> DEFINE R == {j \in {task} : refs[j] = {"task"}}
  <2>1. /\ UNCHANGED <<dst_image, user_data, tasks>>
        /\ UNCHANGED task /\ ran' = "returned" /\ task # NULL
        /\ refs' = [i \in Image |-> IF i \in {task} THEN refs[i] \ {"task"} ELSE refs[i]]
        /\ completed' = [s \in Surface |-> completed[s] \/ s \in {dst_image[i] : i \in R}]
        /\ \A u \in Thread : pc'[u] = pc[u] \/ (pc[u] = "asleep" /\ pc'[u] = "acquire")
    BY <1>19 DEF TaskReturn, Drop, ReleaseBuffer
  <2>2. {task} \in SUBSET Image
    BY <1>19 DEF TaskReturn
  <2>3. R \in SUBSET Image
    BY <2>2
  <2>4. \A i \in R : Uses(i)
    BY <2>3 DEF Uses
  <2>5. \A i \in Image : refs'[i] \subseteq refs[i] /\ (i \in R => refs'[i] = {})
    BY <2>1, <2>2
  <2>6. ASSUME NEW i \in Image PROVE Uses(i)' => Uses(i)
    BY <2>1, <2>5 DEF Uses
  <2>7. ASSUME NEW i \in R PROVE ~Uses(i)'
    <3>1. StageOf(i) /\ i \in Image
      BY <1>0, <2>3 DEF StageInv
    <3>2. given[i] # "new"
      BY <3>1, <1>0 DEF StageOf, StageInv, TypeOK
    <3>3. i \notin ToSet(tasks) /\ ~Early(i) /\ ~(task = i /\ ran = "taken")
      BY <3>1, <3>2 DEF StageOf
    <3>. QED
      BY <2>1, <2>5, <3>3, <1>19 DEF Uses, Early, TaskReturn
  <2>8. \A i \in Image : Holds(i)' => Holds(i)
    BY <2>1, <2>6 DEF Holds
  <2>. HIDE DEF R, IInv
  <2>. QED
    BY <1>0, <2>1, <2>3, <2>4, <2>6, <2>7, <2>8, HoldsShrinks
<1>20. CASE TaskDone
  <2>1. UNCHANGED <<dst_image, completed>>
    BY <1>20 DEF TaskDone
  <2>2. \A i \in Image : Uses(i)' => Uses(i)
    BY <1>20, ImageAssumption DEF TaskDone, Uses
  <2>3. \A i \in Image : Holds(i)' => Holds(i)
    BY <1>20, <2>2, ImageAssumption DEF TaskDone, Uses, Holds
  <2>. QED
    BY <1>0, <2>1, <2>2, <2>3, HoldsKept
<1>21. ASSUME NEW batch \in SUBSET Backend!Pending, GiveBack(batch) PROVE SurfaceInv'
  <2> DEFINE R == {j \in batch : refs[j] = {"user_data"}}
  <2>1. /\ UNCHANGED <<dst_image, user_data, tasks>>
        /\ UNCHANGED <<task, ran>>
        /\ refs' = [i \in Image |-> IF i \in batch THEN refs[i] \ {"user_data"} ELSE refs[i]]
        /\ completed' = [s \in Surface |-> completed[s] \/ s \in {dst_image[i] : i \in R}]
        /\ \A u \in Thread : pc'[u] = pc[u] \/ (pc[u] = "asleep" /\ pc'[u] = "acquire")
    BY <1>21 DEF GiveBack, Drop, ReleaseBuffer
  <2>2. batch \in SUBSET Image
    BY DEF Backend!Pending
  <2>3. R \in SUBSET Image
    BY <2>2
  <2>4. \A i \in R : Uses(i)
    BY <2>3 DEF Uses
  <2>5. \A i \in Image : refs'[i] \subseteq refs[i] /\ (i \in R => refs'[i] = {})
    BY <2>1, <2>2
  <2>6. ASSUME NEW i \in Image PROVE Uses(i)' => Uses(i)
    BY <2>1, <2>5 DEF Uses
  <2>7. ASSUME NEW i \in R PROVE ~Uses(i)'
    <3>1. StageOf(i) /\ i \in Image
      BY <1>0, <2>3 DEF StageInv
    <3>2. given[i] # "new"
      BY <3>1, <1>0 DEF StageOf, StageInv, TypeOK
    <3>3. i \notin ToSet(tasks) /\ ~Early(i) /\ ~(task = i /\ ran = "taken")
      BY <3>1, <3>2 DEF StageOf
    <3>. QED
      BY <2>1, <2>5, <3>3, <1>21 DEF Uses, Early, GiveBack
  <2>8. \A i \in Image : Holds(i)' => Holds(i)
    BY <2>1, <2>6 DEF Holds
  <2>. HIDE DEF R, IInv
  <2>. QED
    BY <1>0, <2>1, <2>3, <2>4, <2>6, <2>7, <2>8, HoldsShrinks
<1>22. CASE UNCHANGED vars
  <2>1. UNCHANGED <<dst_image, completed>>
    BY <1>22 DEF vars
  <2>2. \A i \in Image : Uses(i)' => Uses(i)
    BY <1>22, ImageAssumption DEF vars, Uses
  <2>3. \A i \in Image : Holds(i)' => Holds(i)
    BY <1>22, <2>2, ImageAssumption DEF vars, Uses, Holds
  <2>. QED
    BY <1>0, <2>1, <2>2, <2>3, HoldsKept
<1>. QED
  BY <1>1, <1>2, <1>3, <1>4, <1>5, <1>6, <1>7, <1>8, <1>9, <1>10, <1>11, <1>12, <1>13, <1>14, <1>15, <1>16, <1>17, <1>18, <1>19, <1>20, <1>21, <1>22
  DEF Next, Submitting, Flushing, Task, GivesBack
-----------------------------------------------------------------------------
(* Flush *)

\* The future of a task reaches its surface before SubmitImage returns.
LEMMA SyncStep == IInv /\ [Next]_vars => SyncInv'
<1>. SUFFICES ASSUME IInv, [Next]_vars PROVE SyncInv'
  OBVIOUS
<1>. USE DEF IInv, ThreadInv, InSubmit, InFlush, TypeOK, backendVars, surfaceVars, taskVars, threadVars
<1>0. TypeOK /\ SurfaceInv /\ StageInv /\ SyncInv
  OBVIOUS
<1>1. ASSUME NEW t \in Streaming, NEW j \in Image, SubmitCall(t, j) PROVE SyncInv'
  <2>1. ASSUME NEW i \in Image, Waits(i)', \A u \in Thread : user_data'[u] # i
        PROVE  Waits(i) /\ (\A u \in Thread : user_data[u] # i)
               /\ dst_image'[i] = dst_image[i] /\ sync' = sync
    BY <1>1, <2>1, ImageAssumption, ThreadAssumption DEF SubmitCall, Goto, Waits
  <2>. QED
    BY <1>0, <2>1 DEF SyncInv
<1>2. ASSUME NEW t \in Thread, AcquireLock(t) PROVE SyncInv'
  <2>1. ASSUME NEW i \in Image, Waits(i)', \A u \in Thread : user_data'[u] # i
        PROVE  Waits(i) /\ (\A u \in Thread : user_data[u] # i)
               /\ dst_image'[i] = dst_image[i] /\ sync' = sync
    BY <1>2, <2>1, ImageAssumption DEF AcquireLock, Goto, Waits
  <2>. QED
    BY <1>0, <2>1 DEF SyncInv
<1>3. ASSUME NEW t \in Thread, AcquireTake(t) PROVE SyncInv'
  <2>1. ASSUME NEW i \in Image, Waits(i)', \A u \in Thread : user_data'[u] # i
        PROVE  Waits(i) /\ (\A u \in Thread : user_data[u] # i)
               /\ dst_image'[i] = dst_image[i] /\ sync' = sync
    BY <1>3, <2>1, ImageAssumption DEF AcquireTake, Goto, Waits
  <2>. QED
    BY <1>0, <2>1 DEF SyncInv
<1>4. ASSUME NEW t \in Thread, AcquireNext(t) PROVE SyncInv'
  <2>1. ASSUME NEW i \in Image, Waits(i)', \A u \in Thread : user_data'[u] # i
        PROVE  Waits(i) /\ (\A u \in Thread : user_data[u] # i)
               /\ dst_image'[i] = dst_image[i] /\ sync' = sync
    BY <1>4, <2>1, ImageAssumption DEF AcquireNext, Goto, Waits
  <2>. QED
    BY <1>0, <2>1 DEF SyncInv
<1>5. ASSUME NEW t \in Thread, AcquireSleep(t) PROVE SyncInv'
  <2>1. ASSUME NEW i \in Image, Waits(i)', \A u \in Thread : user_data'[u] # i
        PROVE  Waits(i) /\ (\A u \in Thread : user_data[u] # i)
               /\ dst_image'[i] = dst_image[i] /\ sync' = sync
    BY <1>5, <2>1, ImageAssumption DEF AcquireSleep, Goto, Waits
  <2>. QED
    BY <1>0, <2>1 DEF SyncInv
<1>6. ASSUME NEW t \in Thread, AcquireWake(t) PROVE SyncInv'
  <2>1. ASSUME NEW i \in Image, Waits(i)', \A u \in Thread : user_data'[u] # i
        PROVE  Waits(i) /\ (\A u \in Thread : user_data[u] # i)
               /\ dst_image'[i] = dst_image[i] /\ sync' = sync
    BY <1>6, <2>1, ImageAssumption DEF AcquireWake, Goto, Waits
  <2>. QED
    BY <1>0, <2>1 DEF SyncInv
<1>7. ASSUME NEW t \in Thread, Convert(t) PROVE SyncInv'
  <2>1. ASSUME NEW i \in Image, Waits(i)', \A u \in Thread : user_data'[u] # i
        PROVE  Waits(i) /\ (\A u \in Thread : user_data[u] # i)
               /\ dst_image'[i] = dst_image[i] /\ sync' = sync
    BY <1>7, <2>1, ImageAssumption DEF Convert, Goto, Waits
  <2>. QED
    BY <1>0, <2>1 DEF SyncInv
<1>8. ASSUME NEW t \in Thread, ConvertThrow(t) PROVE SyncInv'
  <2>1. /\ pc[t] = "convert" /\ UNCHANGED <<tasks, task, ran, dst_image, sync>>
        /\ user_data' = [user_data EXCEPT ![t] = NULL]
    BY <1>8 DEF ConvertThrow, Return, Goto
  <2>2. \A i \in Image : Early(i) => ~Waits(i)
    BY <1>0 DEF StageInv, StageOf, Waits
  <2>3. ASSUME NEW i \in Image, Waits(i), user_data[t] = i PROVE FALSE
    BY <2>1, <2>2, <2>3 DEF Early
  <2>4. ASSUME NEW i \in Image, Waits(i)', \A u \in Thread : user_data'[u] # i
        PROVE  Waits(i) /\ \A u \in Thread : user_data[u] # i
    <3>1. Waits(i)
      BY <2>1, <2>4 DEF Waits
    <3>2. ASSUME NEW u \in Thread PROVE user_data[u] # i
      BY <2>1, <2>3, <2>4, <3>1
    <3>. QED
      BY <3>1, <3>2
  <2>. QED
    BY <1>0, <2>1, <2>4 DEF SyncInv
<1>9. ASSUME NEW t \in Thread, Schedule(t) PROVE SyncInv'
  <2>1. /\ pc[t] = "schedule" /\ user_data[t] \in Image /\ tasks \in Seq(Image)
        /\ tasks' = Append(tasks, user_data[t])
        /\ UNCHANGED <<task, ran, user_data, dst_image, sync>>
    BY <1>9 DEF Schedule, Goto
  <2>2. user_data[t] \notin ToSet(tasks)
    BY <1>0, <2>1 DEF StageInv, StageOf, Early
  <2>3. ToSet(tasks') = ToSet(tasks) \cup {user_data[t]}
    BY <1>0, <2>1, <2>2, PushSet DEF StageInv
  <2>4. ASSUME NEW i \in Image, Waits(i)', \A u \in Thread : user_data'[u] # i
        PROVE  Waits(i) /\ \A u \in Thread : user_data[u] # i
    BY <2>1, <2>3, <2>4 DEF Waits
  <2>. QED
    BY <1>0, <2>1, <2>4 DEF SyncInv
<1>10. ASSUME NEW t \in Thread, AssignSync(t) PROVE SyncInv'
  <2>1. PICK i \in Image : i = user_data[t]
    BY <1>10 DEF AssignSync
  <2>2. /\ pc[t] = "assign" /\ sync' = [sync EXCEPT ![dst_image[i]] = i]
        /\ user_data' = [user_data EXCEPT ![t] = NULL]
        /\ UNCHANGED <<tasks, task, ran, dst_image>>
    BY <1>10, <2>1 DEF AssignSync, Return, Goto
  <2>3. Holds(i) /\ dst_image[i] \in Surface
    BY <1>0, <2>1, <2>2 DEF Holds, SurfaceInv
  <2>4. sync'[dst_image[i]] = i
    BY <2>2, <2>3
  <2>5. ASSUME NEW j \in Image, Waits(j)', \A u \in Thread : user_data'[u] # j, j # i
        PROVE  sync'[dst_image[j]] = j
    <3>1. Waits(j)
      BY <2>2, <2>5 DEF Waits
    <3>2. \A u \in Thread : user_data[u] # j
      BY <2>1, <2>2, <2>5
    <3>3. Holds(j)
      BY <3>1 DEF Waits, Holds, Uses
    <3>4. dst_image[j] # dst_image[i] /\ dst_image[j] \in Surface
      BY <1>0, <2>3, <2>5, <3>3 DEF SurfaceInv
    <3>5. sync[dst_image[j]] = j
      BY <1>0, <3>1, <3>2 DEF SyncInv
    <3>. QED
      BY <2>2, <3>4, <3>5
  <2>. QED
    BY <2>2, <2>4, <2>5 DEF SyncInv
<1>11. ASSUME NEW t \in Thread, FlushCall(t) PROVE SyncInv'
  <2>1. ASSUME NEW i \in Image, Waits(i)', \A u \in Thread : user_data'[u] # i
        PROVE  Waits(i) /\ (\A u \in Thread : user_data[u] # i)
               /\ dst_image'[i] = dst_image[i] /\ sync' = sync
    BY <1>11, <2>1, ImageAssumption DEF FlushCall, Goto, Waits
  <2>. QED
    BY <1>0, <2>1 DEF SyncInv
<1>12. ASSUME NEW t \in Thread, FlushLock(t) PROVE SyncInv'
  <2>1. ASSUME NEW i \in Image, Waits(i)', \A u \in Thread : user_data'[u] # i
        PROVE  Waits(i) /\ (\A u \in Thread : user_data[u] # i)
               /\ dst_image'[i] = dst_image[i] /\ sync' = sync
    BY <1>12, <2>1, ImageAssumption DEF FlushLock, Goto, Waits
  <2>. QED
    BY <1>0, <2>1 DEF SyncInv
<1>13. ASSUME NEW t \in Thread, FlushWait(t) PROVE SyncInv'
  <2>1. ASSUME NEW i \in Image, Waits(i)', \A u \in Thread : user_data'[u] # i
        PROVE  Waits(i) /\ (\A u \in Thread : user_data[u] # i)
               /\ dst_image'[i] = dst_image[i] /\ sync' = sync
    BY <1>13, <2>1, ImageAssumption DEF FlushWait, Goto, Waits
  <2>. QED
    BY <1>0, <2>1 DEF SyncInv
<1>14. ASSUME NEW t \in Thread, FlushThrow(t) PROVE SyncInv'
  <2>1. ASSUME NEW i \in Image, Waits(i)', \A u \in Thread : user_data'[u] # i
        PROVE  Waits(i) /\ (\A u \in Thread : user_data[u] # i)
               /\ dst_image'[i] = dst_image[i] /\ sync' = sync
    BY <1>14, <2>1, ImageAssumption DEF FlushThrow, Goto, Waits
  <2>. QED
    BY <1>0, <2>1 DEF SyncInv
<1>15. ASSUME NEW t \in Thread, FlushBackend(t) PROVE SyncInv'
  <2>1. ASSUME NEW i \in Image, Waits(i)', \A u \in Thread : user_data'[u] # i
        PROVE  Waits(i) /\ (\A u \in Thread : user_data[u] # i)
               /\ dst_image'[i] = dst_image[i] /\ sync' = sync
    BY <1>15, <2>1, ImageAssumption DEF FlushBackend, Backend!FlushCall, Goto, Waits
  <2>. QED
    BY <1>0, <2>1 DEF SyncInv
<1>16. ASSUME NEW t \in Thread, FlushReturn(t) PROVE SyncInv'
  <2>1. ASSUME NEW i \in Image, Waits(i)', \A u \in Thread : user_data'[u] # i
        PROVE  Waits(i) /\ (\A u \in Thread : user_data[u] # i)
               /\ dst_image'[i] = dst_image[i] /\ sync' = sync
    BY <1>16, <2>1, ImageAssumption DEF FlushReturn, Backend!FlushReturn, Goto, Waits
  <2>. QED
    BY <1>0, <2>1 DEF SyncInv
<1>17. CASE TaskTake
  <2>1. /\ tasks \in Seq(Image) /\ tasks # <<>> /\ task' = Head(tasks) /\ tasks' = Tail(tasks)
        /\ UNCHANGED <<user_data, dst_image, sync>>
    BY <1>17 DEF TaskTake
  <2>2. Head(tasks) \in ToSet(tasks) /\ ToSet(tasks') = ToSet(tasks) \ {Head(tasks)}
    BY <1>0, <2>1, PopSet DEF StageInv
  <2>3. \A i \in Image : Waits(i)' => Waits(i)
    BY <2>1, <2>2 DEF Waits
  <2>. QED
    BY <1>0, <2>1, <2>3 DEF SyncInv
<1>18. CASE TaskSubmit
  <2>1. ASSUME NEW i \in Image, Waits(i)', \A u \in Thread : user_data'[u] # i
        PROVE  Waits(i) /\ (\A u \in Thread : user_data[u] # i)
               /\ dst_image'[i] = dst_image[i] /\ sync' = sync
    BY <1>18, <2>1, ImageAssumption DEF TaskSubmit, Backend!SubmitImage, Waits
  <2>. QED
    BY <1>0, <2>1 DEF SyncInv
<1>19. CASE TaskReturn
  <2>1. /\ UNCHANGED <<tasks, task, user_data, dst_image, sync>>
        /\ ran' = "taken" => ran = "taken"
    BY <1>19 DEF TaskReturn, Drop, ReleaseBuffer
  <2>. QED
    BY <1>0, <2>1 DEF SyncInv, Waits
<1>20. CASE TaskDone
  <2>1. ASSUME NEW i \in Image, Waits(i)', \A u \in Thread : user_data'[u] # i
        PROVE  Waits(i) /\ (\A u \in Thread : user_data[u] # i)
               /\ dst_image'[i] = dst_image[i] /\ sync' = sync
    BY <1>20, <2>1, ImageAssumption DEF TaskDone, Waits
  <2>. QED
    BY <1>0, <2>1 DEF SyncInv
<1>21. ASSUME NEW batch \in SUBSET Backend!Pending, GiveBack(batch) PROVE SyncInv'
  <2>1. /\ UNCHANGED <<tasks, task, user_data, dst_image, sync>>
        /\ ran' = "taken" => ran = "taken"
    BY <1>21 DEF GiveBack, Drop, ReleaseBuffer
  <2>. QED
    BY <1>0, <2>1 DEF SyncInv, Waits
<1>22. CASE UNCHANGED vars
  <2>1. ASSUME NEW i \in Image, Waits(i)', \A u \in Thread : user_data'[u] # i
        PROVE  Waits(i) /\ (\A u \in Thread : user_data[u] # i)
               /\ dst_image'[i] = dst_image[i] /\ sync' = sync
    BY <1>22, <2>1, ImageAssumption DEF vars, Waits
  <2>. QED
    BY <1>0, <2>1 DEF SyncInv
<1>. QED
  BY <1>1, <1>2, <1>3, <1>4, <1>5, <1>6, <1>7, <1>8, <1>9, <1>10, <1>11, <1>12, <1>13, <1>14, <1>15, <1>16, <1>17, <1>18, <1>19, <1>20, <1>21, <1>22
  DEF Next, Submitting, Flushing, Task, GivesBack

\* Flush passes a surface only when the image on it has been handed on.
LEMMA FlushStep == IInv /\ [Next]_vars => FlushInv'
<1>. SUFFICES ASSUME IInv, [Next]_vars PROVE FlushInv'
  OBVIOUS
<1>. USE DEF IInv, ThreadInv, InSubmit, InFlush, TypeOK, backendVars, surfaceVars, taskVars, threadVars
<1>0. TypeOK /\ SurfaceInv /\ StageInv /\ SyncInv /\ FlushInv /\ \A t \in Thread : due[t] \subseteq Image
  OBVIOUS
<1>1. ASSUME NEW t \in Streaming, NEW j \in Image, SubmitCall(t, j) PROVE FlushInv'
  <2>1. ASSUME NEW u \in Thread, NEW i \in Image, FlushOf(u, i)
        PROVE  FlushOf(u, i)'
    BY <1>1, <2>1, ImageAssumption, ThreadAssumption DEF SubmitCall, Goto, Waits, FlushOf
  <2>2. due' = due
    BY <1>1 DEF SubmitCall, Goto
  <2>. QED
    BY <1>0, <2>1, <2>2 DEF FlushInv
<1>2. ASSUME NEW t \in Thread, AcquireLock(t) PROVE FlushInv'
  <2>1. ASSUME NEW u \in Thread, NEW i \in Image, FlushOf(u, i)
        PROVE  FlushOf(u, i)'
    BY <1>2, <2>1, ImageAssumption DEF AcquireLock, Goto, Waits, FlushOf
  <2>2. due' = due
    BY <1>2 DEF AcquireLock, Goto
  <2>. QED
    BY <1>0, <2>1, <2>2 DEF FlushInv
<1>3. ASSUME NEW t \in Thread, AcquireTake(t) PROVE FlushInv'
  <2>1. ASSUME NEW u \in Thread, NEW i \in Image, FlushOf(u, i)
        PROVE  FlushOf(u, i)'
    BY <1>3, <2>1, ImageAssumption DEF AcquireTake, Goto, Waits, FlushOf
  <2>2. due' = due
    BY <1>3 DEF AcquireTake, Goto
  <2>. QED
    BY <1>0, <2>1, <2>2 DEF FlushInv
<1>4. ASSUME NEW t \in Thread, AcquireNext(t) PROVE FlushInv'
  <2>1. ASSUME NEW u \in Thread, NEW i \in Image, FlushOf(u, i)
        PROVE  FlushOf(u, i)'
    BY <1>4, <2>1, ImageAssumption DEF AcquireNext, Goto, Waits, FlushOf
  <2>2. due' = due
    BY <1>4 DEF AcquireNext, Goto
  <2>. QED
    BY <1>0, <2>1, <2>2 DEF FlushInv
<1>5. ASSUME NEW t \in Thread, AcquireSleep(t) PROVE FlushInv'
  <2>1. ASSUME NEW u \in Thread, NEW i \in Image, FlushOf(u, i)
        PROVE  FlushOf(u, i)'
    BY <1>5, <2>1, ImageAssumption DEF AcquireSleep, Goto, Waits, FlushOf
  <2>2. due' = due
    BY <1>5 DEF AcquireSleep, Goto
  <2>. QED
    BY <1>0, <2>1, <2>2 DEF FlushInv
<1>6. ASSUME NEW t \in Thread, AcquireWake(t) PROVE FlushInv'
  <2>1. ASSUME NEW u \in Thread, NEW i \in Image, FlushOf(u, i)
        PROVE  FlushOf(u, i)'
    BY <1>6, <2>1, ImageAssumption DEF AcquireWake, Goto, Waits, FlushOf
  <2>2. due' = due
    BY <1>6 DEF AcquireWake, Goto
  <2>. QED
    BY <1>0, <2>1, <2>2 DEF FlushInv
<1>7. ASSUME NEW t \in Thread, Convert(t) PROVE FlushInv'
  <2>1. ASSUME NEW u \in Thread, NEW i \in Image, FlushOf(u, i)
        PROVE  FlushOf(u, i)'
    BY <1>7, <2>1, ImageAssumption DEF Convert, Goto, Waits, FlushOf
  <2>2. due' = due
    BY <1>7 DEF Convert, Goto
  <2>. QED
    BY <1>0, <2>1, <2>2 DEF FlushInv
<1>8. ASSUME NEW t \in Thread, ConvertThrow(t) PROVE FlushInv'
  <2>1. ASSUME NEW u \in Thread, NEW i \in Image, FlushOf(u, i)
        PROVE  FlushOf(u, i)'
    BY <1>8, <2>1, ImageAssumption DEF ConvertThrow, Return, Goto, Waits, FlushOf
  <2>2. due' = due
    BY <1>8 DEF ConvertThrow, Return, Goto
  <2>. QED
    BY <1>0, <2>1, <2>2 DEF FlushInv
<1>9. ASSUME NEW t \in Thread, Schedule(t) PROVE FlushInv'
  <2>1. /\ pc[t] = "schedule" /\ pc' = [pc EXCEPT ![t] = "assign"]
        /\ user_data[t] \in Image /\ tasks \in Seq(Image)
        /\ tasks' = Append(tasks, user_data[t])
        /\ UNCHANGED <<given, begun, task, ran, user_data, dst_image, pos, due>>
    BY <1>9 DEF Schedule, Goto
  <2>2. user_data[t] \notin ToSet(tasks)
    BY <1>0, <2>1 DEF StageInv, StageOf, Early
  <2>3. ToSet(tasks') = ToSet(tasks) \cup {user_data[t]}
    BY <1>0, <2>1, <2>2, PushSet DEF StageInv
  <2>4. ASSUME NEW u \in Thread, NEW i \in Image, FlushOf(u, i) PROVE FlushOf(u, i)'
    BY <2>1, <2>3, <2>4 DEF Waits, FlushOf
  <2>. QED
    BY <1>0, <2>1, <2>4 DEF FlushInv
<1>10. ASSUME NEW t \in Thread, AssignSync(t) PROVE FlushInv'
  <2>1. ASSUME NEW u \in Thread, NEW i \in Image, FlushOf(u, i)
        PROVE  FlushOf(u, i)'
    BY <1>10, <2>1, ImageAssumption DEF AssignSync, Return, Goto, Waits, FlushOf
  <2>2. due' = due
    BY <1>10 DEF AssignSync, Return, Goto
  <2>. QED
    BY <1>0, <2>1, <2>2 DEF FlushInv
<1>11. ASSUME NEW t \in Thread, FlushCall(t) PROVE FlushInv'
  <2>1. /\ pc[t] = "idle" /\ pc' = [pc EXCEPT ![t] = "flush"]
        /\ due' = [due EXCEPT ![t] = Returned]
        /\ UNCHANGED <<given, begun, tasks, task, ran, user_data, dst_image, pos>>
    BY <1>11 DEF FlushCall, Goto
  <2>2. ASSUME NEW i \in Returned PROVE FlushOf(t, i)'
    <3>1. /\ i \in Image /\ i \in begun /\ \A u \in Thread : user_data[u] # i
          /\ i \in ToSet(tasks) \/ i = task \/ i \in done
      BY DEF Returned
    <3>2. given[i] = "new" => Waits(i)
      BY <1>0, <3>1 DEF StageInv, StageOf, Waits
    <3>. QED
      BY <2>1, <3>1, <3>2 DEF FlushOf, Waits
  <2>3. ASSUME NEW u \in Thread, u # t, NEW i \in Image, FlushOf(u, i) PROVE FlushOf(u, i)'
    BY <2>1, <2>3 DEF FlushOf, Waits
  <2>4. due'[t] = Returned /\ \A u \in Thread : u # t => due'[u] = due[u]
    BY <2>1
  <2>. HIDE DEF FlushOf, Returned
  <2>. QED
    BY <1>0, <2>2, <2>3, <2>4 DEF FlushInv
<1>12. ASSUME NEW t \in Thread, FlushLock(t) PROVE FlushInv'
  <2>1. /\ pc[t] = "flush" /\ pc' = [pc EXCEPT ![t] = "sync"] /\ pos' = [pos EXCEPT ![t] = 1]
        /\ UNCHANGED <<given, begun, tasks, task, ran, user_data, dst_image, due>>
    BY <1>12 DEF FlushLock, Goto
  <2>2. ASSUME NEW u \in Thread, u # t, NEW i \in Image, FlushOf(u, i) PROVE FlushOf(u, i)'
    BY <2>1, <2>2 DEF FlushOf, Waits
  <2>3. ASSUME NEW i \in Image, FlushOf(t, i) PROVE FlushOf(t, i)'
    <3>1. given[i] = "new" => dst_image[i] \in Surface
      BY <1>0, <2>3 DEF FlushOf, Waits, Uses, Holds, SurfaceInv
    <3>2. given[i] = "new" => dst_image[i] >= 1
      BY <3>1, PoolAssumption DEF Surface
    <3>. QED
      BY <2>1, <2>3, <3>2 DEF FlushOf, Waits
  <2>. QED
    BY <1>0, <2>1, <2>2, <2>3 DEF FlushInv
<1>13. ASSUME NEW t \in Thread, FlushWait(t) PROVE FlushInv'
  <2>1. /\ pc[t] = "sync"
        /\ completed[pos[t]] \/ sync[pos[t]] \in done
        /\ UNCHANGED <<given, begun, tasks, task, ran, user_data, dst_image, due>>
        /\ \A u \in Thread : u # t => pc'[u] = pc[u] /\ pos'[u] = pos[u]
        /\ \/ pos[t] = PoolSize /\ pc'[t] = "backend" /\ pos' = pos
           \/ pos[t] # PoolSize /\ pc'[t] = "sync" /\ pos'[t] = pos[t] + 1
    BY <1>13 DEF FlushWait, Goto
  <2>2. ASSUME NEW u \in Thread, u # t, NEW i \in Image, FlushOf(u, i) PROVE FlushOf(u, i)'
    BY <2>1, <2>2 DEF FlushOf, Waits
  <2>3. ASSUME NEW i \in Image, FlushOf(t, i) PROVE FlushOf(t, i)'
    <3>1. CASE given[i] # "new"
      BY <2>1, <2>3, <3>1 DEF FlushOf, Waits
    <3>2. CASE given[i] = "new"
      <4>1. Waits(i) /\ dst_image[i] >= pos[t] /\ \A u \in Thread : user_data[u] # i
        BY <2>1, <2>3, <3>2 DEF FlushOf, Waits
      <4>2. Uses(i) /\ Holds(i) /\ i \notin done
        BY <1>0, <4>1 DEF Waits, Uses, Holds, StageInv, StageOf
      <4>3. dst_image[i] \in Surface /\ ~completed[dst_image[i]] /\ sync[dst_image[i]] = i
        BY <1>0, <4>1, <4>2 DEF SurfaceInv, SyncInv
      <4>4. dst_image[i] # pos[t]
        BY <2>1, <4>2, <4>3
      <4>5. pos[t] \in Nat /\ dst_image[i] \in Nat /\ dst_image[i] <= PoolSize
            /\ PoolSize \in Nat
        BY <4>3, PoolAssumption DEF Surface
      <4>6. pos[t] # PoolSize /\ dst_image[i] >= pos[t] + 1
        BY <4>1, <4>4, <4>5
      <4>. QED
        BY <2>1, <2>3, <4>1, <4>6 DEF FlushOf, Waits
    <3>. QED
      BY <3>1, <3>2
  <2>. QED
    BY <1>0, <2>1, <2>2, <2>3 DEF FlushInv
<1>14. ASSUME NEW t \in Thread, FlushThrow(t) PROVE FlushInv'
  <2>1. ASSUME NEW u \in Thread, NEW i \in due'[u]
        PROVE  FlushOf(u, i)'
    BY <1>0, <1>14, <2>1, ImageAssumption DEF FlushThrow, Goto, Waits, FlushInv, FlushOf
  <2>. QED
    BY <2>1 DEF FlushInv
<1>15. ASSUME NEW t \in Thread, FlushBackend(t) PROVE FlushInv'
  <2>1. ASSUME NEW u \in Thread, NEW i \in due'[u]
        PROVE  FlushOf(u, i)'
    BY <1>0, <1>15, <2>1, ImageAssumption DEF FlushBackend, Backend!FlushCall, Goto, Waits, FlushInv, FlushOf
  <2>. QED
    BY <2>1 DEF FlushInv
<1>16. ASSUME NEW t \in Thread, FlushReturn(t) PROVE FlushInv'
  <2>1. ASSUME NEW u \in Thread, NEW i \in due'[u]
        PROVE  FlushOf(u, i)'
    BY <1>0, <1>16, <2>1, ImageAssumption DEF FlushReturn, Backend!FlushReturn, Goto, Waits, FlushInv, FlushOf
  <2>. QED
    BY <2>1 DEF FlushInv
<1>17. CASE TaskTake
  <2>1. /\ tasks \in Seq(Image) /\ tasks # <<>> /\ task = NULL
        /\ task' = Head(tasks) /\ tasks' = Tail(tasks) /\ ran' = "taken"
        /\ UNCHANGED <<given, begun, pc, user_data, dst_image, pos, due>>
    BY <1>17 DEF TaskTake
  <2>2. Head(tasks) \in ToSet(tasks) /\ ToSet(tasks') = ToSet(tasks) \ {Head(tasks)}
    BY <1>0, <2>1, PopSet DEF StageInv
  <2>3. \A i \in Image : Waits(i) => Waits(i)'
    BY <2>1, <2>2, ImageAssumption DEF Waits
  <2>4. ASSUME NEW u \in Thread, NEW i \in Image, FlushOf(u, i) PROVE FlushOf(u, i)'
    BY <2>1, <2>3, <2>4 DEF FlushOf
  <2>. QED
    BY <1>0, <2>1, <2>4 DEF FlushInv
<1>18. CASE TaskSubmit
  <2>1. /\ ran = "taken" /\ given' = [given EXCEPT ![task] = "pending"] /\ task \in Image
        /\ UNCHANGED <<begun, tasks, task, pc, user_data, dst_image, pos, due>>
    BY <1>18 DEF TaskSubmit, Backend!SubmitImage
  <2>2. given \in [Image -> Backend!Outcome]
    BY DEF Backend!TypeOK
  <2>3. given'[task] = "pending" /\ \A i \in Image : i # task => given'[i] = given[i]
    BY <2>1, <2>2
  <2>4. ASSUME NEW u \in Thread, NEW i \in Image, FlushOf(u, i) PROVE FlushOf(u, i)'
    BY <2>1, <2>3, <2>4 DEF FlushOf, Waits
  <2>. QED
    BY <1>0, <2>1, <2>4 DEF FlushInv
<1>19. CASE TaskReturn
  <2>1. /\ ran = "submitted" /\ ran' = "returned"
        /\ \A u \in Thread : pc'[u] = pc[u] \/ (pc[u] = "asleep" /\ pc'[u] = "acquire")
        /\ UNCHANGED <<given, begun, tasks, task, user_data, dst_image, pos, due>>
    BY <1>19 DEF TaskReturn, Drop, ReleaseBuffer
  <2>2. ASSUME NEW u \in Thread, NEW i \in Image, FlushOf(u, i) PROVE FlushOf(u, i)'
    BY <2>1, <2>2 DEF FlushOf, Waits
  <2>. QED
    BY <1>0, <2>1, <2>2 DEF FlushInv
<1>20. CASE TaskDone
  <2>1. ASSUME NEW u \in Thread, NEW i \in Image, FlushOf(u, i)
        PROVE  FlushOf(u, i)'
    BY <1>20, <2>1, ImageAssumption DEF TaskDone, Waits, FlushOf
  <2>2. due' = due
    BY <1>20 DEF TaskDone
  <2>. QED
    BY <1>0, <2>1, <2>2 DEF FlushInv
<1>21. ASSUME NEW batch \in SUBSET Backend!Pending, GiveBack(batch) PROVE FlushInv'
  <2>1. /\ \A i \in Image : given'[i] = "new" => given[i] = "new"
        /\ \A u \in Thread : pc'[u] = pc[u] \/ (pc[u] = "asleep" /\ pc'[u] = "acquire")
        /\ UNCHANGED <<begun, tasks, task, ran, user_data, dst_image, pos, due>>
    BY <1>21 DEF GiveBack, Drop, ReleaseBuffer, Backend!GiveBack, Backend!Pending, Backend!TypeOK
  <2>2. ASSUME NEW u \in Thread, NEW i \in Image, FlushOf(u, i) PROVE FlushOf(u, i)'
    BY <2>1, <2>2 DEF FlushOf, Waits
  <2>. QED
    BY <1>0, <2>1, <2>2 DEF FlushInv
<1>22. CASE UNCHANGED vars
  <2>1. ASSUME NEW u \in Thread, NEW i \in Image, FlushOf(u, i)
        PROVE  FlushOf(u, i)'
    BY <1>22, <2>1, ImageAssumption DEF vars, Waits, FlushOf
  <2>2. due' = due
    BY <1>22 DEF vars
  <2>. QED
    BY <1>0, <2>1, <2>2 DEF FlushInv
<1>. QED
  BY <1>1, <1>2, <1>3, <1>4, <1>5, <1>6, <1>7, <1>8, <1>9, <1>10, <1>11, <1>12, <1>13, <1>14, <1>15, <1>16, <1>17, <1>18, <1>19, <1>20, <1>21, <1>22
  DEF Next, Submitting, Flushing, Task, GivesBack
-----------------------------------------------------------------------------
(* The theorems *)

\* No image is submitted, all surfaces are free, and no Flush is under way.
LEMMA InitIInv == Init => IInv
<1>. SUFFICES ASSUME Init PROVE IInv
  OBVIOUS
<1>. USE DEF Init
<1>1. TypeOK
  <2>1. \A t \in Thread : pos[t] \in Surface
    BY PoolAssumption DEF Surface
  <2>2. Backend!TypeOK
    BY DEF Backend!Init, Backend!TypeOK, Backend!Outcome
  <2>. QED
    BY <2>1, <2>2 DEF TypeOK
<1>2. ThreadInv
  BY ImageAssumption DEF ThreadInv, InSubmit
<1>3. ToSet(tasks) = {}
  BY DEF ToSet
<1>4. StageInv
  BY <1>3, ImageAssumption DEF StageInv, StageOf, Early, Backend!Init
<1>5. SurfaceInv
  BY <1>3, ImageAssumption DEF SurfaceInv, Holds, Uses
<1>6. SyncInv
  BY <1>3, ImageAssumption DEF SyncInv, Waits
<1>7. FlushInv
  BY DEF FlushInv
<1>. QED
  BY <1>1, <1>2, <1>4, <1>5, <1>6, <1>7 DEF IInv

\* The parts of the invariant are inductive together.
THEOREM PreprocessInvariant == Spec => []IInv
<1>1. IInv /\ [Next]_vars => IInv'
  <2>. SUFFICES ASSUME IInv, [Next]_vars PROVE IInv'
    OBVIOUS
  <2>1. TypeOK' /\ ThreadInv' /\ StageInv'
    BY TypeStep, ThreadStep, StageStep DEF IInv
  <2>2. SurfaceInv' /\ SyncInv' /\ FlushInv'
    BY SurfaceStep, SyncStep, FlushStep
  <2>. QED
    BY <2>1, <2>2 DEF IInv
<1>. QED
  BY InitIInv, <1>1, PTL DEF Spec

\* The variables keep their types.
THEOREM TypeCorrect == Spec => []TypeOK
<1>1. IInv => TypeOK
  BY DEF IInv
<1>. QED
  BY PreprocessInvariant, <1>1, PTL

\* No two images are in one surface and none is in a free one (AcquireBuffer and
\* the deleter in SubmitInference), for any number of threads and surfaces.
THEOREM SurfacesExclusive == Spec => []SurfaceExclusive
<1>1. IInv => SurfaceExclusive
  BY DEF IInv, SurfaceInv, SurfaceExclusive, Holds
<1>. QED
  BY PreprocessInvariant, <1>1, PTL

\* When Flush turns to the backend, everything whose SubmitImage had returned
\* has been handed to the backend (ImageInferenceAsync::Flush).
THEOREM FlushCoversReturned == Spec => []FlushCovers
<1>1. IInv => FlushCovers
  BY DEF IInv, FlushInv, FlushOf, FlushCovers
<1>. QED
  BY PreprocessInvariant, <1>1, PTL
=============================================================================
