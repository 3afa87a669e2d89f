------------------------ MODULE ImageInferenceAsync -------------------------
(***************************************************************************)
(* The preprocessing stage that class ImageInferenceAsync (inference_      *)
(* backend/image_inference/async_with_va_api) puts in front of another     *)
(* ImageInference when frames are in GPU memory: SubmitImage takes a       *)
(* surface from VaApiImagePool, starts the conversion of the image into it *)
(* and schedules a task on ThreadPool; the task maps the surface and hands *)
(* the image on to the backend; the last reference to the mapped image     *)
(* releases the surface.  Flush waits for the tasks of the surfaces in use *)
(* and then flushes the backend, which is the module ImageInference.       *)
(*                                                                         *)
(* A worker of ThreadPool runs its task with the mutex of the pool held,   *)
(* so one task runs at a time.  A worker that missed a notification looks  *)
(* at the queue again when wait_for is over, and so the sleep of a worker  *)
(* is not modelled.  SubmitImage runs under the mutex of InferenceImpl,    *)
(* Flush does not.                                                         *)
(*                                                                         *)
(* ThreadPool::schedule pushes on the queue without the mutex with which   *)
(* a worker pops (thread_pool.cpp:43).  The two are atomic here; what the  *)
(* race may do to the queue is undefined and has no model.  Nor has an     *)
(* exception that leaves a task (of Map or of the backend): nothing        *)
(* catches it, and it ends the process.                                    *)
(***************************************************************************)
EXTENDS Naturals, Sequences, FiniteSets, SequencesExt

CONSTANTS Image,        \* the images submitted, each once
          Thread,       \* the threads that call: all may flush,
          Streaming,    \*   and these submit
          PoolSize,     \* image_pool_size
          batch_size,   \* of the backend
          NULL

ASSUME ImageAssumption == IsFiniteSet(Image) /\ NULL \notin Image \cup Thread
ASSUME ThreadAssumption == Streaming \subseteq Thread
ASSUME PoolAssumption  == PoolSize \in Nat \ {0} /\ batch_size \in Nat \ {0}

VARIABLES
    given, flushing,      \* the backend: see ImageInference
    sharing,              \* vaapi-surface-sharing: the backend infers on the surface
    completed,            \* VaApiImage::completed
    sync,                 \* VaApiImage::sync, the image whose task it is the future of
    dst_image,            \* the surface each image was converted into, or NULL
    refs,                 \* who refers to the mapped image: "task", "user_data"
    tasks,                \* ThreadPool::_tasks
    task,                 \* the image whose task runs, or NULL
    ran,                  \* how far it is
    done,                 \* the images whose promise is set
    pc, user_data, pos,   \* of each thread: where it is, its image, its loop index
    impl_mutex,           \* InferenceImpl::_mutex: the thread that has it, or NULL
    free_images_mutex,    \* VaApiImagePool::_free_images_mutex
    begun,                \* the images whose SubmitImage has been called
    due                   \* images whose SubmitImage had returned when Flush was called

backendVars == <<given, flushing>>
surfaceVars == <<completed, sync, dst_image, refs>>
taskVars    == <<tasks, task, ran, done>>
threadVars  == <<pc, user_data, pos, impl_mutex, free_images_mutex, begun, due>>
vars == <<given, flushing, sharing, completed, sync, dst_image, refs, tasks, task, ran,
          done, pc, user_data, pos, impl_mutex, free_images_mutex, begun, due>>

Surface  == 1..PoolSize
InSubmit == {"acquire", "scan", "wait", "asleep", "convert", "schedule", "assign"}
InFlush  == {"flush", "sync", "backend", "backend_flush"}

Backend == INSTANCE ImageInference

\* The types of the variables.
TypeOK ==
    /\ Backend!TypeOK
    /\ sharing \in BOOLEAN
    /\ completed \in [Surface -> BOOLEAN]
    /\ sync \in [Surface -> Image \cup {NULL}]
    /\ dst_image \in [Image -> Surface \cup {NULL}]
    /\ refs \in [Image -> SUBSET {"task", "user_data"}]
    /\ tasks \in Seq(Image)
    /\ task \in Image \cup {NULL}
    /\ ran \in {"taken", "submitted", "returned"}
    /\ done \subseteq Image
    /\ pc \in [Thread -> {"idle"} \cup InSubmit \cup InFlush]
    /\ user_data \in [Thread -> Image \cup {NULL}]
    /\ pos \in [Thread -> Surface]
    /\ impl_mutex \in Thread \cup {NULL}
    /\ free_images_mutex \in Thread \cup {NULL}
    /\ begun \subseteq Image
    /\ due \in [Thread -> SUBSET Image]

Init ==
    /\ Backend!Init
    /\ sharing \in BOOLEAN
    /\ completed = [s \in Surface |-> TRUE]
    /\ sync = [s \in Surface |-> NULL]
    /\ dst_image = [i \in Image |-> NULL]
    /\ refs = [i \in Image |-> {}]
    /\ tasks = <<>>
    /\ task = NULL
    /\ ran = "taken"
    /\ done = {}
    /\ pc = [t \in Thread |-> "idle"]
    /\ user_data = [t \in Thread |-> NULL]
    /\ pos = [t \in Thread |-> 1]
    /\ impl_mutex = NULL
    /\ free_images_mutex = NULL
    /\ begun = {}
    /\ due = [t \in Thread |-> {}]

-----------------------------------------------------------------------------
(* SubmitImage *)

Goto(t, place) == pc' = [pc EXCEPT ![t] = place]

\* InferenceImpl::TransformFrameIp, with its lock, calls SubmitImage.
SubmitCall(t, i) ==
    /\ pc[t] = "idle"
    /\ i \notin begun
    /\ impl_mutex = NULL
    /\ impl_mutex' = t
    /\ begun' = begun \cup {i}
    /\ user_data' = [user_data EXCEPT ![t] = i]
    /\ Goto(t, "acquire")
    /\ UNCHANGED <<backendVars, sharing, surfaceVars, taskVars, pos, free_images_mutex, due>>

\* AcquireBuffer locks, and looks at the surfaces from the first.
AcquireLock(t) ==
    /\ pc[t] = "acquire"
    /\ free_images_mutex = NULL
    /\ free_images_mutex' = t
    /\ pos' = [pos EXCEPT ![t] = 1]
    /\ Goto(t, "scan")
    /\ UNCHANGED <<backendVars, sharing, surfaceVars, taskVars, user_data, impl_mutex, begun, due>>

\* Mutant: the surface is not marked as taken.
AcquireUnmarked(t) ==
    /\ pc[t] = "scan"
    /\ completed[pos[t]]
    /\ dst_image' = [dst_image EXCEPT ![user_data[t]] = pos[t]]
    /\ free_images_mutex' = NULL
    /\ Goto(t, "convert")
    /\ UNCHANGED <<backendVars, sharing, completed, sync, refs, taskVars, user_data, pos,
                   impl_mutex, begun, due>>

AcquireTake(t) ==
    /\ pc[t] = "scan"
    /\ completed[pos[t]]
    /\ completed' = [completed EXCEPT ![pos[t]] = FALSE]
    /\ dst_image' = [dst_image EXCEPT ![user_data[t]] = pos[t]]
    /\ free_images_mutex' = NULL
    /\ Goto(t, "convert")
    /\ UNCHANGED <<backendVars, sharing, sync, refs, taskVars, user_data, pos, impl_mutex,
                   begun, due>>

AcquireNext(t) ==
    /\ pc[t] = "scan"
    /\ ~completed[pos[t]]
    /\ IF pos[t] = PoolSize
         THEN Goto(t, "wait") /\ UNCHANGED pos
         ELSE pos' = [pos EXCEPT ![t] = @ + 1] /\ UNCHANGED pc
    /\ UNCHANGED <<backendVars, sharing, surfaceVars, taskVars, user_data, impl_mutex,
                   free_images_mutex, begun, due>>

\* The wait has no predicate: a surface released since it was looked at, and
\* its notification, go unnoticed.
AcquireSleep(t) ==
    /\ pc[t] = "wait"
    /\ free_images_mutex' = NULL
    /\ Goto(t, "asleep")
    /\ UNCHANGED <<backendVars, sharing, surfaceVars, taskVars, user_data, pos, impl_mutex,
                   begun, due>>

\* A condition variable may wake for no reason.
AcquireWake(t) ==
    /\ pc[t] = "asleep"
    /\ Goto(t, "acquire")
    /\ UNCHANGED <<backendVars, sharing, surfaceVars, taskVars, user_data, pos, impl_mutex,
                   free_images_mutex, begun, due>>

\* The call is over, and so is the caller's turn.
Return(t) == /\ impl_mutex' = NULL
             /\ user_data' = [user_data EXCEPT ![t] = NULL]
             /\ Goto(t, "idle")

Convert(t) ==
    /\ pc[t] = "convert"
    /\ Goto(t, "schedule")
    /\ UNCHANGED <<backendVars, sharing, surfaceVars, taskVars, user_data, pos, impl_mutex,
                   free_images_mutex, begun, due>>

\* VaApiConverter::Convert throws: nobody releases the surface.
ConvertThrow(t) ==
    /\ pc[t] = "convert"
    /\ Return(t)
    /\ UNCHANGED <<backendVars, sharing, surfaceVars, taskVars, pos, free_images_mutex,
                   begun, due>>

\* The task may run before its future has reached the surface.
Schedule(t) ==
    /\ pc[t] = "schedule"
    /\ tasks' = Append(tasks, user_data[t])
    /\ Goto(t, "assign")
    /\ UNCHANGED <<backendVars, sharing, surfaceVars, task, ran, done, user_data, pos,
                   impl_mutex, free_images_mutex, begun, due>>

AssignSync(t) ==
    LET i == user_data[t]
    IN /\ pc[t] = "assign"
       /\ sync' = [sync EXCEPT ![dst_image[i]] = i]
       /\ Return(t)
       /\ UNCHANGED <<backendVars, sharing, completed, dst_image, refs, taskVars, pos,
                      free_images_mutex, begun, due>>
-----------------------------------------------------------------------------
(* ThreadPool::_task_runner with the task of SubmitInference *)

TaskTake ==
    /\ task = NULL
    /\ tasks # <<>>
    /\ task' = Head(tasks)
    /\ tasks' = Tail(tasks)
    /\ ran' = "taken"
    /\ UNCHANGED <<backendVars, sharing, surfaceVars, done, threadVars>>

\* The mapped image is referred to by the task and by the frame; a backend
\* that copies the image drops the reference of the frame.
TaskSubmit ==
    /\ task # NULL
    /\ ran = "taken"
    /\ Backend!SubmitImage(task)
    /\ refs' = [refs EXCEPT ![task] = IF sharing THEN {"task", "user_data"} ELSE {"task"}]
    /\ ran' = "submitted"
    /\ UNCHANGED <<sharing, completed, sync, dst_image, tasks, task, done, threadVars>>

\* Mutant: nobody is notified.
ReleaseSilently(surfaces) ==
    /\ completed' = [s \in Surface |-> completed[s] \/ s \in surfaces]
    /\ UNCHANGED pc

\* Mutant: ReleaseBuffer takes the mutex that Flush holds.
ReleaseLocked(surfaces) ==
    /\ surfaces # {} => free_images_mutex = NULL
    /\ completed' = [s \in Surface |-> completed[s] \/ s \in surfaces]
    /\ pc' = [t \in Thread |-> IF surfaces # {} /\ pc[t] = "asleep" THEN "acquire" ELSE pc[t]]

\* ReleaseBuffer takes no mutex.  One thread at most waits: it has impl_mutex.
ReleaseBuffer(surfaces) ==
    /\ completed' = [s \in Surface |-> completed[s] \/ s \in surfaces]
    /\ pc' = [t \in Thread |-> IF surfaces # {} /\ pc[t] = "asleep" THEN "acquire" ELSE pc[t]]

\* References of one kind are dropped; the last one to an image releases its surface.
Drop(images, ref) ==
    /\ refs' = [i \in Image |-> IF i \in images THEN refs[i] \ {ref} ELSE refs[i]]
    /\ ReleaseBuffer({dst_image[i] : i \in {j \in images : refs[j] = {ref}}})

\* SubmitInference returns.
TaskReturn ==
    /\ task # NULL
    /\ ran = "submitted"
    /\ Drop({task}, "task")
    /\ ran' = "returned"
    /\ UNCHANGED <<backendVars, sharing, sync, dst_image, tasks, task, done, user_data, pos,
                   impl_mutex, free_images_mutex, begun, due>>

\* p->set_value(), and the worker lets go of the mutex of the pool.
TaskDone ==
    /\ task # NULL
    /\ ran = "returned"
    /\ done' = done \cup {task}
    /\ task' = NULL
    /\ UNCHANGED <<backendVars, sharing, surfaceVars, tasks, ran, threadVars>>

\* A request of the backend is over, well or not: its frames are gone, with
\* their images.
GiveBack(batch) ==
    /\ Backend!GiveBack(batch, "completed")
    /\ Drop(batch, "user_data")
    /\ UNCHANGED <<sharing, sync, dst_image, taskVars, user_data, pos, impl_mutex,
                   free_images_mutex, begun, due>>
-----------------------------------------------------------------------------
(* Flush *)

Returned == {i \in begun : /\ i \in ToSet(tasks) \cup {task} \cup done
                           /\ \A t \in Thread : user_data[t] # i}

FlushCall(t) ==
    /\ pc[t] = "idle"
    /\ due' = [due EXCEPT ![t] = Returned]
    /\ Goto(t, "flush")
    /\ UNCHANGED <<backendVars, sharing, surfaceVars, taskVars, user_data, pos, impl_mutex,
                   free_images_mutex, begun>>

FlushLock(t) ==
    /\ pc[t] = "flush"
    /\ free_images_mutex = NULL
    /\ free_images_mutex' = t
    /\ pos' = [pos EXCEPT ![t] = 1]
    /\ Goto(t, "sync")
    /\ UNCHANGED <<backendVars, sharing, surfaceVars, taskVars, user_data, impl_mutex, begun, due>>

\* Mutant: the surfaces in use are passed over.
FlushSkip(t) ==
    /\ pc[t] = "sync"
    /\ IF pos[t] = PoolSize
         THEN Goto(t, "backend") /\ free_images_mutex' = NULL /\ UNCHANGED pos
         ELSE pos' = [pos EXCEPT ![t] = @ + 1] /\ UNCHANGED <<pc, free_images_mutex>>
    /\ UNCHANGED <<backendVars, sharing, surfaceVars, taskVars, user_data, impl_mutex, begun, due>>

\* Mutant: the loop runs one surface too far.
FlushPastEnd(t) ==
    /\ pc[t] = "sync"
    /\ completed[pos[t]] \/ sync[pos[t]] \in done
    /\ IF pos[t] > PoolSize
         THEN Goto(t, "backend") /\ free_images_mutex' = NULL /\ UNCHANGED pos
         ELSE pos' = [pos EXCEPT ![t] = @ + 1] /\ UNCHANGED <<pc, free_images_mutex>>
    /\ UNCHANGED <<backendVars, sharing, surfaceVars, taskVars, user_data, impl_mutex, begun, due>>

\* One surface after the other: free, or its task is over.
FlushWait(t) ==
    /\ pc[t] = "sync"
    /\ completed[pos[t]] \/ sync[pos[t]] \in done
    /\ IF pos[t] = PoolSize
         THEN Goto(t, "backend") /\ free_images_mutex' = NULL /\ UNCHANGED pos
         ELSE pos' = [pos EXCEPT ![t] = @ + 1] /\ UNCHANGED <<pc, free_images_mutex>>
    /\ UNCHANGED <<backendVars, sharing, surfaceVars, taskVars, user_data, impl_mutex, begun, due>>

\* The surface was taken by another thread, which has not scheduled its first
\* task: wait() on a future without a state throws, and Flush is given up.
FlushThrow(t) ==
    /\ pc[t] = "sync"
    /\ ~completed[pos[t]]
    /\ sync[pos[t]] = NULL
    /\ free_images_mutex' = NULL
    /\ due' = [due EXCEPT ![t] = {}]
    /\ Goto(t, "idle")
    /\ UNCHANGED <<backendVars, sharing, surfaceVars, taskVars, user_data, pos, impl_mutex, begun>>

FlushBackend(t) ==
    /\ pc[t] = "backend"
    /\ Backend!FlushCall(t)
    /\ Goto(t, "backend_flush")
    /\ UNCHANGED <<sharing, surfaceVars, taskVars, user_data, pos, impl_mutex,
                   free_images_mutex, begun, due>>

FlushReturn(t) ==
    /\ pc[t] = "backend_flush"
    /\ Backend!FlushReturn(t)
    /\ due' = [due EXCEPT ![t] = {}]
    /\ Goto(t, "idle")
    /\ UNCHANGED <<sharing, surfaceVars, taskVars, user_data, pos, impl_mutex,
                   free_images_mutex, begun>>
-----------------------------------------------------------------------------
Submitting(t) == \/ AcquireLock(t) \/ AcquireTake(t) \/ AcquireNext(t) \/ AcquireSleep(t)
                 \/ Convert(t) \/ ConvertThrow(t) \/ Schedule(t) \/ AssignSync(t)
Flushing(t)   == FlushLock(t) \/ FlushWait(t) \/ FlushThrow(t) \/ FlushBackend(t) \/ FlushReturn(t)
Task          == TaskTake \/ TaskSubmit \/ TaskReturn \/ TaskDone
GivesBack     == \E batch \in SUBSET Backend!Pending : GiveBack(batch)

Next == \/ \E t \in Streaming, i \in Image : SubmitCall(t, i)
        \/ \E t \in Thread : \/ Submitting(t) \/ AcquireWake(t)
                             \/ FlushCall(t) \/ Flushing(t)
        \/ Task
        \/ GivesBack

Spec == Init /\ [][Next]_vars

\* Threads inside a call run on, workers take tasks (wait_for ends), and the
\* backend gives images back when a batch is full and when it is flushed.
FairSpec ==
    /\ Spec
    /\ \A t \in Thread : WF_vars(Flushing(t))
    /\ \A t \in Streaming : WF_vars(Submitting(t))
    /\ WF_vars(Task)
    /\ WF_vars((Cardinality(Backend!Pending) >= batch_size \/ flushing # {}) /\ GivesBack)
-----------------------------------------------------------------------------
(* Properties *)

\* The image is being converted into its surface, is read from it, or its
\* mapped image is referred to.
Uses(i) == \/ \E t \in Thread : user_data[t] = i /\ pc[t] \in {"convert", "schedule"}
           \/ i \in ToSet(tasks)
           \/ task = i /\ ran = "taken"
           \/ refs[i] # {}

\* No two images are in one surface, and none is in a surface that AcquireBuffer
\* would give away: though ReleaseBuffer takes no mutex, and the reference that
\* releases a surface may be that of the task or that of the frame (deleter in
\* SubmitInference).
SurfaceExclusive ==
    /\ \A i, j \in Image : Uses(i) /\ Uses(j) /\ dst_image[i] = dst_image[j] => i = j
    /\ \A i \in Image : Uses(i) => ~completed[dst_image[i]]

\* What SubmitImage had accepted before Flush was called has been handed to the
\* backend when Flush turns to it, so that the flush of the backend covers it.
FlushCovers ==
    \A t \in Thread : pc[t] \in {"backend", "backend_flush"} =>
        \A i \in due[t] : given[i] # "new"

\* A Flush that has the mutex ends: the tasks it waits for need no mutex of the
\* pool of surfaces, not even to release their surface.
FlushTerminates ==
    \A t \in Thread : pc[t] \in InFlush \ {"flush"} ~> pc[t] \notin InFlush \ {"flush"}

\* Enough surfaces are in use for one of them to come back without a Flush.
WillRelease == Cardinality({i \in Image : Uses(i)}) >= IF sharing THEN batch_size ELSE 1

\* A notification that AcquireBuffer misses is made good by the next one: while
\* a surface will come back, the thread that sleeps will wake up.
SleeperWakes == \A t \in Thread : pc[t] = "asleep" /\ WillRelease ~> pc[t] # "asleep"
=============================================================================
