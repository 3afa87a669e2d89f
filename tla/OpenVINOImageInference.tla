----------------------- MODULE OpenVINOImageInference -----------------------
(***************************************************************************)
(* The pool of inference requests of class OpenVINOImageInference          *)
(* (inference_backend/image_inference/openvino/openvino_image_inference).  *)
(*                                                                         *)
(* Streaming threads call SubmitImage and Flush, the thread that drops the *)
(* last reference calls Close; each request's completion callback runs on  *)
(* a thread of the Inference Engine and is a sequence of actions here: the *)
(* results are reported, the request is returned to freeRequests, the      *)
(* counter is decremented, the flushing thread is notified.  The callback  *)
(* takes no lock after it has returned the request, so its last two steps  *)
(* interleave with the next use of the same request.                       *)
(***************************************************************************)
EXTENDS Naturals, Sequences, FiniteSets

CONSTANTS Request,      \* the nireq BatchRequest objects Init creates
          Image,        \* the images submitted, each once
          Thread,       \* the threads that call the class
          batch_size,   \* const int batch_size
          MayThrow,     \* whether preprocessing, or the callback, may throw
          NULL

ASSUME RequestAssumption == IsFiniteSet(Request) /\ Request # {}
ASSUME ImageAssumption   == IsFiniteSet(Image)
ASSUME BatchAssumption   == batch_size \in Nat \ {0}
ASSUME ThrowAssumption   == MayThrow \in BOOLEAN
ASSUME NullAssumption    == NULL \notin Request \cup Image \cup Thread

VARIABLES
    freeRequests,         \* SafeQueue<std::shared_ptr<BatchRequest>>
    buffers,              \* BatchRequest::buffers, as the set of its images
    requests_processing_, \* std::atomic<unsigned int>
    requests_mutex_,      \* the thread that holds it, or NULL
    pc,                   \* where each calling thread is
    request,              \* its local variable of that name, or NULL
    user_data,            \* the image it is submitting, or NULL
    engine,               \* each request on the side of the Inference Engine
    status,               \* what has become of each image
    uncounted,            \* batches whose callback has yet to decrement the counter
    unnotified,           \* batches whose callback has yet to call notify_all
    closer,               \* the thread that runs Close, or NULL
    reset                 \* the requests whose callback Close has reset

poolVars   == <<freeRequests, buffers, engine>>
threadVars == <<requests_mutex_, pc, request, user_data>>
vars == <<freeRequests, buffers, requests_processing_, requests_mutex_, pc,
          request, user_data, engine, status, uncounted, unnotified, closer, reset>>

InSubmit == {"pop", "prepare"}
InFlush  == {"check", "take", "put", "await", "asleep"}
Stage    == {"idle", "drain", "closed"} \cup InSubmit \cup InFlush
Status   == {"new", "submitting", "batched", "completed", "failed", "thrown"}

\* The types of the variables; the counter, unsigned in the code, does not go
\* below zero.
TypeOK ==
    /\ freeRequests \in Seq(Request)
    /\ buffers \in [Request -> SUBSET Image]
    /\ requests_processing_ \in Nat
    /\ requests_mutex_ \in Thread \cup {NULL}
    /\ pc \in [Thread -> Stage]
    /\ request \in [Thread -> Request \cup {NULL}]
    /\ user_data \in [Thread -> Image \cup {NULL}]
    /\ engine \in [Request -> {"idle", "running", "reported"}]
    /\ status \in [Image -> Status]
    /\ uncounted \subseteq SUBSET Image
    /\ unnotified \subseteq SUBSET Image
    /\ closer \in Thread \cup {NULL}
    /\ reset \subseteq Request

\* The state in which Init() has left the object: every request is free.
Init ==
    /\ freeRequests \in {q \in [1..Cardinality(Request) -> Request] :
                             \A i, j \in DOMAIN q : i # j => q[i] # q[j]}
    /\ buffers = [r \in Request |-> {}]
    /\ requests_processing_ = 0
    /\ requests_mutex_ = NULL
    /\ pc = [t \in Thread |-> "idle"]
    /\ request = [t \in Thread |-> NULL]
    /\ user_data = [t \in Thread |-> NULL]
    /\ engine = [r \in Request |-> "idle"]
    /\ status = [i \in Image |-> "new"]
    /\ uncounted = {}
    /\ unnotified = {}
    /\ closer = NULL
    /\ reset = {}

-----------------------------------------------------------------------------
(* SubmitImage *)

\* Mutant: SubmitImage without its lock.
SubmitUnlocked(t, i) ==
    /\ pc[t] = "idle"
    /\ closer = NULL
    /\ status[i] = "new"
    /\ requests_mutex_' = t
    /\ requests_processing_' = requests_processing_ + 1
    /\ user_data' = [user_data EXCEPT ![t] = i]
    /\ status' = [status EXCEPT ![i] = "submitting"]
    /\ pc' = [pc EXCEPT ![t] = "pop"]
    /\ UNCHANGED <<poolVars, request, uncounted, unnotified, closer, reset>>

\* requests_mutex_ is taken for the whole call; the counter is incremented
\* before the request is popped.
SubmitLock(t, i) ==
    /\ pc[t] = "idle"
    /\ closer = NULL
    /\ requests_mutex_ = NULL
    /\ status[i] = "new"
    /\ requests_mutex_' = t
    /\ requests_processing_' = requests_processing_ + 1
    /\ user_data' = [user_data EXCEPT ![t] = i]
    /\ status' = [status EXCEPT ![i] = "submitting"]
    /\ pc' = [pc EXCEPT ![t] = "pop"]
    /\ UNCHANGED <<poolVars, request, uncounted, unnotified, closer, reset>>

\* freeRequests.pop() blocks while the queue is empty.
Pop(t) == /\ freeRequests # <<>>
          /\ request' = [request EXCEPT ![t] = Head(freeRequests)]
          /\ freeRequests' = Tail(freeRequests)

SubmitPop(t) ==
    /\ pc[t] = "pop"
    /\ Pop(t)
    /\ pc' = [pc EXCEPT ![t] = "prepare"]
    /\ UNCHANGED <<buffers, requests_processing_, requests_mutex_, user_data, engine,
                   status, uncounted, unnotified, closer, reset>>

\* The call ends: the lock and the locals go.
Leave(t) == /\ requests_mutex_' = NULL
            /\ request' = [request EXCEPT ![t] = NULL]
            /\ user_data' = [user_data EXCEPT ![t] = NULL]
            /\ pc' = [pc EXCEPT ![t] = "idle"]

\* Mutant: push instead of push_front.
SubmitAddAtBack(t) ==
    LET r == request[t]
        i == user_data[t]
    IN /\ pc[t] = "prepare"
       /\ buffers' = [buffers EXCEPT ![r] = @ \cup {i}]
       /\ status' = [status EXCEPT ![i] = "batched"]
       /\ IF Cardinality(buffers'[r]) >= batch_size
            THEN /\ engine' = [engine EXCEPT ![r] = "running"]
                 /\ UNCHANGED freeRequests
            ELSE /\ freeRequests' = Append(freeRequests, r)
                 /\ UNCHANGED engine
       /\ Leave(t)
       /\ UNCHANGED <<requests_processing_, uncounted, unnotified, closer, reset>>

\* The image joins the batch; a full batch is started, an incomplete one goes
\* back to the head of the queue for the next image to join it.
SubmitAdd(t) ==
    LET r == request[t]
        i == user_data[t]
    IN /\ pc[t] = "prepare"
       /\ buffers' = [buffers EXCEPT ![r] = @ \cup {i}]
       /\ status' = [status EXCEPT ![i] = "batched"]
       /\ IF Cardinality(buffers'[r]) >= batch_size
            THEN /\ engine' = [engine EXCEPT ![r] = "running"]
                 /\ UNCHANGED freeRequests
            ELSE /\ freeRequests' = <<r>> \o freeRequests
                 /\ UNCHANGED engine
       /\ Leave(t)
       /\ UNCHANGED <<requests_processing_, uncounted, unnotified, closer, reset>>

\* Preprocessing throws: the exception leaves SubmitImage with the request
\* popped and the counter incremented, and nothing undoes either.
SubmitThrow(t) ==
    /\ MayThrow
    /\ pc[t] = "prepare"
    /\ status' = [status EXCEPT ![user_data[t]] = "thrown"]
    /\ Leave(t)
    /\ UNCHANGED <<poolVars, requests_processing_, uncounted, unnotified, closer, reset>>

-----------------------------------------------------------------------------
(* The completion callback of a request *)

\* WorkingFunction or handleError is called with the batch.
CallbackReport(r, outcome) ==
    /\ engine[r] = "running"
    /\ engine' = [engine EXCEPT ![r] = "reported"]
    /\ status' = [i \in Image |-> IF i \in buffers[r] THEN outcome ELSE status[i]]
    /\ UNCHANGED <<freeRequests, buffers, requests_processing_, threadVars,
                   uncounted, unnotified, closer, reset>>

\* The callback throws: the handler only logs, the request stays out.
CallbackThrow(r) ==
    /\ MayThrow
    /\ engine[r] = "running"
    /\ engine' = [engine EXCEPT ![r] = "idle"]
    /\ UNCHANGED <<freeRequests, buffers, requests_processing_, threadVars,
                   status, uncounted, unnotified, closer, reset>>

\* Mutant: the request is not returned.
CallbackKeep(r) ==
    /\ engine[r] = "reported"
    /\ engine' = [engine EXCEPT ![r] = "idle"]
    /\ buffers' = [buffers EXCEPT ![r] = {}]
    /\ uncounted' = uncounted \cup {buffers[r]}
    /\ UNCHANGED <<freeRequests, requests_processing_, threadVars, status, unnotified,
                   closer, reset>>

\* buffers.clear() and freeRequests.push(batch_request)
CallbackReturn(r) ==
    /\ engine[r] = "reported"
    /\ engine' = [engine EXCEPT ![r] = "idle"]
    /\ buffers' = [buffers EXCEPT ![r] = {}]
    /\ freeRequests' = Append(freeRequests, r)
    /\ uncounted' = uncounted \cup {buffers[r]}
    /\ UNCHANGED <<requests_processing_, threadVars, status, unnotified, closer, reset>>

\* Mutant: the counter counts batches.
CallbackCountOne(batch) ==
    /\ batch \in uncounted
    /\ requests_processing_' = requests_processing_ - 1
    /\ uncounted' = uncounted \ {batch}
    /\ unnotified' = unnotified \cup {batch}
    /\ UNCHANGED <<poolVars, threadVars, status, closer, reset>>

\* Mutant: every batch is taken to be full.
CallbackCountFull(batch) ==
    /\ batch \in uncounted
    /\ requests_processing_' = requests_processing_ - batch_size
    /\ uncounted' = uncounted \ {batch}
    /\ unnotified' = unnotified \cup {batch}
    /\ UNCHANGED <<poolVars, threadVars, status, closer, reset>>

\* requests_processing_ -= buffer_size
CallbackCount(batch) ==
    /\ batch \in uncounted
    /\ requests_processing_' = requests_processing_ - Cardinality(batch)
    /\ uncounted' = uncounted \ {batch}
    /\ unnotified' = unnotified \cup {batch}
    /\ UNCHANGED <<poolVars, threadVars, status, closer, reset>>

\* request_processed_.notify_all(), without flush_mutex: a thread between its
\* evaluation of the predicate and its sleep misses it.
CallbackNotify(batch) ==
    /\ batch \in unnotified
    /\ unnotified' = unnotified \ {batch}
    /\ pc' = [t \in Thread |-> IF pc[t] = "asleep" THEN "await" ELSE pc[t]]
    /\ UNCHANGED <<poolVars, requests_processing_, requests_mutex_, request, user_data,
                   status, uncounted, closer, reset>>

-----------------------------------------------------------------------------
(* Flush *)

\* flush_mutex is only ever taken under requests_mutex_, which is held until
\* Flush returns: one variable stands for both.
FlushLock(t) ==
    /\ pc[t] = "idle"
    /\ requests_mutex_ = NULL
    /\ closer \in {NULL, t}
    /\ requests_mutex_' = t
    /\ pc' = [pc EXCEPT ![t] = "check"]
    /\ UNCHANGED <<poolVars, requests_processing_, request, user_data, status,
                   uncounted, unnotified, closer, reset>>

FlushCheck(t) ==
    /\ pc[t] = "check"
    /\ requests_processing_ # 0
    /\ pc' = [pc EXCEPT ![t] = "take"]
    /\ UNCHANGED <<poolVars, requests_processing_, requests_mutex_, request, user_data,
                   status, uncounted, unnotified, closer, reset>>

\* Mutant: Flush does not look at the counter again.
FlushReturnAnyway(t) ==
    /\ pc[t] = "check"
    /\ requests_mutex_' = NULL
    /\ pc' = [pc EXCEPT ![t] = IF closer = t THEN "drain" ELSE "idle"]
    /\ UNCHANGED <<poolVars, requests_processing_, request, user_data, status,
                   uncounted, unnotified, closer, reset>>

FlushReturn(t) ==
    /\ pc[t] = "check"
    /\ requests_processing_ = 0
    /\ requests_mutex_' = NULL
    /\ pc' = [pc EXCEPT ![t] = IF closer = t THEN "drain" ELSE "idle"]
    /\ UNCHANGED <<poolVars, requests_processing_, request, user_data, status,
                   uncounted, unnotified, closer, reset>>

FlushTake(t) ==
    /\ pc[t] = "take"
    /\ Pop(t)
    /\ pc' = [pc EXCEPT ![t] = "put"]
    /\ UNCHANGED <<buffers, requests_processing_, requests_mutex_, user_data, engine,
                   status, uncounted, unnotified, closer, reset>>

\* Mutant: the incomplete batch is started and also returned.
FlushPutTwice(t) ==
    LET r == request[t]
    IN /\ pc[t] = "put"
       /\ engine' = [engine EXCEPT ![r] = IF buffers[r] # {} THEN "running" ELSE @]
       /\ freeRequests' = Append(freeRequests, r)
       /\ request' = [request EXCEPT ![t] = NULL]
       /\ pc' = [pc EXCEPT ![t] = "await"]
       /\ UNCHANGED <<buffers, requests_processing_, requests_mutex_, user_data,
                      status, uncounted, unnotified, closer, reset>>

\* Mutant: the incomplete batch is returned and never started.
FlushPutBack(t) ==
    /\ pc[t] = "put"
    /\ freeRequests' = Append(freeRequests, request[t])
    /\ request' = [request EXCEPT ![t] = NULL]
    /\ pc' = [pc EXCEPT ![t] = "await"]
    /\ UNCHANGED <<buffers, engine, requests_processing_, requests_mutex_, user_data,
                   status, uncounted, unnotified, closer, reset>>

\* An incomplete batch is started as it is, an empty request is returned.
FlushPut(t) ==
    LET r == request[t]
    IN /\ pc[t] = "put"
       /\ IF buffers[r] # {}
            THEN /\ engine' = [engine EXCEPT ![r] = "running"]
                 /\ UNCHANGED freeRequests
            ELSE /\ freeRequests' = Append(freeRequests, r)
                 /\ UNCHANGED engine
       /\ request' = [request EXCEPT ![t] = NULL]
       /\ pc' = [pc EXCEPT ![t] = "await"]
       /\ UNCHANGED <<buffers, requests_processing_, requests_mutex_, user_data,
                      status, uncounted, unnotified, closer, reset>>

\* wait_for evaluates its predicate before it sleeps and after each wake-up.
FlushAwait(t) ==
    /\ pc[t] = "await"
    /\ pc' = [pc EXCEPT ![t] = IF requests_processing_ = 0 THEN "check" ELSE "asleep"]
    /\ UNCHANGED <<poolVars, requests_processing_, requests_mutex_, request, user_data,
                   status, uncounted, unnotified, closer, reset>>

\* Mutant: Flush gives up when the second is over.
FlushGiveUp(t) ==
    /\ pc[t] = "asleep"
    /\ requests_mutex_' = NULL
    /\ pc' = [pc EXCEPT ![t] = IF closer = t THEN "drain" ELSE "idle"]
    /\ UNCHANGED <<poolVars, requests_processing_, request, user_data, status,
                   uncounted, unnotified, closer, reset>>

\* The second of wait_for is over: the loop looks again.
FlushTimeout(t) ==
    /\ pc[t] = "asleep"
    /\ pc' = [pc EXCEPT ![t] = "check"]
    /\ UNCHANGED <<poolVars, requests_processing_, requests_mutex_, request, user_data,
                   status, uncounted, unnotified, closer, reset>>

-----------------------------------------------------------------------------
(* Close, called by the destructor when no other thread uses the object:   *)
(* Flush, then every request in the queue gets an empty callback.          *)

CloseBegin(t) ==
    /\ closer = NULL
    /\ \A u \in Thread : pc[u] = "idle"
    /\ closer' = t
    /\ UNCHANGED <<poolVars, requests_processing_, threadVars, status, uncounted,
                   unnotified, reset>>

CloseDrain(t) ==
    /\ pc[t] = "drain"
    /\ freeRequests # <<>>
    /\ reset' = reset \cup {Head(freeRequests)}
    /\ freeRequests' = Tail(freeRequests)
    /\ UNCHANGED <<buffers, requests_processing_, threadVars, engine, status, uncounted,
                   unnotified, closer>>

CloseEnd(t) ==
    /\ pc[t] = "drain"
    /\ freeRequests = <<>>
    /\ pc' = [pc EXCEPT ![t] = "closed"]
    /\ UNCHANGED <<poolVars, requests_processing_, requests_mutex_, request, user_data,
                   status, uncounted, unnotified, closer, reset>>

-----------------------------------------------------------------------------
Submitting(t) == SubmitPop(t) \/ SubmitAdd(t) \/ SubmitThrow(t)

Flushing(t) == \/ FlushCheck(t) \/ FlushReturn(t) \/ FlushTake(t)
               \/ FlushPut(t) \/ FlushAwait(t) \/ FlushTimeout(t)

Closing(t) == CloseDrain(t) \/ CloseEnd(t)

Callback(r) == \/ \E outcome \in {"completed", "failed"} : CallbackReport(r, outcome)
               \/ CallbackThrow(r)
               \/ CallbackReturn(r)

CallbackTail(batch) == CallbackCount(batch) \/ CallbackNotify(batch)

Next == \/ \E t \in Thread, i \in Image : SubmitLock(t, i)
        \/ \E t \in Thread : FlushLock(t) \/ CloseBegin(t)
        \/ \E t \in Thread : Submitting(t) \/ Flushing(t) \/ Closing(t)
        \/ \E r \in Request : Callback(r)
        \/ \E batch \in uncounted \cup unnotified : CallbackTail(batch)

Spec == Init /\ [][Next]_vars

\* A thread inside a call runs on, the engine finishes what was started and
\* runs its callback to the end.  Nothing makes a thread start a call.
Fairness == /\ \A t \in Thread : WF_vars(Submitting(t)) /\ WF_vars(Flushing(t))
            /\ \A r \in Request : WF_vars(Callback(r))
            /\ \A batch \in SUBSET Image : WF_vars(batch \in uncounted \cup unnotified
                                                   /\ CallbackTail(batch))

FairSpec == Spec /\ Fairness
-----------------------------------------------------------------------------
(* Properties *)

InQueue(r) == \E k \in DOMAIN freeRequests : freeRequests[k] = r
Held(r)    == \E t \in Thread : request[t] = r

\* A request that an exception has taken out of the pool for good.
Lost(r) == ~InQueue(r) /\ ~Held(r) /\ engine[r] = "idle" /\ r \notin reset

\* The images the counter stands for: those in a call or in a batch, those of
\* a batch whose callback is not over, and those whose call threw.
Outstanding == {i \in Image : \/ status[i] \in {"submitting", "batched", "thrown"}
                              \/ \E r \in Request : i \in buffers[r]
                              \/ \E batch \in uncounted : i \in batch}

\* A request is never in two places at once (twice in the queue, in the queue
\* and in the engine, in the hands of a thread and elsewhere), so that two
\* threads never fill or start the same request (SubmitImage, the completion
\* callback and Flush); and none disappears unless a call threw.
RequestConservation ==
    /\ \A k, l \in DOMAIN freeRequests : freeRequests[k] = freeRequests[l] => k = l
    /\ \A t, u \in Thread : request[t] = request[u] /\ request[t] # NULL => t = u
    /\ \A r \in Request :
          /\ InQueue(r) => ~Held(r) /\ engine[r] = "idle" /\ r \notin reset
          /\ Held(r) => engine[r] = "idle" /\ r \notin reset
          /\ r \in reset => engine[r] = "idle"
    /\ ~MayThrow => \A r \in Request : ~Lost(r)

\* requests_processing_ is the number of images not yet through: it is
\* incremented, and decremented a batch at a time, by different threads, and
\* Flush believes it.
CounterExact == requests_processing_ = Cardinality(Outstanding)

\* Images gather in one batch at a time: only the request at the head of
\* freeRequests may hold some, and then fewer than batch_size (push_front in
\* SubmitImage, push at the back everywhere else).
OpenBatchAtHead ==
    /\ \A k \in DOMAIN freeRequests : buffers[freeRequests[k]] # {} => k = 1
    /\ \A r \in Request : Cardinality(buffers[r]) <= batch_size
    /\ \A r \in Request : InQueue(r) => Cardinality(buffers[r]) < batch_size

\* When Close is over every request has been taken from the queue and has had
\* its callback reset: none is still in the engine or on its way back, because
\* a callback returns its request before it decrements the counter.
CloseResetsAll == \A t \in Thread : pc[t] = "closed" => reset = Request

\* The class keeps the promise of the interface it implements: see the module
\* ImageInference for it.
Interface == INSTANCE ImageInference WITH
    given <- [i \in Image |-> IF status[i] \in {"submitting", "batched", "thrown"}
                                THEN "pending" ELSE status[i]],
    flushing <- {t \in Thread : pc[t] \in InFlush}

Implements == Interface!Spec

\* An exception has left its mark, an image that is counted for ever.
Marked == \/ \E i \in Image : status[i] = "thrown"
          \/ \E r \in Request : Lost(r) /\ buffers[r] # {}

\* A Flush that has the lock returns (Flush at end of stream and at stop),
\* although the notification of the callback may be missed.  Only after an
\* exception out of preprocessing, or out of the callback, may it wait for ever.
FlushTerminates ==
    \A t \in Thread : pc[t] \in InFlush ~> pc[t] \notin InFlush \/ Marked

\* A SubmitImage that has the lock returns, as long as exceptions have left one
\* request in the pool: it comes back.
SubmitTerminates ==
    \A t \in Thread : pc[t] \in InSubmit ~> \/ pc[t] \notin InSubmit
                                            \/ Marked /\ \A r \in Request : Lost(r)

-----------------------------------------------------------------------------
(* The inductive invariant that the safety properties follow from *)

\* A call in progress has the lock, and its locals are those of its stage;
\* from CloseBegin on no other thread has a call in progress.
LockInv ==
    /\ \A t \in Thread :
          /\ pc[t] \in InSubmit \cup InFlush <=> requests_mutex_ = t
          /\ request[t] # NULL <=> pc[t] \in {"prepare", "put"}
          /\ user_data[t] # NULL <=> pc[t] \in InSubmit
          /\ pc[t] \in InSubmit => status[user_data[t]] = "submitting"
          /\ pc[t] \in {"drain", "closed"} => closer = t
          /\ closer = t => pc[t] \notin InSubmit
    /\ closer # NULL => \A t \in Thread \ {closer} : pc[t] = "idle"

\* Batches are disjoint, those in the engine are not empty, and an image in one
\* has the status that goes with it.
BatchInv ==
    /\ \A r \in Request :
          /\ engine[r] # "idle" => buffers[r] # {}
          /\ \A i \in buffers[r] : IF engine[r] = "reported"
                                     THEN status[i] \in {"completed", "failed"}
                                     ELSE status[i] = "batched"
    /\ \A r, s \in Request : r # s => buffers[r] \cap buffers[s] = {}
    /\ \A batch \in uncounted :
          /\ batch # {}
          /\ \A i \in batch : status[i] \in {"completed", "failed"}
          /\ \A r \in Request : batch \cap buffers[r] = {}
    /\ \A b, c \in uncounted : b # c => b \cap c = {}

\* While a thread holds the request it popped, no other batch is open; what is
\* not in the engine has room for one more image.
OpenInv ==
    /\ \A t \in Thread : request[t] # NULL =>
          /\ \A k \in DOMAIN freeRequests : buffers[freeRequests[k]] = {}
          /\ Cardinality(buffers[request[t]]) < batch_size

\* A request that an exception took leaves an image behind, which keeps Flush,
\* and so Close, from returning.
LossInv == \A r \in Request :
              Lost(r) => MayThrow /\ (buffers[r] # {} \/ \E i \in Image : status[i] = "thrown")

CloseInv ==
    \A t \in Thread : pc[t] \in {"drain", "closed"} => requests_processing_ = 0

\* All of it together is preserved by every step of every method and callback.
IInv == /\ TypeOK
        /\ LockInv
        /\ BatchInv
        /\ CounterExact
        /\ RequestConservation
        /\ OpenBatchAtHead
        /\ OpenInv
        /\ LossInv
        /\ CloseInv
        /\ CloseResetsAll
=============================================================================
