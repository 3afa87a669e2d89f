---------------------------- MODULE InferencePool ---------------------------
(***************************************************************************)
(* Elements with one model-instance-id share an InferenceImpl through the  *)
(* registry inference_pool_ (gst/inference_elements/base: inference_       *)
(* singleton.cpp, and gva_base_inference.c which calls it).  An element    *)
(* registers when it starts, acquires the instance when its caps arrive on *)
(* its streaming thread, and releases it when it is finalized; stopping    *)
(* only flushes.  Elements with other ids have another entry and do not    *)
(* interact with these.                                                    *)
(*                                                                         *)
(* The entry keeps pointers to the elements and never removes one, and an  *)
(* element that has been given its master's model registers as a master    *)
(* itself when it is started again: what acquire does with a pointer to a  *)
(* finalized element, or with an element that is its own master, is        *)
(* undefined and left out (guard Defined).                                 *)
(***************************************************************************)
EXTENDS Naturals, FiniteSets, Sequences, SequencesExt

CONSTANTS
    Elem,            \* the elements with this model-instance-id
    Master,          \* those whose 'model' property the application sets
    format,          \* [Elem -> video formats]: of their caps
    MaxStarts,       \* bound: how often an element is started
    MayFail,         \* whether the constructor of InferenceImpl may throw
    NULL

ASSUME ElemAssumption == IsFiniteSet(Elem) /\ Master \subseteq Elem /\ NULL \notin Elem
ASSUME StartAssumption == MaxStarts \in Nat

VARIABLES
    infRefs,         \* the entry of inference_pool_, or NULL
    state,           \* where each element is in its life
    starts,          \* how often it has been started
    model,           \* whose model, device, nireq... it has, or NULL
    inference,       \* GvaBaseInference::inference, 0 for a null pointer
    acquired,        \* what acquire_inference_instance has returned to it
    post_proc,       \* GvaBaseInference::post_proc is set
    created,         \* how many instances have been made: the name of the last
    had              \* the elements that had the instance when they were finalized

vars == <<infRefs, state, starts, model, inference, acquired, post_proc, created, had>>

State == {"ready", "started", "acquire", "initialize", "playing", "failed", "finalized"}

\* settings: whose model the instance was made with.
InferenceRefs ==
    [numRefs : Nat, elementsToInit : Seq(Elem), masterElement : Elem \cup {NULL},
     proxy : Nat, videoFormat : {format[e] : e \in Elem} \cup {NULL},
     settings : Elem \cup {NULL}]

ASSUME NullAssumption == NULL \notin InferenceRefs

\* The types of the variables; an entry that nobody refers to is gone.
TypeOK ==
    /\ infRefs \in InferenceRefs \cup {NULL}
    /\ infRefs # NULL => infRefs.numRefs > 0 /\ infRefs.proxy <= created
    /\ state \in [Elem -> State]
    /\ starts \in [Elem -> 0..MaxStarts]
    /\ model \in [Elem -> Elem \cup {NULL}]
    /\ inference \in [Elem -> 0..created]
    /\ acquired \in [Elem -> 0..created]
    /\ post_proc \in [Elem -> BOOLEAN]
    /\ created \in Nat
    /\ had \subseteq Elem

Init ==
    /\ infRefs = NULL
    /\ state = [e \in Elem |-> "ready"]
    /\ starts = [e \in Elem |-> 0]
    /\ model = [e \in Elem |-> IF e \in Master THEN e ELSE NULL]
    /\ inference = [e \in Elem |-> 0]
    /\ acquired = [e \in Elem |-> 0]
    /\ post_proc = [e \in Elem |-> FALSE]
    /\ created = 0
    /\ had = {}

-----------------------------------------------------------------------------
NewRefs == [numRefs |-> 0, elementsToInit |-> <<>>, masterElement |-> NULL,
            proxy |-> 0, videoFormat |-> NULL, settings |-> NULL]

\* Mutant: only the first element is counted.
registerOnce(e) ==
    LET refs == IF infRefs = NULL THEN [NewRefs EXCEPT !.numRefs = 1] ELSE infRefs
    IN IF model[e] # NULL
         THEN [refs EXCEPT !.masterElement = e]
         ELSE [refs EXCEPT !.elementsToInit = Append(@, e)]

\* An element that has a model becomes the master, the others are filled in later.
registerElement(e) ==
    LET refs == IF infRefs = NULL THEN NewRefs ELSE infRefs
    IN IF model[e] # NULL
         THEN [refs EXCEPT !.numRefs = @ + 1, !.masterElement = e]
         ELSE [refs EXCEPT !.numRefs = @ + 1, !.elementsToInit = Append(@, e)]

Start(e) ==
    /\ state[e] = "ready"
    /\ starts[e] < MaxStarts
    /\ infRefs' = registerElement(e)
    /\ state' = [state EXCEPT ![e] = "started"]
    /\ starts' = [starts EXCEPT ![e] = @ + 1]
    /\ UNCHANGED <<model, inference, acquired, post_proc, created, had>>

\* An element that has an instance already, whoever gave it, is not initialized.
SetCaps(e) ==
    /\ state[e] = "started"
    /\ state' = [state EXCEPT ![e] = IF inference[e] = 0 THEN "acquire" ELSE "playing"]
    /\ UNCHANGED <<infRefs, starts, model, inference, acquired, post_proc, created, had>>

\* Mutant: the elements that are to be initialized get the instance and nothing else.
fillInferenceOnly(targets, masterElem) ==
    /\ model' = model
    /\ inference' = [e \in Elem |-> IF e \in targets THEN infRefs.proxy ELSE inference[e]]

\* The properties of the master, but not its reshape properties, and the
\* instance if there is one.
fillElementProps(targets, masterElem) ==
    /\ model' = [e \in Elem |-> IF e \in targets THEN model[masterElem] ELSE model[e]]
    /\ inference' = [e \in Elem |-> IF e \in targets THEN infRefs.proxy ELSE inference[e]]

SameFormat(e) == infRefs.videoFormat \in {NULL, format[e]}

\* fillElementProps reads and writes live elements, and none is its own master:
\* COPY_GSTRING frees a string before it copies it.
Defined ==
    infRefs.elementsToInit # <<>> =>
        /\ \A e \in ToSet(infRefs.elementsToInit) \cup {infRefs.masterElement} :
              state[e] # "finalized"
        /\ infRefs.masterElement \notin ToSet(infRefs.elementsToInit)

\* The image format differs, or no element has a model: a null pointer.
AcquireFails(e) ==
    /\ state[e] = "acquire"
    /\ ~SameFormat(e) \/ infRefs.masterElement = NULL
    /\ infRefs' = IF SameFormat(e) THEN [infRefs EXCEPT !.videoFormat = format[e]] ELSE infRefs
    /\ acquired' = [acquired EXCEPT ![e] = 0]
    /\ state' = [state EXCEPT ![e] = "initialize"]
    /\ UNCHANGED <<starts, model, inference, post_proc, created, had>>

\* Every element without a model of its own is filled in, then the instance is
\* made, from the properties of this element, when there is none.
Acquire(e) ==
    /\ state[e] = "acquire"
    /\ SameFormat(e) /\ infRefs.masterElement # NULL /\ Defined
    /\ fillElementProps(ToSet(infRefs.elementsToInit), infRefs.masterElement)
    /\ \/ /\ infRefs.proxy # 0
          /\ infRefs' = [infRefs EXCEPT !.videoFormat = format[e]]
          /\ acquired' = [acquired EXCEPT ![e] = infRefs.proxy]
          /\ UNCHANGED created
       \/ /\ infRefs.proxy = 0
          /\ infRefs' = [infRefs EXCEPT !.videoFormat = format[e],
                                        !.proxy = created + 1,
                                        !.settings = model'[e]]
          /\ acquired' = [acquired EXCEPT ![e] = created + 1]
          /\ created' = created + 1
       \/ /\ infRefs.proxy = 0
          /\ MayFail
          /\ infRefs' = [infRefs EXCEPT !.videoFormat = format[e]]
          /\ acquired' = [acquired EXCEPT ![e] = 0]
          /\ UNCHANGED created
    /\ state' = [state EXCEPT ![e] = "initialize"]
    /\ UNCHANGED <<starts, post_proc, had>>

\* The rest of set_caps: the pointer is stored, on_initialized makes the
\* post-processor.
Initialize(e) ==
    /\ state[e] = "initialize"
    /\ inference' = [inference EXCEPT ![e] = acquired[e]]
    /\ acquired' = [acquired EXCEPT ![e] = 0]
    /\ post_proc' = [post_proc EXCEPT ![e] = acquired[e] # 0]
    /\ state' = [state EXCEPT ![e] = IF acquired[e] # 0 THEN "playing" ELSE "failed"]
    /\ UNCHANGED <<infRefs, starts, model, created, had>>

\* Mutant: the entry stays.
releaseNever(refs) == [refs EXCEPT !.numRefs = @ - 1]

release_inference_instance(refs) ==
    IF refs.numRefs = 1 THEN NULL ELSE [refs EXCEPT !.numRefs = @ - 1]

\* Mutant: stop releases.
StopReleases(e) ==
    /\ state[e] \in {"started", "playing", "failed"}
    /\ infRefs' = IF inference[e] # 0 /\ infRefs # NULL
                    THEN release_inference_instance(infRefs) ELSE infRefs
    /\ state' = [state EXCEPT ![e] = "ready"]
    /\ UNCHANGED <<starts, model, inference, acquired, post_proc, created, had>>

\* gva_base_inference_stop flushes and keeps the instance and the registration.
Stop(e) ==
    /\ state[e] \in {"started", "playing", "failed"}
    /\ state' = [state EXCEPT ![e] = "ready"]
    /\ UNCHANGED <<infRefs, starts, model, inference, acquired, post_proc, created, had>>

\* Mutant: an element that was not initialized itself does not release.
FinalizeInitialized(e) ==
    /\ state[e] = "ready"
    /\ infRefs' = IF post_proc[e] /\ infRefs # NULL
                    THEN release_inference_instance(infRefs) ELSE infRefs
    /\ had' = IF inference[e] # 0 THEN had \cup {e} ELSE had
    /\ inference' = [inference EXCEPT ![e] = 0]
    /\ post_proc' = [post_proc EXCEPT ![e] = FALSE]
    /\ state' = [state EXCEPT ![e] = "finalized"]
    /\ UNCHANGED <<starts, model, acquired, created>>

\* gva_base_inference_cleanup releases the instance if the element has one.
Finalize(e) ==
    /\ state[e] = "ready"
    /\ infRefs' = IF inference[e] # 0 /\ infRefs # NULL
                    THEN release_inference_instance(infRefs) ELSE infRefs
    /\ had' = IF inference[e] # 0 THEN had \cup {e} ELSE had
    /\ inference' = [inference EXCEPT ![e] = 0]
    /\ post_proc' = [post_proc EXCEPT ![e] = FALSE]
    /\ state' = [state EXCEPT ![e] = "finalized"]
    /\ UNCHANGED <<starts, model, acquired, created>>

-----------------------------------------------------------------------------
Next == \E e \in Elem : \/ Start(e) \/ SetCaps(e) \/ AcquireFails(e) \/ Acquire(e)
                        \/ Initialize(e) \/ Stop(e) \/ Finalize(e)

Spec == Init /\ [][Next]_vars

-----------------------------------------------------------------------------
(* Properties *)

\* The instance an element works with has not been deleted, though other
\* elements are started twice and finalized in any order, and it is the same
\* for all ("one instance for all elements with same inference-id").
InferenceAlive ==
    \A e \in Elem : inference[e] # 0 => infRefs # NULL /\ infRefs.proxy = inference[e]

\* The assertion of acquire_inference_instance: whoever calls it is registered,
\* the entry has not been erased by elements that came and went.
AcquireFindsEntry == \A e \in Elem : state[e] = "acquire" => infRefs # NULL

\* "it will get all master element's properties here": the elements that share
\* the instance have the model it was made with.
ModelShared ==
    \A e \in Elem : inference[e] # 0 => model[e] = infRefs.settings

\* The instance goes with the last element, when each was started once and had
\* the instance in the end; an element whose own acquire failed, or that was
\* started again, is counted for ever.
InstanceDeleted ==
    infRefs # NULL => \E e \in Elem : \/ state[e] # "finalized" \/ starts[e] > 1
                                      \/ starts[e] = 1 /\ e \notin had

\* "We need to set the vector of object classes after InferenceImpl instance
\* acquirement" (gva_base_inference.c): an element that gets frames has been
\* initialized for its instance.
PlayingInitialized == \A e \in Elem : state[e] = "playing" => post_proc[e]
=============================================================================
