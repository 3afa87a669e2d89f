------------------------ MODULE InferencePool_proofs ------------------------
(***************************************************************************)
(* Proofs about InferencePool, for any number of elements, of masters and  *)
(* of starts.                                                              *)
(***************************************************************************)
EXTENDS InferencePool, FiniteSetTheorems, TLAPS

-----------------------------------------------------------------------------
(* The invariant *)

Running == {"started", "acquire", "initialize", "playing", "failed"}

\* The elements that are registered, and not finalized: each has a reference.
Registered == {e \in Elem : starts[e] > 0 /\ state[e] # "finalized"}

\* Nobody is registered without an entry, and an entry counts everybody.
Counted == /\ infRefs = NULL => Registered = {}
           /\ infRefs # NULL => Cardinality(Registered) <= infRefs.numRefs

\* Where an element is in its life, and what it has there.
LifeInv ==
    \A e \in Elem :
        /\ state[e] \in Running => starts[e] > 0
        /\ state[e] = "finalized" => inference[e] = 0
        /\ state[e] # "initialize" => acquired[e] = 0

\* The instance that an element has, or is about to get, is that of the entry,
\* and the element is registered with it.
InstanceInv ==
    \A e \in Elem :
        /\ inference[e] # 0 => e \in Registered /\ infRefs.proxy = inference[e]
        /\ acquired[e] # 0 => e \in Registered /\ infRefs.proxy = acquired[e]

\* Those the entry is to fill in have been started.
ListInv == infRefs # NULL => \A e \in ToSet(infRefs.elementsToInit) : starts[e] > 0

AliveInv == TypeOK /\ Counted /\ LifeInv /\ InstanceInv /\ ListInv

-----------------------------------------------------------------------------
(* Steps *)

\* The registered elements can be counted.
LEMMA RegisteredFacts ==
    /\ IsFiniteSet(Registered)
    /\ Cardinality(Registered) \in Nat
    /\ (Cardinality(Registered) = 0) <=> (Registered = {})
<1>1. IsFiniteSet(Registered)
  BY FS_Subset, ElemAssumption DEF Registered
<1>. QED
  BY <1>1, FS_CardinalityType, FS_EmptySet

\* An element that is added to a list is the only new one in it.
LEMMA AppendSet ==
    ASSUME NEW q \in Seq(Elem), NEW e \in Elem
    PROVE  /\ Append(q, e) \in Seq(Elem)
           /\ ToSet(Append(q, e)) = ToSet(q) \cup {e}
           /\ ToSet(q) \subseteq Elem
<1>1. Append(q, e) \in Seq(Elem) /\ ToSet(q) \subseteq Elem
  BY DEF ToSet
<1>2. ToSet(Append(q, e)) \subseteq ToSet(q) \cup {e}
  BY DEF ToSet
<1>3. ASSUME NEW x \in ToSet(q) PROVE x \in ToSet(Append(q, e))
  <2>1. PICK i \in DOMAIN q : x = q[i]
    BY DEF ToSet
  <2>2. i \in DOMAIN Append(q, e) /\ Append(q, e)[i] = x
    BY <2>1
  <2>. QED
    BY <2>2 DEF ToSet
<1>4. e \in ToSet(Append(q, e))
  <2>1. Len(q) + 1 \in DOMAIN Append(q, e) /\ Append(q, e)[Len(q) + 1] = e
    OBVIOUS
  <2>. QED
    BY <2>1 DEF ToSet
<1>. QED
  BY <1>1, <1>2, <1>3, <1>4

Entry == IF infRefs = NULL THEN NewRefs ELSE infRefs

\* What registerElement returns: one reference more, and the rest as it was
\* or new.
LEMMA RegisterFacts ==
    ASSUME TypeOK, NEW e \in Elem
    PROVE  /\ registerElement(e) \in InferenceRefs
           /\ registerElement(e) # NULL
           /\ registerElement(e).numRefs = Entry.numRefs + 1
           /\ registerElement(e).proxy = Entry.proxy
           /\ registerElement(e).settings = Entry.settings
           /\ registerElement(e).masterElement =
                 IF model[e] # NULL THEN e ELSE Entry.masterElement
           /\ ToSet(registerElement(e).elementsToInit) =
                 ToSet(Entry.elementsToInit) \cup (IF model[e] # NULL THEN {} ELSE {e})
<1>1. Entry \in InferenceRefs
  BY DEF TypeOK, NewRefs, InferenceRefs, Entry
<1>2. Entry.elementsToInit \in Seq(Elem) /\ Entry.numRefs \in Nat
  BY <1>1 DEF InferenceRefs
<1> DEFINE more == [Entry EXCEPT !.numRefs = @ + 1]
<1>3. /\ more \in InferenceRefs
      /\ more.numRefs = Entry.numRefs + 1
      /\ more.proxy = Entry.proxy
      /\ more.settings = Entry.settings
      /\ more.masterElement = Entry.masterElement
      /\ more.elementsToInit = Entry.elementsToInit
  BY <1>1, <1>2 DEF InferenceRefs
<1>4. CASE model[e] # NULL
  <2>1. registerElement(e) = [Entry EXCEPT !.numRefs = @ + 1, !.masterElement = e]
    BY <1>4 DEF registerElement, Entry
  <2>2. registerElement(e) = [more EXCEPT !.masterElement = e]
    BY <2>1
  <2>. HIDE DEF more
  <2>3. registerElement(e) \in InferenceRefs
    BY <1>3, <2>2 DEF InferenceRefs
  <2>4. /\ registerElement(e).numRefs = more.numRefs
        /\ registerElement(e).proxy = more.proxy
        /\ registerElement(e).settings = more.settings
        /\ registerElement(e).masterElement = e
        /\ registerElement(e).elementsToInit = more.elementsToInit
    BY <1>3, <2>2 DEF InferenceRefs
  <2>. QED
    BY <1>3, <1>4, <2>3, <2>4, NullAssumption
<1>5. CASE model[e] = NULL
  <2>1. registerElement(e) =
           [Entry EXCEPT !.numRefs = @ + 1, !.elementsToInit = Append(@, e)]
    BY <1>5 DEF registerElement, Entry
  <2>2. registerElement(e) = [more EXCEPT !.elementsToInit = Append(@, e)]
    BY <2>1
  <2>. HIDE DEF more
  <2>3. registerElement(e) \in InferenceRefs
    <3>1. Append(more.elementsToInit, e) \in Seq(Elem)
      BY <1>2, <1>3, AppendSet
    <3>. QED
      BY <1>3, <2>2, <3>1 DEF InferenceRefs
  <2>4. /\ registerElement(e).numRefs = more.numRefs
        /\ registerElement(e).proxy = more.proxy
        /\ registerElement(e).settings = more.settings
        /\ registerElement(e).masterElement = more.masterElement
        /\ registerElement(e).elementsToInit = Append(more.elementsToInit, e)
    BY <1>3, <2>2 DEF InferenceRefs
  <2>. QED
    BY <1>2, <1>3, <1>5, <2>3, <2>4, NullAssumption, AppendSet
<1>. QED
  BY <1>4, <1>5
-----------------------------------------------------------------------------
(* Acquire *)

\* Whoever acquires the instance finds the entry.
LEMMA EntryFound ==
    ASSUME AliveInv, NEW e \in Elem, state[e] \in Running
    PROVE  e \in Registered /\ infRefs \in InferenceRefs /\ infRefs # NULL
BY DEF AliveInv, LifeInv, Counted, TypeOK, Registered, Running

\* What Acquire does to the entry: the instance is the one it had, or a new one,
\* or there is still none.
LEMMA AcquireFacts ==
    ASSUME AliveInv, NEW e \in Elem, Acquire(e)
    PROVE  /\ infRefs' \in InferenceRefs
           /\ infRefs' # NULL
           /\ infRefs'.numRefs = infRefs.numRefs
           /\ infRefs'.elementsToInit = infRefs.elementsToInit
           /\ infRefs'.masterElement = infRefs.masterElement
           /\ infRefs'.proxy = acquired'[e]
           /\ created' \in {created, created + 1}
           /\ acquired' = [acquired EXCEPT ![e] = infRefs'.proxy]
           /\ \/ infRefs.proxy # 0 /\ infRefs'.proxy = infRefs.proxy
                 /\ infRefs'.settings = infRefs.settings /\ created' = created
              \/ infRefs.proxy = 0 /\ infRefs'.proxy = created + 1 /\ created' = created + 1
                 /\ infRefs'.settings = model'[e]
              \/ infRefs.proxy = 0 /\ infRefs'.proxy = 0 /\ created' = created
                 /\ infRefs'.settings = infRefs.settings
<1>1. infRefs \in InferenceRefs /\ infRefs # NULL
  BY EntryFound DEF Acquire, Running
<1>2. created \in Nat /\ model' \in [Elem -> Elem \cup {NULL}] /\ acquired \in [Elem -> 0..created]
  <2>1. infRefs.masterElement \in Elem
    BY <1>1 DEF Acquire, InferenceRefs
  <2>. QED
    BY <2>1 DEF AliveInv, TypeOK, Acquire, fillElementProps
<1> DEFINE known == [infRefs EXCEPT !.videoFormat = format[e]]
<1>3. /\ known \in InferenceRefs
      /\ known.numRefs = infRefs.numRefs
      /\ known.elementsToInit = infRefs.elementsToInit
      /\ known.masterElement = infRefs.masterElement
      /\ known.proxy = infRefs.proxy
      /\ known.settings = infRefs.settings
  BY <1>1 DEF InferenceRefs
<1>4. CASE infRefs' = known /\ acquired' = [acquired EXCEPT ![e] = infRefs.proxy] /\ created' = created
  BY <1>1, <1>2, <1>3, <1>4, NullAssumption DEF InferenceRefs
<1>5. CASE /\ infRefs' = [infRefs EXCEPT !.videoFormat = format[e], !.proxy = created + 1,
                                         !.settings = model'[e]]
           /\ acquired' = [acquired EXCEPT ![e] = created + 1]
           /\ created' = created + 1
           /\ infRefs.proxy = 0
  <2> DEFINE made == [known EXCEPT !.proxy = created + 1]
  <2>1. infRefs' = [made EXCEPT !.settings = model'[e]]
    BY <1>5
  <2>. HIDE DEF known
  <2>2. /\ made \in InferenceRefs
        /\ made.numRefs = infRefs.numRefs
        /\ made.elementsToInit = infRefs.elementsToInit
        /\ made.masterElement = infRefs.masterElement
        /\ made.proxy = created + 1
    <3>1. created + 1 \in Nat
      BY <1>2
    <3>2. made \in InferenceRefs
      BY <1>3, <3>1 DEF InferenceRefs
    <3>. QED
      BY <1>3, <3>2 DEF InferenceRefs
  <2>. HIDE DEF made
  <2>3. /\ infRefs' \in InferenceRefs
        /\ infRefs'.numRefs = infRefs.numRefs
        /\ infRefs'.elementsToInit = infRefs.elementsToInit
        /\ infRefs'.masterElement = infRefs.masterElement
        /\ infRefs'.proxy = created + 1
        /\ infRefs'.settings = model'[e]
    BY <1>2, <2>1, <2>2 DEF InferenceRefs
  <2>. QED
    BY <1>2, <1>5, <2>3, NullAssumption
<1>6. \/ infRefs' = known /\ acquired' = [acquired EXCEPT ![e] = infRefs.proxy] /\ created' = created
      \/ /\ infRefs' = [infRefs EXCEPT !.videoFormat = format[e], !.proxy = created + 1,
                                       !.settings = model'[e]]
         /\ acquired' = [acquired EXCEPT ![e] = created + 1]
         /\ created' = created + 1
         /\ infRefs.proxy = 0
  BY DEF Acquire
<1>. QED
  BY <1>4, <1>5, <1>6

\* The entry when Acquire fails: only the format may be new.
LEMMA AcquireFailsFacts ==
    ASSUME AliveInv, NEW e \in Elem, AcquireFails(e)
    PROVE  /\ infRefs' \in InferenceRefs
           /\ infRefs' # NULL
           /\ infRefs # NULL
           /\ infRefs'.numRefs = infRefs.numRefs
           /\ infRefs'.elementsToInit = infRefs.elementsToInit
           /\ infRefs'.masterElement = infRefs.masterElement
           /\ infRefs'.proxy = infRefs.proxy
           /\ infRefs'.settings = infRefs.settings
<1>1. infRefs \in InferenceRefs /\ infRefs # NULL
  BY EntryFound DEF AcquireFails, Running
<1>2. CASE infRefs' = infRefs
  BY <1>1, <1>2
<1>3. CASE infRefs' = [infRefs EXCEPT !.videoFormat = format[e]]
  BY <1>1, <1>3, NullAssumption DEF InferenceRefs
<1>. QED
  BY <1>2, <1>3 DEF AcquireFails

\* The entry after a finalization: as it was, gone with its last reference, or
\* with one reference less.
LEMMA FinalizeFacts ==
    ASSUME AliveInv, NEW e \in Elem, Finalize(e)
    PROVE  \/ inference[e] = 0 /\ infRefs' = infRefs
           \/ /\ inference[e] # 0 /\ infRefs # NULL
              /\ infRefs.numRefs = 1 /\ infRefs' = NULL
           \/ /\ inference[e] # 0 /\ infRefs # NULL
              /\ infRefs' \in InferenceRefs /\ infRefs' # NULL
              /\ infRefs'.numRefs = infRefs.numRefs - 1
              /\ infRefs'.numRefs > 0
              /\ infRefs'.elementsToInit = infRefs.elementsToInit
              /\ infRefs'.masterElement = infRefs.masterElement
              /\ infRefs'.proxy = infRefs.proxy
              /\ infRefs'.settings = infRefs.settings
<1>1. CASE inference[e] = 0
  BY <1>1 DEF Finalize
<1>2. CASE inference[e] # 0
  <2>1. infRefs # NULL /\ infRefs \in InferenceRefs /\ infRefs.numRefs > 0
    BY <1>2 DEF AliveInv, InstanceInv, Counted, TypeOK
  <2>2. infRefs.numRefs \in Nat
    BY <2>1 DEF InferenceRefs
  <2>3. CASE infRefs.numRefs = 1
    BY <1>2, <2>1, <2>3 DEF Finalize, release_inference_instance
  <2>4. CASE infRefs.numRefs # 1
    <3>1. infRefs' = [infRefs EXCEPT !.numRefs = @ - 1]
      BY <1>2, <2>1, <2>4 DEF Finalize, release_inference_instance
    <3>2. infRefs.numRefs - 1 \in Nat /\ infRefs.numRefs - 1 > 0
      BY <2>1, <2>2, <2>4
    <3>3. infRefs' \in InferenceRefs
      BY <2>1, <3>1, <3>2 DEF InferenceRefs
    <3>4. /\ infRefs'.numRefs = infRefs.numRefs - 1
          /\ infRefs'.elementsToInit = infRefs.elementsToInit
          /\ infRefs'.masterElement = infRefs.masterElement
          /\ infRefs'.proxy = infRefs.proxy
          /\ infRefs'.settings = infRefs.settings
      BY <2>1, <3>1 DEF InferenceRefs
    <3>. QED
      BY <1>2, <2>1, <3>2, <3>3, <3>4, NullAssumption
  <2>. QED
    BY <2>3, <2>4
<1>. QED
  BY <1>1, <1>2
-----------------------------------------------------------------------------
(* Types *)

\* Every step keeps the variables in their types.
LEMMA TypeStep == AliveInv /\ [Next]_vars => TypeOK'
<1>. SUFFICES ASSUME AliveInv, [Next]_vars PROVE TypeOK'
  OBVIOUS
<1>. USE DEF AliveInv, TypeOK, State
<1>1. ASSUME NEW e \in Elem, Start(e) PROVE TypeOK'
  <2>1. infRefs' \in InferenceRefs /\ infRefs'.numRefs > 0 /\ infRefs'.proxy <= created
    <3>1. Entry.numRefs \in Nat /\ Entry.proxy <= created
      BY DEF Entry, NewRefs, InferenceRefs
    <3>. QED
      BY <1>1, <3>1, RegisterFacts DEF Start
  <2>. QED
    BY <1>1, <2>1, StartAssumption DEF Start
<1>2. ASSUME NEW e \in Elem, SetCaps(e) PROVE TypeOK'
  BY <1>2 DEF SetCaps
<1>3. ASSUME NEW e \in Elem, AcquireFails(e) PROVE TypeOK'
  <2>1. infRefs' \in InferenceRefs /\ infRefs'.numRefs > 0 /\ infRefs'.proxy <= created
    BY <1>3, AcquireFailsFacts
  <2>. QED
    BY <1>3, <2>1 DEF AcquireFails
<1>4. ASSUME NEW e \in Elem, Acquire(e) PROVE TypeOK'
  <2>1. infRefs \in InferenceRefs /\ infRefs # NULL /\ infRefs.masterElement \in Elem
    BY <1>4, EntryFound DEF Acquire, Running, InferenceRefs
  <2>2. infRefs.proxy \in Nat /\ infRefs'.proxy \in Nat
    BY <1>4, <2>1, AcquireFacts DEF InferenceRefs
  <2>3. infRefs.proxy <= created
    BY <2>1
  <2>4. created' \in Nat /\ created <= created'
    BY <1>4, AcquireFacts
  <2>5. model' \in [Elem -> Elem \cup {NULL}]
    BY <1>4, <2>1 DEF Acquire, fillElementProps
  <2>6. inference' \in [Elem -> 0..created']
    <3>1. infRefs.proxy \in 0..created' /\ \A x \in Elem : inference[x] \in 0..created'
      BY <2>2, <2>3, <2>4
    <3>. QED
      BY <1>4, <3>1 DEF Acquire, fillElementProps
  <2>7. infRefs'.proxy <= created' /\ infRefs'.numRefs > 0
    BY <1>4, <2>1, <2>2, <2>3, AcquireFacts
  <2>8. acquired' \in [Elem -> 0..created']
    BY <1>4, <2>2, <2>4, <2>7, AcquireFacts
  <2>9. infRefs' \in InferenceRefs
    BY <1>4, AcquireFacts
  <2>10. UNCHANGED <<starts, post_proc, had>> /\ state' \in [Elem -> State]
    BY <1>4 DEF Acquire
  <2>. QED
    BY <2>4, <2>5, <2>6, <2>7, <2>8, <2>9, <2>10
<1>5. ASSUME NEW e \in Elem, Initialize(e) PROVE TypeOK'
  BY <1>5 DEF Initialize
<1>6. ASSUME NEW e \in Elem, Stop(e) PROVE TypeOK'
  BY <1>6 DEF Stop
<1>7. ASSUME NEW e \in Elem, Finalize(e) PROVE TypeOK'
  <2>1. infRefs' \in InferenceRefs \cup {NULL}
        /\ (infRefs' # NULL => infRefs'.numRefs > 0 /\ infRefs'.proxy <= created)
    BY <1>7, FinalizeFacts
  <2>. QED
    BY <1>7, <2>1 DEF Finalize
<1>8. CASE UNCHANGED vars
  BY <1>8 DEF vars
<1>. QED
  BY <1>1, <1>2, <1>3, <1>4, <1>5, <1>6, <1>7, <1>8 DEF Next
-----------------------------------------------------------------------------
(* The entry outlives the elements that use it *)

\* A step that changes neither who is registered nor how many references there
\* are keeps the count.
LEMMA CountKept ==
    ASSUME AliveInv, Registered' = Registered,
           \/ infRefs' = infRefs
           \/ infRefs # NULL /\ infRefs' # NULL /\ infRefs'.numRefs = infRefs.numRefs
    PROVE  Counted'
BY DEF AliveInv, Counted

\* The entry goes on counting every registered element.
LEMMA CountedStep == AliveInv /\ [Next]_vars => Counted'
<1>. SUFFICES ASSUME AliveInv, [Next]_vars PROVE Counted'
  OBVIOUS
<1>1. ASSUME NEW e \in Elem, Start(e) PROVE Counted'
  <2>1. infRefs' # NULL /\ infRefs'.numRefs = Entry.numRefs + 1
    BY <1>1, RegisterFacts DEF Start, AliveInv
  <2>2. Registered' \subseteq Registered \cup {e}
    BY <1>1 DEF Start, Registered, AliveInv, TypeOK
  <2>3. Cardinality(Registered) <= Entry.numRefs /\ Entry.numRefs \in Nat
    BY RegisteredFacts DEF AliveInv, Counted, TypeOK, Entry, NewRefs, InferenceRefs
  <2>4. /\ IsFiniteSet(Registered \cup {e})
        /\ Cardinality(Registered \cup {e}) \in Nat
        /\ Cardinality(Registered \cup {e}) <= Cardinality(Registered) + 1
    BY RegisteredFacts, FS_AddElement, FS_CardinalityType
  <2>5. Cardinality(Registered') \in Nat
        /\ Cardinality(Registered') <= Cardinality(Registered \cup {e})
    BY <2>2, <2>4, FS_Subset, FS_CardinalityType
  <2>. QED
    BY <2>1, <2>3, <2>4, <2>5, RegisteredFacts DEF Counted
<1>2. ASSUME NEW e \in Elem, SetCaps(e) PROVE Counted'
  <2>1. Registered' = Registered
    BY <1>2 DEF SetCaps, Registered, AliveInv, TypeOK
  <2>. QED
    BY <1>2, <2>1, CountKept DEF SetCaps
<1>3. ASSUME NEW e \in Elem, AcquireFails(e) PROVE Counted'
  <2>1. Registered' = Registered
    BY <1>3 DEF AcquireFails, Registered, AliveInv, TypeOK
  <2>. QED
    BY <1>3, <2>1, CountKept, AcquireFailsFacts
<1>4. ASSUME NEW e \in Elem, Acquire(e) PROVE Counted'
  <2>1. Registered' = Registered
    BY <1>4 DEF Acquire, Registered, AliveInv, TypeOK
  <2>2. infRefs # NULL
    BY <1>4, EntryFound DEF Acquire, Running
  <2>. QED
    BY <1>4, <2>1, <2>2, CountKept, AcquireFacts
<1>5. ASSUME NEW e \in Elem, Initialize(e) PROVE Counted'
  <2>1. Registered' = Registered
    BY <1>5 DEF Initialize, Registered, AliveInv, TypeOK
  <2>. QED
    BY <1>5, <2>1, CountKept DEF Initialize
<1>6. ASSUME NEW e \in Elem, Stop(e) PROVE Counted'
  <2>1. Registered' = Registered
    BY <1>6 DEF Stop, Registered, AliveInv, TypeOK
  <2>. QED
    BY <1>6, <2>1, CountKept DEF Stop
<1>7. ASSUME NEW e \in Elem, Finalize(e) PROVE Counted'
  <2>1. Registered' = Registered \ {e}
    BY <1>7 DEF Finalize, Registered, AliveInv, TypeOK
  <2>2. /\ Cardinality(Registered \ {e}) \in Nat
        /\ Cardinality(Registered \ {e}) =
              IF e \in Registered THEN Cardinality(Registered) - 1 ELSE Cardinality(Registered)
    BY RegisteredFacts, FS_RemoveElement, FS_CardinalityType
  <2>3. CASE inference[e] = 0
    BY <1>7, <2>1, <2>2, <2>3, FinalizeFacts, RegisteredFacts DEF AliveInv, Counted, TypeOK, InferenceRefs
  <2>4. CASE inference[e] # 0
    <3>1. e \in Registered /\ infRefs # NULL /\ Cardinality(Registered) <= infRefs.numRefs
      BY <2>4 DEF AliveInv, InstanceInv, Counted
    <3>2. infRefs.numRefs \in Nat
      BY <3>1 DEF AliveInv, TypeOK, InferenceRefs
    <3>3. CASE infRefs.numRefs = 1 /\ infRefs' = NULL
      <4>1. Cardinality(Registered \ {e}) = 0
        BY <2>2, <3>1, <3>3, RegisteredFacts
      <4>2. Registered \ {e} = {}
        BY <4>1, RegisteredFacts, FS_RemoveElement, FS_EmptySet
      <4>. QED
        BY <2>1, <3>3, <4>2 DEF Counted
    <3>4. CASE infRefs' # NULL /\ infRefs'.numRefs = infRefs.numRefs - 1
      BY <2>1, <2>2, <3>1, <3>2, <3>4, RegisteredFacts DEF Counted
    <3>. QED
      BY <1>7, <2>4, <3>3, <3>4, FinalizeFacts
  <2>. QED
    BY <2>3, <2>4
<1>8. CASE UNCHANGED vars
  <2>1. Registered' = Registered
    BY <1>8 DEF vars, Registered
  <2>. QED
    BY <1>8, <2>1, CountKept DEF vars
<1>. QED
  BY <1>1, <1>2, <1>3, <1>4, <1>5, <1>6, <1>7, <1>8 DEF Next

\* Elements keep their place in their life.
LEMMA LifeStep == AliveInv /\ [Next]_vars => LifeInv'
<1>. SUFFICES ASSUME AliveInv, [Next]_vars PROVE LifeInv'
  OBVIOUS
<1>. USE DEF AliveInv, TypeOK, LifeInv, Running
<1>1. ASSUME NEW e \in Elem, Start(e) PROVE LifeInv'
  BY <1>1 DEF Start
<1>2. ASSUME NEW e \in Elem, SetCaps(e) PROVE LifeInv'
  BY <1>2 DEF SetCaps
<1>3. ASSUME NEW e \in Elem, AcquireFails(e) PROVE LifeInv'
  BY <1>3 DEF AcquireFails
<1>4. ASSUME NEW e \in Elem, Acquire(e) PROVE LifeInv'
  <2>1. acquired' = [acquired EXCEPT ![e] = infRefs'.proxy]
    BY <1>4, AcquireFacts
  <2>2. \A x \in Elem : state[x] = "finalized" => inference'[x] = 0
    BY <1>4 DEF Acquire, fillElementProps, Defined, ToSet
  <2>. QED
    BY <1>4, <2>1, <2>2 DEF Acquire
<1>5. ASSUME NEW e \in Elem, Initialize(e) PROVE LifeInv'
  BY <1>5 DEF Initialize
<1>6. ASSUME NEW e \in Elem, Stop(e) PROVE LifeInv'
  BY <1>6 DEF Stop
<1>7. ASSUME NEW e \in Elem, Finalize(e) PROVE LifeInv'
  BY <1>7 DEF Finalize
<1>8. CASE UNCHANGED vars
  BY <1>8 DEF vars
<1>. QED
  BY <1>1, <1>2, <1>3, <1>4, <1>5, <1>6, <1>7, <1>8 DEF Next

\* Only elements that have been started wait to be filled in.
LEMMA ListStep == AliveInv /\ [Next]_vars => ListInv'
<1>. SUFFICES ASSUME AliveInv, [Next]_vars PROVE ListInv'
  OBVIOUS
<1>. USE DEF AliveInv, ListInv
<1>1. ASSUME NEW e \in Elem, Start(e) PROVE ListInv'
  <2>1. ToSet(infRefs'.elementsToInit) \subseteq ToSet(Entry.elementsToInit) \cup {e}
    BY <1>1, RegisterFacts DEF Start
  <2>2. \A x \in ToSet(Entry.elementsToInit) : starts[x] > 0 /\ x \in Elem
    <3>1. ToSet(NewRefs.elementsToInit) = {}
      BY DEF NewRefs, ToSet
    <3>2. infRefs # NULL => ToSet(infRefs.elementsToInit) \subseteq Elem
      BY AppendSet DEF TypeOK, InferenceRefs, ToSet
    <3>. QED
      BY <3>1, <3>2 DEF Entry
  <2>. QED
    BY <1>1, <2>1, <2>2 DEF Start, TypeOK
<1>2. ASSUME NEW e \in Elem, SetCaps(e) PROVE ListInv'
  BY <1>2 DEF SetCaps
<1>3. ASSUME NEW e \in Elem, AcquireFails(e) PROVE ListInv'
  BY <1>3, AcquireFailsFacts DEF AcquireFails
<1>4. ASSUME NEW e \in Elem, Acquire(e) PROVE ListInv'
  <2>1. infRefs # NULL
    BY <1>4, EntryFound DEF Acquire, Running
  <2>. QED
    BY <1>4, <2>1, AcquireFacts DEF Acquire
<1>5. ASSUME NEW e \in Elem, Initialize(e) PROVE ListInv'
  BY <1>5 DEF Initialize
<1>6. ASSUME NEW e \in Elem, Stop(e) PROVE ListInv'
  BY <1>6 DEF Stop
<1>7. ASSUME NEW e \in Elem, Finalize(e) PROVE ListInv'
  BY <1>7, FinalizeFacts DEF Finalize
<1>8. CASE UNCHANGED vars
  BY <1>8 DEF vars
<1>. QED
  BY <1>1, <1>2, <1>3, <1>4, <1>5, <1>6, <1>7, <1>8 DEF Next

\* Elements keep to the instance of the entry.
LEMMA InstanceStep == AliveInv /\ [Next]_vars => InstanceInv'
<1>. SUFFICES ASSUME AliveInv, [Next]_vars PROVE InstanceInv'
  OBVIOUS
<1>. USE DEF AliveInv, TypeOK, LifeInv, InstanceInv, Registered
<1>1. ASSUME NEW e \in Elem, Start(e) PROVE InstanceInv'
  <2>1. infRefs # NULL => infRefs'.proxy = infRefs.proxy
    BY <1>1, RegisterFacts DEF Start, Entry
  <2>. QED
    BY <1>1, <2>1 DEF Start, Counted
<1>2. ASSUME NEW e \in Elem, SetCaps(e) PROVE InstanceInv'
  BY <1>2 DEF SetCaps
<1>3. ASSUME NEW e \in Elem, AcquireFails(e) PROVE InstanceInv'
  BY <1>3, AcquireFailsFacts DEF AcquireFails
<1>4. ASSUME NEW e \in Elem, Acquire(e) PROVE InstanceInv'
  <2>1. acquired' = [acquired EXCEPT ![e] = infRefs'.proxy]
    BY <1>4, AcquireFacts
  <2>2. infRefs # NULL /\ infRefs.elementsToInit \in Seq(Elem) /\ e \in Registered
    BY <1>4, EntryFound DEF Acquire, Running, InferenceRefs
  <2>3. Registered' = Registered
    BY <1>4 DEF Acquire
  <2>4. infRefs'.proxy = infRefs.proxy \/ infRefs.proxy = 0
    BY <1>4, AcquireFacts
  <2>5. \A x \in ToSet(infRefs.elementsToInit) : x \in Registered
    BY <1>4, <2>2, SMTT(30) DEF Acquire, Defined, ListInv, ToSet
  <2>6. \A x \in Elem : inference'[x] # 0 => x \in Registered /\ inference'[x] = infRefs.proxy
    BY <1>4, <2>5 DEF Acquire, fillElementProps
  <2>7. \A x \in Elem : acquired'[x] # 0 => x \in Registered /\ acquired'[x] = infRefs'.proxy
    BY <2>1, <2>2, <2>4
  <2>. QED
    BY <2>3, <2>4, <2>6, <2>7
<1>5. ASSUME NEW e \in Elem, Initialize(e) PROVE InstanceInv'
  BY <1>5 DEF Initialize
<1>6. ASSUME NEW e \in Elem, Stop(e) PROVE InstanceInv'
  BY <1>6 DEF Stop
<1>7. ASSUME NEW e \in Elem, Finalize(e) PROVE InstanceInv'
  <2>1. \A x \in Registered : x # e => infRefs' # NULL
    BY <1>7, CountedStep DEF Next, Counted, Finalize
  <2>2. infRefs' # NULL /\ infRefs # NULL => infRefs'.proxy = infRefs.proxy
    BY <1>7, FinalizeFacts
  <2>3. infRefs = NULL => Registered = {}
    BY DEF Counted
  <2>. QED
    BY <1>7, <2>1, <2>2, <2>3 DEF Finalize
<1>8. CASE UNCHANGED vars
  BY <1>8 DEF vars
<1>. QED
  BY <1>1, <1>2, <1>3, <1>4, <1>5, <1>6, <1>7, <1>8 DEF Next

\* The invariant holds initially, and every step keeps it.
THEOREM AliveInvariant == Spec => []AliveInv
<1>1. Init => AliveInv
  <2>. SUFFICES ASSUME Init PROVE AliveInv
    OBVIOUS
  <2>1. TypeOK
    BY StartAssumption, ElemAssumption DEF Init, TypeOK, State
  <2>2. Registered = {}
    BY DEF Init, Registered
  <2>. QED
    BY <2>1, <2>2 DEF Init, AliveInv, Counted, LifeInv, InstanceInv, ListInv, Running
<1>2. AliveInv /\ [Next]_vars => AliveInv'
  BY TypeStep, CountedStep, LifeStep, InstanceStep, ListStep DEF AliveInv
<1>. QED
  BY <1>1, <1>2, PTL DEF Spec

\* The variables keep their types, and an entry has references.
THEOREM TypeCorrect == Spec => []TypeOK
<1>1. AliveInv => TypeOK
  BY DEF AliveInv
<1>. QED
  BY <1>1, AliveInvariant, PTL

\* The instance an element works with is there, and the same for all, whatever
\* the others do: start twice, fail to acquire it, go in any order.
THEOREM InstanceAlive == Spec => []InferenceAlive
<1>1. AliveInv => InferenceAlive
  BY DEF AliveInv, InstanceInv, Counted, InferenceAlive
<1>. QED
  BY <1>1, AliveInvariant, PTL

\* The assertion of acquire_inference_instance holds.
THEOREM EntryRegistered == Spec => []AcquireFindsEntry
<1>1. AliveInv => AcquireFindsEntry
  BY EntryFound DEF AcquireFindsEntry, Running
<1>. QED
  BY <1>1, AliveInvariant, PTL
-----------------------------------------------------------------------------
(* The model of the instance, when one element is a master *)

OneMaster == \A x, y \in Master : x = y

\* A model is that of a master.  Who has the instance has a model, and who is
\* registered without one is on the list of those to fill in.
ModelInv ==
    /\ \A e \in Elem : model[e] \in Master \cup {NULL}
    /\ \A e \in Elem : inference[e] # 0 \/ acquired[e] # 0 => model[e] # NULL
    /\ \A e \in Registered : model[e] = NULL => e \in ToSet(infRefs.elementsToInit)
    /\ infRefs # NULL =>
          /\ infRefs.masterElement # NULL => model[infRefs.masterElement] # NULL
          /\ infRefs.proxy # 0 => infRefs.settings \in Master

\* The instance keeps the model of the master.
LEMMA ModelStep == AliveInv /\ ModelInv /\ [Next]_vars => ModelInv'
<1>. SUFFICES ASSUME AliveInv, ModelInv, [Next]_vars PROVE ModelInv'
  OBVIOUS
<1>. USE DEF AliveInv, TypeOK, ModelInv, Registered
<1>1. ASSUME NEW e \in Elem, Start(e) PROVE ModelInv'
  <2>1. infRefs = NULL => Registered = {}
    BY DEF Counted
  <2>2. infRefs' # NULL /\ infRefs' = registerElement(e)
    BY <1>1, RegisterFacts DEF Start
  <2>3. \A x \in Registered' : model[x] = NULL => x \in ToSet(infRefs'.elementsToInit)
    BY <1>1, <2>1, <2>2, RegisterFacts DEF Start, Entry
  <2>4. infRefs'.masterElement # NULL => model[infRefs'.masterElement] # NULL
    BY <2>2, RegisterFacts, ZenonT(30) DEF Entry, NewRefs
  <2>5. infRefs'.proxy # 0 => infRefs'.settings \in Master
    BY <2>2, RegisterFacts DEF Entry, NewRefs
  <2>. QED
    BY <1>1, <2>2, <2>3, <2>4, <2>5 DEF Start
<1>2. ASSUME NEW e \in Elem, SetCaps(e) PROVE ModelInv'
  BY <1>2 DEF SetCaps
<1>3. ASSUME NEW e \in Elem, AcquireFails(e) PROVE ModelInv'
  BY <1>3, AcquireFailsFacts DEF AcquireFails
<1>4. ASSUME NEW e \in Elem, Acquire(e) PROVE ModelInv'
  <2>1. infRefs # NULL /\ e \in Registered /\ infRefs.masterElement \in Elem
    BY <1>4, EntryFound DEF Acquire, Running, InferenceRefs
  <2>2. model[infRefs.masterElement] \in Master /\ NULL \notin Master
    BY <1>4, <2>1, ElemAssumption DEF Acquire
  <2>3. \A x \in Elem : model'[x] =
           IF x \in ToSet(infRefs.elementsToInit) THEN model[infRefs.masterElement] ELSE model[x]
    BY <1>4 DEF Acquire, fillElementProps
  <2>4. \A x \in Elem : model'[x] \in Master \cup {NULL} /\ (model[x] # NULL => model'[x] # NULL)
    BY <2>2, <2>3
  <2>5. model'[e] \in Master
    BY <2>1, <2>2, <2>3, <2>4
  <2>6. \A x \in Elem : inference'[x] # 0 => model'[x] # NULL
    BY <1>4, <2>2, <2>3, <2>4 DEF Acquire, fillElementProps
  <2>7. \A x \in Elem : acquired'[x] # 0 => model'[x] # NULL
    BY <1>4, <2>2, <2>4, <2>5, AcquireFacts
  <2>8. \A x \in Registered' : model'[x] = NULL => x \in ToSet(infRefs'.elementsToInit)
    BY <1>4, <2>4, AcquireFacts DEF Acquire
  <2>9. model'[infRefs'.masterElement] # NULL
    BY <1>4, <2>1, <2>2, <2>4, AcquireFacts
  <2>10. infRefs'.proxy # 0 => infRefs'.settings \in Master
    BY <1>4, <2>1, <2>5, AcquireFacts
  <2>. QED
    BY <2>4, <2>6, <2>7, <2>8, <2>9, <2>10
<1>5. ASSUME NEW e \in Elem, Initialize(e) PROVE ModelInv'
  BY <1>5 DEF Initialize
<1>6. ASSUME NEW e \in Elem, Stop(e) PROVE ModelInv'
  BY <1>6 DEF Stop
<1>7. ASSUME NEW e \in Elem, Finalize(e) PROVE ModelInv'
  <2>1. \A x \in Registered : x # e => infRefs' # NULL
    BY <1>7, CountedStep DEF Next, Counted, Finalize
  <2>2. infRefs = NULL => Registered = {}
    BY DEF Counted
  <2>3. infRefs' # NULL => infRefs # NULL
        /\ infRefs'.elementsToInit = infRefs.elementsToInit
        /\ infRefs'.masterElement = infRefs.masterElement
        /\ infRefs'.proxy = infRefs.proxy
        /\ infRefs'.settings = infRefs.settings
    BY <1>7, FinalizeFacts
  <2>4. Registered' = Registered \ {e}
    BY <1>7 DEF Finalize
  <2>. QED
    BY <1>7, <2>1, <2>2, <2>3, <2>4 DEF Finalize
<1>8. CASE UNCHANGED vars
  BY <1>8 DEF vars
<1>. QED
  BY <1>1, <1>2, <1>3, <1>4, <1>5, <1>6, <1>7, <1>8 DEF Next

\* With one master, every element that has the instance has the model the
\* instance was made with.
THEOREM ModelIsShared == ASSUME OneMaster PROVE Spec => []ModelShared
<1>1. Init => ModelInv
  BY ElemAssumption DEF Init, ModelInv, Registered
<1>2. AliveInv /\ ModelInv => ModelShared
  BY OneMaster, ElemAssumption DEF AliveInv, InstanceInv, Counted, ModelInv, ModelShared, OneMaster
<1>. QED
  BY <1>1, <1>2, ModelStep, AliveInvariant, PTL DEF Spec
-----------------------------------------------------------------------------
(* The entry goes with the last element *)

\* The elements that were started once and have not given the instance back.
Open == {e \in Elem : starts[e] = 1 /\ e \notin had}

\* While no element has been started twice the references are exactly theirs.
OpenInv ==
    /\ \A e \in had : state[e] = "finalized"
    /\ (\A e \in Elem : starts[e] <= 1) =>
            Cardinality(Open) = IF infRefs = NULL THEN 0 ELSE infRefs.numRefs

\* The elements that still count can be counted.
LEMMA OpenFacts ==
    /\ IsFiniteSet(Open)
    /\ Cardinality(Open) \in Nat
    /\ (Cardinality(Open) = 0) <=> (Open = {})
<1>1. IsFiniteSet(Open)
  BY FS_Subset, ElemAssumption DEF Open
<1>. QED
  BY <1>1, FS_CardinalityType, FS_EmptySet

\* A step that registers and releases nobody.
LEMMA OpenKept ==
    ASSUME OpenInv, UNCHANGED <<starts, had>>,
           \A e \in had : state'[e] = "finalized",
           \/ infRefs' = infRefs
           \/ infRefs # NULL /\ infRefs' # NULL /\ infRefs'.numRefs = infRefs.numRefs
    PROVE  OpenInv'
<1>1. Open' = Open
  BY DEF Open
<1>. QED
  BY <1>1 DEF OpenInv

\* The references of the entry go on being exactly those of its elements.
LEMMA OpenStep == AliveInv /\ OpenInv /\ [Next]_vars => OpenInv'
<1>. SUFFICES ASSUME AliveInv, OpenInv, [Next]_vars PROVE OpenInv'
  OBVIOUS
<1>. USE DEF AliveInv, TypeOK
<1>1. ASSUME NEW e \in Elem, Start(e) PROVE OpenInv'
  <2>1. \A x \in had : state'[x] = "finalized"
    BY <1>1 DEF Start, OpenInv
  <2>2. ASSUME \A x \in Elem : starts'[x] <= 1
        PROVE  Cardinality(Open') = IF infRefs' = NULL THEN 0 ELSE infRefs'.numRefs
    <3>1. starts[e] = 0 /\ \A x \in Elem : starts[x] <= 1
      BY <1>1, <2>2 DEF Start
    <3>2. Open' = Open \cup {e} /\ e \notin Open
      BY <1>1, <3>1 DEF Start, Open, OpenInv
    <3>3. Cardinality(Open') = Cardinality(Open) + 1
      BY <3>2, OpenFacts, FS_AddElement
    <3>4. infRefs' # NULL /\ infRefs'.numRefs = Entry.numRefs + 1
      BY <1>1, RegisterFacts DEF Start
    <3>5. Cardinality(Open) = Entry.numRefs
      BY <3>1 DEF OpenInv, Entry, NewRefs
    <3>. QED
      BY <3>3, <3>4, <3>5
  <2>. QED
    BY <1>1, <2>1, <2>2 DEF OpenInv, Start
<1>2. ASSUME NEW e \in Elem, SetCaps(e) PROVE OpenInv'
  BY <1>2, OpenKept DEF SetCaps, OpenInv
<1>3. ASSUME NEW e \in Elem, AcquireFails(e) PROVE OpenInv'
  BY <1>3, OpenKept, AcquireFailsFacts DEF AcquireFails, OpenInv
<1>4. ASSUME NEW e \in Elem, Acquire(e) PROVE OpenInv'
  <2>1. infRefs # NULL
    BY <1>4, EntryFound DEF Acquire, Running
  <2>. QED
    BY <1>4, <2>1, OpenKept, AcquireFacts DEF Acquire, OpenInv
<1>5. ASSUME NEW e \in Elem, Initialize(e) PROVE OpenInv'
  BY <1>5, OpenKept DEF Initialize, OpenInv
<1>6. ASSUME NEW e \in Elem, Stop(e) PROVE OpenInv'
  BY <1>6, OpenKept DEF Stop, OpenInv
<1>7. ASSUME NEW e \in Elem, Finalize(e) PROVE OpenInv'
  <2>1. \A x \in had' : state'[x] = "finalized"
    BY <1>7 DEF Finalize, OpenInv
  <2>2. CASE inference[e] = 0
    <3>1. Open' = Open
      BY <1>7, <2>2 DEF Finalize, Open
    <3>. QED
      BY <1>7, <2>1, <2>2, <3>1 DEF Finalize, OpenInv
  <2>3. CASE inference[e] # 0
    <3>1. e \in Registered /\ infRefs # NULL
      BY <2>3 DEF InstanceInv, Counted
    <3>2. ASSUME \A x \in Elem : starts[x] <= 1
          PROVE  Cardinality(Open') = IF infRefs' = NULL THEN 0 ELSE infRefs'.numRefs
      <4>1. e \in Open /\ Open' = Open \ {e}
        BY <1>7, <2>3, <3>1, <3>2 DEF Finalize, Open, OpenInv, Registered
      <4>2. Cardinality(Open') = Cardinality(Open) - 1
        BY <4>1, OpenFacts, FS_RemoveElement
      <4>3. Cardinality(Open) = infRefs.numRefs
        BY <3>1, <3>2 DEF OpenInv
      <4>. QED
        BY <1>7, <2>3, <4>2, <4>3, FinalizeFacts, OpenFacts
    <3>. QED
      BY <1>7, <2>1, <3>2 DEF Finalize, OpenInv
  <2>. QED
    BY <2>2, <2>3
<1>8. CASE UNCHANGED vars
  BY <1>8, OpenKept DEF vars, OpenInv
<1>. QED
  BY <1>1, <1>2, <1>3, <1>4, <1>5, <1>6, <1>7, <1>8 DEF Next

\* When every element was started once, had the instance and is finalized, in
\* whatever order, the instance is deleted.
THEOREM DeletedWithLast == Spec => []InstanceDeleted
<1>1. Init => OpenInv
  <2>1. Init => Open = {} /\ infRefs = NULL /\ had = {}
    BY DEF Init, Open
  <2>. QED
    BY <2>1, FS_EmptySet DEF OpenInv
<1>2. AliveInv /\ OpenInv => InstanceDeleted
  BY OpenFacts DEF AliveInv, TypeOK, InferenceRefs, OpenInv, InstanceDeleted, Open
<1>. QED
  BY <1>1, <1>2, OpenStep, AliveInvariant, PTL DEF Spec

-----------------------------------------------------------------------------
(* Elements with a model of their own are initialized *)

\* An element with a model is never one that others fill in, so that it has the
\* instance only from its own acquire, with its post-processor.
MasterInv ==
    \A e \in Master :
        /\ model[e] # NULL
        /\ infRefs # NULL => e \notin ToSet(infRefs.elementsToInit)
        /\ inference[e] # 0 \/ state[e] = "playing" => post_proc[e]

\* Elements that are filled in are no masters, and no master loses its model.
LEMMA MasterStep == AliveInv /\ MasterInv /\ [Next]_vars => MasterInv'
<1>. SUFFICES ASSUME AliveInv, MasterInv, [Next]_vars, NEW m \in Master
              PROVE  /\ model'[m] # NULL
                     /\ infRefs' # NULL => m \notin ToSet(infRefs'.elementsToInit)
                     /\ inference'[m] # 0 \/ state'[m] = "playing" => post_proc'[m]
  BY DEF MasterInv
<1>0. /\ m \in Elem
      /\ model[m] # NULL
      /\ infRefs # NULL => m \notin ToSet(infRefs.elementsToInit)
      /\ inference[m] # 0 \/ state[m] = "playing" => post_proc[m]
  BY ElemAssumption DEF MasterInv
<1>. USE DEF AliveInv, TypeOK
<1>1. ASSUME NEW e \in Elem, Start(e)
      PROVE  /\ infRefs' # NULL => m \notin ToSet(infRefs'.elementsToInit)
             /\ inference'[m] # 0 \/ state'[m] = "playing" => post_proc'[m]
             /\ model'[m] # NULL
  <2>1. m \notin ToSet(Entry.elementsToInit)
    BY <1>0 DEF Entry, NewRefs, ToSet
  <2>2. m \notin ToSet(infRefs'.elementsToInit)
    BY <1>0, <1>1, <2>1, RegisterFacts DEF Start
  <2>. QED
    BY <1>0, <1>1, <2>2 DEF Start
<1>2. ASSUME NEW e \in Elem, SetCaps(e) \/ Initialize(e) \/ Stop(e)
      PROVE  /\ infRefs' # NULL => m \notin ToSet(infRefs'.elementsToInit)
             /\ inference'[m] # 0 \/ state'[m] = "playing" => post_proc'[m]
             /\ model'[m] # NULL
  BY <1>0, <1>2 DEF SetCaps, Initialize, Stop
<1>3. ASSUME NEW e \in Elem, AcquireFails(e)
      PROVE  /\ infRefs' # NULL => m \notin ToSet(infRefs'.elementsToInit)
             /\ inference'[m] # 0 \/ state'[m] = "playing" => post_proc'[m]
             /\ model'[m] # NULL
  BY <1>0, <1>3, AcquireFailsFacts DEF AcquireFails
<1>4. ASSUME NEW e \in Elem, Acquire(e)
      PROVE  /\ infRefs' # NULL => m \notin ToSet(infRefs'.elementsToInit)
             /\ inference'[m] # 0 \/ state'[m] = "playing" => post_proc'[m]
             /\ model'[m] # NULL
  <2>1. infRefs # NULL
    BY <1>4, EntryFound DEF Acquire, Running
  <2>2. model'[m] = model[m] /\ inference'[m] = inference[m]
    BY <1>0, <1>4, <2>1 DEF Acquire, fillElementProps
  <2>. QED
    BY <1>0, <1>4, <2>1, <2>2, AcquireFacts DEF Acquire
<1>5. ASSUME NEW e \in Elem, Finalize(e)
      PROVE  /\ infRefs' # NULL => m \notin ToSet(infRefs'.elementsToInit)
             /\ inference'[m] # 0 \/ state'[m] = "playing" => post_proc'[m]
             /\ model'[m] # NULL
  <2>1. infRefs' # NULL => m \notin ToSet(infRefs'.elementsToInit)
    BY <1>0, <1>5, FinalizeFacts
  <2>. QED
    BY <1>0, <1>5, <2>1 DEF Finalize
<1>6. CASE UNCHANGED vars
  BY <1>0, <1>6 DEF vars
<1>. QED
  BY <1>1, <1>2, <1>3, <1>4, <1>5, <1>6 DEF Next

\* An element whose 'model' the application has set is initialized for the
\* instance whenever it gets frames, whoever else shares the instance.
THEOREM MastersInitialized ==
    Spec => [](\A e \in Master : state[e] = "playing" => post_proc[e])
<1>1. Init => MasterInv
  BY ElemAssumption DEF Init, MasterInv
<1>2. MasterInv => \A e \in Master : state[e] = "playing" => post_proc[e]
  BY DEF MasterInv
<1>. QED
  BY <1>1, <1>2, MasterStep, AliveInvariant, PTL DEF Spec

\* Where each element has its model set, all that get frames are initialized.
THEOREM AllInitialized == ASSUME Elem = Master PROVE Spec => []PlayingInitialized
<1>1. (\A e \in Master : state[e] = "playing" => post_proc[e]) => PlayingInitialized
  BY DEF PlayingInitialized
<1>. QED
  BY <1>1, MastersInitialized, PTL
=============================================================================
