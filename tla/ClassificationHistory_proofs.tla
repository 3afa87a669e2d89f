--------------------- MODULE ClassificationHistory_proofs ---------------------
(***************************************************************************)
(* Proofs about ClassificationHistory.  The list of LRUCache is first shown *)
(* to be a map from the objects it knows to their entries, which put may   *)
(* make smaller by one object; FillROIParams, a recursion over the regions *)
(* of a frame, only reorders it.  The invariant HistoryInv then relates    *)
(* the marks of the entries to the frames of the streaming thread and      *)
(* their results to the frames that leave.  With the inference on every    *)
(* frame, EveryFrameInv says why each object of a frame has a recent label *)
(* when the frame leaves.                                                  *)
(***************************************************************************)
EXTENDS ClassificationHistory, WellFoundedInduction, TLAPS

-----------------------------------------------------------------------------
(* Induction over a set of numbers *)

LEMMA NatOrder == \A x, y \in Nat : x < y => <<x, y>> \in OpToRel(<, Nat)
BY DEF OpToRel

LEMMA SetInduction ==
    ASSUME NEW S, 0 \in S, \A n \in Nat : n \in S => n + 1 \in S
    PROVE  Nat \subseteq S
<1> DEFINE T == Nat \ S
<1>1. SUFFICES ASSUME T # {} PROVE FALSE
  OBVIOUS
<1>2. PICK x \in T : \A y \in T : ~(<<y, x>> \in OpToRel(<, Nat))
  BY <1>1, NatLessThanWellFounded, WFMin
<1>3. x # 0 /\ x - 1 \in Nat /\ x - 1 < x
  OBVIOUS
<1>4. x - 1 \notin T
  BY <1>2, <1>3, NatOrder
<1>5. (x - 1) + 1 \in S
  BY <1>3, <1>4
<1>. QED
  BY <1>3, <1>5

-----------------------------------------------------------------------------
(* The list as a map *)

ListEntry == [key : Object, value : ROIClassificationHistory]

\* A list of the class: no key twice.
Cache == {c \in Seq(ListEntry) :
             \A k, l \in DOMAIN c : c[k].key = c[l].key => k = l}

\* What a lookup finds: the node with the key, wherever it is.
LEMMA Lookup ==
    ASSUME NEW c \in Cache, NEW k \in DOMAIN c
    PROVE  /\ LRU!count(c, c[k].key)
           /\ LRU!value(c, c[k].key) = c[k].value
BY DEF Cache, LRU!count, LRU!value, LRU!iterator

LEMMA Found ==
    ASSUME NEW c \in Cache, NEW o, LRU!count(c, o)
    PROVE  /\ LRU!iterator(c, o) \in DOMAIN c
           /\ c[LRU!iterator(c, o)].key = o
           /\ LRU!value(c, o) \in ROIClassificationHistory
<1>1. PICK k \in DOMAIN c : c[k].key = o
  BY DEF LRU!count
<1>2. LRU!iterator(c, o) = k
  BY <1>1 DEF Cache, LRU!iterator
<1>3. k \in 1..Len(c) /\ c \in Seq(ListEntry) /\ c[k] \in ListEntry
  BY DEF Cache
<1>. QED
  BY <1>1, <1>2, <1>3 DEF ListEntry, LRU!value

\* The objects but o are in both lists or in neither, with the same entry.
Others(c, d, o) ==
    \A p \in Object \ {o} : /\ LRU!count(d, p) <=> LRU!count(c, p)
                            /\ LRU!count(c, p) => LRU!value(d, p) = LRU!value(c, p)

LEMMA WithoutFacts ==
    ASSUME NEW c \in Cache, NEW o \in Object, LRU!count(c, o)
    PROVE  LET d == LRU!Without(c, LRU!iterator(c, o))
           IN /\ d \in Cache /\ Len(d) = Len(c) - 1
              /\ ~LRU!count(d, o)
              /\ Others(c, d, o)
<1> DEFINE i == LRU!iterator(c, o)
           d == LRU!Without(c, i)
           at(j) == IF j < i THEN j ELSE j + 1
<1>1. /\ c \in Seq(ListEntry) /\ Len(c) \in Nat /\ DOMAIN c = 1..Len(c)
      /\ i \in 1..Len(c) /\ c[i].key = o
  BY Found DEF Cache
<1>. HIDE DEF i
<1>2. \A j \in 1..(Len(c) - 1) : at(j) \in 1..Len(c) /\ at(j) # i
  BY <1>1
<1>3. /\ d = [j \in 1..(Len(c) - 1) |-> c[at(j)]]
      /\ \A j \in 1..(Len(c) - 1) : d[j] = c[at(j)] /\ d[j] \in ListEntry
  BY <1>1, <1>2 DEF LRU!Without
<1>4. d \in Seq(ListEntry) /\ Len(d) = Len(c) - 1 /\ DOMAIN d = 1..(Len(c) - 1)
  BY <1>1, <1>3
<1>. HIDE DEF d
<1>5. d \in Cache
  <2>1. ASSUME NEW k \in DOMAIN d, NEW l \in DOMAIN d, d[k].key = d[l].key
        PROVE  k = l
    <3>1. at(k) = at(l)
      BY <1>1, <1>2, <1>3, <1>4, <2>1 DEF Cache
    <3>. QED
      BY <1>1, <1>4, <3>1
  <2>. QED
    BY <1>4, <2>1 DEF Cache
<1>6. ~LRU!count(d, o)
  BY <1>1, <1>2, <1>3, <1>4 DEF Cache, LRU!count
<1>7. ASSUME NEW p \in Object \ {o}
      PROVE  /\ LRU!count(d, p) <=> LRU!count(c, p)
             /\ LRU!count(c, p) => LRU!value(d, p) = LRU!value(c, p)
  <2>1. ASSUME LRU!count(d, p) PROVE LRU!count(c, p)
    BY <1>1, <1>2, <1>3, <1>4, <2>1 DEF LRU!count
  <2>2. ASSUME LRU!count(c, p)
        PROVE  LRU!count(d, p) /\ LRU!value(d, p) = LRU!value(c, p)
    <3>1. PICK k \in 1..Len(c) : c[k].key = p
      BY <1>1, <2>2 DEF LRU!count
    <3>2. k # i
      BY <1>1, <3>1
    <3>3. PICK j \in 1..(Len(c) - 1) : at(j) = k
      <4>1. CASE k < i
        BY <1>1, <3>1, <4>1, SMTT(30)
      <4>2. CASE k > i
        <5>1. k - 1 \in 1..(Len(c) - 1) /\ at(k - 1) = k
          BY <1>1, <3>1, <4>2
        <5>. QED
          BY <5>1
      <4>. QED
        BY <1>1, <3>2, <4>1, <4>2
    <3>4. d[j] = c[k] /\ j \in DOMAIN d
      BY <1>3, <1>4, <3>3
    <3>. QED
      BY <1>1, <1>5, <3>1, <3>4, Lookup
  <2>. QED
    BY <2>1, <2>2
<1>. QED
  BY <1>4, <1>5, <1>6, <1>7 DEF d, i, Others

LEMMA AppendFacts ==
    ASSUME NEW c \in Cache, NEW o \in Object, ~LRU!count(c, o),
           NEW v \in ROIClassificationHistory
    PROVE  LET d == Append(c, LRU!ListNode(o, v))
           IN /\ d \in Cache /\ Len(d) = Len(c) + 1
              /\ LRU!count(d, o) /\ LRU!value(d, o) = v
              /\ Others(c, d, o)
<1> DEFINE e == LRU!ListNode(o, v)
           d == Append(c, e)
<1>1. /\ c \in Seq(ListEntry) /\ Len(c) \in Nat /\ DOMAIN c = 1..Len(c)
      /\ e \in ListEntry /\ e.key = o /\ e.value = v
  BY DEF Cache, ListEntry, LRU!ListNode
<1>. HIDE DEF e
<1>2. /\ d \in Seq(ListEntry) /\ Len(d) = Len(c) + 1 /\ DOMAIN d = 1..(Len(c) + 1)
      /\ \A j \in 1..Len(c) : d[j] = c[j]
      /\ d[Len(c) + 1] = e
  BY <1>1
<1>. HIDE DEF d
<1>3. \A j \in 1..Len(c) : c[j].key # o
  BY <1>1 DEF LRU!count
<1>4. d \in Cache
  <2>1. ASSUME NEW k \in 1..(Len(c) + 1), NEW l \in 1..(Len(c) + 1), d[k].key = d[l].key
        PROVE  k = l
    <3>1. CASE k \in 1..Len(c) /\ l \in 1..Len(c)
      BY <1>1, <1>2, <2>1, <3>1 DEF Cache
    <3>2. CASE k = Len(c) + 1 \/ l = Len(c) + 1
      BY <1>1, <1>2, <1>3, <2>1, <3>2
    <3>. QED
      BY <1>1, <3>1, <3>2
  <2>. QED
    BY <1>2, <2>1 DEF Cache
<1>5. Len(c) + 1 \in DOMAIN d
  BY <1>1, <1>2
<1>6. LRU!count(d, o) /\ LRU!value(d, o) = v
  BY <1>1, <1>2, <1>4, <1>5, Lookup
<1>7. ASSUME NEW p \in Object \ {o}
      PROVE  /\ LRU!count(d, p) <=> LRU!count(c, p)
             /\ LRU!count(c, p) => LRU!value(d, p) = LRU!value(c, p)
  <2>1. ASSUME LRU!count(d, p) PROVE LRU!count(c, p)
    <3>1. PICK k \in 1..(Len(c) + 1) : d[k].key = p
      BY <1>2, <2>1 DEF LRU!count
    <3>2. k \in 1..Len(c) /\ c[k].key = p
      BY <1>1, <1>2, <3>1
    <3>. QED
      BY <1>1, <3>2 DEF LRU!count
  <2>2. ASSUME LRU!count(c, p)
        PROVE  LRU!count(d, p) /\ LRU!value(d, p) = LRU!value(c, p)
    <3>1. PICK k \in 1..Len(c) : c[k].key = p
      BY <1>1, <2>2 DEF LRU!count
    <3>2. d[k] = c[k] /\ k \in DOMAIN d
      BY <1>1, <1>2
    <3>. QED
      BY <1>1, <1>4, <3>1, <3>2, Lookup
  <2>. QED
    BY <2>1, <2>2
<1>. QED
  BY <1>2, <1>4, <1>6, <1>7 DEF d, e, Others

LEMMA TailFacts ==
    ASSUME NEW c \in Cache, c # <<>>
    PROVE  /\ Tail(c) \in Cache /\ Len(Tail(c)) = Len(c) - 1
           /\ Head(c).key \in Object
           /\ LRU!count(c, Head(c).key)
           /\ ~LRU!count(Tail(c), Head(c).key)
           /\ Others(c, Tail(c), Head(c).key)
<1> DEFINE d == Tail(c)
           o == Head(c).key
<1>1. /\ c \in Seq(ListEntry) /\ Len(c) \in Nat \ {0} /\ DOMAIN c = 1..Len(c)
      /\ 1 \in DOMAIN c /\ Head(c) = c[1] /\ c[1] \in ListEntry
  BY DEF Cache
<1>2. /\ d \in Seq(ListEntry) /\ Len(d) = Len(c) - 1 /\ DOMAIN d = 1..(Len(c) - 1)
      /\ \A j \in 1..(Len(c) - 1) : d[j] = c[j + 1]
  BY <1>1
<1>3. o \in Object /\ o = c[1].key
  BY <1>1 DEF ListEntry
<1>. HIDE DEF d, o
<1>4. d \in Cache
  <2>1. ASSUME NEW k \in DOMAIN d, NEW l \in DOMAIN d, d[k].key = d[l].key
        PROVE  k = l
    <3>1. /\ k + 1 \in DOMAIN c /\ l + 1 \in DOMAIN c
          /\ c[k + 1].key = c[l + 1].key
      BY <1>1, <1>2, <2>1
    <3>2. k + 1 = l + 1
      BY <3>1 DEF Cache
    <3>. QED
      BY <1>2, <3>2
  <2>. QED
    BY <1>2, <2>1 DEF Cache
<1>5. LRU!count(c, o)
  BY <1>1, <1>3, Lookup
<1>6. ~LRU!count(d, o)
  <2>1. SUFFICES ASSUME NEW k \in DOMAIN d, d[k].key = o PROVE FALSE
    BY DEF LRU!count
  <2>2. k + 1 \in DOMAIN c /\ c[k + 1].key = c[1].key
    BY <1>1, <1>2, <1>3, <2>1
  <2>3. k + 1 = 1
    BY <1>1, <2>2 DEF Cache
  <2>. QED
    BY <1>2, <2>3
<1>7. ASSUME NEW p \in Object \ {o}
      PROVE  /\ LRU!count(d, p) <=> LRU!count(c, p)
             /\ LRU!count(c, p) => LRU!value(d, p) = LRU!value(c, p)
  <2>1. ASSUME LRU!count(d, p) PROVE LRU!count(c, p)
    <3>1. PICK k \in DOMAIN d : d[k].key = p
      BY <2>1 DEF LRU!count
    <3>2. k + 1 \in DOMAIN c /\ c[k + 1].key = p
      BY <1>1, <1>2, <3>1
    <3>. QED
      BY <3>2 DEF LRU!count
  <2>2. ASSUME LRU!count(c, p)
        PROVE  LRU!count(d, p) /\ LRU!value(d, p) = LRU!value(c, p)
    <3>1. PICK k \in DOMAIN c : c[k].key = p
      BY <2>2 DEF LRU!count
    <3>2. k - 1 \in DOMAIN d /\ d[k - 1] = c[k]
      BY <1>1, <1>2, <1>3, <3>1
    <3>. QED
      BY <1>4, <3>1, <3>2, Lookup
  <2>. QED
    BY <2>1, <2>2
<1>. QED
  BY <1>2, <1>3, <1>4, <1>5, <1>6, <1>7 DEF d, o, Others

\* get and the assignment that follows: the entry is the last of the list,
\* and no other changes.
LEMMA SetFacts ==
    ASSUME NEW c \in Cache, NEW o \in Object, NEW v \in ROIClassificationHistory
    PROVE  LET d == LRU!set(c, o, v)
           IN /\ d \in Cache
              /\ Len(d) = IF LRU!count(c, o) THEN Len(c) ELSE Len(c) + 1
              /\ LRU!count(d, o) /\ LRU!value(d, o) = v
              /\ Others(c, d, o)
<1>1. Len(c) \in Nat
  BY DEF Cache
<1>2. CASE LRU!count(c, o)
  <2> DEFINE b == LRU!Without(c, LRU!iterator(c, o))
  <2>1. b \in Cache /\ Len(b) = Len(c) - 1 /\ ~LRU!count(b, o) /\ Others(c, b, o)
    BY <1>2, WithoutFacts
  <2>2. LRU!set(c, o, v) = Append(b, LRU!ListNode(o, v))
    BY <1>2 DEF LRU!set
  <2>. HIDE DEF b
  <2>3. LET d == LRU!set(c, o, v)
        IN /\ d \in Cache /\ Len(d) = Len(b) + 1
           /\ LRU!count(d, o) /\ LRU!value(d, o) = v
           /\ Others(b, d, o)
    BY <2>1, <2>2, AppendFacts
  <2>. QED
    BY <1>1, <1>2, <2>1, <2>3 DEF Others
<1>3. CASE ~LRU!count(c, o)
  BY <1>3, AppendFacts DEF LRU!set
<1>. QED
  BY <1>2, <1>3

\* put: the list stays within its size; the object that is dropped is not the
\* one that is put.
LEMMA PutFacts ==
    ASSUME NEW c \in Cache, Len(c) <= CLASSIFICATION_HISTORY_SIZE,
           NEW o \in Object, NEW v \in ROIClassificationHistory
    PROVE  LET d == LRU!put(c, o, v)
               out == LRU!Dropped(c, o)
           IN /\ d \in Cache /\ Len(d) <= CLASSIFICATION_HISTORY_SIZE
              /\ LRU!count(d, o) /\ LRU!value(d, o) = v
              /\ out \subseteq Object \ {o}
              /\ \A p \in Object \ (out \cup {o}) :
                    /\ LRU!count(d, p) <=> LRU!count(c, p)
                    /\ LRU!count(c, p) => LRU!value(d, p) = LRU!value(c, p)
<1>1. Len(c) \in Nat /\ CLASSIFICATION_HISTORY_SIZE \in Nat \ {0}
  BY SizeAssumption DEF Cache
<1>2. CASE LRU!Dropped(c, o) = {}
  <2>1. LRU!put(c, o, v) = LRU!set(c, o, v)
    BY <1>2 DEF LRU!put
  <2>2. ~LRU!count(c, o) => Len(c) # CLASSIFICATION_HISTORY_SIZE
    BY <1>2 DEF LRU!Dropped
  <2>. QED
    BY <1>1, <1>2, <2>1, <2>2, SetFacts DEF Others
<1>3. CASE LRU!Dropped(c, o) # {}
  <2>1. /\ ~LRU!count(c, o) /\ Len(c) = CLASSIFICATION_HISTORY_SIZE
        /\ LRU!Dropped(c, o) = {Head(c).key}
    BY <1>3 DEF LRU!Dropped
  <2>2. c # <<>>
    BY <1>1, <2>1
  <2>3. /\ Tail(c) \in Cache /\ Len(Tail(c)) = Len(c) - 1
        /\ Head(c).key \in Object \ {o}
        /\ Others(c, Tail(c), Head(c).key)
    BY <2>1, <2>2, TailFacts
  <2>4. LRU!put(c, o, v) = LRU!set(Tail(c), o, v) /\ ~LRU!count(Tail(c), o)
    BY <1>3, <2>1, <2>3 DEF LRU!put, Others
  <2>5. LET d == LRU!set(Tail(c), o, v)
        IN /\ d \in Cache /\ Len(d) = Len(c)
           /\ LRU!count(d, o) /\ LRU!value(d, o) = v
           /\ Others(Tail(c), d, o)
    <3>1. (Len(c) - 1) + 1 = Len(c)
      BY <1>1
    <3>. QED
      BY <2>3, <2>4, <3>1, SetFacts, ZenonT(30)
  <2>. QED
    BY <1>1, <2>1, <2>3, <2>4, <2>5 DEF Others
<1>. QED
  BY <1>2, <1>3

LEMMA PutDrops ==
    ASSUME NEW c \in Cache, Len(c) <= CLASSIFICATION_HISTORY_SIZE,
           NEW o \in Object, NEW v \in ROIClassificationHistory,
           NEW p \in LRU!Dropped(c, o)
    PROVE  ~LRU!count(LRU!put(c, o, v), p)
<1>1. Len(c) \in Nat /\ CLASSIFICATION_HISTORY_SIZE \in Nat \ {0}
  BY SizeAssumption DEF Cache
<1>2. /\ ~LRU!count(c, o) /\ Len(c) = CLASSIFICATION_HISTORY_SIZE
      /\ LRU!Dropped(c, o) # {} /\ p = Head(c).key
  BY DEF LRU!Dropped
<1>3. c # <<>>
  BY <1>1, <1>2
<1>4. /\ Tail(c) \in Cache
      /\ p \in Object \ {o} /\ ~LRU!count(Tail(c), p)
  BY <1>2, <1>3, TailFacts
<1>5. LRU!put(c, o, v) = LRU!set(Tail(c), o, v)
  BY <1>2 DEF LRU!put
<1>6. Others(Tail(c), LRU!set(Tail(c), o, v), o)
  BY <1>4, SetFacts
<1>. QED
  BY <1>4, <1>5, <1>6 DEF Others

\* The same entries, in another order.
Same(c, d) ==
    /\ d \in Cache /\ Len(d) = Len(c)
    /\ \A p \in Object : /\ LRU!count(d, p) <=> LRU!count(c, p)
                         /\ LRU!count(c, p) => LRU!value(d, p) = LRU!value(c, p)

LEMMA TouchFacts ==
    ASSUME NEW c \in Cache, NEW o \in Object, LRU!count(c, o)
    PROVE  Same(c, LRU!make_recently_used(c, o))
<1>1. LRU!value(c, o) \in ROIClassificationHistory
  BY Found
<1>. QED
  BY <1>1, SetFacts DEF LRU!make_recently_used, Same, Others

\* What the recursion over the regions returns: there is a function that
\* satisfies its equation, and each step of it keeps the entries.
LEMMA FilledFacts ==
    ASSUME NEW regions \in Seq(Region), history \in Cache
    PROVE  Same(history, Filled(regions))
<1> DEFINE L == Len(regions)
           step(c, n) == LET o == regions[n]
                         IN IF o # Untracked /\ LRU!count(c, o)
                              THEN LRU!make_recently_used(c, o) ELSE c
           isGet(g) == g = [n \in 0..L |-> IF n = 0 THEN history ELSE step(g[n - 1], n)]
           get == CHOOSE g : isGet(g)
<1>1. L \in Nat
  OBVIOUS
<1>2. Filled(regions) = get[L]
  BY DEF Filled
<1>3. \A n \in 1..L : regions[n] \in Region
  OBVIOUS
<1>4. ASSUME NEW c \in Cache, NEW n \in 1..L
      PROVE  Same(c, step(c, n))
  <2>1. CASE regions[n] # Untracked /\ LRU!count(c, regions[n])
    <3>1. regions[n] \in Object
      BY <1>3, <2>1 DEF Region
    <3>2. Same(c, LRU!make_recently_used(c, regions[n]))
      BY <2>1, <3>1, TouchFacts
    <3>. QED
      BY <2>1, <3>2
  <2>2. CASE ~(regions[n] # Untracked /\ LRU!count(c, regions[n]))
    BY <2>2 DEF Same
  <2>. QED
    BY <2>1, <2>2
<1>. HIDE DEF step, L
<1>5. isGet(get)
  <2> DEFINE upTo(m, g) == g = [n \in 0..m |-> IF n = 0 THEN history ELSE step(g[n - 1], n)]
             S == {m \in Nat : \E g : upTo(m, g)}
  <2>1. 0 \in S
    <3> DEFINE g == [n \in 0..0 |-> history]
    <3>1. upTo(0, g)
      OBVIOUS
    <3>. QED
      BY <3>1
  <2>2. ASSUME NEW m \in Nat, m \in S PROVE m + 1 \in S
    <3>1. PICK g : upTo(m, g)
      BY <2>2
    <3> DEFINE h == [n \in 0..(m + 1) |-> IF n = m + 1 THEN step(g[m], n) ELSE g[n]]
    <3>2. \A n \in 0..m : g[n] = IF n = 0 THEN history ELSE step(g[n - 1], n)
      BY <3>1
    <3>3. ASSUME NEW n \in 0..(m + 1)
          PROVE  h[n] = IF n = 0 THEN history ELSE step(h[n - 1], n)
      <4>1. CASE n = m + 1
        <5>1. n # 0 /\ n - 1 = m /\ m \in 0..(m + 1) /\ m # m + 1
          BY <4>1
        <5>2. h[n] = step(g[m], n) /\ h[m] = g[m]
          BY <4>1, <5>1
        <5>. QED
          BY <5>1, <5>2
      <4>2. CASE n # m + 1
        <5>1. n \in 0..m /\ h[n] = g[n]
          BY <4>2
        <5>2. n # 0 => n - 1 \in 0..(m + 1) /\ n - 1 # m + 1
          BY <4>2
        <5>3. n # 0 => h[n - 1] = g[n - 1]
          BY <5>2
        <5>. QED
          BY <3>2, <5>1, <5>3
      <4>. QED
        BY <4>1, <4>2
    <3>4. DOMAIN h = 0..(m + 1) /\ h = [n \in 0..(m + 1) |-> h[n]]
      OBVIOUS
    <3>. HIDE DEF h
    <3>5. h = [n \in 0..(m + 1) |-> IF n = 0 THEN history ELSE step(h[n - 1], n)]
      BY <3>3, <3>4
    <3>. QED
      BY <3>5
  <2>3. L \in S
    <3>. HIDE DEF S
    <3>. QED
      BY <1>1, <2>1, <2>2, SetInduction
  <2>. QED
    BY <2>3
<1>. HIDE DEF get
<1>6. get[0] = history /\ \A n \in 0..L : n # 0 => get[n] = step(get[n - 1], n)
  BY <1>1, <1>5
<1>7. L \in {n \in Nat : n <= L => Same(history, get[n])}
  <2> DEFINE S == {n \in Nat : n <= L => Same(history, get[n])}
  <2>1. 0 \in S
    BY <1>6 DEF Same
  <2>2. ASSUME NEW n \in Nat, n \in S PROVE n + 1 \in S
    <3>1. SUFFICES ASSUME n + 1 <= L PROVE Same(history, get[n + 1])
      OBVIOUS
    <3>2. n <= L /\ n + 1 \in 1..L /\ n + 1 \in 0..L /\ (n + 1) - 1 = n
      BY <1>1, <3>1
    <3>3. Same(history, get[n])
      BY <2>2, <3>2
    <3>4. get[n + 1] = step(get[n], n + 1)
      BY <1>6, <3>2
    <3>5. Same(get[n], get[n + 1])
      BY <1>4, <3>2, <3>3, <3>4 DEF Same
    <3>. QED
      BY <3>3, <3>5 DEF Same
  <2>. HIDE DEF S
  <2>3. L \in S
    BY <1>1, <2>1, <2>2, SetInduction
  <2>. QED
    BY <2>3 DEF S
<1>. QED
  BY <1>1, <1>2, <1>7

-----------------------------------------------------------------------------
(* The invariants *)

\* The list as a map: the objects that are in it, and their entries.
Known   == {o \in Object : LRU!count(history, o)}
Entries == [o \in Known |-> Entry(o)]

\* The frame that the entry of an object is marked with, and the one its
\* result comes from.
MarkOf(o)   == Entries[o].frame_of_last_update
ResultOf(o) == Entries[o].result

First == output_frames[1]

\* The streaming thread: what it has between the steps of a frame.
PcInv ==
    /\ pc = "idle" => todo = <<>> /\ metas = {}
    /\ pc # "idle" => frame \in Frame /\ metas \subseteq ToSet(frame.regions)
    /\ pc = "filter" =>
          /\ frame.num = frame_num /\ frame_num < MaxFrames
          /\ ToSet(todo) \subseteq ToSet(frame.regions)
    /\ pc \in {"enqueue", "pass"} => frame.num + 1 = frame_num /\ todo = <<>>
    /\ pc = "pass" => output_frames = <<>> /\ metas = {}

\* Frames leave in the order they came in: the last one that was pushed comes
\* before those that wait, and these before the one of the streaming thread.
OrderInv ==
    /\ \A k, l \in DOMAIN output_frames :
          k < l => output_frames[k].frame.num < output_frames[l].frame.num
    /\ \A k \in DOMAIN output_frames :
          /\ output_frames[k].frame.num < frame_num
          /\ pc = "enqueue" => output_frames[k].frame.num < frame.num
    /\ pushed # NULL =>
          /\ pushed.num < frame_num
          /\ pc \in {"enqueue", "pass"} => pushed.num < frame.num
          /\ \A k \in DOMAIN output_frames : pushed.num < output_frames[k].frame.num

\* A result of a frame that waits is on its way or recorded; only those of the
\* first frame are ever recorded.
ResultsInv ==
    \A k \in DOMAIN output_frames :
        LET f == output_frames[k]
        IN /\ f.inferred \subseteq ToSet(f.frame.regions)
           /\ f.waiting \cup f.classifications \subseteq f.inferred
           /\ k > 1 => f.inferred \cap Object \subseteq f.waiting \cup f.classifications

\* Entries are marked with frames the streaming thread has got to.
MarksInv ==
    /\ current_num_frame <= frame_num
    /\ \A o \in Known : MarkOf(o) <= current_num_frame

\* The inference of a frame that waits has been counted.
InferredInv ==
    /\ \A k \in DOMAIN output_frames : \A o \in output_frames[k].inferred \cap Object :
          output_frames[k].frame.num \in classified[o]
    /\ pc = "enqueue" => \A o \in metas \cap Object : frame.num \in classified[o]

\* An object the history has not dropped is marked with its last
\* classification or a later frame: the one it is about to be classified on,
\* reclassify_interval frames after all others.
ClassifiedInv ==
    /\ \A o \in Object \ evicted : \A j \in classified[o] :
          o \in Known /\ MarkOf(o) >= j /\ j < frame_num
    /\ pc = "filter" => \A o \in (metas \cap Object) \ evicted :
          /\ o \in Known /\ MarkOf(o) = frame.num
          /\ \A j \in classified[o] :
                reclassify_interval # 0 /\ frame.num - j >= reclassify_interval

\* Results are recorded when the turn of their frame has come.
RecordedInv ==
    /\ \A o \in Known : ResultOf(o) # NULL =>
          \/ pushed # NULL /\ ResultOf(o) <= pushed.num
          \/ output_frames # <<>> /\ ResultOf(o) = First.frame.num
    /\ output_frames # <<>> =>
          \A o \in (First.inferred \cap Object) \ (First.waiting \cup First.classifications) :
             /\ o \in Known /\ ResultOf(o) # NULL => ResultOf(o) = First.frame.num
             /\ o \notin evicted => o \in Known /\ ResultOf(o) = First.frame.num

\* No label is from a later frame than the last that was pushed, nor from a
\* later one than the result in the history.
LabelInv ==
    \A o \in Object : label[o] # NULL =>
        /\ pushed # NULL /\ label[o] <= pushed.num
        /\ o \in Known /\ ResultOf(o) # NULL => label[o] <= ResultOf(o)

HistoryInv == /\ TypeOK /\ PcInv /\ OrderInv /\ ResultsInv /\ MarksInv
              /\ InferredInv /\ ClassifiedInv /\ RecordedInv /\ LabelInv

\* j is recent enough for a frame with that number.
Current(j, num) == j <= num /\ (reclassify_interval # 0 => num - j < reclassify_interval)

\* An object of a frame that has gone through the filter has a classification
\* that is recent enough for it.
Covered(f) ==
    \A o \in (ToSet(f.regions) \cap Object) \ evicted :
        \E j \in classified[o] : Current(j, f.num)

\* With the inference on every frame: marks stand for classifications...
MarkedInv ==
    \A o \in Known \ evicted :
        \/ MarkOf(o) \in classified[o]
        \/ pc = "filter" /\ o \in metas /\ MarkOf(o) = frame.num

CoveredInv ==
    /\ \A k \in DOMAIN output_frames : Covered(output_frames[k].frame)
    /\ pc \in {"enqueue", "pass"} => Covered(frame)
    /\ pc = "filter" =>
          \A o \in (ToSet(frame.regions) \cap Object) \ (evicted \cup ToSet(todo)) :
             o \in metas \/ \E j \in classified[o] : Current(j, frame.num)

\* ... and a classification is on its way, or its result or a later one is in
\* the history.
OnItsWay(o, j) ==
    \/ \E k \in DOMAIN output_frames : /\ output_frames[k].frame.num = j
                                       /\ o \in output_frames[k].inferred
    \/ pc = "enqueue" /\ frame.num = j /\ o \in metas

ResultInv ==
    \A o \in Object \ evicted : \A j \in classified[o] :
        \/ OnItsWay(o, j)
        \/ o \in Known /\ ResultOf(o) # NULL /\ j <= ResultOf(o)

EveryFrameInv == MarkedInv /\ CoveredInv /\ ResultInv

-----------------------------------------------------------------------------
(* What the actions do to the history *)

Kept == Known' = Known /\ Entries' = Entries /\ evicted' = evicted

\* One entry is written; another may be dropped for it.
Only(o, e) ==
    /\ o \in Known' /\ Entries'[o] = e
    /\ evicted \subseteq evicted'
    /\ \A p \in Object \ {o} :
          /\ p \in Known' => p \in Known /\ Entries'[p] = Entries[p]
          /\ p \in Known \ evicted' => p \in Known'

CacheOK == history \in Cache /\ Len(history) <= CLASSIFICATION_HISTORY_SIZE
           /\ evicted \subseteq Object

LEMMA CacheType == TypeOK => CacheOK
BY DEF TypeOK, CacheOK, Cache, ListEntry

LEMMA EntriesType ==
    ASSUME CacheOK
    PROVE  /\ Entries \in [Known -> ROIClassificationHistory]
           /\ \A o \in Known : LRU!count(history, o) /\ Entries[o] = LRU!value(history, o)
<1>1. \A o \in Known : LRU!value(history, o) \in ROIClassificationHistory
  BY Found DEF CacheOK, Known
<1>. QED
  BY <1>1 DEF Entries, Entry, Known

LEMMA SameKept ==
    ASSUME CacheOK, Same(history, history'), evicted' = evicted
    PROVE  Kept /\ CacheOK'
<1>1. Known' = Known
  BY DEF Same, Known
<1>2. Entries' = Entries
  BY <1>1 DEF Same, Entries, Entry, Known
<1>. QED
  BY <1>1, <1>2 DEF Same, CacheOK, Kept

LEMMA SameHistory ==
    ASSUME history' = history, evicted' = evicted
    PROVE  Kept
BY DEF Kept, Known, Entries, Entry

LEMMA PutOnly ==
    ASSUME CacheOK, NEW o \in Object, NEW e \in ROIClassificationHistory,
           history' = LRU!put(history, o, e),
           evicted' = evicted \cup LRU!Dropped(history, o)
    PROVE  Only(o, e) /\ CacheOK'
<1> DEFINE out == LRU!Dropped(history, o)
<1>1. /\ history' \in Cache /\ Len(history') <= CLASSIFICATION_HISTORY_SIZE
      /\ LRU!count(history', o) /\ LRU!value(history', o) = e
      /\ out \subseteq Object \ {o}
      /\ \A p \in Object \ (out \cup {o}) :
            /\ LRU!count(history', p) <=> LRU!count(history, p)
            /\ LRU!count(history, p) => LRU!value(history', p) = LRU!value(history, p)
  BY PutFacts DEF CacheOK
<1>2. \A p \in out : ~LRU!count(history', p)
  BY PutDrops DEF CacheOK
<1>3. \A p \in Object : /\ p \in Known <=> LRU!count(history, p)
                        /\ p \in Known' <=> LRU!count(history', p)
                        /\ p \in Known => Entries[p] = LRU!value(history, p)
                        /\ p \in Known' => Entries'[p] = LRU!value(history', p)
  BY DEF Known, Entries, Entry
<1>. HIDE DEF out
<1>4. evicted' = evicted \cup out
  BY DEF out
<1>. QED
  BY <1>1, <1>2, <1>3, <1>4 DEF Only, CacheOK

LEMMA SetOnly ==
    ASSUME CacheOK, NEW o \in Object, NEW e \in ROIClassificationHistory,
           LRU!count(history, o), history' = LRU!set(history, o, e), evicted' = evicted
    PROVE  Only(o, e) /\ CacheOK'
<1>1. /\ history' \in Cache /\ Len(history') = Len(history)
      /\ LRU!count(history', o) /\ LRU!value(history', o) = e
      /\ Others(history, history', o)
  BY SetFacts DEF CacheOK
<1>2. \A p \in Object : /\ p \in Known <=> LRU!count(history, p)
                        /\ p \in Known' <=> LRU!count(history', p)
                        /\ p \in Known => Entries[p] = LRU!value(history, p)
                        /\ p \in Known' => Entries'[p] = LRU!value(history', p)
  BY DEF Known, Entries, Entry
<1>. QED
  BY <1>1, <1>2 DEF Only, CacheOK, Others

\* The filter asks about one object.
Asked == Head(todo)

LEMMA RegionsFacts ==
    ASSUME NEW s \in Regions
    PROVE  /\ s \in Seq(Region) /\ ToSet(s) \subseteq Region
           /\ s # <<>> => /\ Head(s) \in Region /\ Head(s) \in ToSet(s)
                          /\ Tail(s) \in Regions
                          /\ ToSet(Tail(s)) \subseteq ToSet(s)
                          /\ ToSet(s) \subseteq ToSet(Tail(s)) \cup {Head(s)}
<1>1. PICK n \in 0..MaxRegions :
         /\ s \in [1..n -> Region]
         /\ \A i, j \in 1..n : i # j => s[i] # s[j]
  BY DEF Regions
<1>2. n \in Nat /\ MaxRegions \in Nat
  BY IntervalAssumption
<1>3. s \in Seq(Region) /\ Len(s) = n /\ DOMAIN s = 1..n
  BY <1>1, <1>2
<1>4. ToSet(s) \subseteq Region
  BY <1>1, <1>3 DEF ToSet
<1>5. ASSUME s # <<>>
      PROVE  /\ Head(s) \in Region /\ Head(s) \in ToSet(s)
             /\ Tail(s) \in Regions
             /\ ToSet(Tail(s)) \subseteq ToSet(s)
             /\ ToSet(s) \subseteq ToSet(Tail(s)) \cup {Head(s)}
  <2>1. n # 0 /\ Head(s) = s[1] /\ 1 \in 1..n
    BY <1>2, <1>3, <1>5
  <2> DEFINE t == Tail(s)
  <2>2. /\ t \in Seq(Region) /\ Len(t) = n - 1 /\ DOMAIN t = 1..(n - 1)
        /\ \A i \in 1..(n - 1) : t[i] = s[i + 1] /\ i + 1 \in 1..n
    BY <1>2, <1>3, <2>1
  <2>. HIDE DEF t
  <2>3. t \in [1..(n - 1) -> Region] /\ n - 1 \in 0..MaxRegions
    BY <1>2, <2>1, <2>2
  <2>4. \A i, j \in 1..(n - 1) : i # j => t[i] # t[j]
    BY <1>1, <1>2, <2>2
  <2>5. t \in Regions
    BY <2>3, <2>4 DEF Regions
  <2>6. ToSet(t) \subseteq ToSet(s)
    BY <1>3, <2>2 DEF ToSet
  <2>7. ToSet(s) \subseteq ToSet(t) \cup {Head(s)}
    <3>1. ASSUME NEW i \in 1..n PROVE s[i] \in ToSet(t) \cup {Head(s)}
      <4>1. i # 1 => i - 1 \in 1..(n - 1) /\ (i - 1) + 1 = i
        BY <1>2
      <4>. QED
        BY <2>1, <2>2, <4>1 DEF ToSet
    <3>. QED
      BY <1>3, <3>1 DEF ToSet
  <2>. QED
    BY <1>1, <1>3, <2>1, <2>5, <2>6, <2>7 DEF ToSet, t
<1>. QED
  BY <1>3, <1>4, <1>5

Update(num, result) == [frame_of_last_update |-> num, result |-> result]

LEMMA AskedFacts ==
    ASSUME TypeOK, PcInv, FilterRegion
    PROVE  /\ pc = "filter" /\ frame \in Frame /\ frame.num = frame_num
           /\ Asked \in Region /\ Asked \in ToSet(frame.regions)
           /\ todo' \in Regions /\ ToSet(todo') \subseteq ToSet(frame.regions)
           /\ ToSet(todo) \subseteq ToSet(todo') \cup {Asked}
<1>1. pc = "filter" /\ todo # <<>> /\ todo \in Regions /\ todo' = Tail(todo)
  BY DEF TypeOK, FilterRegion
<1>2. frame \in Frame /\ frame.num = frame_num /\ ToSet(todo) \subseteq ToSet(frame.regions)
  BY <1>1 DEF PcInv
<1>. QED
  BY <1>1, <1>2, RegionsFacts DEF Asked

\* An object the filter lets through is marked with the frame; the list is
\* otherwise left alone, but for its order.
LEMMA FilterEffect ==
    ASSUME TypeOK, PcInv, FilterRegion
    PROVE  /\ CacheOK'
           /\ \/ /\ Asked \in Object /\ metas' = metas \cup {Asked}
                 /\ Only(Asked, Update(frame.num,
                                       IF Asked \in Known THEN ResultOf(Asked) ELSE NULL))
                 /\ Asked \in Known => /\ reclassify_interval # 0
                                       /\ frame.num - MarkOf(Asked) >= reclassify_interval
              \/ /\ Kept /\ Asked = Untracked /\ metas' = metas \cup {Asked}
              \/ /\ Kept /\ Asked \in Known /\ metas' = metas
                 /\ reclassify_interval = 0
                       \/ ~(frame.num - MarkOf(Asked) >= reclassify_interval)
<1> DEFINE o == Asked
           num == frame.num
<1>1. CacheOK /\ o \in Region /\ num \in Source
  BY AskedFacts, CacheType DEF Frame
<1>2. o \in Object => (o \in Known <=> LRU!count(history, o))
  BY DEF Known
<1>3. o \in Known => Entry(o) = Entries[o] /\ Entries[o] \in ROIClassificationHistory
  BY <1>1, EntriesType DEF Entry
<1>4. Untracked \notin Object
  BY ObjectAssumption
<1>. HIDE DEF o
<1>5. CASE o = Untracked
  <2>1. IsROIClassificationNeeded(o)
    BY <1>5 DEF IsROIClassificationNeeded
  <2>2. history' = history /\ evicted' = evicted /\ metas' = metas \cup {o}
    BY <1>5, <2>1 DEF FilterRegion, o, Asked
  <2>. QED
    BY <1>1, <1>5, <2>2, SameHistory DEF CacheOK, o
<1>6. CASE o # Untracked /\ IsROIClassificationNeeded(o)
  <2>1. o \in Object
    BY <1>1, <1>6 DEF Region
  <2>2. Mark(o, num) /\ metas' = metas \cup {o}
    BY <1>6 DEF FilterRegion, o, Asked
  <2> DEFINE e == Update(num, IF o \in Known THEN Entries[o].result ELSE NULL)
  <2>3. e \in ROIClassificationHistory
    BY <1>1, <1>3 DEF Update, ROIClassificationHistory
  <2>4. /\ history' = LRU!put(history, o, e)
        /\ evicted' = evicted \cup LRU!Dropped(history, o)
    BY <1>2, <1>3, <2>1, <2>2 DEF Mark, Update
  <2>. HIDE DEF e
  <2>5. Only(o, e) /\ CacheOK'
    BY <1>1, <2>1, <2>3, <2>4, PutOnly
  <2>6. o \in Known => reclassify_interval # 0 /\ num - MarkOf(o) >= reclassify_interval
    BY <1>2, <1>3, <1>6, <2>1 DEF IsROIClassificationNeeded, Age, MarkOf
  <2>. QED
    BY <2>1, <2>2, <2>5, <2>6 DEF e, o, ResultOf
<1>7. CASE o # Untracked /\ ~IsROIClassificationNeeded(o)
  <2>1. o \in Object
    BY <1>1, <1>7 DEF Region
  <2>2. /\ o \in Known
        /\ reclassify_interval = 0 \/ ~(num - MarkOf(o) >= reclassify_interval)
    BY <1>2, <1>3, <1>7, <2>1 DEF IsROIClassificationNeeded, Age, MarkOf
  <2>3. /\ history' = IF reclassify_interval = 0 THEN history
                      ELSE LRU!make_recently_used(history, o)
        /\ evicted' = evicted /\ metas' = metas
    BY <1>7 DEF FilterRegion, o, Asked
  <2>4. Kept /\ CacheOK'
    <3>1. CASE reclassify_interval = 0
      BY <1>1, <2>3, <3>1, SameHistory DEF CacheOK
    <3>2. CASE reclassify_interval # 0
      <4>1. Same(history, history')
        BY <1>1, <1>2, <2>1, <2>2, <2>3, <3>2, TouchFacts DEF CacheOK
      <4>. QED
        BY <1>1, <2>3, <4>1, SameKept
    <3>. QED
      BY <3>1, <3>2
  <2>. QED
    BY <2>2, <2>3, <2>4 DEF o
<1>. QED
  BY <1>5, <1>6, <1>7

InFlight == [frame : Frame, inferred : SUBSET Region,
             waiting : SUBSET Region, classifications : SUBSET Object]

LEMMA FirstType ==
    ASSUME TypeOK, output_frames # <<>>
    PROVE  /\ Head(output_frames) = First /\ First \in InFlight
           /\ First.frame \in Frame /\ First.frame.num \in Source
           /\ 1 \in DOMAIN output_frames
<1>1. output_frames \in Seq(InFlight)
  BY DEF TypeOK, InFlight
<1>2. First \in InFlight /\ Head(output_frames) = First /\ 1 \in DOMAIN output_frames
  BY <1>1 DEF First
<1>. QED
  BY <1>2 DEF InFlight, Frame

\* A result is recorded in the entry of its object, or in a new one.
LEMMA UpdateEffect ==
    ASSUME TypeOK, NEW o \in Object, UpdateROIParams(o)
    PROVE  /\ CacheOK' /\ output_frames # <<>>
           /\ \/ /\ o \in Known /\ Only(o, Update(MarkOf(o), First.frame.num))
                 /\ current_num_frame' = current_num_frame
              \/ /\ o \notin Known /\ Only(o, Update(frame_num, First.frame.num))
                 /\ current_num_frame' = frame_num
<1> DEFINE num == First.frame.num
<1>1. CacheOK /\ output_frames # <<>>
  BY CacheType DEF UpdateROIParams, Complete
<1>2. num = Head(output_frames).frame.num /\ num \in Source
  BY <1>1, FirstType
<1>. HIDE DEF num
<1>3. o \in Known <=> LRU!count(history, o)
  BY DEF Known
<1>4. CASE o \in Known
  <2>1. Entry(o) = Entries[o] /\ Entries[o] \in ROIClassificationHistory
    BY <1>1, <1>4, EntriesType DEF Entry
  <2>2. /\ history' = LRU!set(history, o, [Entries[o] EXCEPT !.result = num])
        /\ current_num_frame' = current_num_frame /\ evicted' = evicted
    BY <1>2, <1>3, <1>4, <2>1 DEF UpdateROIParams
  <2>3. [Entries[o] EXCEPT !.result = num] = Update(MarkOf(o), num)
    BY <2>1 DEF ROIClassificationHistory, Update, MarkOf
  <2>4. Update(MarkOf(o), num) \in ROIClassificationHistory
    BY <1>2, <2>1 DEF ROIClassificationHistory, Update, MarkOf
  <2>. QED
    BY <1>1, <1>3, <1>4, <2>2, <2>3, <2>4, SetOnly DEF num
<1>5. CASE o \notin Known
  <2>1. /\ history' = LRU!put(history, o, Update(frame_num, num))
        /\ current_num_frame' = frame_num
        /\ evicted' = evicted \cup LRU!Dropped(history, o)
    BY <1>2, <1>3, <1>5 DEF UpdateROIParams, Update
  <2>2. Update(frame_num, num) \in ROIClassificationHistory
    BY <1>2 DEF ROIClassificationHistory, Update, TypeOK
  <2>. QED
    BY <1>1, <1>5, <2>1, <2>2, PutOnly DEF num
<1>. QED
  BY <1>4, <1>5

\* What a frame leaves with: its own labels, or those of the history.
LEMMA PushEffect ==
    ASSUME TypeOK, NEW f \in Frame, NEW inferred, Push(f, inferred), evicted' = evicted
    PROVE  /\ CacheOK' /\ Kept /\ pushed' = f
           /\ label' = [o \in Object |->
                           IF o \in inferred THEN f.num
                           ELSE IF o \in ToSet(f.regions)
                             THEN IF o \in Known THEN ResultOf(o) ELSE NULL
                             ELSE label[o]]
<1>1. CacheOK /\ f.regions \in Regions
  BY CacheType DEF Frame
<1>2. f.regions \in Seq(Region)
  BY <1>1, RegionsFacts
<1>3. Same(history, history')
  BY <1>1, <1>2, FilledFacts DEF Push, CacheOK
<1>4. \A o \in Object : /\ o \in Known <=> LRU!count(history, o)
                        /\ o \in Known => Entry(o).result = ResultOf(o)
  BY DEF Known, Entries, ResultOf
<1>. QED
  BY <1>1, <1>3, <1>4, SameKept DEF Push

-----------------------------------------------------------------------------
(* What the actions do to the frames that wait *)

\* The same frames wait, for the same images.
SameFrames ==
    /\ output_frames' \in Seq(InFlight) /\ Len(output_frames') = Len(output_frames)
    /\ \A i \in 1..Len(output_frames) :
          /\ output_frames'[i].frame = output_frames[i].frame
          /\ output_frames'[i].inferred = output_frames[i].inferred

LEMMA QueueType ==
    ASSUME TypeOK
    PROVE  /\ output_frames \in Seq(InFlight) /\ Len(output_frames) \in Nat
           /\ DOMAIN output_frames = 1..Len(output_frames)
           /\ \A i \in 1..Len(output_frames) :
                 /\ output_frames[i] \in InFlight
                 /\ output_frames[i].frame \in Frame
                 /\ output_frames[i].frame.num \in Nat
<1>1. output_frames \in Seq(InFlight)
  BY DEF TypeOK, InFlight
<1>2. \A f \in InFlight : f.frame \in Frame /\ f.frame.num \in Nat
  BY IntervalAssumption DEF InFlight, Frame, Source
<1>. QED
  BY <1>1, <1>2

LEMMA CompletionQueue ==
    ASSUME TypeOK, NEW k \in DOMAIN output_frames, NEW o \in Region, CompletionCallback(k, o)
    PROVE  /\ SameFrames
           /\ \A i \in 1..Len(output_frames) :
                 LET f == output_frames[i]
                     g == output_frames'[i]
                 IN /\ (f.waiting \cup f.classifications) \cap Object
                          \subseteq g.waiting \cup g.classifications
                    /\ g.waiting \cup g.classifications \subseteq f.waiting \cup f.classifications
<1> DEFINE f == output_frames[k]
           g == [f EXCEPT !.waiting = @ \ {o},
                          !.classifications = @ \cup ({o} \ {Untracked})]
<1>1. /\ output_frames \in Seq(InFlight) /\ Len(output_frames) \in Nat
      /\ k \in 1..Len(output_frames) /\ f \in InFlight
  BY QueueType
<1>2. output_frames' = [output_frames EXCEPT ![k] = g]
  BY <1>1 DEF CompletionCallback, InFlight
<1>3. o \in f.waiting
  BY DEF CompletionCallback
<1>4. /\ g \in InFlight /\ g.frame = f.frame /\ g.inferred = f.inferred
      /\ g.waiting = f.waiting \ {o}
      /\ g.classifications = f.classifications \cup ({o} \ {Untracked})
  BY <1>1 DEF InFlight, Region
<1>. HIDE DEF g
<1>5. /\ output_frames' \in Seq(InFlight) /\ Len(output_frames') = Len(output_frames)
      /\ \A i \in 1..Len(output_frames) :
            output_frames'[i] = IF i = k THEN g ELSE output_frames[i]
  BY <1>1, <1>2, <1>4
<1>6. Untracked \notin Object
  BY ObjectAssumption
<1>. QED
  BY <1>3, <1>4, <1>5, <1>6 DEF SameFrames

LEMMA UpdateQueue ==
    ASSUME TypeOK, NEW o \in Object, UpdateROIParams(o)
    PROVE  /\ SameFrames /\ output_frames # <<>>
           /\ o \in First.classifications /\ First.waiting = {}
           /\ First'.waiting = First.waiting
           /\ First'.classifications = First.classifications \ {o}
           /\ \A i \in 1..Len(output_frames) :
                 i # 1 => output_frames'[i] = output_frames[i]
<1> DEFINE f == output_frames[1]
           g == [f EXCEPT !.classifications = @ \ {o}]
<1>1. /\ output_frames # <<>> /\ Head(output_frames).waiting = {}
      /\ o \in Head(output_frames).classifications
  BY DEF UpdateROIParams, Complete
<1>2. /\ output_frames \in Seq(InFlight) /\ Len(output_frames) \in Nat
      /\ 1 \in 1..Len(output_frames) /\ f \in InFlight /\ Head(output_frames) = f
  BY <1>1, QueueType
<1>3. output_frames' = [output_frames EXCEPT ![1] = g]
  BY <1>2 DEF UpdateROIParams, InFlight
<1>4. /\ g \in InFlight /\ g.frame = f.frame /\ g.inferred = f.inferred
      /\ g.waiting = f.waiting /\ g.classifications = f.classifications \ {o}
  BY <1>2 DEF InFlight
<1>. HIDE DEF g
<1>5. /\ output_frames' \in Seq(InFlight) /\ Len(output_frames') = Len(output_frames)
      /\ \A i \in 1..Len(output_frames) :
            output_frames'[i] = IF i = 1 THEN g ELSE output_frames[i]
  BY <1>2, <1>3, <1>4
<1>. QED
  BY <1>1, <1>2, <1>4, <1>5 DEF SameFrames, First

\* A frame joins at the end, unless it has nothing to wait for.
Joined == [frame |-> frame, inferred |-> metas, waiting |-> metas, classifications |-> {}]

LEMMA EnqueueQueue ==
    ASSUME TypeOK, PcInv, Enqueue
    PROVE  \/ /\ pc' = "pass" /\ metas = {} /\ output_frames = <<>>
              /\ output_frames' = output_frames
           \/ /\ pc' = "idle" /\ Joined \in InFlight
              /\ output_frames' \in Seq(InFlight)
              /\ Len(output_frames') = Len(output_frames) + 1
              /\ \A i \in 1..Len(output_frames) : output_frames'[i] = output_frames[i]
              /\ output_frames'[Len(output_frames) + 1] = Joined
<1>1. CASE metas = {} /\ output_frames = <<>>
  BY <1>1 DEF Enqueue
<1>2. CASE ~(metas = {} /\ output_frames = <<>>)
  <2>1. pc' = "idle" /\ output_frames' = Append(output_frames, Joined)
    BY <1>2 DEF Enqueue, Joined
  <2>2. Joined \in InFlight
    BY DEF TypeOK, PcInv, Enqueue, Joined, InFlight
  <2>. QED
    BY <2>1, <2>2, QueueType
<1>. QED
  BY <1>1, <1>2

LEMMA PushQueue ==
    ASSUME TypeOK, PushFront
    PROVE  /\ output_frames # <<>> /\ 1 \in 1..Len(output_frames)
           /\ First.waiting = {} /\ First.classifications = {}
           /\ Push(First.frame, First.inferred)
           /\ output_frames' \in Seq(InFlight)
           /\ Len(output_frames') = Len(output_frames) - 1
           /\ \A i \in 1..(Len(output_frames) - 1) : output_frames'[i] = output_frames[i + 1]
<1>1. output_frames # <<>> /\ Head(output_frames).waiting = {}
  BY DEF PushFront, Complete
<1>. QED
  BY <1>1, QueueType DEF PushFront, First

-----------------------------------------------------------------------------
(* Types and the streaming thread *)

ThreadType == /\ frame_num \in Source
              /\ pc \in {"idle", "filter", "enqueue", "pass"}
              /\ frame \in Frame \cup {NULL}
              /\ todo \in Regions
              /\ metas \subseteq Region

OtherTypes == /\ pushing \in BOOLEAN
              /\ current_num_frame \in Source
              /\ pushed \in Frame \cup {NULL}
              /\ label \in [Object -> Source \cup {NULL}]
              /\ classified \in [Object -> SUBSET Source]

LEMMA TypeParts ==
    TypeOK <=> /\ ThreadType /\ output_frames \in Seq(InFlight)
               /\ CacheOK /\ OtherTypes
BY DEF TypeOK, ThreadType, OtherTypes, InFlight, CacheOK, Cache, ListEntry

LEMMA NoRegions == <<>> \in Regions /\ ToSet(<<>>) = {}
<1>1. <<>> \in [1..0 -> Region] /\ 0 \in 0..MaxRegions /\ \A i \in 1..0 : FALSE
  BY IntervalAssumption
<1>. QED
  BY <1>1 DEF Regions, ToSet

LEMMA InitType == Init => TypeOK /\ PcInv
<1>1. 0 \in Source /\ 0 <= CLASSIFICATION_HISTORY_SIZE
  BY SizeAssumption, IntervalAssumption DEF Source
<1>2. SUFFICES ASSUME Init PROVE TypeOK /\ PcInv
  OBVIOUS
<1>3. ThreadType /\ PcInv
  BY <1>1, <1>2, NoRegions DEF Init, ThreadType, PcInv
<1>4. output_frames \in Seq(InFlight) /\ CacheOK
  BY <1>1, <1>2 DEF Init, CacheOK, Cache
<1>5. OtherTypes
  BY <1>1, <1>2 DEF Init, OtherTypes
<1>. QED
  BY <1>3, <1>4, <1>5, TypeParts

LEMMA TypeStep ==
    ASSUME TypeOK, PcInv, [Next]_vars
    PROVE  TypeOK' /\ PcInv'
<1>. USE DEF Region, Source
<1>1. MaxFrames \in Nat /\ SizeAssumption /\ NULL \notin Source /\ NULL \notin Frame
  BY IntervalAssumption, SizeAssumption, NullAssumption
<1>2. ThreadType /\ output_frames \in Seq(InFlight) /\ CacheOK /\ OtherTypes
  BY TypeParts
<1>3. SUFFICES /\ ThreadType' /\ output_frames' \in Seq(InFlight)
               /\ CacheOK' /\ OtherTypes' /\ PcInv'
  BY DEF TypeOK, ThreadType, OtherTypes, InFlight, CacheOK, Cache, ListEntry
<1>4. ASSUME NEW regions \in Regions, TransformFrameIp(regions)
      PROVE  /\ ThreadType' /\ output_frames' \in Seq(InFlight)
             /\ CacheOK' /\ OtherTypes' /\ PcInv'
  <2>1. frame' \in Frame
    BY <1>2, <1>4 DEF TransformFrameIp, Frame, ThreadType
  <2>2. metas' = {} /\ todo' = frame'.regions /\ frame'.num = frame_num
    BY <1>4 DEF TransformFrameIp, PcInv
  <2>. QED
    BY <1>2, <1>4, <2>1, <2>2
       DEF TransformFrameIp, historyVars, outputVars, ThreadType, CacheOK, OtherTypes, PcInv
<1>5. CASE FilterRegion
  <2>1. /\ CacheOK' /\ Asked \in Region /\ Asked \in ToSet(frame.regions)
        /\ metas' \in {metas, metas \cup {Asked}}
        /\ frame \in Frame /\ frame.num \in Source
        /\ todo' \in Regions /\ ToSet(todo') \subseteq ToSet(frame.regions)
    BY <1>5, FilterEffect, AskedFacts DEF Frame
  <2>. QED
    BY <1>2, <1>5, <2>1
       DEF FilterRegion, outputVars, ThreadType, OtherTypes, PcInv
<1>6. CASE CountFrame
  <2>1. frame \in Frame /\ frame.num = frame_num /\ frame_num < MaxFrames
    BY <1>6 DEF CountFrame, PcInv
  <2>2. metas' \subseteq metas
    BY <1>6 DEF CountFrame
  <2>3. classified' \in [Object -> SUBSET Source]
    BY <1>2, <1>6, <2>1 DEF CountFrame, ThreadType, OtherTypes
  <2>4. frame_num' = frame_num + 1 /\ frame_num' \in Source
    BY <1>1, <1>2, <1>6, <2>1 DEF CountFrame, ThreadType
  <2>. QED
    BY <1>2, <1>6, <2>1, <2>2, <2>3, <2>4
       DEF CountFrame, historyVars, outputVars, ThreadType, CacheOK, OtherTypes, PcInv
<1>7. CASE Enqueue
  <2>1. output_frames' \in Seq(InFlight)
    BY <1>2, <1>7, EnqueueQueue
  <2>2. pc = "enqueue" /\ pc' \in {"idle", "pass"} /\ metas' = {}
    BY <1>7 DEF Enqueue
  <2>3. pc' = "pass" => output_frames' = <<>>
    BY <1>7 DEF Enqueue
  <2>. QED
    BY <1>2, <1>7, <2>1, <2>2, <2>3
       DEF Enqueue, historyVars, outputVars, ThreadType, CacheOK, OtherTypes, PcInv
<1>8. ASSUME NEW f \in Frame, NEW inferred, Push(f, inferred), evicted' = evicted,
             current_num_frame' = current_num_frame, classified' = classified,
             pushing' = pushing
      PROVE  CacheOK' /\ OtherTypes'
  <2>1. /\ CacheOK' /\ pushed' = f
        /\ label' = [o \in Object |->
                        IF o \in inferred THEN f.num
                        ELSE IF o \in ToSet(f.regions)
                          THEN IF o \in Known THEN ResultOf(o) ELSE NULL
                          ELSE label[o]]
    BY <1>8, PushEffect
  <2>2. \A o \in Known : ResultOf(o) \in Source \cup {NULL}
    BY <1>2, EntriesType DEF ResultOf, ROIClassificationHistory
  <2>3. label' \in [Object -> Source \cup {NULL}]
    BY <1>2, <2>1, <2>2 DEF OtherTypes, Frame
  <2>. QED
    BY <1>2, <1>8, <2>1, <2>3 DEF OtherTypes
<1>9. CASE PassThrough
  <2>1. frame \in Frame
    BY <1>9 DEF PassThrough, PcInv
  <2>2. CacheOK' /\ OtherTypes'
    BY <1>8, <1>9, <2>1 DEF PassThrough
  <2>. QED
    BY <1>2, <1>9, <2>2 DEF PassThrough, ThreadType, PcInv
<1>10. ASSUME NEW k \in DOMAIN output_frames, NEW o \in Region, CompletionCallback(k, o)
       PROVE  /\ ThreadType' /\ output_frames' \in Seq(InFlight)
              /\ CacheOK' /\ OtherTypes' /\ PcInv'
  <2>1. SameFrames /\ pc # "pass"
    BY <1>10, CompletionQueue DEF PcInv
  <2>. QED
    BY <1>2, <1>10, <2>1
       DEF CompletionCallback, threadVars, historyVars, outputVars, SameFrames,
           ThreadType, CacheOK, OtherTypes, PcInv
<1>11. ASSUME NEW o \in Object, UpdateROIParams(o)
       PROVE  /\ ThreadType' /\ output_frames' \in Seq(InFlight)
              /\ CacheOK' /\ OtherTypes' /\ PcInv'
  <2>1. /\ SameFrames /\ CacheOK' /\ pc # "pass"
        /\ current_num_frame' \in {current_num_frame, frame_num}
    BY <1>11, UpdateQueue, UpdateEffect DEF PcInv
  <2>. QED
    BY <1>2, <1>11, <2>1
       DEF UpdateROIParams, threadVars, outputVars, SameFrames, ThreadType, OtherTypes, PcInv
<1>12. CASE PushFront
  <2>1. /\ First.frame \in Frame /\ output_frames' \in Seq(InFlight) /\ pc # "pass"
        /\ Push(First.frame, First.inferred)
    BY <1>12, PushQueue, FirstType DEF PcInv
  <2>2. CacheOK' /\ OtherTypes'
    BY <1>8, <1>12, <2>1 DEF PushFront
  <2>. QED
    BY <1>2, <1>12, <2>1, <2>2 DEF PushFront, threadVars, ThreadType, PcInv
<1>13. CASE CallbackReturn
  BY <1>2, <1>13
     DEF CallbackReturn, threadVars, historyVars, outputVars, ThreadType, CacheOK,
         OtherTypes, PcInv
<1>14. CASE UNCHANGED vars
  BY <1>2, <1>14
     DEF vars, threadVars, historyVars, outputVars, ThreadType, CacheOK, OtherTypes, PcInv
<1>. QED
  BY <1>4, <1>5, <1>6, <1>7, <1>9, <1>10, <1>11, <1>12, <1>13, <1>14 DEF Next

\* The types of the variables: the history never holds more than its size, nor
\* an object twice, though callbacks put objects back into it.
THEOREM TypeCorrect == Spec => []TypeOK
<1>1. TypeOK /\ PcInv /\ [Next]_vars => TypeOK' /\ PcInv'
  BY TypeStep
<1>. QED
  BY <1>1, InitType, PTL DEF Spec

-----------------------------------------------------------------------------
(* The order of frames, and their results *)

LEMMA NumberTypes ==
    ASSUME TypeOK
    PROVE  /\ frame_num \in Nat /\ current_num_frame \in Nat
           /\ frame # NULL => frame.num \in Nat
           /\ pushed # NULL => pushed \in Frame /\ pushed.num \in Nat
           /\ \A f \in Frame : f.num \in Nat /\ f # NULL
           /\ \A o \in Object : label[o] # NULL => label[o] \in Nat
           /\ \A o \in Object : classified[o] \subseteq Nat
           /\ \A o \in Known : /\ MarkOf(o) \in Nat
                               /\ ResultOf(o) # NULL => ResultOf(o) \in Nat
<1>1. Source \subseteq Nat /\ NULL \notin Frame
  BY IntervalAssumption, NullAssumption DEF Source
<1>2. \A o \in Known : Entries[o] \in ROIClassificationHistory
  BY CacheType, EntriesType
<1>. QED
  BY <1>1, <1>2 DEF TypeOK, Frame, ROIClassificationHistory, MarkOf, ResultOf

LEMMA OrderStep ==
    ASSUME TypeOK, PcInv, OrderInv, [Next]_vars
    PROVE  OrderInv'
<1>1. /\ frame_num \in Nat /\ \A f \in Frame : f.num \in Nat /\ f # NULL
      /\ pc # "idle" => frame \in Frame
      /\ pushed # NULL => pushed.num \in Nat
  BY NumberTypes DEF PcInv
<1>2. /\ Len(output_frames) \in Nat /\ DOMAIN output_frames = 1..Len(output_frames)
      /\ \A i \in 1..Len(output_frames) : output_frames[i].frame.num \in Nat
  BY QueueType
<1>3. output_frames' \in Seq(InFlight) => DOMAIN output_frames' = 1..Len(output_frames')
  OBVIOUS
<1>4. ASSUME NEW regions \in Regions, TransformFrameIp(regions) PROVE OrderInv'
  BY <1>4 DEF TransformFrameIp, outputVars, OrderInv
<1>5. CASE FilterRegion
  BY <1>5 DEF FilterRegion, outputVars, OrderInv
<1>6. CASE CountFrame
  <2>1. /\ frame.num = frame_num /\ frame_num' = frame_num + 1 /\ frame' = frame
        /\ output_frames' = output_frames /\ pushed' = pushed /\ pc' = "enqueue"
    BY <1>6 DEF CountFrame, outputVars, PcInv
  <2>. QED
    BY <1>1, <1>2, <2>1 DEF OrderInv
<1>7. CASE Enqueue
  <2>1. /\ pc = "enqueue" /\ frame_num' = frame_num /\ frame' = frame /\ pushed' = pushed
        /\ frame \in Frame /\ frame.num + 1 = frame_num
    BY <1>1, <1>7 DEF Enqueue, outputVars, PcInv
  <2>2. CASE pc' = "pass" /\ output_frames' = output_frames
    BY <1>1, <1>2, <2>1, <2>2 DEF OrderInv
  <2>3. CASE /\ pc' = "idle" /\ output_frames' \in Seq(InFlight)
             /\ Len(output_frames') = Len(output_frames) + 1
             /\ \A i \in 1..Len(output_frames) : output_frames'[i] = output_frames[i]
             /\ output_frames'[Len(output_frames) + 1] = Joined
    <3>1. /\ DOMAIN output_frames' = 1..(Len(output_frames) + 1)
          /\ output_frames'[Len(output_frames) + 1].frame = frame
      BY <1>3, <2>3 DEF Joined
    <3>2. \A i \in 1..(Len(output_frames) + 1) :
             i \in 1..Len(output_frames) \/ i = Len(output_frames) + 1
      BY <1>2
    <3>3. \A i \in 1..(Len(output_frames) + 1) :
             /\ output_frames'[i].frame.num < frame_num
             /\ pushed # NULL => pushed.num < output_frames'[i].frame.num
      BY <1>1, <1>2, <2>1, <2>3, <3>1, <3>2 DEF OrderInv
    <3>4. ASSUME NEW i \in 1..(Len(output_frames) + 1), NEW j \in 1..(Len(output_frames) + 1),
                 i < j
          PROVE  output_frames'[i].frame.num < output_frames'[j].frame.num
      <4>1. i \in 1..Len(output_frames)
        BY <1>2, <3>4
      <4>. QED
        BY <1>1, <1>2, <2>1, <2>3, <3>1, <3>2, <3>4, <4>1 DEF OrderInv
    <3>. QED
      BY <1>1, <2>1, <2>3, <3>1, <3>3, <3>4 DEF OrderInv
  <2>. QED
    BY <1>7, <2>2, <2>3, EnqueueQueue
<1>8. CASE PassThrough
  <2>1. /\ pc = "pass" /\ output_frames' = output_frames /\ output_frames = <<>>
        /\ frame_num' = frame_num /\ pushed' = frame /\ pc' = "idle"
        /\ frame.num + 1 = frame_num /\ frame \in Frame
    BY <1>1, <1>8 DEF PassThrough, Push, PcInv
  <2>. QED
    BY <1>1, <1>2, <2>1 DEF OrderInv
<1>9. CASE SameFrames /\ UNCHANGED <<threadVars, pushed>>
  BY <1>2, <1>3, <1>9 DEF SameFrames, threadVars, OrderInv
<1>10. ASSUME NEW k \in DOMAIN output_frames, NEW o \in Region, CompletionCallback(k, o)
       PROVE  OrderInv'
  BY <1>9, <1>10, CompletionQueue DEF CompletionCallback, outputVars
<1>11. ASSUME NEW o \in Object, UpdateROIParams(o) PROVE OrderInv'
  BY <1>9, <1>11, UpdateQueue DEF UpdateROIParams, outputVars
<1>12. CASE PushFront
  <2>1. /\ 1 \in 1..Len(output_frames)
        /\ output_frames' \in Seq(InFlight)
        /\ Len(output_frames') = Len(output_frames) - 1
        /\ \A i \in 1..(Len(output_frames) - 1) : output_frames'[i] = output_frames[i + 1]
        /\ pushed' = output_frames[1].frame /\ UNCHANGED threadVars
        /\ output_frames[1].frame \in Frame
    BY <1>12, PushQueue, FirstType DEF PushFront, Push, First
  <2>2. \A i \in 1..(Len(output_frames) - 1) :
           /\ i + 1 \in 1..Len(output_frames) /\ 1 < i + 1
           /\ \A j \in 1..(Len(output_frames) - 1) : i < j => i + 1 < j + 1
    BY <1>2
  <2>3. pc # "pass"
    BY <2>1, <1>2 DEF PcInv
  <2>. QED
    BY <1>1, <1>2, <1>3, <2>1, <2>2, <2>3 DEF OrderInv, threadVars
<1>13. CASE CallbackReturn \/ UNCHANGED vars
  BY <1>13 DEF CallbackReturn, vars, threadVars, outputVars, OrderInv
<1>. QED
  BY <1>4, <1>5, <1>6, <1>7, <1>8, <1>10, <1>11, <1>12, <1>13 DEF Next

LEMMA ResultsStep ==
    ASSUME TypeOK, PcInv, ResultsInv, [Next]_vars
    PROVE  ResultsInv'
<1>1. Len(output_frames) \in Nat /\ DOMAIN output_frames = 1..Len(output_frames)
  BY QueueType
<1>2. output_frames' \in Seq(InFlight) => DOMAIN output_frames' = 1..Len(output_frames')
  OBVIOUS
<1>3. CASE output_frames' = output_frames
  BY <1>3 DEF ResultsInv
<1>4. CASE Enqueue
  <2>1. CASE /\ output_frames' \in Seq(InFlight)
             /\ Len(output_frames') = Len(output_frames) + 1
             /\ \A i \in 1..Len(output_frames) : output_frames'[i] = output_frames[i]
             /\ output_frames'[Len(output_frames) + 1] = Joined
    <3>1. metas \subseteq ToSet(frame.regions)
      BY <1>4 DEF Enqueue, PcInv
    <3>2. \A i \in 1..(Len(output_frames) + 1) :
             i \in 1..Len(output_frames) \/ i = Len(output_frames) + 1
      BY <1>1
    <3>. QED
      BY <1>1, <1>2, <2>1, <3>1, <3>2 DEF ResultsInv, Joined
  <2>. QED
    BY <1>3, <1>4, <2>1, EnqueueQueue
<1>5. ASSUME NEW k \in DOMAIN output_frames, NEW o \in Region, CompletionCallback(k, o)
      PROVE  ResultsInv'
  BY <1>1, <1>2, <1>5, CompletionQueue DEF SameFrames, ResultsInv
<1>6. ASSUME NEW o \in Object, UpdateROIParams(o) PROVE ResultsInv'
  <2>1. /\ DOMAIN output_frames' = DOMAIN output_frames
        /\ output_frames'[1].waiting = output_frames[1].waiting
        /\ output_frames'[1].classifications \subseteq output_frames[1].classifications
    BY <1>1, <1>2, <1>6, UpdateQueue DEF SameFrames, First
  <2>2. \A i \in 1..Len(output_frames) :
           /\ i # 1 => output_frames'[i] = output_frames[i]
           /\ output_frames'[i].frame = output_frames[i].frame
           /\ output_frames'[i].inferred = output_frames[i].inferred
    BY <1>6, UpdateQueue DEF SameFrames
  <2>. QED
    BY <1>1, <2>1, <2>2 DEF ResultsInv
<1>7. CASE PushFront
  <2>1. /\ DOMAIN output_frames' = 1..(Len(output_frames) - 1)
        /\ \A i \in 1..(Len(output_frames) - 1) : output_frames'[i] = output_frames[i + 1]
    BY <1>2, <1>7, PushQueue
  <2>2. \A i \in 1..(Len(output_frames) - 1) : i + 1 \in 1..Len(output_frames) /\ i + 1 > 1
    BY <1>1
  <2>. QED
    BY <1>1, <2>1, <2>2 DEF ResultsInv
<1>8. [Next]_vars => \/ output_frames' = output_frames
                     \/ Enqueue
                     \/ \E k \in DOMAIN output_frames, o \in Region : CompletionCallback(k, o)
                     \/ \E o \in Object : UpdateROIParams(o)
                     \/ PushFront
  BY DEF Next, TransformFrameIp, FilterRegion, CountFrame, PassThrough, CallbackReturn, vars
<1>. QED
  BY <1>3, <1>4, <1>5, <1>6, <1>7, <1>8

-----------------------------------------------------------------------------
(* Marks *)

LEMMA MarksStep ==
    ASSUME TypeOK, PcInv, MarksInv, [Next]_vars
    PROVE  MarksInv'
<1>1. /\ frame_num \in Nat /\ current_num_frame \in Nat
      /\ \A o \in Known : MarkOf(o) \in Nat
      /\ Known \subseteq Object
  BY NumberTypes DEF Known
<1>2. ASSUME Kept, frame_num' \in {frame_num, frame_num + 1},
             current_num_frame' \in {current_num_frame, frame_num}
      PROVE  MarksInv'
  BY <1>1, <1>2 DEF MarksInv, Kept, MarkOf
<1>3. ASSUME NEW o \in Object, NEW e, Only(o, e), e.frame_of_last_update \in Nat,
             e.frame_of_last_update <= current_num_frame',
             frame_num' = frame_num, current_num_frame' \in {current_num_frame, frame_num}
      PROVE  MarksInv'
  <2>1. ASSUME NEW p \in Known' PROVE MarkOf(p)' <= current_num_frame'
    <3>1. CASE p = o
      BY <1>3, <3>1 DEF Only, MarkOf
    <3>2. CASE p # o
      <4>1. p \in Known /\ Entries'[p] = Entries[p]
        BY <1>3, <2>1, <3>2 DEF Only, Known
      <4>. QED
        BY <1>1, <1>3, <4>1 DEF MarksInv, MarkOf
    <3>. QED
      BY <3>1, <3>2
  <2>. QED
    BY <1>1, <1>3, <2>1 DEF MarksInv
<1>4. ASSUME NEW f \in Frame, NEW inferred, Push(f, inferred), evicted' = evicted,
             frame_num' = frame_num, current_num_frame' = current_num_frame
      PROVE  MarksInv'
  BY <1>2, <1>4, PushEffect
<1>5. CASE FilterRegion
  <2>1. /\ current_num_frame' = frame.num /\ frame.num = frame_num /\ frame_num' = frame_num
    BY <1>5, AskedFacts DEF FilterRegion
  <2>2. CASE Kept
    BY <1>2, <2>1, <2>2
  <2>3. ASSUME NEW r, Only(Asked, Update(frame.num, r)), Asked \in Object PROVE MarksInv'
    BY <1>1, <1>3, <2>1, <2>3 DEF Update
  <2>. QED
    BY <1>5, <2>2, <2>3, FilterEffect
<1>6. ASSUME NEW o \in Object, UpdateROIParams(o) PROVE MarksInv'
  <2>1. frame_num' = frame_num
    BY <1>6 DEF UpdateROIParams, threadVars
  <2>2. CASE /\ o \in Known /\ Only(o, Update(MarkOf(o), First.frame.num))
             /\ current_num_frame' = current_num_frame
    BY <1>1, <1>3, <2>1, <2>2 DEF Update, MarksInv
  <2>3. CASE /\ Only(o, Update(frame_num, First.frame.num))
             /\ current_num_frame' = frame_num
    BY <1>1, <1>3, <2>1, <2>3 DEF Update
  <2>. QED
    BY <1>6, <2>2, <2>3, UpdateEffect
<1>7. CASE PassThrough
  BY <1>4, <1>7 DEF PassThrough, PcInv
<1>8. CASE PushFront
  BY <1>4, <1>8, PushQueue, FirstType DEF PushFront, threadVars
<1>9. \/ FilterRegion
      \/ \E o \in Object : UpdateROIParams(o)
      \/ PassThrough
      \/ PushFront
      \/ /\ history' = history /\ evicted' = evicted
         /\ current_num_frame' = current_num_frame
         /\ frame_num' \in {frame_num, frame_num + 1}
  BY DEF Next, TransformFrameIp, CountFrame, Enqueue, CompletionCallback, CallbackReturn,
         vars, threadVars, historyVars
<1>. QED
  BY <1>2, <1>5, <1>6, <1>7, <1>8, <1>9, SameHistory

-----------------------------------------------------------------------------
(* Classifications *)

LEMMA InferredStep ==
    ASSUME TypeOK, PcInv, InferredInv, [Next]_vars
    PROVE  InferredInv'
<1>1. /\ Len(output_frames) \in Nat /\ DOMAIN output_frames = 1..Len(output_frames)
      /\ classified \in [Object -> SUBSET Source]
  BY QueueType DEF TypeOK
<1>2. output_frames' \in Seq(InFlight) => DOMAIN output_frames' = 1..Len(output_frames')
  OBVIOUS
<1>3. CASE CountFrame
  <2>1. /\ metas' \subseteq Region /\ output_frames' = output_frames /\ frame' = frame
        /\ \A o \in Object : classified[o] \subseteq classified'[o]
        /\ \A o \in metas' \cap Object : frame.num \in classified'[o]
    BY <1>1, <1>3 DEF CountFrame, TypeOK
  <2>. QED
    BY <1>1, <2>1 DEF InferredInv
<1>4. CASE Enqueue
  <2>1. classified' = classified /\ pc = "enqueue" /\ pc' \in {"idle", "pass"}
    BY <1>4 DEF Enqueue
  <2>2. CASE output_frames' = output_frames
    BY <2>1, <2>2 DEF InferredInv
  <2>3. CASE /\ output_frames' \in Seq(InFlight)
             /\ Len(output_frames') = Len(output_frames) + 1
             /\ \A i \in 1..Len(output_frames) : output_frames'[i] = output_frames[i]
             /\ output_frames'[Len(output_frames) + 1] = Joined
    <3>1. \A i \in 1..(Len(output_frames) + 1) :
             i \in 1..Len(output_frames) \/ i = Len(output_frames) + 1
      BY <1>1
    <3>2. ASSUME NEW i \in 1..(Len(output_frames) + 1),
                 NEW o \in output_frames'[i].inferred \cap Object
          PROVE  output_frames'[i].frame.num \in classified[o]
      BY <1>1, <2>1, <2>3, <3>1 DEF InferredInv, Joined
    <3>. QED
      BY <1>2, <2>1, <2>3, <3>2 DEF InferredInv
  <2>. QED
    BY <1>4, <2>2, <2>3, EnqueueQueue
<1>5. CASE SameFrames /\ UNCHANGED <<pc, frame, metas, classified>>
  BY <1>1, <1>2, <1>5 DEF SameFrames, InferredInv
<1>6. ASSUME NEW k \in DOMAIN output_frames, NEW o \in Region, CompletionCallback(k, o)
      PROVE  InferredInv'
  BY <1>5, <1>6, CompletionQueue DEF CompletionCallback, threadVars
<1>7. ASSUME NEW o \in Object, UpdateROIParams(o) PROVE InferredInv'
  BY <1>5, <1>7, UpdateQueue DEF UpdateROIParams, threadVars
<1>8. CASE PushFront
  <2>1. /\ DOMAIN output_frames' = 1..(Len(output_frames) - 1)
        /\ \A i \in 1..(Len(output_frames) - 1) : output_frames'[i] = output_frames[i + 1]
    BY <1>2, <1>8, PushQueue
  <2>2. \A i \in 1..(Len(output_frames) - 1) : i + 1 \in 1..Len(output_frames)
    BY <1>1
  <2>3. UNCHANGED <<pc, frame, metas, classified>>
    BY <1>8 DEF PushFront, threadVars
  <2>. QED
    BY <1>1, <2>1, <2>2, <2>3 DEF InferredInv
<1>9. CASE \/ \E regions \in Regions : TransformFrameIp(regions)
           \/ FilterRegion \/ PassThrough \/ CallbackReturn \/ UNCHANGED vars
  <2>1. /\ output_frames' = output_frames /\ classified' = classified
        /\ pc' = "enqueue" => UNCHANGED <<pc, frame, metas>>
    BY <1>9
       DEF TransformFrameIp, FilterRegion, PassThrough, CallbackReturn, vars, threadVars
  <2>. QED
    BY <2>1 DEF InferredInv
<1>. QED
  BY <1>3, <1>4, <1>6, <1>7, <1>8, <1>9 DEF Next

LEMMA ClassifiedStep ==
    ASSUME TypeOK, PcInv, ResultsInv, MarksInv, InferredInv, ClassifiedInv, [Next]_vars
    PROVE  ClassifiedInv'
<1>1. /\ frame_num \in Nat /\ current_num_frame \in Nat
      /\ \A o \in Object : classified[o] \subseteq Nat
      /\ \A o \in Known : MarkOf(o) \in Nat
      /\ Known \subseteq Object
      /\ reclassify_interval \in Nat
  BY NumberTypes, IntervalAssumption DEF Known
<1>2. ASSUME Kept, frame_num' = frame_num, classified' = classified,
             pc' = "filter" => /\ pc = "filter" /\ frame' = frame
                               /\ metas' \cap Object = metas \cap Object
      PROVE  ClassifiedInv'
  BY <1>2 DEF ClassifiedInv, Kept, MarkOf
<1>3. ASSUME NEW o \in Object, NEW e, Only(o, e),
             frame_num' = frame_num, classified' = classified,
             UNCHANGED <<pc, frame>>,
             metas' \cap Object \subseteq metas \cup {o},
             o \notin evicted' =>
                /\ e.frame_of_last_update \in Nat
                /\ \A j \in classified[o] : e.frame_of_last_update >= j /\ j < frame_num
                /\ pc = "filter" /\ o \in metas' =>
                      /\ e.frame_of_last_update = frame.num
                      /\ \A j \in classified[o] :
                            /\ reclassify_interval # 0
                            /\ frame.num - j >= reclassify_interval
      PROVE  ClassifiedInv'
  <2>1. ASSUME NEW p \in (Object \ evicted') \ {o}, p \in Known
        PROVE  p \notin evicted /\ p \in Known' /\ MarkOf(p)' = MarkOf(p)
    BY <1>3, <2>1 DEF Only, MarkOf
  <2>2. evicted \subseteq evicted' /\ o \in Known' /\ MarkOf(o)' = e.frame_of_last_update
    BY <1>3 DEF Only, MarkOf
  <2>3. ASSUME NEW p \in Object \ evicted', NEW j \in classified[p]
        PROVE  p \in Known' /\ MarkOf(p)' >= j /\ j < frame_num
    BY <1>3, <2>1, <2>2 DEF ClassifiedInv
  <2>4. ASSUME pc = "filter", NEW p \in (metas' \cap Object) \ evicted'
        PROVE  /\ p \in Known' /\ MarkOf(p)' = frame.num
               /\ \A j \in classified[p] :
                     reclassify_interval # 0 /\ frame.num - j >= reclassify_interval
    BY <1>3, <2>1, <2>2, <2>4 DEF ClassifiedInv
  <2>. QED
    BY <1>3, <2>3, <2>4 DEF ClassifiedInv
<1>4. ASSUME NEW regions \in Regions, TransformFrameIp(regions) PROVE ClassifiedInv'
  <2>1. Kept /\ metas' = {} /\ frame_num' = frame_num /\ classified' = classified
    BY <1>4, SameHistory DEF TransformFrameIp, historyVars, PcInv
  <2>. QED
    BY <2>1 DEF ClassifiedInv, Kept, MarkOf
<1>5. CASE FilterRegion
  <2>1. /\ pc = "filter" /\ frame.num = frame_num
        /\ UNCHANGED <<frame_num, pc, frame, classified>>
    BY <1>5, AskedFacts DEF FilterRegion
  <2>2. CASE Kept /\ metas' \in {metas, metas \cup {Untracked}}
    <3>1. metas' \cap Object = metas \cap Object
      BY <2>2, ObjectAssumption
    <3>. QED
      BY <1>2, <2>1, <2>2, <3>1
  <2>3. ASSUME NEW r, Only(Asked, Update(frame.num, r)), Asked \in Object,
               metas' = metas \cup {Asked},
               Asked \in Known => /\ reclassify_interval # 0
                                  /\ frame.num - MarkOf(Asked) >= reclassify_interval
        PROVE  ClassifiedInv'
    <3>1. evicted \subseteq evicted'
      BY <2>3 DEF Only
    <3>2. ASSUME Asked \notin evicted', NEW j \in classified[Asked]
          PROVE  /\ frame.num >= j /\ j < frame_num
                 /\ reclassify_interval # 0 /\ frame.num - j >= reclassify_interval
      <4>1. Asked \in Known /\ MarkOf(Asked) >= j /\ j < frame_num /\ j \in Nat
        BY <1>1, <2>3, <3>1, <3>2 DEF ClassifiedInv
      <4>. QED
        BY <1>1, <2>1, <2>3, <4>1
    <3>. QED
      BY <1>1, <1>3, <2>1, <2>3, <3>2 DEF Update
  <2>. QED
    BY <1>5, <2>2, <2>3, FilterEffect
<1>6. CASE CountFrame
  <2>1. /\ pc = "filter" /\ frame.num = frame_num /\ frame_num' = frame_num + 1
        /\ pc' = "enqueue" /\ Kept /\ metas' \subseteq metas
        /\ \A o \in Object : classified'[o] = IF o \in metas' THEN classified[o] \cup {frame.num}
                                              ELSE classified[o]
    BY <1>6, SameHistory DEF CountFrame, historyVars, PcInv, TypeOK
  <2>2. ASSUME NEW o \in Object \ evicted', NEW j \in classified'[o]
        PROVE  o \in Known' /\ MarkOf(o)' >= j /\ j < frame_num'
    <3>1. /\ o \in Object \ evicted
          /\ j \in classified[o] \/ (o \in metas /\ j = frame.num)
      BY <2>1, <2>2 DEF Kept
    <3>2. CASE j \in classified[o]
      <4>1. o \in Known /\ MarkOf(o) >= j /\ j < frame_num /\ j \in Nat
        BY <1>1, <3>1, <3>2 DEF ClassifiedInv
      <4>. QED
        BY <1>1, <2>1, <4>1 DEF Kept, MarkOf
    <3>3. CASE o \in metas /\ j = frame.num
      <4>1. o \in Known /\ MarkOf(o) = frame.num
        BY <2>1, <3>1, <3>3 DEF ClassifiedInv
      <4>. QED
        BY <1>1, <2>1, <3>3, <4>1 DEF Kept, MarkOf
    <3>. QED
      BY <3>1, <3>2, <3>3
  <2>. QED
    BY <2>1, <2>2 DEF ClassifiedInv
<1>7. CASE Enqueue \/ CallbackReturn \/ UNCHANGED vars
           \/ \E k \in DOMAIN output_frames, o \in Region : CompletionCallback(k, o)
  <2>1. /\ history' = history /\ evicted' = evicted /\ frame_num' = frame_num
        /\ classified' = classified
        /\ pc' = "filter" => UNCHANGED <<pc, frame, metas>>
    BY <1>7 DEF Enqueue, CallbackReturn, CompletionCallback, vars, threadVars, historyVars
  <2>. QED
    BY <1>2, <2>1, SameHistory
<1>8. CASE PassThrough
  <2>1. Kept
    BY <1>8, PushEffect DEF PassThrough, PcInv
  <2>. QED
    BY <1>2, <1>8, <2>1 DEF PassThrough
<1>9. CASE PushFront
  <2>1. Kept
    BY <1>9, PushEffect, PushQueue, FirstType DEF PushFront
  <2>. QED
    BY <1>2, <1>9, <2>1 DEF PushFront, threadVars
<1>10. ASSUME NEW o \in Object, UpdateROIParams(o) PROVE ClassifiedInv'
  <2>1. UNCHANGED <<frame_num, pc, frame, metas, classified>>
    BY <1>10 DEF UpdateROIParams, threadVars
  <2>2. CASE o \in Known /\ Only(o, Update(MarkOf(o), First.frame.num))
    <3>1. evicted \subseteq evicted'
      BY <2>2 DEF Only
    <3>2. \A j \in classified[o] : o \notin evicted' => MarkOf(o) >= j /\ j < frame_num
      BY <3>1 DEF ClassifiedInv
    <3>3. pc = "filter" /\ o \in metas' /\ o \notin evicted' =>
             /\ MarkOf(o) = frame.num
             /\ \A j \in classified[o] :
                   reclassify_interval # 0 /\ frame.num - j >= reclassify_interval
      BY <2>1, <3>1 DEF ClassifiedInv
    <3>. QED
      BY <1>1, <1>3, <2>1, <2>2, <3>2, <3>3 DEF Update
  <2>3. CASE o \notin Known /\ Only(o, Update(frame_num, First.frame.num))
    <3>1. evicted \subseteq evicted'
      BY <2>3 DEF Only
    <3>2. o \in First.inferred /\ 1 \in DOMAIN output_frames
      BY <1>10, UpdateQueue, FirstType DEF ResultsInv, First
    <3>3. First.frame.num \in classified[o]
      BY <3>2 DEF InferredInv, First
    <3>4. o \in evicted'
      BY <2>3, <3>1, <3>3 DEF ClassifiedInv
    <3>. QED
      BY <1>3, <2>1, <2>3, <3>4
  <2>. QED
    BY <1>10, <2>2, <2>3, UpdateEffect
<1>. QED
  BY <1>4, <1>5, <1>6, <1>7, <1>8, <1>9, <1>10 DEF Next

-----------------------------------------------------------------------------
(* Results and labels *)

\* The frames that leave with the next push.
LEMMA PushedNext ==
    ASSUME TypeOK, PcInv, OrderInv, PassThrough \/ PushFront
    PROVE  /\ pushed' \in Frame /\ pushed' # NULL /\ pushed'.num \in Nat /\ Kept
           /\ pushed # NULL => pushed.num \in Nat /\ pushed.num < pushed'.num
           /\ output_frames # <<>> => pushed' = First.frame
<1>1. \A f \in Frame : f.num \in Nat /\ f # NULL
  BY NumberTypes
<1>2. CASE PassThrough
  <2>1. /\ pc = "pass" /\ frame \in Frame /\ output_frames = <<>>
        /\ Push(frame, {}) /\ evicted' = evicted
    BY <1>2 DEF PassThrough, PcInv
  <2>2. Kept /\ pushed' = frame
    BY <2>1, PushEffect
  <2>. QED
    BY <1>1, <2>1, <2>2, NumberTypes DEF OrderInv
<1>3. CASE PushFront
  <2>1. /\ First.frame \in Frame /\ Push(First.frame, First.inferred)
        /\ 1 \in DOMAIN output_frames /\ evicted' = evicted
    BY <1>3, PushQueue, FirstType, QueueType DEF PushFront
  <2>2. Kept /\ pushed' = First.frame
    BY <2>1, PushEffect
  <2>. QED
    BY <1>1, <2>1, <2>2, NumberTypes DEF OrderInv, First
<1>. QED
  BY <1>2, <1>3

\* The objects of the first frame whose results are recorded.
Recorded == (First.inferred \cap Object) \ (First.waiting \cup First.classifications)

\* What a step of the filter does to the results, whether it marks or not.
LEMMA FilterResults ==
    ASSUME TypeOK, PcInv, FilterRegion
    PROVE  /\ evicted \subseteq evicted'
           /\ \A p \in Known' : /\ ResultOf(p)' # NULL =>
                                      p \in Known /\ ResultOf(p)' = ResultOf(p)
           /\ \A p \in Known \ evicted' : p \in Known' /\ ResultOf(p)' = ResultOf(p)
<1>1. Known' \subseteq Object /\ Known \subseteq Object
  BY DEF Known
<1>2. CASE Kept
  BY <1>2 DEF Kept, ResultOf
<1>3. ASSUME NEW o \in Object,
             Only(o, Update(frame.num, IF o \in Known THEN ResultOf(o) ELSE NULL))
      PROVE  /\ evicted \subseteq evicted'
             /\ \A p \in Known' : /\ ResultOf(p)' # NULL =>
                                        p \in Known /\ ResultOf(p)' = ResultOf(p)
             /\ \A p \in Known \ evicted' : p \in Known' /\ ResultOf(p)' = ResultOf(p)
  <2>1. /\ evicted \subseteq evicted' /\ o \in Known'
        /\ ResultOf(o)' = IF o \in Known THEN ResultOf(o) ELSE NULL
        /\ \A p \in Object \ {o} :
              /\ p \in Known' => p \in Known /\ ResultOf(p)' = ResultOf(p)
              /\ p \in Known \ evicted' => p \in Known'
    BY <1>3 DEF Only, Update, ResultOf
  <2>. QED
    BY <1>1, <2>1
<1>. QED
  BY <1>2, <1>3, FilterEffect

LEMMA RecordedStep ==
    ASSUME TypeOK, PcInv, OrderInv, ResultsInv, RecordedInv, [Next]_vars
    PROVE  RecordedInv'
<1>1. /\ Known \subseteq Object /\ Known' \subseteq Object
      /\ Len(output_frames) \in Nat
      /\ \A o \in Known : ResultOf(o) # NULL => ResultOf(o) \in Nat
  BY QueueType, NumberTypes DEF Known
<1>2. output_frames # <<>> => Len(output_frames) # 0 /\ 1 \in 1..Len(output_frames)
  BY <1>1, FirstType, QueueType
<1>3. ASSUME Kept, pushed' = pushed,
             output_frames # <<>> => output_frames' # <<>> /\ First'.frame = First.frame,
             output_frames' # <<>> /\ output_frames # <<>> => Recorded' \subseteq Recorded,
             output_frames = <<>> /\ output_frames' # <<>> => Recorded' = {}
      PROVE  RecordedInv'
  BY <1>1, <1>3 DEF RecordedInv, Recorded, Kept, ResultOf
<1>4. CASE FilterRegion
  <2>1. output_frames' = output_frames /\ pushed' = pushed
    BY <1>4 DEF FilterRegion, outputVars
  <2>2. First' = First /\ Recorded' = Recorded
    BY <2>1 DEF First, Recorded
  <2>. QED
    BY <1>1, <1>4, <2>1, <2>2, FilterResults DEF RecordedInv, Recorded
<1>5. CASE /\ history' = history /\ evicted' = evicted
           /\ output_frames' = output_frames /\ pushed' = pushed
  BY <1>3, <1>5, SameHistory DEF First, Recorded
<1>6. CASE Enqueue
  <2>1. history' = history /\ evicted' = evicted /\ pushed' = pushed
    BY <1>6 DEF Enqueue, historyVars, outputVars
  <2>2. CASE /\ output_frames' \in Seq(InFlight)
             /\ Len(output_frames') = Len(output_frames) + 1
             /\ \A i \in 1..Len(output_frames) : output_frames'[i] = output_frames[i]
             /\ output_frames'[Len(output_frames) + 1] = Joined
    <3>1. output_frames' # <<>>
      BY <1>1, <2>2
    <3>2. output_frames # <<>> => First' = First
      BY <1>2, <2>2 DEF First
    <3>3. output_frames = <<>> => First' = Joined
      BY <2>2 DEF First
    <3>4. output_frames = <<>> => Recorded' = {}
      BY <3>3 DEF Recorded, Joined
    <3>. QED
      BY <1>3, <2>1, <3>1, <3>2, <3>4, SameHistory DEF Recorded
  <2>. QED
    BY <1>5, <1>6, <2>1, <2>2, EnqueueQueue
<1>7. ASSUME NEW k \in DOMAIN output_frames, NEW o \in Region, CompletionCallback(k, o)
      PROVE  RecordedInv'
  <2>1. /\ SameFrames /\ history' = history /\ evicted' = evicted /\ pushed' = pushed
        /\ output_frames # <<>>
    <3>1. Len(output_frames) # 0
      BY <1>1, <1>7, QueueType
    <3>2. SameFrames
      BY <1>7, CompletionQueue
    <3>. QED
      BY <1>7, <3>1, <3>2 DEF CompletionCallback, historyVars, outputVars
  <2>2. 1 \in 1..Len(output_frames) /\ output_frames' # <<>>
    BY <1>2, <2>1 DEF SameFrames
  <2>3. First'.frame = First.frame /\ First'.inferred = First.inferred
    BY <2>1, <2>2 DEF SameFrames, First
  <2>4. (First.waiting \cup First.classifications) \cap Object
           \subseteq First'.waiting \cup First'.classifications
    BY <1>7, <2>2, CompletionQueue DEF First
  <2>5. Recorded' \subseteq Recorded
    BY <2>3, <2>4 DEF Recorded
  <2>. QED
    BY <1>3, <2>1, <2>2, <2>3, <2>5, SameHistory
<1>8. ASSUME NEW o \in Object, UpdateROIParams(o) PROVE RecordedInv'
  <2>1. /\ SameFrames /\ output_frames # <<>> /\ pushed' = pushed
        /\ First'.waiting = First.waiting
        /\ First'.classifications = First.classifications \ {o}
        /\ 1 \in 1..Len(output_frames)
    BY <1>2, <1>8, UpdateQueue DEF UpdateROIParams, outputVars
  <2>2. First'.frame = First.frame /\ First'.inferred = First.inferred
    BY <2>1 DEF SameFrames, First
  <2>3. Recorded' \subseteq Recorded \cup {o}
    BY <2>1, <2>2 DEF Recorded
  <2>4. PICK num : Only(o, Update(num, First.frame.num))
    BY <1>8, UpdateEffect
  <2>5. /\ evicted \subseteq evicted' /\ o \in Known'
        /\ ResultOf(o)' = First.frame.num
        /\ \A p \in Object \ {o} :
              /\ p \in Known' => p \in Known /\ ResultOf(p)' = ResultOf(p)
              /\ p \in Known \ evicted' => p \in Known'
    BY <2>4 DEF Only, Update, ResultOf
  <2>6. output_frames' # <<>>
    BY <1>2, <2>1 DEF SameFrames
  <2>7. ASSUME NEW p \in Known', ResultOf(p)' # NULL
        PROVE  \/ pushed' # NULL /\ ResultOf(p)' <= pushed'.num
               \/ output_frames' # <<>> /\ ResultOf(p)' = First'.frame.num
    BY <1>1, <2>1, <2>2, <2>5, <2>6, <2>7 DEF RecordedInv
  <2>8. ASSUME NEW p \in Recorded'
        PROVE  /\ p \in Known' /\ ResultOf(p)' # NULL => ResultOf(p)' = First'.frame.num
               /\ p \notin evicted' => p \in Known' /\ ResultOf(p)' = First'.frame.num
    <3>1. p \in Object
      BY <2>8 DEF Recorded
    <3>. QED
      BY <2>1, <2>2, <2>3, <2>5, <2>8, <3>1 DEF RecordedInv, Recorded
  <2>. QED
    BY <2>7, <2>8 DEF RecordedInv, Recorded
<1>9. CASE PassThrough \/ PushFront
  <2>1. \A o \in Known' : ResultOf(o)' # NULL => ResultOf(o)' <= pushed'.num
    <3>1. SUFFICES ASSUME NEW o \in Known, ResultOf(o) # NULL
                   PROVE  ResultOf(o) <= pushed'.num
      BY <1>9, PushedNext DEF Kept, ResultOf
    <3>. QED
      BY <1>1, <1>9, <3>1, PushedNext DEF RecordedInv
  <2>2. output_frames' # <<>> => Recorded' = {}
    <3>1. CASE PassThrough
      BY <3>1 DEF PassThrough, PcInv
    <3>2. CASE PushFront /\ output_frames' # <<>>
      <4>1. /\ output_frames' \in Seq(InFlight)
            /\ Len(output_frames') = Len(output_frames) - 1
            /\ \A i \in 1..(Len(output_frames) - 1) : output_frames'[i] = output_frames[i + 1]
        BY <3>2, PushQueue
      <4>2. Len(output_frames) - 1 # 0
        BY <3>2, <4>1
      <4>3. 1 \in 1..(Len(output_frames) - 1) /\ 2 \in DOMAIN output_frames
        BY <1>1, <3>2, <4>2, PushQueue, QueueType
      <4>4. First' = output_frames[2]
        BY <4>1, <4>3 DEF First
      <4>. QED
        BY <4>3, <4>4 DEF ResultsInv, Recorded
    <3>. QED
      BY <1>9, <3>1, <3>2
  <2>. QED
    BY <1>9, <2>1, <2>2, PushedNext DEF RecordedInv, Recorded
<1>10. \/ FilterRegion \/ Enqueue \/ PassThrough \/ PushFront
       \/ \E k \in DOMAIN output_frames, o \in Region : CompletionCallback(k, o)
       \/ \E o \in Object : UpdateROIParams(o)
       \/ /\ history' = history /\ evicted' = evicted
          /\ output_frames' = output_frames /\ pushed' = pushed
  BY DEF Next, TransformFrameIp, CountFrame, CallbackReturn, vars, historyVars, outputVars
<1>. QED
  BY <1>4, <1>5, <1>6, <1>7, <1>8, <1>9, <1>10

\* The labels of the frame that is pushed.
LEMMA PushedLabels ==
    ASSUME TypeOK, PcInv, RecordedInv, PassThrough \/ PushFront, NEW o \in Object
    PROVE  \/ /\ label'[o] = pushed'.num /\ PushFront /\ o \in First.inferred
              /\ o \in Known /\ ResultOf(o) # NULL => ResultOf(o) = pushed'.num
           \/ /\ o \in ToSet(pushed'.regions) /\ o \in Known /\ label'[o] = ResultOf(o)
              /\ PushFront => o \notin First.inferred
           \/ /\ o \in ToSet(pushed'.regions) /\ o \notin Known /\ label'[o] = NULL
              /\ PushFront => o \notin First.inferred
           \/ o \notin ToSet(pushed'.regions) /\ label'[o] = label[o]
<1>1. CASE PassThrough
  <2>1. frame \in Frame /\ Push(frame, {}) /\ evicted' = evicted /\ ~PushFront
    BY <1>1 DEF PassThrough, PcInv, PushFront, Complete
  <2>. QED
    BY <2>1, PushEffect
<1>2. CASE PushFront
  <2>1. /\ First.frame \in Frame /\ Push(First.frame, First.inferred) /\ evicted' = evicted
        /\ output_frames # <<>> /\ First.waiting = {} /\ First.classifications = {}
    BY <1>2, PushQueue, FirstType DEF PushFront
  <2>2. o \in First.inferred => (o \in Known /\ ResultOf(o) # NULL =>
                                    ResultOf(o) = First.frame.num)
    BY <2>1 DEF RecordedInv
  <2>. QED
    BY <1>2, <2>1, <2>2, PushEffect
<1>. QED
  BY <1>1, <1>2

LEMMA LabelStep ==
    ASSUME TypeOK, PcInv, OrderInv, RecordedInv, LabelInv, [Next]_vars
    PROVE  LabelInv'
<1>1. /\ Known \subseteq Object /\ Known' \subseteq Object
      /\ \A o \in Object : label[o] # NULL => label[o] \in Nat
      /\ \A o \in Known : ResultOf(o) # NULL => ResultOf(o) \in Nat
      /\ pushed # NULL => pushed.num \in Nat
  BY NumberTypes DEF Known
<1>2. CASE history' = history /\ evicted' = evicted /\ label' = label /\ pushed' = pushed
  BY <1>2, SameHistory DEF LabelInv, Kept, ResultOf
<1>3. CASE FilterRegion
  <2>1. label' = label /\ pushed' = pushed
    BY <1>3 DEF FilterRegion, outputVars
  <2>. QED
    BY <1>3, <2>1, FilterResults DEF LabelInv
<1>4. ASSUME NEW o \in Object, UpdateROIParams(o) PROVE LabelInv'
  <2>1. label' = label /\ pushed' = pushed /\ output_frames # <<>>
    BY <1>4, UpdateQueue DEF UpdateROIParams, outputVars
  <2>2. PICK num : Only(o, Update(num, First.frame.num))
    BY <1>4, UpdateEffect
  <2>3. /\ ResultOf(o)' = First.frame.num
        /\ \A p \in Object \ {o} :
              p \in Known' => p \in Known /\ ResultOf(p)' = ResultOf(p)
    BY <2>2 DEF Only, Update, ResultOf
  <2>4. First.frame.num \in Nat /\ (pushed # NULL => pushed.num < First.frame.num)
    BY <2>1, FirstType, QueueType DEF OrderInv, First
  <2>5. label[o] # NULL => label[o] <= First.frame.num
    BY <1>1, <2>4 DEF LabelInv
  <2>. QED
    BY <2>1, <2>3, <2>5 DEF LabelInv
<1>5. CASE PassThrough \/ PushFront
  <2>1. SUFFICES ASSUME NEW o \in Object, label'[o] # NULL
                 PROVE  /\ label'[o] <= pushed'.num
                        /\ o \in Known' /\ ResultOf(o)' # NULL => label'[o] <= ResultOf(o)'
    BY <1>5, PushedNext DEF LabelInv
  <2>2. Known' = Known /\ ResultOf(o)' = ResultOf(o)
    BY <1>5, PushedNext DEF Kept, ResultOf
  <2>3. o \in Known /\ ResultOf(o) # NULL => ResultOf(o) <= pushed'.num
    BY <1>1, <1>5, PushedNext DEF RecordedInv
  <2>4. label[o] # NULL => label[o] <= pushed'.num
    BY <1>1, <1>5, PushedNext DEF LabelInv
  <2>. QED
    <3>1. pushed'.num \in Nat
      BY <1>5, PushedNext
    <3>2. CASE /\ label'[o] = pushed'.num
               /\ o \in Known /\ ResultOf(o) # NULL => ResultOf(o) = pushed'.num
      BY <2>2, <3>1, <3>2
    <3>3. CASE o \in Known /\ label'[o] = ResultOf(o)
      BY <1>1, <2>1, <2>2, <2>3, <3>3
    <3>4. CASE label'[o] = label[o]
      BY <2>1, <2>2, <2>4, <3>4 DEF LabelInv
    <3>. QED
      BY <1>5, <2>1, <3>2, <3>3, <3>4, PushedLabels
<1>6. \/ FilterRegion \/ PassThrough \/ PushFront
      \/ \E o \in Object : UpdateROIParams(o)
      \/ history' = history /\ evicted' = evicted /\ label' = label /\ pushed' = pushed
  BY DEF Next, TransformFrameIp, CountFrame, Enqueue, CompletionCallback, CallbackReturn,
         vars, historyVars, outputVars
<1>. QED
  BY <1>2, <1>3, <1>4, <1>5, <1>6

-----------------------------------------------------------------------------
(* The invariant, and what follows from it for every interval *)

LEMMA HistoryInvariant == Spec => []HistoryInv
<1>1. Init => HistoryInv
  <2>1. SUFFICES ASSUME Init PROVE HistoryInv
    OBVIOUS
  <2>2. TypeOK /\ PcInv
    BY <2>1, InitType
  <2>3. Known = {} /\ DOMAIN output_frames = {}
    BY <2>1 DEF Init, Known, LRU!count
  <2>4. /\ OrderInv /\ ResultsInv /\ InferredInv /\ RecordedInv /\ LabelInv
    BY <2>1, <2>3 DEF Init, OrderInv, ResultsInv, InferredInv, RecordedInv, LabelInv
  <2>5. MarksInv /\ ClassifiedInv
    BY <2>1, <2>3 DEF Init, MarksInv, ClassifiedInv
  <2>. QED
    BY <2>2, <2>4, <2>5 DEF HistoryInv
<1>2. HistoryInv /\ [Next]_vars => HistoryInv'
  <2>1. SUFFICES ASSUME HistoryInv, [Next]_vars PROVE HistoryInv'
    OBVIOUS
  <2>2. /\ TypeOK /\ PcInv /\ OrderInv /\ ResultsInv /\ MarksInv
        /\ InferredInv /\ ClassifiedInv /\ RecordedInv /\ LabelInv
    BY <2>1 DEF HistoryInv
  <2>3. TypeOK' /\ PcInv' /\ OrderInv' /\ ResultsInv' /\ MarksInv'
    BY <2>1, <2>2, TypeStep, OrderStep, ResultsStep, MarksStep
  <2>4. InferredInv' /\ ClassifiedInv' /\ RecordedInv' /\ LabelInv'
    BY <2>1, <2>2, InferredStep, ClassifiedStep, RecordedStep, LabelStep
  <2>. QED
    BY <2>3, <2>4 DEF HistoryInv
<1>. QED
  BY <1>1, <1>2, PTL DEF Spec

\* No entry is ever marked with a frame later than current_num_frame, though
\* callbacks mark entries with the frame_num they read without a lock.
THEOREM MarksNotAhead == Spec => []NoFutureMark
<1>1. HistoryInv => NoFutureMark
  <2>1. SUFFICES ASSUME HistoryInv, NEW k \in DOMAIN history
                 PROVE  history[k].value.frame_of_last_update <= current_num_frame
    BY DEF NoFutureMark
  <2>2. CacheOK /\ MarksInv
    BY <2>1, CacheType DEF HistoryInv
  <2> DEFINE o == history[k].key
  <2>3. history \in Cache /\ history[k] \in ListEntry /\ o \in Object
    <3>1. history \in Cache /\ history \in Seq(ListEntry)
      BY <2>2 DEF CacheOK, Cache
    <3>2. history[k] \in ListEntry
      BY <3>1
    <3>. QED
      BY <3>1, <3>2 DEF ListEntry
  <2>4. LRU!count(history, o) /\ LRU!value(history, o) = history[k].value
    BY <2>3, Lookup
  <2>5. o \in Known /\ Entries[o] = history[k].value
    BY <2>2, <2>3, <2>4, EntriesType DEF Known
  <2>. QED
    BY <2>2, <2>5 DEF MarksInv, MarkOf
<1>. QED
  BY <1>1, HistoryInvariant, PTL

LEMMA EvictedGrows ==
    ASSUME TypeOK, PcInv, [Next]_vars
    PROVE  evicted \subseteq evicted'
<1>1. CASE FilterRegion
  BY <1>1, FilterResults
<1>2. ASSUME NEW o \in Object, UpdateROIParams(o) PROVE evicted \subseteq evicted'
  BY <1>2, UpdateEffect DEF Only
<1>. QED
  BY <1>1, <1>2
     DEF Next, TransformFrameIp, CountFrame, Enqueue, PassThrough, CompletionCallback,
         PushFront, CallbackReturn, vars, historyVars

\* An object stays classified on the frames it was classified on.
LEMMA ClassifiedGrows ==
    ASSUME TypeOK, PcInv, [Next]_vars, NEW o \in Object
    PROVE  classified[o] \subseteq classified'[o]
<1>1. CASE CountFrame
  BY <1>1 DEF CountFrame, TypeOK
<1>2. classified' = classified \/ CountFrame
  BY DEF Next, TransformFrameIp, FilterRegion, Enqueue, PassThrough,
         CompletionCallback, UpdateROIParams, PushFront, CallbackReturn, vars
<1>. QED
  BY <1>1, <1>2

\* An object that the history has not dropped is not classified again within
\* reclassify_interval frames, and never when that is 0, whatever results are
\* still on their way.
THEOREM NotReclassifiedSooner == Spec => []ReclassifyInterval
<1>1. Init => ReclassifyInterval
  BY DEF Init, ReclassifyInterval
<1>2. HistoryInv /\ ReclassifyInterval /\ [Next]_vars => ReclassifyInterval'
  <2>1. SUFFICES ASSUME HistoryInv, ReclassifyInterval, [Next]_vars
                 PROVE  ReclassifyInterval'
    OBVIOUS
  <2>2. /\ TypeOK /\ PcInv /\ ClassifiedInv
        /\ frame_num \in Nat /\ \A o \in Object : classified[o] \subseteq Nat
    BY <2>1, NumberTypes DEF HistoryInv
  <2>3. evicted \subseteq evicted'
    BY <2>1, <2>2, EvictedGrows
  <2>4. CASE classified' = classified
    BY <2>1, <2>3, <2>4 DEF ReclassifyInterval
  <2>5. CASE CountFrame
    <3>1. /\ pc = "filter" /\ frame.num = frame_num /\ evicted' = evicted
          /\ \A o \in Object : classified'[o] = IF o \in metas' THEN classified[o] \cup {frame.num}
                                                ELSE classified[o]
          /\ metas' \subseteq metas
      BY <2>2, <2>5 DEF CountFrame, historyVars, PcInv, TypeOK
    <3>2. ASSUME NEW o \in Object \ evicted, NEW j \in classified'[o], NEW k \in classified'[o],
                 j < k
          PROVE  reclassify_interval # 0 /\ k - j >= reclassify_interval
      <4>1. j \in classified[o]
        <5>1. SUFFICES ASSUME j = frame.num PROVE FALSE
          BY <3>1, <3>2
        <5>2. k \in classified[o]
          <6>1. k # frame.num
            BY <2>2, <3>1, <3>2, <5>1
          <6>. QED
            BY <3>1, <3>2, <6>1
        <5>3. k < frame_num /\ k \in Nat
          BY <2>2, <3>2, <5>2 DEF ClassifiedInv
        <5>. QED
          BY <2>2, <3>1, <3>2, <5>1, <5>3
      <4>2. CASE k \in classified[o]
        BY <2>1, <3>2, <4>1, <4>2 DEF ReclassifyInterval
      <4>3. CASE o \in metas /\ k = frame.num
        BY <2>2, <3>1, <3>2, <4>1, <4>3 DEF ClassifiedInv
      <4>. QED
        BY <3>1, <3>2, <4>2, <4>3
    <3>. QED
      BY <3>1, <3>2 DEF ReclassifyInterval
  <2>6. classified' = classified \/ CountFrame
    BY <2>1 DEF Next, TransformFrameIp, FilterRegion, Enqueue, PassThrough,
                CompletionCallback, UpdateROIParams, PushFront, CallbackReturn, vars
  <2>. QED
    BY <2>4, <2>5, <2>6
<1>. QED
  BY <1>1, <1>2, HistoryInvariant, PTL DEF Spec

\* A label of an object is never followed by one from an older frame, also
\* when the object is dropped from the history and put back.
THEOREM LabelsNeverOlder == Spec => LabelsAdvance
<1> DEFINE Advance == \A o \in Object :
                         label[o] # NULL /\ label'[o] # NULL => label'[o] >= label[o]
<1>1. HistoryInv /\ [Next]_vars => [Advance]_label
  <2>1. SUFFICES ASSUME HistoryInv, [Next]_vars, label' # label, NEW o \in Object,
                        label[o] # NULL, label'[o] # NULL
                 PROVE  label'[o] >= label[o]
    OBVIOUS
  <2>2. TypeOK /\ PcInv /\ OrderInv /\ RecordedInv /\ LabelInv
    BY <2>1 DEF HistoryInv
  <2>3. PassThrough \/ PushFront
    BY <2>1 DEF Next, TransformFrameIp, FilterRegion, CountFrame, Enqueue,
                CompletionCallback, UpdateROIParams, CallbackReturn, vars, outputVars
  <2>4. /\ pushed'.num \in Nat
        /\ label[o] <= pushed'.num /\ label[o] \in Nat
    BY <2>1, <2>2, <2>3, PushedNext, NumberTypes DEF LabelInv
  <2>5. CASE label'[o] = pushed'.num
    BY <2>4, <2>5
  <2>6. CASE o \in Known /\ label'[o] = ResultOf(o)
    <3>1. label[o] <= ResultOf(o) /\ ResultOf(o) \in Nat
      BY <2>1, <2>2, <2>6, NumberTypes DEF LabelInv
    <3>. QED
      BY <2>4, <2>6, <3>1
  <2>7. CASE label'[o] = label[o]
    BY <2>4, <2>7
  <2>. QED
    BY <2>1, <2>2, <2>3, <2>5, <2>6, <2>7, PushedLabels
<1>. QED
  BY <1>1, HistoryInvariant, PTL DEF Spec, LabelsAdvance

-----------------------------------------------------------------------------
(* The inference on every frame *)

EveryFrame == inference_interval = 1

LEMMA AllExecuted ==
    ASSUME EveryFrame, NEW n \in Nat
    PROVE  Executed(n)
BY DEF EveryFrame, Executed

\* What is put back had been dropped.
LEMMA Readded ==
    ASSUME TypeOK, ResultsInv, InferredInv, ClassifiedInv,
           NEW o \in Object, UpdateROIParams(o), o \notin Known
    PROVE  o \in evicted
<1>1. o \in First.inferred /\ 1 \in DOMAIN output_frames
  BY UpdateQueue, FirstType DEF ResultsInv, First
<1>2. First.frame.num \in classified[o]
  BY <1>1 DEF InferredInv, First
<1>. QED
  BY <1>2 DEF ClassifiedInv

LEMMA MarkedStep ==
    ASSUME EveryFrame, HistoryInv, MarkedInv, [Next]_vars
    PROVE  MarkedInv'
<1>1. /\ TypeOK /\ PcInv /\ ResultsInv /\ InferredInv /\ ClassifiedInv
      /\ Known \subseteq Object /\ Known' \subseteq Object
  BY DEF HistoryInv, Known
<1>2. ASSUME Kept, classified' = classified,
             pc = "filter" => pc' = "filter" /\ frame' = frame /\ metas \subseteq metas'
      PROVE  MarkedInv'
  BY <1>2 DEF MarkedInv, Kept, MarkOf
<1>3. ASSUME NEW o \in Object, NEW e, Only(o, e), classified' = classified,
             UNCHANGED <<pc, frame>>, metas \subseteq metas',
             \/ o \in evicted'
             \/ e.frame_of_last_update \in classified[o]
             \/ pc = "filter" /\ o \in metas' /\ e.frame_of_last_update = frame.num
      PROVE  MarkedInv'
  <2>1. SUFFICES ASSUME NEW p \in Known' \ evicted'
                 PROVE  \/ MarkOf(p)' \in classified[p]
                        \/ pc = "filter" /\ p \in metas' /\ MarkOf(p)' = frame.num
    BY <1>3 DEF MarkedInv
  <2>2. CASE p = o
    BY <1>3, <2>1, <2>2 DEF Only, MarkOf
  <2>3. CASE p # o
    <3>1. p \in Known \ evicted /\ MarkOf(p)' = MarkOf(p)
      BY <1>1, <1>3, <2>1, <2>3 DEF Only, MarkOf
    <3>. QED
      BY <1>3, <3>1 DEF MarkedInv
  <2>. QED
    BY <2>2, <2>3
<1>4. CASE FilterRegion
  <2>1. pc = "filter" /\ UNCHANGED <<pc, frame, classified>>
    BY <1>4 DEF FilterRegion
  <2>2. CASE Kept /\ metas \subseteq metas'
    BY <1>2, <2>1, <2>2
  <2>3. ASSUME NEW r, Only(Asked, Update(frame.num, r)), Asked \in Object,
               metas' = metas \cup {Asked}
        PROVE  MarkedInv'
    BY <1>3, <2>1, <2>3 DEF Update
  <2>. QED
    BY <1>1, <1>4, <2>2, <2>3, FilterEffect
<1>5. CASE CountFrame
  <2>1. /\ pc = "filter" /\ frame.num \in Nat /\ pc' = "enqueue" /\ Kept
        /\ metas \subseteq Region
    BY <1>1, <1>5, SameHistory, NumberTypes DEF CountFrame, historyVars, PcInv, TypeOK
  <2>2. metas' = metas
    BY <1>5, <2>1, AllExecuted DEF CountFrame
  <2>3. \A o \in Object : classified'[o] = IF o \in metas THEN classified[o] \cup {frame.num}
                                           ELSE classified[o]
    BY <1>5, <2>2 DEF CountFrame
  <2>. QED
    BY <1>1, <2>1, <2>3 DEF MarkedInv, Kept, MarkOf
<1>6. CASE PassThrough \/ PushFront
  <2>1. /\ Kept /\ classified' = classified
        /\ pc = "filter" => pc' = "filter" /\ frame' = frame /\ metas \subseteq metas'
    BY <1>1, <1>6, PushedNext DEF HistoryInv, PassThrough, PushFront, threadVars
  <2>. QED
    BY <1>2, <2>1
<1>7. ASSUME NEW o \in Object, UpdateROIParams(o) PROVE MarkedInv'
  <2>1. UNCHANGED <<pc, frame, metas, classified>>
    BY <1>7 DEF UpdateROIParams, threadVars
  <2>2. CASE o \in Known /\ Only(o, Update(MarkOf(o), First.frame.num))
    <3>1. o \in evicted' \/ o \notin evicted
      BY <2>2 DEF Only
    <3>. QED
      BY <1>3, <2>1, <2>2, <3>1 DEF Update, MarkedInv
  <2>3. CASE o \notin Known /\ Only(o, Update(frame_num, First.frame.num))
    <3>1. o \in evicted'
      BY <1>1, <1>7, <2>3, Readded DEF Only
    <3>. QED
      BY <1>3, <2>1, <2>3, <3>1
  <2>. QED
    BY <1>1, <1>7, <2>2, <2>3, UpdateEffect
<1>8. \/ FilterRegion \/ CountFrame \/ PassThrough \/ PushFront
      \/ \E o \in Object : UpdateROIParams(o)
      \/ /\ history' = history /\ evicted' = evicted /\ classified' = classified
         /\ pc = "filter" => pc' = "filter" /\ frame' = frame /\ metas \subseteq metas'
  BY DEF Next, TransformFrameIp, Enqueue, CompletionCallback, CallbackReturn,
         vars, threadVars, historyVars
<1>. QED
  BY <1>2, <1>4, <1>5, <1>6, <1>7, <1>8, SameHistory

LEMMA StillCovered ==
    ASSUME TypeOK, PcInv, [Next]_vars, NEW f, Covered(f)
    PROVE  \A o \in (ToSet(f.regions) \cap Object) \ evicted' :
              \E j \in classified'[o] : Current(j, f.num)
BY EvictedGrows, ClassifiedGrows DEF Covered

LEMMA CoveredStep ==
    ASSUME EveryFrame, HistoryInv, MarkedInv, CoveredInv, [Next]_vars
    PROVE  CoveredInv'
<1> DEFINE CoveredNext(f) == \A o \in (ToSet(f.regions) \cap Object) \ evicted' :
                                \E j \in classified'[o] : Current(j, f.num)
<1>1. /\ TypeOK /\ PcInv /\ MarksInv
      /\ Len(output_frames) \in Nat /\ DOMAIN output_frames = 1..Len(output_frames)
      /\ evicted \subseteq evicted'
      /\ reclassify_interval \in Nat
  BY QueueType, EvictedGrows, IntervalAssumption DEF HistoryInv
<1>2. /\ \A k \in 1..Len(output_frames) : CoveredNext(output_frames[k].frame)
      /\ pc \in {"enqueue", "pass"} => CoveredNext(frame)
  BY <1>1, StillCovered DEF CoveredInv
<1>3. SUFFICES /\ \A k \in DOMAIN output_frames' : CoveredNext(output_frames'[k].frame)
               /\ pc' \in {"enqueue", "pass"} => CoveredNext(frame')
               /\ pc' = "filter" =>
                     \A o \in (ToSet(frame'.regions) \cap Object) \ (evicted' \cup ToSet(todo')) :
                        o \in metas' \/ \E j \in classified'[o] : Current(j, frame'.num)
  BY DEF CoveredInv, Covered, Current
<1>. HIDE DEF CoveredNext
<1>4. output_frames' \in Seq(InFlight) => DOMAIN output_frames' = 1..Len(output_frames')
  OBVIOUS
<1>5. ASSUME NEW regions \in Regions, TransformFrameIp(regions)
      PROVE  /\ output_frames' = output_frames /\ pc' = "filter"
             /\ ToSet(frame'.regions) \subseteq ToSet(todo')
  BY <1>5 DEF TransformFrameIp
<1>6. CASE FilterRegion
  <2>1. /\ pc = "filter" /\ frame.num = frame_num /\ frame_num \in Nat
        /\ ToSet(todo) \subseteq ToSet(todo') \cup {Asked}
        /\ UNCHANGED <<pc, frame, output_frames, classified>>
        /\ metas \subseteq metas'
    BY <1>1, <1>6, AskedFacts, NumberTypes DEF FilterRegion
  <2>2. ASSUME NEW o \in (ToSet(frame.regions) \cap Object) \ (evicted' \cup ToSet(todo'))
        PROVE  o \in metas' \/ \E j \in classified[o] : Current(j, frame.num)
    <3>1. CASE o # Asked
      BY <1>1, <2>1, <2>2, <3>1 DEF CoveredInv
    <3>2. CASE o = Asked /\ o \notin metas'
      <4>1. /\ o \in Known
            /\ reclassify_interval = 0 \/ ~(frame.num - MarkOf(o) >= reclassify_interval)
        BY <1>1, <1>6, <3>2, FilterEffect
      <4>2. MarkOf(o) \in Nat /\ MarkOf(o) <= frame.num
        BY <1>1, <2>1, <4>1, NumberTypes DEF MarksInv
      <4>3. MarkOf(o) \in classified[o]
        BY <1>1, <2>1, <2>2, <3>2, <4>1 DEF MarkedInv
      <4>4. Current(MarkOf(o), frame.num)
        BY <1>1, <2>1, <4>1, <4>2 DEF Current
      <4>. QED
        BY <4>3, <4>4
    <3>. QED
      BY <3>1, <3>2
  <2>. QED
    BY <1>1, <1>2, <2>1, <2>2
<1>7. CASE CountFrame
  <2>1. /\ pc = "filter" /\ frame.num \in Nat /\ todo = <<>>
        /\ pc' = "enqueue" /\ frame' = frame /\ output_frames' = output_frames
        /\ evicted' = evicted
    BY <1>1, <1>7, NumberTypes DEF CountFrame, historyVars, PcInv
  <2>2. metas' = metas
    BY <1>7, <2>1, AllExecuted DEF CountFrame
  <2>3. \A o \in Object : o \in metas => frame.num \in classified'[o]
    BY <1>7, <2>2 DEF CountFrame
  <2>4. Current(frame.num, frame.num)
    BY <1>1, <2>1 DEF Current
  <2>5. CoveredNext(frame)
    <3>1. SUFFICES ASSUME NEW o \in (ToSet(frame.regions) \cap Object) \ evicted'
                   PROVE  \E j \in classified'[o] : Current(j, frame.num)
      BY DEF CoveredNext
    <3>2. o \in metas \/ \E j \in classified[o] : Current(j, frame.num)
      BY <2>1, <3>1, NoRegions DEF CoveredInv
    <3>. QED
      BY <1>1, <2>3, <2>4, <3>1, <3>2, ClassifiedGrows
  <2>. QED
    BY <1>1, <1>2, <2>1, <2>5
<1>8. CASE Enqueue
  <2>1. pc = "enqueue" /\ frame' = frame /\ pc' \in {"idle", "pass"}
    BY <1>8 DEF Enqueue
  <2>2. CASE output_frames' = output_frames
    BY <1>1, <1>2, <2>1, <2>2
  <2>3. CASE /\ output_frames' \in Seq(InFlight)
             /\ Len(output_frames') = Len(output_frames) + 1
             /\ \A i \in 1..Len(output_frames) : output_frames'[i] = output_frames[i]
             /\ output_frames'[Len(output_frames) + 1] = Joined
    <3>1. \A i \in 1..(Len(output_frames) + 1) :
             i \in 1..Len(output_frames) \/ i = Len(output_frames) + 1
      BY <1>1
    <3>2. \A i \in 1..(Len(output_frames) + 1) : CoveredNext(output_frames'[i].frame)
      BY <1>2, <2>1, <2>3, <3>1 DEF Joined
    <3>. QED
      BY <1>2, <1>4, <2>1, <2>3, <3>2
  <2>. QED
    BY <1>1, <1>8, <2>2, <2>3, EnqueueQueue
<1>9. CASE PassThrough
  BY <1>1, <1>2, <1>9 DEF PassThrough
<1>10. CASE SameFrames /\ UNCHANGED <<threadVars, classified>>
  <2>1. \A k \in DOMAIN output_frames' : CoveredNext(output_frames'[k].frame)
    BY <1>1, <1>2, <1>4, <1>10 DEF SameFrames
  <2>. QED
    BY <1>1, <1>2, <1>10, <2>1 DEF threadVars, CoveredInv
<1>11. CASE PushFront
  <2>1. /\ DOMAIN output_frames' = 1..(Len(output_frames) - 1)
        /\ \A i \in 1..(Len(output_frames) - 1) : output_frames'[i] = output_frames[i + 1]
    BY <1>1, <1>4, <1>11, PushQueue
  <2>2. \A i \in 1..(Len(output_frames) - 1) : i + 1 \in 1..Len(output_frames)
    BY <1>1
  <2>3. \A k \in DOMAIN output_frames' : CoveredNext(output_frames'[k].frame)
    BY <1>2, <2>1, <2>2
  <2>. QED
    BY <1>1, <1>2, <1>11, <2>3 DEF PushFront, threadVars, CoveredInv
<1>12. CASE output_frames' = output_frames /\ UNCHANGED <<threadVars, classified>>
  BY <1>1, <1>2, <1>12 DEF threadVars, CoveredInv
<1>13. ASSUME NEW k \in DOMAIN output_frames, NEW o \in Region, CompletionCallback(k, o)
       PROVE  SameFrames /\ UNCHANGED <<threadVars, classified>>
  BY <1>1, <1>13, CompletionQueue DEF CompletionCallback
<1>14. ASSUME NEW o \in Object, UpdateROIParams(o)
       PROVE  SameFrames /\ UNCHANGED <<threadVars, classified>>
  BY <1>1, <1>14, UpdateQueue DEF UpdateROIParams
<1>15. CallbackReturn \/ UNCHANGED vars =>
           output_frames' = output_frames /\ UNCHANGED <<threadVars, classified>>
  BY DEF CallbackReturn, vars, threadVars
<1>16. ASSUME NEW regions \in Regions, TransformFrameIp(regions)
       PROVE  /\ \A k \in DOMAIN output_frames' : CoveredNext(output_frames'[k].frame)
              /\ pc' = "filter" /\ ToSet(frame'.regions) \subseteq ToSet(todo')
  BY <1>1, <1>2, <1>5, <1>16
<1>. QED
  BY <1>6, <1>7, <1>8, <1>9, <1>10, <1>11, <1>12, <1>13, <1>14, <1>15, <1>16 DEF Next

\* A result that a frame waits for is with that frame until it is recorded.
Recalled(o, j) == o \in Known /\ ResultOf(o) # NULL /\ j <= ResultOf(o)

LEMMA ResultStep ==
    ASSUME EveryFrame, HistoryInv, ResultInv, [Next]_vars
    PROVE  ResultInv'
<1>1. /\ TypeOK /\ PcInv /\ OrderInv /\ RecordedInv
      /\ Len(output_frames) \in Nat /\ DOMAIN output_frames = 1..Len(output_frames)
      /\ evicted \subseteq evicted' /\ Known \subseteq Object
      /\ \A o \in Object : classified[o] \subseteq Nat
      /\ \A o \in Known : ResultOf(o) # NULL => ResultOf(o) \in Nat
  BY QueueType, EvictedGrows, NumberTypes DEF HistoryInv, Known
<1>2. output_frames' \in Seq(InFlight) => DOMAIN output_frames' = 1..Len(output_frames')
  OBVIOUS
<1>3. ASSUME Kept, NEW o \in Object, NEW j, Recalled(o, j) PROVE Recalled(o, j)'
  BY <1>3 DEF Kept, Recalled, ResultOf
<1>4. ASSUME classified' = classified,
             \A o \in Object \ evicted' : \A j \in classified[o] :
                /\ OnItsWay(o, j) => OnItsWay(o, j)' \/ Recalled(o, j)'
                /\ Recalled(o, j) => Recalled(o, j)'
      PROVE  ResultInv'
  BY <1>1, <1>4 DEF ResultInv, Recalled
<1>5. ASSUME output_frames' = output_frames, NEW o, NEW j, OnItsWay(o, j),
             pc = "enqueue" => UNCHANGED <<pc, frame, metas>>
      PROVE  OnItsWay(o, j)'
  BY <1>5 DEF OnItsWay
<1>6. CASE FilterRegion
  <2>1. /\ output_frames' = output_frames /\ pc = "filter" /\ classified' = classified
    BY <1>6 DEF FilterRegion
  <2>2. ASSUME NEW o \in Object \ evicted', NEW j, Recalled(o, j) PROVE Recalled(o, j)'
    BY <1>1, <1>6, <2>2, FilterResults DEF Recalled
  <2>. QED
    BY <1>4, <1>5, <2>1, <2>2
<1>7. CASE CountFrame
  <2>1. /\ pc = "filter" /\ pc' = "enqueue" /\ frame' = frame /\ Kept
        /\ output_frames' = output_frames
        /\ \A o \in Object : classified'[o] = IF o \in metas' THEN classified[o] \cup {frame.num}
                                              ELSE classified[o]
    BY <1>7, SameHistory DEF CountFrame, historyVars
  <2>2. ASSUME NEW o \in Object \ evicted', NEW j \in classified'[o]
        PROVE  OnItsWay(o, j)' \/ Recalled(o, j)'
    <3>1. CASE j \in classified[o]
      <4>1. OnItsWay(o, j) \/ Recalled(o, j)
        BY <1>1, <2>2, <3>1 DEF ResultInv, Recalled
      <4>. QED
        BY <1>3, <1>5, <2>1, <2>2, <4>1
    <3>2. CASE o \in metas' /\ j = frame.num
      BY <2>1, <3>2 DEF OnItsWay
    <3>. QED
      BY <2>1, <2>2, <3>1, <3>2
  <2>. QED
    BY <2>2 DEF ResultInv, Recalled
<1>8. CASE Enqueue
  <2>1. /\ pc = "enqueue" /\ Kept /\ classified' = classified
    BY <1>8, SameHistory DEF Enqueue, historyVars
  <2>2. CASE metas = {} /\ output_frames = <<>> /\ output_frames' = output_frames
    BY <1>3, <1>4, <2>1, <2>2 DEF OnItsWay
  <2>3. CASE /\ output_frames' \in Seq(InFlight)
             /\ Len(output_frames') = Len(output_frames) + 1
             /\ \A i \in 1..Len(output_frames) : output_frames'[i] = output_frames[i]
             /\ output_frames'[Len(output_frames) + 1] = Joined
    <3>1. ASSUME NEW o, NEW j, OnItsWay(o, j) PROVE OnItsWay(o, j)'
      <4>1. Len(output_frames) + 1 \in DOMAIN output_frames'
            /\ DOMAIN output_frames \subseteq DOMAIN output_frames'
        BY <1>1, <1>2, <2>3
      <4>2. CASE \E k \in DOMAIN output_frames : /\ output_frames[k].frame.num = j
                                                 /\ o \in output_frames[k].inferred
        BY <1>1, <2>3, <4>1, <4>2 DEF OnItsWay
      <4>3. CASE frame.num = j /\ o \in metas
        BY <2>3, <4>1, <4>3 DEF OnItsWay, Joined
      <4>. QED
        BY <3>1, <4>2, <4>3 DEF OnItsWay
    <3>. QED
      BY <1>3, <1>4, <2>1, <3>1
  <2>. QED
    BY <1>1, <1>8, <2>2, <2>3, EnqueueQueue
<1>9. CASE PassThrough
  <2>1. /\ pc = "pass" /\ output_frames' = output_frames /\ classified' = classified /\ Kept
    BY <1>1, <1>9, PushedNext DEF PassThrough
  <2>. QED
    BY <1>3, <1>4, <1>5, <2>1
<1>10. ASSUME SameFrames, NEW o, NEW j, OnItsWay(o, j), UNCHANGED <<pc, frame, metas>>
       PROVE  OnItsWay(o, j)'
  BY <1>1, <1>2, <1>10 DEF SameFrames, OnItsWay
<1>11. ASSUME NEW k \in DOMAIN output_frames, NEW r \in Region, CompletionCallback(k, r)
       PROVE  ResultInv'
  <2>1. SameFrames
    BY <1>1, <1>11, CompletionQueue
  <2>2. Kept /\ classified' = classified /\ UNCHANGED <<pc, frame, metas>>
    BY <1>11, SameHistory DEF CompletionCallback, threadVars, historyVars
  <2>. QED
    BY <1>3, <1>4, <1>10, <2>1, <2>2
<1>12. ASSUME NEW r \in Object, UpdateROIParams(r) PROVE ResultInv'
  <2>1. SameFrames /\ output_frames # <<>>
    BY <1>1, <1>12, UpdateQueue
  <2>2. classified' = classified /\ UNCHANGED <<pc, frame, metas>>
    BY <1>12 DEF UpdateROIParams, threadVars
  <2>3. PICK num : Only(r, Update(num, First.frame.num))
    BY <1>1, <1>12, UpdateEffect
  <2>4. /\ r \in Known' /\ ResultOf(r)' = First.frame.num
        /\ \A p \in Object \ {r} : p \in Known \ evicted' =>
              p \in Known' /\ ResultOf(p)' = ResultOf(p)
    BY <2>3 DEF Only, Update, ResultOf
  <2>5. /\ First.frame.num \in Nat /\ First.frame.num # NULL
        /\ pushed # NULL => pushed.num \in Nat /\ pushed.num < First.frame.num
    BY <1>1, <2>1, FirstType, QueueType, NumberTypes, NullAssumption DEF OrderInv, First
  <2>6. ASSUME NEW o \in Object \ evicted', NEW j \in classified[o], Recalled(o, j)
        PROVE  Recalled(o, j)'
    <3>1. CASE o = r
      <4>1. ResultOf(o) \in Nat /\ ResultOf(o) <= First.frame.num /\ j \in Nat
        BY <1>1, <2>5, <2>6 DEF Recalled, RecordedInv
      <4>2. j <= First.frame.num
        BY <2>5, <2>6, <4>1 DEF Recalled
      <4>. QED
        BY <2>4, <2>5, <3>1, <4>2 DEF Recalled
    <3>2. CASE o # r
      BY <2>4, <2>6, <3>2 DEF Recalled
    <3>. QED
      BY <3>1, <3>2
  <2>. QED
    BY <1>4, <1>10, <2>1, <2>2, <2>6
<1>13. CASE PushFront
  <2>1. /\ output_frames # <<>> /\ First.waiting = {} /\ First.classifications = {}
        /\ DOMAIN output_frames' = 1..(Len(output_frames) - 1)
        /\ \A i \in 1..(Len(output_frames) - 1) : output_frames'[i] = output_frames[i + 1]
    BY <1>1, <1>2, <1>13, PushQueue
  <2>2. Kept /\ classified' = classified /\ UNCHANGED <<pc, frame, metas>>
    BY <1>1, <1>13, PushedNext DEF PushFront, threadVars
  <2>3. First.frame.num \in Nat /\ First.frame.num # NULL
    BY <1>1, <2>1, FirstType, QueueType, NullAssumption DEF First
  <2>4. ASSUME NEW o \in Object \ evicted', NEW j, OnItsWay(o, j)
        PROVE  OnItsWay(o, j)' \/ Recalled(o, j)'
    <3>1. CASE pc = "enqueue" /\ frame.num = j /\ o \in metas
      BY <2>2, <3>1 DEF OnItsWay
    <3>2. ASSUME NEW k \in 1..Len(output_frames),
                 output_frames[k].frame.num = j, o \in output_frames[k].inferred
          PROVE  OnItsWay(o, j)' \/ Recalled(o, j)'
      <4>1. CASE k = 1
        <5>1. o \in Known /\ ResultOf(o) = First.frame.num /\ j = First.frame.num
          BY <1>1, <2>1, <2>4, <3>2, <4>1 DEF RecordedInv, First
        <5>2. Recalled(o, j)
          BY <2>3, <5>1 DEF Recalled
        <5>. QED
          BY <1>3, <2>2, <2>4, <5>2
      <4>2. CASE k # 1
        <5>1. k - 1 \in 1..(Len(output_frames) - 1) /\ (k - 1) + 1 = k
          BY <1>1, <4>2
        <5>2. output_frames'[k - 1] = output_frames[k]
          BY <2>1, <5>1
        <5>. QED
          BY <2>1, <3>2, <5>1, <5>2 DEF OnItsWay
      <4>. QED
        BY <4>1, <4>2
    <3>. QED
      BY <1>1, <2>4, <3>1, <3>2 DEF OnItsWay
  <2>. QED
    BY <1>3, <1>4, <2>2, <2>4
<1>14. CASE \/ \E regions \in Regions : TransformFrameIp(regions)
            \/ CallbackReturn \/ UNCHANGED vars
  <2>1. /\ history' = history /\ evicted' = evicted
        /\ output_frames' = output_frames /\ classified' = classified
        /\ pc = "enqueue" => UNCHANGED <<pc, frame, metas>>
    BY <1>14 DEF TransformFrameIp, CallbackReturn, vars, threadVars, historyVars
  <2>. QED
    BY <1>3, <1>4, <1>5, <2>1, SameHistory
<1>. QED
  BY <1>6, <1>7, <1>8, <1>9, <1>11, <1>12, <1>13, <1>14 DEF Next

-----------------------------------------------------------------------------
(* The labels of the frame that was pushed last *)

PushedInv ==
    pushed # NULL =>
        \A o \in Tracked(pushed.regions) \ evicted :
            /\ label[o] # NULL
            /\ reclassify_interval # 0 => pushed.num - label[o] < reclassify_interval

LEMMA TrackedObjects ==
    ASSUME NEW f \in Frame
    PROVE  Tracked(f.regions) = ToSet(f.regions) \cap Object
<1>1. ToSet(f.regions) \subseteq Region
  BY RegionsFacts DEF Frame
<1>. QED
  BY <1>1, ObjectAssumption DEF Tracked, Region

\* The classification a frame was covered by has its result in the history
\* when the frame leaves, unless the frame has one of its own.
LEMMA PushedCovered ==
    ASSUME HistoryInv, EveryFrameInv, PassThrough \/ PushFront,
           NEW o \in (ToSet(pushed'.regions) \cap Object) \ evicted,
           PushFront => o \notin First.inferred
    PROVE  /\ o \in Known /\ ResultOf(o) # NULL /\ ResultOf(o) \in Nat
           /\ ResultOf(o) <= pushed'.num
           /\ reclassify_interval # 0 => pushed'.num - ResultOf(o) < reclassify_interval
<1>1. /\ TypeOK /\ PcInv /\ OrderInv /\ RecordedInv
      /\ Len(output_frames) \in Nat /\ DOMAIN output_frames = 1..Len(output_frames)
      /\ \A i \in 1..Len(output_frames) : output_frames[i].frame.num \in Nat
      /\ reclassify_interval \in Nat
      /\ classified[o] \subseteq Nat
      /\ o \in Known /\ ResultOf(o) # NULL => ResultOf(o) \in Nat
  BY QueueType, NumberTypes, IntervalAssumption DEF HistoryInv
<1>2. /\ pushed' # NULL /\ pushed'.num \in Nat
      /\ pushed # NULL => pushed.num \in Nat /\ pushed.num < pushed'.num
      /\ output_frames # <<>> => pushed' = First.frame
  BY <1>1, PushedNext
<1>3. Covered(pushed')
  <2>1. CASE PassThrough
    BY <2>1 DEF PassThrough, Push, EveryFrameInv, CoveredInv
  <2>2. CASE PushFront
    BY <1>1, <1>2, <2>2, PushQueue DEF EveryFrameInv, CoveredInv, First
  <2>. QED
    BY <2>1, <2>2
<1>4. PICK j \in classified[o] : Current(j, pushed'.num)
  BY <1>3 DEF Covered
<1>5. ~OnItsWay(o, j)
  <2>1. CASE PassThrough
    BY <1>1, <2>1 DEF PassThrough, PcInv, OnItsWay
  <2>2. CASE PushFront
    <3>1. /\ 1 \in 1..Len(output_frames) /\ pushed' = output_frames[1].frame
          /\ j <= output_frames[1].frame.num /\ j \in Nat
      BY <1>1, <1>2, <1>4, <2>2, PushQueue DEF First, Current
    <3>2. ~(pc = "enqueue" /\ frame.num = j)
      BY <1>1, <3>1, NumberTypes DEF OrderInv, PcInv
    <3>3. ASSUME NEW k \in 1..Len(output_frames),
                 output_frames[k].frame.num = j, o \in output_frames[k].inferred
          PROVE  FALSE
      <4>1. k # 1
        BY <2>2, <3>3 DEF First
      <4>2. 1 < k
        BY <1>1, <4>1
      <4>. QED
        BY <1>1, <3>1, <3>3, <4>2 DEF OrderInv
    <3>. QED
      BY <1>1, <3>2, <3>3 DEF OnItsWay
  <2>. QED
    BY <2>1, <2>2
<1>6. o \in Known /\ ResultOf(o) # NULL /\ j <= ResultOf(o)
  BY <1>4, <1>5 DEF EveryFrameInv, ResultInv
<1>7. ResultOf(o) <= pushed'.num
  BY <1>1, <1>2, <1>6 DEF RecordedInv
<1>8. j \in Nat /\ (reclassify_interval # 0 => pushed'.num - j < reclassify_interval)
  BY <1>1, <1>4 DEF Current
<1>. QED
  BY <1>1, <1>2, <1>6, <1>7, <1>8

LEMMA PushedStep ==
    ASSUME HistoryInv, EveryFrameInv, PushedInv, [Next]_vars
    PROVE  PushedInv'
<1>1. /\ TypeOK /\ PcInv /\ OrderInv /\ RecordedInv /\ evicted \subseteq evicted'
      /\ reclassify_interval \in Nat
  BY EvictedGrows, IntervalAssumption DEF HistoryInv
<1>2. CASE UNCHANGED <<pushed, label>>
  BY <1>1, <1>2 DEF PushedInv
<1>3. CASE PassThrough \/ PushFront
  <2>1. /\ pushed' \in Frame /\ pushed' # NULL /\ pushed'.num \in Nat
    BY <1>1, <1>3, PushedNext
  <2>2. SUFFICES ASSUME NEW o \in (ToSet(pushed'.regions) \cap Object) \ evicted'
                 PROVE  /\ label'[o] # NULL
                        /\ reclassify_interval # 0 =>
                              pushed'.num - label'[o] < reclassify_interval
    BY <2>1, TrackedObjects DEF PushedInv
  <2>3. CASE label'[o] = pushed'.num
    <3>1. pushed'.num # NULL
      BY <2>1, NullAssumption DEF Frame
    <3>. QED
      BY <1>1, <2>1, <2>3, <3>1
  <2>4. CASE label'[o] # pushed'.num
    <3>1. /\ PushFront => o \notin First.inferred
          /\ o \in Known => label'[o] = ResultOf(o)
      BY <1>1, <1>3, <2>2, <2>4, PushedLabels
    <3>2. /\ o \in Known /\ ResultOf(o) # NULL
          /\ reclassify_interval # 0 => pushed'.num - ResultOf(o) < reclassify_interval
      BY <1>1, <1>3, <2>2, <3>1, PushedCovered
    <3>. QED
      BY <3>1, <3>2
  <2>. QED
    BY <2>3, <2>4
<1>4. PassThrough \/ PushFront \/ UNCHANGED <<pushed, label>>
  BY DEF Next, TransformFrameIp, FilterRegion, CountFrame, Enqueue,
         CompletionCallback, UpdateROIParams, CallbackReturn, vars, outputVars
<1>. QED
  BY <1>2, <1>3, <1>4

LEMMA EveryFrameInvariant ==
    ASSUME EveryFrame
    PROVE  Spec => [](HistoryInv /\ EveryFrameInv /\ PushedInv)
<1>1. Init => EveryFrameInv /\ PushedInv
  <2>1. SUFFICES ASSUME Init PROVE EveryFrameInv /\ PushedInv
    OBVIOUS
  <2>2. Known = {} /\ DOMAIN output_frames = {}
    BY <2>1 DEF Init, Known, LRU!count
  <2>. QED
    BY <2>1, <2>2 DEF Init, EveryFrameInv, MarkedInv, CoveredInv, ResultInv, PushedInv
<1>2. HistoryInv /\ EveryFrameInv /\ PushedInv /\ [Next]_vars => EveryFrameInv' /\ PushedInv'
  BY MarkedStep, CoveredStep, ResultStep, PushedStep DEF EveryFrameInv
<1>. QED
  BY <1>1, <1>2, HistoryInvariant, PTL DEF Spec

\* With the inference on every frame, each tracked object of a frame that
\* leaves has a label, though the streaming thread marks it as classified
\* before the result exists.
THEOREM EveryObjectLabelled ==
    ASSUME EveryFrame
    PROVE  Spec => []AlwaysLabelled
<1>1. HistoryInv /\ EveryFrameInv /\ PushedInv => AlwaysLabelled
  BY DEF PushedInv, AlwaysLabelled
<1>. QED
  BY <1>1, EveryFrameInvariant, PTL

\* With the inference on every frame, no label is from a later frame, nor from
\* reclassify_interval frames ago or more.
THEOREM LabelsFresh ==
    ASSUME EveryFrame
    PROVE  Spec => []LabelFresh
<1>1. HistoryInv /\ EveryFrameInv /\ PushedInv => LabelFresh
  <2>1. SUFFICES ASSUME HistoryInv, PushedInv PROVE LabelFresh
    OBVIOUS
  <2>2. LabelInv /\ (pushed # NULL => pushed \in Frame)
    BY <2>1, NumberTypes DEF HistoryInv
  <2>3. pushed # NULL => Tracked(pushed.regions) \subseteq Object
    BY <2>2, TrackedObjects
  <2>. QED
    BY <2>1, <2>2, <2>3 DEF PushedInv, LabelInv, LabelFresh
<1>. QED
  BY <1>1, EveryFrameInvariant, PTL
=============================================================================
