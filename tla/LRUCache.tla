------------------------------ MODULE LRUCache ------------------------------
(***************************************************************************)
(* Class template LRUCache (utils/lru_cache.h): the list lru_values, least *)
(* recently used entry first, with the map keys that finds an entry.  The  *)
(* list alone is the value here: a sequence of entries, no key twice.      *)
(***************************************************************************)
EXTENDS Naturals, Sequences

CONSTANT MAX_SIZE

ListNode(key, value) == [key |-> key, value |-> value]

count(cache, key) == \E k \in DOMAIN cache : cache[k].key = key

\* What keys finds: the place of the node in the list.
iterator(cache, key) == CHOOSE k \in DOMAIN cache : cache[k].key = key

value(cache, key) == cache[iterator(cache, key)].value

\* The list without the node at k.
Without(cache, k) == [j \in 1..(Len(cache) - 1) |-> cache[IF j < k THEN j ELSE j + 1]]

\* get(key), and the assignment to the reference it returns when v is new: the
\* node goes to the end of the list.
set(cache, key, v) ==
    Append(IF count(cache, key) THEN Without(cache, iterator(cache, key)) ELSE cache,
           ListNode(key, v))

make_recently_used(cache, key) == set(cache, key, value(cache, key))

\* The entry that put(key) drops: the first of a full cache.
Dropped(cache, key) ==
    IF ~count(cache, key) /\ Len(cache) = MAX_SIZE THEN {Head(cache).key} ELSE {}

\* Mutant: nothing is dropped.
putMore(cache, key, v) == set(cache, key, v)

put(cache, key, v) ==
    set(IF Dropped(cache, key) # {} THEN Tail(cache) ELSE cache, key, v)
=============================================================================
