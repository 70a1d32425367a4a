---------------------------- MODULE UnorderedMap ----------------------------
(***************************************************************************)
(* unordered_map_t (collections.h): slots of vectors of key and value      *)
(* pairs.  The hash of a string (map_str_hash_func) depends on random      *)
(* permutations made at its first use: any function of the key.            *)
(***************************************************************************)
EXTENDS Vector, Calls, FiniteSets

CONSTANTS
  Key, MapValue,
  NumSlots,       \* _num_slots: 511 in the code
  SlotCapacity,   \* capacity of the vector of a slot: 32 in the code
  MaxInserted     \* bound: insertions of keys

MapAssumption == NumSlots \in Nat \ {0} /\ SlotCapacity \in Nat \ {0, 1}

VARIABLES
  hash,
  slots,
  occupancy

vars == <<hash, slots, occupancy, asked>>

Slot == 0 .. NumSlots - 1

\* map_str_hash_func and the % of _unordered_map_find.
SomeHash == hash \in [Key -> Slot]

\* unordered_map_create.
Init ==
  /\ SomeHash
  /\ slots = [i \in Slot |-> VectorCreate(SlotCapacity)]
  /\ occupancy = 0
  /\ NothingAsked

\* _unordered_map_find: the first pair of the key's slot that has the key; an
\* index equal to the size stands for none.
Found(k) ==
  LET v    == slots[hash[k]]
      here == {n \in 0 .. v.size - 1 : v.data[n] # Garbage /\ v.data[n][1] = k}
  IN IF here = {} THEN v.size ELSE CHOOSE n \in here : \A m \in here : n <= m

Has(k) == Found(k) < slots[hash[k]].size

\* unordered_map_find.
At(k) == slots[hash[k]].data[Found(k)][2]

\* What a vector_remove beyond the first pair leaves: keys and values of which
\* no pointer can be followed.
Scrambled == \E i \in Slot : \E n \in 1 .. slots[i].size : Contents(slots[i])[n] = Garbage

\* Variant: the value of a key that is there stays.
InsertNew(k, value) ==
  /\ IF Has(k)
       THEN UNCHANGED <<slots, occupancy>>
       ELSE /\ slots' = [slots EXCEPT ![hash[k]] = PushBack(@, <<k, value>>)]
            /\ occupancy' = occupancy + 1
  /\ UNCHANGED hash

\* unordered_map_insert: the value of a key that is there is replaced.
Insert(k, value) ==
  /\ IF Has(k)
       THEN /\ slots' = [slots EXCEPT ![hash[k]] = SetAt(@, Found(k), <<k, value>>)]
            /\ UNCHANGED occupancy
       ELSE /\ slots' = [slots EXCEPT ![hash[k]] = PushBack(@, <<k, value>>)]
            /\ occupancy' = occupancy + 1
  /\ UNCHANGED hash

\* unordered_map_remove: _occupancy stays.
Erase(k) ==
  /\ slots' = [slots EXCEPT ![hash[k]] = Removed(@, Found(k))]
  /\ UNCHANGED <<hash, occupancy>>

RemoveKey(k) ==
  /\ IF Has(k) THEN Erase(k) ELSE UNCHANGED <<hash, slots, occupancy>>
  /\ Ask("remove", k, 0)

\* bound: occupancy only grows
Insertable(k) == Has(k) \/ occupancy < MaxInserted

Next ==
  /\ ~Scrambled
  /\ \/ \E k \in Key, x \in MapValue : Insertable(k) /\ Insert(k, x) /\ Ask("put", k, x)
     \/ \E k \in Key : RemoveKey(k)

Spec == Init /\ [][Next]_vars

-----------------------------------------------------------------------------
(* The iterator: slot _i, NumSlots at the end, and index _j in it.         *)

\* The first slot that is not empty from i on.
NextFilled(i) ==
  LET filled == {s \in Slot : s >= i /\ slots[s].size > 0}
  IN IF filled = {} THEN NumSlots ELSE CHOOSE s \in filled : \A t \in filled : s <= t

\* unordered_map_iterator_begin.
IteratorBegin == [i |-> NextFilled(0), j |-> 0]

\* unordered_map_iterator_at_end.
AtEnd(it) == it.i = NumSlots

\* Variant: the index is kept when the slot changes.
NextKeepsIndex(it) ==
  IF it.j + 1 < slots[it.i].size THEN [it EXCEPT !.j = @ + 1]
                                 ELSE [it EXCEPT !.i = NextFilled(@ + 1)]

\* unordered_map_iterator_next.
IteratorNext(it) ==
  IF it.j + 1 < slots[it.i].size THEN [it EXCEPT !.j = @ + 1]
                                 ELSE [i |-> NextFilled(it.i + 1), j |-> 0]

\* unordered_map_iterator_key and _value: the pair.
Pair(it) == slots[it.i].data[it.j]

RECURSIVE IteratedFrom(_)
IteratedFrom(it) == IF AtEnd(it) THEN <<>> ELSE <<Pair(it)>> \o IteratedFrom(IteratorNext(it))

Iterated == IteratedFrom(IteratorBegin)

-----------------------------------------------------------------------------
\* The dictionary that finds show.
Contained == [k \in {x \in Key : Has(x)} |-> At(k)]

TypeOK ==
  /\ SomeHash
  /\ \A i \in Slot : /\ slots[i].size \in 0 .. slots[i].cap
                     /\ DOMAIN slots[i].data = 0 .. slots[i].cap - 1
  /\ occupancy \in 0 .. MaxInserted
  /\ \A k \in Key : Has(k) => occupancy > 0

\* An iteration shows every key once, with the value a find shows, and no more
\* than the occupancy says.
SeesAll ==
  ~Scrambled =>
    /\ Len(Iterated) = Cardinality(DOMAIN Contained) /\ Len(Iterated) <= occupancy
    /\ \A n \in 1 .. Len(Iterated) :
         Iterated[n][1] \in DOMAIN Contained /\ Contained[Iterated[n][1]] = Iterated[n][2]

=============================================================================
