-------------------------------- MODULE Hive --------------------------------
(***************************************************************************)
(* hive_t (hive.h): keys with a pack of values or a list of values, in an  *)
(* unordered map.  A pack of few values is kept in the entry itself; a     *)
(* longer one in memory of its own, and then _size is positive.  A call's  *)
(* variable arguments are the sequence of their values.                    *)
(***************************************************************************)
EXTENDS Vector, Calls, FiniteSetsExt, Functions

CONSTANTS
  Key,
  Values,         \* the sequences of values that calls have
  NumSlots, SlotCapacity,
  SmallEntry,     \* values that fit in an entry: 7 in the code
  ListCapacity,   \* first capacity of a list: 16 in the code
  MaxList,        \* bound: values of a list
  MaxOccupancy,   \* bound: insertions
  Packs           \* bound: addresses of packs

HiveAssumption == SmallEntry \in Nat /\ ListCapacity \in Nat \ {0, 1}

VARIABLES
  hash, slots, occupancy,   \* _keys
  heap,        \* the packs that are allocated: their values
  emptied      \* history: packs of entries that were set to no value

vars == <<hash, slots, occupancy, heap, emptied, asked>>

Map == INSTANCE UnorderedMap WITH MapValue <- {}, MaxInserted <- MaxOccupancy

\* An entry.  pack is the values in the entry, the address of a pack, or a
\* list.  A list has no _size.
PackEntry(size, pack) == [type |-> "key", size |-> size, pack |-> pack]
ListEntry(list) == [type |-> "list", size |-> 0, pack |-> list]

\* hive_create.
Init == Map!Init /\ heap = <<>> /\ emptied = {}

\* _hive_find asks the map only if its size is not 0.
Finds(k) == occupancy > 0 /\ Map!Has(k)

Fresh == CHOOSE p \in Packs : p \notin DOMAIN heap

\* A pack is parsed (_hive_param_pack_size, _hive_parse_parameter_pack) into a
\* new allocation or into the entry.
Place(k, values) ==
  IF Len(values) > SmallEntry
    THEN /\ Packs \ DOMAIN heap # {}
         /\ heap' = (Fresh :> values) @@ heap
         /\ Map!Insert(k, PackEntry(Len(values), Fresh))
    ELSE /\ Map!Insert(k, PackEntry(-Len(values), values))
         /\ UNCHANGED heap

\* hive_set of an entry whose pack is allocated: it is reallocated if it is too
\* small (the address may stay), else used as it is, with a smaller _size.
SetAllocated(k, e, values) ==
  /\ heap' = [heap EXCEPT ![e.pack] = values]
  /\ Map!Insert(k, PackEntry(Len(values), e.pack))
  /\ emptied' = IF values = <<>> THEN emptied \cup {e.pack} ELSE emptied

\* hive_set.  On a list it would take the unset _size for that of a pack.
Set(k, values) ==
  /\ IF ~Finds(k) THEN Place(k, values) /\ UNCHANGED emptied
     ELSE LET e == Map!At(k)
          IN /\ e.type = "key"
             /\ IF e.size > 0 THEN SetAllocated(k, e, values)
                ELSE Place(k, values) /\ UNCHANGED emptied
  /\ Ask("put", k, <<"key", values>>)

\* hive_lpush asserts that the entry is a list.
ListPush(k, values) ==
  /\ IF Finds(k)
       THEN LET e == Map!At(k)
            IN /\ e.type = "list" /\ e.pack.size + Len(values) <= MaxList
               /\ Map!Insert(k, ListEntry(PushAll(e.pack, values)))
       ELSE Map!Insert(k, ListEntry(PushAll(VectorCreate(ListCapacity), values)))
  /\ UNCHANGED <<heap, emptied>>
  /\ Ask("extend", k, values)

\* Variant: the pack of a deleted entry is kept.
NothingFreed(e) == UNCHANGED heap

\* The memory of a deleted entry: only a positive _size says that it has some.
Freed(e) ==
  IF e.type = "key" /\ e.size > 0
    THEN heap' = [p \in DOMAIN heap \ {e.pack} |-> heap[p]]
    ELSE UNCHANGED heap

\* hive_delete.
Delete(k) ==
  /\ Finds(k)
  /\ Freed(Map!At(k))
  /\ Map!Erase(k)
  /\ UNCHANGED emptied
  /\ Ask("remove", k, 0)

\* bound: occupancy only grows
Insertable(k) == Finds(k) \/ occupancy < MaxOccupancy

Next ==
  /\ ~Map!Scrambled
  /\ \/ \E k \in Key, s \in Values : Insertable(k) /\ (Set(k, s) \/ ListPush(k, s))
     \/ \E k \in Key : Delete(k)

Spec == Init /\ [][Next]_vars

-----------------------------------------------------------------------------
\* hive_get: an entry of _size 0 has nothing, wherever its pack is.
Got(e) == IF e.size > 0 THEN heap[e.pack] ELSE IF e.size < 0 THEN e.pack ELSE <<>>

\* hive_lget into an empty vector.
ListGot(e) == Contents(Appended(VectorCreate(ListCapacity), e.pack))

Shown(e) == IF e.type = "key" THEN <<"key", Got(e)>> ELSE <<"list", ListGot(e)>>

\* hive_visit_values: each key of the map with its values.
Visited ==
  IF occupancy = 0 THEN <<>>
  ELSE LET pairs == Map!Iterated
       IN [n \in DOMAIN pairs |-> <<pairs[n][1], Shown(Map!At(pairs[n][1]))>>]

\* The dictionary that hive_get and hive_lget show.
Contained == [k \in {x \in Key : Finds(x)} |-> Shown(Map!At(k))]

\* hive_memory_footprint, in values of the entries.  (It takes the sign of
\* _size the other way round, and adds the same either way.)
Footprint ==
  LET pairs == Map!Iterated
      Size(e) == IF e.type = "list" THEN e.pack.cap ELSE IF e.size < 0 THEN -e.size ELSE e.size
  IN FoldFunction(+, 0, [n \in DOMAIN pairs |-> Size(pairs[n][2])])

TypeOK ==
  /\ Map!SomeHash
  /\ occupancy \in 0 .. MaxOccupancy
  /\ DOMAIN heap \subseteq Packs /\ emptied \subseteq Packs
  /\ \A k \in Key : Map!Has(k) => occupancy > 0

\* A visit shows every key once, with the values a get shows, and no more than
\* the occupancy says, which callers size their output by.
SeesAll ==
  ~Map!Scrambled =>
    LET seen == Visited
        all  == Contained
    IN /\ Len(seen) = Cardinality(DOMAIN all) /\ Len(seen) <= occupancy
       /\ {seen[n] : n \in DOMAIN seen} = {<<k, all[k]>> : k \in DOMAIN all}

\* The packs that entries have.
PacksNamed ==
  {Map!At(k).pack :
     k \in {x \in Key : Map!Has(x) /\ Map!At(x).type = "key" /\ Map!At(x).size > 0}}

\* Every pack belongs to an entry, save those whose entry was emptied: of these
\* the entry forgets that there is a pack.  The footprint covers them all.
PacksOwned ==
  ~Map!Scrambled =>
    /\ Footprint >= MapThenSumSet(LAMBDA p : Len(heap[p]), DOMAIN heap \ emptied)
    /\ DOMAIN heap \ emptied \subseteq PacksNamed
    /\ PacksNamed \subseteq DOMAIN heap

=============================================================================
