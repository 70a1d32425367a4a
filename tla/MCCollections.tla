---------------------------- MODULE MCCollections ----------------------------
(***************************************************************************)
(* The collections, each a state machine of its own: which says whose turn *)
(* it is in a behaviour.  The first three implement Sequence, the others   *)
(* Dictionary, as long as no removal mixes up elements.                    *)
(***************************************************************************)
EXTENDS Integers, Sequences

CONSTANTS Garbage, e1, e2, k1, k2, k3

VARIABLES
  which,
  asked,
  vec, other, crossed, stale,
  elements, head, tail,
  pages, count, allocated,
  mapHash, mapSlots, mapOccupancy,
  hash, slots, occupancy, heap, emptied,
  root, data, nodeCount

vectorVars == <<vec, other, crossed, stale>>
queueVars  == <<elements, head, tail>>
pagedVars  == <<pages, count, allocated>>
mapVars    == <<mapHash, mapSlots, mapOccupancy>>
hiveVars   == <<hash, slots, occupancy, heap, emptied>>
treeVars   == <<root, data, nodeCount>>
vars       == <<which, asked, vectorVars, queueVars, pagedVars, mapVars, hiveVars, treeVars>>

Element == {e1, e2}
Key     == {k1, k2, k3}
CallValues == {<<>>, <<e1>>, <<e2>>, <<e1, e2>>}

Vec   == INSTANCE VectorUse WITH Capacity <- 2, MaxSize <- 4, SizeMax <- 99
Que   == INSTANCE Queue WITH Capacity <- 3
Paged == INSTANCE PagedList WITH Slots <- 2, MaxItems <- 5
Map   == INSTANCE UnorderedMap WITH hash <- mapHash, slots <- mapSlots,
           occupancy <- mapOccupancy, MapValue <- Element, NumSlots <- 3, SlotCapacity <- 2,
           MaxInserted <- 4
Hive  == INSTANCE Hive WITH Key <- {k1, k2}, Values <- CallValues, NumSlots <- 2,
           SlotCapacity <- 2, SmallEntry <- 1, ListCapacity <- 2,
           MaxList <- 3, MaxOccupancy <- 2, Packs <- 1 .. 2
Tree  == INSTANCE SearchTree WITH TreeKey <- 1 .. 5, TreeValue <- Element

\* The constants are as the modules assume them.
ASSUME
  /\ Vec!VectorAssumption /\ Que!QueueAssumption /\ Paged!PagedListAssumption
  /\ Map!MapAssumption /\ Hive!HiveAssumption /\ Hive!Map!MapAssumption /\ Tree!TreeAssumption

\* One slot is like another: k1 has the first.
Init ==
  /\ which \in {"vector", "queue", "paged", "map", "hive", "tree"}
  /\ Vec!Init /\ Que!Init /\ Paged!Init /\ Tree!Init
  /\ Map!Init /\ mapHash[k1] = 0 /\ (which # "map" => mapHash = [k \in Key |-> 0])
  /\ Hive!Init /\ hash[k1] = 0 /\ (which # "hive" => hash = [k \in {k1, k2} |-> 0])

Next ==
  /\ UNCHANGED which
  /\ \/ which = "vector" /\ Vec!Next
        /\ UNCHANGED <<queueVars, pagedVars, mapVars, hiveVars, treeVars>>
     \/ which = "queue" /\ Que!Next
        /\ UNCHANGED <<vectorVars, pagedVars, mapVars, hiveVars, treeVars>>
     \/ which = "paged" /\ Paged!Next
        /\ UNCHANGED <<vectorVars, queueVars, mapVars, hiveVars, treeVars>>
     \/ which = "map" /\ Map!Next
        /\ UNCHANGED <<vectorVars, queueVars, pagedVars, hiveVars, treeVars>>
     \/ which = "hive" /\ Hive!Next
        /\ UNCHANGED <<vectorVars, queueVars, pagedVars, mapVars, treeVars>>
     \/ which = "tree" /\ Tree!Next
        /\ UNCHANGED <<vectorVars, queueVars, pagedVars, mapVars, hiveVars>>

Spec == Init /\ [][Next]_vars

-----------------------------------------------------------------------------
\* The sequence and the dictionary of the collection at work, and whether it
\* still is one.
Items == CASE which = "vector" -> Vec!Items(vec)
           [] which = "queue"  -> Que!Items
           [] which = "paged"  -> Paged!Iterated(Paged!IteratorBegin)
           [] OTHER            -> <<>>

Contained == CASE which = "map"  -> IF Map!Scrambled THEN <<>> ELSE Map!Contained
               [] which = "hive" -> IF Hive!Map!Scrambled THEN <<>> ELSE Hive!Contained
               [] which = "tree" -> Tree!Contained
               [] OTHER          -> <<>>

Lost == CASE which = "vector" -> Vec!Unpromised
          [] which = "map"    -> Map!Scrambled
          [] which = "hive"   -> Hive!Map!Scrambled
          [] OTHER            -> FALSE

\* The calls of the others are none of a sequence or a dictionary.
Ordered == which \in {"vector", "queue", "paged"}
Nothing == [op |-> "nothing"]

Promised == INSTANCE Sequence WITH items <- Items, spare <- Vec!Items(other), lost <- Lost,
              asked <- IF Ordered THEN asked ELSE Nothing
Keeping  == INSTANCE Dictionary WITH dict <- Contained, lost <- Lost,
              asked <- IF Ordered THEN Nothing ELSE asked

\* A vector, a queue and a paged list are, to their own accessors, the sequence
\* that the calls so far ask for, every element put in at its place: always for
\* the queue and the list, for a vector until an element other than the first is
\* removed, a vector that has elements is appended to, an empty one is removed
\* from, or one of two that were swapped grows.
ImplementsSequence == Promised!SequenceSpec

\* A map, a hive and a tree show, to their own find, for every key the value the
\* calls so far ask for: the latest one put in, all that a list was given, and
\* in a tree the first.
ImplementsDictionary == Keeping!DictionarySpec

\* Every variable of the collections is of its type.
TypeOK ==
  Vec!TypeOK /\ Que!TypeOK /\ Paged!TypeOK /\ Map!TypeOK /\ Hive!TypeOK /\ Tree!TypeOK

\* What SeesAll says of the paged list, the map, the hive and the tree.
IteratorsSeeAll == Paged!SeesAll /\ Map!SeesAll /\ Hive!SeesAll /\ Tree!SeesAll

\* What PacksOwned says of the hive.
HiveKeepsPacks == Hive!PacksOwned

=============================================================================
