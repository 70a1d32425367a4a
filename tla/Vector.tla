------------------------------- MODULE Vector -------------------------------
(***************************************************************************)
(* The operations of vector_t (collections.h) on a record of _capacity,    *)
(* _size and the elements in _data, which the other collections are built  *)
(* on.  An element is one value; where the code copies to an offset that   *)
(* is not that of an element, the elements it hits become Garbage.         *)
(***************************************************************************)
EXTENDS Integers, Sequences, TLC

CONSTANT Garbage     \* bytes that are no element: never written, or mixed up

\* vector_create: fresh memory.
VectorCreate(capacity) ==
  [cap |-> capacity, size |-> 0, data |-> [n \in 0 .. capacity - 1 |-> Garbage]]

\* The elements, in order.
Contents(v) == [n \in 1 .. v.size |-> v.data[n - 1]]

\* Variant: the vector does not grow before it is overfull.
GrownLate(v) ==
  IF v.size <= v.cap THEN v
  ELSE [v EXCEPT !.cap = @ + @ \div 2]

\* A vector with half as much again of memory, which holds what the elements of
\* block were.  A capacity of 1 stays 1.
Regrown(v, block) ==
  LET cap == v.cap + v.cap \div 2
  IN [v EXCEPT !.cap = cap,
               !.data = [n \in 0 .. cap - 1 |-> IF n < block.cap THEN block.data[n] ELSE Garbage]]

\* _vector_check_grow: a full vector is given more memory and keeps its elements.
Grown(v) == IF v.size < v.cap THEN v ELSE Regrown(v, v)

\* _vector_set_at, which queue_push uses beyond the size.
SetAt(v, i, e) == [v EXCEPT !.data[i] = e]

Added(v, e) == [SetAt(v, v.size, e) EXCEPT !.size = @ + 1]

\* vector_push_back and vector_push_back_pair.
PushBack(v, e) == Added(Grown(v), e)

\* vector_reset and vector_clear.
Cleared(v) == [v EXCEPT !.size = 0]

\* vector_remove: with more than one element the last is copied to the byte
\* offset at.  That is the first element when at is 0; else the copy ends up
\* across the first two.
Removed(v, at) ==
  [v EXCEPT !.size = @ - 1,
            !.data = IF v.size = 1 THEN @
                     ELSE IF at = 0 THEN [@ EXCEPT ![0] = v.data[v.size - 1]]
                     ELSE [@ EXCEPT ![0] = Garbage, ![1] = Garbage]]

\* Push back the elements of s one by one.
PushAll(v, s) ==
  LET f[n \in 0 .. Len(s)] == IF n = 0 THEN v ELSE PushBack(f[n - 1], s[n])
  IN f[Len(s)]

\* How much of src fits in dest.
Chunk(dest, src) ==
  IF dest.cap - dest.size < src.size THEN dest.cap - dest.size ELSE src.size

\* The first part of vector_append: what fits is copied at once, to the byte
\* offset _size: to the end of an empty vector, else across the elements from
\* the first on.
Chunked(dest, src) ==
  LET s     == Contents(src)
      chunk == Chunk(dest, src)
  IN [dest EXCEPT !.size = @ + chunk,
       !.data = [n \in DOMAIN @ |->
         IF chunk = 0 THEN @[n]
         ELSE IF dest.size = 0 THEN IF n < chunk THEN s[n + 1] ELSE @[n]
         ELSE IF n <= chunk THEN Garbage ELSE @[n]]]

\* vector_append: the rest is pushed back.
Appended(dest, src) ==
  PushAll(Chunked(dest, src), SubSeq(Contents(src), Chunk(dest, src) + 1, src.size))

=============================================================================
