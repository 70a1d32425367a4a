------------------------------ MODULE VectorUse ------------------------------
(***************************************************************************)
(* Two vectors in use, of one element type and alignment: vec, which all   *)
(* operations are called on, and other, which vector_append takes elements *)
(* from.  A vector has its elements at _data, in memory it frees at        *)
(* _memory; vector_swap exchanges _data only.                              *)
(***************************************************************************)
EXTENDS Vector, Calls

CONSTANTS
  Element,
  Capacity,   \* the capacity both are created with
  MaxSize,    \* bound: elements of a vector
  SizeMax     \* the largest size_t: 2^64 - 1

\* A vector of capacity 1 would never grow; the kernel creates none.
VectorAssumption ==
  /\ Garbage \notin Element
  /\ Capacity \in Nat /\ Capacity > 1 /\ MaxSize \in Nat
  /\ SizeMax \in Nat /\ SizeMax > Capacity + 2 * MaxSize

VARIABLES
  vec, other,
  crossed,    \* the _memory of each is where the elements of the other are
  stale       \* the elements of other were in memory that has been freed

vars == <<vec, other, crossed, stale, asked>>

Init ==
  /\ vec = VectorCreate(Capacity) /\ other = VectorCreate(Capacity)
  /\ crossed = FALSE /\ stale = FALSE
  /\ NothingAsked

\* The size of an empty vector that an element was removed from.
Wrapped(v) == v.size = SizeMax

\* n more elements make vec grow while its _memory is that of other's elements.
GrowsAcross(n) == crossed /\ vec.cap - vec.size < n

PushOne(e) ==
  /\ vec.size < MaxSize /\ ~GrowsAcross(1)
  /\ vec' = PushBack(vec, e)
  /\ UNCHANGED <<other, crossed, stale>>
  /\ Ask("push", 0, e)

\* _vector_check_grow after a vector_swap.  It reallocates other's elements for
\* vec, or, for vectors with an alignment, copies vec's own and frees other's.
PushAcross(e) ==
  /\ vec.size < MaxSize /\ GrowsAcross(1)
  /\ \E block \in {vec, other} : vec' = Added(Regrown(vec, block), e)
  /\ stale' = TRUE
  /\ UNCHANGED <<other, crossed>>
  /\ Ask("push", 0, e)

\* vector_set_at asserts that the element is there, and _vector_set_at that it
\* is within the capacity.
Set(i, e) ==
  /\ i < vec.size /\ i < vec.cap
  /\ vec' = SetAt(vec, i, e)
  /\ UNCHANGED <<other, crossed, stale>>
  /\ Ask("set", i, e)

\* vector_remove refuses only what is greater than the size; the size of an
\* empty vector wraps around.  A second removal would copy from outside the
\* memory, which is left out, as are pushes and appends there.
Remove(at) ==
  /\ at <= vec.size /\ ~Wrapped(vec)
  /\ vec' = IF vec.size = 0 THEN [vec EXCEPT !.size = SizeMax] ELSE Removed(vec, at)
  /\ UNCHANGED <<other, crossed, stale>>
  /\ Ask("remove", at, 0)

Append2 ==
  /\ vec.size + other.size <= MaxSize /\ ~GrowsAcross(other.size)
  /\ vec' = Appended(vec, other)
  /\ UNCHANGED <<other, crossed, stale>>
  /\ Ask("append", 0, 0)

\* The elements that did not fit are read after the memory they are in has been
\* freed.
AppendAcross ==
  /\ vec.size + other.size <= MaxSize /\ GrowsAcross(other.size)
  /\ LET full == Chunked(vec, other)
         rest == [n \in 1 .. other.size - Chunk(vec, other) |-> Garbage]
     IN \E block \in {full, other} : vec' = PushAll(Regrown(full, block), rest)
  /\ stale' = TRUE
  /\ UNCHANGED <<other, crossed>>
  /\ Ask("append", 0, 0)

Clear ==
  /\ vec' = Cleared(vec)
  /\ UNCHANGED <<other, crossed, stale>>
  /\ Ask("clear", 0, 0)

\* vector_swap exchanges _data, _capacity and _size, and neither _memory nor
\* _stride and _alignment, which are the same here.
Swap ==
  /\ vec' = other /\ other' = vec
  /\ crossed' = ~crossed
  /\ UNCHANGED stale
  /\ Ask("swap", 0, 0)

\* Nothing can be said of what follows a growth across.
Next ==
  /\ ~stale
  /\ \/ \E e \in Element : PushOne(e) \/ PushAcross(e)
     \/ \E i \in 0 .. MaxSize - 1, e \in Element : Set(i, e)
     \/ \E at \in 0 .. MaxSize : Remove(at)
     \/ Append2
     \/ AppendAcross
     \/ Clear
     \/ Swap

Spec == Init /\ [][Next]_vars

-----------------------------------------------------------------------------
\* The elements, if the size counts them.
Items(v) == IF Wrapped(v) THEN <<>> ELSE Contents(v)

\* A removal or an append has left bytes that are no element.
Mixed(v) == \E n \in 1 .. v.size : Items(v)[n] = Garbage

\* What the code does to a vector that is used as vectors are not made for:
\* elements mixed up, a size that has wrapped around, memory freed that is in
\* use.
Unpromised == stale \/ \E v \in {vec, other} : Wrapped(v) \/ Mixed(v)

IsVector(v) ==
  /\ v.cap \in Nat /\ v.size \in 0 .. v.cap \cup {SizeMax}
  /\ v.data \in [0 .. v.cap - 1 -> Element \cup {Garbage}]

\* Both records are vectors that count no more elements than they have memory
\* for, but for the one that a removal from no element leaves.
TypeOK == IsVector(vec) /\ IsVector(other) /\ crossed \in BOOLEAN /\ stale \in BOOLEAN

=============================================================================
