-------------------------------- MODULE Queue --------------------------------
(***************************************************************************)
(* queue_t (collections.h): a ring over a vector whose _size counts the    *)
(* elements wherever they are in its memory.                               *)
(***************************************************************************)
EXTENDS Vector, Calls

CONSTANTS Element, Capacity

QueueAssumption == Garbage \notin Element /\ Capacity \in Nat \ {0}

VARIABLES elements, head, tail

vars == <<elements, head, tail, asked>>

Init ==
  /\ elements = VectorCreate(Capacity)
  /\ head = 0
  /\ tail = 0
  /\ NothingAsked

\* Variant: the index wraps at the number of elements.
WrappedAtSize(i) == IF elements.size = 0 THEN 0 ELSE (i + 1) % elements.size

Wrapped(i) == (i + 1) % elements.cap

\* queue_push and queue_push_ptr assert that the queue is not full.
Push(e) ==
  /\ elements.size < elements.cap
  /\ elements' = [SetAt(elements, tail, e) EXCEPT !.size = @ + 1]
  /\ tail' = Wrapped(tail)
  /\ UNCHANGED head
  /\ Ask("push", 0, e)

\* queue_pop of an empty queue does nothing.
Pop ==
  /\ elements.size > 0
  /\ head' = Wrapped(head)
  /\ elements' = [elements EXCEPT !.size = @ - 1]
  /\ UNCHANGED tail
  /\ Ask("pop", 0, 0)

\* queue_clear.
Clear ==
  /\ elements' = Cleared(elements)
  /\ head' = 0
  /\ tail' = 0
  /\ Ask("clear", 0, 0)

Next == (\E e \in Element : Push(e)) \/ Pop \/ Clear

Spec == Init /\ [][Next]_vars

-----------------------------------------------------------------------------
\* queue_front, again and again.
Items == [n \in 1 .. elements.size |-> elements.data[(head + n - 1) % elements.cap]]

TypeOK ==
  /\ elements.cap = Capacity
  /\ elements.size \in 0 .. Capacity
  /\ {head, tail} \subseteq 0 .. Capacity - 1

=============================================================================
