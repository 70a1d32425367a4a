------------------------------ MODULE Sequence ------------------------------
(***************************************************************************)
(* What vector_t, queue_t and paged_list_t promise: a sequence of elements *)
(* that changes as the latest call asked.                                  *)
(***************************************************************************)
EXTENDS Calls, Integers, SequencesExt

VARIABLES
  items,    \* the elements
  spare,    \* those of the other sequence
  lost      \* the collection no longer promises anything

SequenceInit == items = <<>> /\ spare = <<>> /\ lost = FALSE

Push == asked'.op = "push" /\ items' = Append(items, asked'.value)

AppendSpare == asked'.op = "append" /\ items' = items \o spare

Pop == asked'.op = "pop" /\ items # <<>> /\ items' = Tail(items)

Set ==
  /\ asked'.op = "set"
  /\ asked'.at + 1 \in 1 .. Len(items)
  /\ items' = [items EXCEPT ![asked'.at + 1] = asked'.value]

\* The last element takes the place of the one that is removed.  Asked for a
\* place behind the last one, the code removes one all the same.
SwapRemove ==
  /\ asked'.op = "remove"
  /\ \E n \in 1 .. Len(items) :
       /\ asked'.at < Len(items) => n = asked'.at + 1
       /\ items' = Front([items EXCEPT ![n] = Last(items)])

Clear == asked'.op = "clear" /\ items' = <<>>

Swap == asked'.op = "swap" /\ items' = spare /\ spare' = items

SequenceNext ==
  \/ lost \/ lost'
  \/ /\ UNCHANGED lost
     /\ \/ UNCHANGED spare /\ (Push \/ AppendSpare \/ Pop \/ Set \/ SwapRemove \/ Clear)
        \/ Swap

SequenceSpec == SequenceInit /\ [][SequenceNext]_<<items, spare, lost, asked>>

=============================================================================
