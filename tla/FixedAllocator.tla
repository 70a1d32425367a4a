--------------------------- MODULE FixedAllocator ---------------------------
(***************************************************************************)
(* The pool of equal blocks of fixed_allocator.h.  The first word of a     *)
(* free block holds the index of the next one; while a block is in use the *)
(* word is its user's.                                                     *)
(***************************************************************************)
EXTENDS Integers

CONSTANTS
  Count,     \* _count, the number of blocks
  End,       \* ~0u, the end of the list
  Fill       \* what users may leave in the first word of a block

FixedAssumption ==
  /\ Count \in Nat \ {0}
  /\ End \in Nat /\ End >= Count
  /\ Fill \subseteq 0 .. End

Block == 0 .. Count - 1

VARIABLES
  free,      \* _free
  word,      \* the first word of each block
  inUse,     \* the blocks handed out
  freed,     \* fixed_allocator_free has been called since the last clear
  wild       \* a block outside the pool was read or written

vars == <<free, word, inUse, freed, wild>>

\* The list that fixed_allocator_create and fixed_allocator_clear lay out.
Chain == [b \in Block |-> IF b + 1 = Count THEN End ELSE b + 1]

Init ==
  /\ free = 0
  /\ word = Chain
  /\ inUse = {}
  /\ freed = FALSE
  /\ wild = FALSE

\* Variant: the list goes on from the block behind.
NextIndex(b) == IF b + 1 \in Block THEN b + 1 ELSE End

\* The list goes on where the first word of the block says.
Following(b) == word[b]

\* fixed_allocator_alloc: a request larger than a block, or an empty list,
\* gets nothing; else the first block of the list, which its user fills.
Alloc(fill) ==
  /\ free \in Block
  /\ free' = Following(free)
  /\ word' = [word EXCEPT ![free] = fill]
  /\ inUse' = inUse \cup {free}
  /\ UNCHANGED <<freed, wild>>

\* _free is no block of the pool and not the end: the link is read elsewhere.
AllocAstray ==
  /\ free \notin Block \cup {End}
  /\ wild' = TRUE
  /\ UNCHANGED <<free, word, inUse, freed>>

\* fixed_allocator_free: the block points to the first free one, and the
\* first free one points to the block; _free stays.  With the list empty the
\* second store goes to the block of index ~0.
Free(b) ==
  /\ b \in inUse
  /\ word' = [n \in Block |-> IF n = free THEN b
                              ELSE IF n = b THEN free ELSE word[n]]
  /\ wild' = (wild \/ free \notin Block)
  /\ inUse' = inUse \ {b}
  /\ freed' = TRUE
  /\ UNCHANGED free

Clear ==
  /\ free' = 0
  /\ word' = Chain
  /\ inUse' = {}
  /\ freed' = FALSE
  /\ UNCHANGED wild

Next ==
  /\ ~wild
  /\ \/ \E fill \in Fill : Alloc(fill)
     \/ AllocAstray
     \/ \E b \in inUse : Free(b)
     \/ Clear

Spec == Init /\ [][Next]_vars

-----------------------------------------------------------------------------
TypeOK ==
  /\ free \in 0 .. End
  /\ word \in [Block -> 0 .. End]
  /\ inUse \subseteq Block
  /\ freed \in BOOLEAN
  /\ wild \in BOOLEAN

=============================================================================
