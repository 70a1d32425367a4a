----------------------------- MODULE Allocators -----------------------------
(***************************************************************************)
(* The four allocators, each a state machine of its own: which says whose  *)
(* turn it is in a behaviour.  The arena is the one this module extends.   *)
(* All of them implement Heap as long as they are used within what each    *)
(* keeps up with.                                                          *)
(***************************************************************************)
EXTENDS ArenaAllocator

CONSTANTS
  Memory, LinearCapacity, LinearRequests,   \* of the linear allocator
  Count, ListEnd, Fill,                     \* of the fixed one
  PageCount, PagesAtATime                   \* of the page allocator

VARIABLES
  which,                                    \* the allocator at work
  begin, ptr, taken,
  free, word, inUse, freed, wild,
  zones, tag, used, torn

linearVars == <<begin, ptr, taken>>
fixedVars  == <<free, word, inUse, freed, wild>>
pageVars   == <<zones, tag, used, torn>>
allVars    == <<which, linearVars, fixedVars, vars, pageVars>>

Linear == INSTANCE LinearAllocator WITH Capacity <- LinearCapacity, Requests <- LinearRequests
Fixed  == INSTANCE FixedAllocator WITH End <- ListEnd
Paged  == INSTANCE PageAllocator WITH Pages <- PageCount, MaxLive <- PagesAtATime

AllAssumption ==
  /\ ArenaAssumption
  /\ Linear!LinearAssumption /\ Fixed!FixedAssumption /\ Paged!PageAssumption

AllInit ==
  /\ which \in {"linear", "fixed", "arena", "pages"}
  /\ Init /\ Linear!Init /\ Fixed!Init /\ Paged!Init

AllNext ==
  /\ UNCHANGED which
  /\ \/ which = "arena" /\ Next /\ UNCHANGED <<linearVars, fixedVars, pageVars>>
     \/ which = "linear" /\ Linear!Next /\ UNCHANGED <<vars, fixedVars, pageVars>>
     \/ which = "fixed" /\ Fixed!Next /\ UNCHANGED <<vars, linearVars, pageVars>>
     \/ which = "pages" /\ Paged!Next /\ UNCHANGED <<vars, linearVars, fixedVars>>

AllSpec == AllInit /\ [][AllNext]_allVars

-----------------------------------------------------------------------------
\* The memory of each allocator.
LinearPool == [lo |-> begin + Linear!HeaderSize, hi |-> Linear!End]
FixedPool  == [lo |-> 0, hi |-> Count]
ArenaPool  == [lo |-> 8, hi |-> Capacity - 8]
PagedPool  == [lo |-> 1, hi |-> PageCount + 1]

\* The blocks of the fixed allocator that are in use, as ranges.
FixedRanges == {[at |-> b, len |-> 1] : b \in inUse}

\* The memory of the allocator at work, the ranges of it that are in use and
\* whether it has left the uses it keeps up with.
Pool == CASE which = "linear" -> LinearPool
          [] which = "fixed"  -> FixedPool
          [] which = "arena"  -> ArenaPool
          [] which = "pages"  -> PagedPool

Live == CASE which = "linear" -> taken
          [] which = "fixed"  -> FixedRanges
          [] which = "arena"  -> InUse
          [] which = "pages"  -> used

Lost == CASE which = "linear" -> FALSE
          [] which = "fixed"  -> freed
          [] which = "arena"  -> ~intact
          [] which = "pages"  -> torn

Promise == INSTANCE Heap WITH pool <- Pool, live <- Live, lost <- Lost

\* Every allocator hands out ranges of its pool that overlap none in use: the
\* linear one always, the fixed one until a block is freed, the arena while
\* nothing is damaged, the page allocator while it mends what it split.
ImplementsHeap == Promise!HeapSpec

\* Every variable of the four allocators is of its type.
AllTypeOK == TypeOK /\ Linear!TypeOK /\ Fixed!TypeOK /\ Paged!TypeOK

\* What PagesApart says of the page allocator.
PagesApart == Paged!PagesApart

=============================================================================
