-------------------------- MODULE LinearAllocator --------------------------
(***************************************************************************)
(* The linear allocator of linear_allocator.h: a pointer that moves up     *)
(* through one block of memory; nothing is freed but all of it at once.    *)
(* Addresses are bytes.                                                    *)
(***************************************************************************)
EXTENDS Integers

CONSTANTS
  Memory,    \* the addresses the block may start at
  Capacity,  \* its size, with the header
  Requests   \* the sizes asked for

HeaderSize == 56   \* sizeof(linear_allocator_t)

LinearAssumption ==
  /\ Memory \subseteq Nat
  /\ Capacity \in Nat /\ Capacity > HeaderSize
  /\ Requests \subseteq Nat

VARIABLES
  begin,    \* _begin
  ptr,      \* _ptr
  taken     \* the ranges handed out since the last clear

vars == <<begin, ptr, taken>>

Align8(a) == ((a + 7) \div 8) * 8

End == begin + Capacity

\* linear_allocator_create.
Init ==
  /\ begin \in Memory
  /\ ptr = Align8(begin + HeaderSize)
  /\ taken = {}

\* Variant: the room is measured before the pointer is aligned.
RoomUnaligned(n) == End - ptr >= n

\* Variant: the room is an unsigned difference.
RoomUnsigned(n) == LET room == End - Align8(ptr) IN room < 0 \/ room >= n

\* The request fits behind the aligned pointer; the difference is signed.  So is
\* the request once it is cast, which changes none below 2^63.
Room(n) == End - Align8(ptr) >= n

Alloc(n) ==
  /\ Room(n)
  /\ ptr' = Align8(ptr) + n
  /\ taken' = taken \cup {[at |-> Align8(ptr), len |-> n]}
  /\ UNCHANGED begin

\* linear_allocator_clear: the header is not aligned again.
Clear ==
  /\ ptr' = begin + HeaderSize
  /\ taken' = {}
  /\ UNCHANGED begin

Next == (\E n \in Requests : Alloc(n)) \/ Clear

Spec == Init /\ [][Next]_vars

-----------------------------------------------------------------------------
TypeOK ==
  /\ begin \in Memory
  /\ ptr \in begin .. End + 7
  /\ \A r \in taken : r.at % 8 = 0 /\ r.len \in Requests

=============================================================================
