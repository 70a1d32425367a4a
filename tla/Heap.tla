------------------------------- MODULE Heap -------------------------------
(***************************************************************************)
(* What generic_allocator_t promises (jos.h): alloc hands out a range that *)
(* overlaps none in use, or nothing at all; free takes one back.           *)
(*                                                                         *)
(* The allocators of the kernel keep this promise only up to a point that  *)
(* each of their modules names; lost says that the point has been passed.  *)
(***************************************************************************)
EXTENDS Integers

VARIABLES
  pool,   \* the memory of the pool: from pool.lo up to pool.hi
  live,   \* the ranges in use, as records of a start and a length
  lost    \* the allocator no longer promises anything

Apart(r, s) == r.at + r.len <= s.at \/ s.at + s.len <= r.at

HeapInit == live = {} /\ lost = FALSE

Allocate ==
  \E r \in live' \ live :
     /\ live' = live \cup {r}
     /\ pool.lo <= r.at /\ r.at + r.len <= pool.hi
     /\ \A s \in live : Apart(r, s)

Release == \E r \in live : live' = live \ {r}

\* realloc: one range for another.
Exchange ==
  \E r \in live : \E s \in live' :
     /\ live' = (live \ {r}) \cup {s}
     /\ pool.lo <= s.at /\ s.at + s.len <= pool.hi
     /\ \A t \in live \ {r} : Apart(s, t)

Reset == live' = {}

HeapNext ==
  /\ UNCHANGED pool
  /\ lost \/ lost' \/ Allocate \/ Release \/ Exchange \/ Reset

HeapSpec == HeapInit /\ [][HeapNext]_<<pool, live, lost>>

=============================================================================
