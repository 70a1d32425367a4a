--------------------------- MODULE ArenaAllocator ---------------------------
(***************************************************************************)
(* The variable-size allocator of arena_allocator.h, byte for byte where   *)
(* its headers and tails lie: a block starts with an 8-byte header that    *)
(* holds the size of the block and ends with an 8-byte tail that holds the *)
(* size of its payload.  Address 0 is the end of arena_allocator_t.        *)
(*                                                                         *)
(* head and tail hold the words that are whole, by address.  A store over  *)
(* part of one takes it out of the function.  When a header, the tail of a *)
(* block in use or the bytes of its user are stored over, the model goes   *)
(* no further, for what follows depends on the bytes stored.               *)
(***************************************************************************)
EXTENDS Integers, Sequences, FiniteSetsExt, SequencesExt

CONSTANTS
  Capacity,   \* _capacity, the memory behind arena_allocator_t
  Requests,   \* the sizes asked for
  MaxBlocks   \* bound: blocks in use at a time

Overhead == 8 + 8 + 7     \* header, tail and what alignment may take
MinSize  == Overhead + 16 \* _JOS_VMEM_BLOCK_MIN_SIZE

ArenaAssumption ==
  /\ Capacity \in Nat /\ Capacity > Overhead
  /\ Requests \subseteq Nat

VARIABLES
  size,       \* _size, the bytes that are free
  freeList,   \* the list from _free_head, as a sequence
  head,       \* the headers: size and free flag, by address
  tail,       \* the tails: size and free flag, by address
  held,       \* ghost: the bytes each block in use was asked for
  order,      \* ghost: the blocks in use, oldest first
  tidy,       \* ghost: no block was small or resized, they came back newest first,
              \* and each with a header behind it
  intact      \* nothing that matters has been stored over, and no header or tail
              \* looked for where there is none; else all that follows is open

ghost == <<held, order, tidy, intact>>
vars  == <<size, freeList, head, tail, ghost>>

Align8(a) == ((a + 7) \div 8) * 8

\* _vmem_tail_from_head, _vmem_head_from_tail and the size kept in the tail.
TailOf(h, s)  == h + 8 + s - Overhead
HeadOf(t, ts) == t - (ts + 8)
TailSize(s)   == s - Overhead

\* f with w at h.
With(f, h, w) == [a \in {h} \cup DOMAIN f |-> IF a = h THEN w ELSE f[a]]

\* The words of f that a store to lo .. hi - 1 leaves whole.
Spared(f, lo, hi) == Restrict(f, {a \in DOMAIN f : a + 8 <= lo \/ hi <= a})

\* The store of a tail for the block at h.
WithTail(f, h, s, isFree) ==
  LET t == TailOf(h, s)
  IN With(Spared(f, t, t + 8), t, [size |-> TailSize(s), free |-> isFree])

\* The store of a header at h for a block of size s, and of its tail over f.
WithHead(f, h, s, isFree) ==
  LET t == TailOf(h, s)
  IN With(Spared(f, t, t + 8), h, [size |-> s, free |-> isFree])

\* Where a walk along the list for s bytes stops: at the first block that is
\* large enough, or at the end.
Stop(list, hs, s) ==
  Min({n \in 1 .. Len(list) : hs[list[n]].size >= s} \cup {Len(list) + 1})

\* Variant: every block goes to the front.
InsertFirst(list, hs, h) == <<h>> \o list

\* _arena_allocator_block_insert_as_free: in front of the first block that is
\* no smaller.
InsertAsFree(list, hs, h) == InsertAt(list, Stop(list, hs, hs[h].size), h)

\* _arena_allocator_disconnect.
Disconnect(list, h) ==
  LET k == Min({n \in 1 .. Len(list) : list[n] = h} \cup {Len(list) + 1})
  IN SubSeq(list, 1, k - 1) \o SubSeq(list, k + 1, Len(list))

Init ==
  /\ size = Capacity
  /\ freeList = <<0>>
  /\ head = [a \in {0} |-> [size |-> Capacity, free |-> TRUE]]
  /\ tail = [a \in {TailOf(0, Capacity)} |-> [size |-> TailSize(Capacity), free |-> TRUE]]
  /\ held = <<>>
  /\ order = <<>>
  /\ tidy = TRUE
  /\ intact = TRUE

-----------------------------------------------------------------------------
\* What a call leaves whole: the headers of the blocks outside S, the tail and
\* the bytes of each block in use, and what lies behind the arena.
Undamaged(S) ==
  /\ DOMAIN head' \cup DOMAIN tail' \subseteq 0 .. Capacity - 8
  /\ \A b \in DOMAIN head \ S : b \in DOMAIN head' /\ head'[b] = head[b]
  /\ \A b \in DOMAIN held' :
       /\ TailOf(b, head'[b].size) \in DOMAIN tail'
       /\ \A a \in DOMAIN head' \cup DOMAIN tail' : a <= b \/ b + 8 + held'[b] <= a

-----------------------------------------------------------------------------
(* arena_allocator_alloc.                                                  *)

Rounded(n) == IF n < MinSize THEN MinSize ELSE Align8(n)

Want(n) == Rounded(n) + Overhead

Refused(n) == n = 0 \/ size < Want(n)

\* The first block of the list that is large enough, 0 or 1 of them.
Candidates(n) ==
  LET k == Stop(freeList, head, Want(n))
  IN IF Refused(n) \/ k > Len(freeList) THEN {} ELSE {freeList[k]}

\* The size the block h gets for n bytes: what is left must make a block.
Taken(h, n) ==
  IF head[h].size - Want(n) < MinSize THEN head[h].size ELSE Want(n)

\* The words of f that the two links of a free block at h leave whole.
Linked(f, h) == Spared(f, h + 8, h + 24)

\* The headers and tails once n bytes are carved out of h, and where what is
\* left starts, if it makes a block.  Its links come last: those of a block of
\* less than MinSize reach into its tail.
Carved(h, n) ==
  LET s    == Taken(h, n)
      rest == head[h].size - s
      end  == TailOf(h, s) + 8
      new  == Align8(end)
      left == rest - (new - end)
      hs   == WithHead(head, h, s, FALSE)
      ts   == WithTail(tail, h, s, FALSE)
  IN IF rest < MinSize
       THEN [head |-> hs, tail |-> ts, rest |-> {}]
       ELSE [head |-> WithHead(hs, new, left, TRUE),
             tail |-> Linked(WithTail(ts, new, left, TRUE), new), rest |-> {new}]

\* The user writes the n bytes of its block.
Filled(f, h, n) == Spared(f, h + 8, h + 8 + n)

\* The list with the block of rest, if there is one.
Relisted(list, hs, rest) ==
  IF rest = {} THEN list ELSE InsertAsFree(list, hs, CHOOSE b \in rest : TRUE)

\* The arena once h has been given out for n bytes and filled by its user.
Give(h, n) ==
  LET c    == Carved(h, n)
      list == Disconnect(freeList, h)
  IN /\ head' = Filled(c.head, h, n)
     /\ tail' = Filled(c.tail, h, n)
     /\ size' = size - Taken(h, n)
     /\ intact' = (c.rest \cap DOMAIN head = {} /\ Undamaged({h}))
     /\ freeList' = IF intact' THEN Relisted(list, head', c.rest) ELSE list

Alloc(n) ==
  /\ Cardinality(DOMAIN held) < MaxBlocks
  /\ \E h \in Candidates(n) :
       /\ held' = With(held, h, n)
       /\ Give(h, n)
       /\ order' = Append(order, h)
  /\ tidy' = (tidy /\ n >= MinSize)

-----------------------------------------------------------------------------
(* arena_allocator_free.                                                   *)

\* The flag of a word: as stored if it is intact, else open.
FlagAt(f, a) == IF a \in DOMAIN f THEN {f[a].free} ELSE BOOLEAN

\* A tail in front is read unless h is the first block.
FreeBefore(h) == IF h - 8 > 0 THEN FlagAt(tail, h - 8) ELSE {FALSE}

\* Variant: nothing behind is merged.
NeverBehind(t) == {FALSE}

\* A header behind is read within the arena.  One that starts a byte further
\* up shows a byte of its size where the flag is looked for, which is never set.
FreeBehind(t) ==
  IF t + 8 >= Capacity \/ t + 9 \in DOMAIN head THEN {FALSE} ELSE FlagAt(head, t + 8)

\* Whether what a merge reads is really there.
MergesBefore(h) ==
  /\ h - 8 \in DOMAIN tail
  /\ LET b == HeadOf(h - 8, tail[h - 8].size) IN b \in DOMAIN head /\ head[b].free
MergesBehind(t) == t + 8 \in DOMAIN head

\* The block that h becomes: merged with the free ones at its sides, which
\* leave the list.  The new tail lies where the one behind is computed to end,
\* or stays that of h.
Combined(h, before, behind) ==
  LET t     == TailOf(h, head[h].size)
      first == IF before THEN HeadOf(h - 8, tail[h - 8].size) ELSE h
      own   == head[h].size + (IF before THEN head[first].size ELSE 0)
      list  == Disconnect(freeList, first)
  IN IF behind
       THEN LET s == own + head[t + 8].size
            IN [at |-> first, size |-> s, gone |-> {h, first, t + 8},
                list |-> Disconnect(list, t + 8), tailAt |-> TailOf(first, s)]
       ELSE [at |-> first, size |-> own, gone |-> {h, first}, list |-> list, tailAt |-> t]

\* The tails inside the block are no longer tails; the headers and tails the
\* new tail overlaps beyond it are lost.
Store(c) ==
  LET stay == Spared(Restrict(head, DOMAIN head \ c.gone), c.tailAt, c.tailAt + 8)
  IN /\ head' = With(stay, c.at, [size |-> c.size, free |-> TRUE])
     /\ tail' = With(Spared(tail, c.at, c.tailAt + 8), c.tailAt,
                     [size |-> TailSize(c.size), free |-> TRUE])
     /\ intact' = Undamaged(c.gone)
     /\ freeList' = IF intact' THEN InsertAsFree(c.list, head', c.at) ELSE c.list

Released(h) ==
  /\ held' = Restrict(held, DOMAIN held \ {h})
  /\ order' = Disconnect(order, h)
  /\ tidy' = (tidy /\ Last(order) = h /\ MergesBehind(TailOf(h, head[h].size)))

Free(h) ==
  /\ h \in DOMAIN held
  /\ LET t == TailOf(h, head[h].size)
     IN \E before \in FreeBefore(h), behind \in FreeBehind(t) :
          IF (before => MergesBefore(h)) /\ (behind => MergesBehind(t))
            THEN /\ Released(h)
                 /\ Store(Combined(h, before, behind))
                 /\ size' = size + head[h].size
            ELSE /\ intact' = FALSE
                 /\ Released(h)
                 /\ UNCHANGED <<size, freeList, head, tail>>

\* The first four bytes of the block are 0xcdcdcdcd, as its user left them or
\* as an earlier free did: the call is taken for a second free and ignored.
FreeIgnored(h) ==
  /\ h \in DOMAIN held
  /\ held' = Restrict(held, DOMAIN held \ {h})
  /\ order' = Disconnect(order, h)
  /\ tidy' = FALSE
  /\ UNCHANGED <<size, freeList, head, tail, intact>>

-----------------------------------------------------------------------------
(* arena_allocator_realloc to a size other than 0; size 0 is a free and no *)
(* block an alloc.                                                         *)

\* The block is taken to be large enough if its size with header and tail is;
\* the user fills it.
ReallocInPlace(h, n) ==
  /\ h \in DOMAIN held
  /\ n > 0
  /\ head[h].size >= n
  /\ head' = Filled(head, h, n)
  /\ tail' = Filled(tail, h, n)
  /\ held' = With(held, h, n)
  /\ intact' = Undamaged({})
  /\ tidy' = FALSE
  /\ UNCHANGED <<size, freeList, order>>

\* The contents go to a new block, and nothing frees the old one.
ReallocMoves(h, n) ==
  /\ h \in DOMAIN held
  /\ head[h].size < n
  /\ \E new \in Candidates(n) :
       /\ held' = With(Restrict(held, DOMAIN held \ {h}), new, n)
       /\ Give(new, n)
       /\ order' = Append(Disconnect(order, h), new)
  /\ tidy' = FALSE

Next ==
  /\ intact
  /\ \/ \E n \in Requests : Alloc(n)
     \/ \E h \in DOMAIN held : Free(h) \/ FreeIgnored(h)
     \/ \E h \in DOMAIN held, n \in Requests : ReallocInPlace(h, n) \/ ReallocMoves(h, n)

Spec == Init /\ [][Next]_vars

-----------------------------------------------------------------------------
FreeBlocks == {h \in DOMAIN head : head[h].free}

\* The bytes in use.
InUse == {[at |-> h + 8, len |-> held[h]] : h \in DOMAIN held}

TypeOK ==
  /\ size \in 0 .. Capacity
  /\ freeList \in Seq(0 .. Capacity)
  /\ DOMAIN head \cup DOMAIN tail \cup DOMAIN held \subseteq 0 .. Capacity
  /\ ToSet(order) = DOMAIN held /\ IsInjective(order)
  /\ {tidy, intact} \subseteq BOOLEAN

\* While nothing has been stored over, the blocks lie behind each other, each
\* with its tail where its size says, no block in use is free, and the list
\* holds the free ones by size, so that the first that fits fits best.
WellFormed ==
  intact =>
    /\ ToSet(freeList) = FreeBlocks /\ IsInjective(freeList)
    /\ \A m, n \in 1 .. Len(freeList) : m < n => head[freeList[m]].size <= head[freeList[n]].size
    /\ DOMAIN held \subseteq DOMAIN head \ FreeBlocks
    /\ \A h \in DOMAIN held :
         /\ TailOf(h, head[h].size) \in DOMAIN tail
         /\ held[h] <= TailSize(head[h].size)

\* Blocks of at least MinSize bytes that come back newest first, each with a
\* header behind it, leave nothing behind: no word is stored over, and the last
\* of them restores the arena to its one free block.
Restored ==
  tidy => /\ intact
          /\ held = <<>> => /\ size = Capacity
                            /\ freeList = <<0>>
                            /\ head = [a \in {0} |-> [size |-> Capacity, free |-> TRUE]]
                            /\ DOMAIN tail = {TailOf(0, Capacity)}

\* The size a tail holds is that of the payload in front of it, as the comment
\* of arena_allocator.h:17 says, so that the header can be found from it.
TailsHoldSizes ==
  intact => \A t \in DOMAIN tail : HeadOf(t, tail[t].size) \in DOMAIN head

=============================================================================
