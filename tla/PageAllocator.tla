---------------------------- MODULE PageAllocator ----------------------------
(***************************************************************************)
(* The binary buddy allocator of bb_page_allocator.h.  A free block of     *)
(* 2^z pages is on the list of order z and holds a tag: its own address    *)
(* xor that of the block it was split off behind.  The model keeps the     *)
(* latter, tag; 0 stands for none.  Pages are numbered from 1.             *)
(***************************************************************************)
EXTENDS Integers, FiniteSetsExt, SequencesExt

CONSTANTS
  Pages,     \* the pages the lists are made from
  MaxLive    \* bound: allocations in use at a time

PageAssumption == Pages \in Nat \ {0, 1} /\ MaxLive \in Nat

VARIABLES
  zones,     \* _zones: for each order the list of its free blocks
  tag,       \* what each block on a list is tagged with
  used,      \* the blocks handed out: first page and page count
  torn       \* ghost: a free has put a block together that is not the one it was

vars == <<zones, tag, used, torn>>

\* 1ull << z, the pages of a block of order z.
PagesOf[z \in 0 .. Pages] == IF z = 0 THEN 1 ELSE 2 * PagesOf[z - 1]

\* _ullog2 of the lab build and _ceil_ullog2.
Log2(n)     == CHOOSE d \in 0 .. Pages : PagesOf[d] <= n /\ n < 2 * PagesOf[d]
CeilLog2(n) == Log2(n) + IF PagesOf[Log2(n)] = n THEN 0 ELSE 1

MaxOrder == Log2(Pages)
Order    == 0 .. MaxOrder

-----------------------------------------------------------------------------
\* _bb_page_allocator_insert_pages: at the end of the list.  On its way there
\* the walk makes the last block but one the one in front.
Inserted(s, z, block, prev) ==
  LET list == s.zones[z]
      n    == Len(list)
  IN [zones |-> [s.zones EXCEPT ![z] = Append(list, block)],
      tag   |-> [s.tag EXCEPT ![block] = IF n < 2 THEN prev ELSE list[n - 1]]]

\* The n-th block of the list of order z is taken off it.
Taken(s, z, n) ==
  [zones |-> [s.zones EXCEPT ![z] = RemoveAt(s.zones[z], n)],
   tag   |-> [s.tag EXCEPT ![s.zones[z][n]] = 0]]

State == [zones |-> zones, tag |-> tag]

\* A block of order z, if as many pages are left, tagged with the one in front.
Deal(d, z) ==
  IF d.left < PagesOf[z] THEN d
  ELSE [s |-> Inserted(d.s, z, d.at, d.prev), left |-> d.left - PagesOf[z],
        at |-> d.at + PagesOf[z], prev |-> d.at]

\* The pages left from page at on are dealt out, from order z down.
Dealt(s, z, left, at, prev) ==
  LET after[n \in 0 .. z + 1] ==
        IF n = 0 THEN [s |-> s, left |-> left, at |-> at, prev |-> prev]
        ELSE Deal(after[n - 1], z + 1 - n)
  IN  after[z + 1].s

\* bb_page_allocator_create: the pool is dealt to empty lists.
Init ==
  LET empty == [zones |-> [z \in Order |-> <<>>], tag |-> [p \in 1 .. Pages |-> 0]]
      s     == Dealt(empty, MaxOrder, Pages, 1, 0)
  IN  zones = s.zones /\ tag = s.tag /\ used = {} /\ torn = FALSE

-----------------------------------------------------------------------------
\* Variant: the order is rounded down.
OrderDown(count) == Log2(count)

\* The order a request belongs to.
OrderOf(count) == CeilLog2(count)

Fitting(count) == {z \in OrderOf(count) .. MaxOrder : zones[z] # <<>>}

\* bb_page_allocator_allocate: the first block of the lowest order that holds
\* the request; what is left of it is dealt out.
Allocate(count) ==
  /\ Fitting(count) # {}
  /\ LET z == Min(Fitting(count))
         p == Head(zones[z])
         s == Dealt(Taken(State, z, 1), z, PagesOf[z] - count, p + count, p)
     IN /\ zones' = s.zones
        /\ tag' = s.tag
        /\ used' = used \cup {[at |-> p, len |-> count]}
  /\ UNCHANGED torn

\* The blocks of order z that are tagged with the block last.
Buddies(s, z, last) == {n \in 1 .. Len(s.zones[z]) : s.tag[s.zones[z][n]] = last}

\* The piece of order z, if there must be one: the first tagged with the last
\* piece.  One that is missing ends the search.
Coalesce(c, z) ==
  IF c.holes \/ c.left < PagesOf[z] THEN c
  ELSE IF Buddies(c.s, z, c.last) = {}
    THEN [s |-> c.s, left |-> c.left, last |-> c.last, holes |-> TRUE]
    ELSE LET n == Min(Buddies(c.s, z, c.last))
         IN  [s |-> Taken(c.s, z, n), left |-> c.left - PagesOf[z],
              last |-> c.s.zones[z][n], holes |-> FALSE]

\* The blocks that left pages were dealt out as are taken back, from order z down.
Coalesced(s, z, left, last) ==
  LET after[n \in 0 .. z + 1] ==
        IF n = 0 THEN [s |-> s, left |-> left, last |-> last, holes |-> FALSE]
        ELSE Coalesce(after[n - 1], z + 1 - n)
  IN  after[z + 1]

Span(at, len) == at .. at + len - 1

\* The places on the lists, and the pages of the block in one.
Places(lists) == UNION {{z} \X (1 .. Len(lists[z])) : z \in Order}

SpanAt(lists, l) == Span(lists[l[1]][l[2]], PagesOf[l[1]])

PagesOn(lists) == UNION {SpanAt(lists, l) : l \in Places(lists)}

\* bb_page_allocator_free.  A block that was not split goes back as it is.  Of
\* one that was, the whole goes back once a single piece has been found, and
\* nothing if none has.
Free(b) ==
  LET z    == OrderOf(b.len)
      c    == Coalesced(State, z, PagesOf[z] - b.len, b.at)
      back == b.len = PagesOf[z] \/ c.last # b.at
      s    == IF back THEN Inserted(c.s, z, b.at, 0) ELSE c.s
  IN /\ used' = used \ {b}
     /\ zones' = s.zones
     /\ tag' = s.tag
     /\ torn' = (back /\ PagesOn(zones) \ PagesOn(c.s.zones)
                        # Span(b.at + b.len, PagesOf[z] - b.len))

Next ==
  /\ ~torn
  /\ \/ \E count \in 1 .. Pages : Cardinality(used) < MaxLive /\ Allocate(count)
     \/ \E b \in used : Free(b)

Spec == Init /\ [][Next]_vars

-----------------------------------------------------------------------------
TypeOK ==
  /\ zones \in [Order -> Seq(1 .. Pages)]
  /\ tag \in [1 .. Pages -> 0 .. Pages]
  /\ used \subseteq [at : 1 .. Pages, len : 1 .. Pages]
  /\ torn \in BOOLEAN

\* No page is in two places, on the lists or in use, as long as the pieces each
\* free has found by their tags are those its block was split into: dealing out
\* what is left of a block and giving blocks back of any size keep them apart.
PagesApart ==
  ~torn =>
    /\ \A b, c \in used : b # c => Span(b.at, b.len) \cap Span(c.at, c.len) = {}
    /\ \A k, l \in Places(zones) : k # l => SpanAt(zones, k) \cap SpanAt(zones, l) = {}
    /\ \A b \in used, l \in Places(zones) : Span(b.at, b.len) \cap SpanAt(zones, l) = {}

=============================================================================
