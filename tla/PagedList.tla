------------------------------ MODULE PagedList ------------------------------
(***************************************************************************)
(* paged_list_t (collections.h): a linked list of pages of a fixed number  *)
(* of slots.  A page is the sequence of its elements; the list of pages is *)
(* a sequence in the order of the links.                                   *)
(***************************************************************************)
EXTENDS Calls, Integers, Sequences

CONSTANTS
  Element,
  Slots,      \* _page_slot_count
  MaxItems    \* bound: elements of a list

PagedListAssumption == Slots \in Nat \ {0}

VARIABLES
  pages,
  count,      \* _items
  allocated   \* pages the allocator has given out for the list and not got back

vars == <<pages, count, allocated, asked>>

Init ==
  /\ pages = <<>>
  /\ count = 0
  /\ allocated = 0
  /\ NothingAsked

\* How many pages a walk from _page0 passes, as they are full.
FullPages ==
  LET partial == {n \in 1 .. Len(pages) : Len(pages[n]) < Slots}
  IN IF partial = {} THEN Len(pages)
     ELSE (CHOOSE n \in partial : \A m \in partial : n <= m) - 1

\* paged_list_push_back: into the first page that is not full, or a new one.
Push(e) ==
  /\ count < MaxItems
  /\ IF FullPages = Len(pages)
       THEN /\ pages' = Append(pages, <<e>>)
            /\ allocated' = allocated + 1
       ELSE /\ pages' = [pages EXCEPT ![FullPages + 1] = Append(@, e)]
            /\ UNCHANGED allocated
  /\ count' = count + 1
  /\ Ask("push", 0, e)

\* paged_list_destroy: the walk that frees the pages ends, like the one of
\* paged_list_push_back, at a page that is not full, and that page is not
\* freed.  The list is set to zero and created again.
Destroy ==
  /\ pages # <<>>
  /\ allocated' = allocated - FullPages
  /\ pages' = <<>>
  /\ count' = 0
  /\ Ask("clear", 0, 0)

\* bound: leaked pages are not counted further
Next == allocated <= MaxItems /\ ((\E e \in Element : Push(e)) \/ Destroy)

Spec == Init /\ [][Next]_vars

-----------------------------------------------------------------------------
(* The iterator: a page, 0 for none, and an index into it.                 *)

IteratorBegin == [page |-> IF pages = <<>> THEN 0 ELSE 1, index |-> 0]

HasNext(it) == it.page # 0 /\ it.index < Len(pages[it.page])

Value(it) == pages[it.page][it.index + 1]

\* Variant: the next page is entered at the index reached.
NextKeepsIndex(it) ==
  IF it.index + 1 < Len(pages[it.page]) \/ Len(pages[it.page]) < Slots
    THEN [it EXCEPT !.index = @ + 1]
    ELSE [it EXCEPT !.page = IF @ = Len(pages) THEN 0 ELSE @ + 1]

\* paged_list_iterator_next: within the page, or on to the next one if the
\* page is full; in a page that is not, the index is left behind its end.
IteratorNext(it) ==
  IF it.index + 1 < Len(pages[it.page]) \/ Len(pages[it.page]) < Slots
    THEN [it EXCEPT !.index = @ + 1]
    ELSE [page |-> IF it.page = Len(pages) THEN 0 ELSE it.page + 1, index |-> 0]

RECURSIVE Iterated(_)
Iterated(it) == IF HasNext(it) THEN <<Value(it)>> \o Iterated(IteratorNext(it)) ELSE <<>>

TypeOK ==
  /\ pages \in Seq(Seq(Element))
  /\ \A n \in 1 .. Len(pages) : Len(pages[n]) \in 1 .. Slots
  /\ count \in 0 .. MaxItems
  /\ allocated \in 0 .. 2 * MaxItems

\* An iteration yields every element that was pushed, once: as many as _items
\* says, and those of each page in turn.
SeesAll == Len(Iterated(IteratorBegin)) = count

=============================================================================
