--------------------------- MODULE AllocatorProofs ---------------------------
(***************************************************************************)
(* The four allocators implement Heap: the linear one for every start      *)
(* address, size and set of requests, and always; the fixed one for any    *)
(* number of blocks and whatever their users write into them, until the    *)
(* first free; the arena, which this module extends, for every capacity    *)
(* and all requests, always when it is used as a stack of blocks that are  *)
(* not small, and else until a word that matters is stored over; the page  *)
(* allocator for any number of pages, until a free puts together what was  *)
(* not the block.                                                          *)
(***************************************************************************)
EXTENDS Allocators, DataFacts

-----------------------------------------------------------------------------
(* The linear allocator.                                                   *)

LinearPromise == INSTANCE Heap WITH pool <- LinearPool, live <- taken, lost <- FALSE

linearHeap == <<LinearPool, taken, FALSE>>

\* The addresses the kernel starts a block at, its size and the requests are
\* numbers.
LEMMA AlignUp ==
  ASSUME NEW a \in Nat
  PROVE  /\ Linear!Align8(a) \in Nat
         /\ a <= Linear!Align8(a) /\ Linear!Align8(a) <= a + 7
         /\ Linear!Align8(a) % 8 = 0
BY DEF Linear!Align8

\* Everything handed out lies behind the header and below the pointer.
BelowPtr ==
  /\ ptr \in Nat /\ begin + Linear!HeaderSize <= ptr
  /\ \A r \in taken : r.at \in Nat /\ r.len \in Nat /\ r.at + r.len <= ptr

LinearIInv == Linear!TypeOK /\ BelowPtr

LEMMA LinearInitIInv == Linear!LinearAssumption /\ Linear!Init => LinearIInv
<1> SUFFICES ASSUME Linear!LinearAssumption, Linear!Init PROVE LinearIInv
  OBVIOUS
<1>1. begin + Linear!HeaderSize \in Nat
  BY DEF Linear!LinearAssumption, Linear!Init, Linear!HeaderSize
<1>2. ptr \in Nat /\ begin + Linear!HeaderSize <= ptr /\ ptr <= begin + Linear!HeaderSize + 7
  BY <1>1, AlignUp DEF Linear!Init
<1> QED BY <1>2 DEF Linear!Init, LinearIInv, Linear!TypeOK, BelowPtr,
                   Linear!LinearAssumption, Linear!HeaderSize, Linear!End

\* A block handed out is aligned, inside the pool and behind all others.
LEMMA LinearAllocKeepsIInv ==
  ASSUME Linear!LinearAssumption, LinearIInv, NEW n \in LinearRequests, Linear!Alloc(n)
  PROVE  /\ LinearIInv'
         /\ ptr <= Linear!Align8(ptr) /\ Linear!Align8(ptr) + n <= Linear!End
<1>1. /\ Linear!Align8(ptr) \in Nat /\ ptr <= Linear!Align8(ptr) /\ Linear!Align8(ptr) % 8 = 0
  BY AlignUp DEF LinearIInv, BelowPtr
<1>2. n \in Nat /\ begin \in Nat /\ LinearCapacity \in Nat /\ Linear!End \in Nat
  BY DEF Linear!LinearAssumption, LinearIInv, Linear!TypeOK, Linear!End
<1>3. Linear!Align8(ptr) + n <= Linear!End
  BY <1>1, <1>2 DEF Linear!Alloc, Linear!Room
<1>4. \A r \in taken' : r \in taken \/ r = [at |-> Linear!Align8(ptr), len |-> n]
  BY DEF Linear!Alloc
<1>5. Linear!TypeOK'
  BY <1>1, <1>2, <1>3, <1>4
  DEF Linear!Alloc, LinearIInv, Linear!TypeOK, BelowPtr, Linear!End, Linear!HeaderSize
<1>6. BelowPtr'
  BY <1>1, <1>2, <1>4 DEF Linear!Alloc, LinearIInv, BelowPtr, Linear!HeaderSize
<1> QED BY <1>1, <1>3, <1>5, <1>6 DEF LinearIInv

LEMMA LinearNextKeepsIInv ==
  Linear!LinearAssumption /\ LinearIInv /\ [Linear!Next]_Linear!vars => LinearIInv'
<1> SUFFICES ASSUME Linear!LinearAssumption, LinearIInv, [Linear!Next]_Linear!vars
             PROVE  LinearIInv'
  OBVIOUS
<1>1. CASE \E n \in LinearRequests : Linear!Alloc(n)
  BY <1>1, LinearAllocKeepsIInv
<1>2. CASE Linear!Clear
  BY <1>2 DEF Linear!Clear, LinearIInv, Linear!TypeOK, BelowPtr, Linear!LinearAssumption,
              Linear!HeaderSize, Linear!End
<1>3. CASE UNCHANGED Linear!vars
  BY <1>3 DEF Linear!vars, LinearIInv, Linear!TypeOK, BelowPtr, Linear!End
<1> QED BY <1>1, <1>2, <1>3 DEF Linear!Next

\* Every step of the allocator is a step of the heap, or changes nothing the heap
\* sees.
LEMMA LinearStepIsHeapStep ==
  Linear!LinearAssumption /\ LinearIInv /\ [Linear!Next]_Linear!vars =>
    [LinearPromise!HeapNext]_linearHeap
<1> SUFFICES ASSUME Linear!LinearAssumption, LinearIInv, [Linear!Next]_Linear!vars
             PROVE  [LinearPromise!HeapNext]_linearHeap
  OBVIOUS
<1>1. ASSUME NEW n \in LinearRequests, Linear!Alloc(n)
      PROVE  [LinearPromise!HeapNext]_linearHeap
  <2> DEFINE r == [at |-> Linear!Align8(ptr), len |-> n]
  <2>1. taken' = taken \cup {r} /\ begin' = begin /\ Linear!End' = Linear!End
    BY <1>1 DEF Linear!Alloc, Linear!End
  <2>2. ptr <= Linear!Align8(ptr) /\ Linear!Align8(ptr) + n <= Linear!End
    BY <1>1, LinearAllocKeepsIInv
  <2>3. /\ Linear!Align8(ptr) \in Nat /\ ptr \in Nat /\ begin \in Nat
        /\ begin + Linear!HeaderSize <= ptr
    BY AlignUp DEF LinearIInv, BelowPtr, Linear!TypeOK, Linear!LinearAssumption
  <2>4. CASE r \in taken
    BY <2>1, <2>4 DEF LinearPool, linearHeap
  <2>5. CASE r \notin taken
    <3>1. r \in taken' \ taken
      BY <2>1, <2>5
    <3>2. begin + Linear!HeaderSize <= r.at /\ r.at + r.len <= Linear!End
      BY <2>2, <2>3 DEF Linear!HeaderSize
    <3>3. \A s \in taken : LinearPromise!Apart(r, s)
      BY <2>2, <2>3 DEF LinearPromise!Apart, LinearIInv, BelowPtr
    <3>4. LinearPromise!Allocate
      BY <2>1, <3>1, <3>2, <3>3 DEF LinearPromise!Allocate, LinearPool
    <3> QED BY <2>1, <3>4 DEF LinearPromise!HeapNext, LinearPool, linearHeap
  <2> QED BY <2>4, <2>5
<1>2. CASE Linear!Clear
  BY <1>2 DEF Linear!Clear, Linear!End, LinearPromise!HeapNext, LinearPromise!Reset,
              LinearPool, linearHeap
<1>3. CASE UNCHANGED Linear!vars
  BY <1>3 DEF Linear!vars, Linear!End, LinearPool, linearHeap
<1> QED BY <1>1, <1>2, <1>3 DEF Linear!Next

\* linear_allocator_alloc hands out ranges behind its header and inside its
\* block that overlap none handed out since the last clear.
THEOREM LinearImplementsHeap ==
  Linear!LinearAssumption /\ Linear!Spec => LinearPromise!HeapSpec
<1> SUFFICES ASSUME Linear!LinearAssumption PROVE Linear!Spec => LinearPromise!HeapSpec
  OBVIOUS
<1>1. Linear!Init => LinearIInv
  BY LinearInitIInv
<1>2. LinearIInv /\ [Linear!Next]_Linear!vars => LinearIInv'
  BY LinearNextKeepsIInv
<1>3. LinearIInv /\ [Linear!Next]_Linear!vars =>
        [LinearPromise!HeapNext]_linearHeap
  BY LinearStepIsHeapStep
<1>4. Linear!Init => LinearPromise!HeapInit
  BY DEF Linear!Init, LinearPromise!HeapInit
<1> QED BY <1>1, <1>2, <1>3, <1>4, PTL DEF Linear!Spec, LinearPromise!HeapSpec, linearHeap

-----------------------------------------------------------------------------
(* The fixed allocator.                                                    *)

FixedPromise == INSTANCE Heap WITH pool <- FixedPool, live <- FixedRanges, lost <- freed

fixedHeap == <<FixedPool, FixedRanges, freed>>

\* Until something is freed, the list is what it was laid out as from its first
\* block on, and nothing on it is in use: the words that users have overwritten
\* all lie before it.
ListInv ==
  ~freed =>
    /\ ~wild
    /\ free \in Fixed!Block \cup {ListEnd}
    /\ free \in Fixed!Block => \A b \in Fixed!Block : b >= free => word[b] = Fixed!Chain[b] /\ b \notin inUse

FixedIInv == Fixed!TypeOK /\ ListInv

LEMMA ChainStaysInside ==
  ASSUME Fixed!FixedAssumption, NEW b \in Fixed!Block
  PROVE  Fixed!Chain[b] \in 0 .. ListEnd /\ Fixed!Chain[b] \in Fixed!Block \cup {ListEnd}
BY DEF Fixed!FixedAssumption, Fixed!Block, Fixed!Chain

\* The state that creation and clearing lay out.
LEMMA LaidOut ==
  ASSUME Fixed!FixedAssumption
  PROVE  /\ 0 \in Fixed!Block /\ 0 \in 0 .. ListEnd
         /\ Fixed!Chain \in [Fixed!Block -> 0 .. ListEnd]
<1>1. 0 \in Fixed!Block /\ 0 \in 0 .. ListEnd
  BY DEF Fixed!FixedAssumption, Fixed!Block
<1>2. Fixed!Chain = [b \in Fixed!Block |-> Fixed!Chain[b]]
  BY DEF Fixed!Chain
<1> QED BY <1>1, <1>2, ChainStaysInside

LEMMA FixedInitIInv == Fixed!FixedAssumption /\ Fixed!Init => FixedIInv
<1> SUFFICES ASSUME Fixed!FixedAssumption, Fixed!Init PROVE FixedIInv
  OBVIOUS
<1> QED BY LaidOut DEF Fixed!Init, FixedIInv, Fixed!TypeOK, ListInv

LEMMA FixedAllocKeepsIInv ==
  ASSUME Fixed!FixedAssumption, FixedIInv, NEW fill \in Fill, Fixed!Alloc(fill)
  PROVE  FixedIInv'
<1>1. /\ free \in Fixed!Block /\ free' = word[free] /\ word' = [word EXCEPT ![free] = fill]
      /\ inUse' = inUse \cup {free} /\ UNCHANGED <<freed, wild>>
  BY DEF Fixed!Alloc, Fixed!Following
<1>2. Fixed!TypeOK'
  <2>1. fill \in 0 .. ListEnd
    BY DEF Fixed!FixedAssumption
  <2> QED BY <1>1, <2>1 DEF FixedIInv, Fixed!TypeOK
<1>3. ASSUME ~freed' PROVE ListInv'
  <2>1. ~freed /\ ~wild /\ free >= free
    BY <1>1, <1>3 DEF FixedIInv, ListInv, Fixed!Block
  <2>2. free' = Fixed!Chain[free]
    BY <1>1, <2>1 DEF FixedIInv, ListInv
  <2>3. free' \in Fixed!Block \cup {ListEnd}
    BY <1>1, <2>2, ChainStaysInside
  <2>4. ASSUME free' \in Fixed!Block, NEW b \in Fixed!Block, b >= free'
        PROVE  word'[b] = Fixed!Chain[b] /\ b \notin inUse'
    <3>1. free' = free + 1
      BY <1>1, <2>2, <2>4 DEF Fixed!Chain, Fixed!Block, Fixed!FixedAssumption
    <3>2. b >= free /\ b # free
      BY <1>1, <3>1, <2>4 DEF Fixed!Block
    <3> QED BY <1>1, <2>1, <3>2 DEF FixedIInv, ListInv, Fixed!TypeOK
  <2> QED BY <1>1, <2>1, <2>3, <2>4 DEF ListInv
<1> QED BY <1>2, <1>3 DEF FixedIInv, ListInv

LEMMA FixedFreeKeepsIInv ==
  ASSUME Fixed!FixedAssumption, FixedIInv, NEW b \in inUse, Fixed!Free(b)
  PROVE  FixedIInv'
<1>1. /\ word' = [n \in Fixed!Block |-> IF n = free THEN b
                                  ELSE IF n = b THEN free ELSE word[n]]
      /\ wild' = (wild \/ free \notin Fixed!Block)
      /\ inUse' = inUse \ {b} /\ freed' = TRUE /\ free' = free
  BY DEF Fixed!Free
<1>2. /\ free \in 0 .. ListEnd /\ word \in [Fixed!Block -> 0 .. ListEnd] /\ inUse \subseteq Fixed!Block
  BY DEF FixedIInv, Fixed!TypeOK
<1>3. b \in 0 .. ListEnd
  BY <1>2 DEF Fixed!FixedAssumption, Fixed!Block
<1>4. word' \in [Fixed!Block -> 0 .. ListEnd]
  BY <1>1, <1>2, <1>3
<1>5. wild' \in BOOLEAN
  BY <1>1
<1> QED BY <1>1, <1>2, <1>4, <1>5 DEF FixedIInv, Fixed!TypeOK, ListInv

LEMMA FixedNextKeepsIInv ==
  Fixed!FixedAssumption /\ FixedIInv /\ [Fixed!Next]_Fixed!vars => FixedIInv'
<1> SUFFICES ASSUME Fixed!FixedAssumption, FixedIInv, [Fixed!Next]_Fixed!vars PROVE FixedIInv'
  OBVIOUS
<1>1. CASE \E fill \in Fill : Fixed!Alloc(fill)
  BY <1>1, FixedAllocKeepsIInv
<1>2. CASE Fixed!AllocAstray
  BY <1>2 DEF Fixed!AllocAstray, FixedIInv, Fixed!TypeOK, ListInv
<1>3. CASE \E b \in inUse : Fixed!Free(b)
  BY <1>3, FixedFreeKeepsIInv
<1>4. CASE Fixed!Clear /\ ~wild
  BY <1>4, LaidOut DEF Fixed!Clear, FixedIInv, Fixed!TypeOK, ListInv
<1>5. CASE UNCHANGED Fixed!vars
  BY <1>5 DEF Fixed!vars, FixedIInv, Fixed!TypeOK, ListInv
<1> QED BY <1>1, <1>2, <1>3, <1>4, <1>5 DEF Fixed!Next

\* A block handed out before anything is freed is in the pool and was not in use.
LEMMA FixedAllocIsAllocate ==
  ASSUME Fixed!FixedAssumption, FixedIInv, ~freed, NEW fill \in Fill, Fixed!Alloc(fill)
  PROVE  FixedPromise!Allocate
<1> DEFINE Unit(b) == [at |-> b, len |-> 1]
<1>1. /\ free \in Fixed!Block /\ free >= free
      /\ inUse' = inUse \cup {free} /\ inUse \subseteq Fixed!Block
  BY DEF Fixed!Alloc, FixedIInv, Fixed!TypeOK, Fixed!Block
<1>2. free \notin inUse
  BY <1>1 DEF FixedIInv, ListInv
<1>3. {Unit(b) : b \in inUse'} = {Unit(b) : b \in inUse} \cup {Unit(free)}
  BY <1>1
<1>4. Unit(free) \notin {Unit(b) : b \in inUse}
  BY <1>2
<1>5. 0 <= free /\ free + 1 <= Count
  BY <1>1 DEF Fixed!Block, Fixed!FixedAssumption
<1>6. \A b \in inUse : FixedPromise!Apart(Unit(free), Unit(b))
  BY <1>1, <1>2 DEF FixedPromise!Apart, Fixed!Block, Fixed!FixedAssumption
<1> QED BY <1>3, <1>4, <1>5, <1>6 DEF FixedPromise!Allocate, FixedPool, FixedRanges

LEMMA FixedStepIsHeapStep ==
  Fixed!FixedAssumption /\ FixedIInv /\ [Fixed!Next]_Fixed!vars =>
    [FixedPromise!HeapNext]_fixedHeap
<1> SUFFICES ASSUME Fixed!FixedAssumption, FixedIInv, [Fixed!Next]_Fixed!vars
             PROVE  [FixedPromise!HeapNext]_fixedHeap
  OBVIOUS
<1>1. CASE freed \/ freed'
  BY <1>1 DEF FixedPromise!HeapNext
<1>2. CASE ~freed /\ \E fill \in Fill : Fixed!Alloc(fill)
  BY <1>2, FixedAllocIsAllocate DEF FixedPromise!HeapNext
<1>3. CASE Fixed!AllocAstray
  BY <1>3 DEF Fixed!AllocAstray, FixedPool, FixedRanges, fixedHeap
<1>4. CASE \E b \in inUse : Fixed!Free(b)
  BY <1>1, <1>4 DEF Fixed!Free
<1>5. CASE Fixed!Clear
  BY <1>5 DEF Fixed!Clear, FixedPromise!HeapNext, FixedPromise!Reset, FixedRanges,
              FixedPool, fixedHeap
<1>6. CASE UNCHANGED Fixed!vars
  BY <1>6 DEF Fixed!vars, FixedPool, FixedRanges, fixedHeap
<1> QED BY <1>1, <1>2, <1>3, <1>4, <1>5, <1>6 DEF Fixed!Next

LEMMA FixedInductiveInvariant == Fixed!FixedAssumption => (Fixed!Spec => []FixedIInv)
<1> SUFFICES ASSUME Fixed!FixedAssumption PROVE Fixed!Spec => []FixedIInv
  OBVIOUS
<1>1. Fixed!Init => FixedIInv
  BY FixedInitIInv
<1>2. FixedIInv /\ [Fixed!Next]_Fixed!vars => FixedIInv'
  BY FixedNextKeepsIInv
<1> QED BY <1>1, <1>2, PTL DEF Fixed!Spec

\* fixed_allocator_alloc hands out blocks of its pool of which none is in use, as
\* long as fixed_allocator_free has not been called since the last clear.
THEOREM FixedImplementsHeap == Fixed!FixedAssumption => (Fixed!Spec => FixedPromise!HeapSpec)
<1> SUFFICES ASSUME Fixed!FixedAssumption PROVE Fixed!Spec => FixedPromise!HeapSpec
  OBVIOUS
<1>1. Fixed!Init => FixedPromise!HeapInit
  BY DEF Fixed!Init, FixedPromise!HeapInit, FixedRanges
<1>2. FixedIInv /\ [Fixed!Next]_Fixed!vars =>
        [FixedPromise!HeapNext]_fixedHeap
  BY FixedStepIsHeapStep
<1> QED BY <1>1, <1>2, FixedInductiveInvariant, PTL DEF Fixed!Spec, FixedPromise!HeapSpec, fixedHeap

\* Until fixed_allocator_free is called no word outside the pool is read or
\* written, whatever users leave in the words of their blocks.
THEOREM StaysInsideUntilFreed == Fixed!FixedAssumption => (Fixed!Spec => [](wild => freed))
<1>1. FixedIInv => (wild => freed)
  BY DEF FixedIInv, ListInv
<1> QED BY <1>1, FixedInductiveInvariant, PTL

-----------------------------------------------------------------------------
(* The arena.  Its free list: taking a block out and putting one in keeps  *)
(* each free block in it once, by size.                                    *)

\* l lists the blocks of S, each once and by the sizes hs gives them.
Lists(l, S, hs) ==
  \E n \in Nat : /\ IsList(l, n)
                 /\ S = {l[i] : i \in 1 .. n}
                 /\ \A i, j \in 1 .. n : i < j => l[i] # l[j] /\ hs[l[i]].size <= hs[l[j]].size

\* Where b is found first, or behind the list.
IsFirst(k, P, n) == k \in 1 .. n + 1 /\ (k <= n => k \in P) /\ \A i \in P : k <= i

\* The least member of a set of places is where it is found first.
LEMMA Found ==
  ASSUME NEW n \in Nat, NEW P, P \subseteq 1 .. n, NEW k, k = Min(P \cup {n + 1})
  PROVE  IsFirst(k, P, n)
<1>1. PICK S : S = P \cup {n + 1}
  OBVIOUS
<1>2. S \subseteq Nat /\ S # {}
  BY <1>1
<1>3. \E m \in S : \A i \in S : m <= i
  BY <1>2, Least
<1>4. Min(S) \in S /\ \A i \in S : Min(S) <= i
  BY <1>3, Zenon DEF Min
<1>5. k \in S /\ \A i \in S : k <= i
  BY <1>1, <1>4
<1> QED BY <1>1, <1>5 DEF IsFirst

\* A list without its k-th element.
LEMMA DisconnectTakesOut ==
  ASSUME NEW l, NEW n \in Nat, IsList(l, n), NEW k \in 1 .. n,
         IsInjective(l)
  PROVE  /\ IsList(Disconnect(l, l[k]), n - 1)
         /\ \A i \in 1 .. n - 1 : Disconnect(l, l[k])[i] = IF i < k THEN l[i] ELSE l[i + 1]
<1> DEFINE P == {i \in 1 .. n : l[i] = l[k]}
<1>1. Len(l) = n
  BY Listed DEF IsList
<1>2. P \subseteq 1 .. n /\ P = {k}
  BY DEF IsList, IsInjective
<1>3. Min(P \cup {n + 1}) = k
  <2> HIDE DEF P
  <2>1. PICK x : x = Min(P \cup {n + 1})
    OBVIOUS
  <2>2. IsFirst(x, P, n)
    BY <1>2, <2>1, Found, Zenon
  <2> QED BY <1>2, <2>1, <2>2 DEF IsFirst
<1>11. PICK p : p = k - 1
  OBVIOUS
<1>12. PICK q : q = n - k
  OBVIOUS
<1>13. /\ p \in Nat /\ q \in Nat /\ p <= n /\ p + q = n - 1 /\ p = p - 1 + 1
       /\ k + 1 \in Nat \ {0} /\ q = n - (k + 1) + 1
  BY <1>11, <1>12
<1>4. PICK f : f = [i \in 1 .. p |-> l[i]]
  OBVIOUS
<1>5. PICK g : g = [i \in 1 .. q |-> l[k + i]]
  OBVIOUS
<1>6. PICK h : h = [i \in 1 .. n - 1 |-> IF i < k THEN l[i] ELSE l[i + 1]]
  OBVIOUS
<1>7. SubSeq(l, 1, p) = f
  <2>1. IsPart(f, p, l, n, 1, p)
    BY <1>4, <1>13 DEF IsPart, IsList
  <2> QED BY <2>1, Part
<1>8. SubSeq(l, k + 1, n) = g
  <2>1. IsPart(g, q, l, n, k + 1, n)
    <3>1. \A i \in 1 .. q : g[i] = l[k + 1 + i - 1]
      BY <1>5, <1>13
    <3>2. IsList(g, q) /\ IsList(l, n)
      BY <1>5, <1>13 DEF IsList
    <3> QED BY <1>13, <3>1, <3>2 DEF IsPart
  <2> QED BY <2>1, Part
<1>9. h = f \o g
  <2>2. IsList(f, p) /\ IsList(g, q) /\ IsList(h, p + q)
    BY <1>4, <1>5, <1>6, <1>13 DEF IsList
  <2>3. \A i \in 1 .. p : h[i] = f[i]
    BY <1>4, <1>6, <1>11, <1>13
  <2>4. \A i \in 1 .. q : h[p + i] = g[i]
    BY <1>5, <1>6, <1>11, <1>12
  <2>5. p \in Nat /\ q \in Nat
    BY <1>13
  <2> HIDE DEF P
  <2> QED BY <2>5, <2>2, <2>3, <2>4, Joined, ZenonT(60)
<1>10. Disconnect(l, l[k]) = h
  <2>1. Disconnect(l, l[k]) = SubSeq(l, 1, k - 1) \o SubSeq(l, k + 1, n)
    BY <1>1, <1>3, Zenon DEF Disconnect
  <2> QED BY <2>1, <1>7, <1>8, <1>9, <1>11
<1> QED BY <1>6, <1>10 DEF IsList

\* A list that does not hold h stays as it is.
LEMMA DisconnectLeaves ==
  ASSUME NEW l, NEW n \in Nat, IsList(l, n), NEW h, \A i \in 1 .. n : l[i] # h
  PROVE  Disconnect(l, h) = l
<1> DEFINE P == {i \in 1 .. n : l[i] = h}
<1>1. Len(l) = n
  BY Listed DEF IsList
<1>2. P \subseteq 1 .. n /\ P = {}
  OBVIOUS
<1>3. Min(P \cup {n + 1}) = n + 1
  <2> HIDE DEF P
  <2>1. PICK x : x = Min(P \cup {n + 1})
    OBVIOUS
  <2>2. IsFirst(x, P, n)
    BY <1>2, <2>1, Found, Zenon
  <2> QED BY <1>2, <2>1, <2>2 DEF IsFirst
<1>4. Disconnect(l, h) = SubSeq(l, 1, (n + 1) - 1) \o SubSeq(l, (n + 1) + 1, n)
  BY <1>1, <1>3, Zenon DEF Disconnect
<1> DEFINE C == {l[k] : k \in 1 .. n}
<1>5. \A k \in 1 .. n : l[k] \in C
  OBVIOUS
<1> HIDE DEF C
<1>6. l \in Seq(C)
  BY <1>5, Listed DEF IsList
<1>7. SubSeq(l, 1, (n + 1) - 1) = l
  BY <1>1, <1>6
<1>8. SubSeq(l, (n + 1) + 1, n) = <<>>
  BY <1>1, <1>6
<1> QED BY <1>4, <1>6, <1>7, <1>8

\* A list with h put in at k.
LEMMA InsertPutsIn ==
  ASSUME NEW l, NEW n \in Nat, IsList(l, n), NEW k \in 1 .. n + 1, NEW h
  PROVE  /\ IsList(InsertAt(l, k, h), n + 1)
         /\ \A i \in 1 .. n + 1 :
              InsertAt(l, k, h)[i] = IF i < k THEN l[i] ELSE IF i = k THEN h ELSE l[i - 1]
<1>1. Len(l) = n
  BY Listed DEF IsList
<1>2. PICK p : p = k - 1
  OBVIOUS
<1>3. PICK q : q = n - k + 1
  OBVIOUS
<1>4. /\ p \in Nat /\ q \in Nat /\ p <= n /\ (p + 1) + q = n + 1 /\ p = p - 1 + 1
      /\ p + 1 \in Nat /\ 1 \in Nat
  BY <1>2, <1>3
<1>5. PICK f : f = [i \in 1 .. p |-> l[i]]
  OBVIOUS
<1>6. PICK g : g = [i \in 1 .. q |-> l[k + i - 1]]
  OBVIOUS
<1>7. PICK j : j = [i \in 1 .. n + 1 |-> IF i < k THEN l[i] ELSE IF i = k THEN h ELSE l[i - 1]]
  OBVIOUS
<1>8. PICK o : o = [i \in 1 .. 1 |-> h]
  OBVIOUS
<1>9. PICK e : e = [i \in 1 .. p + 1 |-> IF i = p + 1 THEN h ELSE l[i]]
  OBVIOUS
<1>10. SubSeq(l, 1, p) = f
  <2>1. IsPart(f, p, l, n, 1, p)
    BY <1>5, <1>4 DEF IsPart, IsList
  <2> QED BY <2>1, Part
<1>11. SubSeq(l, k, n) = g
  <2>1. PICK c : c = k
    OBVIOUS
  <2>2. IsPart(g, q, l, n, c, n)
    BY <1>6, <1>3, <1>4, <2>1 DEF IsPart, IsList
  <2>3. SubSeq(l, c, n) = g
    BY <2>2, Part
  <2> QED BY <2>1, <2>3
<1>12. o = <<h>>
  BY <1>8
<1>13. e = f \o o
  <2>1. IsList(f, p) /\ IsList(o, 1) /\ IsList(e, p + 1)
    BY <1>5, <1>8, <1>9 DEF IsList
  <2>2. \A i \in 1 .. p : e[i] = f[i]
    BY <1>5, <1>9, <1>4
  <2>3. \A i \in 1 .. 1 : e[p + i] = o[i]
    BY <1>8, <1>9, <1>4
  <2>4. IsJoin(e, f, p, o, 1)
    BY <1>4, <2>1, <2>2, <2>3 DEF IsJoin
  <2> QED BY <2>4, Join
<1>14. j = e \o g
  <2>1. PICK r : r = p + 1
    OBVIOUS
  <2>2. IsList(e, r) /\ IsList(g, q) /\ IsList(j, r + q)
    BY <1>4, <1>6, <1>7, <1>9, <2>1 DEF IsList
  <2>3. \A i \in 1 .. r : j[i] = e[i]
    BY <1>7, <1>9, <1>2, <1>4, <2>1
  <2>4. \A i \in 1 .. q : j[r + i] = g[i]
    BY <1>6, <1>7, <1>2, <1>3, <2>1
  <2>5. r \in Nat
    BY <1>4, <2>1
  <2>6. IsJoin(j, e, r, g, q)
    BY <1>4, <2>2, <2>3, <2>4, <2>5 DEF IsJoin
  <2> QED BY <2>6, Join
<1>15. InsertAt(l, k, h) = j
  <2>1. InsertAt(l, k, h) = SubSeq(l, 1, k - 1) \o <<h>> \o SubSeq(l, k, n)
    BY <1>1, Zenon DEF InsertAt
  <2> QED BY <2>1, <1>2, <1>10, <1>11, <1>12, <1>13, <1>14, Zenon
<1> QED BY <1>7, <1>15 DEF IsList

\* A block taken out of the list of free ones.
LEMMA DisconnectLists ==
  ASSUME NEW l, NEW S, NEW hs, Lists(l, S, hs), NEW h \in S
  PROVE  Lists(Disconnect(l, h), S \ {h}, hs)
<1>1. PICK n \in Nat :
        /\ IsList(l, n)
        /\ S = {l[i] : i \in 1 .. n}
        /\ \A i, j \in 1 .. n : i < j => l[i] # l[j] /\ hs[l[i]].size <= hs[l[j]].size
  BY DEF Lists
<1>2. PICK k \in 1 .. n : l[k] = h
  BY <1>1
<1>3. \A i, j \in 1 .. n : l[i] = l[j] => i = j
  BY <1>1
<1>4. IsInjective(l)
  BY <1>1, <1>3 DEF IsInjective, IsList
<1>5. PICK d : d = Disconnect(l, l[k])
  OBVIOUS
<1>6. /\ IsList(d, n - 1)
      /\ \A i \in 1 .. n - 1 : d[i] = IF i < k THEN l[i] ELSE l[i + 1]
  BY <1>1, <1>4, <1>5, DisconnectTakesOut
<1>7. S \ {h} = {d[i] : i \in 1 .. n - 1}
  <2>1. ASSUME NEW i \in 1 .. n - 1 PROVE d[i] \in S \ {h}
    BY <1>1, <1>2, <1>3, <1>6
  <2>2. ASSUME NEW b \in S \ {h} PROVE \E i \in 1 .. n - 1 : d[i] = b
    <3>1. PICK i \in 1 .. n : l[i] = b
      BY <1>1
    <3>2. CASE i < k
      <4>1. i \in 1 .. n - 1
        BY <3>2
      <4> QED BY <1>6, <3>1, <3>2, <4>1
    <3>3. CASE ~ (i < k)
      <4>1. i - 1 \in 1 .. n - 1 /\ ~ (i - 1 < k) /\ (i - 1) + 1 = i
        BY <1>2, <3>1, <3>3
      <4> QED BY <1>6, <3>1, <4>1
    <3> QED BY <3>2, <3>3
  <2> QED BY <2>1, <2>2
<1>8. ASSUME NEW i \in 1 .. n - 1, NEW j \in 1 .. n - 1, i < j
      PROVE  d[i] # d[j] /\ hs[d[i]].size <= hs[d[j]].size
  <2>1. PICK a : a = IF i < k THEN i ELSE i + 1
    OBVIOUS
  <2>2. PICK b : b = IF j < k THEN j ELSE j + 1
    OBVIOUS
  <2>3. a \in 1 .. n /\ b \in 1 .. n /\ a < b
    BY <1>8, <2>1, <2>2
  <2>4. d[i] = l[a] /\ d[j] = l[b]
    BY <1>6, <2>1, <2>2
  <2> QED BY <1>1, <2>3, <2>4
<1>9. n - 1 \in Nat
  OBVIOUS
<1>10. Lists(d, S \ {h}, hs)
  BY <1>6, <1>7, <1>8, <1>9 DEF Lists
<1> QED BY <1>2, <1>5, <1>10

\* A block put into it.
LEMMA InsertLists ==
  ASSUME NEW l, NEW S, NEW hs, Lists(l, S, hs), NEW h, h \notin S,
         \A b \in S \cup {h} : hs[b].size \in Int
  PROVE  Lists(InsertAsFree(l, hs, h), S \cup {h}, hs)
<1>1. PICK n \in Nat :
        /\ IsList(l, n)
        /\ S = {l[i] : i \in 1 .. n}
        /\ \A i, j \in 1 .. n : i < j => l[i] # l[j] /\ hs[l[i]].size <= hs[l[j]].size
  BY DEF Lists
<1>2. Len(l) = n
  BY <1>1, Listed DEF IsList
<1>3. PICK P : P = {i \in 1 .. n : hs[l[i]].size >= hs[h].size}
  OBVIOUS
<1>4. PICK k : k = Stop(l, hs, hs[h].size)
  OBVIOUS
<1>5. k = Min(P \cup {n + 1})
  BY <1>2, <1>3, <1>4, Zenon DEF Stop
<1>6. IsFirst(k, P, n)
  BY <1>3, <1>5, Found
<1>7. k \in 1 .. n + 1
  BY <1>6 DEF IsFirst
<1>8. PICK d : d = InsertAt(l, k, h)
  OBVIOUS
<1>9. /\ IsList(d, n + 1)
      /\ \A i \in 1 .. n + 1 : d[i] = IF i < k THEN l[i] ELSE IF i = k THEN h ELSE l[i - 1]
  BY <1>1, <1>7, <1>8, InsertPutsIn
<1>10. S \cup {h} = {d[i] : i \in 1 .. n + 1}
  <2>1. ASSUME NEW i \in 1 .. n + 1 PROVE d[i] \in S \cup {h}
    <3>1. CASE i < k
      <4>1. i \in 1 .. n
        BY <1>7, <3>1
      <4> QED BY <1>1, <1>9, <3>1, <4>1
    <3>2. CASE i = k
      BY <1>9, <3>2
    <3>3. CASE i > k
      <4>1. i - 1 \in 1 .. n /\ ~ (i < k) /\ i # k
        BY <1>7, <3>3
      <4> QED BY <1>1, <1>9, <4>1
    <3> QED BY <1>7, <3>1, <3>2, <3>3
  <2>2. ASSUME NEW b \in S \cup {h} PROVE \E i \in 1 .. n + 1 : d[i] = b
    <3>1. CASE b = h
      BY <1>7, <1>9, <3>1
    <3>2. CASE b # h
      <4>1. PICK i \in 1 .. n : l[i] = b
        BY <1>1, <3>2
      <4>2. CASE i < k
        <5>1. i \in 1 .. n + 1
          OBVIOUS
        <5> QED BY <1>9, <4>1, <4>2, <5>1
      <4>3. CASE ~ (i < k)
        <5>1. i + 1 \in 1 .. n + 1 /\ ~ (i + 1 < k) /\ i + 1 # k /\ (i + 1) - 1 = i
          BY <1>7, <4>3
        <5> QED BY <1>9, <4>1, <5>1
      <4> QED BY <4>2, <4>3
    <3> QED BY <3>1, <3>2
  <2> QED BY <2>1, <2>2
<1>11. ASSUME NEW i \in 1 .. n, i < k PROVE hs[l[i]].size < hs[h].size
  <2>1. i \notin P
    BY <1>6, <1>7, <1>11 DEF IsFirst
  <2>2. hs[l[i]].size \in Int /\ hs[h].size \in Int
    BY <1>1
  <2> QED BY <1>3, <2>1, <2>2
<1>12. ASSUME NEW i \in 1 .. n, i >= k PROVE hs[h].size <= hs[l[i]].size
  <2>1. k \in P /\ k \in 1 .. n
    BY <1>6, <1>7, <1>12 DEF IsFirst
  <2>2. hs[l[i]].size \in Int /\ hs[h].size \in Int /\ hs[l[k]].size \in Int
    BY <1>1, <2>1
  <2>3. k < i => hs[l[k]].size <= hs[l[i]].size
    BY <1>1, <2>1
  <2> QED BY <1>3, <1>7, <1>12, <2>1, <2>2, <2>3
<1>13. ASSUME NEW i \in 1 .. n + 1, NEW j \in 1 .. n + 1, i < j
       PROVE  d[i] # d[j] /\ hs[d[i]].size <= hs[d[j]].size
  <2>1. CASE j < k
    <3>1. i \in 1 .. n /\ j \in 1 .. n /\ d[i] = l[i] /\ d[j] = l[j]
      BY <1>7, <1>9, <1>13, <2>1
    <3> QED BY <1>1, <1>13, <3>1
  <2>2. CASE j = k
    <3>1. i \in 1 .. n /\ i < k /\ d[i] = l[i] /\ d[j] = h
      BY <1>7, <1>9, <1>13, <2>2
    <3>2. l[i] \in S /\ hs[l[i]].size \in Int /\ hs[h].size \in Int
      BY <1>1, <3>1
    <3>3. hs[l[i]].size < hs[h].size
      BY <1>11, <3>1
    <3> QED BY <3>1, <3>2, <3>3
  <2>3. CASE i = k
    <3>1. j - 1 \in 1 .. n /\ j - 1 >= k /\ d[i] = h /\ d[j] = l[j - 1]
      BY <1>7, <1>9, <1>13, <2>3
    <3>2. l[j - 1] \in S
      BY <1>1, <3>1
    <3>3. hs[h].size <= hs[l[j - 1]].size
      BY <1>12, <3>1
    <3> QED BY <3>1, <3>2, <3>3
  <2>4. CASE i < k /\ j > k
    <3>1. /\ i \in 1 .. n /\ d[i] = l[i]
          /\ j - 1 \in 1 .. n /\ i < j - 1 /\ d[j] = l[j - 1]
      BY <1>7, <1>9, <1>13, <2>4
    <3> QED BY <1>1, <3>1
  <2>5. CASE i > k
    <3>1. /\ i - 1 \in 1 .. n /\ d[i] = l[i - 1]
          /\ j - 1 \in 1 .. n /\ i - 1 < j - 1 /\ d[j] = l[j - 1]
      BY <1>7, <1>9, <1>13, <2>5
    <3> QED BY <1>1, <3>1
  <2> QED BY <1>7, <1>13, <2>1, <2>2, <2>3, <2>4, <2>5
<1>14. n + 1 \in Nat
  OBVIOUS
<1>15. Lists(d, S \cup {h}, hs)
  BY <1>9, <1>10, <1>13, <1>14 DEF Lists
<1>16. InsertAsFree(l, hs, h) = d
  BY <1>4, <1>8, Zenon DEF InsertAsFree
<1> QED BY <1>15, <1>16

\* The list of a set of blocks whose sizes another set of headers gives as well.
LEMMA SameSizes ==
  ASSUME NEW l, NEW S, NEW hs, Lists(l, S, hs), NEW gs, \A b \in S : gs[b].size = hs[b].size
  PROVE  Lists(l, S, gs)
BY DEF Lists

-----------------------------------------------------------------------------
(* What a store leaves of the words, and what holds while the arena is     *)
(* intact.                                                                 *)

\* What a store leaves of the words of f.
Spares(e, f, lo, hi) ==
  /\ e = [a \in DOMAIN e |-> e[a]]
  /\ DOMAIN e = {a \in DOMAIN f : a + 8 <= lo \/ hi <= a}
  /\ \A a \in DOMAIN e : e[a] = f[a]

LEMMA SparedWords ==
  ASSUME NEW f, NEW lo, NEW hi, NEW e, e = Spared(f, lo, hi)
  PROVE  Spares(e, f, lo, hi)
BY DEF Spared, Restrict, Spares

\* The words of g are those of f outside lo .. hi - 1 and w at h.
Written(g, f, h, w, lo, hi) ==
  /\ g = [a \in DOMAIN g |-> g[a]]
  /\ DOMAIN g = {h} \cup {a \in DOMAIN f : a + 8 <= lo \/ hi <= a}
  /\ g[h] = w
  /\ \A a \in DOMAIN g : a # h => g[a] = f[a]

LEMMA PutSpared ==
  ASSUME NEW f, NEW h, NEW w, NEW lo, NEW hi, NEW g, g = With(Spared(f, lo, hi), h, w)
  PROVE  Written(g, f, h, w, lo, hi)
<1>1. PICK e : e = Spared(f, lo, hi)
  OBVIOUS
<1>2. Spares(e, f, lo, hi)
  BY <1>1, SparedWords
<1>3. g = [a \in {h} \cup DOMAIN e |-> IF a = h THEN w ELSE e[a]]
  BY <1>1, Zenon DEF With
<1> QED BY <1>2, <1>3 DEF Written, Spares

\* The headers once one has been stored with its tail, and the tails.
LEMMA HeadWritten ==
  ASSUME NEW f, NEW h, NEW s, NEW b, NEW g, g = WithHead(f, h, s, b)
  PROVE  Written(g, f, h, [size |-> s, free |-> b], TailOf(h, s), TailOf(h, s) + 8)
<1>1. g = With(Spared(f, TailOf(h, s), TailOf(h, s) + 8), h, [size |-> s, free |-> b])
  BY Zenon DEF WithHead
<1> QED BY <1>1, PutSpared, Zenon

LEMMA TailWritten ==
  ASSUME NEW f, NEW h, NEW s, NEW b, NEW g, g = WithTail(f, h, s, b)
  PROVE  Written(g, f, TailOf(h, s), [size |-> TailSize(s), free |-> b],
                 TailOf(h, s), TailOf(h, s) + 8)
<1>1. g = With(Spared(f, TailOf(h, s), TailOf(h, s) + 8), TailOf(h, s),
               [size |-> TailSize(s), free |-> b])
  BY Zenon DEF WithTail
<1> QED BY <1>1, PutSpared, Zenon

\* What holds while the arena is intact.
WholeList == Lists(freeList, FreeBlocks, head)

WholeHeads ==
  /\ DOMAIN head \cup DOMAIN tail \subseteq 0 .. Capacity - 8
  /\ \A b \in DOMAIN head : head[b].size \in Int

WholeBlocks ==
  \A b \in DOMAIN held :
    /\ b \in DOMAIN head /\ head[b].free = FALSE
    /\ held[b] \in Nat \ {0} /\ held[b] <= TailSize(head[b].size)
    /\ TailOf(b, head[b].size) \in DOMAIN tail
    /\ \A a \in DOMAIN head \cup DOMAIN tail : a <= b \/ b + 8 + held[b] <= a

Whole == WholeList /\ WholeHeads /\ WholeBlocks

\* A request takes a block of more than its size, header and tail.
LEMMA WantRoom ==
  ASSUME NEW n \in Nat
  PROVE  Want(n) \in Nat /\ Want(n) >= n + Overhead /\ Want(n) >= MinSize + Overhead
BY DEF Want, Rounded, MinSize, Overhead, Align8

LEMMA AlignedUp ==
  ASSUME NEW a \in Int
  PROVE  /\ Align8(a) \in Int /\ Align8(a) % 8 = 0
         /\ a <= Align8(a) /\ Align8(a) <= a + 7
BY DEF Align8

\* The headers after h has been given out for n bytes: those from before, that
\* of h, and that of what is left, if anything.
Gave(h, n, s, rest) ==
  /\ h \in DOMAIN head' /\ head'[h].size = s /\ head'[h].free = FALSE
  /\ s \in Int /\ n <= TailSize(s)
  /\ \A b \in rest : /\ b \in DOMAIN head' /\ b > h
                     /\ head'[b].free = TRUE /\ head'[b].size \in Int
  /\ \A a \in DOMAIN head' : a = h \/ a \in rest \/ (a \in DOMAIN head /\ head'[a] = head[a])
  /\ intact' => rest \cap DOMAIN head = {} /\ Undamaged({h})
  /\ \/ rest = {} /\ (intact' => freeList' = Disconnect(freeList, h))
     \/ \E b \in rest :
          rest = {b} /\ (intact' => freeList' = InsertAsFree(Disconnect(freeList, h), head', b))

\* What handing out a block does to the headers.
LEMMA GiveHeaders ==
  ASSUME NEW h \in Int, h \in DOMAIN head, DOMAIN head \subseteq Int, head[h].size \in Int,
         NEW n \in Nat, head[h].size >= Want(n), Give(h, n)
  PROVE  \E s, rest : Gave(h, n, s, rest)
<1>1. PICK s : s = Taken(h, n)
  OBVIOUS
<1>2. PICK w \in Nat : w = Want(n) /\ w >= n + 23 /\ w >= 62
  BY WantRoom DEF Overhead, MinSize
<1>3. PICK z \in Int : z = head[h].size
  OBVIOUS
<1>4. s \in Int /\ s >= w /\ s <= z
  BY <1>1, <1>2, <1>3 DEF Taken, MinSize, Overhead
<1>5. PICK hs : hs = WithHead(head, h, s, FALSE)
  OBVIOUS
<1>6. PICK ts : ts = WithTail(tail, h, s, FALSE)
  OBVIOUS
<1>7. PICK c : c = Carved(h, n)
  OBVIOUS
<1>8. PICK end : end = TailOf(h, s) + 8
  OBVIOUS
<1>9. PICK new : new = Align8(end)
  OBVIOUS
<1>10. PICK left : left = (z - s) - (new - end)
  OBVIOUS
<1>11. end \in Int /\ end = h + s - 7 /\ new \in Int /\ end <= new /\ new <= end + 7
  BY <1>4, <1>8, <1>9, AlignedUp DEF TailOf, Overhead
<1> DEFINE took == [size |-> s, free |-> FALSE]
           back == [size |-> left, free |-> TRUE]
<1>12. Written(hs, head, h, took, TailOf(h, s), TailOf(h, s) + 8)
  BY <1>5, HeadWritten
<1>21. took.size = s /\ took.free = FALSE /\ back.size = left /\ back.free = TRUE
  OBVIOUS
<1> HIDE DEF took, back
<1>13. n <= TailSize(s)
  BY <1>2, <1>4 DEF TailSize, Overhead
<1>14. head' = Filled(c.head, h, n)
  BY <1>7, Zenon DEF Give
<1>15. Spares(head', c.head, h + 8, h + 8 + n)
  <2>1. head' = Spared(c.head, h + 8, h + 8 + n)
    BY <1>14, Zenon DEF Filled
  <2>2. PICK e : e = Spared(c.head, h + 8, h + 8 + n)
    OBVIOUS
  <2>3. Spares(e, c.head, h + 8, h + 8 + n)
    BY <2>2, SparedWords
  <2> QED BY <2>1, <2>2, <2>3, Zenon
<1>16. intact' = (c.rest \cap DOMAIN head = {} /\ Undamaged({h}))
  BY <1>7, Zenon DEF Give
<1>17. intact' => c.rest \cap DOMAIN head = {} /\ Undamaged({h})
  BY <1>16, Zenon
<1>18. intact' => freeList' = Relisted(Disconnect(freeList, h), head', c.rest)
  BY <1>7, Zenon DEF Give
<1>19. CASE z - s < MinSize
  <2>1. c = [head |-> hs, tail |-> ts, rest |-> {}]
    BY <1>1, <1>3, <1>5, <1>6, <1>7, <1>19 DEF Carved
  <2>2. c.head = hs /\ c.rest = {}
    BY <2>1
  <2>3. h \in DOMAIN head' /\ head'[h] = took
    BY <1>12, <1>15, <2>2 DEF Written, Spares
  <2>4. \A a \in DOMAIN head' : a = h \/ (a \in DOMAIN head /\ head'[a] = head[a])
    BY <1>12, <1>15, <2>2 DEF Written, Spares
  <2>5. intact' => freeList' = Disconnect(freeList, h)
    BY <1>18, <2>2 DEF Relisted
  <2> QED BY <1>4, <1>13, <1>17, <1>21, <2>2, <2>3, <2>4, <2>5 DEF Gave
<1>20. CASE ~ (z - s < MinSize)
  <2>1. z - s >= 39
    BY <1>3, <1>4, <1>20 DEF MinSize, Overhead
  <2>2. PICK gs : gs = WithHead(hs, new, left, TRUE)
    OBVIOUS
  <2>3. c.head = gs /\ c.rest = {new}
    <3>1. c = [head |-> gs, tail |-> Linked(WithTail(ts, new, left, TRUE), new), rest |-> {new}]
      BY <1>1, <1>3, <1>5, <1>6, <1>7, <1>8, <1>9, <1>10, <1>20, <2>2 DEF Carved
    <3> QED BY <3>1
  <2>4. Written(gs, hs, new, back, TailOf(new, left), TailOf(new, left) + 8)
    BY <2>2, HeadWritten, Zenon DEF back
  <2>5. left \in Int /\ left >= 32 /\ new > h /\ TailOf(new, left) >= new /\ h + 8 <= new
    BY <1>2, <1>3, <1>4, <1>10, <1>11, <2>1 DEF TailOf, Overhead
  <2>6. TailOf(new, left) \in Int /\ h + 8 + n <= new
    BY <1>2, <1>4, <1>11, <2>5 DEF TailOf, Overhead
  <2>7. h \in DOMAIN head' /\ head'[h] = took
    <3>1. h \in DOMAIN hs /\ hs[h] = took
      BY <1>12 DEF Written
    <3>2. PICK t \in Int : t = TailOf(new, left) /\ h + 8 <= t /\ h # new
      BY <2>5, <2>6, <1>11
    <3>3. Written(gs, hs, new, back, t, t + 8)
      BY <2>4, <3>2
    <3>4. h \in DOMAIN gs /\ gs[h] = took
      BY <3>1, <3>2, <3>3 DEF Written
    <3> QED BY <1>15, <2>3, <3>4 DEF Spares
  <2>8. new \in DOMAIN head' /\ head'[new] = back
    <3>1. new \in DOMAIN gs /\ gs[new] = back
      BY <2>4 DEF Written
    <3> QED BY <1>11, <1>15, <2>3, <2>6, <3>1 DEF Spares
  <2>9. ASSUME NEW a \in DOMAIN head'
        PROVE  a = h \/ a \in {new} \/ (a \in DOMAIN head /\ head'[a] = head[a])
    <3>1. a \in DOMAIN gs /\ head'[a] = gs[a]
      BY <1>15, <2>3 DEF Spares
    <3>2. CASE a # new /\ a # h
      <4>1. a \in DOMAIN hs /\ gs[a] = hs[a]
        BY <2>4, <3>1, <3>2 DEF Written
      <4> QED BY <1>12, <3>1, <3>2, <4>1 DEF Written
    <3> QED BY <3>2
  <2>10. intact' => freeList' = InsertAsFree(Disconnect(freeList, h), head', new)
    <3>1. (CHOOSE b \in c.rest : TRUE) = new
      BY <2>3
    <3>2. c.rest # {}
      BY <2>3
    <3> QED BY <1>18, <3>1, <3>2, Zenon DEF Relisted
  <2>11. /\ head'[new].free = TRUE /\ head'[new].size \in Int
    BY <1>21, <2>5, <2>8
  <2>12. intact' => {new} \cap DOMAIN head = {} /\ Undamaged({h})
    BY <1>17, <2>3, Zenon
  <2>13. Gave(h, n, s, {new})
    BY <1>4, <1>13, <1>21, <2>5, <2>7, <2>8, <2>9, <2>10, <2>11, <2>12 DEF Gave
  <2> QED BY <2>13
<1> QED BY <1>19, <1>20

\* The arena stays whole when a block is handed out and nothing is damaged.
LEMMA GiveKeepsWhole ==
  ASSUME Whole, NEW h \in FreeBlocks, NEW n \in Nat \ {0}, NEW s, NEW rest, Gave(h, n, s, rest),
         intact', h \in DOMAIN held', held'[h] = n,
         \A b \in DOMAIN held' : b = h \/ (b \in DOMAIN held /\ held'[b] = held[b])
  PROVE  Whole'
<1>1. rest \cap DOMAIN head = {} /\ Undamaged({h})
  BY DEF Gave
<1>2. /\ DOMAIN head' \cup DOMAIN tail' \subseteq 0 .. Capacity - 8
      /\ \A b \in DOMAIN head : b # h => b \in DOMAIN head' /\ head'[b] = head[b]
      /\ \A b \in DOMAIN held' :
           /\ TailOf(b, head'[b].size) \in DOMAIN tail'
           /\ \A a \in DOMAIN head' \cup DOMAIN tail' : a <= b \/ b + 8 + held'[b] <= a
  BY <1>1 DEF Undamaged
<1>3. /\ h \in DOMAIN head' /\ head'[h].size = s /\ head'[h].free = FALSE
      /\ s \in Int /\ n <= TailSize(s)
      /\ \A b \in rest : b \in DOMAIN head' /\ head'[b].free = TRUE /\ head'[b].size \in Int
      /\ \A a \in DOMAIN head' : a = h \/ a \in rest \/ (a \in DOMAIN head /\ head'[a] = head[a])
  BY DEF Gave
<1>4. h \in DOMAIN head /\ head[h].free
  BY DEF FreeBlocks
<1>5. FreeBlocks' = (FreeBlocks \ {h}) \cup rest
  <2>1. ASSUME NEW a \in FreeBlocks' PROVE a \in (FreeBlocks \ {h}) \cup rest
    <3>1. a \in DOMAIN head' /\ head'[a].free
      BY DEF FreeBlocks
    <3>2. a # h
      BY <1>3, <3>1
    <3> QED BY <1>3, <3>1, <3>2 DEF FreeBlocks
  <2>2. ASSUME NEW a \in FreeBlocks, a # h PROVE a \in FreeBlocks'
    BY <1>2, <2>2 DEF FreeBlocks
  <2>3. ASSUME NEW a \in rest PROVE a \in FreeBlocks'
    BY <1>3 DEF FreeBlocks
  <2> QED BY <2>1, <2>2, <2>3
<1>6. \A b \in DOMAIN head' : head'[b].size \in Int
  BY <1>3 DEF Whole, WholeHeads
<1>7. WholeHeads'
  BY <1>2, <1>6 DEF WholeHeads
<1>8. WholeList'
  <2>1. PICK d : d = Disconnect(freeList, h)
    OBVIOUS
  <2>2. Lists(d, FreeBlocks \ {h}, head)
    BY <2>1, DisconnectLists DEF Whole, WholeList
  <2>3. \A b \in FreeBlocks \ {h} : head'[b].size = head[b].size
    BY <1>2 DEF FreeBlocks
  <2>4. Lists(d, FreeBlocks \ {h}, head')
    BY <2>2, <2>3, SameSizes
  <2>5. CASE rest = {} /\ (intact' => freeList' = Disconnect(freeList, h))
    <3>1. freeList' = d
      BY <2>1, <2>5
    <3>2. FreeBlocks' = FreeBlocks \ {h}
      BY <1>5, <2>5
    <3> QED BY <2>4, <3>1, <3>2 DEF WholeList
  <2>6. ASSUME NEW b \in rest, rest = {b},
               intact' => freeList' = InsertAsFree(Disconnect(freeList, h), head', b)
        PROVE  WholeList'
    <3>1. freeList' = InsertAsFree(d, head', b)
      BY <2>1, <2>6
    <3>2. b \notin FreeBlocks \ {h}
      BY <1>1 DEF FreeBlocks
    <3>3. \A c \in (FreeBlocks \ {h}) \cup {b} : head'[c].size \in Int
      BY <1>5, <1>6, <2>6 DEF FreeBlocks
    <3>4. Lists(InsertAsFree(d, head', b), (FreeBlocks \ {h}) \cup {b}, head')
      BY <2>4, <3>2, <3>3, InsertLists
    <3>5. FreeBlocks' = (FreeBlocks \ {h}) \cup {b}
      BY <1>5, <2>6
    <3> QED BY <3>1, <3>4, <3>5, Zenon DEF WholeList
  <2> QED BY <2>5, <2>6 DEF Gave
<1>9. WholeBlocks'
  <2> SUFFICES ASSUME NEW b \in DOMAIN held'
               PROVE  /\ b \in DOMAIN head' /\ head'[b].free = FALSE
                      /\ held'[b] \in Nat \ {0} /\ held'[b] <= TailSize(head'[b].size)
    BY <1>2 DEF WholeBlocks
  <2>1. CASE b = h
    BY <1>3, <2>1
  <2>2. CASE b # h
    <3>1. b \in DOMAIN held /\ held'[b] = held[b]
      BY <2>2
    <3>2. /\ b \in DOMAIN head /\ head[b].free = FALSE
          /\ held[b] \in Nat \ {0} /\ held[b] <= TailSize(head[b].size)
      BY <3>1 DEF Whole, WholeBlocks
    <3>3. b \in DOMAIN head' /\ head'[b] = head[b]
      BY <1>2, <2>2, <3>2
    <3> QED BY <3>1, <3>2, <3>3
  <2> QED BY <2>1, <2>2
<1> QED BY <1>7, <1>8, <1>9 DEF Whole

\* The same, whether the block is in the list or not.
LEMMA DisconnectAny ==
  ASSUME NEW l, NEW S, NEW hs, Lists(l, S, hs), NEW h
  PROVE  Lists(Disconnect(l, h), S \ {h}, hs)
<1>1. CASE h \in S
  BY <1>1, DisconnectLists
<1>2. CASE h \notin S
  <2>1. PICK n \in Nat : IsList(l, n) /\ S = {l[i] : i \in 1 .. n}
    BY DEF Lists
  <2>2. \A i \in 1 .. n : l[i] # h
    BY <1>2, <2>1
  <2>3. Disconnect(l, h) = l
    BY <2>1, <2>2, DisconnectLeaves
  <2>4. S \ {h} = S
    BY <1>2
  <2> QED BY <2>3, <2>4
<1> QED BY <1>1, <1>2

\* What the merged block is made of: h, and free blocks that have left the list.
Merged(c, h) ==
  /\ c.at \in c.gone /\ c.size \in Int /\ h \in c.gone
  /\ \A b \in c.gone : b = h \/ b \in FreeBlocks
  /\ Lists(c.list, FreeBlocks \ c.gone, head)

\* A merge that reads words which are there takes free blocks out of the list.
LEMMA CombinedMerged ==
  ASSUME Whole, NEW h \in DOMAIN held, NEW before \in FreeBefore(h),
         NEW behind \in FreeBehind(TailOf(h, head[h].size)),
         before => MergesBefore(h), behind => MergesBehind(TailOf(h, head[h].size))
  PROVE  Merged(Combined(h, before, behind), h)
<1>1. /\ h \in DOMAIN head /\ head[h].free = FALSE /\ head[h].size \in Int
      /\ \A b \in FreeBlocks : b \in DOMAIN head /\ head[b].size \in Int
      /\ h \notin FreeBlocks
  BY DEF Whole, WholeHeads, WholeBlocks, FreeBlocks
<1>2. PICK t : t = TailOf(h, head[h].size)
  OBVIOUS
<1>3. PICK first : first = IF before THEN HeadOf(h - 8, tail[h - 8].size) ELSE h
  OBVIOUS
<1>4. first = h \/ first \in FreeBlocks
  <2>1. CASE before
    BY <1>3, <2>1 DEF MergesBefore, FreeBlocks
  <2>2. CASE ~before
    BY <1>3, <2>2
  <2> QED BY <2>1, <2>2
<1>5. PICK own : own = head[h].size + (IF before THEN head[first].size ELSE 0)
  OBVIOUS
<1>6. own \in Int
  <2>1. head[first].size \in Int
    BY <1>1, <1>4
  <2>2. CASE before
    BY <1>1, <1>5, <2>1, <2>2
  <2>3. CASE ~before
    BY <1>1, <1>5, <2>3
  <2> QED BY <2>2, <2>3
<1>7. PICK list : list = Disconnect(freeList, first)
  OBVIOUS
<1>8. Lists(list, FreeBlocks \ {first}, head)
  BY <1>7, DisconnectAny DEF Whole, WholeList
<1>9. PICK c : c = Combined(h, before, behind)
  OBVIOUS
<1>10. CASE behind
  <2>1. t + 8 \in FreeBlocks
    <3>1. t + 8 \in DOMAIN head
      BY <1>2, <1>10 DEF MergesBehind
    <3>2. behind \in FlagAt(head, t + 8) \/ behind \in {FALSE}
      BY <1>2, Zenon DEF FreeBehind
    <3>3. FlagAt(head, t + 8) = {head[t + 8].free}
      BY <3>1, Zenon DEF FlagAt
    <3>4. head[t + 8].free
      BY <1>10, <3>2, <3>3, Zenon
    <3> QED BY <3>1, <3>4 DEF FreeBlocks
  <2>2. PICK s : s = own + head[t + 8].size
    OBVIOUS
  <2>3. c = [at |-> first, size |-> s, gone |-> {h, first, t + 8},
             list |-> Disconnect(list, t + 8), tailAt |-> TailOf(first, s)]
    <3>1. behind
      BY <1>10
    <3> QED BY <1>2, <1>3, <1>5, <1>7, <1>9, <2>2, <3>1, Zenon DEF Combined
  <2>4. c.at = first /\ c.size = s /\ c.gone = {h, first, t + 8} /\ c.list = Disconnect(list, t + 8)
    BY <2>3
  <2>5. s \in Int
    BY <1>1, <1>6, <2>1, <2>2
  <2>6. Lists(Disconnect(list, t + 8), (FreeBlocks \ {first}) \ {t + 8}, head)
    BY <1>8, DisconnectAny
  <2>7. (FreeBlocks \ {first}) \ {t + 8} = FreeBlocks \ {h, first, t + 8}
    BY <1>1
  <2>8. Lists(c.list, FreeBlocks \ c.gone, head)
    BY <2>4, <2>6, <2>7, Zenon
  <2>9. \A b \in c.gone : b = h \/ b \in FreeBlocks
    BY <1>4, <2>1, <2>4
  <2> QED BY <1>9, <2>4, <2>5, <2>8, <2>9, Zenon DEF Merged
<1>11. CASE ~behind
  <2>1. c = [at |-> first, size |-> own, gone |-> {h, first}, list |-> list, tailAt |-> t]
    <3>1. ~behind
      BY <1>11
    <3> QED BY <1>2, <1>3, <1>5, <1>7, <1>9, <3>1, Zenon DEF Combined
  <2>2. c.at = first /\ c.size = own /\ c.gone = {h, first} /\ c.list = list
    BY <2>1
  <2>3. FreeBlocks \ {first} = FreeBlocks \ {h, first}
    BY <1>1
  <2>4. Lists(c.list, FreeBlocks \ c.gone, head)
    BY <1>8, <2>2, <2>3, Zenon
  <2>5. \A b \in c.gone : b = h \/ b \in FreeBlocks
    BY <1>4, <2>2
  <2> QED BY <1>6, <1>9, <2>2, <2>4, <2>5, Zenon DEF Merged
<1> QED BY <1>10, <1>11

\* The arena stays whole when a merged block is stored and nothing is damaged.
LEMMA StoreKeepsWhole ==
  ASSUME Whole, NEW c, NEW h \in DOMAIN held, Merged(c, h), Store(c), intact',
         \A b \in DOMAIN held' : b \in DOMAIN held /\ b # h /\ held'[b] = held[b]
  PROVE  Whole'
<1> DEFINE whole == [size |-> c.size, free |-> TRUE]
           gone == DOMAIN head \ c.gone
<1>1. whole.size = c.size /\ whole.free = TRUE
  OBVIOUS
<1> HIDE DEF whole
<1>2. PICK e : e = Restrict(head, DOMAIN head \ c.gone)
  OBVIOUS
<1>3. DOMAIN e = DOMAIN head \ c.gone /\ \A a \in DOMAIN e : e[a] = head[a]
  BY <1>2 DEF Restrict
<1>4. head' = With(Spared(e, c.tailAt, c.tailAt + 8), c.at, whole)
  BY <1>2, Zenon DEF Store, whole
<1>5. PICK g : g = With(Spared(e, c.tailAt, c.tailAt + 8), c.at, whole)
  OBVIOUS
<1>6. Written(g, e, c.at, whole, c.tailAt, c.tailAt + 8)
  BY <1>5, PutSpared
<1>7. head' = g
  BY <1>4, <1>5, Zenon
<1>8. c.at \in DOMAIN g /\ g[c.at] = whole /\ \A a \in DOMAIN g : a = c.at \/ (a \in DOMAIN e /\ g[a] = e[a])
  BY <1>6 DEF Written
<1>9. /\ c.at \in DOMAIN head' /\ head'[c.at].free = TRUE /\ head'[c.at].size = c.size
      /\ \A a \in DOMAIN head' : a = c.at \/ (a \in DOMAIN head /\ a \notin c.gone /\ head'[a] = head[a])
  BY <1>1, <1>3, <1>7, <1>8
<1>10. Undamaged(c.gone)
  <2>1. intact' = Undamaged(c.gone)
    BY Zenon DEF Store
  <2> QED BY <2>1, Zenon
<1>11. freeList' = InsertAsFree(c.list, head', c.at)
  BY Zenon DEF Store
<1>12. /\ DOMAIN head' \cup DOMAIN tail' \subseteq 0 .. Capacity - 8
       /\ \A b \in DOMAIN head : b \notin c.gone => b \in DOMAIN head' /\ head'[b] = head[b]
       /\ \A b \in DOMAIN held' :
            /\ TailOf(b, head'[b].size) \in DOMAIN tail'
            /\ \A a \in DOMAIN head' \cup DOMAIN tail' : a <= b \/ b + 8 + held'[b] <= a
  BY <1>10 DEF Undamaged
<1>13. \A b \in DOMAIN head' : head'[b].size \in Int
  BY <1>9 DEF Whole, WholeHeads, Merged
<1>14. WholeHeads'
  BY <1>12, <1>13 DEF WholeHeads
<1>15. FreeBlocks' = (FreeBlocks \ c.gone) \cup {c.at}
  <2>1. ASSUME NEW a \in FreeBlocks' PROVE a \in (FreeBlocks \ c.gone) \cup {c.at}
    BY <1>9 DEF FreeBlocks
  <2>2. ASSUME NEW a \in FreeBlocks, a \notin c.gone PROVE a \in FreeBlocks'
    BY <1>12, <2>2 DEF FreeBlocks
  <2>3. c.at \in FreeBlocks'
    BY <1>9 DEF FreeBlocks
  <2> QED BY <2>1, <2>2, <2>3
<1>16. WholeList'
  <2>1. Lists(c.list, FreeBlocks \ c.gone, head)
    BY DEF Merged
  <2>2. \A b \in FreeBlocks \ c.gone : head'[b].size = head[b].size
    BY <1>12 DEF FreeBlocks
  <2>3. Lists(c.list, FreeBlocks \ c.gone, head')
    BY <2>1, <2>2, SameSizes
  <2>4. c.at \notin FreeBlocks \ c.gone
    BY DEF Merged
  <2>5. \A b \in (FreeBlocks \ c.gone) \cup {c.at} : head'[b].size \in Int
    BY <1>13, <1>15 DEF FreeBlocks
  <2>6. Lists(InsertAsFree(c.list, head', c.at), (FreeBlocks \ c.gone) \cup {c.at}, head')
    BY <2>3, <2>4, <2>5, InsertLists
  <2> QED BY <1>11, <1>15, <2>6, Zenon DEF WholeList
<1>17. WholeBlocks'
  <2> SUFFICES ASSUME NEW b \in DOMAIN held'
               PROVE  /\ b \in DOMAIN head' /\ head'[b].free = FALSE
                      /\ held'[b] \in Nat \ {0} /\ held'[b] <= TailSize(head'[b].size)
    BY <1>12 DEF WholeBlocks
  <2>1. b \in DOMAIN held /\ b # h /\ held'[b] = held[b]
    OBVIOUS
  <2>2. /\ b \in DOMAIN head /\ head[b].free = FALSE
        /\ held[b] \in Nat \ {0} /\ held[b] <= TailSize(head[b].size)
    BY <2>1 DEF Whole, WholeBlocks
  <2>3. b \notin c.gone
    BY <2>1, <2>2 DEF Merged, FreeBlocks
  <2>4. b \in DOMAIN head' /\ head'[b] = head[b]
    BY <1>12, <2>2, <2>3
  <2> QED BY <2>1, <2>2, <2>4
<1> QED BY <1>14, <1>16, <1>17 DEF Whole

-----------------------------------------------------------------------------
(* Every call keeps the arena whole, or damages it.                        *)

\* The block found is free and large enough.
LEMMA CandidateFits ==
  ASSUME Whole, NEW n \in Nat, NEW h \in Candidates(n)
  PROVE  /\ h \in FreeBlocks /\ h \in DOMAIN head /\ h \in Int /\ DOMAIN head \subseteq Int
         /\ head[h].size \in Int /\ head[h].size >= Want(n) /\ n # 0
<1>1. PICK m \in Nat : IsList(freeList, m) /\ FreeBlocks = {freeList[i] : i \in 1 .. m}
  BY DEF Whole, WholeList, Lists
<1>2. Len(freeList) = m
  BY <1>1, Listed DEF IsList
<1>3. PICK k : k = Stop(freeList, head, Want(n))
  OBVIOUS
<1>4. PICK P : P = {i \in 1 .. m : head[freeList[i]].size >= Want(n)}
  OBVIOUS
<1>5. k = Min(P \cup {m + 1})
  BY <1>2, <1>3, <1>4, Zenon DEF Stop
<1>6. IsFirst(k, P, m)
  BY <1>4, <1>5, Found
<1>7. ~Refused(n) /\ ~ (k > m) /\ h = freeList[k]
  BY <1>2, <1>3 DEF Candidates
<1>8. k \in P
  BY <1>6, <1>7 DEF IsFirst
<1>9. h \in FreeBlocks /\ head[h].size >= Want(n)
  BY <1>1, <1>4, <1>7, <1>8
<1>10. n # 0
  BY <1>7 DEF Refused
<1> QED BY <1>9, <1>10 DEF FreeBlocks, Whole, WholeHeads

LEMMA AllocKeepsWhole ==
  ASSUME Whole, NEW n \in Nat, Alloc(n), intact'
  PROVE  Whole'
<1>1. PICK h \in Candidates(n) : Give(h, n) /\ held' = With(held, h, n)
  BY DEF Alloc
<1>2. /\ h \in FreeBlocks /\ h \in DOMAIN head /\ h \in Int /\ DOMAIN head \subseteq Int
      /\ head[h].size \in Int /\ head[h].size >= Want(n) /\ n # 0
  BY CandidateFits
<1>3. PICK s, rest : Gave(h, n, s, rest)
  BY <1>1, <1>2, GiveHeaders
<1>4. /\ h \in DOMAIN held' /\ held'[h] = n
      /\ \A b \in DOMAIN held' : b = h \/ (b \in DOMAIN held /\ held'[b] = held[b])
  BY <1>1 DEF With
<1> QED BY <1>2, <1>3, <1>4, GiveKeepsWhole

LEMMA MoveKeepsWhole ==
  ASSUME Whole, NEW h \in DOMAIN held, NEW n \in Nat, ReallocMoves(h, n), intact'
  PROVE  Whole'
<1>1. PICK new \in Candidates(n) :
        Give(new, n) /\ held' = With(Restrict(held, DOMAIN held \ {h}), new, n)
  BY DEF ReallocMoves
<1>2. /\ new \in FreeBlocks /\ new \in DOMAIN head /\ new \in Int /\ DOMAIN head \subseteq Int
      /\ head[new].size \in Int /\ head[new].size >= Want(n) /\ n # 0
  BY CandidateFits
<1>3. PICK s, rest : Gave(new, n, s, rest)
  BY <1>1, <1>2, GiveHeaders
<1>4. /\ new \in DOMAIN held' /\ held'[new] = n
      /\ \A b \in DOMAIN held' : b = new \/ (b \in DOMAIN held /\ held'[b] = held[b])
  BY <1>1 DEF With, Restrict
<1> QED BY <1>2, <1>3, <1>4, GiveKeepsWhole

LEMMA FreeKeepsWhole ==
  ASSUME Whole, NEW h, Free(h), intact'
  PROVE  Whole'
<1>1. PICK t : t = TailOf(h, head[h].size)
  OBVIOUS
<1>2. h \in DOMAIN held
  BY DEF Free
<1>3. PICK before \in FreeBefore(h), behind \in FreeBehind(t) :
        IF (before => MergesBefore(h)) /\ (behind => MergesBehind(t))
          THEN /\ Released(h) /\ Store(Combined(h, before, behind))
          ELSE intact' = FALSE
  BY <1>1, Zenon DEF Free
<1>4. /\ before => MergesBefore(h)
      /\ behind => MergesBehind(t)
      /\ Released(h) /\ Store(Combined(h, before, behind))
  BY <1>3, Zenon
<1>5. Merged(Combined(h, before, behind), h)
  BY <1>1, <1>2, <1>4, CombinedMerged
<1>6. \A b \in DOMAIN held' : b \in DOMAIN held /\ b # h /\ held'[b] = held[b]
  BY <1>4 DEF Released, Restrict
<1> QED BY <1>2, <1>4, <1>5, <1>6, StoreKeepsWhole

LEMMA IgnoredKeepsWhole ==
  ASSUME Whole, NEW h, FreeIgnored(h)
  PROVE  Whole'
<1>1. UNCHANGED <<freeList, head, tail>>
  BY DEF FreeIgnored
<1>2. \A b \in DOMAIN held' : b \in DOMAIN held /\ held'[b] = held[b]
  BY DEF FreeIgnored, Restrict
<1>3. WholeList' /\ WholeHeads'
  BY <1>1 DEF Whole, WholeList, WholeHeads, FreeBlocks
<1>4. WholeBlocks'
  BY <1>1, <1>2 DEF Whole, WholeBlocks
<1> QED BY <1>3, <1>4 DEF Whole

LEMMA ResizeKeepsWhole ==
  ASSUME Whole, NEW h, NEW n \in Nat, ReallocInPlace(h, n), intact'
  PROVE  Whole'
<1>1. /\ h \in DOMAIN held /\ n > 0 /\ UNCHANGED freeList
      /\ held' = With(held, h, n)
      /\ head' = Spared(head, h + 8, h + 8 + n)
      /\ tail' = Spared(tail, h + 8, h + 8 + n)
  BY DEF ReallocInPlace, Filled
<1>2. Undamaged({})
  <2>1. intact' = Undamaged({})
    BY Zenon DEF ReallocInPlace
  <2> QED BY <2>1, Zenon
<1>3. /\ DOMAIN head' \cup DOMAIN tail' \subseteq 0 .. Capacity - 8
      /\ \A b \in DOMAIN head : b \in DOMAIN head' /\ head'[b] = head[b]
      /\ \A b \in DOMAIN held' :
           /\ TailOf(b, head'[b].size) \in DOMAIN tail'
           /\ \A a \in DOMAIN head' \cup DOMAIN tail' : a <= b \/ b + 8 + held'[b] <= a
  BY <1>2 DEF Undamaged
<1>4. PICK e : e = Spared(head, h + 8, h + 8 + n)
  OBVIOUS
<1>5. Spares(e, head, h + 8, h + 8 + n)
  BY <1>4, SparedWords
<1>6. DOMAIN head' \subseteq DOMAIN head
  BY <1>1, <1>4, <1>5 DEF Spares
<1>7. DOMAIN head' = DOMAIN head /\ \A b \in DOMAIN head : head'[b] = head[b]
  BY <1>3, <1>6
<1>8. PICK f : f = Spared(tail, h + 8, h + 8 + n)
  OBVIOUS
<1>9. Spares(f, tail, h + 8, h + 8 + n)
  BY <1>8, SparedWords
<1>10. \A a \in DOMAIN tail' : a \in DOMAIN tail /\ (a + 8 <= h + 8 \/ h + 8 + n <= a)
  BY <1>1, <1>8, <1>9 DEF Spares
<1>11. FreeBlocks' = FreeBlocks
  BY <1>7 DEF FreeBlocks
<1>12. WholeList'
  <2>1. \A b \in FreeBlocks : head'[b].size = head[b].size
    BY <1>7 DEF FreeBlocks
  <2>2. Lists(freeList, FreeBlocks, head')
    BY <2>1, SameSizes DEF Whole, WholeList
  <2> QED BY <1>1, <1>11, <2>2 DEF WholeList
<1>13. WholeHeads'
  BY <1>3, <1>7 DEF Whole, WholeHeads
<1>14. WholeBlocks'
  <2> SUFFICES ASSUME NEW b \in DOMAIN held'
               PROVE  /\ b \in DOMAIN head' /\ head'[b].free = FALSE
                      /\ held'[b] \in Nat \ {0} /\ held'[b] <= TailSize(head'[b].size)
    BY <1>3 DEF WholeBlocks
  <2>1. /\ b \in DOMAIN held /\ held'[b] = (IF b = h THEN n ELSE held[b]) /\ h \in DOMAIN held'
    BY <1>1 DEF With
  <2>2. /\ b \in DOMAIN head /\ head[b].free = FALSE
        /\ held[b] \in Nat \ {0} /\ held[b] <= TailSize(head[b].size)
    BY <2>1 DEF Whole, WholeBlocks
  <2>3. CASE b # h
    BY <1>7, <2>1, <2>2, <2>3
  <2>4. CASE b = h
    <3>1. PICK s \in Int : s = head[h].size
      BY <2>2, <2>4 DEF Whole, WholeHeads
    <3>2. TailOf(h, s) \in DOMAIN tail' /\ held[h] \in Nat \ {0} /\ held[h] <= TailSize(s) /\ h \in Int
      BY <1>3, <1>7, <2>1, <2>2, <2>4, <3>1 DEF Whole, WholeHeads
    <3>3. PICK m \in Nat \ {0} : m = held[h]
      BY <3>2
    <3>4. TailOf(h, s) >= h + 8 + m /\ TailOf(h, s) = h + 8 + TailSize(s)
      BY <3>1, <3>2, <3>3 DEF TailOf, TailSize, Overhead
    <3>5. TailOf(h, s) + 8 <= h + 8 \/ h + 8 + n <= TailOf(h, s)
      BY <1>10, <3>2
    <3>6. n <= TailSize(s)
      BY <3>1, <3>2, <3>3, <3>4, <3>5 DEF TailOf, TailSize, Overhead
    <3> QED BY <1>1, <1>7, <2>1, <2>2, <2>4, <3>1, <3>6
  <2> QED BY <2>3, <2>4
<1> QED BY <1>12, <1>13, <1>14 DEF Whole

IntactWhole == intact => Whole

LEMMA InitWhole == ArenaAssumption /\ Init => IntactWhole
<1> SUFFICES ASSUME ArenaAssumption, Init PROVE Whole
  BY DEF IntactWhole
<1>1. /\ freeList = <<0>> /\ DOMAIN held = {}
      /\ DOMAIN head = {0} /\ head[0].size = Capacity /\ head[0].free = TRUE
      /\ DOMAIN tail = {TailOf(0, Capacity)}
  BY DEF Init
<1>2. Capacity \in Nat /\ Capacity > 23 /\ TailOf(0, Capacity) = Capacity - 15
  BY DEF ArenaAssumption, Overhead, TailOf
<1>3. FreeBlocks = {0}
  BY <1>1 DEF FreeBlocks
<1>4. WholeList
  <2>1. IsList(freeList, 1) /\ {freeList[i] : i \in 1 .. 1} = {0}
    BY <1>1 DEF IsList
  <2>2. \A i, j \in 1 .. 1 : ~ (i < j)
    OBVIOUS
  <2> QED BY <1>3, <2>1, <2>2 DEF WholeList, Lists
<1>5. WholeHeads
  BY <1>1, <1>2 DEF WholeHeads
<1>6. WholeBlocks
  BY <1>1 DEF WholeBlocks
<1> QED BY <1>4, <1>5, <1>6 DEF Whole

LEMMA NextKeepsWhole == ArenaAssumption /\ IntactWhole /\ [Next]_vars => IntactWhole'
<1> SUFFICES ASSUME ArenaAssumption, IntactWhole, [Next]_vars, intact' PROVE Whole'
  BY DEF IntactWhole
<1>1. CASE Next
  <2>1. Whole
    BY <1>1 DEF Next, IntactWhole
  <2>2. Requests \subseteq Nat
    BY DEF ArenaAssumption
  <2>3. ASSUME NEW n \in Requests, Alloc(n) PROVE Whole'
    BY <2>1, <2>2, <2>3, AllocKeepsWhole
  <2>4. ASSUME NEW h \in DOMAIN held, Free(h) PROVE Whole'
    BY <2>1, <2>4, FreeKeepsWhole
  <2>5. ASSUME NEW h \in DOMAIN held, FreeIgnored(h) PROVE Whole'
    BY <2>1, <2>5, IgnoredKeepsWhole
  <2>6. ASSUME NEW h \in DOMAIN held, NEW n \in Requests, ReallocInPlace(h, n) PROVE Whole'
    BY <2>1, <2>2, <2>6, ResizeKeepsWhole
  <2>7. ASSUME NEW h \in DOMAIN held, NEW n \in Requests, ReallocMoves(h, n) PROVE Whole'
    BY <2>1, <2>2, <2>7, MoveKeepsWhole
  <2> QED BY <1>1, <2>3, <2>4, <2>5, <2>6, <2>7 DEF Next
<1>2. CASE UNCHANGED vars
  <2>1. UNCHANGED <<freeList, head, tail, held, intact>>
    BY <1>2 DEF vars, ghost
  <2>2. intact
    BY <2>1
  <2>3. Whole
    BY <2>2 DEF IntactWhole
  <2>4. FreeBlocks' = FreeBlocks
    BY <2>1 DEF FreeBlocks
  <2>5. WholeList' /\ WholeHeads' /\ WholeBlocks'
    BY <2>1, <2>3, <2>4 DEF Whole, WholeList, WholeHeads, WholeBlocks
  <2> QED BY <2>5 DEF Whole
<1> QED BY <1>1, <1>2

LEMMA WholeIsWellFormed == IntactWhole => WellFormed
<1> SUFFICES ASSUME Whole, intact
             PROVE  /\ ToSet(freeList) = FreeBlocks /\ IsInjective(freeList)
                    /\ \A m, n \in 1 .. Len(freeList) :
                          m < n => head[freeList[m]].size <= head[freeList[n]].size
                    /\ DOMAIN held \subseteq DOMAIN head \ FreeBlocks
                    /\ \A h \in DOMAIN held :
                         /\ TailOf(h, head[h].size) \in DOMAIN tail
                         /\ held[h] <= TailSize(head[h].size)
  BY Zenon DEF IntactWhole, WellFormed
<1>1. PICK n \in Nat :
        /\ IsList(freeList, n)
        /\ FreeBlocks = {freeList[i] : i \in 1 .. n}
        /\ \A i, j \in 1 .. n :
              i < j => freeList[i] # freeList[j] /\ head[freeList[i]].size <= head[freeList[j]].size
  BY DEF Whole, WholeList, Lists
<1>2. Len(freeList) = n /\ DOMAIN freeList = 1 .. n
  BY <1>1, Listed DEF IsList
<1>3. ToSet(freeList) = FreeBlocks
  BY <1>1, <1>2 DEF ToSet
<1>4. IsInjective(freeList)
  BY <1>1, <1>2 DEF IsInjective
<1>5. DOMAIN held \subseteq DOMAIN head \ FreeBlocks
  BY DEF Whole, WholeBlocks, FreeBlocks
<1> QED BY <1>1, <1>2, <1>3, <1>4, <1>5 DEF Whole, WholeBlocks

LEMMA ArenaStaysWhole == ArenaAssumption => (Spec => []IntactWhole)
<1> SUFFICES ASSUME ArenaAssumption PROVE Spec => []IntactWhole
  OBVIOUS
<1>1. Init => IntactWhole
  BY InitWhole
<1>2. IntactWhole /\ [Next]_vars => IntactWhole'
  BY NextKeepsWhole
<1> QED BY <1>1, <1>2, PTL DEF Spec

\* While no word has been stored over, the free list holds the free blocks of the
\* arena, each once and by size, and every block in use has its header and, where
\* its size says, its tail, behind the bytes its user asked for: for every
\* capacity, all requests and any order of calls.
THEOREM ArenaAlwaysWellFormed == ArenaAssumption => (Spec => []WellFormed)
<1>1. IntactWhole => WellFormed
  BY WholeIsWellFormed
<1> QED BY <1>1, ArenaStaysWhole, PTL

-----------------------------------------------------------------------------
(* The bytes in use, as ranges of a heap.                                  *)

ArenaPromise == INSTANCE Heap WITH pool <- ArenaPool, live <- InUse, lost <- ~intact

arenaHeap == <<ArenaPool, InUse, ~intact>>

\* The bytes of a block.
Bytes(h, n) == [at |-> h + 8, len |-> n]

\* The bytes of the blocks in use lie in the pool, and apart.
LEMMA BytesApart ==
  ASSUME ArenaAssumption, Whole', NEW h \in DOMAIN held'
  PROVE  /\ 8 <= h + 8 /\ (h + 8) + held'[h] <= Capacity - 8
         /\ \A b \in DOMAIN held' \ {h} :
              ArenaPromise!Apart(Bytes(h, held'[h]), Bytes(b, held'[b]))
<1>1. /\ DOMAIN head' \cup DOMAIN tail' \subseteq 0 .. Capacity - 8
      /\ \A b \in DOMAIN head' : head'[b].size \in Int
  BY DEF Whole, WholeHeads
<1>2. \A b \in DOMAIN held' :
        /\ b \in DOMAIN head'
        /\ held'[b] \in Nat \ {0} /\ held'[b] <= TailSize(head'[b].size)
        /\ TailOf(b, head'[b].size) \in DOMAIN tail'
        /\ \A a \in DOMAIN head' \cup DOMAIN tail' : a <= b \/ b + 8 + held'[b] <= a
  BY DEF Whole, WholeBlocks
<1>3. Capacity \in Nat
  BY DEF ArenaAssumption
<1>4. PICK m \in Nat : m = held'[h]
  BY <1>2
<1>5. h \in 0 .. Capacity - 8
  BY <1>1, <1>2
<1>6. (h + 8) + held'[h] <= Capacity - 8
  <2>1. PICK s \in Int : s = head'[h].size
    BY <1>1, <1>2
  <2>2. TailOf(h, s) \in 0 .. Capacity - 8 /\ m <= TailSize(s)
    BY <1>1, <1>2, <1>4, <2>1
  <2> QED BY <1>3, <1>4, <1>5, <2>1, <2>2 DEF TailOf, TailSize, Overhead
<1>7. ASSUME NEW b \in DOMAIN held', b # h
      PROVE  ArenaPromise!Apart(Bytes(h, held'[h]), Bytes(b, held'[b]))
  <2>1. PICK k \in Nat : k = held'[b]
    BY <1>2
  <2>2. b \in DOMAIN head' /\ b \in 0 .. Capacity - 8 /\ h \in DOMAIN head'
    BY <1>1, <1>2
  <2>3. /\ h <= b \/ b + 8 + k <= h
        /\ b <= h \/ h + 8 + m <= b
    BY <1>2, <1>4, <2>1, <2>2
  <2>4. h + 8 + m <= b + 8 \/ b + 8 + k <= h + 8
    BY <1>3, <1>5, <1>7, <2>2, <2>3
  <2>5. /\ Bytes(h, held'[h]).at = h + 8 /\ Bytes(h, held'[h]).len = m
        /\ Bytes(b, held'[b]).at = b + 8 /\ Bytes(b, held'[b]).len = k
    BY <1>4, <2>1 DEF Bytes
  <2> QED BY <2>4, <2>5 DEF ArenaPromise!Apart
<1> QED BY <1>5, <1>6, <1>7

LEMMA BytesInUse == InUse = {Bytes(b, held[b]) : b \in DOMAIN held}
BY DEF InUse, Bytes

LEMMA SameBytes ==
  ASSUME NEW a \in Int, NEW b \in Int, NEW m, NEW n, Bytes(a, m) = Bytes(b, n)
  PROVE  a = b /\ m = n
<1>1. a + 8 = b + 8 /\ m = n
  BY DEF Bytes
<1> QED BY <1>1

\* held' is held without the blocks of A, and with n bytes at h.
LEMMA BytesGiven ==
  ASSUME Whole, Whole', ArenaAssumption, NEW A, A \subseteq DOMAIN held,
         NEW h, NEW n, h \notin DOMAIN held \/ h \in A,
         DOMAIN held' = {h} \cup (DOMAIN held \ A), held'[h] = n,
         \A b \in DOMAIN held \ A : b # h => held'[b] = held[b]
  PROVE  /\ InUse' = (InUse \ {Bytes(a, held[a]) : a \in A}) \cup {Bytes(h, n)}
         /\ ArenaPool.lo <= Bytes(h, n).at /\ Bytes(h, n).at + Bytes(h, n).len <= ArenaPool.hi
         /\ \A s \in InUse \ {Bytes(a, held[a]) : a \in A} : ArenaPromise!Apart(Bytes(h, n), s)
<1>1. DOMAIN held \subseteq Int /\ DOMAIN held' \subseteq Int
  BY DEF Whole, WholeBlocks, WholeHeads
<1>2. h \in DOMAIN held'
  OBVIOUS
<1>3. PICK D : D = DOMAIN held \ A
  OBVIOUS
<1>4. h \notin D /\ DOMAIN held' = {h} \cup D /\ \A b \in D : held'[b] = held[b]
  BY <1>3
<1>5. InUse \ {Bytes(a, held[a]) : a \in A} = {Bytes(b, held[b]) : b \in D}
  <2>1. ASSUME NEW b \in D, NEW a \in A PROVE Bytes(b, held[b]) # Bytes(a, held[a])
    BY <1>1, <1>3, SameBytes
  <2> QED BY <1>3, <2>1, BytesInUse
<1>6. InUse' = {Bytes(b, held'[b]) : b \in DOMAIN held'}
  BY DEF InUse, Bytes
<1>7. InUse' = {Bytes(b, held[b]) : b \in D} \cup {Bytes(h, n)}
  BY <1>4, <1>6
<1>8. /\ 8 <= h + 8 /\ (h + 8) + held'[h] <= Capacity - 8
      /\ \A b \in DOMAIN held' \ {h} :
           ArenaPromise!Apart(Bytes(h, held'[h]), Bytes(b, held'[b]))
  BY <1>2, BytesApart
<1>9. \A b \in D : ArenaPromise!Apart(Bytes(h, n), Bytes(b, held[b]))
  BY <1>4, <1>8
<1>10. ArenaPool.lo = 8 /\ ArenaPool.hi = Capacity - 8 /\ Bytes(h, n).at = h + 8 /\ Bytes(h, n).len = n
  BY DEF ArenaPool, Bytes
<1>11. ArenaPool.lo <= Bytes(h, n).at /\ Bytes(h, n).at + Bytes(h, n).len <= ArenaPool.hi
  BY <1>8, <1>10
<1> QED BY <1>5, <1>7, <1>9, <1>11

\* Handing out a block is a step of the heap; giving one back and exchanging one
\* for another are as well.
LEMMA AllocIsAllocate ==
  ASSUME ArenaAssumption, Whole, Whole', NEW n \in Nat, Alloc(n)
  PROVE  ArenaPromise!Allocate
<1>1. PICK h \in Candidates(n) : held' = With(held, h, n)
  BY DEF Alloc
<1>2. h \in FreeBlocks /\ h \in Int
  BY CandidateFits
<1>3. h \notin DOMAIN held /\ DOMAIN held \subseteq Int
  BY <1>2 DEF FreeBlocks, Whole, WholeHeads, WholeBlocks
<1>4. /\ DOMAIN held' = {h} \cup DOMAIN held /\ held'[h] = n
      /\ \A b \in DOMAIN held : b # h => held'[b] = held[b]
  BY <1>1 DEF With
<1>5. PICK r : r = Bytes(h, n)
  OBVIOUS
<1>7. /\ InUse' = InUse \cup {r}
      /\ ArenaPool.lo <= r.at /\ r.at + r.len <= ArenaPool.hi
      /\ \A s \in InUse : ArenaPromise!Apart(r, s)
  <2>1. PICK A : A = {}
    OBVIOUS
  <2>2. /\ A \subseteq DOMAIN held /\ (h \notin DOMAIN held \/ h \in A)
        /\ DOMAIN held' = {h} \cup (DOMAIN held \ A)
        /\ \A b \in DOMAIN held \ A : b # h => held'[b] = held[b]
    BY <1>3, <1>4, <2>1
  <2>3. /\ InUse' = (InUse \ {Bytes(a, held[a]) : a \in A}) \cup {r}
        /\ ArenaPool.lo <= r.at /\ r.at + r.len <= ArenaPool.hi
        /\ \A s \in InUse \ {Bytes(a, held[a]) : a \in A} : ArenaPromise!Apart(r, s)
    BY <1>4, <1>5, <2>2, BytesGiven
  <2>4. InUse \ {Bytes(a, held[a]) : a \in A} = InUse
    BY <2>1
  <2> QED BY <2>3, <2>4
<1>8. r \notin InUse
  <2>1. ASSUME NEW b \in DOMAIN held PROVE Bytes(h, n) # Bytes(b, held[b])
    BY <1>2, <1>3, SameBytes
  <2> QED BY <1>5, <2>1, BytesInUse
<1>9. r \in InUse' \ InUse /\ InUse' = InUse \cup {r}
  BY <1>7, <1>8
<1> QED BY <1>7, <1>9 DEF ArenaPromise!Allocate

LEMMA DropIsRelease ==
  ASSUME Whole, NEW h \in DOMAIN held, held' = Restrict(held, DOMAIN held \ {h})
  PROVE  ArenaPromise!Release
<1>1. DOMAIN held' = DOMAIN held \ {h} /\ \A b \in DOMAIN held' : held'[b] = held[b]
  BY DEF Restrict
<1>2. DOMAIN held \subseteq Int
  BY DEF Whole, WholeHeads, WholeBlocks
<1>3. PICK r : r = Bytes(h, held[h])
  OBVIOUS
<1>4. r \in InUse
  BY <1>3, BytesInUse
<1>5. \A b \in DOMAIN held : b # h => Bytes(b, held[b]) # r
  BY <1>2, <1>3, SameBytes
<1>6. InUse' = {Bytes(b, held[b]) : b \in DOMAIN held \ {h}}
  <2>1. InUse' = {Bytes(b, held'[b]) : b \in DOMAIN held'}
    BY DEF InUse, Bytes
  <2> QED BY <1>1, <2>1
<1>7. InUse' = InUse \ {r}
  BY <1>3, <1>5, <1>6, BytesInUse
<1> QED BY <1>4, <1>7 DEF ArenaPromise!Release

LEMMA ExchangeGiven ==
  ASSUME ArenaAssumption, Whole, Whole', NEW h \in DOMAIN held, NEW new, NEW n,
         new \notin DOMAIN held \/ new = h,
         DOMAIN held' = {new} \cup (DOMAIN held \ {h}), held'[new] = n,
         \A b \in DOMAIN held \ {h} : b # new => held'[b] = held[b]
  PROVE  ArenaPromise!Exchange
<1>1. PICK r : r = Bytes(h, held[h])
  OBVIOUS
<1>2. PICK s : s = Bytes(new, n)
  OBVIOUS
<1>3. {Bytes(a, held[a]) : a \in {h}} = {r} /\ {h} \subseteq DOMAIN held /\ r \in InUse
  BY <1>1, BytesInUse
<1>4. PICK A : A = {h}
  OBVIOUS
<1>5. /\ InUse' = (InUse \ {r}) \cup {s}
      /\ ArenaPool.lo <= s.at /\ s.at + s.len <= ArenaPool.hi
      /\ \A t \in InUse \ {r} : ArenaPromise!Apart(s, t)
  <2>1. /\ A \subseteq DOMAIN held /\ (new \notin DOMAIN held \/ new \in A)
        /\ DOMAIN held' = {new} \cup (DOMAIN held \ A)
        /\ \A b \in DOMAIN held \ A : b # new => held'[b] = held[b]
    BY <1>4
  <2>2. /\ InUse' = (InUse \ {Bytes(a, held[a]) : a \in A}) \cup {s}
        /\ ArenaPool.lo <= s.at /\ s.at + s.len <= ArenaPool.hi
        /\ \A t \in InUse \ {Bytes(a, held[a]) : a \in A} : ArenaPromise!Apart(s, t)
    BY <1>2, <2>1, BytesGiven
  <2>3. {Bytes(a, held[a]) : a \in A} = {r}
    BY <1>3, <1>4
  <2> QED BY <2>2, <2>3
<1>6. s \in InUse'
  BY <1>5
<1> QED BY <1>3, <1>5, <1>6 DEF ArenaPromise!Exchange

LEMMA ArenaStepIsHeapStep ==
  ArenaAssumption /\ IntactWhole /\ IntactWhole' /\ [Next]_vars
    => [ArenaPromise!HeapNext]_arenaHeap
<1> SUFFICES ASSUME ArenaAssumption, IntactWhole, IntactWhole', [Next]_vars
             PROVE  [ArenaPromise!HeapNext]_arenaHeap
  OBVIOUS
<1>1. ArenaPool' = ArenaPool
  BY DEF ArenaPool
<1>2. CASE ~intact'
  BY <1>1, <1>2 DEF ArenaPromise!HeapNext
<1>3. CASE Next /\ intact'
  <2>1. Whole /\ Whole'
    BY <1>3 DEF Next, IntactWhole
  <2>2. Requests \subseteq Nat
    BY DEF ArenaAssumption
  <2>3. ASSUME NEW n \in Requests, Alloc(n) PROVE ArenaPromise!Allocate
    BY <2>1, <2>2, <2>3, AllocIsAllocate
  <2>4. ASSUME NEW h \in DOMAIN held, Free(h) PROVE ArenaPromise!Release
    <3>1. held' = Restrict(held, DOMAIN held \ {h})
      BY <2>4, Zenon DEF Free, Released
    <3> QED BY <2>1, <3>1, DropIsRelease
  <2>5. ASSUME NEW h \in DOMAIN held, FreeIgnored(h) PROVE ArenaPromise!Release
    <3>1. held' = Restrict(held, DOMAIN held \ {h})
      BY <2>5, Zenon DEF FreeIgnored
    <3> QED BY <2>1, <3>1, DropIsRelease
  <2>6. ASSUME NEW h \in DOMAIN held, NEW n \in Requests, ReallocInPlace(h, n)
        PROVE  ArenaPromise!Exchange
    <3>1. held' = With(held, h, n)
      BY <2>6 DEF ReallocInPlace
    <3>2. /\ DOMAIN held' = {h} \cup (DOMAIN held \ {h}) /\ held'[h] = n
          /\ \A b \in DOMAIN held \ {h} : b # h => held'[b] = held[b]
      BY <3>1 DEF With
    <3> QED BY <2>1, <3>2, ExchangeGiven
  <2>7. ASSUME NEW h \in DOMAIN held, NEW n \in Requests, ReallocMoves(h, n)
        PROVE  ArenaPromise!Exchange
    <3>1. PICK new \in Candidates(n) : held' = With(Restrict(held, DOMAIN held \ {h}), new, n)
      BY <2>7 DEF ReallocMoves
    <3>2. new \in FreeBlocks
      BY <2>1, <2>2, CandidateFits
    <3>3. new \notin DOMAIN held
      BY <2>1, <3>2 DEF FreeBlocks, Whole, WholeBlocks
    <3>4. /\ DOMAIN held' = {new} \cup (DOMAIN held \ {h}) /\ held'[new] = n
          /\ \A b \in DOMAIN held \ {h} : b # new => held'[b] = held[b]
      BY <3>1 DEF With, Restrict
    <3> QED BY <2>1, <3>3, <3>4, ExchangeGiven
  <2>8. ArenaPromise!Allocate \/ ArenaPromise!Release \/ ArenaPromise!Exchange
    BY <1>3, <2>3, <2>4, <2>5, <2>6, <2>7 DEF Next
  <2> QED BY <1>1, <2>8 DEF ArenaPromise!HeapNext
<1>4. CASE UNCHANGED vars
  <2>1. held' = held /\ intact' = intact
    BY <1>4 DEF vars, ghost
  <2>2. InUse' = InUse
    BY <2>1 DEF InUse
  <2> QED BY <1>1, <2>1, <2>2 DEF arenaHeap
<1> QED BY <1>2, <1>3, <1>4

\* While nothing has been stored over that matters, arena_allocator_alloc and
\* realloc hand out ranges inside the arena that overlap none in use.
THEOREM ArenaImplementsHeap == ArenaAssumption => (Spec => ArenaPromise!HeapSpec)
<1> SUFFICES ASSUME ArenaAssumption PROVE Spec => ArenaPromise!HeapSpec
  OBVIOUS
<1>1. Init => ArenaPromise!HeapInit
  BY DEF Init, InUse, ArenaPromise!HeapInit
<1>2. IntactWhole /\ IntactWhole' /\ [Next]_vars => [ArenaPromise!HeapNext]_arenaHeap
  BY ArenaStepIsHeapStep
<1> QED BY <1>1, <1>2, ArenaStaysWhole, PTL DEF Spec, ArenaPromise!HeapSpec, arenaHeap

-----------------------------------------------------------------------------
(* The arena as a stack: the blocks in use lie one behind the other, and   *)
(* behind them one free block or nothing.                                  *)

\* Where the block behind b starts, if it is aligned.
Past(b) == b + head[b].size - 7

\* The n blocks in use lie one behind the other from 0 up to top.
Placed(n, top) ==
  /\ n \in Nat /\ IsList(order, n) /\ DOMAIN held = {order[i] : i \in 1 .. n}
  /\ \A i \in 1 .. n :
       /\ order[i] \in Nat /\ order[i] % 8 = 0
       /\ head[order[i]].size \in Int /\ head[order[i]].size >= 62
       /\ tail[Past(order[i]) - 8].free = FALSE
       /\ Past(order[i]) = (IF i = n THEN top ELSE order[i + 1])
  /\ \A i, j \in 1 .. n : i < j => Past(order[i]) <= order[j]
  /\ IF n = 0 THEN top = 0 ELSE order[1] = 0

\* All that is behind them is one free block.
Rest(n, top) ==
  /\ top \in Nat /\ top % 8 = 0
  /\ head = [a \in DOMAIN head |-> head[a]]
  /\ DOMAIN head = DOMAIN held \cup {top}
  /\ head[top].size = size /\ head[top].free = TRUE
  /\ head[top] = [size |-> size, free |-> TRUE]
  /\ size \in Int /\ size = Capacity - top - 7 * n /\ (n > 0 => size >= 39)
  /\ DOMAIN tail = {Past(b) - 8 : b \in DOMAIN held} \cup {top + size - 15}

Room == \E n, top : Placed(n, top) /\ Rest(n, top)

\* Nothing is left behind them.
Full == \E n \in Nat \ {0} :
  /\ IsList(order, n) /\ DOMAIN held = {order[i] : i \in 1 .. n}
  /\ DOMAIN head = DOMAIN held
  /\ \A b \in DOMAIN head : b < Past(order[n])

Stacked == tidy => intact /\ (Room \/ Full)

\* Every block in use of a stack ends at or below its top.
LEMMA PlacedBelow ==
  ASSUME Whole, NEW m, NEW top, Placed(m, top), Rest(m, top)
  PROVE  /\ \A b \in DOMAIN held :
              /\ b \in Nat /\ head[b].size \in Int /\ head[b].size >= 62
              /\ b + 55 <= top /\ Past(b) <= top /\ Past(b) \in Int
              /\ held[b] \in Nat \ {0} /\ b + 8 + held[b] <= Past(b) - 8
              /\ head[b].free = FALSE /\ TailOf(b, head[b].size) = Past(b) - 8
         /\ FreeBlocks = {top} /\ top \notin DOMAIN held
<1>1. ASSUME NEW b \in DOMAIN held
      PROVE  /\ b \in Nat /\ head[b].size \in Int /\ head[b].size >= 62
             /\ b + 55 <= top /\ Past(b) <= top /\ Past(b) \in Int
             /\ held[b] \in Nat \ {0} /\ b + 8 + held[b] <= Past(b) - 8
             /\ head[b].free = FALSE /\ TailOf(b, head[b].size) = Past(b) - 8
  <2>1. PICK i \in 1 .. m : b = order[i]
    BY DEF Placed
  <2>2. /\ b \in Nat /\ head[b].size \in Int /\ head[b].size >= 62
    BY <2>1 DEF Placed
  <2>3. m \in Nat /\ m \in 1 .. m
    BY <2>1 DEF Placed
  <2>4. /\ order[m] \in Nat /\ head[order[m]].size \in Int /\ head[order[m]].size >= 62
        /\ Past(order[m]) = top
    BY <2>3 DEF Placed
  <2>5. PICK s \in Int : s = head[b].size
    BY <2>2
  <2>6. Past(b) = b + s - 7 /\ TailOf(b, s) = b + s - 15 /\ TailSize(s) = s - 23
    BY <2>2, <2>5 DEF Past, TailOf, TailSize, Overhead
  <2>7. Past(b) <= top
    <3>1. CASE i = m
      BY <2>1, <2>4, <2>6, <3>1, <2>2
    <3>2. CASE i # m
      <4>1. i < m
        BY <2>1, <2>3, <3>2
      <4>2. Past(b) <= order[m]
        BY <2>1, <2>3, <4>1 DEF Placed
      <4>3. order[m] <= top
        BY <2>4 DEF Past
      <4>4. top \in Int /\ order[m] \in Int /\ Past(b) \in Int
        BY <2>2, <2>4, <2>6 DEF Rest
      <4> QED BY <4>2, <4>3, <4>4
    <3> QED BY <3>1, <3>2
  <2>8. held[b] \in Nat \ {0} /\ held[b] <= TailSize(head[b].size) /\ head[b].free = FALSE
    BY DEF Whole, WholeBlocks
  <2>9. top \in Nat
    BY DEF Rest
  <2>10. PICK k \in Nat \ {0} : k = held[b]
    BY <2>8
  <2>11. k <= s - 23
    BY <2>5, <2>6, <2>8, <2>10
  <2>12. b + 8 + held[b] <= Past(b) - 8
    BY <2>2, <2>6, <2>10, <2>11
  <2>13. b + 55 <= top /\ Past(b) \in Int
    BY <2>2, <2>5, <2>6, <2>7, <2>9
  <2> QED BY <2>2, <2>5, <2>6, <2>7, <2>8, <2>12, <2>13
<1>2. ASSUME top \in DOMAIN held PROVE FALSE
  <2>1. top \in Nat /\ top + 55 <= top
    BY <1>1, <1>2
  <2> QED BY <2>1
<1>3. FreeBlocks = {top}
  BY <1>1 DEF FreeBlocks, Rest
<1> QED BY <1>1, <1>2, <1>3

\* An aligned address is aligned to itself, and the size of a block that is not
\* small keeps the next one aligned.
LEMMA AlignedStays ==
  ASSUME NEW a \in Int, a % 8 = 0
  PROVE  Align8(a) = a
<1>1. PICK b : b = Align8(a)
  OBVIOUS
<1>2. b \in Int /\ b % 8 = 0 /\ a <= b /\ b <= a + 7
  BY <1>1, AlignedUp
<1> QED BY <1>1, <1>2

LEMMA WantBig ==
  ASSUME NEW n \in Nat, n >= MinSize, NEW w, w = Want(n)
  PROVE  w \in Nat /\ w >= n + 23 /\ w >= 62 /\ w % 8 = 7
<1>1. PICK a : a = Align8(n)
  OBVIOUS
<1>2. a \in Int /\ a % 8 = 0 /\ n <= a
  BY <1>1, AlignedUp
<1>3. w = a + 23
  BY <1>1 DEF Want, Rounded, Overhead, MinSize
<1> QED BY <1>2, <1>3 DEF MinSize, Overhead

\* The words after h has been given out whole for n bytes.
GivesAll(h, n, s) ==
  \E hs, ts :
    /\ Written(hs, head, h, [size |-> s, free |-> FALSE], h + s - 15, h + s - 7)
    /\ Written(ts, tail, h + s - 15, [size |-> TailSize(s), free |-> FALSE],
               h + s - 15, h + s - 7)
    /\ Spares(head', hs, h + 8, h + 8 + n)
    /\ Spares(tail', ts, h + 8, h + 8 + n)

\* The words after the first s bytes of h have been given out for n bytes and
\* the other left bytes, from new on, are a block.
GivesPart(h, n, s, new, left) ==
  \E hs, ts, gs, us, ls :
    /\ Written(hs, head, h, [size |-> s, free |-> FALSE], h + s - 15, h + s - 7)
    /\ Written(ts, tail, h + s - 15, [size |-> TailSize(s), free |-> FALSE],
               h + s - 15, h + s - 7)
    /\ Written(gs, hs, new, [size |-> left, free |-> TRUE], new + left - 15, new + left - 7)
    /\ Written(us, ts, new + left - 15, [size |-> TailSize(left), free |-> TRUE],
               new + left - 15, new + left - 7)
    /\ Spares(ls, us, new + 8, new + 24)
    /\ Spares(head', gs, h + 8, h + 8 + n)
    /\ Spares(tail', ls, h + 8, h + 8 + n)

LEMMA FilledWords ==
  ASSUME NEW f, NEW h, NEW n, NEW e, e = Filled(f, h, n)
  PROVE  Spares(e, f, h + 8, h + 8 + n)
<1>1. e = Spared(f, h + 8, h + 8 + n)
  BY DEF Filled
<1> QED BY <1>1, SparedWords, Zenon

\* The two outcomes of handing out a block, word by word.
LEMMA GiveAll ==
  ASSUME NEW h \in Int, NEW n \in Nat, NEW w \in Int, w = Want(n), NEW z \in Int, z = head[h].size,
         z - w < 39, Give(h, n)
  PROVE  GivesAll(h, n, z) /\ (Undamaged({h}) => intact')
<1>1. Taken(h, n) = z
  BY DEF Taken, MinSize, Overhead
<1>2. PICK hs : hs = WithHead(head, h, z, FALSE)
  OBVIOUS
<1>3. PICK ts : ts = WithTail(tail, h, z, FALSE)
  OBVIOUS
<1>4. PICK c : c = Carved(h, n)
  OBVIOUS
<1>5. c = [head |-> hs, tail |-> ts, rest |-> {}]
  BY <1>1, <1>2, <1>3, <1>4 DEF Carved, MinSize, Overhead
<1>6. c.head = hs /\ c.tail = ts /\ c.rest = {}
  BY <1>5
<1>7. head' = Filled(hs, h, n) /\ tail' = Filled(ts, h, n)
  BY <1>4, <1>6, Zenon DEF Give
<1>8. intact' = (c.rest \cap DOMAIN head = {} /\ Undamaged({h}))
  BY <1>4, Zenon DEF Give
<1>9. c.rest \cap DOMAIN head = {}
  BY <1>6
<1>10. Undamaged({h}) => intact'
  BY <1>8, <1>9, Zenon
<1>11. PICK t \in Int : t = TailOf(h, z) /\ t = h + z - 15 /\ t + 8 = h + z - 7
  BY DEF TailOf, Overhead
<1>12. Written(hs, head, h, [size |-> z, free |-> FALSE], t, t + 8)
  BY <1>2, <1>11, HeadWritten, Zenon
<1>13. Written(ts, tail, t, [size |-> TailSize(z), free |-> FALSE], t, t + 8)
  BY <1>3, <1>11, TailWritten, Zenon
<1>14. Spares(head', hs, h + 8, h + 8 + n) /\ Spares(tail', ts, h + 8, h + 8 + n)
  <2>1. PICK e : e = Filled(hs, h, n)
    OBVIOUS
  <2>2. PICK f : f = Filled(ts, h, n)
    OBVIOUS
  <2>3. Spares(e, hs, h + 8, h + 8 + n) /\ Spares(f, ts, h + 8, h + 8 + n)
    BY <2>1, <2>2, FilledWords
  <2> QED BY <1>7, <2>1, <2>2, <2>3, Zenon
<1> QED BY <1>10, <1>11, <1>12, <1>13, <1>14, Zenon DEF GivesAll

LEMMA GivePart ==
  ASSUME NEW h \in Int, NEW n \in Nat, NEW w \in Int, w = Want(n), NEW z \in Int, z = head[h].size,
         z - w >= 39, NEW new \in Int, new = h + w - 7, Align8(new) = new, Give(h, n)
  PROVE  /\ GivesPart(h, n, w, new, z - w)
         /\ {new} \cap DOMAIN head = {} /\ Undamaged({h}) => intact'
<1>1. Taken(h, n) = w
  BY DEF Taken, MinSize, Overhead
<1>2. PICK left \in Int : left = z - w
  OBVIOUS
<1>3. PICK t \in Int : t = TailOf(h, w) /\ t = h + w - 15 /\ t + 8 = h + w - 7
  BY DEF TailOf, Overhead
<1>4. PICK u \in Int : u = TailOf(new, left) /\ u = new + left - 15 /\ u + 8 = new + left - 7
  BY DEF TailOf, Overhead
<1>5. Align8(TailOf(h, w) + 8) = new /\ (z - w) - (new - (TailOf(h, w) + 8)) = left
  BY <1>2, <1>3
<1>6. PICK hs : hs = WithHead(head, h, w, FALSE)
  OBVIOUS
<1>7. PICK ts : ts = WithTail(tail, h, w, FALSE)
  OBVIOUS
<1>8. PICK gs : gs = WithHead(hs, new, left, TRUE)
  OBVIOUS
<1>9. PICK us : us = WithTail(ts, new, left, TRUE)
  OBVIOUS
<1>10. PICK ls : ls = Linked(us, new)
  OBVIOUS
<1>11. PICK c : c = Carved(h, n)
  OBVIOUS
<1>12. c = [head |-> gs, tail |-> ls, rest |-> {new}]
  <2>1. ~ (z - w < MinSize)
    BY DEF MinSize, Overhead
  <2> QED BY <1>1, <1>5, <1>6, <1>7, <1>8, <1>9, <1>10, <1>11, <2>1, Zenon DEF Carved
<1>13. c.head = gs /\ c.tail = ls /\ c.rest = {new}
  BY <1>12
<1>14. head' = Filled(gs, h, n) /\ tail' = Filled(ls, h, n)
  BY <1>11, <1>13, Zenon DEF Give
<1>15. intact' = ({new} \cap DOMAIN head = {} /\ Undamaged({h}))
  <2>1. intact' = (c.rest \cap DOMAIN head = {} /\ Undamaged({h}))
    BY <1>11, Zenon DEF Give
  <2> QED BY <1>13, <2>1, Zenon
<1>16. Written(hs, head, h, [size |-> w, free |-> FALSE], t, t + 8)
  BY <1>3, <1>6, HeadWritten, Zenon
<1>17. Written(ts, tail, t, [size |-> TailSize(w), free |-> FALSE], t, t + 8)
  BY <1>3, <1>7, TailWritten, Zenon
<1>18. Written(gs, hs, new, [size |-> left, free |-> TRUE], u, u + 8)
  BY <1>4, <1>8, HeadWritten, Zenon
<1>19. Written(us, ts, u, [size |-> TailSize(left), free |-> TRUE], u, u + 8)
  BY <1>4, <1>9, TailWritten, Zenon
<1>20. Spares(ls, us, new + 8, new + 24)
  <2>1. ls = Spared(us, new + 8, new + 24)
    BY <1>10 DEF Linked
  <2> QED BY <2>1, SparedWords
<1>21. Spares(head', gs, h + 8, h + 8 + n) /\ Spares(tail', ls, h + 8, h + 8 + n)
  <2>1. PICK e : e = Filled(gs, h, n)
    OBVIOUS
  <2>2. PICK f : f = Filled(ls, h, n)
    OBVIOUS
  <2>3. Spares(e, gs, h + 8, h + 8 + n) /\ Spares(f, ls, h + 8, h + 8 + n)
    BY <2>1, <2>2, FilledWords
  <2> QED BY <1>14, <2>1, <2>2, <2>3, Zenon
<1>22. GivesPart(h, n, w, new, left)
  BY <1>3, <1>4, <1>16, <1>17, <1>18, <1>19, <1>20, <1>21, Zenon DEF GivesPart
<1> QED BY <1>2, <1>15, <1>22, Zenon

\* A block of n bytes at top given out on top of m others.
PiledOn(m, top, n) ==
  /\ m \in Nat /\ IsList(order', m + 1)
  /\ \A i \in 1 .. m : order'[i] = order[i]
  /\ order'[m + 1] = top
  /\ DOMAIN held' = {top} \cup DOMAIN held
  /\ DOMAIN held' = {order'[i] : i \in 1 .. m + 1}
  /\ held'[top] = n /\ \A b \in DOMAIN held : b # top => held'[b] = held[b]

LEMMA Piles ==
  ASSUME NEW m, NEW top, Placed(m, top), NEW n, held' = With(held, top, n), order' = Append(order, top)
  PROVE  PiledOn(m, top, n)
<1>1. m \in Nat /\ IsList(order, m) /\ DOMAIN held = {order[i] : i \in 1 .. m}
  BY DEF Placed
<1>2. /\ IsList(order', m + 1)
      /\ \A i \in 1 .. m : order'[i] = order[i]
      /\ order'[m + 1] = top
  <2>1. PICK a : a = Append(order, top)
    OBVIOUS
  <2>2. m \in Nat /\ IsList(order, m)
    BY <1>1
  <2>3. Grown(a, order, m, top)
    BY <2>1, <2>2, AppendPutsLast
  <2> QED BY <2>1, <2>3 DEF Grown
<1>3. /\ DOMAIN held' = {top} \cup DOMAIN held
      /\ held'[top] = n /\ \A b \in DOMAIN held : b # top => held'[b] = held[b]
  BY DEF With
<1>4. DOMAIN held' = {order'[i] : i \in 1 .. m + 1}
  <2>1. ASSUME NEW b \in DOMAIN held PROVE \E i \in 1 .. m + 1 : b = order'[i]
    <3>1. PICK i \in 1 .. m : b = order[i]
      BY <1>1
    <3>2. i \in 1 .. m + 1
      BY <1>1
    <3> QED BY <1>2, <3>1, <3>2
  <2>2. m + 1 \in 1 .. m + 1
    BY <1>1
  <2>3. ASSUME NEW i \in 1 .. m + 1 PROVE order'[i] \in {top} \cup DOMAIN held
    <3>1. i = m + 1 \/ i \in 1 .. m
      BY <1>1
    <3> QED BY <1>1, <1>2, <3>1
  <2> QED BY <1>2, <1>3, <2>1, <2>2, <2>3
<1> QED BY <1>1, <1>2, <1>3, <1>4 DEF PiledOn

\* Where the words lie around the blocks of a tidy arena.
LEMMA TidyWords ==
  ASSUME Whole, NEW m, NEW top, Placed(m, top), Rest(m, top)
  PROVE  /\ \A a \in DOMAIN head : a \in Nat /\ a <= top /\ (a = top \/ a \in DOMAIN held)
         /\ \A a \in DOMAIN tail : a = top + size - 15 \/ (a \in Int /\ a + 8 <= top)
<1>1. top \in Nat
  BY DEF Rest
<1>2. ASSUME NEW a \in DOMAIN head
      PROVE  a \in Nat /\ a <= top /\ (a = top \/ a \in DOMAIN held)
  <2>1. CASE a = top
    BY <1>1, <2>1
  <2>2. CASE a # top
    <3>1. a \in DOMAIN held
      BY <2>2 DEF Rest
    <3>2. a \in Nat /\ a + 55 <= top
      BY <3>1, PlacedBelow
    <3> QED BY <1>1, <3>1, <3>2
  <2> QED BY <2>1, <2>2
<1>3. ASSUME NEW a \in DOMAIN tail
      PROVE  a = top + size - 15 \/ (a \in Int /\ a + 8 <= top)
  <2>1. CASE a = top + size - 15
    BY <2>1
  <2>2. CASE a # top + size - 15
    <3>1. PICK b \in DOMAIN held : a = Past(b) - 8
      BY <2>2 DEF Rest
    <3>2. Past(b) \in Int /\ Past(b) <= top
      BY PlacedBelow
    <3> QED BY <1>1, <3>1, <3>2
  <2> QED BY <2>1, <2>2
<1> QED BY <1>2, <1>3

\* The free block on top is handed out whole: nothing is damaged, and none is left.
LEMMA TidyTakesAll ==
  ASSUME ArenaAssumption, Whole, NEW m, NEW top, Placed(m, top), Rest(m, top),
         NEW n \in Nat, n >= MinSize, size >= Want(n), size - Want(n) < 39,
         held' = With(held, top, n), order' = Append(order, top), Give(top, n)
  PROVE  intact' /\ Full'
<1>1. PICK w \in Nat : w = Want(n) /\ w >= n + 23 /\ w >= 62
  BY WantBig
<1>2. PICK z \in Int : z = size /\ z = head[top].size
  BY DEF Rest
<1>3. top \in Nat /\ z >= n + 23 /\ z >= 62
  BY <1>1, <1>2 DEF Rest
<1>4. /\ \A a \in DOMAIN head : a \in Nat /\ a <= top /\ (a = top \/ a \in DOMAIN held)
      /\ \A a \in DOMAIN tail : a = top + z - 15 \/ (a \in Int /\ a + 8 <= top)
  BY <1>2, TidyWords
<1>5. GivesAll(top, n, z) /\ (Undamaged({top}) => intact')
  <2>1. z - w < 39 /\ top \in Int /\ w \in Int
    BY <1>1, <1>2, <1>3
  <2> QED BY <1>1, <1>2, <2>1, GiveAll
<1>6. PICK hs, ts :
        /\ Written(hs, head, top, [size |-> z, free |-> FALSE], top + z - 15, top + z - 7)
        /\ Written(ts, tail, top + z - 15, [size |-> TailSize(z), free |-> FALSE],
                   top + z - 15, top + z - 7)
        /\ Spares(head', hs, top + 8, top + 8 + n)
        /\ Spares(tail', ts, top + 8, top + 8 + n)
  BY <1>5 DEF GivesAll
<1>7. top \in DOMAIN head /\ top + z - 15 \in DOMAIN tail /\ DOMAIN head = DOMAIN held \cup {top}
  BY <1>2 DEF Rest
<1> DEFINE took == [size |-> z, free |-> FALSE]
           done == [size |-> TailSize(z), free |-> FALSE]
<1>8. took.size = z /\ took.free = FALSE
  OBVIOUS
<1>9. Written(hs, head, top, took, top + z - 15, top + z - 7)
  BY <1>6
<1>10. Written(ts, tail, top + z - 15, done, top + z - 15, top + z - 7)
  BY <1>6
<1> HIDE DEF took, done
<1>11. DOMAIN hs = DOMAIN head /\ hs[top] = took /\ \A a \in DOMAIN head : a # top => hs[a] = head[a]
  <2>1. \A a \in DOMAIN head : a + 8 <= top + z - 15
    BY <1>3, <1>4
  <2> QED BY <1>7, <1>9, <2>1 DEF Written
<1>12. DOMAIN head' = DOMAIN head /\ head'[top] = took /\ \A a \in DOMAIN head : a # top => head'[a] = head[a]
  <2>1. \A a \in DOMAIN head : a + 8 <= top + 8
    BY <1>3, <1>4
  <2> QED BY <1>6, <1>7, <1>11, <2>1 DEF Spares
<1>13. DOMAIN ts = DOMAIN tail
  <2>1. \A a \in DOMAIN tail : a # top + z - 15 => a + 8 <= top + z - 15
    BY <1>3, <1>4
  <2> QED BY <1>7, <1>10, <2>1 DEF Written
<1>14. DOMAIN tail' = DOMAIN tail
  <2>1. ASSUME NEW a \in DOMAIN tail PROVE a + 8 <= top + 8 \/ top + 8 + n <= a
    BY <1>3, <1>4
  <2> QED BY <1>6, <1>13, <2>1 DEF Spares
<1>15. /\ m \in Nat /\ IsList(order', m + 1)
       /\ order'[m + 1] = top
       /\ DOMAIN held' = {top} \cup DOMAIN held
       /\ DOMAIN held' = {order'[i] : i \in 1 .. m + 1}
       /\ held'[top] = n /\ \A b \in DOMAIN held : b # top => held'[b] = held[b]
  <2>1. PiledOn(m, top, n)
    BY Piles
  <2> QED BY <2>1 DEF PiledOn
<1>16. /\ DOMAIN head \cup DOMAIN tail \subseteq 0 .. Capacity - 8
       /\ \A b \in DOMAIN held :
            /\ TailOf(b, head[b].size) \in DOMAIN tail
            /\ \A a \in DOMAIN head \cup DOMAIN tail : a <= b \/ b + 8 + held[b] <= a
  BY DEF Whole, WholeHeads, WholeBlocks
<1>17. top \notin DOMAIN held
  BY PlacedBelow
<1>18. ASSUME NEW b \in DOMAIN held'
       PROVE  /\ TailOf(b, head'[b].size) \in DOMAIN tail'
              /\ \A a \in DOMAIN head' \cup DOMAIN tail' : a <= b \/ b + 8 + held'[b] <= a
  <2>1. CASE b = top
    <3>1. head'[b].size = z
      BY <1>8, <1>12, <2>1
    <3>2. TailOf(b, z) = top + z - 15
      BY <1>3, <2>1 DEF TailOf, Overhead
    <3>3. ASSUME NEW a \in DOMAIN head \cup DOMAIN tail PROVE a <= top \/ top + 8 + n <= a
      <4>1. CASE a \in DOMAIN head
        BY <1>4, <4>1
      <4>2. CASE a \in DOMAIN tail
        BY <1>3, <1>4, <4>2
      <4> QED BY <4>1, <4>2
    <3> QED BY <1>7, <1>12, <1>14, <1>15, <2>1, <3>1, <3>2, <3>3
  <2>2. CASE b # top
    <3>1. b \in DOMAIN held /\ b \in DOMAIN head
      BY <1>7, <1>15, <2>2
    <3> QED BY <1>12, <1>14, <1>15, <1>16, <2>2, <3>1
  <2> QED BY <2>1, <2>2
<1>19. Undamaged({top})
  BY <1>12, <1>14, <1>16, <1>18 DEF Undamaged
<1>20. Full'
  <2>1. DOMAIN head' = DOMAIN held'
    BY <1>7, <1>12, <1>15
  <2>2. order'[m + 1] + head'[order'[m + 1]].size - 7 = top + z - 7
    BY <1>8, <1>12, <1>15
  <2>3. \A b \in DOMAIN head' : b < top + z - 7
    BY <1>3, <1>4, <1>12
  <2>4. m + 1 \in Nat \ {0}
    BY <1>15
  <2> QED BY <1>15, <2>1, <2>2, <2>3, <2>4 DEF Full, Past
<1> QED BY <1>5, <1>19, <1>20

\* The words after a block of n bytes has been carved out of the free one at
\* top, behind which new starts.
CarvedOff(top, n, w, z, new, u) ==
  /\ head' = [a \in DOMAIN head' |-> head'[a]]
  /\ DOMAIN head' = DOMAIN head \cup {new}
  /\ head'[new] = [size |-> z - w, free |-> TRUE]
  /\ head'[new].size = z - w /\ head'[new].free = TRUE
  /\ head'[top].size = w /\ head'[top].free = FALSE
  /\ \A a \in DOMAIN head : a # top => head'[a] = head[a]
  /\ DOMAIN tail' = {u, new - 8} \cup (DOMAIN tail \ {u + 7})
  /\ tail'[new - 8].free = FALSE
  /\ \A a \in DOMAIN tail : a + 8 <= top => tail'[a] = tail[a]

\* No store of a split overlaps a word that stays.
LEMMA PartWords ==
  ASSUME NEW top \in Nat, NEW n \in Nat, NEW w \in Nat, w >= n + 23, w >= 62,
         NEW z \in Int, z - w >= 39, NEW new \in Nat, new = top + w - 7,
         NEW u \in Nat, u = top + z - 22,
         \A a \in DOMAIN head : a \in Nat /\ a <= top,
         \A a \in DOMAIN tail : a = top + z - 15 \/ (a \in Int /\ a + 8 <= top),
         top \in DOMAIN head, GivesPart(top, n, w, new, z - w)
  PROVE  CarvedOff(top, n, w, z, new, u)
<1> DEFINE took == [size |-> w, free |-> FALSE]
           done == [size |-> TailSize(w), free |-> FALSE]
           back == [size |-> z - w, free |-> TRUE]
           rest == [size |-> TailSize(z - w), free |-> TRUE]
<1>1. /\ took.size = w /\ took.free = FALSE /\ done.free = FALSE
      /\ back.size = z - w /\ back.free = TRUE
  OBVIOUS
<1>2. PICK hs, ts, gs, us, ls :
        /\ Written(hs, head, top, took, top + w - 15, top + w - 7)
        /\ Written(ts, tail, top + w - 15, done, top + w - 15, top + w - 7)
        /\ Written(gs, hs, new, back, new + (z - w) - 15, new + (z - w) - 7)
        /\ Written(us, ts, new + (z - w) - 15, rest, new + (z - w) - 15, new + (z - w) - 7)
        /\ Spares(ls, us, new + 8, new + 24)
        /\ Spares(head', gs, top + 8, top + 8 + n)
        /\ Spares(tail', ls, top + 8, top + 8 + n)
  BY DEF GivesPart
<1> HIDE DEF took, done, back, rest
<1>3. PICK e \in Int : e = top + w - 15 /\ e + 8 = new /\ e >= top + 8 + n /\ e >= top + 47
  OBVIOUS
<1>4. /\ u = new + (z - w) - 15 /\ u + 8 = new + (z - w) - 7 /\ u + 7 = top + z - 15
      /\ u >= new + 24 /\ top + 8 <= new
  OBVIOUS
<1>5. Written(hs, head, top, took, e, e + 8) /\ Written(ts, tail, e, done, e, e + 8)
  BY <1>2, <1>3
<1>6. Written(gs, hs, new, back, u, u + 8) /\ Written(us, ts, u, rest, u, u + 8)
  BY <1>2, <1>4
<1>7. DOMAIN hs = DOMAIN head /\ hs[top] = took /\ \A a \in DOMAIN head : a # top => hs[a] = head[a]
  <2>1. \A a \in DOMAIN head : a + 8 <= e
    BY <1>3
  <2> QED BY <1>5, <2>1 DEF Written
<1>8. /\ DOMAIN gs = DOMAIN head \cup {new} /\ gs[new] = back /\ gs[top] = took
      /\ \A a \in DOMAIN head : a # top => gs[a] = head[a]
  <2>1. \A a \in DOMAIN head : a + 8 <= u /\ a # new
    BY <1>4
  <2> QED BY <1>6, <1>7, <2>1 DEF Written
<1>9. /\ head' = [a \in DOMAIN head' |-> head'[a]]
      /\ DOMAIN head' = DOMAIN head \cup {new} /\ head'[new] = back /\ head'[top] = took
      /\ \A a \in DOMAIN head : a # top => head'[a] = head[a]
  <2>1. \A a \in DOMAIN head : a + 8 <= top + 8
    OBVIOUS
  <2>2. top + 8 + n <= new
    BY <1>3
  <2> QED BY <1>2, <1>8, <2>1, <2>2 DEF Spares
<1>10. /\ DOMAIN ts = {e} \cup DOMAIN tail /\ ts[e] = done
       /\ \A a \in DOMAIN tail : a + 8 <= top => ts[a] = tail[a]
  <2>1. ASSUME NEW a \in DOMAIN tail PROVE a + 8 <= e \/ e + 8 <= a
    BY <1>3, <1>4
  <2>2. ASSUME NEW a \in DOMAIN tail, a + 8 <= top PROVE a # e
    <3>1. a = top + z - 15 \/ a \in Int
      OBVIOUS
    <3> QED BY <1>3, <2>2, <3>1
  <2> QED BY <1>5, <2>1, <2>2 DEF Written
<1>11. /\ DOMAIN us = {u, e} \cup (DOMAIN tail \ {u + 7}) /\ us[e] = done
       /\ \A a \in DOMAIN tail : a + 8 <= top => us[a] = tail[a]
  <2>1. ASSUME NEW a \in DOMAIN tail, a # u + 7 PROVE a + 8 <= u /\ a # u
    <3>1. a \in Int /\ a + 8 <= top
      BY <1>4, <2>1
    <3> QED BY <1>4, <3>1
  <2>2. ~ (u + 7 + 8 <= u \/ u + 8 <= u + 7) /\ u + 7 # u /\ u + 7 # e
    BY <1>3, <1>4
  <2>3. e + 8 <= u /\ e # u
    BY <1>3, <1>4
  <2>4. ASSUME NEW a \in DOMAIN tail, a + 8 <= top PROVE a # u + 7 /\ a \in DOMAIN ts
    <3>1. a = top + z - 15 \/ a \in Int
      OBVIOUS
    <3> QED BY <1>4, <1>10, <2>4, <3>1
  <2>5. DOMAIN us = {u, e} \cup (DOMAIN tail \ {u + 7})
    <3>1. \A a \in DOMAIN ts : a + 8 <= u \/ u + 8 <= a \/ a = u + 7
      BY <1>10, <2>1, <2>3
    <3>2. \A a \in DOMAIN ts : a # u + 7 => a + 8 <= u \/ u + 8 <= a
      BY <3>1
    <3>3. DOMAIN us = {u} \cup {a \in DOMAIN ts : a + 8 <= u \/ u + 8 <= a}
      BY <1>6 DEF Written
    <3>4. {a \in DOMAIN ts : a + 8 <= u \/ u + 8 <= a} = DOMAIN ts \ {u + 7}
      BY <2>2, <3>2
    <3> QED BY <1>10, <2>2, <3>3, <3>4
  <2>6. us[e] = done
    <3>1. e \in DOMAIN us /\ e # u
      BY <2>3, <2>5
    <3> QED BY <1>6, <1>10, <3>1 DEF Written
  <2>7. ASSUME NEW a \in DOMAIN tail, a + 8 <= top PROVE us[a] = tail[a]
    <3>1. a # u /\ a \in DOMAIN us
      BY <2>1, <2>4, <2>5, <2>7
    <3> QED BY <1>6, <1>10, <2>7, <3>1 DEF Written
  <2> QED BY <2>5, <2>6, <2>7
<1>12. \A a \in DOMAIN us : a = u \/ a = e \/ (a \in Int /\ a + 8 <= top)
  BY <1>4, <1>11
<1>13. DOMAIN ls = DOMAIN us /\ \A a \in DOMAIN us : ls[a] = us[a]
  <2>1. \A a \in DOMAIN us : a + 8 <= new + 8 \/ new + 24 <= a
    BY <1>3, <1>4, <1>12
  <2> QED BY <1>2, <2>1 DEF Spares
<1>14. DOMAIN tail' = DOMAIN us /\ \A a \in DOMAIN us : tail'[a] = us[a]
  <2>1. \A a \in DOMAIN us : a + 8 <= top + 8 \/ top + 8 + n <= a
    BY <1>3, <1>4, <1>12
  <2> QED BY <1>2, <1>13, <2>1 DEF Spares
<1>15. DOMAIN tail' = {u, new - 8} \cup (DOMAIN tail \ {u + 7})
  BY <1>3, <1>11, <1>14
<1>16. tail'[new - 8].free = FALSE
  BY <1>1, <1>3, <1>11, <1>14
<1>17. ASSUME NEW a \in DOMAIN tail, a + 8 <= top PROVE tail'[a] = tail[a]
  <2>1. a # u + 7
    <3>1. a = top + z - 15 \/ a \in Int
      OBVIOUS
    <3> QED BY <1>4, <1>17, <3>1
  <2> QED BY <1>11, <1>14, <1>17, <2>1
<1>18. head'[new] = [size |-> z - w, free |-> TRUE]
  BY <1>9 DEF back
<1>19. /\ head'[new].size = z - w /\ head'[new].free = TRUE
       /\ head'[top].size = w /\ head'[top].free = FALSE
  BY <1>1, <1>9
<1> QED BY <1>9, <1>15, <1>16, <1>17, <1>18, <1>19 DEF CarvedOff

\* A request that leaves a block of the free one at top, on top of m others.
CarvesTop(m, top, n) ==
  /\ ArenaAssumption /\ Whole /\ Placed(m, top) /\ Rest(m, top)
  /\ n \in Nat /\ n >= MinSize /\ size - Want(n) >= 39
  /\ held' = With(held, top, n) /\ order' = Append(order, top) /\ Give(top, n)

\* A split damages nothing, and the blocks lie behind each other as before.
LEMMA TidyCarves ==
  ASSUME NEW m, NEW top, NEW n \in Nat, CarvesTop(m, top, n)
  PROVE  intact' /\ Room'
<1>0. /\ ArenaAssumption /\ Whole /\ Placed(m, top) /\ Rest(m, top)
      /\ n \in Nat /\ n >= MinSize /\ size - Want(n) >= 39
      /\ held' = With(held, top, n) /\ order' = Append(order, top) /\ Give(top, n)
  BY DEF CarvesTop
<1>1. PICK w \in Nat : w = Want(n) /\ w >= n + 23 /\ w >= 62
  BY <1>0, WantBig
<1>2. PICK z \in Int : z = size /\ z = head[top].size
  BY <1>0 DEF Rest
<1>3. top \in Nat /\ z - w >= 39 /\ m \in Nat
  BY <1>0, <1>1, <1>2 DEF Rest, Placed
<1>4. PICK new \in Nat : new = top + w - 7 /\ new > top /\ new - 8 >= 0 /\ top + 8 + n <= new - 8
  BY <1>1, <1>3
<1>26. top % 8 = 0 /\ new % 8 = 0
  <2>1. w % 8 = 7
    BY <1>0, <1>1, WantBig
  <2>2. top % 8 = 0
    BY <1>0 DEF Rest
  <2> QED BY <1>1, <1>3, <1>4, <2>1, <2>2
<1>5. PICK u \in Nat : u = top + z - 22 /\ new <= u
  BY <1>1, <1>3, <1>4
<1>6. /\ \A a \in DOMAIN head : a \in Nat /\ a <= top /\ (a = top \/ a \in DOMAIN held)
      /\ \A a \in DOMAIN tail : a = top + z - 15 \/ (a \in Int /\ a + 8 <= top)
  BY <1>0, <1>2, TidyWords
<1>7. /\ GivesPart(top, n, w, new, z - w)
      /\ {new} \cap DOMAIN head = {} /\ Undamaged({top}) => intact'
  <2>1. Align8(new) = new /\ new \in Int /\ w \in Int /\ top \in Int
    BY <1>1, <1>3, <1>4, <1>26, AlignedStays
  <2> QED BY <1>0, <1>1, <1>2, <1>3, <1>4, <2>1, GivePart
<1>8. top \in DOMAIN head /\ DOMAIN head = DOMAIN held \cup {top} /\ u + 7 = top + z - 15
  <2>1. top \in DOMAIN head /\ DOMAIN head = DOMAIN held \cup {top}
    BY <1>0 DEF Rest
  <2> QED BY <1>2, <1>3, <1>5, <2>1
<1>9. CarvedOff(top, n, w, z, new, u)
  BY <1>1, <1>3, <1>4, <1>5, <1>6, <1>7, <1>8, PartWords
<1>10. /\ head' = [a \in DOMAIN head' |-> head'[a]]
       /\ DOMAIN head' = DOMAIN head \cup {new}
       /\ head'[new] = [size |-> z - w, free |-> TRUE]
       /\ head'[new].size = z - w /\ head'[new].free = TRUE
       /\ head'[top].size = w /\ head'[top].free = FALSE
       /\ \A a \in DOMAIN head : a # top => head'[a] = head[a]
       /\ DOMAIN tail' = {u, new - 8} \cup (DOMAIN tail \ {u + 7})
       /\ tail'[new - 8].free = FALSE
       /\ \A a \in DOMAIN tail : a + 8 <= top => tail'[a] = tail[a]
  BY <1>9 DEF CarvedOff
<1>11. PiledOn(m, top, n)
  BY <1>0, Piles
<1>12. /\ IsList(order', m + 1)
       /\ \A i \in 1 .. m : order'[i] = order[i]
       /\ order'[m + 1] = top
       /\ DOMAIN held' = {top} \cup DOMAIN held
       /\ DOMAIN held' = {order'[i] : i \in 1 .. m + 1}
       /\ held'[top] = n /\ \A b \in DOMAIN held : b # top => held'[b] = held[b]
  BY <1>11 DEF PiledOn
<1>13. size' = z - w
  <2>1. Taken(top, n) = w
    BY <1>0, <1>1, <1>2, <1>3 DEF Taken, MinSize, Overhead
  <2> QED BY <1>0, <1>2, <2>1 DEF Give
<1>14. /\ DOMAIN head \cup DOMAIN tail \subseteq 0 .. Capacity - 8
       /\ \A b \in DOMAIN held :
            /\ TailOf(b, head[b].size) \in DOMAIN tail
            /\ \A a \in DOMAIN head \cup DOMAIN tail : a <= b \/ b + 8 + held[b] <= a
  BY <1>0 DEF Whole, WholeHeads, WholeBlocks
<1>15. \A b \in DOMAIN held :
         /\ b \in Nat /\ head[b].size \in Int /\ head[b].size >= 62
         /\ b + 55 <= top /\ Past(b) <= top /\ Past(b) \in Int /\ b # top
         /\ held[b] \in Nat \ {0} /\ b + 8 + held[b] <= Past(b) - 8
         /\ TailOf(b, head[b].size) = Past(b) - 8
  BY <1>0, PlacedBelow
<1>16. \A b \in DOMAIN held : head'[b] = head[b] /\ Past(b)' = Past(b) /\ b \in DOMAIN head
  BY <1>8, <1>10, <1>15 DEF Past
<1>17. Past(top)' = new
  BY <1>4, <1>10 DEF Past
<1>18. \A b \in DOMAIN held : Past(b) - 8 \in DOMAIN tail' /\ tail'[Past(b) - 8] = tail[Past(b) - 8]
  <2> SUFFICES ASSUME NEW b \in DOMAIN held
               PROVE  Past(b) - 8 \in DOMAIN tail' /\ tail'[Past(b) - 8] = tail[Past(b) - 8]
    OBVIOUS
  <2>1. PICK a \in Int : a = Past(b) - 8 /\ a + 8 <= top
    BY <1>15
  <2>2. a \in DOMAIN tail /\ a # u + 7
    <3>1. a \in DOMAIN tail
      BY <1>14, <1>15, <2>1
    <3>2. a + 8 <= top /\ u >= top
      BY <1>3, <1>4, <1>5, <2>1
    <3> QED BY <1>3, <2>1, <3>1, <3>2
  <2> QED BY <1>10, <2>1, <2>2
<1>19. \A a \in DOMAIN tail' : a = u \/ a = new - 8 \/ (a \in DOMAIN tail /\ a \in Int /\ a + 8 <= top)
  BY <1>6, <1>8, <1>10
<1>20. DOMAIN head' \cup DOMAIN tail' \subseteq 0 .. Capacity - 8
  <2>1. Capacity \in Nat
    BY <1>0 DEF ArenaAssumption
  <2>2. u + 7 \in 0 .. Capacity - 8
    BY <1>0, <1>2, <1>8, <1>14 DEF Rest
  <2>3. u \in 0 .. Capacity - 8 /\ new \in 0 .. Capacity - 8 /\ new - 8 \in 0 .. Capacity - 8
    BY <1>4, <1>5, <2>1, <2>2
  <2> QED BY <1>10, <1>14, <2>3
<1>21. ASSUME NEW b \in DOMAIN held'
       PROVE  /\ TailOf(b, head'[b].size) \in DOMAIN tail'
              /\ \A a \in DOMAIN head' \cup DOMAIN tail' : a <= b \/ b + 8 + held'[b] <= a
  <2>1. CASE b = top
    <3>1. TailOf(top, w) = new - 8
      BY <1>3, <1>4 DEF TailOf, Overhead
    <3>2. ASSUME NEW a \in DOMAIN head' \cup DOMAIN tail' PROVE a <= top \/ top + 8 + n <= a
      <4>1. CASE a \in DOMAIN head'
        <5>1. a = new \/ (a \in Nat /\ a <= top)
          BY <1>6, <1>10, <4>1
        <5>2. new >= top + 8 + n
          BY <1>3, <1>4
        <5> QED BY <5>1, <5>2
      <4>2. CASE a \in DOMAIN tail'
        BY <1>1, <1>3, <1>4, <1>5, <1>19, <4>2
      <4> QED BY <4>1, <4>2
    <3> QED BY <1>10, <1>12, <2>1, <3>1, <3>2
  <2>2. CASE b # top
    <3>1. b \in DOMAIN held
      BY <1>12, <2>2
    <3>2. /\ b + 55 <= top /\ b \in Nat /\ held[b] \in Nat /\ b + 8 + held[b] <= Past(b) - 8
          /\ Past(b) <= top /\ Past(b) \in Int
      BY <1>15, <3>1
    <3>3. PICK k \in Nat : k = held[b] /\ b + 8 + k <= top
      BY <3>2, <1>3
    <3>4. ASSUME NEW a \in DOMAIN head' \cup DOMAIN tail' PROVE a <= b \/ b + 8 + k <= a
      <4>1. CASE a \in DOMAIN head \cup DOMAIN tail
        BY <1>14, <3>1, <3>3, <4>1
      <4>2. CASE a \notin DOMAIN head \cup DOMAIN tail
        <5>1. a = new \/ a = u \/ a = new - 8
          BY <1>10, <4>2
        <5>2. new - 8 >= top
          BY <1>1, <1>3, <1>4
        <5> QED BY <1>3, <1>4, <1>5, <3>2, <3>3, <5>1, <5>2
      <4> QED BY <4>1, <4>2
    <3>5. held'[b] = k /\ head'[b] = head[b]
      BY <1>12, <1>16, <2>2, <3>1, <3>3
    <3> QED BY <1>15, <1>18, <3>1, <3>4, <3>5
  <2> QED BY <2>1, <2>2
<1>22. Undamaged({top})
  <2>1. \A b \in DOMAIN head \ {top} : b \in DOMAIN head' /\ head'[b] = head[b]
    BY <1>10
  <2> QED BY <1>20, <1>21, <2>1 DEF Undamaged
<1>23. {new} \cap DOMAIN head = {}
  BY <1>3, <1>4, <1>6
<1>24. Placed(m + 1, new)'
  <2>1. ASSUME NEW i \in 1 .. m + 1
        PROVE  /\ order'[i] \in Nat /\ order'[i] % 8 = 0
               /\ head'[order'[i]].size \in Int /\ head'[order'[i]].size >= 62
               /\ tail'[Past(order[i])' - 8].free = FALSE
               /\ Past(order[i])' = (IF i = m + 1 THEN new ELSE order'[i + 1])
    <3>1. CASE i = m + 1
      <4>1. order'[i] = top /\ Past(order[i])' = new
        BY <1>12, <1>17, <3>1 DEF Past
      <4> QED BY <1>1, <1>3, <1>10, <1>26, <3>1, <4>1
    <3>2. CASE i # m + 1
      <4>1. i \in 1 .. m /\ order'[i] = order[i] /\ order[i] \in DOMAIN held
        <5>1. i \in 1 .. m
          BY <1>3, <3>2
        <5> QED BY <1>0, <1>12, <5>1 DEF Placed
      <4>2. PICK b : b = order[i]
        OBVIOUS
      <4>3. /\ b \in Nat /\ b % 8 = 0 /\ head[b].size \in Int /\ head[b].size >= 62
            /\ tail[Past(b) - 8].free = FALSE
            /\ Past(b) = (IF i = m THEN top ELSE order[i + 1])
        BY <1>0, <4>1, <4>2 DEF Placed
      <4>4. Past(order[i])' = Past(b)
        BY <1>16, <4>1, <4>2 DEF Past
      <4>5. order'[i + 1] = (IF i = m THEN top ELSE order[i + 1])
        BY <1>3, <1>12, <4>1
      <4>6. tail'[Past(b) - 8].free = FALSE /\ head'[b] = head[b]
        BY <1>16, <1>18, <4>1, <4>2, <4>3
      <4> QED BY <3>2, <4>1, <4>2, <4>3, <4>4, <4>5, <4>6
    <3> QED BY <3>1, <3>2
  <2>2. ASSUME NEW i \in 1 .. m + 1, NEW j \in 1 .. m + 1, i < j
        PROVE  Past(order[i])' <= order'[j]
    <3>1. i \in 1 .. m /\ order'[i] = order[i] /\ order[i] \in DOMAIN held
      <4>1. i \in 1 .. m
        BY <1>3, <2>2
      <4> QED BY <1>0, <1>12, <4>1 DEF Placed
    <3>2. Past(order[i])' = Past(order[i])
      BY <1>16, <3>1 DEF Past
    <3>3. CASE j = m + 1
      BY <1>12, <1>15, <3>1, <3>2, <3>3
    <3>4. CASE j # m + 1
      <4>1. j \in 1 .. m /\ order'[j] = order[j]
        BY <1>3, <1>12, <3>4
      <4> QED BY <1>0, <2>2, <3>1, <3>2, <4>1 DEF Placed
    <3> QED BY <3>3, <3>4
  <2>3. IF m + 1 = 0 THEN new = 0 ELSE order'[1] = 0
    <3>1. CASE m = 0
      <4>1. top = 0
        BY <1>0, <3>1 DEF Placed
      <4> QED BY <1>12, <3>1, <4>1
    <3>2. CASE m # 0
      <4>1. 1 \in 1 .. m /\ order[1] = 0
        BY <1>0, <1>3, <3>2 DEF Placed
      <4> QED BY <1>3, <1>12, <4>1
    <3> QED BY <3>1, <3>2
  <2>4. m + 1 \in Nat
    BY <1>3
  <2> QED BY <1>0, <1>12, <2>1, <2>2, <2>3, <2>4 DEF Placed
<1>25. Rest(m + 1, new)'
  <2>1. size' \in Int /\ size' = Capacity - new - 7 * (m + 1) /\ size' >= 39
    <3>1. Capacity \in Nat
      BY <1>0 DEF ArenaAssumption
    <3>2. z = Capacity - top - 7 * m
      BY <1>0, <1>2 DEF Rest
    <3> QED BY <1>3, <1>4, <1>13, <3>1, <3>2
  <2>2. DOMAIN head' = DOMAIN held' \cup {new}
    BY <1>8, <1>10, <1>12
  <2>3. /\ head'[new].size = size' /\ head'[new].free = TRUE
        /\ head'[new] = [size |-> size', free |-> TRUE]
    BY <1>10, <1>13
  <2>4. DOMAIN tail' = {Past(b)' - 8 : b \in DOMAIN held'} \cup {new + size' - 15}
    <3>1. new + size' - 15 = u
      BY <1>3, <1>4, <1>5, <1>13
    <3>2. DOMAIN tail = {Past(b) - 8 : b \in DOMAIN held} \cup {u + 7}
      BY <1>0, <1>2, <1>8 DEF Rest
    <3>3. u + 7 \notin {Past(b) - 8 : b \in DOMAIN held}
      BY <1>3, <1>4, <1>5, <1>15
    <3>4. DOMAIN tail' = {u, new - 8} \cup {Past(b) - 8 : b \in DOMAIN held}
      BY <1>10, <3>2, <3>3
    <3>5. {Past(b) - 8 : b \in DOMAIN held} = {Past(b)' - 8 : b \in DOMAIN held}
      BY <1>16
    <3>6. {Past(b)' - 8 : b \in DOMAIN held'} = {Past(b)' - 8 : b \in DOMAIN held} \cup {Past(top)' - 8}
      BY <1>12
    <3> QED BY <1>17, <3>1, <3>4, <3>5, <3>6
  <2>5. new % 8 = 0 /\ new \in Nat
    BY <1>4, <1>26
  <2> QED BY <1>0, <1>10, <2>1, <2>2, <2>3, <2>4, <2>5 DEF Rest
<1> QED BY <1>7, <1>22, <1>23, <1>24, <1>25 DEF Room

\* The newest of m blocks comes back, and there is a header behind it.
FreesTop(m, top, h) ==
  /\ ArenaAssumption /\ Whole /\ Placed(m, top) /\ Rest(m, top)
  /\ h \in DOMAIN held /\ Free(h)
  /\ Last(order) = h /\ MergesBehind(TailOf(h, head[h].size))

\* What the newest block is, and what lies in front of it.
LEMMA Newest ==
  ASSUME NEW m, NEW top, NEW h, FreesTop(m, top, h)
  PROVE  /\ m \in Nat /\ m >= 1 /\ h = order[m] /\ Past(h) = top /\ Len(order) = m
         /\ IF m = 1 THEN h = 0 ELSE /\ h - 8 \in DOMAIN tail /\ tail[h - 8].free = FALSE
                                     /\ Past(order[m - 1]) = h
         /\ TailOf(h, head[h].size) + 8 = top
<1>1. m \in Nat /\ IsList(order, m) /\ DOMAIN held = {order[i] : i \in 1 .. m} /\ h \in DOMAIN held
  BY DEF FreesTop, Placed
<1>2. m >= 1 /\ m \in 1 .. m
  BY <1>1
<1>3. Len(order) = m
  BY <1>1, Listed DEF IsList
<1>4. h = order[m]
  BY <1>3 DEF FreesTop, Last
<1>5. Past(h) = top
  BY <1>2, <1>4 DEF FreesTop, Placed
<1>6. IF m = 1 THEN h = 0 ELSE /\ h - 8 \in DOMAIN tail /\ tail[h - 8].free = FALSE
                               /\ Past(order[m - 1]) = h
  <2>1. CASE m = 1
    BY <1>4, <2>1 DEF FreesTop, Placed
  <2>2. CASE m # 1
    <3>1. m - 1 \in 1 .. m /\ m - 1 # m /\ (m - 1) + 1 = m
      BY <1>1, <1>2, <2>2
    <3>2. PICK k \in 1 .. m : k = m - 1 /\ k # m /\ k + 1 = m
      BY <3>1
    <3>3. Past(order[k]) = h /\ tail[Past(order[k]) - 8].free = FALSE /\ order[k] \in DOMAIN held
      BY <1>1, <1>4, <3>2 DEF FreesTop, Placed
    <3>4. h - 8 \in DOMAIN tail
      BY <3>3 DEF FreesTop, Rest
    <3> QED BY <2>2, <3>2, <3>3, <3>4
  <2> QED BY <2>1, <2>2
<1>7. TailOf(h, head[h].size) + 8 = top
  <2>1. /\ TailOf(h, head[h].size) = Past(h) - 8 /\ top \in Nat
    BY <1>1, PlacedBelow DEF FreesTop, Rest
  <2> QED BY <1>5, <2>1
<1> QED BY <1>1, <1>2, <1>3, <1>4, <1>5, <1>6, <1>7

\* The block becomes one with that behind it.
LEMMA FreeJoins ==
  ASSUME NEW m, NEW top, NEW h, FreesTop(m, top, h)
  PROVE  /\ Released(h) /\ size' = size + head[h].size
         /\ Store(Combined(h, FALSE, TRUE))
<1>1. /\ m \in Nat /\ m >= 1 /\ h = order[m] /\ Past(h) = top
      /\ IF m = 1 THEN h = 0 ELSE h - 8 \in DOMAIN tail /\ tail[h - 8].free = FALSE
  BY Newest
<1>2. PICK t : t = TailOf(h, head[h].size)
  OBVIOUS
<1>3. t + 8 = top
  BY <1>2, Newest
<1>4. FreeBefore(h) = {FALSE}
  <2>1. CASE m = 1
    <3>1. ~ (h - 8 > 0)
      BY <1>1, <2>1
    <3> QED BY <3>1 DEF FreeBefore
  <2>2. CASE m # 1
    <3>1. FlagAt(tail, h - 8) = {FALSE}
      BY <1>1, <2>2, Zenon DEF FlagAt
    <3> QED BY <3>1 DEF FreeBefore
  <2> QED BY <2>1, <2>2
<1>5. FreeBehind(t) = {TRUE}
  <2>1. PICK z \in Int : z = size /\ z >= 39
    BY <1>1 DEF FreesTop, Rest
  <2>2. Capacity \in Nat /\ top \in Nat /\ z = Capacity - top - 7 * m
    BY <2>1 DEF FreesTop, Rest, ArenaAssumption
  <2>3. ~ (t + 8 >= Capacity)
    BY <1>1, <1>3, <2>1, <2>2
  <2>4. top + 1 \notin DOMAIN head
    <3>1. \A a \in DOMAIN head : a <= top
      BY TidyWords DEF FreesTop
    <3> QED BY <2>2, <3>1
  <2>5. t + 9 \notin DOMAIN head
    <3>1. t \in Int
      <4>1. \A b \in DOMAIN held : Past(b) \in Int /\ TailOf(b, head[b].size) = Past(b) - 8
        BY PlacedBelow DEF FreesTop
      <4> QED BY <1>2, <4>1 DEF FreesTop
    <3> QED BY <1>3, <2>2, <2>4, <3>1
  <2>6. FlagAt(head, t + 8) = {TRUE}
    BY <1>3 DEF FlagAt, FreesTop, Rest
  <2>7. ~ (t + 8 >= Capacity \/ t + 9 \in DOMAIN head)
    BY <2>3, <2>5
  <2> QED BY <2>6, <2>7, Zenon DEF FreeBehind
<1>6. PICK before \in FreeBefore(h), behind \in FreeBehind(t) :
        IF (before => MergesBefore(h)) /\ (behind => MergesBehind(t))
          THEN /\ Released(h) /\ Store(Combined(h, before, behind)) /\ size' = size + head[h].size
          ELSE intact' = FALSE /\ Released(h)
  <2>1. Free(h)
    BY DEF FreesTop
  <2> QED BY <1>2, <2>1, Zenon DEF Free
<1>7. before = FALSE /\ behind = TRUE
  BY <1>4, <1>5, <1>6
<1>8. MergesBehind(t)
  BY <1>2 DEF FreesTop
<1> QED BY <1>6, <1>7, <1>8, Zenon

\* The words after the block of s bytes at h has become one with the free one
\* of z bytes at top, whose new tail is at e.
JoinedTop(h, s, z, top, e) ==
  /\ head' = [a \in DOMAIN head' |-> head'[a]]
  /\ DOMAIN head' = DOMAIN head \ {top}
  /\ head'[h] = [size |-> s + z, free |-> TRUE]
  /\ head'[h].size = s + z /\ head'[h].free = TRUE
  /\ \A a \in DOMAIN head : a # h /\ a # top => head'[a] = head[a]
  /\ DOMAIN tail' = {a \in DOMAIN tail : a + 8 <= h} \cup {e}
  /\ \A a \in DOMAIN tail : a + 8 <= h => tail'[a] = tail[a]
  /\ Undamaged({h, top}) => intact'

\* No store of a merge at the top overlaps a word that stays.
LEMMA FreeWords ==
  ASSUME NEW h \in Nat, NEW s \in Int, s = head[h].size, NEW z \in Int, z >= 39, NEW top \in Nat,
         h \in DOMAIN head, top \in DOMAIN head, head[top].size = z, h + 55 <= top,
         top = h + s - 7, TailOf(h, s) + 8 = top,
         NEW e \in Int, e = top + z - 8,
         \A a \in DOMAIN head : a \in Nat /\ a <= top,
         \A a \in DOMAIN tail : a = top + z - 15 \/ (a \in Int /\ a + 8 <= top),
         Store(Combined(h, FALSE, TRUE))
  PROVE  JoinedTop(h, s, z, top, e)
<1>1. PICK c : c = Combined(h, FALSE, TRUE)
  OBVIOUS
<1>2. PICK w \in Int : w = s + z
  OBVIOUS
<1>3. c.at = h /\ c.size = w /\ c.gone = {h, top} /\ c.tailAt = e
  <2>1. TailOf(h, w) = e
    BY <1>2 DEF TailOf, Overhead
  <2>2. PICK list : list = Disconnect(freeList, h)
    OBVIOUS
  <2>3. PICK f : f = (IF FALSE THEN HeadOf(h - 8, tail[h - 8].size) ELSE h)
    OBVIOUS
  <2>4. f = h
    BY <2>3
  <2>5. PICK o : o = s + (IF FALSE THEN head[h].size ELSE 0)
    OBVIOUS
  <2>6. o = s /\ o + head[top].size = w
    BY <1>2, <2>5
  <2>7. c = [at |-> h, size |-> w, gone |-> {h, h, top},
             list |-> Disconnect(list, top), tailAt |-> TailOf(h, w)]
    BY <1>1, <2>2, <2>3, <2>4, <2>5, <2>6, Zenon DEF Combined
  <2> QED BY <2>1, <2>7
<1> DEFINE joined == [size |-> w, free |-> TRUE]
           done == [size |-> TailSize(w), free |-> TRUE]
<1>4. joined.size = w /\ joined.free = TRUE
  OBVIOUS
<1> HIDE DEF joined, done
<1>5. PICK f : f = Restrict(head, DOMAIN head \ {h, top})
  OBVIOUS
<1>6. DOMAIN f = DOMAIN head \ {h, top} /\ \A a \in DOMAIN f : f[a] = head[a]
  BY <1>5 DEF Restrict
<1>7. PICK g : g = With(Spared(f, e, e + 8), h, joined)
  OBVIOUS
<1>8. Written(g, f, h, joined, e, e + 8)
  BY <1>7, PutSpared
<1>9. head' = g
  BY <1>1, <1>3, <1>5, <1>7, Zenon DEF Store, joined
<1>10. PICK k : k = With(Spared(tail, h, e + 8), e, done)
  OBVIOUS
<1>11. Written(k, tail, e, done, h, e + 8)
  BY <1>10, PutSpared
<1>12. tail' = k
  BY <1>1, <1>3, <1>10, Zenon DEF Store, done
<1>13. \A a \in DOMAIN f : a + 8 <= e
  BY <1>6
<1>14. /\ head' = [a \in DOMAIN head' |-> head'[a]]
       /\ DOMAIN head' = {h} \cup DOMAIN f
       /\ head'[h] = joined /\ \A a \in DOMAIN f : a # h => head'[a] = f[a]
  BY <1>8, <1>9, <1>13 DEF Written
<1>15. /\ DOMAIN head' = DOMAIN head \ {top}
       /\ \A a \in DOMAIN head : a # h /\ a # top => head'[a] = head[a]
  BY <1>6, <1>14
<1>16. /\ DOMAIN tail' = {a \in DOMAIN tail : a + 8 <= h} \cup {e}
       /\ \A a \in DOMAIN tail : a + 8 <= h => tail'[a] = tail[a]
  <2>1. ASSUME NEW a \in DOMAIN tail PROVE ~ (e + 8 <= a)
    OBVIOUS
  <2>2. DOMAIN k = {e} \cup {a \in DOMAIN tail : a + 8 <= h \/ e + 8 <= a}
    BY <1>11 DEF Written
  <2>3. ASSUME NEW a \in DOMAIN tail, a + 8 <= h PROVE a # e
    <3>1. a = top + z - 15 \/ a \in Int
      OBVIOUS
    <3> QED BY <2>3, <3>1
  <2>4. \A a \in DOMAIN k : a # e => k[a] = tail[a]
    BY <1>11 DEF Written
  <2> QED BY <1>12, <2>1, <2>2, <2>3, <2>4
<1>17. Undamaged({h, top}) => intact'
  <2>1. intact' = Undamaged(c.gone)
    BY <1>1, Zenon DEF Store
  <2> QED BY <1>3, <2>1, Zenon
<1>18. /\ head'[h] = [size |-> s + z, free |-> TRUE]
       /\ head'[h].size = s + z /\ head'[h].free = TRUE
  BY <1>2, <1>4, <1>14 DEF joined
<1> QED BY <1>14, <1>15, <1>16, <1>17, <1>18 DEF JoinedTop

\* The merge damages nothing, and the blocks lie behind each other as before.
LEMMA TidyFrees ==
  ASSUME NEW m, NEW top, NEW h, FreesTop(m, top, h)
  PROVE  intact' /\ Room'
<1>0. /\ ArenaAssumption /\ Whole /\ Placed(m, top) /\ Rest(m, top)
      /\ h \in DOMAIN held /\ Last(order) = h
  BY DEF FreesTop
<1>1. /\ m \in Nat /\ m >= 1 /\ h = order[m] /\ Past(h) = top /\ Len(order) = m
      /\ IF m = 1 THEN h = 0 ELSE /\ h - 8 \in DOMAIN tail /\ tail[h - 8].free = FALSE
                                  /\ Past(order[m - 1]) = h
      /\ TailOf(h, head[h].size) + 8 = top
  BY Newest
<1>2. /\ Released(h) /\ size' = size + head[h].size
      /\ Store(Combined(h, FALSE, TRUE))
  BY FreeJoins
<1>3. \A b \in DOMAIN held :
         /\ b \in Nat /\ head[b].size \in Int /\ head[b].size >= 62
         /\ b + 55 <= top /\ Past(b) <= top /\ Past(b) \in Int
         /\ held[b] \in Nat \ {0} /\ b + 8 + held[b] <= Past(b) - 8
         /\ TailOf(b, head[b].size) = Past(b) - 8
  BY <1>0, PlacedBelow
<1>4. PICK z \in Int : z = size /\ z = head[top].size /\ z >= 39
  BY <1>0, <1>1 DEF Rest
<1>5. PICK s \in Int : s = head[h].size /\ s >= 62 /\ h \in Nat /\ h + 55 <= top /\ top = h + s - 7
  BY <1>0, <1>1, <1>3 DEF Past
<1>6. top \in Nat /\ top \in DOMAIN head /\ h \in DOMAIN head /\ DOMAIN head = DOMAIN held \cup {top}
  BY <1>0 DEF Rest
<1>7. PICK e \in Int : e = top + z - 8 /\ e > top /\ e = h + (s + z) - 15
  BY <1>4, <1>5, <1>6
<1>8. /\ \A a \in DOMAIN head : a \in Nat /\ a <= top /\ (a = top \/ a \in DOMAIN held)
      /\ \A a \in DOMAIN tail : a = top + z - 15 \/ (a \in Int /\ a + 8 <= top)
  BY <1>0, <1>4, TidyWords
<1>9. JoinedTop(h, s, z, top, e)
  <2>1. TailOf(h, s) + 8 = top
    BY <1>1, <1>5
  <2> QED BY <1>2, <1>4, <1>5, <1>6, <1>7, <1>8, <2>1, FreeWords
<1>10. /\ head' = [a \in DOMAIN head' |-> head'[a]]
       /\ DOMAIN head' = DOMAIN head \ {top}
       /\ head'[h] = [size |-> s + z, free |-> TRUE]
       /\ head'[h].size = s + z /\ head'[h].free = TRUE
       /\ \A a \in DOMAIN head : a # h /\ a # top => head'[a] = head[a]
       /\ DOMAIN tail' = {a \in DOMAIN tail : a + 8 <= h} \cup {e}
       /\ \A a \in DOMAIN tail : a + 8 <= h => tail'[a] = tail[a]
       /\ Undamaged({h, top}) => intact'
  BY <1>9 DEF JoinedTop
<1>11. /\ DOMAIN held = {order[i] : i \in 1 .. m} /\ IsList(order, m)
       /\ \A i, j \in 1 .. m : i < j => Past(order[i]) <= order[j]
       /\ \A i \in 1 .. m : /\ order[i] % 8 = 0
                            /\ Past(order[i]) = (IF i = m THEN top ELSE order[i + 1])
                            /\ tail[Past(order[i]) - 8].free = FALSE
  BY <1>0 DEF Placed
<1>12. \A i \in 1 .. m : order[i] \in DOMAIN held
  BY <1>11
<1>13. \A i, j \in 1 .. m : i < j => order[i] # order[j]
  <2> SUFFICES ASSUME NEW i \in 1 .. m, NEW j \in 1 .. m, i < j, order[i] = order[j] PROVE FALSE
    OBVIOUS
  <2>1. PICK b : b = order[i]
    OBVIOUS
  <2>2. Past(b) <= b /\ b \in Nat /\ head[b].size \in Int /\ head[b].size >= 62
    BY <1>3, <1>11, <1>12, <2>1
  <2> QED BY <2>2 DEF Past
<1>14. /\ IsList(order', m - 1) /\ \A i \in 1 .. m - 1 : order'[i] = order[i]
  <2>1. order' = Disconnect(order, order[m])
    BY <1>1, <1>2 DEF Released
  <2>2. m \in 1 .. m
    BY <1>1
  <2>3. IsInjective(order)
    <3>1. DOMAIN order = 1 .. m
      BY <1>11 DEF IsList
    <3>2. \A i, j \in 1 .. m : order[i] = order[j] => i = j
      BY <1>13
    <3> QED BY <3>1, <3>2 DEF IsInjective
  <2>4. PICK d : d = Disconnect(order, order[m])
    OBVIOUS
  <2>5. /\ IsList(d, m - 1)
        /\ \A i \in 1 .. m - 1 : d[i] = IF i < m THEN order[i] ELSE order[i + 1]
    BY <1>1, <1>11, <2>2, <2>3, <2>4, DisconnectTakesOut
  <2>6. \A i \in 1 .. m - 1 : i < m
    BY <1>1
  <2> QED BY <2>1, <2>4, <2>5, <2>6
<1>15. DOMAIN held' = DOMAIN held \ {h} /\ \A b \in DOMAIN held' : held'[b] = held[b]
  BY <1>2 DEF Released, Restrict
<1>16. \A b \in DOMAIN held' : Past(b) <= h /\ b \in DOMAIN held /\ b # h /\ b # top
  <2> SUFFICES ASSUME NEW b \in DOMAIN held' PROVE Past(b) <= h /\ b \in DOMAIN held /\ b # h /\ b # top
    OBVIOUS
  <2>1. b \in DOMAIN held /\ b # h
    BY <1>15
  <2>2. PICK i \in 1 .. m : b = order[i]
    BY <1>11, <2>1
  <2>3. i < m /\ m \in 1 .. m
    BY <1>1, <2>1, <2>2
  <2>4. Past(b) <= h
    BY <1>1, <1>11, <2>2, <2>3
  <2>5. b # top
    BY <1>3, <1>6, <2>1
  <2> QED BY <2>1, <2>4, <2>5
<1>17. DOMAIN held' = {order'[i] : i \in 1 .. m - 1}
  <2>1. ASSUME NEW b \in DOMAIN held' PROVE \E i \in 1 .. m - 1 : b = order'[i]
    <3>1. PICK i \in 1 .. m : b = order[i]
      BY <1>11, <1>15
    <3>2. i # m
      BY <1>1, <1>15, <3>1
    <3>3. i \in 1 .. m - 1
      BY <1>1, <3>2
    <3> QED BY <1>14, <3>1, <3>3
  <2>2. ASSUME NEW i \in 1 .. m - 1 PROVE order'[i] \in DOMAIN held'
    <3>1. i \in 1 .. m /\ i < m /\ m \in 1 .. m
      BY <1>1
    <3>2. order[i] # order[m]
      BY <1>13, <3>1
    <3> QED BY <1>1, <1>12, <1>14, <1>15, <3>1, <3>2
  <2> QED BY <2>1, <2>2
<1>18. \A b \in DOMAIN held' : head'[b] = head[b] /\ Past(b)' = Past(b) /\ b \in DOMAIN head
  BY <1>6, <1>10, <1>16 DEF Past
<1>19. /\ DOMAIN head \cup DOMAIN tail \subseteq 0 .. Capacity - 8
       /\ \A b \in DOMAIN held :
            /\ TailOf(b, head[b].size) \in DOMAIN tail
            /\ \A a \in DOMAIN head \cup DOMAIN tail : a <= b \/ b + 8 + held[b] <= a
  BY <1>0 DEF Whole, WholeHeads, WholeBlocks
<1>20. /\ Capacity \in Nat /\ z = Capacity - top - 7 * m
  BY <1>0, <1>4 DEF Rest, ArenaAssumption
<1>21. e \in 0 .. Capacity - 8
  BY <1>1, <1>6, <1>7, <1>20
<1>22. \A b \in DOMAIN held' : Past(b) - 8 \in DOMAIN tail' /\ tail'[Past(b) - 8] = tail[Past(b) - 8]
  <2> SUFFICES ASSUME NEW b \in DOMAIN held'
               PROVE  Past(b) - 8 \in DOMAIN tail' /\ tail'[Past(b) - 8] = tail[Past(b) - 8]
    OBVIOUS
  <2>1. b \in DOMAIN held /\ Past(b) <= h /\ Past(b) \in Int
    BY <1>3, <1>16
  <2>2. PICK a \in Int : a = Past(b) - 8 /\ a + 8 <= h
    BY <1>5, <2>1
  <2>3. a \in DOMAIN tail
    BY <1>3, <1>19, <2>1, <2>2
  <2> QED BY <1>10, <2>2, <2>3
<1>23. ASSUME NEW b \in DOMAIN held'
       PROVE  /\ TailOf(b, head'[b].size) \in DOMAIN tail'
              /\ \A a \in DOMAIN head' \cup DOMAIN tail' : a <= b \/ b + 8 + held'[b] <= a
  <2>1. b \in DOMAIN held /\ held'[b] = held[b] /\ head'[b] = head[b] /\ Past(b) <= h
    BY <1>15, <1>16, <1>18
  <2>2. TailOf(b, head'[b].size) \in DOMAIN tail'
    BY <1>3, <1>22, <2>1
  <2>3. /\ held[b] \in Nat /\ b + 8 + held[b] <= Past(b) - 8 /\ Past(b) \in Int /\ b \in Nat
    BY <1>3, <2>1
  <2>4. PICK k \in Nat : k = held[b] /\ b + 8 + k <= h
    BY <1>5, <2>1, <2>3
  <2>5. ASSUME NEW a \in DOMAIN head' \cup DOMAIN tail' PROVE a <= b \/ b + 8 + k <= a
    <3>1. CASE a \in DOMAIN head \cup DOMAIN tail
      BY <1>19, <2>1, <2>4, <3>1
    <3>2. CASE a \notin DOMAIN head \cup DOMAIN tail
      <4>1. a = e
        BY <1>10, <3>2
      <4> QED BY <1>5, <1>7, <2>3, <2>4, <4>1
    <3> QED BY <3>1, <3>2
  <2> QED BY <2>1, <2>2, <2>4, <2>5
<1>24. Undamaged({h, top})
  <2>1. \A b \in DOMAIN head \ {h, top} : b \in DOMAIN head' /\ head'[b] = head[b]
    BY <1>10
  <2>2. DOMAIN head' \cup DOMAIN tail' \subseteq 0 .. Capacity - 8
    BY <1>10, <1>19, <1>21
  <2> QED BY <1>23, <2>1, <2>2 DEF Undamaged
<1>25. Placed(m - 1, h)'
  <2>1. ASSUME NEW i \in 1 .. m - 1
        PROVE  /\ order'[i] \in Nat /\ order'[i] % 8 = 0
               /\ head'[order'[i]].size \in Int /\ head'[order'[i]].size >= 62
               /\ tail'[Past(order[i])' - 8].free = FALSE
               /\ Past(order[i])' = (IF i = m - 1 THEN h ELSE order'[i + 1])
    <3>1. i \in 1 .. m /\ i < m /\ i # m
      BY <1>1
    <3>2. PICK b : b = order[i]
      OBVIOUS
    <3>3. order'[i] = b /\ b \in DOMAIN held'
      BY <1>14, <1>17, <3>2
    <3>4. /\ b \in Nat /\ b % 8 = 0 /\ head[b].size \in Int /\ head[b].size >= 62
          /\ tail[Past(b) - 8].free = FALSE
          /\ Past(b) = order[i + 1]
      BY <1>3, <1>11, <1>16, <3>1, <3>2, <3>3
    <3>5. Past(order[i])' = Past(b)
      BY <1>18, <3>3 DEF Past
    <3>6. order[i + 1] = (IF i = m - 1 THEN h ELSE order'[i + 1])
      <4>1. CASE i = m - 1
        <5>1. i + 1 = m
          BY <1>1, <4>1
        <5> QED BY <1>1, <4>1, <5>1
      <4>2. CASE i # m - 1
        <5>1. i + 1 \in 1 .. m - 1
          BY <1>1, <4>2
        <5> QED BY <1>14, <4>2, <5>1
      <4> QED BY <4>1, <4>2
    <3>7. tail'[Past(b) - 8].free = FALSE /\ head'[b] = head[b]
      BY <1>18, <1>22, <3>3, <3>4
    <3> QED BY <3>3, <3>4, <3>5, <3>6, <3>7
  <2>2. ASSUME NEW i \in 1 .. m - 1, NEW j \in 1 .. m - 1, i < j
        PROVE  Past(order[i])' <= order'[j]
    <3>1. i \in 1 .. m /\ j \in 1 .. m
      BY <1>1
    <3>2. order'[i] = order[i] /\ order'[j] = order[j] /\ order[i] \in DOMAIN held'
      BY <1>14, <1>17
    <3>3. Past(order[i])' = Past(order[i])
      BY <1>18, <3>2 DEF Past
    <3> QED BY <1>11, <2>2, <3>1, <3>2, <3>3
  <2>3. IF m - 1 = 0 THEN h = 0 ELSE order'[1] = 0
    <3>1. CASE m = 1
      BY <1>1, <3>1
    <3>2. CASE m # 1
      <4>1. 1 \in 1 .. m - 1 /\ m - 1 # 0 /\ m # 0
        BY <1>1, <3>2
      <4>2. order[1] = 0
        BY <1>0, <4>1 DEF Placed
      <4> QED BY <1>14, <4>1, <4>2
    <3> QED BY <3>1, <3>2
  <2>4. m - 1 \in Nat
    BY <1>1
  <2> QED BY <1>14, <1>17, <2>1, <2>2, <2>3, <2>4 DEF Placed
<1>26. Rest(m - 1, h)'
  <2>1. size' \in Int /\ size' = s + z
    BY <1>2, <1>4, <1>5
  <2>2. size' = Capacity - h - 7 * (m - 1) /\ size' >= 39
    <3>1. m \in Nat
      BY <1>1
    <3>2. s + z = Capacity - h - 7 * (m - 1) /\ s + z >= 39
      BY <1>4, <1>5, <1>6, <1>20, <3>1
    <3> QED BY <2>1, <3>2
  <2>3. DOMAIN head' = DOMAIN held' \cup {h}
    BY <1>0, <1>5, <1>6, <1>10, <1>15, <1>16
  <2>4. /\ head'[h].size = size' /\ head'[h].free = TRUE
        /\ head'[h] = [size |-> size', free |-> TRUE]
    BY <1>10, <2>1
  <2>5. DOMAIN tail' = {Past(b)' - 8 : b \in DOMAIN held'} \cup {h + size' - 15}
    <3>1. h + size' - 15 = e
      BY <1>5, <1>7, <2>1
    <3>2. {Past(b)' - 8 : b \in DOMAIN held'} = {Past(b) - 8 : b \in DOMAIN held'}
      BY <1>18
    <3>3. {a \in DOMAIN tail : a + 8 <= h} = {Past(b) - 8 : b \in DOMAIN held'}
      <4>1. ASSUME NEW a \in DOMAIN tail, a + 8 <= h PROVE \E b \in DOMAIN held' : a = Past(b) - 8
        <5>1. a # top + z - 15
          BY <1>4, <1>5, <1>6, <4>1
        <5>2. PICK b \in DOMAIN held : a = Past(b) - 8
          BY <1>0, <1>4, <5>1 DEF Rest
        <5>3. b # h
          <6> SUFFICES ASSUME b = h PROVE FALSE
            OBVIOUS
          <6>1. a = top - 8
            BY <1>1, <5>2
          <6> QED BY <1>5, <1>6, <4>1, <6>1
        <5> QED BY <1>15, <5>2, <5>3
      <4>2. ASSUME NEW b \in DOMAIN held' PROVE Past(b) - 8 \in DOMAIN tail /\ (Past(b) - 8) + 8 <= h
        <5>1. Past(b) \in Int /\ Past(b) <= h /\ Past(b) - 8 \in DOMAIN tail
          BY <1>3, <1>16, <1>19
        <5> QED BY <1>5, <5>1
      <4> QED BY <4>1, <4>2
    <3> QED BY <1>10, <3>1, <3>2, <3>3
  <2>6. h % 8 = 0
    <3>1. m \in 1 .. m
      BY <1>1
    <3> QED BY <1>1, <1>11, <3>1
  <2> QED BY <1>5, <1>10, <2>1, <2>2, <2>3, <2>4, <2>5, <2>6 DEF Rest
<1> QED BY <1>10, <1>24, <1>25, <1>26 DEF Room

\* The free list of a tidy arena is its one free block, or empty.
LEMMA OneFree ==
  ASSUME Whole, NEW m, NEW top, Placed(m, top), Rest(m, top)
  PROVE  freeList = <<top>>
<1>1. FreeBlocks = {top}
  BY PlacedBelow
<1>2. PICK n \in Nat :
        /\ IsList(freeList, n) /\ {top} = {freeList[i] : i \in 1 .. n}
        /\ \A i, j \in 1 .. n : i < j => freeList[i] # freeList[j]
  BY <1>1 DEF Whole, WholeList, Lists
<1>3. n = 1
  <2>1. PICK i \in 1 .. n : freeList[i] = top
    BY <1>2
  <2>2. ASSUME n >= 2 PROVE FALSE
    <3>1. 1 \in 1 .. n /\ 2 \in 1 .. n
      BY <2>2
    <3>2. freeList[1] = top /\ freeList[2] = top
      BY <1>2, <3>1
    <3> QED BY <1>2, <3>1, <3>2
  <2> QED BY <2>1, <2>2
<1> QED BY <1>2, <1>3 DEF IsList

LEMMA TidyAlloc ==
  ASSUME ArenaAssumption, Whole, Room \/ Full, NEW n \in Nat, n >= MinSize, Alloc(n)
  PROVE  intact' /\ (Room' \/ Full')
<1>1. PICK h \in Candidates(n) :
        held' = With(held, h, n) /\ Give(h, n) /\ order' = Append(order, h)
  BY DEF Alloc
<1>2. h \in FreeBlocks /\ head[h].size \in Int /\ head[h].size >= Want(n)
  BY CandidateFits
<1>3. CASE Full
  BY <1>2, <1>3 DEF Full, FreeBlocks, Whole, WholeBlocks
<1>4. CASE Room
  <2>1. PICK m, top : Placed(m, top) /\ Rest(m, top)
    BY <1>4 DEF Room
  <2>2. h = top
    BY <1>2, <2>1, PlacedBelow
  <2>3. size >= Want(n) /\ size \in Int /\ Want(n) \in Nat
    BY <1>2, <2>1, <2>2, WantRoom DEF Rest
  <2>4. CASE size - Want(n) < 39
    BY <1>1, <2>1, <2>2, <2>3, <2>4, TidyTakesAll
  <2>5. CASE ~ (size - Want(n) < 39)
    <3>1. size - Want(n) >= 39
      BY <2>3, <2>5
    <3>2. CarvesTop(m, top, n)
      BY <1>1, <2>1, <2>2, <3>1 DEF CarvesTop
    <3> QED BY <3>2, TidyCarves
  <2> QED BY <2>4, <2>5
<1> QED BY <1>3, <1>4

LEMMA TidyFree ==
  ASSUME ArenaAssumption, Whole, tidy, tidy \in BOOLEAN, Room \/ Full, NEW h \in DOMAIN held, Free(h), tidy'
  PROVE  intact' /\ Room'
<1>1. tidy' = (tidy /\ Last(order) = h /\ MergesBehind(TailOf(h, head[h].size)))
  BY Zenon DEF Free, Released
<1>2. Last(order) = h /\ MergesBehind(TailOf(h, head[h].size))
  BY <1>1, Zenon
<1>3. CASE Full
  <2>1. PICK n \in Nat \ {0} :
          /\ IsList(order, n) /\ DOMAIN held = {order[i] : i \in 1 .. n}
          /\ DOMAIN head = DOMAIN held
          /\ \A b \in DOMAIN head : b < Past(order[n])
    BY <1>3 DEF Full
  <2>2. order[n] = h
    <3>1. Len(order) = n
      BY <2>1, Listed DEF IsList
    <3> QED BY <1>2, <3>1 DEF Last
  <2>3. h \in Int /\ head[h].size \in Int
    BY DEF Whole, WholeBlocks, WholeHeads
  <2>4. TailOf(h, head[h].size) + 8 = Past(h)
    BY <2>3 DEF TailOf, Past, Overhead
  <2>5. Past(h) \in DOMAIN head /\ Past(h) < Past(h) /\ Past(h) \in Int
    BY <1>2, <2>1, <2>2, <2>3, <2>4 DEF MergesBehind, Past
  <2> QED BY <2>5
<1>4. CASE Room
  <2>1. PICK m, top : Placed(m, top) /\ Rest(m, top)
    BY <1>4 DEF Room
  <2>2. FreesTop(m, top, h)
    BY <1>2, <2>1 DEF FreesTop
  <2> QED BY <2>2, TidyFrees
<1> QED BY <1>3, <1>4

\* The stack starts with no blocks.
LEMMA InitStacked == ArenaAssumption /\ Init => Stacked
<1> SUFFICES ASSUME ArenaAssumption, Init PROVE intact /\ Room
  BY DEF Stacked
<1>1. /\ size = Capacity /\ order = <<>> /\ DOMAIN held = {} /\ intact
      /\ head = [a \in {0} |-> [size |-> Capacity, free |-> TRUE]]
      /\ DOMAIN tail = {TailOf(0, Capacity)}
  BY DEF Init
<1>2. Capacity \in Nat
  BY DEF ArenaAssumption
<1>3. Placed(0, 0)
  <2>1. IsList(order, 0) /\ 1 .. 0 = {}
    BY <1>1 DEF IsList
  <2> QED BY <1>1, <2>1 DEF Placed
<1>4. Rest(0, 0)
  <2>1. TailOf(0, Capacity) = 0 + Capacity - 15 /\ Capacity = Capacity - 0 - 7 * 0
    BY <1>2 DEF TailOf, Overhead
  <2>2. /\ head = [a \in DOMAIN head |-> head[a]] /\ DOMAIN head = {0}
        /\ head[0].size = Capacity /\ head[0].free = TRUE
        /\ head[0] = [size |-> Capacity, free |-> TRUE]
    BY <1>1
  <2> QED BY <1>1, <1>2, <2>1, <2>2 DEF Rest
<1> QED BY <1>1, <1>3, <1>4 DEF Room

\* The stack is one as long as blocks are given out in order and none is small.
LEMMA NextKeepsStacked ==
  ArenaAssumption /\ IntactWhole /\ Stacked /\ [Next]_vars => Stacked'
<1> SUFFICES ASSUME ArenaAssumption, IntactWhole, Stacked, [Next]_vars, tidy'
             PROVE  intact' /\ (Room' \/ Full')
  BY DEF Stacked
<1>1. CASE Next
  <2>1. Whole
    BY <1>1 DEF Next, IntactWhole
  <2>2. Requests \subseteq Nat
    BY DEF ArenaAssumption
  <2>3. ASSUME NEW n \in Requests, Alloc(n) PROVE intact' /\ (Room' \/ Full')
    <3>1. tidy' = (tidy /\ n >= MinSize)
      BY <2>3, Zenon DEF Alloc
    <3>2. tidy /\ n >= MinSize
      BY <3>1, Zenon
    <3> QED BY <2>1, <2>2, <2>3, <3>2, TidyAlloc DEF Stacked
  <2>4. ASSUME NEW h \in DOMAIN held, Free(h) PROVE intact' /\ (Room' \/ Full')
    <3>1. tidy' = (tidy /\ Last(order) = h /\ MergesBehind(TailOf(h, head[h].size)))
      BY <2>4, Zenon DEF Free, Released
    <3>2. tidy
      BY <3>1, Zenon
    <3> QED BY <2>1, <2>4, <3>2, TidyFree DEF Stacked
  <2>5. ASSUME NEW h \in DOMAIN held, FreeIgnored(h) PROVE FALSE
    BY <2>5 DEF FreeIgnored
  <2>6. ASSUME NEW h \in DOMAIN held, NEW n \in Requests, ReallocInPlace(h, n) PROVE FALSE
    BY <2>6 DEF ReallocInPlace
  <2>7. ASSUME NEW h \in DOMAIN held, NEW n \in Requests, ReallocMoves(h, n) PROVE FALSE
    BY <2>7 DEF ReallocMoves
  <2> QED BY <1>1, <2>3, <2>4, <2>5, <2>6, <2>7 DEF Next
<1>2. CASE UNCHANGED vars
  <2>1. UNCHANGED <<size, head, tail, held, order, tidy, intact>>
    BY <1>2 DEF vars, ghost
  <2>2. tidy /\ intact /\ (Room \/ Full)
    BY <2>1 DEF Stacked
  <2>3. Room => Room'
    <3>1. ASSUME NEW m, NEW top, Placed(m, top), Rest(m, top)
          PROVE  Placed(m, top)' /\ Rest(m, top)'
      BY <2>1, <3>1 DEF Placed, Rest, Past
    <3> QED BY <3>1 DEF Room
  <2>4. Full => Full'
    BY <2>1 DEF Full, Past
  <2> QED BY <2>1, <2>2, <2>3, <2>4
<1> QED BY <1>1, <1>2

\* When the last block is back the one behind it starts at 0.
LEMMA StackedRestores == ArenaAssumption /\ IntactWhole /\ Stacked => Restored
<1> SUFFICES ASSUME ArenaAssumption, IntactWhole, Stacked, tidy
             PROVE  /\ intact
                    /\ held = <<>> => /\ size = Capacity
                                      /\ freeList = <<0>>
                                      /\ head = [a \in {0} |-> [size |-> Capacity, free |-> TRUE]]
                                      /\ DOMAIN tail = {TailOf(0, Capacity)}
  BY DEF Restored
<1>1. intact /\ (Room \/ Full)
  BY DEF Stacked
<1>2. ASSUME held = <<>>
      PROVE  /\ size = Capacity
             /\ freeList = <<0>>
             /\ head = [a \in {0} |-> [size |-> Capacity, free |-> TRUE]]
             /\ DOMAIN tail = {TailOf(0, Capacity)}
  <2>1. DOMAIN held = {}
    BY <1>2
  <2>2. ~Full
    <3>1. \A n \in Nat \ {0} : 1 \in 1 .. n
      OBVIOUS
    <3>2. ASSUME NEW n \in Nat \ {0}, DOMAIN held = {order[i] : i \in 1 .. n} PROVE FALSE
      BY <2>1, <3>1, <3>2
    <3> QED BY <3>2 DEF Full
  <2>3. PICK m, top : Placed(m, top) /\ Rest(m, top)
    BY <1>1, <2>2 DEF Room
  <2>4. m = 0 /\ top = 0
    <3>1. m \in Nat /\ \A i \in 1 .. m : order[i] \in DOMAIN held
      BY <2>3 DEF Placed
    <3>2. m = 0
      <4>1. m >= 1 => 1 \in 1 .. m
        BY <3>1
      <4> QED BY <2>1, <3>1, <4>1
    <3> QED BY <2>3, <3>2 DEF Placed
  <2>5. freeList = <<0>>
    BY <1>1, <2>3, <2>4, OneFree DEF IntactWhole
  <2>6. /\ size \in Int /\ size = Capacity - 0 - 7 * 0
        /\ head = [a \in DOMAIN head |-> head[a]] /\ DOMAIN head = {0}
        /\ head[0] = [size |-> size, free |-> TRUE]
        /\ DOMAIN tail = {0 + size - 15}
    BY <2>1, <2>3, <2>4 DEF Rest
  <2>7. size = Capacity
    BY <2>6 DEF ArenaAssumption
  <2>8. TailOf(0, Capacity) = 0 + size - 15
    BY <2>6, <2>7 DEF TailOf, Overhead
  <2>9. head = [a \in {0} |-> [size |-> Capacity, free |-> TRUE]]
    BY <2>6, <2>7
  <2> QED BY <2>5, <2>6, <2>7, <2>8, <2>9
<1> QED BY <1>1, <1>2

LEMMA ArenaStaysStacked == ArenaAssumption => (Spec => [](IntactWhole /\ Stacked))
<1> SUFFICES ASSUME ArenaAssumption PROVE Spec => [](IntactWhole /\ Stacked)
  OBVIOUS
<1>1. Init => IntactWhole /\ Stacked
  BY InitWhole, InitStacked
<1>2. IntactWhole /\ Stacked /\ [Next]_vars => IntactWhole' /\ Stacked'
  BY NextKeepsWhole, NextKeepsStacked
<1> QED BY <1>1, <1>2, PTL DEF Spec

\* Blocks of at least MinSize bytes that come back newest first, each with a
\* header behind it, leave nothing behind: for every capacity, all requests and
\* any number of blocks no word is stored over, and the last of them restores
\* the arena to its one free block.
THEOREM StackAlwaysRestored == ArenaAssumption => (Spec => []Restored)
<1> SUFFICES ASSUME ArenaAssumption PROVE Spec => []Restored
  OBVIOUS
<1>1. IntactWhole /\ Stacked => Restored
  BY StackedRestores
<1> QED BY <1>1, ArenaStaysStacked, PTL

StackPromise == INSTANCE Heap WITH pool <- ArenaPool, live <- InUse, lost <- ~tidy

stackHeap == <<ArenaPool, InUse, ~tidy>>

\* Every call that keeps to the stack is a step of the heap.
LEMMA StackStepIsHeapStep ==
  ArenaAssumption /\ IntactWhole /\ IntactWhole' /\ Stacked' /\ [Next]_vars
    => [StackPromise!HeapNext]_stackHeap
<1> SUFFICES ASSUME ArenaAssumption, IntactWhole, IntactWhole', Stacked', [Next]_vars
             PROVE  [StackPromise!HeapNext]_stackHeap
  OBVIOUS
<1>1. ArenaPool' = ArenaPool
  BY DEF ArenaPool
<1>2. CASE ~tidy'
  BY <1>1, <1>2 DEF StackPromise!HeapNext
<1>3. CASE Next /\ tidy'
  <2>1. intact /\ intact'
    BY <1>3 DEF Next, Stacked
  <2>2. [ArenaPromise!HeapNext]_arenaHeap
    BY <1>3, ArenaStepIsHeapStep
  <2>3. CASE ArenaPromise!HeapNext
    <3>1. ArenaPromise!Allocate \/ ArenaPromise!Release \/ ArenaPromise!Exchange \/ ArenaPromise!Reset
      BY <2>1, <2>3 DEF ArenaPromise!HeapNext
    <3>2. StackPromise!Allocate \/ StackPromise!Release \/ StackPromise!Exchange \/ StackPromise!Reset
      BY <3>1 DEF ArenaPromise!Allocate, ArenaPromise!Release, ArenaPromise!Exchange,
                  ArenaPromise!Reset, ArenaPromise!Apart, StackPromise!Allocate,
                  StackPromise!Release, StackPromise!Exchange, StackPromise!Reset,
                  StackPromise!Apart
    <3> QED BY <1>1, <3>2 DEF StackPromise!HeapNext
  <2>4. CASE UNCHANGED arenaHeap
    <3>1. InUse' = InUse
      BY <2>4 DEF arenaHeap
    <3>2. tidy => UNCHANGED stackHeap
      BY <1>1, <1>3, <3>1 DEF stackHeap
    <3>3. ~tidy => StackPromise!HeapNext
      BY <1>1 DEF StackPromise!HeapNext
    <3> QED BY <3>2, <3>3
  <2> QED BY <2>2, <2>3, <2>4
<1>4. CASE UNCHANGED vars
  <2>1. held' = held /\ tidy' = tidy
    BY <1>4 DEF vars, ghost
  <2>2. InUse' = InUse
    BY <2>1 DEF InUse
  <2> QED BY <1>1, <2>1, <2>2 DEF stackHeap
<1> QED BY <1>2, <1>3, <1>4

\* Used as a stack the arena keeps the promise of an allocator, whatever its
\* capacity and the requests: nothing needs to be assumed of its words.
THEOREM StackImplementsHeap == ArenaAssumption => (Spec => StackPromise!HeapSpec)
<1> SUFFICES ASSUME ArenaAssumption PROVE Spec => StackPromise!HeapSpec
  OBVIOUS
<1>1. Init => StackPromise!HeapInit
  BY DEF Init, InUse, StackPromise!HeapInit
<1>2. IntactWhole /\ IntactWhole' /\ Stacked' /\ [Next]_vars => [StackPromise!HeapNext]_stackHeap
  BY StackStepIsHeapStep
<1> QED BY <1>1, <1>2, ArenaStaysStacked, PTL DEF Spec, StackPromise!HeapSpec, stackHeap

-----------------------------------------------------------------------------
(* The page allocator.  The sizes of its orders.                           *)

\* The size of an order is twice that of the one below.
LEMMA SizesAre ==
  ASSUME Paged!PageAssumption
  PROVE  /\ Paged!PagesOf[0] = 1
         /\ \A z \in 1 .. PageCount : Paged!PagesOf[z] = 2 * Paged!PagesOf[z - 1]
<1>1. PageCount \in Nat
  BY DEF Paged!PageAssumption
<1>2. PICK g : g = [n \in 1 .. PageCount |-> [k \in Nat |-> 2 * k]]
  OBVIOUS
<1>3. g \in [1 .. PageCount -> [Nat -> Nat]] /\ 1 \in Nat
  BY <1>2
<1>4. PICK f : Recurs(f, PageCount, Nat, 1, g)
  BY <1>1, <1>3, Recursion
<1>5. f = [z \in 0 .. PageCount |-> IF z = 0 THEN 1 ELSE 2 * f[z - 1]]
  <2>1. f \in [0 .. PageCount -> Nat] /\ f[0] = 1 /\ \A n \in 1 .. PageCount : f[n] = g[n][f[n - 1]]
    BY <1>4 DEF Recurs
  <2>2. ASSUME NEW z \in 0 .. PageCount PROVE f[z] = IF z = 0 THEN 1 ELSE 2 * f[z - 1]
    <3>1. CASE z = 0
      BY <2>1, <3>1
    <3>2. CASE z # 0
      <4>1. z \in 1 .. PageCount /\ z - 1 \in 0 .. PageCount
        BY <1>1, <3>2
      <4>2. f[z - 1] \in Nat
        BY <2>1, <4>1
      <4>3. f[z] = g[z][f[z - 1]] /\ g[z] = [k \in Nat |-> 2 * k]
        BY <1>2, <2>1, <4>1
      <4> QED BY <3>2, <4>2, <4>3
    <3> QED BY <3>1, <3>2
  <2> QED BY <2>1, <2>2
<1>6. Paged!PagesOf = [z \in 0 .. PageCount |-> IF z = 0 THEN 1 ELSE 2 * Paged!PagesOf[z - 1]]
  BY <1>5 DEF Paged!PagesOf
<1>7. 0 \in 0 .. PageCount /\ \A z \in 1 .. PageCount : z \in 0 .. PageCount /\ z # 0
  BY <1>1
<1>8. PICK h : h = Paged!PagesOf
  OBVIOUS
<1>9. h = [z \in 0 .. PageCount |-> IF z = 0 THEN 1 ELSE 2 * h[z - 1]]
  BY <1>6, <1>8
<1>10. h[0] = 1 /\ \A z \in 1 .. PageCount : h[z] = 2 * h[z - 1]
  BY <1>7, <1>9
<1> QED BY <1>8, <1>10

\* And it grows with the order.
LEMMA SizesGrow ==
  ASSUME Paged!PageAssumption
  PROVE  \A z \in 0 .. PageCount : Paged!PagesOf[z] \in Nat /\ Paged!PagesOf[z] >= z + 1
<1>1. PICK h : h = Paged!PagesOf
  OBVIOUS
<1>2. PageCount \in Nat
  BY DEF Paged!PageAssumption
<1>3. h[0] = 1 /\ \A z \in 1 .. PageCount : h[z] = 2 * h[z - 1]
  BY <1>1, SizesAre
<1> DEFINE P == {z \in Nat : h[z] \in Nat /\ h[z] >= z + 1}
<1>4. 0 \in P
  BY <1>3
<1>5. ASSUME NEW z \in 0 .. PageCount - 1, z \in P PROVE z + 1 \in P
  <2>1. z + 1 \in 1 .. PageCount /\ z + 1 - 1 = z
    BY <1>2
  <2>2. (z + 1) - 1 = z
    OBVIOUS
  <2>3. h[z + 1] = 2 * h[z]
    BY <1>3, <2>1, <2>2
  <2>4. PICK s \in Nat : s = h[z] /\ s >= z + 1
    BY <1>5
  <2>5. 2 * s \in Nat /\ 2 * s >= z + 1 + 1
    BY <2>4
  <2> QED BY <2>3, <2>4, <2>5
<1> HIDE DEF P
<1>6. 0 .. PageCount \subseteq P
  BY <1>2, <1>4, <1>5, InductionUpTo
<1> QED BY <1>1, <1>6 DEF P

\* The orders of a number of pages.
LEMMA OrdersAre ==
  ASSUME Paged!PageAssumption, NEW n \in 1 .. PageCount
  PROVE  /\ Paged!Log2(n) \in 0 .. PageCount - 1
         /\ Paged!OrderOf(n) \in 0 .. PageCount
         /\ n <= Paged!PagesOf[Paged!OrderOf(n)]
<1>1. PICK h : h = Paged!PagesOf
  OBVIOUS
<1>2. PageCount \in Nat
  BY DEF Paged!PageAssumption
<1>3. \A z \in 0 .. PageCount : h[z] \in Nat /\ h[z] >= z + 1
  BY <1>1, SizesGrow
<1>4. h[0] = 1 /\ \A z \in 1 .. PageCount : h[z] = 2 * h[z - 1]
  BY <1>1, SizesAre
<1> DEFINE S == {d \in 0 .. PageCount : h[d] <= n}
<1>5. PICK d \in S : \A e \in S : e <= d
  <2>1. 0 \in S
    BY <1>2, <1>4
  <2>2. S \subseteq 0 .. PageCount /\ S # {}
    BY <2>1
  <2> HIDE DEF S
  <2> QED BY <1>2, <2>2, Greatest
<1>6. d \in 0 .. PageCount - 1
  <2>1. d # PageCount
    <3>1. h[PageCount] >= PageCount + 1 /\ h[PageCount] \in Nat
      BY <1>2, <1>3
    <3> QED BY <1>2, <1>5, <3>1
  <2> QED BY <1>2, <1>5, <2>1
<1>7. n < 2 * h[d]
  <2>1. d + 1 \in 1 .. PageCount /\ d + 1 \in 0 .. PageCount /\ (d + 1) - 1 = d
    BY <1>2, <1>6
  <2>2. h[d + 1] = 2 * h[d]
    BY <1>4, <2>1
  <2>3. ~ (h[d + 1] <= n)
    <3>1. d + 1 \notin S
      BY <1>5, <1>6
    <3> QED BY <2>1, <3>1
  <2>4. h[d + 1] \in Nat
    BY <1>3, <2>1
  <2> QED BY <2>2, <2>3, <2>4
<1>8. PICK l : l = Paged!Log2(n)
  OBVIOUS
<1>9. l \in 0 .. PageCount /\ h[l] <= n /\ n < 2 * h[l]
  <2>1. d \in 0 .. PageCount /\ h[d] <= n /\ n < 2 * h[d]
    BY <1>5, <1>7
  <2>2. l = CHOOSE e \in 0 .. PageCount : h[e] <= n /\ n < 2 * h[e]
    BY <1>1, <1>8 DEF Paged!Log2
  <2> QED BY <2>1, <2>2
<1>10. l # PageCount
  <2>1. h[PageCount] >= PageCount + 1 /\ h[PageCount] \in Nat
    BY <1>2, <1>3
  <2> QED BY <1>2, <1>9, <2>1
<1>11. l \in 0 .. PageCount - 1
  BY <1>2, <1>9, <1>10
<1>12. PICK o : o = Paged!OrderOf(n)
  OBVIOUS
<1>13. o = l + IF h[l] = n THEN 0 ELSE 1
  BY <1>1, <1>8, <1>12 DEF Paged!OrderOf, Paged!CeilLog2
<1>14. o \in 0 .. PageCount /\ n <= h[o]
  <2>1. CASE h[l] = n
    <3>1. o = l
      BY <1>11, <1>13, <2>1
    <3> QED BY <1>9, <2>1, <3>1
  <2>2. CASE h[l] # n
    <3>1. o = l + 1
      BY <1>13, <2>2
    <3>2. l + 1 \in 1 .. PageCount /\ l + 1 \in 0 .. PageCount /\ (l + 1) - 1 = l
      BY <1>2, <1>11
    <3>3. h[l + 1] = 2 * h[l]
      BY <1>4, <3>2
    <3>4. h[l + 1] \in Nat
      BY <1>3, <3>2
    <3> QED BY <1>9, <3>1, <3>2, <3>3, <3>4
  <2> QED BY <2>1, <2>2
<1> QED BY <1>1, <1>8, <1>11, <1>12, <1>14

LEMMA OrderIs ==
  ASSUME Paged!PageAssumption
  PROVE  /\ PageCount \in Nat /\ Paged!MaxOrder \in Nat /\ Paged!MaxOrder <= PageCount
         /\ Paged!Order = 0 .. Paged!MaxOrder
         /\ \A z \in Paged!Order : z \in 0 .. PageCount /\ Paged!PagesOf[z] \in Nat \ {0}
<1>1. PageCount \in Nat \ {0}
  BY DEF Paged!PageAssumption
<1>2. PageCount \in 1 .. PageCount
  BY <1>1
<1>3. Paged!Log2(PageCount) \in 0 .. PageCount - 1
  BY <1>2, OrdersAre
<1>4. Paged!MaxOrder \in 0 .. PageCount - 1
  BY <1>3 DEF Paged!MaxOrder
<1>5. Paged!MaxOrder \in Nat /\ Paged!MaxOrder <= PageCount
  BY <1>1, <1>4
<1>6. Paged!Order = 0 .. Paged!MaxOrder
  BY DEF Paged!Order
<1>7. ASSUME NEW z \in Paged!Order PROVE z \in 0 .. PageCount /\ Paged!PagesOf[z] \in Nat \ {0}
  <2>1. z \in 0 .. PageCount
    BY <1>1, <1>5, <1>6
  <2>2. Paged!PagesOf[z] \in Nat /\ Paged!PagesOf[z] >= z + 1
    BY <2>1, SizesGrow
  <2> QED BY <2>1, <2>2
<1> QED BY <1>1, <1>5, <1>6, <1>7

-----------------------------------------------------------------------------
(* Its lists.                                                              *)

PageNumbers == 1 .. PageCount

\* m pages from a on and n from b on have none in common.
Away(a, m, b, n) == a + m <= b \/ b + n <= a

\* The blocks on the lists are in the pool, and each has pages of its own.
Laid(zs) ==
  /\ zs \in [Paged!Order -> Seq(PageNumbers)]
  /\ \A z \in Paged!Order : \A i \in 1 .. Len(zs[z]) : zs[z][i] + Paged!PagesOf[z] <= PageCount + 1
  /\ \A y, z \in Paged!Order : \A i \in 1 .. Len(zs[y]), j \in 1 .. Len(zs[z]) :
       y # z \/ i # j => Away(zs[y][i], Paged!PagesOf[y], zs[z][j], Paged!PagesOf[z])

\* None of them has any of the m pages from a on.
ClearOf(zs, a, m) ==
  \A z \in Paged!Order : \A i \in 1 .. Len(zs[z]) : Away(zs[z][i], Paged!PagesOf[z], a, m)

\* A block put at the end of a list.
PutAt(new, zs, z, b) ==
  /\ new \in [Paged!Order -> Seq(PageNumbers)]
  /\ \A y \in Paged!Order : y # z => new[y] = zs[y]
  /\ Len(new[z]) = Len(zs[z]) + 1 /\ new[z][Len(zs[z]) + 1] = b
  /\ \A i \in 1 .. Len(zs[z]) : new[z][i] = zs[z][i]

LEMMA PutIs ==
  ASSUME NEW zs \in [Paged!Order -> Seq(PageNumbers)], NEW z \in Paged!Order, NEW b \in PageNumbers,
         NEW new, new = [zs EXCEPT ![z] = Append(zs[z], b)]
  PROVE  PutAt(new, zs, z, b)
<1>1. PICK l \in Seq(PageNumbers) : l = zs[z]
  OBVIOUS
<1>2. PICK k : k = Append(l, b)
  OBVIOUS
<1>3. /\ k \in Seq(PageNumbers) /\ Len(k) = Len(l) + 1 /\ k[Len(l) + 1] = b
      /\ \A i \in 1 .. Len(l) : k[i] = l[i]
  BY <1>2, Appended
<1>4. new = [zs EXCEPT ![z] = k]
  BY <1>1, <1>2
<1>5. new \in [Paged!Order -> Seq(PageNumbers)] /\ new[z] = k
      /\ \A y \in Paged!Order : y # z => new[y] = zs[y]
  BY <1>3, <1>4
<1> QED BY <1>1, <1>3, <1>5 DEF PutAt

LEMMA PutStaysLaid ==
  ASSUME Paged!PageAssumption, NEW zs, Laid(zs), NEW z \in Paged!Order, NEW b \in PageNumbers,
         b + Paged!PagesOf[z] <= PageCount + 1, ClearOf(zs, b, Paged!PagesOf[z]),
         NEW new, PutAt(new, zs, z, b)
  PROVE  /\ Laid(new)
         /\ \A a, m \in Nat : ClearOf(zs, a, m) /\ Away(b, Paged!PagesOf[z], a, m) => ClearOf(new, a, m)
<1>1. PICK h : h = Paged!PagesOf
  OBVIOUS
<1>2. PICK n \in Nat : n = Len(zs[z])
  BY DEF Laid
<1>3. ASSUME NEW y \in Paged!Order, NEW i \in 1 .. Len(new[y])
      PROVE  \/ i \in 1 .. Len(zs[y]) /\ new[y][i] = zs[y][i]
             \/ y = z /\ i = n + 1 /\ new[y][i] = b
  <2>1. CASE y = z
    <3>1. i \in 1 .. n + 1
      BY <1>2, <2>1 DEF PutAt
    <3>2. i \in 1 .. n \/ i = n + 1
      BY <3>1
    <3> QED BY <1>2, <2>1, <3>2 DEF PutAt
  <2>2. CASE y # z
    BY <2>2 DEF PutAt
  <2> QED BY <2>1, <2>2
<1>4. ASSUME NEW y \in Paged!Order, NEW i \in 1 .. Len(new[y])
      PROVE  new[y][i] + h[y] <= PageCount + 1
  BY <1>1, <1>3 DEF Laid
<1>5. ASSUME NEW x \in Paged!Order, NEW y \in Paged!Order,
             NEW i \in 1 .. Len(new[x]), NEW j \in 1 .. Len(new[y]), x # y \/ i # j
      PROVE  Away(new[x][i], h[x], new[y][j], h[y])
  <2>1. CASE i \in 1 .. Len(zs[x]) /\ new[x][i] = zs[x][i] /\ j \in 1 .. Len(zs[y]) /\ new[y][j] = zs[y][j]
    <3>1. Away(zs[x][i], h[x], zs[y][j], h[y])
      BY <1>1, <1>5, <2>1 DEF Laid
    <3> QED BY <2>1, <3>1
  <2>2. CASE i \in 1 .. Len(zs[x]) /\ new[x][i] = zs[x][i] /\ y = z /\ j = n + 1 /\ new[y][j] = b
    <3>1. Away(zs[x][i], h[x], b, h[z])
      BY <1>1, <2>2 DEF ClearOf
    <3> QED BY <2>2, <3>1
  <2>3. CASE x = z /\ i = n + 1 /\ new[x][i] = b /\ j \in 1 .. Len(zs[y]) /\ new[y][j] = zs[y][j]
    <3>1. Away(zs[y][j], h[y], b, h[z])
      BY <1>1, <2>3 DEF ClearOf
    <3> QED BY <2>3, <3>1 DEF Away
  <2>4. CASE x = z /\ i = n + 1 /\ y = z /\ j = n + 1
    BY <1>5, <2>4
  <2> QED BY <1>3, <2>1, <2>2, <2>3, <2>4
<1>6. Laid(new)
  BY <1>1, <1>4, <1>5 DEF Laid, PutAt
<1>7. ASSUME NEW a \in Nat, NEW m \in Nat, ClearOf(zs, a, m), Away(b, h[z], a, m)
      PROVE  ClearOf(new, a, m)
  <2>1. ASSUME NEW y \in Paged!Order, NEW i \in 1 .. Len(new[y])
        PROVE  Away(new[y][i], h[y], a, m)
    <3>1. CASE i \in 1 .. Len(zs[y]) /\ new[y][i] = zs[y][i]
      BY <1>1, <1>7, <3>1 DEF ClearOf
    <3>2. CASE y = z /\ new[y][i] = b
      BY <1>7, <3>2
    <3> QED BY <1>3, <3>1, <3>2
  <2> QED BY <1>1, <2>1 DEF ClearOf
<1> QED BY <1>1, <1>6, <1>7

\* A list without its k-th element.
Lacks(t, s, C, k) ==
  /\ t \in Seq(C) /\ Len(t) = Len(s) - 1
  /\ \A i \in 1 .. Len(s) - 1 : t[i] = IF i < k THEN s[i] ELSE s[i + 1]

LEMMA Without ==
  ASSUME NEW C, NEW s, s \in Seq(C), NEW k, k \in 1 .. Len(s),
         NEW t, t = SubSeq(s, 1, k - 1) \o SubSeq(s, k + 1, Len(s))
  PROVE  Lacks(t, s, C, k)
<1>1. PICK n \in Nat : n = Len(s)
  OBVIOUS
<1>2. PICK f : f = SubSeq(s, 1, k - 1)
  OBVIOUS
<1>3. PICK g : g = SubSeq(s, k + 1, Len(s))
  OBVIOUS
<1>4. k \in 1 .. n
  BY <1>1
<1>5. f \in Seq(C) /\ Len(f) = k - 1 /\ \A i \in 1 .. k - 1 : f[i] = s[i]
  BY <1>1, <1>2, <1>4
<1>6. g \in Seq(C) /\ Len(g) = n - k /\ \A i \in 1 .. n - k : g[i] = s[k + i]
  BY <1>1, <1>3, <1>4
<1>7. PICK p \in Nat : p = k - 1
  BY <1>4
<1>8. PICK q \in Nat : q = n - k /\ Len(g) = q /\ \A j \in 1 .. q : g[j] = s[k + j]
  BY <1>4, <1>6
<1>9. /\ t \in Seq(C) /\ Len(t) = p + q
      /\ \A j \in 1 .. p : t[j] = f[j]
      /\ \A j \in 1 .. q : t[p + j] = g[j]
  <2>1. t = f \o g
    BY <1>2, <1>3, Zenon
  <2>2. Len(f) = p
    BY <1>5, <1>7, Zenon
  <2>3. f \in Seq(C) /\ g \in Seq(C)
    BY <1>5, <1>6, Zenon
  <2>4. /\ f \o g \in Seq(C) /\ Len(f \o g) = Len(f) + Len(g)
        /\ \A j \in 1 .. Len(f) : (f \o g)[j] = f[j]
        /\ \A j \in 1 .. Len(g) : (f \o g)[Len(f) + j] = g[j]
    BY <2>3
  <2>5. Len(g) = q
    BY <1>8
  <2> QED BY <2>1, <2>2, <2>4, <2>5, <1>8
<1>10. ASSUME NEW i \in 1 .. n - 1 PROVE t[i] = IF i < k THEN s[i] ELSE s[i + 1]
  <2>1. CASE i < k
    <3>1. i \in 1 .. p /\ i \in 1 .. k - 1
      BY <1>7, <2>1
    <3> QED BY <1>5, <1>9, <2>1, <3>1
  <2>2. CASE ~ (i < k)
    <3>1. i - p \in 1 .. n - k /\ p + (i - p) = i /\ k + (i - p) = i + 1
      BY <1>4, <1>7, <2>2
    <3>2. t[p + (i - p)] = g[i - p] /\ g[i - p] = s[k + (i - p)]
      BY <1>8, <1>9, <3>1
    <3> QED BY <2>2, <3>1, <3>2
  <2> QED BY <2>1, <2>2
<1>11. Len(t) = n - 1
  <2>1. p + q = n - 1
    BY <1>4, <1>7, <1>8
  <2> QED BY <1>9, <2>1, Zenon
<1> QED BY <1>1, <1>9, <1>10, <1>11 DEF Lacks

\* A block taken off a list.
Off(new, zs, z, k) ==
  /\ new \in [Paged!Order -> Seq(PageNumbers)]
  /\ \A y \in Paged!Order : y # z => new[y] = zs[y]
  /\ Len(new[z]) = Len(zs[z]) - 1
  /\ \A i \in 1 .. Len(zs[z]) - 1 : new[z][i] = IF i < k THEN zs[z][i] ELSE zs[z][i + 1]

LEMMA OffIs ==
  ASSUME NEW zs \in [Paged!Order -> Seq(PageNumbers)], NEW z \in Paged!Order, NEW k \in 1 .. Len(zs[z]),
         NEW new, new = [zs EXCEPT ![z] = RemoveAt(zs[z], k)]
  PROVE  Off(new, zs, z, k)
<1>1. PICK l \in Seq(PageNumbers) : l = zs[z]
  OBVIOUS
<1>2. PICK t : t = SubSeq(l, 1, k - 1) \o SubSeq(l, k + 1, Len(l))
  OBVIOUS
<1>3. Lacks(t, l, PageNumbers, k)
  <2>1. k \in 1 .. Len(l)
    BY <1>1
  <2> QED BY <1>2, <2>1, Without
<1>4. new = [zs EXCEPT ![z] = t]
  BY <1>1, <1>2 DEF RemoveAt
<1>5. new \in [Paged!Order -> Seq(PageNumbers)] /\ new[z] = t
      /\ \A y \in Paged!Order : y # z => new[y] = zs[y]
  BY <1>3, <1>4 DEF Lacks
<1> QED BY <1>1, <1>3, <1>5 DEF Off, Lacks

LEMMA OffStaysLaid ==
  ASSUME NEW zs, Laid(zs), NEW z \in Paged!Order, NEW k \in 1 .. Len(zs[z]), NEW new, Off(new, zs, z, k)
  PROVE  /\ Laid(new) /\ ClearOf(new, zs[z][k], Paged!PagesOf[z])
         /\ \A a, m \in Nat : ClearOf(zs, a, m) => ClearOf(new, a, m)
<1>1. PICK h : h = Paged!PagesOf
  OBVIOUS
<1>2. PICK n \in Nat : n = Len(zs[z])
  BY DEF Laid
<1>3. k \in 1 .. n
  BY <1>2
<1> DEFINE From(y, i) == IF y # z \/ i < k THEN i ELSE i + 1
<1>4. ASSUME NEW y \in Paged!Order, NEW i \in 1 .. Len(new[y])
      PROVE  /\ From(y, i) \in 1 .. Len(zs[y]) /\ new[y][i] = zs[y][From(y, i)]
             /\ y # z \/ From(y, i) # k
  <2>1. CASE y = z
    <3>1. i \in 1 .. n - 1
      BY <1>2, <2>1 DEF Off
    <3>2. CASE i < k
      <4>1. i \in 1 .. n /\ i # k
        BY <3>1, <3>2
      <4> QED BY <1>2, <2>1, <3>1, <3>2, <4>1 DEF Off
    <3>3. CASE ~ (i < k)
      <4>1. i + 1 \in 1 .. n /\ i + 1 # k
        BY <1>3, <3>1, <3>3
      <4> QED BY <1>2, <2>1, <3>1, <3>3, <4>1 DEF Off
    <3> QED BY <3>2, <3>3
  <2>2. CASE y # z
    BY <2>2 DEF Off
  <2> QED BY <2>1, <2>2
<1>5. \A y : \A i, j \in Int : i # j => From(y, i) # From(y, j)
  BY <1>3
<1> HIDE DEF From
<1>6. ASSUME NEW y \in Paged!Order, NEW i \in 1 .. Len(new[y])
      PROVE  new[y][i] + h[y] <= PageCount + 1
  BY <1>1, <1>4 DEF Laid
<1>7. ASSUME NEW x \in Paged!Order, NEW y \in Paged!Order,
             NEW i \in 1 .. Len(new[x]), NEW j \in 1 .. Len(new[y]), x # y \/ i # j
      PROVE  Away(new[x][i], h[x], new[y][j], h[y])
  <2>1. x # y \/ From(x, i) # From(y, j)
    BY <1>5, <1>7
  <2>2. Away(zs[x][From(x, i)], h[x], zs[y][From(y, j)], h[y])
    BY <1>1, <1>4, <2>1 DEF Laid
  <2> QED BY <1>4, <2>2
<1>8. Laid(new)
  BY <1>1, <1>6, <1>7 DEF Laid, Off
<1>9. ASSUME NEW y \in Paged!Order, NEW i \in 1 .. Len(new[y])
      PROVE  Away(new[y][i], h[y], zs[z][k], h[z])
  <2>1. Away(zs[y][From(y, i)], h[y], zs[z][k], h[z])
    BY <1>1, <1>4 DEF Laid
  <2> QED BY <1>4, <2>1
<1>10. ASSUME NEW a \in Nat, NEW m \in Nat, ClearOf(zs, a, m) PROVE ClearOf(new, a, m)
  <2>1. ASSUME NEW y \in Paged!Order, NEW i \in 1 .. Len(new[y])
        PROVE  Away(new[y][i], h[y], a, m)
    BY <1>1, <1>4, <1>10 DEF ClearOf
  <2> QED BY <1>1, <2>1 DEF ClearOf
<1> QED BY <1>1, <1>8, <1>9, <1>10 DEF ClearOf

-----------------------------------------------------------------------------
(* Pages dealt out.                                                        *)

LEMMA InsertedIs ==
  ASSUME NEW s, s.zones \in [Paged!Order -> Seq(PageNumbers)], NEW z, z \in Paged!Order,
         NEW b, b \in PageNumbers, NEW prev, NEW e, e = Paged!Inserted(s, z, b, prev)
  PROVE  PutAt(e.zones, s.zones, z, b)
<1>1. PICK zs : zs = s.zones
  OBVIOUS
<1>2. e.zones = [s.zones EXCEPT ![z] = Append(s.zones[z], b)]
  BY DEF Paged!Inserted
<1>3. PICK new : new = e.zones
  OBVIOUS
<1>4. new = [zs EXCEPT ![z] = Append(zs[z], b)]
  BY <1>1, <1>2, <1>3
<1>5. PutAt(new, zs, z, b)
  BY <1>1, <1>4, PutIs
<1> QED BY <1>1, <1>3, <1>5

\* With lists zs to begin with, m pages from lo on have been dealt out up to
\* d.at: nothing else has been put on the lists.
Dealing(d, zs, lo, m) ==
  /\ d.left \in Nat /\ d.at \in Nat /\ lo <= d.at /\ d.at + d.left = lo + m
  /\ Laid(d.s.zones) /\ ClearOf(d.s.zones, d.at, d.left)
  /\ \A a, n \in Nat : Away(lo, m, a, n) /\ ClearOf(zs, a, n) => ClearOf(d.s.zones, a, n)

LEMMA DealGoes ==
  ASSUME Paged!PageAssumption, NEW zs, NEW lo, lo \in Nat \ {0}, NEW m, m \in Nat, lo + m <= PageCount + 1,
         NEW z, z \in Paged!Order, NEW d, Dealing(d, zs, lo, m), NEW e, e = Paged!Deal(d, z)
  PROVE  Dealing(e, zs, lo, m)
<1>1. PICK p : p = Paged!PagesOf[z]
  OBVIOUS
<1>2. p \in Nat \ {0} /\ PageCount \in Nat
  BY <1>1, OrderIs
<1>3. CASE d.left < p
  BY <1>1, <1>3 DEF Paged!Deal
<1>4. CASE ~ (d.left < p)
  <2>1. PICK s : s = d.s
    OBVIOUS
  <2>2. PICK at \in Nat : at = d.at
    BY DEF Dealing
  <2>3. PICK left \in Nat : left = d.left
    BY DEF Dealing
  <2>4. lo <= at /\ at + left = lo + m /\ left >= p
    BY <1>2, <1>4, <2>2, <2>3 DEF Dealing
  <2>5. PICK f : f = Paged!Inserted(s, z, at, d.prev)
    OBVIOUS
  <2>6. e = [s |-> f, left |-> left - p, at |-> at + p, prev |-> at]
    BY <1>1, <1>4, <2>1, <2>2, <2>3, <2>5 DEF Paged!Deal
  <2>7. at \in PageNumbers /\ at + p <= PageCount + 1
    BY <1>2, <2>4 DEF PageNumbers
  <2>8. PICK ls : ls = s.zones
    OBVIOUS
  <2>9. Laid(ls) /\ ClearOf(ls, at, left)
    BY <2>1, <2>2, <2>3, <2>8 DEF Dealing
  <2>10. PICK ns : ns = f.zones
    OBVIOUS
  <2>11. PutAt(ns, ls, z, at)
    <3>1. s.zones \in [Paged!Order -> Seq(PageNumbers)]
      BY <2>8, <2>9 DEF Laid
    <3>2. PutAt(f.zones, s.zones, z, at)
      BY <2>5, <2>7, <3>1, InsertedIs
    <3> QED BY <2>8, <2>10, <3>2
  <2>12. \A y \in Paged!Order : \A i \in 1 .. Len(ls[y]) :
           ls[y][i] \in Nat /\ Paged!PagesOf[y] \in Nat
    BY <2>9, OrderIs, SMTT(60) DEF Laid, PageNumbers
  <2>13. ClearOf(ls, at, p)
    BY <1>2, <2>4, <2>9, <2>12, SMTT(60) DEF ClearOf, Away
  <2>14. /\ Laid(ns)
         /\ \A a, n \in Nat : ClearOf(ls, a, n) /\ Away(at, p, a, n) => ClearOf(ns, a, n)
    BY <1>1, <2>7, <2>9, <2>11, <2>13, PutStaysLaid
  <2>15. ClearOf(ls, at + p, left - p)
    BY <1>2, <2>4, <2>9, <2>12 DEF ClearOf, Away
  <2>16. ClearOf(ns, at + p, left - p)
    <3>1. at + p \in Nat /\ left - p \in Nat /\ Away(at, p, at + p, left - p)
      BY <1>2, <2>4 DEF Away
    <3> QED BY <2>14, <2>15, <3>1
  <2>17. ASSUME NEW a \in Nat, NEW n \in Nat, Away(lo, m, a, n), ClearOf(zs, a, n)
         PROVE  ClearOf(ns, a, n)
    <3>1. ClearOf(ls, a, n)
      BY <2>1, <2>8, <2>17 DEF Dealing
    <3>2. Away(at, p, a, n)
      BY <1>2, <2>4, <2>17 DEF Away
    <3> QED BY <2>14, <3>1, <3>2
  <2>18. e.s.zones = ns /\ e.left = left - p /\ e.at = at + p
    BY <2>6, <2>10
  <2>19. left - p \in Nat /\ at + p \in Nat /\ lo <= at + p /\ (at + p) + (left - p) = lo + m
    BY <1>2, <2>4
  <2> QED BY <2>14, <2>16, <2>17, <2>18, <2>19 DEF Dealing
<1> QED BY <1>3, <1>4

\* The orders are gone through one by one.
Deals(f, k, z, start) ==
  f = [n \in 0 .. k |-> IF n = 0 THEN start ELSE Paged!Deal(f[n - 1], z + 1 - n)]

LEMMA DealsOn ==
  ASSUME NEW m \in Nat, NEW z, NEW start
  PROVE  \E f : Deals(f, m, z, start)
<1> DEFINE P == {k \in Nat : \E f : Deals(f, k, z, start)}
<1>1. 0 \in P
  <2>1. PICK f : f = [n \in 0 .. 0 |-> start]
    OBVIOUS
  <2>2. f = [n \in 0 .. 0 |-> IF n = 0 THEN start ELSE Paged!Deal(f[n - 1], z + 1 - n)]
    BY <2>1
  <2> QED BY <2>2 DEF Deals
<1>2. ASSUME NEW k \in 0 .. m - 1, k \in P PROVE k + 1 \in P
  <2>1. PICK f : Deals(f, k, z, start)
    BY <1>2
  <2>2. PICK last : last = Paged!Deal(f[k], z + 1 - (k + 1))
    OBVIOUS
  <2>3. PICK g : g = [n \in 0 .. k + 1 |-> IF n = k + 1 THEN last ELSE f[n]]
    OBVIOUS
  <2>4. (\A n \in 0 .. k : g[n] = f[n]) /\ g[k + 1] = last
    BY <2>3
  <2>5. ASSUME NEW n \in 0 .. k + 1
        PROVE  g[n] = IF n = 0 THEN start ELSE Paged!Deal(g[n - 1], z + 1 - n)
    <3>1. CASE n = k + 1
      <4>1. n # 0 /\ n - 1 = k /\ k \in 0 .. k
        BY <3>1
      <4>2. g[n - 1] = f[k]
        BY <2>4, <4>1
      <4> QED BY <2>2, <2>4, <3>1, <4>1, <4>2
    <3>2. CASE n # k + 1
      <4>1. n \in 0 .. k /\ (n # 0 => n - 1 \in 0 .. k)
        BY <3>2
      <4>2. f[n] = IF n = 0 THEN start ELSE Paged!Deal(f[n - 1], z + 1 - n)
        BY <2>1, <4>1 DEF Deals
      <4>3. n # 0 => g[n - 1] = f[n - 1]
        BY <2>4, <4>1
      <4> QED BY <2>4, <4>1, <4>2, <4>3
    <3> QED BY <3>1, <3>2
  <2>6. g = [n \in 0 .. k + 1 |-> g[n]]
    BY <2>3
  <2>7. Deals(g, k + 1, z, start)
    BY <2>5, <2>6 DEF Deals
  <2> QED BY <2>7
<1> HIDE DEF P
<1>3. 0 .. m \subseteq P
  BY <1>1, <1>2, InductionUpTo
<1>4. m \in P
  BY <1>3
<1> QED BY <1>4 DEF P

\* All of them.
DealtTo(new, zs, lo, m) ==
  /\ Laid(new)
  /\ \A a, n \in Nat : Away(lo, m, a, n) /\ ClearOf(zs, a, n) => ClearOf(new, a, n)

LEMMA DealtIs ==
  ASSUME Paged!PageAssumption, NEW s, NEW z, z \in Paged!Order,
         NEW m, m \in Nat, NEW lo, lo \in Nat \ {0}, lo + m <= PageCount + 1,
         NEW prev, Laid(s.zones), ClearOf(s.zones, lo, m),
         NEW e, e = Paged!Dealt(s, z, m, lo, prev)
  PROVE  DealtTo(e.zones, s.zones, lo, m)
<1>1. PICK start : start = [s |-> s, left |-> m, at |-> lo, prev |-> prev]
  OBVIOUS
<1>2. PICK after : after = CHOOSE f : Deals(f, z + 1, z, start)
  OBVIOUS
<1>3. e = after[z + 1].s
  BY <1>1, <1>2 DEF Paged!Dealt, Deals
<1>4. z \in Nat /\ z <= Paged!MaxOrder /\ Paged!Order = 0 .. Paged!MaxOrder /\ Paged!MaxOrder \in Nat
  BY OrderIs
<1>5. Deals(after, z + 1, z, start)
  BY <1>2, <1>4, DealsOn
<1>6. PICK zs : zs = s.zones
  OBVIOUS
<1> DEFINE P == {n \in Nat : Dealing(after[n], zs, lo, m)}
<1>7. 0 \in P
  <2>1. after[0] = start
    BY <1>4, <1>5 DEF Deals
  <2>2. Dealing(start, zs, lo, m)
    BY <1>1, <1>6 DEF Dealing
  <2> QED BY <2>1, <2>2
<1>8. ASSUME NEW n \in 0 .. (z + 1) - 1, n \in P PROVE n + 1 \in P
  <2>1. n + 1 \in 0 .. z + 1 /\ n + 1 # 0 /\ (n + 1) - 1 = n /\ z + 1 - (n + 1) \in Paged!Order
    BY <1>4
  <2>2. after[n + 1] = Paged!Deal(after[n], z + 1 - (n + 1))
    BY <1>5, <2>1 DEF Deals
  <2>3. PICK d : d = after[n]
    OBVIOUS
  <2>4. Dealing(d, zs, lo, m)
    BY <1>8, <2>3
  <2>5. PICK x : x = Paged!Deal(d, z + 1 - (n + 1))
    OBVIOUS
  <2>6. Dealing(x, zs, lo, m)
    BY <2>1, <2>4, <2>5, DealGoes
  <2>7. after[n + 1] = x
    BY <2>2, <2>3, <2>5
  <2> QED BY <2>6, <2>7
<1> HIDE DEF P
<1>9. 0 .. z + 1 \subseteq P
  BY <1>4, <1>7, <1>8, InductionUpTo
<1>10. z + 1 \in P
  BY <1>4, <1>9
<1>11. PICK end : end = after[z + 1]
  OBVIOUS
<1>12. Dealing(end, zs, lo, m)
  BY <1>10, <1>11 DEF P
<1> QED BY <1>3, <1>6, <1>11, <1>12 DEF DealtTo, Dealing

-----------------------------------------------------------------------------
(* Pages taken back.                                                       *)

LEMMA TakenIs ==
  ASSUME NEW s, s.zones \in [Paged!Order -> Seq(PageNumbers)], NEW z, z \in Paged!Order,
         NEW k, k \in 1 .. Len(s.zones[z]), NEW e, e = Paged!Taken(s, z, k)
  PROVE  Off(e.zones, s.zones, z, k)
<1>1. PICK zs : zs = s.zones
  OBVIOUS
<1>2. PICK new : new = e.zones
  OBVIOUS
<1>3. new = [zs EXCEPT ![z] = RemoveAt(zs[z], k)]
  BY <1>1, <1>2 DEF Paged!Taken, Paged!RemoveAt, RemoveAt
<1>4. Off(new, zs, z, k)
  BY <1>1, <1>3, OffIs
<1> QED BY <1>1, <1>2, <1>4

\* What is on the lists was on them before.
Lessened(new, zs) ==
  /\ Laid(new)
  /\ \A a, n \in Nat : ClearOf(zs, a, n) => ClearOf(new, a, n)

LEMMA SmallestIs ==
  ASSUME NEW S, S \subseteq Nat, S # {}
  PROVE  Paged!Min(S) \in S /\ \A k \in S : Paged!Min(S) <= k
<1>1. \E m \in S : \A k \in S : m <= k
  BY Least
<1> QED BY <1>1 DEF Paged!Min

LEMMA CoalesceGoes ==
  ASSUME NEW zs, NEW z, z \in Paged!Order, NEW c, Lessened(c.s.zones, zs),
         NEW e, e = Paged!Coalesce(c, z)
  PROVE  Lessened(e.s.zones, zs)
<1>1. PICK s : s = c.s
  OBVIOUS
<1>2. PICK ls : ls = s.zones
  OBVIOUS
<1>3. Lessened(ls, zs) /\ ls \in [Paged!Order -> Seq(PageNumbers)]
  BY <1>1, <1>2 DEF Lessened, Laid
<1>4. PICK B : B = Paged!Buddies(s, z, c.last)
  OBVIOUS
<1>5. PICK n : n = Paged!Min(B)
  OBVIOUS
<1>6. e.s = s \/ (B # {} /\ e.s = Paged!Taken(s, z, n))
  <2>1. CASE c.holes \/ c.left < Paged!PagesOf[z]
    BY <1>1, <2>1 DEF Paged!Coalesce
  <2>2. CASE ~ (c.holes \/ c.left < Paged!PagesOf[z]) /\ B = {}
    BY <1>1, <1>4, <2>2 DEF Paged!Coalesce
  <2>3. CASE ~ (c.holes \/ c.left < Paged!PagesOf[z]) /\ B # {}
    BY <1>1, <1>4, <1>5, <2>3 DEF Paged!Coalesce
  <2> QED BY <2>1, <2>2, <2>3
<1>7. CASE e.s = s
  BY <1>2, <1>3, <1>7
<1>8. CASE B # {} /\ e.s = Paged!Taken(s, z, n)
  <2>1. B \subseteq 1 .. Len(ls[z]) /\ Len(ls[z]) \in Nat
    BY <1>2, <1>3, <1>4 DEF Paged!Buddies
  <2>2. B \subseteq Nat
    BY <2>1
  <2>3. n \in B
    BY <1>5, <1>8, <2>2, SmallestIs
  <2>4. n \in 1 .. Len(ls[z])
    BY <2>1, <2>3
  <2>5. PICK f : f = Paged!Taken(s, z, n)
    OBVIOUS
  <2>6. PICK new : new = f.zones
    OBVIOUS
  <2>7. Off(new, ls, z, n)
    <3>1. s.zones \in [Paged!Order -> Seq(PageNumbers)] /\ n \in 1 .. Len(s.zones[z])
      BY <1>2, <1>3, <2>4
    <3>2. Off(f.zones, s.zones, z, n)
      BY <2>5, <3>1, TakenIs
    <3> QED BY <1>2, <2>6, <3>2
  <2>8. Laid(ls)
    BY <1>3 DEF Lessened
  <2>9. Laid(new) /\ \A a, m \in Nat : ClearOf(ls, a, m) => ClearOf(new, a, m)
    BY <2>4, <2>7, <2>8, OffStaysLaid
  <2>10. Lessened(new, zs)
    BY <1>3, <2>9 DEF Lessened
  <2> QED BY <1>8, <2>5, <2>6, <2>10
<1> QED BY <1>6, <1>7, <1>8

Coalesces(f, k, z, start) ==
  f = [n \in 0 .. k |-> IF n = 0 THEN start ELSE Paged!Coalesce(f[n - 1], z + 1 - n)]

LEMMA CoalescesOn ==
  ASSUME NEW m \in Nat, NEW z, NEW start
  PROVE  \E f : Coalesces(f, m, z, start)
<1> DEFINE P == {k \in Nat : \E f : Coalesces(f, k, z, start)}
<1>1. 0 \in P
  <2>1. PICK f : f = [n \in 0 .. 0 |-> start]
    OBVIOUS
  <2>2. f = [n \in 0 .. 0 |-> IF n = 0 THEN start ELSE Paged!Coalesce(f[n - 1], z + 1 - n)]
    BY <2>1
  <2> QED BY <2>2 DEF Coalesces
<1>2. ASSUME NEW k \in 0 .. m - 1, k \in P PROVE k + 1 \in P
  <2>1. PICK f : Coalesces(f, k, z, start)
    BY <1>2
  <2>2. PICK last : last = Paged!Coalesce(f[k], z + 1 - (k + 1))
    OBVIOUS
  <2>3. PICK g : g = [n \in 0 .. k + 1 |-> IF n = k + 1 THEN last ELSE f[n]]
    OBVIOUS
  <2>4. (\A n \in 0 .. k : g[n] = f[n]) /\ g[k + 1] = last
    BY <2>3
  <2>5. ASSUME NEW n \in 0 .. k + 1
        PROVE  g[n] = IF n = 0 THEN start ELSE Paged!Coalesce(g[n - 1], z + 1 - n)
    <3>1. CASE n = k + 1
      <4>1. n # 0 /\ n - 1 = k /\ k \in 0 .. k
        BY <3>1
      <4>2. g[n - 1] = f[k]
        BY <2>4, <4>1
      <4> QED BY <2>2, <2>4, <3>1, <4>1, <4>2
    <3>2. CASE n # k + 1
      <4>1. n \in 0 .. k /\ (n # 0 => n - 1 \in 0 .. k)
        BY <3>2
      <4>2. f[n] = IF n = 0 THEN start ELSE Paged!Coalesce(f[n - 1], z + 1 - n)
        BY <2>1, <4>1 DEF Coalesces
      <4>3. n # 0 => g[n - 1] = f[n - 1]
        BY <2>4, <4>1
      <4> QED BY <2>4, <4>1, <4>2, <4>3
    <3> QED BY <3>1, <3>2
  <2>6. g = [n \in 0 .. k + 1 |-> g[n]]
    BY <2>3
  <2>7. Coalesces(g, k + 1, z, start)
    BY <2>5, <2>6 DEF Coalesces
  <2> QED BY <2>7
<1> HIDE DEF P
<1>3. 0 .. m \subseteq P
  BY <1>1, <1>2, InductionUpTo
<1>4. m \in P
  BY <1>3
<1> QED BY <1>4 DEF P

LEMMA CoalescedIs ==
  ASSUME Paged!PageAssumption, NEW s, NEW z, z \in Paged!Order, NEW m, NEW last, Laid(s.zones),
         NEW e, e = Paged!Coalesced(s, z, m, last)
  PROVE  Lessened(e.s.zones, s.zones)
<1>1. PICK start : start = [s |-> s, left |-> m, last |-> last, holes |-> FALSE]
  OBVIOUS
<1>2. PICK after : after = CHOOSE f : Coalesces(f, z + 1, z, start)
  OBVIOUS
<1>3. e = after[z + 1]
  BY <1>1, <1>2 DEF Paged!Coalesced, Coalesces
<1>4. z \in Nat /\ z <= Paged!MaxOrder /\ Paged!Order = 0 .. Paged!MaxOrder /\ Paged!MaxOrder \in Nat
  BY OrderIs
<1>5. Coalesces(after, z + 1, z, start)
  BY <1>2, <1>4, CoalescesOn
<1>6. PICK zs : zs = s.zones
  OBVIOUS
<1> DEFINE P == {n \in Nat : Lessened(after[n].s.zones, zs)}
<1>7. 0 \in P
  <2>1. after[0] = start
    BY <1>4, <1>5 DEF Coalesces
  <2>2. Lessened(zs, zs)
    BY <1>6 DEF Lessened
  <2>3. start.s.zones = zs
    BY <1>1, <1>6
  <2> QED BY <2>1, <2>2, <2>3
<1>8. ASSUME NEW n \in 0 .. (z + 1) - 1, n \in P PROVE n + 1 \in P
  <2>1. n + 1 \in 0 .. z + 1 /\ n + 1 # 0 /\ (n + 1) - 1 = n /\ z + 1 - (n + 1) \in Paged!Order
    BY <1>4
  <2>2. after[n + 1] = Paged!Coalesce(after[n], z + 1 - (n + 1))
    BY <1>5, <2>1 DEF Coalesces
  <2>3. PICK d : d = after[n]
    OBVIOUS
  <2>4. Lessened(d.s.zones, zs)
    BY <1>8, <2>3
  <2>5. PICK x : x = Paged!Coalesce(d, z + 1 - (n + 1))
    OBVIOUS
  <2>6. Lessened(x.s.zones, zs)
    BY <2>1, <2>4, <2>5, CoalesceGoes
  <2>7. after[n + 1] = x
    BY <2>2, <2>3, <2>5
  <2> QED BY <2>6, <2>7
<1> HIDE DEF P
<1>9. 0 .. z + 1 \subseteq P
  BY <1>4, <1>7, <1>8, InductionUpTo
<1>10. z + 1 \in P
  BY <1>4, <1>9
<1> QED BY <1>3, <1>6, <1>10 DEF P

\* A higher order is not smaller.
LEMMA SizesRise ==
  ASSUME Paged!PageAssumption, NEW y \in 0 .. PageCount, NEW z \in y .. PageCount
  PROVE  Paged!PagesOf[y] <= Paged!PagesOf[z]
<1>1. PICK h : h = Paged!PagesOf
  OBVIOUS
<1>2. PageCount \in Nat
  BY DEF Paged!PageAssumption
<1>3. \A x \in 0 .. PageCount : h[x] \in Nat
  BY <1>1, SizesGrow
<1>4. \A x \in 1 .. PageCount : h[x] = 2 * h[x - 1]
  BY <1>1, SizesAre
<1>5. PICK m \in Nat : m = z - y
  OBVIOUS
<1> DEFINE P == {n \in Nat : y + n <= PageCount => h[y] <= h[y + n]}
<1>6. 0 \in P
  BY <1>3
<1>7. ASSUME NEW n \in 0 .. m - 1, n \in P PROVE n + 1 \in P
  <2>1. SUFFICES ASSUME y + (n + 1) <= PageCount PROVE h[y] <= h[y + (n + 1)]
    OBVIOUS
  <2>2. y + (n + 1) \in 1 .. PageCount /\ (y + (n + 1)) - 1 = y + n /\ y + n \in 0 .. PageCount
    BY <1>2, <2>1
  <2>3. h[y + (n + 1)] = 2 * h[y + n] /\ h[y] <= h[y + n]
    BY <1>4, <1>7, <2>2
  <2>4. h[y] \in Nat /\ h[y + n] \in Nat
    BY <1>3, <2>2
  <2> QED BY <2>3, <2>4
<1> HIDE DEF P
<1>8. 0 .. m \subseteq P
  BY <1>6, <1>7, InductionUpTo
<1>9. m \in P
  BY <1>8
<1>10. y + m = z
  BY <1>5
<1> QED BY <1>1, <1>9, <1>10 DEF P

-----------------------------------------------------------------------------
(* The inductive invariant.                                                *)

\* A block in use: it is in the pool, and there are blocks of its order.
IsUsed(b) ==
  /\ b.at \in PageNumbers /\ b.len \in PageNumbers /\ b.at + b.len <= PageCount + 1
  /\ b = [at |-> b.at, len |-> b.len]
  /\ Paged!OrderOf(b.len) \in Paged!Order

\* The blocks in use and those on the lists have their pages to themselves.
Sorted(zs, us) ==
  /\ Laid(zs)
  /\ \A b \in us : IsUsed(b) /\ ClearOf(zs, b.at, b.len)
  /\ \A b, c \in us : b # c => Away(b.at, b.len, c.at, c.len)

PagedIInv == ~torn => Sorted(zones, used)

LEMMA PagedInitIInv == Paged!PageAssumption /\ Paged!Init => PagedIInv
<1>1. SUFFICES ASSUME Paged!PageAssumption, Paged!Init PROVE PagedIInv
  OBVIOUS
<1>2. PICK empty : empty = [zones |-> [z \in Paged!Order |-> <<>>], tag |-> [p \in 1 .. PageCount |-> 0]]
  OBVIOUS
<1>3. PICK s : s = Paged!Dealt(empty, Paged!MaxOrder, PageCount, 1, 0)
  OBVIOUS
<1>4. zones = s.zones /\ used = {}
  BY <1>1, <1>2, <1>3 DEF Paged!Init
<1>5. /\ Paged!MaxOrder \in Paged!Order /\ PageCount \in Nat
      /\ 1 \in Nat \ {0} /\ 1 + PageCount <= PageCount + 1
  BY <1>1, OrderIs
<1>6. Laid(empty.zones) /\ ClearOf(empty.zones, 1, PageCount)
  <2>1. PICK zs : zs = [z \in Paged!Order |-> <<>>]
    OBVIOUS
  <2>2. zs \in [Paged!Order -> Seq(PageNumbers)] /\ \A z \in Paged!Order : zs[z] = <<>> /\ Len(zs[z]) = 0
    BY <2>1
  <2>3. \A z \in Paged!Order : 1 .. Len(zs[z]) = {}
    BY <2>2
  <2>4. Laid(zs) /\ ClearOf(zs, 1, PageCount)
    BY <2>2, <2>3 DEF Laid, ClearOf
  <2> QED BY <1>2, <2>1, <2>4
<1>7. DealtTo(s.zones, empty.zones, 1, PageCount)
  BY <1>1, <1>3, <1>5, <1>6, DealtIs
<1> QED BY <1>4, <1>7 DEF PagedIInv, Sorted, DealtTo

\* What a block is taken from holds it, and nobody else has that.
Granted(p, count) ==
  /\ used' = used \cup {[at |-> p, len |-> count]}
  /\ p \in PageNumbers /\ p + count <= PageCount + 1
  /\ \A c \in used : Away(p, count, c.at, c.len)
  /\ [at |-> p, len |-> count] \notin used
  /\ Sorted(zones', used')

LEMMA PagedAllocates ==
  ASSUME Paged!PageAssumption, Sorted(zones, used), NEW count, count \in PageNumbers, Paged!Allocate(count)
  PROVE  \E p : Granted(p, count)
<1>1. PICK F : F = Paged!Fitting(count)
  OBVIOUS
<1>2. PICK z : z = Paged!Min(F)
  OBVIOUS
<1>3. PICK p : p = Head(zones[z])
  OBVIOUS
<1>4. PICK t : t = Paged!Taken(Paged!State, z, 1)
  OBVIOUS
<1>5. PICK h : h = Paged!PagesOf
  OBVIOUS
<1>6. PICK s : s = Paged!Dealt(t, z, h[z] - count, p + count, p)
  OBVIOUS
<1>7. /\ F # {} /\ zones' = s.zones
      /\ used' = used \cup {[at |-> p, len |-> count]}
  BY <1>1, <1>2, <1>3, <1>4, <1>5, <1>6 DEF Paged!Allocate
<1>8. count \in 1 .. PageCount /\ PageCount \in Nat
  BY OrderIs DEF PageNumbers
<1>9. PICK o \in 0 .. PageCount : o = Paged!OrderOf(count) /\ count <= h[o]
  BY <1>5, <1>8, OrdersAre
<1>10. PICK top \in Nat : top = Paged!MaxOrder /\ Paged!Order = 0 .. top /\ top <= PageCount
  BY OrderIs
<1>11. F \subseteq o .. top /\ \A y \in F : zones[y] # <<>>
  BY <1>1, <1>9, <1>10 DEF Paged!Fitting
<1>12. z \in F
  <2>1. F \subseteq Nat
    BY <1>9, <1>11
  <2> QED BY <1>2, <1>7, <2>1, SmallestIs
<1>13. z \in o .. top /\ zones[z] # <<>>
  BY <1>11, <1>12
<1>14. z \in Paged!Order /\ o \in Paged!Order /\ z \in o .. PageCount
  BY <1>9, <1>10, <1>13, <1>8
<1>15. PICK w \in Nat \ {0} : w = h[z] /\ w >= count
  <2>1. h[o] <= h[z]
    BY <1>5, <1>9, <1>14, SizesRise
  <2>2. h[z] \in Nat \ {0} /\ h[o] \in Nat
    BY <1>5, <1>14, OrderIs
  <2>3. h[z] >= count
    BY <1>8, <1>9, <2>1, <2>2
  <2> QED BY <2>2, <2>3
<1>16. Laid(zones) /\ zones \in [Paged!Order -> Seq(PageNumbers)]
  BY DEF Sorted, Laid
<1>17. zones[z] \in Seq(PageNumbers)
  BY <1>14, <1>16
<1>18. 1 \in 1 .. Len(zones[z]) /\ p = zones[z][1] /\ p \in PageNumbers
  BY <1>3, <1>13, <1>17
<1>19. p \in 1 .. PageCount /\ p + w <= PageCount + 1
  <2>1. zones[z][1] + h[z] <= PageCount + 1
    BY <1>5, <1>14, <1>16, <1>18 DEF Laid
  <2> QED BY <1>15, <1>18, <2>1 DEF PageNumbers
<1>20. PICK ls : ls = t.zones
  OBVIOUS
<1>21. Off(ls, zones, z, 1)
  <2>1. Paged!State.zones = zones
    BY DEF Paged!State
  <2>2. Off(t.zones, Paged!State.zones, z, 1)
    BY <1>4, <1>14, <1>16, <1>18, <2>1, TakenIs
  <2> QED BY <1>20, <2>1, <2>2
<1>22. /\ Laid(ls) /\ ClearOf(ls, p, w)
       /\ \A a, m \in Nat : ClearOf(zones, a, m) => ClearOf(ls, a, m)
  BY <1>5, <1>14, <1>15, <1>16, <1>18, <1>21, OffStaysLaid
<1>23. \A y \in Paged!Order : \A i \in 1 .. Len(ls[y]) :
         ls[y][i] \in Nat /\ Paged!PagesOf[y] \in Nat
  BY <1>22, OrderIs DEF Laid, PageNumbers
<1>24. ClearOf(ls, p + count, w - count) /\ ClearOf(ls, p, count)
  <2>1. ASSUME NEW y \in Paged!Order, NEW i \in 1 .. Len(ls[y])
        PROVE  /\ Away(ls[y][i], Paged!PagesOf[y], p + count, w - count)
               /\ Away(ls[y][i], Paged!PagesOf[y], p, count)
    <3>1. Away(ls[y][i], Paged!PagesOf[y], p, w)
      BY <1>22 DEF ClearOf
    <3>2. PICK x \in Nat : x = ls[y][i]
      BY <1>23
    <3>3. PICK q \in Nat : q = Paged!PagesOf[y]
      BY <1>23
    <3>4. x + q <= p \/ p + w <= x
      BY <3>1, <3>2, <3>3 DEF Away
    <3>5. Away(x, q, p + count, w - count) /\ Away(x, q, p, count)
      BY <1>8, <1>15, <1>19, <3>4 DEF Away
    <3> QED BY <3>2, <3>3, <3>5
  <2> QED BY <2>1 DEF ClearOf
<1>25. DealtTo(zones', ls, p + count, w - count)
  <2>1. /\ w - count \in Nat /\ p + count \in Nat \ {0}
        /\ (p + count) + (w - count) <= PageCount + 1
    BY <1>8, <1>15, <1>19
  <2>2. Laid(t.zones) /\ ClearOf(t.zones, p + count, w - count)
    BY <1>20, <1>22, <1>24
  <2>3. s = Paged!Dealt(t, z, w - count, p + count, p)
    BY <1>6, <1>15
  <2>4. DealtTo(s.zones, t.zones, p + count, w - count)
    BY <1>14, <2>1, <2>2, <2>3, DealtIs
  <2> QED BY <1>7, <1>20, <2>4
<1>26. ASSUME NEW c \in used
       PROVE  /\ IsUsed(c) /\ c.at \in Nat /\ c.len \in Nat \ {0}
              /\ Away(p, w, c.at, c.len) /\ ClearOf(zones, c.at, c.len)
  <2>1. IsUsed(c) /\ ClearOf(zones, c.at, c.len)
    BY DEF Sorted
  <2>2. c.at \in Nat /\ c.len \in Nat \ {0}
    BY <1>8, <2>1 DEF IsUsed, PageNumbers
  <2>3. Away(zones[z][1], Paged!PagesOf[z], c.at, c.len)
    BY <1>14, <1>18, <2>1 DEF ClearOf
  <2> QED BY <1>5, <1>15, <1>18, <2>1, <2>2, <2>3
<1>27. ASSUME NEW c \in used
       PROVE  Away(p, count, c.at, c.len) /\ Away(p + count, w - count, c.at, c.len)
  BY <1>8, <1>15, <1>19, <1>26 DEF Away
<1>28. PICK b : b = [at |-> p, len |-> count]
  OBVIOUS
<1>29. b.at = p /\ b.len = count
  BY <1>28
<1>30. b \notin used
  <2>1. ASSUME b \in used PROVE FALSE
    <3>1. Away(p, w, p, count)
      BY <1>26, <1>29, <2>1
    <3> QED BY <1>8, <1>15, <1>19, <3>1 DEF Away
  <2> QED BY <2>1
<1>31. ASSUME NEW c \in used' PROVE IsUsed(c) /\ ClearOf(zones', c.at, c.len)
  <2>1. CASE c \in used
    <3>1. ClearOf(ls, c.at, c.len)
      BY <1>22, <1>26, <2>1
    <3>2. ClearOf(zones', c.at, c.len)
      BY <1>25, <1>26, <1>27, <2>1, <3>1 DEF DealtTo
    <3> QED BY <1>26, <2>1, <3>2
  <2>2. CASE c = b
    <3>1. p + count <= PageCount + 1
      BY <1>8, <1>15, <1>19
    <3>2. IsUsed(b)
      BY <1>9, <1>14, <1>18, <1>28, <1>29, <3>1 DEF IsUsed
    <3>3. Away(p + count, w - count, p, count) /\ p \in Nat /\ count \in Nat
      BY <1>8, <1>15, <1>19 DEF Away
    <3>4. ClearOf(zones', p, count)
      BY <1>24, <1>25, <3>3 DEF DealtTo
    <3> QED BY <1>29, <2>2, <3>2, <3>4
  <2> QED BY <1>7, <1>28, <2>1, <2>2
<1>32. ASSUME NEW c \in used', NEW d \in used', c # d PROVE Away(c.at, c.len, d.at, d.len)
  <2>1. CASE c \in used /\ d \in used
    BY <1>32, <2>1 DEF Sorted
  <2>2. CASE c = b /\ d \in used
    BY <1>27, <1>29, <2>2
  <2>3. CASE c \in used /\ d = b
    BY <1>27, <1>29, <2>3 DEF Away
  <2> QED BY <1>7, <1>28, <1>32, <2>1, <2>2, <2>3
<1>33. Sorted(zones', used')
  BY <1>25, <1>31, <1>32 DEF Sorted, DealtTo
<1>34. p + count <= PageCount + 1
  BY <1>8, <1>15, <1>19
<1> QED BY <1>7, <1>18, <1>27, <1>28, <1>30, <1>33, <1>34 DEF Granted

\* The pages on the lists are those of the blocks in the places.
OneOf(x, at, len) == x \in Nat /\ at <= x /\ x < at + len

LEMMA PlacesAre ==
  ASSUME NEW zs
  PROVE  \A l : l \in Paged!Places(zs) <=> \E z \in Paged!Order : \E i \in 1 .. Len(zs[z]) : l = <<z, i>>
BY DEF Paged!Places

LEMMA SpanIs ==
  ASSUME NEW at, at \in Nat, NEW len, len \in Nat
  PROVE  \A x : x \in Paged!Span(at, len) <=> OneOf(x, at, len)
BY DEF Paged!Span, OneOf

LEMMA OnLists ==
  ASSUME Paged!PageAssumption, NEW zs, Laid(zs)
  PROVE  \A x : x \in Paged!PagesOn(zs) <=>
           \E z \in Paged!Order : \E i \in 1 .. Len(zs[z]) : OneOf(x, zs[z][i], Paged!PagesOf[z])
<1>1. ASSUME NEW z \in Paged!Order, NEW i \in 1 .. Len(zs[z])
      PROVE  /\ zs[z][i] \in Nat /\ Paged!PagesOf[z] \in Nat
             /\ \A x : x \in Paged!SpanAt(zs, <<z, i>>) <=> OneOf(x, zs[z][i], Paged!PagesOf[z])
  <2>1. zs[z][i] \in Nat /\ Paged!PagesOf[z] \in Nat
    BY OrderIs DEF Laid, PageNumbers
  <2>2. Paged!SpanAt(zs, <<z, i>>) = Paged!Span(zs[z][i], Paged!PagesOf[z])
    BY DEF Paged!SpanAt
  <2> QED BY <2>1, <2>2, SpanIs
<1>2. ASSUME NEW x, x \in Paged!PagesOn(zs)
      PROVE  \E z \in Paged!Order : \E i \in 1 .. Len(zs[z]) : OneOf(x, zs[z][i], Paged!PagesOf[z])
  <2>1. PICK l : l \in Paged!Places(zs) /\ x \in Paged!SpanAt(zs, l)
    BY <1>2 DEF Paged!PagesOn
  <2>2. PICK z, i : z \in Paged!Order /\ i \in 1 .. Len(zs[z]) /\ l = <<z, i>>
    BY <2>1, PlacesAre
  <2> QED BY <1>1, <2>1, <2>2
<1>3. ASSUME NEW x, NEW z \in Paged!Order, NEW i \in 1 .. Len(zs[z]), OneOf(x, zs[z][i], Paged!PagesOf[z])
      PROVE  x \in Paged!PagesOn(zs)
  <2>1. <<z, i>> \in Paged!Places(zs)
    BY PlacesAre
  <2>2. x \in Paged!SpanAt(zs, <<z, i>>)
    BY <1>1, <1>3
  <2> QED BY <2>1, <2>2 DEF Paged!PagesOn
<1> QED BY <1>2, <1>3

\* Pages away from the front of a block and with none of the rest are away from it.
LEMMA AwayFromWhole ==
  ASSUME NEW x \in Nat, NEW p \in Nat \ {0}, NEW at \in Nat, NEW len \in Nat, NEW w \in Nat, len <= w,
         Away(x, p, at, len), \A y \in Nat : ~ (OneOf(y, x, p) /\ OneOf(y, at + len, w - len))
  PROVE  Away(x, p, at, w)
<1>1. CASE x + p <= at
  BY <1>1 DEF Away
<1>2. CASE at + len <= x
  <2>1. OneOf(x, x, p)
    BY DEF OneOf
  <2>2. ~ OneOf(x, at + len, w - len)
    BY <2>1
  <2>3. ~ (x < (at + len) + (w - len))
    BY <1>2, <2>2 DEF OneOf
  <2> QED BY <2>3 DEF Away
<1> QED BY <1>1, <1>2 DEF Away

LEMMA PagedFrees ==
  ASSUME Paged!PageAssumption, Sorted(zones, used), NEW b, b \in used, Paged!Free(b), ~torn'
  PROVE  Sorted(zones', used') /\ used' = used \ {b}
<1>1. PICK z : z = Paged!OrderOf(b.len)
  OBVIOUS
<1>2. PICK h : h = Paged!PagesOf
  OBVIOUS
<1>3. PICK c : c = Paged!Coalesced(Paged!State, z, h[z] - b.len, b.at)
  OBVIOUS
<1>4. PICK back : back = (b.len = h[z] \/ c.last # b.at)
  OBVIOUS
<1>5. PICK f : f = Paged!Inserted(c.s, z, b.at, 0)
  OBVIOUS
<1>6. PICK ls : ls = c.s.zones
  OBVIOUS
<1>7. /\ used' = used \ {b}
      /\ zones' = IF back THEN f.zones ELSE ls
      /\ back => Paged!PagesOn(zones) \ Paged!PagesOn(ls) = Paged!Span(b.at + b.len, h[z] - b.len)
  BY <1>1, <1>2, <1>3, <1>4, <1>5, <1>6 DEF Paged!Free
<1>8. Laid(zones) /\ IsUsed(b) /\ ClearOf(zones, b.at, b.len)
  BY DEF Sorted
<1>9. PICK at \in Nat \ {0} : at = b.at /\ at \in PageNumbers
  BY <1>8, OrderIs DEF IsUsed, PageNumbers
<1>10. PICK len \in Nat \ {0} : len = b.len /\ len \in PageNumbers
  BY <1>8, OrderIs DEF IsUsed, PageNumbers
<1>11. z \in Paged!Order /\ PageCount \in Nat
  BY <1>1, <1>8, OrderIs DEF IsUsed
<1>12. PICK w \in Nat \ {0} : w = h[z] /\ len <= w
  <2>1. len \in 1 .. PageCount
    BY <1>10 DEF PageNumbers
  <2>2. len <= h[z]
    BY <1>1, <1>2, <1>10, <2>1, OrdersAre
  <2>3. h[z] \in Nat \ {0}
    BY <1>2, <1>11, OrderIs
  <2> QED BY <2>2, <2>3
<1>13. Lessened(ls, zones)
  <2>1. Paged!State.zones = zones
    BY DEF Paged!State
  <2>2. Laid(Paged!State.zones)
    BY <1>8, <2>1
  <2>3. Lessened(c.s.zones, Paged!State.zones)
    BY <1>3, <1>11, <2>2, CoalescedIs
  <2> QED BY <1>6, <2>1, <2>3
<1>14. /\ Laid(ls)
       /\ \A a, n \in Nat : ClearOf(zones, a, n) => ClearOf(ls, a, n)
  BY <1>13 DEF Lessened
<1>15. ASSUME NEW d \in used
       PROVE  /\ IsUsed(d) /\ d.at \in Nat /\ d.len \in Nat \ {0}
              /\ ClearOf(zones, d.at, d.len) /\ ClearOf(ls, d.at, d.len)
  <2>1. IsUsed(d) /\ ClearOf(zones, d.at, d.len)
    BY DEF Sorted
  <2>2. d.at \in Nat /\ d.len \in Nat \ {0}
    BY <1>11, <2>1 DEF IsUsed, PageNumbers
  <2> QED BY <1>14, <2>1, <2>2
<1>16. CASE ~ back
  BY <1>7, <1>14, <1>15, <1>16 DEF Sorted
<1>17. CASE back
  <2>1. \A x \in Nat : OneOf(x, at + len, w - len) <=> x \in Paged!PagesOn(zones) /\ x \notin Paged!PagesOn(ls)
    <3>1. at + len \in Nat /\ w - len \in Nat
      BY <1>12
    <3>2. Paged!PagesOn(zones) \ Paged!PagesOn(ls) = Paged!Span(at + len, w - len)
      BY <1>7, <1>9, <1>10, <1>12, <1>17
    <3> QED BY <3>1, <3>2, SpanIs
  <2>2. ASSUME NEW y \in Paged!Order, NEW i \in 1 .. Len(ls[y]) PROVE Away(ls[y][i], h[y], at, w)
    <3>1. PICK x \in Nat : x = ls[y][i]
      BY <1>11, <1>14 DEF Laid, PageNumbers
    <3>2. PICK p \in Nat \ {0} : p = h[y]
      BY <1>2, OrderIs
    <3>3. Away(x, p, at, len)
      BY <1>2, <1>9, <1>10, <1>15, <3>1, <3>2 DEF ClearOf
    <3>4. \A v \in Nat : OneOf(v, x, p) => v \in Paged!PagesOn(ls)
      BY <1>2, <1>14, <3>1, <3>2, OnLists
    <3>5. \A v \in Nat : ~ (OneOf(v, x, p) /\ OneOf(v, at + len, w - len))
      BY <2>1, <3>4
    <3> QED BY <1>12, <3>1, <3>2, <3>3, <3>5, AwayFromWhole
  <2>3. ASSUME NEW d \in used, d # b PROVE Away(at, w, d.at, d.len)
    <3>1. PICK x \in Nat : x = d.at
      BY <1>15
    <3>2. PICK p \in Nat \ {0} : p = d.len
      BY <1>15
    <3>3. Away(x, p, at, len)
      BY <1>9, <1>10, <2>3, <3>1, <3>2 DEF Sorted
    <3>4. ASSUME NEW v \in Nat, OneOf(v, x, p), v \in Paged!PagesOn(zones) PROVE FALSE
      <4>1. PICK y, i : y \in Paged!Order /\ i \in 1 .. Len(zones[y]) /\ OneOf(v, zones[y][i], Paged!PagesOf[y])
        BY <1>8, <3>4, OnLists
      <4>2. Away(zones[y][i], Paged!PagesOf[y], x, p)
        BY <1>15, <3>1, <3>2, <4>1 DEF ClearOf
      <4>3. zones[y][i] \in Nat /\ Paged!PagesOf[y] \in Nat
        BY <1>8, <4>1, OrderIs DEF Laid, PageNumbers
      <4> QED BY <3>4, <4>1, <4>2, <4>3 DEF Away, OneOf
    <3>5. \A v \in Nat : ~ (OneOf(v, x, p) /\ OneOf(v, at + len, w - len))
      BY <2>1, <3>4
    <3>6. Away(x, p, at, w)
      BY <1>12, <3>3, <3>5, AwayFromWhole
    <3> QED BY <3>1, <3>2, <3>6 DEF Away
  <2>4. at + w <= PageCount + 1
    <3>1. CASE w = len
      BY <1>8, <1>9, <1>10, <3>1 DEF IsUsed
    <3>2. CASE w # len
      <4>1. PICK v \in Nat : v = (at + w) - 1
        BY <1>12
      <4>2. OneOf(v, at + len, w - len)
        BY <1>12, <3>2, <4>1 DEF OneOf
      <4>3. v \in Paged!PagesOn(zones)
        BY <2>1, <4>2
      <4>4. PICK y, i : y \in Paged!Order /\ i \in 1 .. Len(zones[y]) /\ OneOf(v, zones[y][i], Paged!PagesOf[y])
        BY <1>8, <4>3, OnLists
      <4>5. /\ zones[y][i] \in Nat /\ Paged!PagesOf[y] \in Nat
            /\ zones[y][i] + Paged!PagesOf[y] <= PageCount + 1
        BY <1>8, <4>4, OrderIs DEF Laid, PageNumbers
      <4> QED BY <1>11, <4>1, <4>4, <4>5 DEF OneOf
    <3> QED BY <3>1, <3>2
  <2>5. ClearOf(ls, at, w)
    BY <1>2, <2>2 DEF ClearOf
  <2>6. PICK new : new = f.zones
    OBVIOUS
  <2>7. PutAt(new, ls, z, at)
    <3>1. c.s.zones \in [Paged!Order -> Seq(PageNumbers)]
      BY <1>6, <1>14 DEF Laid
    <3>2. PutAt(f.zones, c.s.zones, z, b.at)
      BY <1>5, <1>9, <1>11, <3>1, InsertedIs
    <3> QED BY <1>6, <1>9, <2>6, <3>2
  <2>8. /\ Laid(new)
        /\ \A a, n \in Nat : ClearOf(ls, a, n) /\ Away(at, w, a, n) => ClearOf(new, a, n)
    <3>1. w = Paged!PagesOf[z]
      BY <1>2, <1>12
    <3> QED BY <1>9, <1>11, <1>14, <2>4, <2>5, <2>7, <3>1, PutStaysLaid
  <2>9. \A d \in used' : ClearOf(new, d.at, d.len)
    BY <1>7, <1>15, <2>3, <2>8
  <2>10. zones' = new
    BY <1>7, <1>17, <2>6
  <2> QED BY <1>7, <1>15, <2>8, <2>9, <2>10 DEF Sorted
<1> QED BY <1>7, <1>16, <1>17

LEMMA PagedNextKeepsIInv ==
  Paged!PageAssumption /\ PagedIInv /\ [Paged!Next]_(Paged!vars) => PagedIInv'
<1>1. SUFFICES ASSUME Paged!PageAssumption, PagedIInv, [Paged!Next]_(Paged!vars) PROVE PagedIInv'
  OBVIOUS
<1>2. CASE Paged!Next
  <2>1. ~ torn /\ Sorted(zones, used)
    BY <1>1, <1>2 DEF Paged!Next, PagedIInv
  <2>2. ASSUME NEW count \in 1 .. PageCount, Paged!Allocate(count) PROVE PagedIInv'
    BY <1>1, <2>1, <2>2, PagedAllocates DEF PagedIInv, PageNumbers, Granted
  <2>3. ASSUME NEW b \in used, Paged!Free(b) PROVE PagedIInv'
    BY <1>1, <2>1, <2>3, PagedFrees DEF PagedIInv
  <2> QED BY <1>2, <2>2, <2>3 DEF Paged!Next
<1>3. CASE UNCHANGED Paged!vars
  BY <1>1, <1>3 DEF Paged!vars, PagedIInv
<1> QED BY <1>1, <1>2, <1>3

LEMMA PagedInductiveInvariant == Paged!PageAssumption => (Paged!Spec => []PagedIInv)
<1> SUFFICES ASSUME Paged!PageAssumption PROVE Paged!Spec => []PagedIInv
  OBVIOUS
<1>1. Paged!Init => PagedIInv
  BY PagedInitIInv
<1>2. PagedIInv /\ [Paged!Next]_(Paged!vars) => PagedIInv'
  BY PagedNextKeepsIInv
<1> QED BY <1>1, <1>2, PTL DEF Paged!Spec

\* The property, of what is sorted.
LEMMA PagedIInvKeepsApart == Paged!PageAssumption /\ PagedIInv => Paged!PagesApart
<1>1. SUFFICES ASSUME Paged!PageAssumption, Sorted(zones, used) PROVE Paged!PagesApart
  BY DEF PagedIInv, Paged!PagesApart
<1>2. ASSUME NEW a \in Nat, NEW m \in Nat, NEW b \in Nat, NEW n \in Nat, Away(a, m, b, n)
      PROVE  Paged!Span(a, m) \cap Paged!Span(b, n) = {}
  <2>1. SUFFICES ASSUME NEW x, x \in Paged!Span(a, m), x \in Paged!Span(b, n) PROVE FALSE
    OBVIOUS
  <2>2. OneOf(x, a, m) /\ OneOf(x, b, n)
    BY <2>1, SpanIs
  <2> QED BY <1>2, <2>2 DEF Away, OneOf
<1>3. \A b \in used : b.at \in Nat /\ b.len \in Nat /\ ClearOf(zones, b.at, b.len)
  BY <1>1, OrderIs DEF Sorted, IsUsed, PageNumbers
<1>4. ASSUME NEW b \in used, NEW c \in used, b # c
      PROVE  Paged!Span(b.at, b.len) \cap Paged!Span(c.at, c.len) = {}
  <2>1. Away(b.at, b.len, c.at, c.len)
    BY <1>1, <1>4 DEF Sorted
  <2> QED BY <1>2, <1>3, <2>1
<1>5. ASSUME NEW l \in Paged!Places(zones)
      PROVE  \E z \in Paged!Order : \E i \in 1 .. Len(zones[z]) :
               /\ l = <<z, i>> /\ zones[z][i] \in Nat /\ Paged!PagesOf[z] \in Nat
               /\ Paged!SpanAt(zones, l) = Paged!Span(zones[z][i], Paged!PagesOf[z])
  <2>1. PICK z, i : z \in Paged!Order /\ i \in 1 .. Len(zones[z]) /\ l = <<z, i>>
    BY PlacesAre
  <2>2. zones[z][i] \in Nat /\ Paged!PagesOf[z] \in Nat
    BY <1>1, <2>1, OrderIs DEF Sorted, Laid, PageNumbers
  <2>3. Paged!SpanAt(zones, l) = Paged!Span(zones[z][i], Paged!PagesOf[z])
    BY <2>1 DEF Paged!SpanAt
  <2> QED BY <2>1, <2>2, <2>3
<1>6. ASSUME NEW k \in Paged!Places(zones), NEW l \in Paged!Places(zones), k # l
      PROVE  Paged!SpanAt(zones, k) \cap Paged!SpanAt(zones, l) = {}
  <2>1. PICK y, i : y \in Paged!Order /\ i \in 1 .. Len(zones[y])
               /\ k = <<y, i>> /\ zones[y][i] \in Nat /\ Paged!PagesOf[y] \in Nat
               /\ Paged!SpanAt(zones, k) = Paged!Span(zones[y][i], Paged!PagesOf[y])
    BY <1>5
  <2>2. PICK z, j : z \in Paged!Order /\ j \in 1 .. Len(zones[z])
               /\ l = <<z, j>> /\ zones[z][j] \in Nat /\ Paged!PagesOf[z] \in Nat
               /\ Paged!SpanAt(zones, l) = Paged!Span(zones[z][j], Paged!PagesOf[z])
    BY <1>5
  <2>3. y # z \/ i # j
    BY <1>6, <2>1, <2>2
  <2>4. Away(zones[y][i], Paged!PagesOf[y], zones[z][j], Paged!PagesOf[z])
    BY <1>1, <2>1, <2>2, <2>3 DEF Sorted, Laid
  <2> QED BY <1>2, <2>1, <2>2, <2>4
<1>7. ASSUME NEW b \in used, NEW l \in Paged!Places(zones)
      PROVE  Paged!Span(b.at, b.len) \cap Paged!SpanAt(zones, l) = {}
  <2>1. PICK z, j : z \in Paged!Order /\ j \in 1 .. Len(zones[z])
               /\ l = <<z, j>> /\ zones[z][j] \in Nat /\ Paged!PagesOf[z] \in Nat
               /\ Paged!SpanAt(zones, l) = Paged!Span(zones[z][j], Paged!PagesOf[z])
    BY <1>5
  <2>2. Away(zones[z][j], Paged!PagesOf[z], b.at, b.len)
    BY <1>3, <2>1 DEF ClearOf
  <2>3. Paged!Span(zones[z][j], Paged!PagesOf[z]) \cap Paged!Span(b.at, b.len) = {}
    BY <1>2, <1>3, <2>1, <2>2
  <2> QED BY <2>1, <2>3
<1> QED BY <1>4, <1>6, <1>7 DEF Paged!PagesApart

\* No page is handed out twice, or on the lists twice, or both: as long as no
\* free has put together what was not the block.
LEMMA PagesStayApart == Paged!PageAssumption => (Paged!Spec => []Paged!PagesApart)
<1> SUFFICES ASSUME Paged!PageAssumption PROVE Paged!Spec => []Paged!PagesApart
  OBVIOUS
<1>1. PagedIInv => Paged!PagesApart
  BY PagedIInvKeepsApart
<1> QED BY <1>1, PagedInductiveInvariant, PTL

PagedPromise == INSTANCE Heap WITH pool <- PagedPool, live <- used, lost <- torn

pagedHeap == <<PagedPool, used, torn>>

LEMMA PagedStepIsHeapStep ==
  Paged!PageAssumption /\ PagedIInv /\ [Paged!Next]_(Paged!vars)
    => [PagedPromise!HeapNext]_pagedHeap
<1>1. SUFFICES ASSUME Paged!PageAssumption, PagedIInv, [Paged!Next]_(Paged!vars)
               PROVE  [PagedPromise!HeapNext]_pagedHeap
  OBVIOUS
<1>2. PagedPool' = PagedPool
  BY DEF PagedPool
<1>3. CASE Paged!Next
  <2>1. ~ torn /\ Sorted(zones, used)
    BY <1>1, <1>3 DEF Paged!Next, PagedIInv
  <2>2. ASSUME NEW count \in 1 .. PageCount, Paged!Allocate(count) PROVE PagedPromise!Allocate
    <3>1. PICK p : Granted(p, count)
      BY <1>1, <2>1, <2>2, PagedAllocates DEF PageNumbers
    <3>2. PICK r : r = [at |-> p, len |-> count]
      OBVIOUS
    <3>3. r.at = p /\ r.len = count /\ used' = used \cup {r} /\ r \notin used
      BY <3>1, <3>2 DEF Granted
    <3>4. PagedPool.lo <= p /\ p + count <= PagedPool.hi
      BY <3>1, OrderIs, <1>1 DEF Granted, PagedPool, PageNumbers
    <3>5. \A c \in used : PagedPromise!Apart(r, c)
      BY <3>1, <3>3 DEF Granted, Away, PagedPromise!Apart
    <3> QED BY <3>3, <3>4, <3>5 DEF PagedPromise!Allocate
  <2>3. ASSUME NEW b \in used, Paged!Free(b) PROVE torn' \/ PagedPromise!Release
    BY <1>1, <2>1, <2>3, PagedFrees DEF PagedPromise!Release
  <2> QED BY <1>2, <1>3, <2>2, <2>3 DEF Paged!Next, PagedPromise!HeapNext
<1>4. CASE UNCHANGED Paged!vars
  BY <1>2, <1>4 DEF Paged!vars, pagedHeap
<1> QED BY <1>1, <1>3, <1>4

\* The page allocator keeps the promise of a heap until a free is torn.
THEOREM PagesImplementHeap == Paged!PageAssumption => (Paged!Spec => PagedPromise!HeapSpec)
<1> SUFFICES ASSUME Paged!PageAssumption PROVE Paged!Spec => PagedPromise!HeapSpec
  OBVIOUS
<1>1. Paged!Init => PagedPromise!HeapInit
  BY DEF Paged!Init, PagedPromise!HeapInit
<1>2. PagedIInv /\ [Paged!Next]_(Paged!vars)
        => [PagedPromise!HeapNext]_pagedHeap
  BY PagedStepIsHeapStep
<1> QED BY <1>1, <1>2, PagedInductiveInvariant, PTL DEF Paged!Spec, PagedPromise!HeapSpec, pagedHeap

-----------------------------------------------------------------------------
(* The four together, each in the behaviours in which it is at work.       *)

\* A behaviour of the four is one of each.
LEMMA AllAreEach ==
  AllSpec => Linear!Spec /\ Fixed!Spec /\ Spec /\ Paged!Spec /\ [][UNCHANGED which]_allVars
<1>1. AllInit => Linear!Init /\ Fixed!Init /\ Init /\ Paged!Init
  BY DEF AllInit
<1>2. [AllNext]_allVars => /\ [Linear!Next]_Linear!vars /\ [Fixed!Next]_Fixed!vars
                           /\ [Next]_vars /\ [Paged!Next]_(Paged!vars)
                           /\ [UNCHANGED which]_allVars
  <2> SUFFICES ASSUME [AllNext]_allVars
               PROVE  /\ [Linear!Next]_Linear!vars /\ [Fixed!Next]_Fixed!vars
                      /\ [Next]_vars /\ [Paged!Next]_(Paged!vars) /\ UNCHANGED which
    OBVIOUS
  <2>1. Linear!vars = linearVars /\ Fixed!vars = fixedVars /\ Paged!vars = pageVars
    BY DEF Linear!vars, linearVars, Fixed!vars, fixedVars, Paged!vars, pageVars
  <2>2. CASE UNCHANGED allVars
    BY <2>2 DEF allVars, Linear!vars, linearVars, Fixed!vars, fixedVars, Paged!vars, pageVars, vars
  <2>3. CASE AllNext
    BY <2>3 DEF AllNext, Linear!vars, linearVars, Fixed!vars, fixedVars, Paged!vars, pageVars
  <2> QED BY <2>2, <2>3
<1> QED BY <1>1, <1>2, PTL DEF AllSpec, Linear!Spec, Fixed!Spec, Spec, Paged!Spec

\* A step of a heap from pool p, ranges l and loss x.
Stepped(p, q, l, m, x, y) ==
  \/ q = p /\ m = l /\ y = x
  \/ /\ q = p
     /\ \/ x \/ y
        \/ \E r \in m \ l :
             /\ m = l \cup {r}
             /\ p.lo <= r.at /\ r.at + r.len <= p.hi
             /\ \A s \in l : r.at + r.len <= s.at \/ s.at + s.len <= r.at
        \/ \E r \in l : m = l \ {r}
        \/ \E r \in l : \E s \in m :
             /\ m = (l \ {r}) \cup {s}
             /\ p.lo <= s.at /\ s.at + s.len <= p.hi
             /\ \A t \in l \ {r} : s.at + s.len <= t.at \/ t.at + t.len <= s.at
        \/ m = {}

allHeap == <<Pool, Live, Lost>>

LEMMA LinearStepped ==
  [LinearPromise!HeapNext]_linearHeap => Stepped(LinearPool, LinearPool', taken, taken', FALSE, FALSE)
BY DEF linearHeap, Stepped, LinearPromise!HeapNext, LinearPromise!Allocate, LinearPromise!Release,
       LinearPromise!Exchange, LinearPromise!Reset, LinearPromise!Apart

LEMMA FixedStepped ==
  [FixedPromise!HeapNext]_fixedHeap => Stepped(FixedPool, FixedPool', FixedRanges, FixedRanges', freed, freed')
BY DEF fixedHeap, Stepped, FixedPromise!HeapNext, FixedPromise!Allocate, FixedPromise!Release,
       FixedPromise!Exchange, FixedPromise!Reset, FixedPromise!Apart

LEMMA ArenaStepped ==
  [ArenaPromise!HeapNext]_arenaHeap => Stepped(ArenaPool, ArenaPool', InUse, InUse', ~intact, ~intact')
BY DEF arenaHeap, Stepped, ArenaPromise!HeapNext, ArenaPromise!Allocate, ArenaPromise!Release,
       ArenaPromise!Exchange, ArenaPromise!Reset, ArenaPromise!Apart

LEMMA PagedStepped ==
  [PagedPromise!HeapNext]_pagedHeap => Stepped(PagedPool, PagedPool', used, used', torn, torn')
BY DEF pagedHeap, Stepped, PagedPromise!HeapNext, PagedPromise!Allocate, PagedPromise!Release,
       PagedPromise!Exchange, PagedPromise!Reset, PagedPromise!Apart

LEMMA AnyStepped ==
  Stepped(Pool, Pool', Live, Live', Lost, Lost') => [Promise!HeapNext]_allHeap
BY DEF allHeap, Stepped, Promise!HeapNext, Promise!Allocate, Promise!Release,
       Promise!Exchange, Promise!Reset, Promise!Apart

\* Which allocator is at work.
OneAtWork == which \in {"linear", "fixed", "arena", "pages"}

LEMMA AllStepIsHeapStep ==
  /\ AllAssumption /\ OneAtWork /\ LinearIInv /\ FixedIInv /\ IntactWhole /\ IntactWhole' /\ PagedIInv
  /\ [Linear!Next]_Linear!vars /\ [Fixed!Next]_Fixed!vars /\ [Next]_vars /\ [Paged!Next]_(Paged!vars)
  /\ UNCHANGED which
  => [Promise!HeapNext]_allHeap
<1> SUFFICES ASSUME /\ AllAssumption /\ OneAtWork /\ LinearIInv /\ FixedIInv /\ PagedIInv
                    /\ IntactWhole /\ IntactWhole'
                    /\ [Linear!Next]_Linear!vars /\ [Fixed!Next]_Fixed!vars
                    /\ [Next]_vars /\ [Paged!Next]_(Paged!vars)
                    /\ UNCHANGED which
             PROVE  [Promise!HeapNext]_allHeap
  OBVIOUS
<1>1. CASE which = "linear"
  <2>1. Stepped(LinearPool, LinearPool', taken, taken', FALSE, FALSE)
    BY LinearStepIsHeapStep, LinearStepped DEF AllAssumption
  <2>2. /\ Pool = LinearPool /\ Live = taken /\ Lost = FALSE
        /\ Pool' = LinearPool' /\ Live' = taken' /\ Lost' = FALSE
    BY <1>1 DEF Pool, Live, Lost
  <2>3. Stepped(Pool, Pool', Live, Live', Lost, Lost')
    BY <2>1, <2>2, Zenon
  <2> QED BY <2>3, AnyStepped
<1>2. CASE which = "fixed"
  <2>1. Stepped(FixedPool, FixedPool', FixedRanges, FixedRanges', freed, freed')
    BY FixedStepIsHeapStep, FixedStepped DEF AllAssumption
  <2>2. /\ Pool = FixedPool /\ Live = FixedRanges /\ Lost = freed
        /\ Pool' = FixedPool' /\ Live' = FixedRanges' /\ Lost' = freed'
    BY <1>2 DEF Pool, Live, Lost
  <2>3. Stepped(Pool, Pool', Live, Live', Lost, Lost')
    BY <2>1, <2>2, Zenon
  <2> QED BY <2>3, AnyStepped
<1>3. CASE which = "arena"
  <2>1. Stepped(ArenaPool, ArenaPool', InUse, InUse', ~intact, ~intact')
    BY ArenaStepIsHeapStep, ArenaStepped DEF AllAssumption
  <2>2. /\ Pool = ArenaPool /\ Live = InUse /\ Lost = ~intact
        /\ Pool' = ArenaPool' /\ Live' = InUse' /\ Lost' = ~intact'
    BY <1>3 DEF Pool, Live, Lost
  <2>3. Stepped(Pool, Pool', Live, Live', Lost, Lost')
    BY <2>1, <2>2, Zenon
  <2> QED BY <2>3, AnyStepped
<1>4. CASE which = "pages"
  <2>1. Stepped(PagedPool, PagedPool', used, used', torn, torn')
    BY PagedStepIsHeapStep, PagedStepped DEF AllAssumption
  <2>2. /\ Pool = PagedPool /\ Live = used /\ Lost = torn
        /\ Pool' = PagedPool' /\ Live' = used' /\ Lost' = torn'
    BY <1>4 DEF Pool, Live, Lost
  <2>3. Stepped(Pool, Pool', Live, Live', Lost, Lost')
    BY <2>1, <2>2, Zenon
  <2> QED BY <2>3, AnyStepped
<1> QED BY <1>1, <1>2, <1>3, <1>4 DEF OneAtWork

\* Whichever allocator is at work hands out ranges of its pool that overlap none
\* in use, within what it keeps up with.
THEOREM AllImplementHeap == AllAssumption => (AllSpec => ImplementsHeap)
<1> SUFFICES ASSUME AllAssumption PROVE AllSpec => ImplementsHeap
  OBVIOUS
<1>1. AllInit => Promise!HeapInit
  <2> SUFFICES ASSUME AllInit PROVE Live = {} /\ Lost = FALSE
    BY DEF Promise!HeapInit
  <2>1. taken = {} /\ FixedRanges = {} /\ InUse = {} /\ used = {}
    BY DEF AllInit, Linear!Init, Fixed!Init, FixedRanges, Init, InUse, Paged!Init
  <2>2. freed = FALSE /\ ~intact = FALSE /\ torn = FALSE
    BY DEF AllInit, Fixed!Init, Init, Paged!Init
  <2>3. CASE which = "linear"
    BY <2>1, <2>2, <2>3 DEF Live, Lost
  <2>4. CASE which = "fixed"
    BY <2>1, <2>2, <2>4 DEF Live, Lost
  <2>5. CASE which = "arena"
    BY <2>1, <2>2, <2>5 DEF Live, Lost
  <2>6. CASE which = "pages"
    BY <2>1, <2>2, <2>6 DEF Live, Lost
  <2> QED BY <2>3, <2>4, <2>5, <2>6 DEF AllInit
<1>2. AllInit => OneAtWork
  BY DEF AllInit, OneAtWork
<1>3. OneAtWork /\ [UNCHANGED which]_allVars => OneAtWork' /\ UNCHANGED which
  BY DEF OneAtWork, allVars
<1>4. Linear!Spec => []LinearIInv
  <2>1. Linear!Init => LinearIInv
    BY LinearInitIInv DEF AllAssumption
  <2>2. LinearIInv /\ [Linear!Next]_Linear!vars => LinearIInv'
    BY LinearNextKeepsIInv DEF AllAssumption
  <2> QED BY <2>1, <2>2, PTL DEF Linear!Spec
<1>5. /\ OneAtWork /\ LinearIInv /\ FixedIInv /\ IntactWhole /\ IntactWhole' /\ PagedIInv
      /\ [Linear!Next]_Linear!vars /\ [Fixed!Next]_Fixed!vars /\ [Next]_vars /\ [Paged!Next]_(Paged!vars)
      /\ UNCHANGED which
      => [Promise!HeapNext]_allHeap
  BY AllStepIsHeapStep
<1>6. Fixed!FixedAssumption /\ ArenaAssumption /\ Paged!PageAssumption
  BY DEF AllAssumption
<1> QED BY <1>1, <1>2, <1>3, <1>4, <1>5, <1>6, AllAreEach, FixedInductiveInvariant, ArenaStaysWhole,
           PagedInductiveInvariant, PTL
        DEF AllSpec, Linear!Spec, Fixed!Spec, Spec, Paged!Spec, ImplementsHeap, Promise!HeapSpec, allHeap

\* While no free of the page allocator is torn, no page is in two places at once.
THEOREM PagesAlwaysApart == AllAssumption => (AllSpec => []PagesApart)
<1> SUFFICES ASSUME AllAssumption PROVE AllSpec => []PagesApart
  OBVIOUS
<1>1. Paged!PageAssumption
  BY DEF AllAssumption
<1>2. Paged!PagesApart => PagesApart
  BY DEF PagesApart
<1> QED BY <1>1, <1>2, AllAreEach, PagesStayApart, PTL

=============================================================================
