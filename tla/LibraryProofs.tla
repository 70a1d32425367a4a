--------------------------- MODULE LibraryProofs ---------------------------
(***************************************************************************)
(* The queue and the vector implement Sequence: the queue for every        *)
(* capacity, and always; the vector for every capacity that can grow,      *)
(* until a removal or an append mixes up its elements.  The console keeps  *)
(* what was written, for every screen, set of regions and text.            *)
(***************************************************************************)
EXTENDS Console, DataFacts

CONSTANTS
  Element, Garbage,
  QueueCapacity,             \* of the queue
  VectorCapacity, MaxSize, SizeMax    \* of the vectors

VARIABLES
  asked,
  elements, head, tail,
  vec, other, crossed, stale

Que == INSTANCE Queue WITH Capacity <- QueueCapacity
Vec == INSTANCE VectorUse WITH Capacity <- VectorCapacity

\* A vector with x put at t and counted, as a record.
WithLast(v, t, x) == [[v EXCEPT !.data[t] = x] EXCEPT !.size = @ + 1]

LEMMA PutIs ==
  ASSUME NEW c, NEW n \in Nat, NEW d, NEW t, NEW x
  PROVE  WithLast([cap |-> c, size |-> n, data |-> d], t, x)
           = [cap |-> c, size |-> n + 1, data |-> [d EXCEPT ![t] = x]]
<1>1. PICK w : w = [d EXCEPT ![t] = x]
  OBVIOUS
<1>2. [[cap |-> c, size |-> n, data |-> d] EXCEPT !.data[t] = x]
        = [cap |-> c, size |-> n, data |-> [d EXCEPT ![t] = x]]
  OBVIOUS
<1>3. [[cap |-> c, size |-> n, data |-> w] EXCEPT !.size = @ + 1]
        = [cap |-> c, size |-> n + 1, data |-> w]
  OBVIOUS
<1> QED BY <1>1, <1>2, <1>3, Zenon DEF WithLast

-----------------------------------------------------------------------------
(* The queue.                                                              *)

QueuePromise == INSTANCE Sequence WITH items <- Que!Items, spare <- <<>>, lost <- FALSE

queueSequence == <<Que!Items, <<>>, FALSE, asked>>

\* Going round the ring, once at most.
Around(a, c) == IF a < c THEN a ELSE a - c

LEMMA ModIsAround ==
  ASSUME NEW c \in Nat \ {0}, NEW a \in 0 .. c + c - 1
  PROVE  a % c = Around(a, c)
<1>1. CASE a < c
  BY <1>1 DEF Around
<1>2. CASE ~ (a < c)
  <2>1. c <= a /\ a < c + c /\ a \in Nat /\ c \in Nat /\ c > 0
    BY <1>2
  <2>2. a % c = a - c
    BY <2>1
  <2> QED BY <1>2, <2>2 DEF Around
<1> QED BY <1>1, <1>2

\* The ring as a record, and tail as many places behind head as there are
\* elements.
QueueInv ==
  /\ QueueCapacity \in Nat \ {0}
  /\ elements \in [cap : {QueueCapacity}, size : 0 .. QueueCapacity,
                   data : [0 .. QueueCapacity - 1 -> Element \cup {Garbage}]]
  /\ head \in 0 .. QueueCapacity - 1
  /\ tail = Around(head + elements.size, QueueCapacity)

LEMMA PlacesAround ==
  ASSUME NEW c \in Nat \ {0}, NEW h \in 0 .. c - 1, NEW n \in 0 .. c
  PROVE  \A k \in 1 .. n : /\ (h + k - 1) % c = Around(h + k - 1, c)
                           /\ Around(h + k - 1, c) \in 0 .. c - 1
<1> SUFFICES ASSUME NEW k \in 1 .. n
             PROVE  /\ (h + k - 1) % c = Around(h + k - 1, c)
                    /\ Around(h + k - 1, c) \in 0 .. c - 1
  OBVIOUS
<1>1. h + k - 1 \in 0 .. c + c - 1
  OBVIOUS
<1>2. Around(h + k - 1, c) \in 0 .. c - 1
  BY DEF Around
<1> QED BY <1>1, <1>2, ModIsAround

LEMMA QueueInit == Que!QueueAssumption /\ Que!Init => QueueInv /\ Que!Items = <<>>
<1> SUFFICES ASSUME Que!QueueAssumption, Que!Init PROVE QueueInv /\ Que!Items = <<>>
  OBVIOUS
<1>1. QueueCapacity \in Nat \ {0}
  BY DEF Que!QueueAssumption
<1>2. elements = [cap |-> QueueCapacity, size |-> 0,
                  data |-> [n \in 0 .. QueueCapacity - 1 |-> Garbage]]
  BY DEF Que!Init, Que!VectorCreate
<1>3. head = 0 /\ tail = 0
  BY DEF Que!Init
<1>4. QueueInv
  BY <1>1, <1>2, <1>3 DEF QueueInv, Around
<1>5. Que!Items = <<>>
  BY <1>2 DEF Que!Items
<1> QED BY <1>4, <1>5

LEMMA PushIsAdd ==
  ASSUME QueueInv, NEW e \in Element, Que!Push(e)
  PROVE  QueueInv' /\ QueuePromise!Push
<1>1. PICK c \in Nat \ {0} : c = QueueCapacity
  BY DEF QueueInv
<1>2. PICK n \in 0 .. c - 1 : n = elements.size
  BY <1>1 DEF QueueInv, Que!Push
<1>3. PICK h \in 0 .. c - 1 : h = head /\ h = head'
  BY <1>1 DEF QueueInv, Que!Push
<1>4. PICK t \in 0 .. c - 1 : t = tail /\ t = Around(h + n, c)
  <2>1. Around(h + n, c) \in 0 .. c - 1
    BY DEF Around
  <2>2. tail = Around(h + n, c)
    BY <1>1, <1>2, <1>3 DEF QueueInv
  <2> QED BY <2>1, <2>2
<1>5. PICK d \in [0 .. c - 1 -> Element \cup {Garbage}] : d = elements.data
  BY <1>1 DEF QueueInv
<1>6. elements' = [cap |-> c, size |-> n + 1, data |-> [d EXCEPT ![t] = e]]
  <2>1. elements = [cap |-> c, size |-> n, data |-> d]
    BY <1>1, <1>2, <1>5 DEF QueueInv
  <2>2. elements' = WithLast(elements, t, e)
    BY <1>4, Zenon DEF Que!Push, Que!SetAt, WithLast
  <2>3. n \in Nat
    OBVIOUS
  <2>4. WithLast([cap |-> c, size |-> n, data |-> d], t, e)
          = [cap |-> c, size |-> n + 1, data |-> [d EXCEPT ![t] = e]]
    BY <2>3, PutIs, Zenon
  <2> QED BY <2>1, <2>2, <2>4, Zenon
<1>7. tail' = Around(h + (n + 1), c)
  <2>1. tail' = (t + 1) % c
    BY <1>1, <1>4 DEF Que!Push, Que!Wrapped, QueueInv
  <2>2. (t + 1) % c = Around(t + 1, c)
    <3>1. t + 1 \in 0 .. c + c - 1
      OBVIOUS
    <3> QED BY <3>1, ModIsAround
  <2>3. Around(t + 1, c) = Around(h + (n + 1), c)
    BY <1>4 DEF Around
  <2> QED BY <2>1, <2>2, <2>3
<1>8. QueueInv'
  <2>1. [d EXCEPT ![t] = e] \in [0 .. c - 1 -> Element \cup {Garbage}] /\ n + 1 \in 0 .. c
    OBVIOUS
  <2> QED BY <1>1, <1>3, <1>6, <1>7, <2>1 DEF QueueInv
<1>9. PICK f : f = Que!Items'
  OBVIOUS
<1>10. PICK g : g = Que!Items
  OBVIOUS
<1>11. PICK w : w = [d EXCEPT ![t] = e]
  OBVIOUS
<1>12. f = [k \in 1 .. n + 1 |-> f[k]] /\ \A k \in 1 .. n + 1 : f[k] = w[Around(h + k - 1, c)]
  <2>1. Que!Items' = [k \in 1 .. n + 1 |-> w[(h + k - 1) % c]]
    BY <1>3, <1>6, <1>11 DEF Que!Items
  <2>2. n + 1 \in 0 .. c
    OBVIOUS
  <2>3. \A k \in 1 .. n + 1 : (h + k - 1) % c = Around(h + k - 1, c)
    BY <2>2, PlacesAround
  <2> QED BY <1>9, <2>1, <2>3
<1>13. g = [k \in 1 .. n |-> g[k]] /\ \A k \in 1 .. n : g[k] = d[Around(h + k - 1, c)]
  <2>1. Que!Items = [k \in 1 .. n |-> d[(h + k - 1) % c]]
    BY <1>1, <1>2, <1>3, <1>5 DEF Que!Items, QueueInv
  <2>2. n \in 0 .. c
    OBVIOUS
  <2>3. \A k \in 1 .. n : (h + k - 1) % c = Around(h + k - 1, c)
    BY <2>2, PlacesAround
  <2> QED BY <1>10, <2>1, <2>3
<1>14. \A k \in 1 .. n : g[k] = f[k]
  <2> SUFFICES ASSUME NEW k \in 1 .. n PROVE g[k] = f[k]
    OBVIOUS
  <2>1. Around(h + k - 1, c) \in 0 .. c - 1 /\ Around(h + k - 1, c) # t
    BY <1>4 DEF Around
  <2>2. g[k] = d[Around(h + k - 1, c)] /\ f[k] = w[Around(h + k - 1, c)]
    BY <1>12, <1>13
  <2> QED BY <1>11, <2>1, <2>2
<1>15. f = Append(g, f[n + 1])
  <2>1. n \in Nat
    OBVIOUS
  <2> QED BY <1>12, <1>13, <1>14, <2>1, Lengthened DEF IsList
<1>16. f[n + 1] = e
  <2>1. Around(h + (n + 1) - 1, c) = t /\ n + 1 \in 1 .. n + 1
    BY <1>4
  <2> QED BY <1>11, <1>12, <2>1
<1>17. asked'.op = "push" /\ asked'.value = e
  BY DEF Que!Push, Que!Ask
<1> QED BY <1>8, <1>9, <1>10, <1>15, <1>16, <1>17 DEF QueuePromise!Push

\* Taking the first element.
LEMMA PopIsDropFirst ==
  ASSUME QueueInv, Que!Pop
  PROVE  QueueInv' /\ QueuePromise!Pop
<1>1. PICK c \in Nat \ {0} : c = QueueCapacity
  BY DEF QueueInv
<1>2. PICK n \in 1 .. c : n = elements.size
  BY <1>1 DEF QueueInv, Que!Pop
<1>3. PICK h \in 0 .. c - 1 : h = head
  BY <1>1 DEF QueueInv
<1>4. PICK d \in [0 .. c - 1 -> Element \cup {Garbage}] : d = elements.data
  BY <1>1 DEF QueueInv
<1>5. elements' = [cap |-> c, size |-> n - 1, data |-> d]
  <2>1. elements = [cap |-> c, size |-> n, data |-> d]
    BY <1>1, <1>2, <1>4 DEF QueueInv
  <2> QED BY <2>1 DEF Que!Pop
<1>6. PICK i \in 0 .. c - 1 : i = head' /\ i = Around(h + 1, c)
  <2>1. head' = (h + 1) % c
    BY <1>1, <1>3 DEF Que!Pop, Que!Wrapped, QueueInv
  <2>2. h + 1 \in 0 .. c + c - 1 /\ Around(h + 1, c) \in 0 .. c - 1
    BY DEF Around
  <2> QED BY <2>1, <2>2, ModIsAround
<1>7. QueueInv'
  <2>1. tail' = Around(h + n, c)
    BY <1>1, <1>2, <1>3 DEF Que!Pop, QueueInv
  <2>2. Around(h + n, c) = Around(i + (n - 1), c)
    BY <1>6 DEF Around
  <2>3. n - 1 \in 0 .. c
    OBVIOUS
  <2> QED BY <1>1, <1>5, <1>6, <2>1, <2>2, <2>3 DEF QueueInv
<1>8. PICK f : f = Que!Items
  OBVIOUS
<1>9. PICK g : g = Que!Items'
  OBVIOUS
<1>10. f = [k \in 1 .. n |-> f[k]] /\ \A k \in 1 .. n : f[k] = d[Around(h + k - 1, c)]
  <2>1. Que!Items = [k \in 1 .. n |-> d[(h + k - 1) % c]]
    BY <1>1, <1>2, <1>3, <1>4 DEF Que!Items, QueueInv
  <2>2. n \in 0 .. c
    OBVIOUS
  <2>3. \A k \in 1 .. n : (h + k - 1) % c = Around(h + k - 1, c)
    BY <2>2, PlacesAround
  <2> QED BY <1>8, <2>1, <2>3
<1>11. g = [k \in 1 .. n - 1 |-> g[k]] /\ \A k \in 1 .. n - 1 : g[k] = d[Around(i + k - 1, c)]
  <2>1. Que!Items' = [k \in 1 .. n - 1 |-> d[(i + k - 1) % c]]
    BY <1>5, <1>6 DEF Que!Items
  <2>2. n - 1 \in 0 .. c
    OBVIOUS
  <2>3. \A k \in 1 .. n - 1 : (i + k - 1) % c = Around(i + k - 1, c)
    BY <2>2, PlacesAround
  <2> QED BY <1>9, <2>1, <2>3
<1>12. \A k \in 1 .. n - 1 : g[k] = f[k + 1]
  <2> SUFFICES ASSUME NEW k \in 1 .. n - 1 PROVE g[k] = f[k + 1]
    OBVIOUS
  <2>1. Around(i + k - 1, c) = Around(h + (k + 1) - 1, c)
    BY <1>6 DEF Around
  <2>2. k + 1 \in 1 .. n
    OBVIOUS
  <2> QED BY <1>10, <1>11, <2>1, <2>2
<1>13. f # <<>> /\ g = Tail(f)
  <2>1. n \in Nat \ {0}
    OBVIOUS
  <2> QED BY <1>10, <1>11, <1>12, <2>1, Beheaded, Zenon
<1>14. asked'.op = "pop"
  BY DEF Que!Pop, Que!Ask
<1> QED BY <1>7, <1>8, <1>9, <1>13, <1>14 DEF QueuePromise!Pop

LEMMA ClearIsClear ==
  ASSUME QueueInv, Que!Clear
  PROVE  QueueInv' /\ QueuePromise!Clear
<1>1. /\ elements' = [elements EXCEPT !.size = 0] /\ head' = 0 /\ tail' = 0
  BY DEF Que!Clear, Que!Cleared
<1>2. QueueInv'
  BY <1>1 DEF QueueInv, Around
<1>3. elements'.size = 0
  BY <1>1 DEF QueueInv
<1>4. Que!Items' = <<>>
  BY <1>3 DEF Que!Items
<1>5. asked'.op = "clear"
  BY DEF Que!Clear, Que!Ask
<1> QED BY <1>2, <1>4, <1>5 DEF QueuePromise!Clear

LEMMA QueueNext ==
  ASSUME QueueInv, [Que!Next]_Que!vars
  PROVE  QueueInv' /\ [QueuePromise!SequenceNext]_queueSequence
<1>1. CASE \E e \in Element : Que!Push(e)
  BY <1>1, PushIsAdd DEF QueuePromise!SequenceNext
<1>2. CASE Que!Pop
  BY <1>2, PopIsDropFirst DEF QueuePromise!SequenceNext
<1>3. CASE Que!Clear
  BY <1>3, ClearIsClear DEF QueuePromise!SequenceNext
<1>4. CASE UNCHANGED Que!vars
  BY <1>4 DEF Que!vars, QueueInv, queueSequence, Que!Items
<1> QED BY <1>1, <1>2, <1>3, <1>4 DEF Que!Next

\* queue_push adds at the end and queue_pop takes the first element, for any
\* capacity and however often head and tail have gone round the ring.
THEOREM QueueImplementsSequence == Que!QueueAssumption /\ Que!Spec => QueuePromise!SequenceSpec
<1> SUFFICES ASSUME Que!QueueAssumption PROVE Que!Spec => QueuePromise!SequenceSpec
  OBVIOUS
<1>1. Que!Init => QueueInv /\ QueuePromise!SequenceInit
  BY QueueInit DEF QueuePromise!SequenceInit
<1>2. QueueInv /\ [Que!Next]_Que!vars => QueueInv' /\ [QueuePromise!SequenceNext]_queueSequence
  BY QueueNext
<1> QED BY <1>1, <1>2, PTL DEF Que!Spec, QueuePromise!SequenceSpec, queueSequence

\* Neither end of the ring nor the count of its elements leaves its memory.
THEOREM QueueStaysInside == Que!QueueAssumption /\ Que!Spec => []Que!TypeOK
<1> SUFFICES ASSUME Que!QueueAssumption PROVE Que!Spec => []Que!TypeOK
  OBVIOUS
<1>1. Que!Init => QueueInv
  BY QueueInit
<1>2. QueueInv /\ [Que!Next]_Que!vars => QueueInv'
  BY QueueNext
<1>3. QueueInv => Que!TypeOK
  <2> SUFFICES ASSUME QueueInv PROVE Que!TypeOK
    OBVIOUS
  <2>1. PICK c \in Nat \ {0} : c = QueueCapacity
    BY DEF QueueInv
  <2>2. PICK n \in 0 .. c : n = elements.size
    BY <2>1 DEF QueueInv
  <2>3. PICK h \in 0 .. c - 1 : h = head
    BY <2>1 DEF QueueInv
  <2>4. tail = Around(h + n, c)
    BY <2>1, <2>2, <2>3 DEF QueueInv
  <2>5. Around(h + n, c) \in 0 .. c - 1
    BY DEF Around
  <2>6. elements.cap = c
    BY <2>1 DEF QueueInv
  <2> QED BY <2>1, <2>2, <2>3, <2>4, <2>5, <2>6 DEF Que!TypeOK
<1> QED BY <1>1, <1>2, <1>3, PTL DEF Que!Spec

-----------------------------------------------------------------------------
(* The vector.                                                             *)

Cell == Element \cup {Garbage}

\* The vectors that can grow.
Vectors ==
  {v \in [cap : Nat, size : Nat, data : UNION {[0 .. c - 1 -> Cell] : c \in Nat}] :
     v.cap > 1 /\ v.size <= v.cap /\ v.data \in [0 .. v.cap - 1 -> Cell]}

LEMMA IsVector ==
  ASSUME NEW c \in Nat, c > 1, NEW n \in 0 .. c, NEW d \in [0 .. c - 1 -> Cell]
  PROVE  [cap |-> c, size |-> n, data |-> d] \in Vectors
BY DEF Vectors

LEMMA VectorIs ==
  ASSUME NEW v \in Vectors
  PROVE  /\ v = [cap |-> v.cap, size |-> v.size, data |-> v.data]
         /\ v.cap \in Nat /\ v.cap > 1
         /\ v.size \in 0 .. v.cap /\ v.data \in [0 .. v.cap - 1 -> Cell]
BY DEF Vectors

\* w holds the elements of v and the first n of s behind them.
Grew(v, w, s, n) ==
  /\ w \in Vectors /\ w.size = v.size + n
  /\ \A k \in 0 .. v.size - 1 : w.data[k] = v.data[k]
  /\ \A k \in 1 .. n : w.data[v.size + k - 1] = s[k]

\* Memory for the elements of a vector.
HasCells(v) == v.cap \in Nat /\ v.cap > 1 /\ v.data \in [0 .. v.cap - 1 -> Cell]

LEMMA RegrownIs ==
  ASSUME NEW v \in Vectors, NEW block, HasCells(block), NEW w, w = Vec!Regrown(v, block)
  PROVE  /\ w \in Vectors /\ w.size = v.size /\ w.size < w.cap
         /\ \A k \in 0 .. v.size - 1 : k < block.cap => w.data[k] = block.data[k]
<1>1. PICK c \in Nat : c = v.cap /\ c > 1
  BY VectorIs
<1>2. PICK n \in 0 .. c : n = v.size
  BY <1>1, VectorIs
<1>3. PICK d : d = v.data
  OBVIOUS
<1>4. v = [cap |-> c, size |-> n, data |-> d]
  BY <1>1, <1>2, <1>3, VectorIs
<1>5. PICK b \in Nat : b = block.cap
  BY DEF HasCells
<1>6. PICK s \in [0 .. b - 1 -> Cell] : s = block.data
  BY <1>5 DEF HasCells
<1>7. PICK m \in Nat : m = c + c \div 2
  OBVIOUS
<1>8. m > c
  BY <1>1, <1>7
<1>9. PICK e : e = [k \in 0 .. m - 1 |-> IF k < b THEN s[k] ELSE Garbage]
  OBVIOUS
<1>10. w = [cap |-> m, size |-> n, data |-> e]
  BY <1>4, <1>5, <1>6, <1>7, <1>9 DEF Vec!Regrown
<1>11. e \in [0 .. m - 1 -> Cell] /\ \A k \in 0 .. n - 1 : k < b => e[k] = s[k]
  BY <1>8, <1>9 DEF Cell
<1>12. w \in Vectors
  BY <1>1, <1>8, <1>10, <1>11, IsVector
<1> QED BY <1>2, <1>5, <1>6, <1>8, <1>10, <1>11, <1>12

LEMMA GrownIs ==
  ASSUME NEW v \in Vectors, NEW w, w = Vec!Grown(v)
  PROVE  /\ w \in Vectors /\ w.size = v.size /\ w.size < w.cap
         /\ \A k \in 0 .. v.size - 1 : w.data[k] = v.data[k]
<1>1. PICK c \in Nat : c = v.cap /\ c > 1
  BY VectorIs
<1>2. PICK n \in 0 .. c : n = v.size
  BY <1>1, VectorIs
<1>3. CASE n < c
  BY <1>1, <1>2, <1>3 DEF Vec!Grown
<1>4. CASE ~ (n < c)
  <2>1. HasCells(v)
    BY VectorIs DEF HasCells
  <2>2. w = Vec!Regrown(v, v)
    BY <1>1, <1>2, <1>4 DEF Vec!Grown
  <2>3. \A k \in 0 .. n - 1 : k < c
    BY <1>2
  <2> QED BY <1>1, <1>2, <2>1, <2>2, <2>3, RegrownIs
<1> QED BY <1>3, <1>4

LEMMA AddedIs ==
  ASSUME NEW g \in Vectors, g.size < g.cap, NEW x \in Cell
  PROVE  LET w == Vec!Added(g, x)
         IN  /\ w \in Vectors /\ w.size = g.size + 1 /\ w.data[g.size] = x
             /\ \A k \in 0 .. g.size - 1 : w.data[k] = g.data[k]
<1>1. PICK c \in Nat : c = g.cap /\ c > 1
  BY VectorIs
<1>2. PICK n \in 0 .. c - 1 : n = g.size
  BY <1>1, VectorIs
<1>3. PICK d \in [0 .. c - 1 -> Cell] : d = g.data
  BY <1>1, VectorIs
<1>4. PICK w : w = Vec!Added(g, x)
  OBVIOUS
<1>5. PICK e : e = [d EXCEPT ![n] = x]
  OBVIOUS
<1>6. g = [cap |-> c, size |-> n, data |-> d]
  BY <1>1, <1>2, <1>3, VectorIs
<1>7. w = [cap |-> c, size |-> n + 1, data |-> e]
  <2>1. Vec!Added(g, x) = WithLast(g, g.size, x)
    BY Zenon DEF Vec!Added, Vec!SetAt, WithLast
  <2>2. n \in Nat
    OBVIOUS
  <2>3. WithLast([cap |-> c, size |-> n, data |-> d], n, x)
          = [cap |-> c, size |-> n + 1, data |-> [d EXCEPT ![n] = x]]
    BY <2>2, PutIs, Zenon
  <2> QED BY <1>2, <1>4, <1>5, <1>6, <2>1, <2>3, Zenon
<1>8. e \in [0 .. c - 1 -> Cell] /\ e[n] = x /\ \A k \in 0 .. n - 1 : e[k] = d[k]
  BY <1>5
<1>9. w \in Vectors
  <2>1. n + 1 \in 0 .. c
    OBVIOUS
  <2> QED BY <1>1, <1>7, <1>8, <2>1, IsVector
<1> QED BY <1>2, <1>3, <1>4, <1>7, <1>8, <1>9

LEMMA PushBackGrows ==
  ASSUME NEW v \in Vectors, NEW x \in Cell
  PROVE  LET w == Vec!PushBack(v, x)
         IN  /\ w \in Vectors /\ w.size = v.size + 1 /\ w.data[v.size] = x
             /\ \A k \in 0 .. v.size - 1 : w.data[k] = v.data[k]
<1>1. PICK g : g = Vec!Grown(v)
  OBVIOUS
<1>2. /\ g \in Vectors /\ g.size = v.size /\ g.size < g.cap
      /\ \A k \in 0 .. v.size - 1 : g.data[k] = v.data[k]
  BY <1>1, GrownIs
<1>3. PICK w : w = Vec!Added(g, x)
  OBVIOUS
<1>4. /\ w \in Vectors /\ w.size = g.size + 1 /\ w.data[g.size] = x
      /\ \A k \in 0 .. g.size - 1 : w.data[k] = g.data[k]
  BY <1>2, <1>3, AddedIs
<1>5. Vec!PushBack(v, x) = w
  BY <1>1, <1>3, Zenon DEF Vec!PushBack
<1> QED BY <1>2, <1>4, <1>5

\* One more.
LEMMA GrowsByOne ==
  ASSUME NEW v \in Vectors, NEW s, NEW n \in Nat, s[n + 1] \in Cell, NEW u, Grew(v, u, s, n)
  PROVE  Grew(v, Vec!PushBack(u, s[n + 1]), s, n + 1)
<1>1. PICK w : w = Vec!PushBack(u, s[n + 1])
  OBVIOUS
<1>2. /\ w \in Vectors /\ w.size = u.size + 1 /\ w.data[u.size] = s[n + 1]
      /\ \A k \in 0 .. u.size - 1 : w.data[k] = u.data[k]
  BY <1>1, PushBackGrows DEF Grew
<1>3. PICK a \in Nat : a = v.size
  BY VectorIs
<1>4. u.size = a + n /\ w.size = a + (n + 1)
  BY <1>2, <1>3 DEF Grew
<1>5. \A k \in 0 .. a - 1 : w.data[k] = v.data[k]
  BY <1>2, <1>3, <1>4 DEF Grew
<1>6. \A k \in 1 .. n + 1 : w.data[a + k - 1] = s[k]
  <2> SUFFICES ASSUME NEW k \in 1 .. n + 1 PROVE w.data[a + k - 1] = s[k]
    OBVIOUS
  <2>1. CASE k = n + 1
    BY <1>2, <1>4, <2>1
  <2>2. CASE k # n + 1
    <3>1. k \in 1 .. n /\ a + k - 1 \in 0 .. a + n - 1
      BY <2>2
    <3>2. u.data[a + k - 1] = s[k]
      BY <1>3, <3>1 DEF Grew
    <3> QED BY <1>2, <1>4, <3>1, <3>2
  <2> QED BY <2>1, <2>2
<1> QED BY <1>1, <1>2, <1>3, <1>4, <1>5, <1>6 DEF Grew

\* All of them.
LEMMA PushAllGrows ==
  ASSUME NEW v \in Vectors, NEW m \in Nat, NEW s, Len(s) = m, \A k \in 1 .. m : s[k] \in Cell
  PROVE  Grew(v, Vec!PushAll(v, s), s, m)
<1> DEFINE g == [n \in 1 .. m |-> [u \in Vectors |-> Vec!PushBack(u, s[n])]]
           pushed[n \in 0 .. m] == IF n = 0 THEN v ELSE Vec!PushBack(pushed[n - 1], s[n])
<1>1. g \in [1 .. m -> [Vectors -> Vectors]]
  BY PushBackGrows
<1>2. PICK f \in [0 .. m -> Vectors] : f[0] = v /\ \A n \in 1 .. m : f[n] = g[n][f[n - 1]]
  <2> HIDE DEF g, pushed
  <2>1. \E f : Recurs(f, m, Vectors, v, g)
    BY <1>1, Recursion
  <2> QED BY <2>1 DEF Recurs
<1>3. f = [n \in 0 .. m |-> IF n = 0 THEN v ELSE Vec!PushBack(f[n - 1], s[n])]
  <2>1. ASSUME NEW n \in 0 .. m
        PROVE  f[n] = IF n = 0 THEN v ELSE Vec!PushBack(f[n - 1], s[n])
    <3>1. CASE n = 0
      BY <1>2, <3>1
    <3>2. CASE n # 0
      <4>1. n \in 1 .. m /\ n - 1 \in 0 .. m
        BY <3>2
      <4> QED BY <1>2, <3>2, <4>1
    <3> QED BY <3>1, <3>2
  <2> QED BY <1>2, <2>1
<1>4. pushed = [n \in 0 .. m |-> IF n = 0 THEN v ELSE Vec!PushBack(pushed[n - 1], s[n])]
  BY <1>3
<1>5. Vec!PushAll(v, s) = pushed[m]
  BY DEF Vec!PushAll
<1> HIDE DEF pushed, g
<1> DEFINE P == {n \in Nat : n <= m => Grew(v, pushed[n], s, n)}
<1>6. 0 \in P
  <2>1. pushed[0] = v
    BY <1>4
  <2>2. v.size \in Nat
    BY VectorIs
  <2> QED BY <2>1, <2>2 DEF Grew
<1>7. ASSUME NEW n \in 0 .. m - 1, n \in P PROVE n + 1 \in P
  <2>1. /\ n \in Nat /\ n <= m
        /\ n + 1 \in 1 .. m /\ n + 1 \in 0 .. m /\ n + 1 # 0 /\ n + 1 - 1 = n
    OBVIOUS
  <2>2. Grew(v, pushed[n], s, n)
    BY <1>7, <2>1
  <2>3. pushed[n + 1] = Vec!PushBack(pushed[n], s[n + 1])
    BY <1>4, <2>1
  <2>4. Grew(v, pushed[n + 1], s, n + 1)
    BY <2>1, <2>2, <2>3, GrowsByOne
  <2> QED BY <2>1, <2>4
<1>8. m \in P
  <2> HIDE DEF P
  <2>1. 0 .. m \subseteq P
    BY <1>6, <1>7, InductionUpTo
  <2> QED BY <2>1
<1> QED BY <1>5, <1>8

-----------------------------------------------------------------------------
LEMMA ContentsIs ==
  ASSUME NEW v \in Vectors, NEW n \in Nat, n = v.size
  PROVE  /\ Vec!Contents(v) = [k \in 1 .. n |-> v.data[k - 1]]
         /\ Len(Vec!Contents(v)) = n
         /\ \A k \in 1 .. n : v.data[k - 1] \in Cell /\ Vec!Contents(v)[k] = v.data[k - 1]
<1>1. PICK c \in Nat : c = v.cap /\ n <= c
  BY VectorIs
<1>2. v.data \in [0 .. c - 1 -> Cell]
  BY <1>1, VectorIs
<1>3. \A k \in 1 .. n : k - 1 \in 0 .. c - 1
  BY <1>1
<1>4. Vec!Contents(v) = [k \in 1 .. n |-> v.data[k - 1]]
  BY DEF Vec!Contents
<1> QED BY <1>2, <1>3, <1>4

\* The elements of s from q + 1 on.
LEMMA RestIs ==
  ASSUME NEW m \in Nat, NEW q \in 0 .. m, NEW s, s = [k \in 1 .. m |-> s[k]]
  PROVE  LET t == SubSeq(s, q + 1, m)
         IN  Len(t) = m - q /\ \A k \in 1 .. m - q : t[k] = s[q + k]
OBVIOUS

\* What of u was put into v at once.
LEMMA ChunkedIs ==
  ASSUME NEW v \in Vectors, NEW u \in Vectors,
         NEW q, q = Vec!Chunk(v, u), NEW f, f = Vec!Chunked(v, u)
  PROVE  /\ q \in 0 .. u.size /\ v.size + q <= v.cap
         /\ f \in Vectors /\ f.size = v.size + q
         /\ \A k \in 0 .. v.cap - 1 :
              f.data[k] = IF q = 0 THEN v.data[k]
                          ELSE IF v.size = 0
                            THEN IF k < q THEN Vec!Contents(u)[k + 1] ELSE v.data[k]
                          ELSE IF k <= q THEN Garbage ELSE v.data[k]
<1>1. PICK c \in Nat : c = v.cap /\ c > 1
  BY VectorIs
<1>2. PICK n \in 0 .. c : n = v.size
  BY <1>1, VectorIs
<1>3. PICK d \in [0 .. c - 1 -> Cell] : d = v.data
  BY <1>1, VectorIs
<1>4. v = [cap |-> c, size |-> n, data |-> d]
  BY <1>1, <1>2, <1>3, VectorIs
<1>5. PICK m \in Nat : m = u.size
  BY VectorIs
<1>6. PICK s : s = Vec!Contents(u)
  OBVIOUS
<1>7. \A k \in 1 .. m : s[k] \in Cell
  BY <1>5, <1>6, ContentsIs
<1>8. q \in 0 .. m /\ n + q <= c
  <2>1. q = IF c - n < m THEN c - n ELSE m
    BY <1>1, <1>2, <1>5 DEF Vec!Chunk
  <2>2. CASE c - n < m
    BY <2>1, <2>2
  <2>3. CASE ~ (c - n < m)
    BY <2>1, <2>3
  <2> QED BY <2>2, <2>3
<1>9. PICK e : e = [k \in 0 .. c - 1 |->
                      IF q = 0 THEN d[k]
                      ELSE IF n = 0 THEN IF k < q THEN s[k + 1] ELSE d[k]
                      ELSE IF k <= q THEN Garbage ELSE d[k]]
  OBVIOUS
<1>10. f = [cap |-> c, size |-> n + q, data |-> e]
  <2>1. v.size = n /\ v.data = d /\ DOMAIN d = 0 .. c - 1
    BY <1>4
  <2>2. e = [k \in DOMAIN v.data |->
               IF q = 0 THEN v.data[k]
               ELSE IF v.size = 0 THEN IF k < q THEN s[k + 1] ELSE v.data[k]
               ELSE IF k <= q THEN Garbage ELSE v.data[k]]
    BY <1>9, <2>1
  <2>3. PICK y : y = [[cap |-> c, size |-> n, data |-> d]
                        EXCEPT !.size = v.size + q, !.data = e]
    OBVIOUS
  <2>4. y = [cap |-> c, size |-> v.size + q, data |-> e]
    BY <2>3
  <2>5. f = [v EXCEPT !.size = @ + q,
               !.data = [k \in DOMAIN @ |->
                 IF q = 0 THEN @[k]
                 ELSE IF v.size = 0 THEN IF k < q THEN s[k + 1] ELSE @[k]
                 ELSE IF k <= q THEN Garbage ELSE @[k]]]
    BY <1>6, Zenon DEF Vec!Chunked
  <2> QED BY <1>4, <2>1, <2>2, <2>3, <2>4, <2>5, Zenon
<1>11. f \in Vectors
  <2>1. e \in [0 .. c - 1 -> Cell]
    <3>1. \A k \in 0 .. c - 1 : k < q => s[k + 1] \in Cell
      BY <1>7, <1>8
    <3>2. \A k \in 0 .. c - 1 : d[k] \in Cell /\ Garbage \in Cell
      BY DEF Cell
    <3> QED BY <1>9, <3>1, <3>2
  <2>2. n + q \in 0 .. c
    BY <1>8
  <2> QED BY <1>1, <1>10, <2>1, <2>2, IsVector
<1>12. f.size = n + q /\ \A k \in 0 .. c - 1 : f.data[k] = e[k]
  BY <1>10
<1> QED BY <1>1, <1>2, <1>3, <1>5, <1>6, <1>8, <1>9, <1>11, <1>12

\* What is behind the elements of v after the append of u is u's elements, or
\* the first element is mixed up.
LEMMA AppendedIs ==
  ASSUME NEW v \in Vectors, NEW u \in Vectors, NEW w, w = Vec!Appended(v, u)
  PROVE  /\ w \in Vectors /\ w.size = v.size + u.size
         /\ \/ Grew(v, w, Vec!Contents(u), u.size)
            \/ w.size > 0 /\ w.data[0] = Garbage
<1>1. PICK c \in Nat : c = v.cap /\ c > 1
  BY VectorIs
<1>2. PICK n \in 0 .. c : n = v.size
  BY <1>1, VectorIs
<1>3. PICK d \in [0 .. c - 1 -> Cell] : d = v.data
  BY <1>1, VectorIs
<1>5. PICK m \in Nat : m = u.size
  BY VectorIs
<1>6. PICK s : s = Vec!Contents(u)
  OBVIOUS
<1>7. s = [k \in 1 .. m |-> s[k]] /\ Len(s) = m /\ \A k \in 1 .. m : s[k] \in Cell
  BY <1>5, <1>6, ContentsIs
<1>8. PICK q, f : q = Vec!Chunk(v, u) /\ f = Vec!Chunked(v, u)
  OBVIOUS
<1>9. PICK e : e = f.data
  OBVIOUS
<1>10. PICK t : t = SubSeq(s, q + 1, m)
  OBVIOUS
<1>11. /\ q \in 0 .. m /\ n + q <= c
       /\ f \in Vectors /\ f.size = n + q
       /\ \A k \in 0 .. c - 1 :
            e[k] = IF q = 0 THEN d[k]
                   ELSE IF n = 0 THEN IF k < q THEN s[k + 1] ELSE d[k]
                   ELSE IF k <= q THEN Garbage ELSE d[k]
  <2>1. /\ q \in 0 .. u.size /\ v.size + q <= v.cap
        /\ f \in Vectors /\ f.size = v.size + q
        /\ \A k \in 0 .. v.cap - 1 :
             f.data[k] = IF q = 0 THEN v.data[k]
                         ELSE IF v.size = 0
                           THEN IF k < q THEN Vec!Contents(u)[k + 1] ELSE v.data[k]
                         ELSE IF k <= q THEN Garbage ELSE v.data[k]
    BY <1>8, ChunkedIs
  <2>2. v.cap = c /\ v.size = n /\ v.data = d /\ u.size = m /\ Vec!Contents(u) = s /\ f.data = e
    BY <1>1, <1>2, <1>3, <1>5, <1>6, <1>9
  <2> QED BY <2>1, <2>2, Zenon
<1>12. w = Vec!PushAll(f, t)
  BY <1>5, <1>6, <1>8, <1>10, Zenon DEF Vec!Appended
<1>13. Len(t) = m - q /\ \A k \in 1 .. m - q : t[k] = s[q + k]
  BY <1>7, <1>10, <1>11, RestIs
<1>14. f \in Vectors
  BY <1>11
<1>15. Grew(f, w, t, m - q)
  <2>1. m - q \in Nat /\ \A k \in 1 .. m - q : t[k] \in Cell
    <3>1. m - q \in Nat /\ \A k \in 1 .. m - q : q + k \in 1 .. m
      BY <1>11
    <3> QED BY <1>7, <1>13, <3>1
  <2> QED BY <1>12, <1>13, <1>14, <2>1, PushAllGrows
<1>16. /\ w \in Vectors /\ w.size = n + m
       /\ \A k \in 0 .. n + q - 1 : w.data[k] = e[k]
       /\ \A k \in 1 .. m - q : w.data[n + q + k - 1] = s[q + k]
  <2>1. f.size = n + q /\ f.data = e
    BY <1>9, <1>11
  <2>2. /\ w \in Vectors /\ w.size = n + q + (m - q)
        /\ \A k \in 0 .. n + q - 1 : w.data[k] = e[k]
        /\ \A k \in 1 .. m - q : w.data[n + q + k - 1] = t[k]
    <3>1. /\ w \in Vectors /\ w.size = f.size + (m - q)
          /\ \A k \in 0 .. f.size - 1 : w.data[k] = f.data[k]
          /\ \A k \in 1 .. m - q : w.data[f.size + k - 1] = t[k]
      BY <1>15, Zenon DEF Grew
    <3>2. PICK z \in Nat : z = n + q
      BY <1>11
    <3>3. f.size = z
      BY <2>1, <3>2
    <3>4. /\ w \in Vectors /\ w.size = z + (m - q)
          /\ \A k \in 0 .. z - 1 : w.data[k] = e[k]
          /\ \A k \in 1 .. m - q : w.data[z + k - 1] = t[k]
      BY <2>1, <3>1, <3>3, Zenon
    <3>5. \A k \in 0 .. n + q - 1 : k \in 0 .. z - 1
      BY <1>11, <3>2
    <3>6. \A k \in 1 .. m - q : z + k - 1 = n + q + k - 1
      BY <1>11, <3>2
    <3>7. z + (m - q) = n + q + (m - q)
      BY <3>2
    <3> QED BY <3>4, <3>5, <3>6, <3>7, Zenon
  <2>3. n + q + (m - q) = n + m
    BY <1>11
  <2> QED BY <1>13, <2>2, <2>3
<1>17. CASE q = 0
  <2>1. \A k \in 0 .. n - 1 : w.data[k] = d[k]
    <3>1. \A k \in 0 .. n - 1 : k \in 0 .. c - 1 /\ k \in 0 .. n + q - 1
      BY <1>17
    <3> QED BY <1>11, <1>16, <1>17, <3>1
  <2>2. \A k \in 1 .. m : w.data[n + k - 1] = s[k]
    BY <1>16, <1>17
  <2> QED BY <1>2, <1>3, <1>5, <1>6, <1>16, <2>1, <2>2 DEF Grew
<1>18. CASE q # 0 /\ n = 0
  <2>1. \A k \in 1 .. m : w.data[k - 1] = s[k]
    <3> SUFFICES ASSUME NEW k \in 1 .. m PROVE w.data[k - 1] = s[k]
      OBVIOUS
    <3>1. CASE k <= q
      <4>1. k - 1 \in 0 .. n + q - 1 /\ k - 1 \in 0 .. c - 1 /\ k - 1 < q /\ k - 1 + 1 = k
        BY <1>11, <1>18, <3>1
      <4> QED BY <1>11, <1>16, <1>18, <3>1, <4>1
    <3>2. CASE ~ (k <= q)
      <4>1. k - q \in 1 .. m - q /\ n + q + (k - q) - 1 = k - 1 /\ q + (k - q) = k
        BY <1>11, <1>18, <3>2
      <4> QED BY <1>16, <4>1
    <3> QED BY <3>1, <3>2
  <2> QED BY <1>2, <1>5, <1>6, <1>16, <1>18, <2>1 DEF Grew
<1>19. CASE q # 0 /\ n # 0
  <2>1. 0 \in 0 .. n + q - 1 /\ 0 \in 0 .. c - 1 /\ n + m > 0
    BY <1>1, <1>11, <1>19
  <2>2. w.data[0] = e[0] /\ e[0] = Garbage
    <3>1. ~ (q = 0) /\ ~ (n = 0) /\ 0 <= q
      BY <1>11, <1>19
    <3> QED BY <1>11, <1>16, <2>1, <3>1
  <2> QED BY <1>2, <1>5, <1>16, <2>1, <2>2
<1> QED BY <1>2, <1>5, <1>16, <1>17, <1>18, <1>19

-----------------------------------------------------------------------------
VectorPromise ==
  INSTANCE Sequence WITH items <- Vec!Items(vec), spare <- Vec!Items(other), lost <- Vec!Unpromised

vectorSequence == <<Vec!Items(vec), Vec!Items(other), Vec!Unpromised, asked>>

\* A vector, or one whose size has wrapped around.
Sized(v) ==
  v \in Vectors \/ \E u \in Vectors : v = [cap |-> u.cap, size |-> SizeMax, data |-> u.data]

VectorInv ==
  /\ Sized(vec) /\ Sized(other)
  /\ crossed \in BOOLEAN /\ stale \in BOOLEAN

LEMMA SizedIs ==
  ASSUME NEW v, Sized(v)
  PROVE  /\ v.size # SizeMax => v \in Vectors
         /\ HasCells(v) /\ (v.size \in 0 .. v.cap \/ v.size = SizeMax)
         /\ v = [cap |-> v.cap, size |-> v.size, data |-> v.data]
<1>1. CASE v \in Vectors
  BY <1>1, VectorIs DEF HasCells
<1>2. CASE \E u \in Vectors : v = [cap |-> u.cap, size |-> SizeMax, data |-> u.data]
  BY <1>2, VectorIs DEF HasCells
<1> QED BY <1>1, <1>2 DEF Sized

\* The cells of v with another size, n.
LEMMA ResizedIs ==
  ASSUME Vec!VectorAssumption, NEW c \in Nat, c > 1, NEW n, n \in 0 .. c \/ n = SizeMax,
         NEW d \in [0 .. c - 1 -> Cell]
  PROVE  Sized([cap |-> c, size |-> n, data |-> d])
<1>1. CASE n \in 0 .. c
  BY <1>1, IsVector DEF Sized
<1>2. CASE n = SizeMax
  <2>1. PICK u : u = [cap |-> c, size |-> 0, data |-> d]
    OBVIOUS
  <2>2. u \in Vectors /\ u.cap = c /\ u.data = d
    BY <2>1, IsVector
  <2> QED BY <1>2, <2>2 DEF Sized
<1> QED BY <1>1, <1>2

LEMMA CountedItems ==
  ASSUME NEW v, v.size # SizeMax
  PROVE  Vec!Items(v) = Vec!Contents(v)
BY DEF Vec!Items, Vec!Wrapped

LEMMA VectorInit ==
  Vec!VectorAssumption /\ Vec!Init => VectorInv /\ VectorPromise!SequenceInit
<1> SUFFICES ASSUME Vec!VectorAssumption, Vec!Init
             PROVE  VectorInv /\ VectorPromise!SequenceInit
  OBVIOUS
<1>1. PICK c \in Nat : c = VectorCapacity /\ c > 1
  BY DEF Vec!VectorAssumption
<1>2. PICK v : v = [cap |-> c, size |-> 0, data |-> [n \in 0 .. c - 1 |-> Garbage]]
  OBVIOUS
<1>3. vec = v /\ other = v
  BY <1>1, <1>2 DEF Vec!Init, Vec!VectorCreate
<1>4. v \in Vectors
  <2>1. [n \in 0 .. c - 1 |-> Garbage] \in [0 .. c - 1 -> Cell] /\ 0 \in 0 .. c
    BY DEF Cell
  <2> QED BY <1>1, <1>2, <2>1, IsVector
<1>5. v.size = 0 /\ 0 # SizeMax
  BY <1>1, <1>2 DEF Vec!VectorAssumption
<1>6. Vec!Items(v) = <<>> /\ ~ Vec!Mixed(v) /\ ~ Vec!Wrapped(v)
  BY <1>5 DEF Vec!Contents, Vec!Items, Vec!Mixed, Vec!Wrapped
<1>7. crossed = FALSE /\ stale = FALSE
  BY DEF Vec!Init
<1>8. ~ Vec!Unpromised
  BY <1>3, <1>6, <1>7 DEF Vec!Unpromised
<1>9. VectorInv
  BY <1>3, <1>4, <1>7 DEF VectorInv, Sized
<1>10. Vec!Items(vec) = <<>> /\ Vec!Items(other) = <<>>
  BY <1>3, <1>6, Zenon
<1>11. VectorPromise!SequenceInit
  BY <1>8, <1>10 DEF VectorPromise!SequenceInit, Vec!Init
<1> QED BY <1>9, <1>11

LEMMA VectorPush ==
  ASSUME Vec!VectorAssumption, VectorInv, NEW e \in Element, Vec!PushOne(e)
  PROVE  VectorInv' /\ VectorPromise!Push
<1>1. vec.size < MaxSize /\ vec.size + 1 # SizeMax /\ vec.size # SizeMax
  <2>1. vec.size \in Nat
    BY SizedIs DEF VectorInv, HasCells, Vec!VectorAssumption
  <2> QED BY <2>1 DEF Vec!PushOne, Vec!VectorAssumption
<1>2. PICK v \in Vectors : v = vec
  BY <1>1, SizedIs DEF VectorInv
<1>3. PICK w : w = vec' /\ w = Vec!PushBack(v, e)
  BY <1>2 DEF Vec!PushOne
<1>4. PICK n \in Nat : n = v.size
  BY VectorIs
<1>5. /\ w \in Vectors /\ w.size = n + 1 /\ w.data[n] = e
      /\ \A k \in 0 .. n - 1 : w.data[k] = v.data[k]
  <2>1. e \in Cell
    BY DEF Cell
  <2> QED BY <1>3, <1>4, <2>1, PushBackGrows
<1>6. PICK f : f = Vec!Contents(w)
  OBVIOUS
<1>7. PICK g : g = Vec!Contents(v)
  OBVIOUS
<1>8. IsList(f, n + 1) /\ \A k \in 1 .. n + 1 : f[k] = w.data[k - 1]
  <2>1. n + 1 \in Nat
    OBVIOUS
  <2> QED BY <1>5, <1>6, <2>1, ContentsIs DEF IsList
<1>9. IsList(g, n) /\ \A k \in 1 .. n : g[k] = v.data[k - 1]
  BY <1>4, <1>7, ContentsIs DEF IsList
<1>10. \A k \in 1 .. n : g[k] = f[k]
  <2> SUFFICES ASSUME NEW k \in 1 .. n PROVE g[k] = f[k]
    OBVIOUS
  <2>1. k \in 1 .. n + 1 /\ k - 1 \in 0 .. n - 1
    OBVIOUS
  <2> QED BY <1>5, <1>8, <1>9, <2>1
<1>11. f = Append(g, f[n + 1]) /\ f[n + 1] = e
  <2>1. f = Append(g, f[n + 1])
    BY <1>8, <1>9, <1>10, Lengthened
  <2>2. n + 1 \in 1 .. n + 1 /\ n + 1 - 1 = n
    OBVIOUS
  <2> QED BY <1>5, <1>8, <2>1, <2>2
<1>12. VectorInv'
  BY <1>3, <1>5 DEF VectorInv, Sized, Vec!PushOne
<1>13. f = Vec!Items(vec)' /\ g = Vec!Items(vec)
  <2>1. f = Vec!Items(w) /\ g = Vec!Items(v)
    BY <1>1, <1>2, <1>4, <1>5, <1>6, <1>7, CountedItems
  <2> QED BY <1>2, <1>3, <2>1 DEF Vec!Items, Vec!Wrapped, Vec!Contents
<1>14. asked'.op = "push" /\ asked'.value = e
  BY DEF Vec!PushOne, Vec!Ask
<1> QED BY <1>11, <1>12, <1>13, <1>14 DEF VectorPromise!Push

\* A growth after a swap ends with other's elements in memory that is freed.
LEMMA VectorPushAcross ==
  ASSUME Vec!VectorAssumption, VectorInv, NEW e \in Element, Vec!PushAcross(e)
  PROVE  VectorInv' /\ stale'
<1>1. vec.size # SizeMax
  <2>1. vec.size \in Nat
    BY SizedIs DEF VectorInv, HasCells, Vec!VectorAssumption
  <2> QED BY <2>1 DEF Vec!PushAcross, Vec!VectorAssumption
<1>2. PICK v \in Vectors : v = vec
  BY <1>1, SizedIs DEF VectorInv
<1>3. PICK block \in {vec, other} : vec' = Vec!Added(Vec!Regrown(vec, block), e)
  BY DEF Vec!PushAcross
<1>4. HasCells(block)
  BY <1>3, SizedIs DEF VectorInv
<1>5. PICK g : g = Vec!Regrown(v, block)
  OBVIOUS
<1>6. g \in Vectors /\ g.size < g.cap /\ e \in Cell
  BY <1>4, <1>5, RegrownIs DEF Cell
<1>7. PICK w : w = Vec!Added(g, e)
  OBVIOUS
<1>8. w \in Vectors
  BY <1>6, <1>7, AddedIs
<1>9. vec' = w
  BY <1>2, <1>3, <1>5, <1>7, Zenon
<1> QED BY <1>8, <1>9 DEF VectorInv, Sized, Vec!PushAcross

LEMMA VectorSet ==
  ASSUME Vec!VectorAssumption, VectorInv, NEW i \in Nat, NEW x \in Element, Vec!Set(i, x)
  PROVE  VectorInv' /\ (Vec!Wrapped(vec) \/ VectorPromise!Set)
<1>1. PICK c \in Nat : c = vec.cap /\ c > 1 /\ i < c
  BY SizedIs DEF VectorInv, HasCells, Vec!Set
<1>2. PICK n : n = vec.size /\ (n \in 0 .. c \/ n = SizeMax)
  BY <1>1, SizedIs DEF VectorInv
<1>3. PICK d \in [0 .. c - 1 -> Cell] : d = vec.data
  BY <1>1, SizedIs DEF VectorInv, HasCells
<1>4. PICK e : e = [d EXCEPT ![i] = x]
  OBVIOUS
<1>5. PICK w : w = [cap |-> c, size |-> n, data |-> e]
  OBVIOUS
<1>6. vec' = w
  <2>1. vec = [cap |-> c, size |-> n, data |-> d]
    BY <1>1, <1>2, <1>3, SizedIs DEF VectorInv
  <2>2. Vec!SetAt([cap |-> c, size |-> n, data |-> d], i, x)
          = [cap |-> c, size |-> n, data |-> [d EXCEPT ![i] = x]]
    BY SMTT(60) DEF Vec!SetAt
  <2>3. vec' = Vec!SetAt(vec, i, x)
    BY DEF Vec!Set
  <2> QED BY <1>4, <1>5, <2>1, <2>2, <2>3, Zenon
<1>7. e \in [0 .. c - 1 -> Cell]
  BY <1>4 DEF Cell
<1>8. VectorInv'
  <2>1. Sized(w)
    BY <1>1, <1>2, <1>5, <1>7, ResizedIs
  <2> QED BY <1>6, <2>1 DEF VectorInv, Sized, Vec!Set
<1>9. CASE n = SizeMax
  BY <1>2, <1>8, <1>9 DEF Vec!Wrapped
<1>10. CASE n # SizeMax
  <2>1. n \in 0 .. c /\ n \in Nat /\ i < n
    BY <1>2, <1>10 DEF Vec!Set
  <2>2. vec \in Vectors /\ w \in Vectors /\ w.size = n /\ w.data = e
    BY <1>1, <1>2, <1>5, <1>7, <1>10, <2>1, SizedIs, IsVector DEF VectorInv
  <2>3. PICK f, g : f = Vec!Contents(vec) /\ g = Vec!Contents(w)
    OBVIOUS
  <2>4. f = [k \in 1 .. n |-> f[k]] /\ Len(f) = n /\ \A k \in 1 .. n : f[k] = d[k - 1]
    BY <1>2, <1>3, <2>1, <2>2, <2>3, ContentsIs
  <2>5. g = [k \in 1 .. n |-> g[k]] /\ \A k \in 1 .. n : g[k] = e[k - 1]
    BY <2>1, <2>2, <2>3, ContentsIs
  <2>6. i + 1 \in 1 .. n
    BY <2>1
  <2>7. \A k \in 1 .. n : g[k] = IF k = i + 1 THEN x ELSE f[k]
    <3>1. ASSUME NEW k \in 1 .. n PROVE e[k - 1] = IF k = i + 1 THEN x ELSE d[k - 1]
      <4>1. k - 1 \in 0 .. c - 1 /\ (k - 1 = i <=> k = i + 1)
        BY <2>1
      <4> QED BY <1>4, <4>1
    <3> QED BY <2>4, <2>5, <3>1
  <2>8. g = [f EXCEPT ![i + 1] = x]
    <3>1. PICK h : h = [f EXCEPT ![i + 1] = x]
      OBVIOUS
    <3>2. h = [k \in 1 .. n |-> h[k]] /\ \A k \in 1 .. n : h[k] = g[k]
      BY <2>4, <2>6, <2>7, <3>1
    <3> QED BY <2>5, <3>1, <3>2
  <2>9. f = Vec!Items(vec) /\ g = Vec!Items(vec)'
    <3>1. f = Vec!Items(vec) /\ g = Vec!Items(w)
      BY <1>2, <1>10, <2>2, <2>3, CountedItems
    <3> QED BY <1>6, <3>1 DEF Vec!Items, Vec!Wrapped, Vec!Contents
  <2>10. asked'.op = "set" /\ asked'.at = i /\ asked'.value = x
    BY DEF Vec!Set, Vec!Ask
  <2>11. asked'.at + 1 \in 1 .. Len(f) /\ g = [f EXCEPT ![asked'.at + 1] = asked'.value]
    BY <2>4, <2>6, <2>8, <2>10
  <2> QED BY <1>8, <2>9, <2>10, <2>11 DEF VectorPromise!Set
<1> QED BY <1>9, <1>10

\* What vector_remove of place i leaves of n + 1 elements.
LEMMA RemovedIs ==
  ASSUME NEW v \in Vectors, NEW n \in Nat, v.size = n + 1, NEW i \in 0 .. n + 1,
         NEW w, w = Vec!Removed(v, i)
  PROVE  /\ w \in Vectors /\ w.size = n
         /\ i = 0 /\ n > 0 => /\ w.data[0] = v.data[n]
                             /\ \A k \in 1 .. n - 1 : w.data[k] = v.data[k]
         /\ i # 0 /\ n > 0 => w.data[0] = Garbage
<1>1. PICK c \in Nat : c = v.cap /\ c > 1 /\ n + 1 <= c
  BY VectorIs
<1>2. PICK d \in [0 .. c - 1 -> Cell] : d = v.data
  BY <1>1, VectorIs
<1>3. v = [cap |-> c, size |-> n + 1, data |-> d]
  BY <1>1, <1>2, VectorIs
<1>4. PICK z \in Nat : z = n + 1 /\ z - 1 = n
  OBVIOUS
<1>5. PICK e : e = IF v.size = 1 THEN v.data
                   ELSE IF i = 0 THEN [v.data EXCEPT ![0] = v.data[v.size - 1]]
                   ELSE [v.data EXCEPT ![0] = Garbage, ![1] = Garbage]
  OBVIOUS
<1>6. w = [cap |-> c, size |-> n, data |-> e]
  <2>1. PICK y : y = [[cap |-> c, size |-> z, data |-> d] EXCEPT !.size = @ - 1, !.data = e]
    OBVIOUS
  <2>2. y = [cap |-> c, size |-> z - 1, data |-> e]
    BY <2>1
  <2>3. w = [v EXCEPT !.size = @ - 1, !.data = e]
    BY <1>5, Zenon DEF Vec!Removed
  <2> QED BY <1>3, <1>4, <2>1, <2>2, <2>3, Zenon
<1>7. v.size = z /\ v.data = d
  BY <1>3, <1>4
<1>8. n \in 0 .. c - 1 /\ 0 \in 0 .. c - 1 /\ 1 \in 0 .. c - 1
  BY <1>1
<1>9. e \in [0 .. c - 1 -> Cell]
  BY <1>4, <1>5, <1>7, <1>8 DEF Cell
<1>10. w \in Vectors
  <2>1. n \in 0 .. c
    BY <1>8
  <2> QED BY <1>1, <1>6, <1>9, <2>1, IsVector
<1>11. CASE i = 0 /\ n > 0
  <2>1. e = [d EXCEPT ![0] = d[n]]
    BY <1>4, <1>5, <1>7, <1>11
  <2>2. \A k \in 1 .. n - 1 : k \in 0 .. c - 1 /\ k # 0
    BY <1>1
  <2> QED BY <1>6, <1>7, <1>8, <1>10, <1>11, <2>1, <2>2
<1>12. CASE ~ (n > 0)
  BY <1>6, <1>10, <1>12
<1>13. CASE i # 0 /\ n > 0
  <2>1. e = [d EXCEPT ![0] = Garbage, ![1] = Garbage]
    BY <1>4, <1>5, <1>7, <1>13
  <2>2. e[0] = Garbage
    BY <1>8, <2>1
  <2> QED BY <1>6, <1>10, <1>13, <2>2
<1> QED BY <1>11, <1>12, <1>13

LEMMA VectorRemove ==
  ASSUME Vec!VectorAssumption, VectorInv, NEW i \in Nat, Vec!Remove(i)
  PROVE  /\ VectorInv'
         /\ \/ VectorPromise!SwapRemove
            \/ Vec!Wrapped(vec)'
            \/ Vec!Mixed(vec)'
<1>1. PICK v \in Vectors : v = vec
  BY SizedIs DEF VectorInv, Vec!Remove, Vec!Wrapped
<1>2. CASE v.size = 0
  <2>1. PICK c \in Nat : c = v.cap /\ c > 1
    BY VectorIs
  <2>2. PICK d \in [0 .. c - 1 -> Cell] : d = v.data
    BY <2>1, VectorIs
  <2>3. v = [cap |-> c, size |-> 0, data |-> d]
    BY <1>2, <2>1, <2>2, VectorIs
  <2>4. vec' = [v EXCEPT !.size = SizeMax]
    BY <1>1, <1>2 DEF Vec!Remove
  <2>5. vec' = [cap |-> c, size |-> SizeMax, data |-> d]
    BY <2>3, <2>4
  <2>6. Sized([cap |-> c, size |-> SizeMax, data |-> d])
    BY <2>1, ResizedIs
  <2>7. VectorInv'
    BY <2>5, <2>6 DEF VectorInv, Sized, Vec!Remove
  <2>8. vec'.size = SizeMax
    BY <2>5
  <2> QED BY <2>7, <2>8 DEF Vec!Wrapped
<1>3. CASE v.size # 0
  <2>1. PICK n \in Nat : v.size = n + 1 /\ i \in 0 .. n + 1
    <3>1. PICK a \in Nat : a = v.size /\ i <= a /\ a # 0
      BY <1>1, <1>3, VectorIs DEF Vec!Remove
    <3>2. a - 1 \in Nat /\ a = (a - 1) + 1
      BY <3>1
    <3> QED BY <3>1, <3>2
  <2>2. PICK w : w = vec' /\ w = Vec!Removed(v, i)
    BY <1>1, <1>3 DEF Vec!Remove
  <2>3. /\ w \in Vectors /\ w.size = n
        /\ i = 0 /\ n > 0 => /\ w.data[0] = v.data[n]
                            /\ \A k \in 1 .. n - 1 : w.data[k] = v.data[k]
        /\ i # 0 /\ n > 0 => w.data[0] = Garbage
    BY <2>1, <2>2, RemovedIs
  <2>4. VectorInv'
    BY <2>2, <2>3 DEF VectorInv, Sized, Vec!Remove
  <2>5. CASE n = SizeMax
    BY <2>2, <2>3, <2>4, <2>5 DEF Vec!Wrapped
  <2>6. CASE n # SizeMax
    <3>1. PICK f, g : f = Vec!Contents(v) /\ g = Vec!Contents(w)
      OBVIOUS
    <3>2. f = Vec!Items(vec) /\ g = Vec!Items(vec)'
      <4>1. v.size # SizeMax
        BY <1>1 DEF Vec!Remove, Vec!Wrapped
      <4>2. f = Vec!Items(v) /\ g = Vec!Items(w)
        BY <2>3, <2>6, <3>1, <4>1, CountedItems
      <4> QED BY <1>1, <2>2, <4>2 DEF Vec!Items, Vec!Wrapped, Vec!Contents
    <3>3. /\ f = [k \in 1 .. n + 1 |-> f[k]] /\ Len(f) = n + 1
          /\ \A k \in 1 .. n + 1 : f[k] = v.data[k - 1]
      <4>1. n + 1 \in Nat
        OBVIOUS
      <4> QED BY <2>1, <3>1, <4>1, ContentsIs
    <3>4. g = [k \in 1 .. n |-> g[k]] /\ \A k \in 1 .. n : g[k] = w.data[k - 1]
      BY <2>3, <3>1, ContentsIs
    <3>5. CASE i = 0 \/ n = 0
      <4>1. PICK h : h = [f EXCEPT ![1] = f[n + 1]]
        OBVIOUS
      <4>2. h = [k \in 1 .. n + 1 |-> h[k]]
        BY <3>3, <4>1
      <4>3. \A k \in 1 .. n : g[k] = h[k]
        <5> SUFFICES ASSUME NEW k \in 1 .. n PROVE g[k] = h[k]
          OBVIOUS
        <5>1. i = 0 /\ n > 0
          BY <3>5
        <5>2. CASE k = 1
          <6>1. /\ n + 1 \in 1 .. n + 1 /\ n + 1 - 1 = n
                /\ 1 \in 1 .. n /\ 1 \in 1 .. n + 1 /\ 1 - 1 = 0
            BY <5>1
          <6>2. g[1] = v.data[n] /\ f[n + 1] = v.data[n]
            BY <2>3, <3>3, <3>4, <5>1, <6>1
          <6>3. h[1] = f[n + 1]
            BY <3>3, <4>1, <6>1
          <6> QED BY <5>2, <6>2, <6>3
        <5>3. CASE k # 1
          <6>1. k \in 1 .. n + 1 /\ k - 1 \in 1 .. n - 1
            BY <5>3
          <6>2. g[k] = v.data[k - 1] /\ f[k] = v.data[k - 1]
            BY <2>3, <3>3, <3>4, <5>1, <6>1
          <6>3. h[k] = f[k]
            BY <3>3, <4>1, <5>3, <6>1
          <6> QED BY <6>2, <6>3
        <5> QED BY <5>2, <5>3
      <4>4. g = SubSeq(h, 1, Len(h) - 1)
        BY <3>4, <4>2, <4>3, Shortened, Zenon
      <4>5. 1 \in 1 .. Len(f) /\ f[n + 1] = f[Len(f)]
        BY <3>3
      <4>6. asked'.op = "remove" /\ (asked'.at < Len(f) => 1 = asked'.at + 1)
        <5>1. asked'.op = "remove" /\ asked'.at = i
          BY DEF Vec!Remove, Vec!Ask
        <5>2. i < n + 1 => i = 0
          BY <3>5
        <5> QED BY <3>3, <5>1, <5>2
      <4>7. VectorPromise!SwapRemove
        BY <3>2, <4>1, <4>4, <4>5, <4>6, Zenon
        DEF VectorPromise!SwapRemove, VectorPromise!Front, VectorPromise!Last
      <4> QED BY <2>4, <4>7
    <3>6. CASE ~ (i = 0 \/ n = 0)
      <4>1. 1 \in 1 .. n /\ 1 - 1 = 0 /\ n > 0 /\ i # 0
        BY <3>6
      <4>2. g[1] = Garbage
        BY <2>3, <3>4, <4>1
      <4>3. Vec!Mixed(vec)'
        BY <2>2, <2>3, <3>2, <4>1, <4>2 DEF Vec!Mixed
      <4> QED BY <2>4, <4>3
    <3> QED BY <3>5, <3>6
  <2> QED BY <2>5, <2>6
<1> QED BY <1>2, <1>3

\* Two vectors with few elements: neither size has wrapped around.
LEMMA BothCount ==
  ASSUME Vec!VectorAssumption, VectorInv, vec.size + other.size <= MaxSize
  PROVE  /\ vec \in Vectors /\ other \in Vectors
         /\ vec.size + other.size # SizeMax
         /\ vec.size # SizeMax /\ other.size # SizeMax
<1>1. vec.size \in Nat /\ other.size \in Nat
  BY SizedIs DEF VectorInv, HasCells, Vec!VectorAssumption
<1>2. vec.size # SizeMax /\ other.size # SizeMax /\ vec.size + other.size # SizeMax
  BY <1>1 DEF Vec!VectorAssumption
<1> QED BY <1>2, SizedIs DEF VectorInv

LEMMA VectorAppend ==
  ASSUME Vec!VectorAssumption, VectorInv, Vec!Append2
  PROVE  VectorInv' /\ (VectorPromise!AppendSpare \/ Vec!Mixed(vec)')
<1>1. PICK v \in Vectors : v = vec
  BY BothCount DEF Vec!Append2
<1>2. PICK u \in Vectors : u = other
  BY BothCount DEF Vec!Append2
<1>3. PICK w : w = vec' /\ w = Vec!Appended(v, u)
  BY <1>1, <1>2 DEF Vec!Append2
<1>4. PICK n \in Nat : n = v.size
  BY VectorIs
<1>5. PICK m \in Nat : m = u.size
  BY VectorIs
<1>6. PICK s : s = Vec!Contents(u)
  OBVIOUS
<1>7. /\ w \in Vectors /\ w.size = n + m
      /\ Grew(v, w, s, m) \/ (w.size > 0 /\ w.data[0] = Garbage)
  BY <1>3, <1>4, <1>5, <1>6, AppendedIs
<1>8. VectorInv'
  BY <1>3, <1>7 DEF VectorInv, Sized, Vec!Append2
<1>9. PICK f : f = Vec!Contents(v)
  OBVIOUS
<1>10. PICK g : g = Vec!Contents(w)
  OBVIOUS
<1>11. n + m \in Nat
  OBVIOUS
<1>12. g = [k \in 1 .. n + m |-> g[k]] /\ \A k \in 1 .. n + m : g[k] = w.data[k - 1]
  BY <1>7, <1>10, <1>11, ContentsIs
<1>13. f = Vec!Items(vec) /\ g = Vec!Items(vec)' /\ s = Vec!Items(other)
  <2>1. v.size # SizeMax /\ u.size # SizeMax /\ w.size # SizeMax
    BY <1>1, <1>2, <1>4, <1>5, <1>7, BothCount DEF Vec!Append2
  <2>2. f = Vec!Items(v) /\ g = Vec!Items(w) /\ s = Vec!Items(u)
    BY <1>6, <1>9, <1>10, <2>1, CountedItems
  <2> QED BY <1>1, <1>2, <1>3, <2>2 DEF Vec!Items, Vec!Wrapped, Vec!Contents
<1>14. CASE Grew(v, w, s, m)
  <2>1. s = [k \in 1 .. m |-> s[k]]
    BY <1>5, <1>6, ContentsIs
  <2>2. f = [k \in 1 .. n |-> f[k]] /\ \A k \in 1 .. n : f[k] = v.data[k - 1]
    BY <1>4, <1>9, ContentsIs
  <2>3. \A k \in 1 .. n : g[k] = f[k]
    <3> SUFFICES ASSUME NEW k \in 1 .. n PROVE g[k] = f[k]
      OBVIOUS
    <3>1. k \in 1 .. n + m /\ k - 1 \in 0 .. n - 1
      OBVIOUS
    <3>2. w.data[k - 1] = v.data[k - 1]
      BY <1>4, <1>14, <3>1 DEF Grew
    <3> QED BY <1>12, <2>2, <3>1, <3>2
  <2>4. \A k \in 1 .. m : g[n + k] = s[k]
    <3> SUFFICES ASSUME NEW k \in 1 .. m PROVE g[n + k] = s[k]
      OBVIOUS
    <3>1. n + k \in 1 .. n + m
      OBVIOUS
    <3>2. w.data[n + k - 1] = s[k]
      BY <1>4, <1>14 DEF Grew
    <3> QED BY <1>12, <3>1, <3>2
  <2>5. g = f \o s
    <3>1. IsList(f, n) /\ IsList(s, m) /\ IsList(g, n + m)
      BY <1>12, <2>1, <2>2 DEF IsList
    <3>2. n \in Nat /\ m \in Nat
      OBVIOUS
    <3> QED BY <2>3, <2>4, <3>1, <3>2, Joined, Zenon
  <2>6. asked'.op = "append"
    BY DEF Vec!Append2, Vec!Ask
  <2>7. VectorPromise!AppendSpare
    BY <1>13, <2>5, <2>6 DEF VectorPromise!AppendSpare
  <2> QED BY <1>8, <2>7
<1>15. CASE w.size > 0 /\ w.data[0] = Garbage
  <2>1. 1 \in 1 .. n + m /\ 1 - 1 = 0
    BY <1>7, <1>15
  <2>2. g[1] = Garbage
    BY <1>12, <1>15, <2>1
  <2>3. Vec!Mixed(vec)'
    BY <1>3, <1>7, <1>13, <2>1, <2>2 DEF Vec!Mixed
  <2> QED BY <1>8, <2>3
<1> QED BY <1>7, <1>14, <1>15

LEMMA VectorAppendAcross ==
  ASSUME Vec!VectorAssumption, VectorInv, Vec!AppendAcross
  PROVE  VectorInv' /\ stale'
<1>1. PICK v \in Vectors, u \in Vectors : v = vec /\ u = other
  BY BothCount DEF Vec!AppendAcross
<1>2. PICK q, full : q = Vec!Chunk(v, u) /\ full = Vec!Chunked(v, u)
  OBVIOUS
<1>3. q \in 0 .. u.size /\ full \in Vectors
  BY <1>2, ChunkedIs
<1>4. PICK m \in Nat : m = u.size - q
  <2>1. u.size \in Nat
    BY VectorIs
  <2> QED BY <1>3, <2>1
<1>5. PICK rest : rest = [n \in 1 .. m |-> Garbage]
  OBVIOUS
<1>6. Len(rest) = m /\ \A k \in 1 .. m : rest[k] \in Cell
  BY <1>5 DEF Cell
<1>7. PICK block : block \in {full, u} /\ vec' = Vec!PushAll(Vec!Regrown(full, block), rest)
  <2>1. \E block \in {full, u} : vec' = Vec!PushAll(Vec!Regrown(full, block), rest)
    BY <1>1, <1>2, <1>4, <1>5, Zenon DEF Vec!AppendAcross
  <2> QED BY <2>1
<1>8. HasCells(block)
  BY <1>3, <1>7, VectorIs DEF HasCells
<1>9. PICK g : g = Vec!Regrown(full, block)
  OBVIOUS
<1>10. g \in Vectors
  BY <1>3, <1>8, <1>9, RegrownIs
<1>11. Vec!PushAll(g, rest) \in Vectors
  BY <1>6, <1>10, PushAllGrows DEF Grew
<1>12. vec' \in Vectors
  BY <1>7, <1>9, <1>11
<1> QED BY <1>12 DEF VectorInv, Sized, Vec!AppendAcross

LEMMA VectorClear ==
  ASSUME Vec!VectorAssumption, VectorInv, Vec!Clear
  PROVE  VectorInv' /\ VectorPromise!Clear
<1>1. PICK c \in Nat : c = vec.cap /\ c > 1
  BY SizedIs DEF VectorInv, HasCells
<1>2. PICK d \in [0 .. c - 1 -> Cell] : d = vec.data
  BY <1>1, SizedIs DEF VectorInv, HasCells
<1>3. PICK w : w = [cap |-> c, size |-> 0, data |-> d]
  OBVIOUS
<1>4. vec' = w
  <2>1. PICK n : n = vec.size
    OBVIOUS
  <2>2. vec = [cap |-> c, size |-> n, data |-> d]
    BY <1>1, <1>2, <2>1, SizedIs DEF VectorInv
  <2> QED BY <1>3, <2>2 DEF Vec!Clear, Vec!Cleared
<1>5. Sized(w)
  <2>1. 0 \in 0 .. c
    OBVIOUS
  <2> QED BY <1>1, <1>3, <2>1, ResizedIs
<1>6. VectorInv'
  BY <1>4, <1>5 DEF VectorInv, Sized, Vec!Clear
<1>7. vec'.size = 0 /\ 0 # SizeMax
  BY <1>3, <1>4 DEF Vec!VectorAssumption
<1>8. Vec!Items(vec)' = <<>>
  BY <1>7 DEF Vec!Items, Vec!Wrapped, Vec!Contents
<1>9. asked'.op = "clear"
  BY DEF Vec!Clear, Vec!Ask
<1> QED BY <1>6, <1>8, <1>9 DEF VectorPromise!Clear

\* One step.  Once a vector is used as it is not made for nothing is promised.
LEMMA VectorNext ==
  ASSUME Vec!VectorAssumption, VectorInv, [Vec!Next]_Vec!vars
  PROVE  VectorInv' /\ [VectorPromise!SequenceNext]_vectorSequence
<1> USE DEF VectorPromise!SequenceNext
<1>1. UNCHANGED other => UNCHANGED Vec!Items(other)
  BY DEF Vec!Items, Vec!Wrapped, Vec!Contents
<1>2. Vec!Unpromised \/ Vec!Unpromised' \/ UNCHANGED Vec!Unpromised
  BY Zenon DEF Vec!Unpromised
<1>3. ASSUME UNCHANGED other,
             \/ VectorPromise!Push \/ VectorPromise!AppendSpare \/ VectorPromise!Set
             \/ VectorPromise!SwapRemove \/ VectorPromise!Clear
             \/ Vec!Wrapped(vec) \/ Vec!Wrapped(vec)' \/ Vec!Mixed(vec)' \/ stale'
      PROVE  VectorPromise!SequenceNext
  <2>1. Vec!Wrapped(vec)' \/ Vec!Mixed(vec)' \/ stale' => Vec!Unpromised'
    BY DEF Vec!Unpromised
  <2>2. Vec!Wrapped(vec) => Vec!Unpromised
    BY DEF Vec!Unpromised
  <2> QED BY <1>1, <1>2, <1>3, <2>1, <2>2
<1>4. ASSUME NEW e \in Element, Vec!PushOne(e)
      PROVE  VectorInv' /\ VectorPromise!SequenceNext
  <2>1. UNCHANGED other
    BY <1>4 DEF Vec!PushOne
  <2> QED BY <1>3, <1>4, <2>1, VectorPush
<1>5. ASSUME NEW e \in Element, Vec!PushAcross(e)
      PROVE  VectorInv' /\ VectorPromise!SequenceNext
  <2>1. UNCHANGED other
    BY <1>5 DEF Vec!PushAcross
  <2> QED BY <1>3, <1>5, <2>1, VectorPushAcross
<1>6. CASE \E i \in 0 .. MaxSize - 1, e \in Element : Vec!Set(i, e)
  <2>1. PICK i \in 0 .. MaxSize - 1, e \in Element : Vec!Set(i, e)
    BY <1>6
  <2>2. i \in Nat
    BY DEF Vec!VectorAssumption
  <2>3. UNCHANGED other
    BY <2>1 DEF Vec!Set
  <2> QED BY <1>3, <2>1, <2>2, <2>3, VectorSet
<1>7. CASE \E i \in 0 .. MaxSize : Vec!Remove(i)
  <2>1. PICK i \in 0 .. MaxSize : Vec!Remove(i)
    BY <1>7
  <2>2. i \in Nat
    BY DEF Vec!VectorAssumption
  <2>3. UNCHANGED other
    BY <2>1 DEF Vec!Remove
  <2> QED BY <1>3, <2>1, <2>2, <2>3, VectorRemove
<1>8. CASE Vec!Append2
  <2>1. UNCHANGED other
    BY <1>8 DEF Vec!Append2
  <2> QED BY <1>3, <1>8, <2>1, VectorAppend
<1>9. CASE Vec!AppendAcross
  <2>1. UNCHANGED other
    BY <1>9 DEF Vec!AppendAcross
  <2> QED BY <1>3, <1>9, <2>1, VectorAppendAcross
<1>10. CASE Vec!Clear
  <2>1. UNCHANGED other
    BY <1>10 DEF Vec!Clear
  <2> QED BY <1>3, <1>10, <2>1, VectorClear
<1>11. CASE Vec!Swap
  <2>1. VectorInv'
    BY <1>11 DEF Vec!Swap, VectorInv, Sized
  <2>2. asked'.op = "swap"
    BY <1>11 DEF Vec!Swap, Vec!Ask
  <2>3. VectorPromise!Swap
    BY <1>11, <2>2 DEF Vec!Swap, VectorPromise!Swap, Vec!Items, Vec!Wrapped, Vec!Contents
  <2> QED BY <1>2, <2>1, <2>3
<1>12. CASE UNCHANGED Vec!vars
  BY <1>12 DEF Vec!vars, VectorInv, Sized, vectorSequence, Vec!Items, Vec!Contents, Vec!Unpromised,
               Vec!Wrapped, Vec!Mixed
<1> QED BY <1>4, <1>5, <1>6, <1>7, <1>8, <1>9, <1>10, <1>11, <1>12 DEF Vec!Next

\* vector_push_back adds the element at the end, vector_set_at puts it in its
\* place, vector_remove of the first puts the last there, vector_append adds the
\* other's elements and vector_swap exchanges both, however often a vector has
\* grown: as long as no removal of another place and no append to part of the
\* capacity has mixed up the elements, none was removed from an empty vector,
\* and no vector has grown after an odd number of swaps.
THEOREM VectorImplementsSequence ==
  Vec!VectorAssumption /\ Vec!Spec => VectorPromise!SequenceSpec
<1> SUFFICES ASSUME Vec!VectorAssumption PROVE Vec!Spec => VectorPromise!SequenceSpec
  OBVIOUS
<1>1. Vec!Init => VectorInv /\ VectorPromise!SequenceInit
  BY VectorInit
<1>2. VectorInv /\ [Vec!Next]_Vec!vars
        => VectorInv' /\ [VectorPromise!SequenceNext]_vectorSequence
  BY VectorNext
<1> QED BY <1>1, <1>2, PTL DEF Vec!Spec, VectorPromise!SequenceSpec, vectorSequence

\* No operation counts more elements than the vector has memory for, growth and
\* appends included, except the removal of an element from an empty vector,
\* which makes of its size the largest number there is.
THEOREM VectorStaysInside == Vec!VectorAssumption /\ Vec!Spec => []Vec!TypeOK
<1> SUFFICES ASSUME Vec!VectorAssumption PROVE Vec!Spec => []Vec!TypeOK
  OBVIOUS
<1>1. Vec!Init => VectorInv
  BY VectorInit
<1>2. VectorInv /\ [Vec!Next]_Vec!vars => VectorInv'
  BY VectorNext
<1>3. VectorInv => Vec!TypeOK
  <2>1. ASSUME NEW v, Sized(v) PROVE Vec!IsVector(v)
    BY <2>1, SizedIs DEF HasCells, Vec!IsVector, Cell
  <2> QED BY <2>1 DEF VectorInv, Vec!TypeOK
<1> QED BY <1>1, <1>2, <1>3, PTL DEF Vec!Spec

-----------------------------------------------------------------------------
\* What a cell of the screen may show, and a screen.
Shape    == Alphabet \cup {Clear}
Screens == [0 .. Rows - 1 -> [1 .. Columns -> Shape]]

\* How far above the cursor's row line n of k lies.
Up(k, n) == (k - n) * Line

LEMMA UpIs ==
  ASSUME NEW k \in Nat, NEW n \in 1 .. k
  PROVE  /\ Up(k, n) \in Nat /\ Up(k + 1, n) = Up(k, n) + Line
         /\ Up(k, k) = 0 /\ (n < k => Up(k, n) >= Line)
<1>1. Line \in Nat
  BY ConsoleAssumption
<1>2. PICK d \in Nat : d = k - n
  OBVIOUS
<1>3. d * Line \in Nat /\ (d + 1) * Line = d * Line + Line
  BY <1>1
<1>4. k + 1 - n = d + 1
  BY <1>2
<1>5. Up(k, n) = d * Line /\ Up(k + 1, n) = (d + 1) * Line
  BY <1>2, <1>4 DEF Up
<1>6. Up(k, k) = 0
  <2>1. k - k = 0
    OBVIOUS
  <2> QED BY <1>1, <2>1 DEF Up
<1>7. n < k => Up(k, n) >= Line
  <2> SUFFICES ASSUME n < k PROVE Up(k, n) >= Line
    OBVIOUS
  <2>1. PICK e \in Nat : d = e + 1
    <3>1. d - 1 \in Nat /\ d = d - 1 + 1
      BY <1>2
    <3> QED BY <3>1
  <2>2. e * Line \in Nat /\ (e + 1) * Line = e * Line + Line
    BY <1>1, <2>1
  <2> QED BY <1>1, <1>5, <2>1, <2>2
<1> QED BY <1>3, <1>5, <1>6, <1>7

\* The row begins with the line l.
Starts(row, l) == \A c \in 1 .. Len(l) : row[c] = l[c]

LEMMA PrefixIs ==
  ASSUME NEW l \in Seq(Shape), NEW row \in [1 .. Columns -> Shape], Len(l) <= Columns, Starts(row, l)
  PROVE  IsPrefix(l, row)
<1>1. PICK m \in Nat : m = Len(l)
  OBVIOUS
<1>2. PICK n \in Nat : n = Columns
  BY ConsoleAssumption
<1>3. IsList(l, m) /\ IsList(row, n)
  BY <1>1, <1>2 DEF IsList
<1>4. m <= n /\ \A c \in 1 .. m : row[c] = l[c]
  BY <1>1, <1>2 DEF Starts
<1>5. SubSeq(row, 1, m) = l
  <2>1. PICK f : f = row
    OBVIOUS
  <2>2. IsPart(l, m, f, n, 1, m)
    BY <1>1, <1>2, <1>3, <1>4, <2>1 DEF IsPart
  <2>3. SubSeq(f, 1, m) = l
    BY <2>2, Part
  <2> QED BY <2>1, <2>3, Zenon
<1>6. SubSeq(l, 1, m) = l
  <2>1. IsPart(l, m, l, m, 1, m)
    BY <1>1, <1>3 DEF IsPart
  <2> QED BY <2>1, Part
<1>7. Len(row) = n
  <2>1. \A k \in 1 .. n : row[k] \in Shape
    BY <1>2
  <2>2. row \in Seq(Shape) /\ Len(row) = n
    BY <1>3, <2>1, Listed DEF IsList
  <2> QED BY <2>2
<1> QED BY <1>1, <1>4, <1>5, <1>6, <1>7 DEF IsPrefix

\* A line that stands at y, if that is below the top of the region, is there.
Stands(top, y, l, sc) ==
  y >= top /\ Len(l) > 1 => \A r \in y .. y + Glyph - 1 : Starts(sc[r], l)

\* The k lines ls of a region with the cursor in row y.
Standing(top, bottom, y, ls, k, sc) ==
  /\ k \in Nat \ {0} /\ ls \in Seq(Seq(Shape)) /\ Len(ls) = k
  /\ top \in Nat /\ bottom \in Nat /\ bottom <= Rows /\ y \in Nat
  /\ top <= y /\ y + Line <= bottom
  /\ \A n \in 1 .. k : Len(ls[n]) \in 0 .. Columns /\ Stands(top, y - Up(k, n), ls[n], sc)

\* The cursor is behind what the line began with.
Behind(x, l) == x \in Nat /\ Len(l) <= x /\ (l = <<>> => x = 0)

\* Only rows of the region have changed.
Within(top, bottom, sc, new) ==
  /\ new \in Screens
  /\ \A r \in 0 .. Rows - 1 : r \in top .. bottom - 1 \/ new[r] = sc[r]

\* The numbers of the screen.
LEMMA ScreenNumbers ==
  /\ Columns \in Nat /\ Rows \in Nat /\ Line \in Nat /\ Glyph \in Nat
  /\ Glyph <= Line /\ Line <= Rows
BY ConsoleAssumption

\* What drawing changes.
DrawnTo(new, sc, x, y, seg) ==
  \A r \in 0 .. Rows - 1 :
    new[r] = IF r \in y .. y + Glyph - 1
             THEN [c \in 1 .. Columns |->
                     IF c \in x + 1 .. x + Len(seg) THEN seg[c - x] ELSE sc[r][c]]
             ELSE sc[r]

LEMMA DrawnIs ==
  ASSUME NEW sc \in Screens, NEW x \in Nat, NEW y \in Nat, NEW seg \in Seq(Shape),
         NEW new, new = Drawn(sc, x, y, seg)
  PROVE  new \in Screens /\ DrawnTo(new, sc, x, y, seg)
<1>1. DOMAIN sc = 0 .. Rows - 1
  BY DEF Screens
<1>2. DrawnTo(new, sc, x, y, seg)
  BY <1>1 DEF Drawn, DrawnTo
<1>3. PICK m \in Nat : m = Len(seg)
  OBVIOUS
<1>4. \A d \in 1 .. m : seg[d] \in Shape
  BY <1>3
<1>5. ASSUME NEW c \in 1 .. Columns, c \in x + 1 .. x + m PROVE seg[c - x] \in Shape
  <2>1. c - x \in 1 .. m
    BY <1>5, ScreenNumbers
  <2> QED BY <1>4, <2>1
<1>6. ASSUME NEW r \in 0 .. Rows - 1 PROVE new[r] \in [1 .. Columns -> Shape]
  <2>1. sc[r] \in [1 .. Columns -> Shape]
    BY DEF Screens
  <2>2. \A c \in 1 .. Columns : sc[r][c] \in Shape
    BY <2>1
  <2>3. CASE r \in y .. y + Glyph - 1
    <3>1. new[r] = [c \in 1 .. Columns |-> IF c \in x + 1 .. x + m THEN seg[c - x] ELSE sc[r][c]]
      BY <1>2, <1>3, <2>3 DEF DrawnTo
    <3> QED BY <1>5, <2>2, <3>1
  <2>4. CASE r \notin y .. y + Glyph - 1
    BY <1>2, <2>1, <2>4 DEF DrawnTo
  <2> QED BY <2>3, <2>4
<1>7. new = [r \in 0 .. Rows - 1 |-> new[r]]
  BY <1>1 DEF Drawn
<1> QED BY <1>2, <1>6, <1>7 DEF Screens

\* And what scrolling does.
LEMMA ScrolledIs ==
  ASSUME NEW sc \in Screens, NEW top \in Nat, NEW y \in Nat, y + Line <= Rows,
         NEW new, new = video_scroll_up_region_full_width(sc, top, y, Line)
  PROVE  /\ new \in Screens
         /\ \A r \in 0 .. Rows - 1 : new[r] = IF r \in top .. y - 1 THEN sc[r + Line] ELSE sc[r]
<1>1. DOMAIN sc = 0 .. Rows - 1
  BY DEF Screens
<1>2. \A r \in 0 .. Rows - 1 : new[r] = IF r \in top .. y - 1 THEN sc[r + Line] ELSE sc[r]
  BY <1>1 DEF video_scroll_up_region_full_width
<1>3. \A r \in 0 .. Rows - 1 : r \in top .. y - 1 => r + Line \in 0 .. Rows - 1
  BY ScreenNumbers
<1>4. \A r \in 0 .. Rows - 1 : new[r] \in [1 .. Columns -> Shape]
  BY <1>2, <1>3 DEF Screens
<1>5. new = [r \in 0 .. Rows - 1 |-> new[r]]
  BY <1>1 DEF video_scroll_up_region_full_width
<1> QED BY <1>2, <1>4, <1>5 DEF Screens

\* A region whose rows are left alone stands as it did.
LEMMA OtherStands ==
  ASSUME NEW top, NEW bottom, NEW y, NEW ls, NEW k, NEW sc, NEW new,
         Standing(top, bottom, y, ls, k, sc),
         \A r \in 0 .. Rows - 1 : r \in top .. bottom - 1 => new[r] = sc[r]
  PROVE  Standing(top, bottom, y, ls, k, new)
<1> USE ScreenNumbers
<1>1. /\ k \in Nat \ {0} /\ top \in Nat /\ bottom \in Nat /\ bottom <= Rows /\ y \in Nat
      /\ top <= y /\ y + Line <= bottom
  BY DEF Standing
<1>2. ASSUME NEW n \in 1 .. k PROVE Stands(top, y - Up(k, n), ls[n], new)
  <2>1. PICK u \in Nat : u = Up(k, n)
    BY <1>1, UpIs
  <2>2. Stands(top, y - u, ls[n], sc)
    BY <2>1 DEF Standing
  <2>3. ASSUME y - u >= top, NEW r \in y - u .. y - u + Glyph - 1
        PROVE  r \in 0 .. Rows - 1 /\ r \in top .. bottom - 1
    BY <1>1, <2>3
  <2>4. y - u >= top => \A r \in y - u .. y - u + Glyph - 1 : new[r] = sc[r]
    BY <2>3
  <2>5. Stands(top, y - u, ls[n], new)
    BY <2>2, <2>4 DEF Stands
  <2> QED BY <2>1, <2>5
<1> QED BY <1>2 DEF Standing

\* A line that begins with a first segment or goes on.
BegunTo(b, ls, k, seg) ==
  /\ b \in Seq(Seq(Shape)) /\ Len(b) = k
  /\ \A n \in 1 .. k : n # k => b[n] = ls[n]
  /\ b[k] = IF ls[k] = <<>> THEN seg ELSE ls[k]

LEMMA BegunIs ==
  ASSUME NEW ls, ls \in Seq(Seq(Shape)), NEW k, k \in Nat \ {0}, Len(ls) = k,
         NEW seg, seg \in Seq(Shape),
         NEW b, b = Begun(ls, seg)
  PROVE  BegunTo(b, ls, k, seg)
<1> USE DEF BegunTo
<1>1. k \in 1 .. Len(ls)
  OBVIOUS
<1>2. CASE ls[k] = <<>>
  <2>1. b = [ls EXCEPT ![k] = seg]
    BY <1>2 DEF Begun, Last
  <2>2. /\ b \in Seq(Seq(Shape)) /\ Len(b) = Len(ls)
        /\ \A j \in 1 .. Len(ls) : b[j] = IF j = k THEN seg ELSE ls[j]
    BY <1>1, <2>1, Replaced
  <2> QED BY <1>1, <1>2, <2>2
<1>3. CASE ls[k] # <<>>
  <2>1. b = ls
    BY <1>3 DEF Begun, Last
  <2> QED BY <1>3, <2>1
<1> QED BY <1>2, <1>3

\* A segment that is written on a line.
LEMMA OnLineStands ==
  ASSUME NEW top, NEW bottom, NEW x, NEW y, NEW ls, NEW k, NEW sc, sc \in Screens,
         Standing(top, bottom, y, ls, k, sc), Behind(x, ls[k]),
         NEW seg \in Seq(Shape), x + Len(seg) <= Columns, NEW draws,
         draws \/ Len(seg) <= 1,
         NEW new, new = IF draws THEN Drawn(sc, x, y, seg) ELSE sc,
         NEW b, b = Begun(ls, seg)
  PROVE  Standing(top, bottom, y, b, k, new) /\ Within(top, bottom, sc, new)
<1> USE ScreenNumbers
<1>1. /\ k \in Nat \ {0} /\ top \in Nat /\ bottom \in Nat /\ bottom <= Rows /\ y \in Nat
      /\ top <= y /\ y + Line <= bottom /\ x \in Nat
  BY DEF Standing, Behind
<1>2. ls \in Seq(Seq(Shape)) /\ Len(ls) = k /\ \A n \in 1 .. k : Len(ls[n]) \in 0 .. Columns
  BY DEF Standing
<1>3. /\ b \in Seq(Seq(Shape)) /\ Len(b) = k
      /\ \A n \in 1 .. k : n # k => b[n] = ls[n]
      /\ b[k] = IF ls[k] = <<>> THEN seg ELSE ls[k]
  <2>1. BegunTo(b, ls, k, seg)
    BY <1>1, <1>2, BegunIs
  <2> QED BY <2>1 DEF BegunTo
<1>4. new \in Screens /\ (draws => DrawnTo(new, sc, x, y, seg)) /\ (~draws => new = sc)
  <2>1. CASE draws
    BY <1>1, <2>1, DrawnIs
  <2>2. CASE ~draws
    BY <2>2
  <2> QED BY <2>1, <2>2
<1>5. \A r \in 0 .. Rows - 1 : r \notin y .. y + Glyph - 1 => new[r] = sc[r]
  BY <1>4 DEF DrawnTo
<1>6. Within(top, bottom, sc, new)
  <2>1. \A r \in 0 .. Rows - 1 : r \in y .. y + Glyph - 1 => r \in top .. bottom - 1
    BY <1>1
  <2> QED BY <1>4, <1>5, <2>1 DEF Within
<1>7. PICK m \in Nat : m = Len(seg) /\ x + m <= Columns
  OBVIOUS
<1>8. \A n \in 1 .. k : Len(b[n]) \in 0 .. Columns
  <2>1. Len(seg) \in 0 .. Columns
    <3>1. m \in 0 .. Columns
      BY <1>1, <1>7
    <3> QED BY <1>7, <3>1
  <2> QED BY <1>2, <1>3, <2>1
<1>9. ASSUME NEW n \in 1 .. k, n # k
      PROVE  Stands(top, y - Up(k, n), b[n], new)
  <2>1. PICK u \in Nat : u = Up(k, n) /\ u >= Line
    <3>1. n < k
      BY <1>1, <1>9
    <3> QED BY <1>1, <3>1, UpIs
  <2>2. Stands(top, y - u, ls[n], sc)
    BY <2>1 DEF Standing
  <2>3. ASSUME y - u >= top, NEW r \in y - u .. y - u + Glyph - 1
        PROVE  r \in 0 .. Rows - 1 /\ r \notin y .. y + Glyph - 1
    BY <1>1, <2>1, <2>3, SMTT(60)
  <2>4. y - u >= top => \A r \in y - u .. y - u + Glyph - 1 : new[r] = sc[r]
    BY <1>5, <2>3
  <2>5. Stands(top, y - u, ls[n], new)
    BY <2>2, <2>4 DEF Stands
  <2> QED BY <1>3, <1>9, <2>1, <2>5
<1>10. Stands(top, y - Up(k, k), b[k], new)
  <2>1. y - Up(k, k) = y
    <3>1. k \in 1 .. k
      BY <1>1
    <3>2. Up(k, k) = 0
      BY <1>1, <3>1, UpIs
    <3> QED BY <1>1, <3>2
  <2>2. \A r \in y .. y + Glyph - 1 : r \in 0 .. Rows - 1
    BY <1>1
  <2>3. CASE ls[k] = <<>>
    <3>1. x = 0 /\ b[k] = seg
      BY <1>3, <2>3 DEF Behind
    <3>2. CASE draws
      <4>1. ASSUME NEW r \in y .. y + Glyph - 1 PROVE Starts(new[r], seg)
        <5>1. new[r] = [c \in 1 .. Columns |->
                          IF c \in x + 1 .. x + Len(seg) THEN seg[c - x] ELSE sc[r][c]]
          BY <1>4, <2>2, <3>2, <4>1 DEF DrawnTo
        <5>2. \A c \in 1 .. m : c \in 1 .. Columns /\ c \in x + 1 .. x + m /\ c - x = c
          BY <1>7, <3>1
        <5>3. \A c \in 1 .. m : new[r][c] = seg[c]
          BY <1>7, <5>1, <5>2
        <5> QED BY <1>7, <5>3 DEF Starts
      <4> QED BY <2>1, <3>1, <4>1 DEF Stands
    <3>3. CASE ~draws
      <4>1. ~ (Len(b[k]) > 1)
        BY <1>7, <3>1, <3>3
      <4> QED BY <4>1 DEF Stands
    <3> QED BY <3>2, <3>3
  <2>4. CASE ls[k] # <<>>
    <3>1. b[k] = ls[k]
      BY <1>3, <2>4
    <3>2. PICK l \in Nat : l = Len(ls[k]) /\ l <= x /\ l <= Columns
      <4>1. k \in 1 .. k
        BY <1>1
      <4>2. Len(ls[k]) \in 0 .. Columns
        BY <1>2, <4>1
      <4> QED BY <4>2 DEF Behind
    <3>3. Stands(top, y, ls[k], sc)
      <4>1. k \in 1 .. k
        BY <1>1
      <4>2. Stands(top, y - Up(k, k), ls[k], sc)
        BY <4>1 DEF Standing
      <4> QED BY <2>1, <4>2
    <3>4. ASSUME NEW r \in y .. y + Glyph - 1, Starts(sc[r], ls[k]) PROVE Starts(new[r], ls[k])
      <4>1. CASE draws
        <5>1. new[r] = [c \in 1 .. Columns |->
                          IF c \in x + 1 .. x + m THEN seg[c - x] ELSE sc[r][c]]
          BY <1>4, <1>7, <2>2, <3>4, <4>1 DEF DrawnTo
        <5>2. \A c \in 1 .. l : c \in 1 .. Columns /\ c \notin x + 1 .. x + m
          BY <1>1, <3>2
        <5>3. \A c \in 1 .. l : new[r][c] = sc[r][c]
          BY <5>1, <5>2
        <5> QED BY <3>2, <3>4, <5>3 DEF Starts
      <4>2. CASE ~draws
        BY <1>4, <3>4, <4>2
      <4> QED BY <4>1, <4>2
    <3>5. Stands(top, y, ls[k], new)
      BY <3>3, <3>4 DEF Stands
    <3> QED BY <2>1, <3>1, <3>5
  <2> QED BY <2>3, <2>4
<1>11. \A n \in 1 .. k : Stands(top, y - Up(k, n), b[n], new)
  BY <1>9, <1>10
<1>12. Standing(top, bottom, y, b, k, new)
  BY <1>1, <1>3, <1>8, <1>11 DEF Standing
<1> QED BY <1>6, <1>12

\* A writing that stands in a region, with the cursor behind its line.
Stood(top, bottom, w) ==
  \E k \in Nat : /\ Standing(top, bottom, w.y, w.lines, k, w.screen)
                 /\ Behind(w.x, w.lines[k])

Broken(cx, w, start, v) ==
  /\ Stood(cx.top, cx.bottom, v) /\ Within(cx.top, cx.bottom, w.screen, v.screen)
  /\ v.start = start /\ v.x = 0

\* A line break, of a region whose last line may have begun where the cursor is.
LEMMA BreakStands ==
  ASSUME NEW cx, NEW w, NEW k, Standing(cx.top, cx.bottom, w.y, w.lines, k, w.screen),
         w.screen \in Screens, NEW start, NEW v, v = LineBreak(cx, w, start)
  PROVE  Broken(cx, w, start, v)
<1> USE ScreenNumbers DEF Broken
<1> DEFINE ls == Append(w.lines, <<>>)
<1>1. PICK top \in Nat, bottom \in Nat, y \in Nat :
        /\ top = cx.top /\ bottom = cx.bottom /\ y = w.y
        /\ bottom <= Rows /\ top <= y /\ y + Line <= bottom
  BY DEF Standing
<1>2. k \in Nat \ {0} /\ w.lines \in Seq(Seq(Shape)) /\ Len(w.lines) = k
  BY DEF Standing
<1>3. /\ ls \in Seq(Seq(Shape)) /\ Len(ls) = k + 1
      /\ \A n \in 1 .. k : ls[n] = w.lines[n]
      /\ ls[k + 1] = <<>>
  <2>1. <<>> \in Seq(Shape)
    OBVIOUS
  <2> QED BY <1>2, <2>1, Appended
<1> HIDE DEF ls
<1>4. \A n \in 1 .. k : Len(w.lines[n]) \in 0 .. Columns /\ Stands(top, y - Up(k, n), w.lines[n], w.screen)
  BY <1>1 DEF Standing
<1>5. ASSUME NEW z \in Nat, top <= z, z + Line <= bottom, NEW new, new \in Screens,
             \A n \in 1 .. k : Stands(top, z - Up(k + 1, n), w.lines[n], new)
      PROVE  Standing(top, bottom, z, ls, k + 1, new)
  <2>1. \A n \in 1 .. k + 1 : n \in 1 .. k \/ n = k + 1
    BY <1>2
  <2>2. Len(ls[k + 1]) = 0
    BY <1>3
  <2>3. \A n \in 1 .. k + 1 : Len(ls[n]) \in 0 .. Columns
    <3>1. 0 \in 0 .. Columns
      OBVIOUS
    <3>2. Len(ls[k + 1]) \in 0 .. Columns
      BY <2>2, <3>1
    <3>3. \A n \in 1 .. k : Len(ls[n]) \in 0 .. Columns
      <4>1. \A n \in 1 .. k : Len(w.lines[n]) \in 0 .. Columns
        BY <1>4
      <4> QED BY <1>3, <4>1, Zenon
    <3> QED BY <2>1, <3>2, <3>3, Zenon
  <2>4. \A n \in 1 .. k + 1 : Stands(top, z - Up(k + 1, n), ls[n], new)
    <3>1. Stands(top, z - Up(k + 1, k + 1), ls[k + 1], new)
      BY <2>2 DEF Stands
    <3> QED BY <1>3, <1>5, <2>1, <3>1
  <2>5. k + 1 \in Nat \ {0}
    BY <1>2
  <2> QED BY <1>1, <1>3, <1>5, <2>3, <2>4, <2>5 DEF Standing
<1>6. Behind(0, ls[k + 1])
  BY <1>3 DEF Behind
<1>7. CASE Scrolls(w.y, cx.bottom)
  <2>0. PICK new : new = video_scroll_up_region_full_width(w.screen, cx.top, w.y, Line)
    OBVIOUS
  <2>1. v = Writing(0, w.y, new, ls, start)
    BY <1>7, <2>0 DEF LineBreak, ls
  <2>2. /\ new \in Screens
        /\ \A r \in 0 .. Rows - 1 : new[r] = IF r \in top .. y - 1 THEN w.screen[r + Line] ELSE w.screen[r]
    <3>1. y + Line <= Rows
      BY <1>1
    <3>2. PICK sc \in Screens : sc = w.screen
      OBVIOUS
    <3>3. new = video_scroll_up_region_full_width(sc, top, y, Line)
      BY <1>1, <2>0, <3>2
    <3>4. /\ new \in Screens
          /\ \A r \in 0 .. Rows - 1 : new[r] = IF r \in top .. y - 1 THEN sc[r + Line] ELSE sc[r]
      BY <3>1, <3>3, ScrolledIs
    <3> QED BY <3>2, <3>4
  <2>3. ASSUME NEW n \in 1 .. k PROVE Stands(top, y - Up(k + 1, n), w.lines[n], new)
    <3>1. PICK u \in Nat : u = Up(k, n)
      BY <1>2, UpIs
    <3>2. Up(k + 1, n) = u + Line
      BY <1>2, <3>1, UpIs
    <3>3. Stands(top, y - u, w.lines[n], w.screen)
      BY <1>4, <3>1
    <3>4. ASSUME y - (u + Line) >= top, NEW r \in y - (u + Line) .. y - (u + Line) + Glyph - 1
          PROVE  /\ r \in 0 .. Rows - 1 /\ r \in top .. y - 1
                 /\ r + Line \in y - u .. y - u + Glyph - 1
      BY <1>1, <3>4
    <3>5. y - (u + Line) >= top => y - u >= top
      BY <1>1
    <3>6. Stands(top, y - (u + Line), w.lines[n], new)
      <4> SUFFICES ASSUME y - (u + Line) >= top, Len(w.lines[n]) > 1,
                          NEW r \in y - (u + Line) .. y - (u + Line) + Glyph - 1
                   PROVE  Starts(new[r], w.lines[n])
        BY DEF Stands
      <4>1. /\ r \in 0 .. Rows - 1 /\ r \in top .. y - 1
            /\ r + Line \in y - u .. y - u + Glyph - 1
        BY <3>4
      <4>2. Starts(w.screen[r + Line], w.lines[n])
        BY <3>3, <3>5, <4>1 DEF Stands
      <4> QED BY <2>2, <4>1, <4>2
    <3> QED BY <3>2, <3>6
  <2>4. Standing(top, bottom, y, ls, k + 1, new)
    BY <1>1, <1>5, <2>2, <2>3
  <2>5. v.x = 0 /\ v.y = y /\ v.lines = ls /\ v.screen = new /\ v.start = start
    BY <1>1, <2>1 DEF Writing
  <2>6. Within(top, bottom, w.screen, new)
    <3>1. \A r \in 0 .. Rows - 1 : r \in top .. y - 1 => r \in top .. bottom - 1
      BY <1>1
    <3> QED BY <2>2, <3>1 DEF Within
  <2>7. k + 1 \in Nat
    BY <1>2
  <2> QED BY <1>1, <1>6, <2>4, <2>5, <2>6, <2>7 DEF Stood
<1>8. CASE ~Scrolls(w.y, cx.bottom)
  <2>1. v = Writing(0, w.y + Line, w.screen, ls, start)
    BY <1>8 DEF LineBreak, ls
  <2>2. ASSUME NEW n \in 1 .. k PROVE Stands(top, (y + Line) - Up(k + 1, n), w.lines[n], w.screen)
    <3>1. PICK u \in Nat : u = Up(k, n)
      BY <1>2, UpIs
    <3>2. Up(k + 1, n) = u + Line
      BY <1>2, <3>1, UpIs
    <3>3. (y + Line) - (u + Line) = y - u
      BY <1>1
    <3> QED BY <1>4, <3>1, <3>2, <3>3
  <2>3. y + Line \in Nat /\ top <= y + Line /\ y + Line + Line <= bottom
    BY <1>1, <1>8 DEF Scrolls
  <2>4. Standing(top, bottom, y + Line, ls, k + 1, w.screen)
    <3>1. PICK z \in Nat : z = y + Line
      BY <2>3
    <3>2. PICK sc \in Screens : sc = w.screen
      OBVIOUS
    <3>3. top <= z /\ z + Line <= bottom
      BY <2>3, <3>1
    <3>4. \A n \in 1 .. k : Stands(top, z - Up(k + 1, n), w.lines[n], sc)
      <4>1. ASSUME NEW n \in 1 .. k PROVE Stands(top, z - Up(k + 1, n), w.lines[n], sc)
        <5>1. Stands(top, (y + Line) - Up(k + 1, n), w.lines[n], w.screen)
          BY <2>2
        <5>2. z - Up(k + 1, n) = (y + Line) - Up(k + 1, n)
          BY <3>1
        <5> QED BY <3>2, <5>1, <5>2, Zenon
      <4> QED BY <4>1
    <3>5. Standing(top, bottom, z, ls, k + 1, sc)
      BY <1>5, <3>3, <3>4
    <3> QED BY <3>1, <3>2, <3>5
  <2>5. v.x = 0 /\ v.y = y + Line /\ v.lines = ls /\ v.screen = w.screen /\ v.start = start
    BY <1>1, <2>1 DEF Writing
  <2>6. Within(top, bottom, w.screen, w.screen)
    BY DEF Within
  <2>7. k + 1 \in Nat
    BY <1>2
  <2> QED BY <1>1, <1>6, <2>4, <2>5, <2>6, <2>7 DEF Stood
<1> QED BY <1>7, <1>8

\* A text that goes on: what of it is to come has room on the line.
Going(top, bottom, text, pos, sc, w) ==
  /\ w.start \in 0 .. pos /\ w.x + (Len(text) - w.start) <= Columns
  /\ Stood(top, bottom, w)
  /\ Within(top, bottom, sc, w.screen)

\* A part of a text.
LEMMA PartIs ==
  ASSUME NEW text \in Seq(Shape), NEW s \in Nat, NEW p \in Nat, s <= p, p <= Len(text)
  PROVE  SubSeq(text, s + 1, p) \in Seq(Shape) /\ Len(SubSeq(text, s + 1, p)) = p - s
OBVIOUS

LEMMA WithinGoesOn ==
  ASSUME NEW top, NEW bottom, NEW a, NEW b, NEW c, Within(top, bottom, a, b), Within(top, bottom, b, c)
  PROVE  Within(top, bottom, a, c)
BY DEF Within

\* What is written at a line break fits where all that was left of the text did.
LEMMA SegmentFits ==
  ASSUME NEW n \in Nat, NEW pos \in 1 .. n, NEW s \in Nat, s <= pos - 1,
         NEW x \in Nat, x + (n - s) <= Columns, NEW m, m = pos - 1 - s
  PROVE  x + m <= Columns
BY ScreenNumbers

\* A character more.
LEMMA PutGoes ==
  ASSUME NEW cx, NEW text, text \in Seq(Shape), NEW pos, pos \in 1 .. Len(text), NEW sc, NEW w,
         Going(cx.top, cx.bottom, text, pos - 1, sc, w)
  PROVE  Going(cx.top, cx.bottom, text, pos, sc, Put(cx, text, pos, w))
<1> USE ScreenNumbers
<1>1. PICK n \in Nat : n = Len(text)
  OBVIOUS
<1>2. pos \in 1 .. n
  BY <1>1
<1>3. PICK k \in Nat : Standing(cx.top, cx.bottom, w.y, w.lines, k, w.screen) /\ Behind(w.x, w.lines[k])
  BY DEF Going, Stood
<1>4. PICK s \in Nat : s = w.start /\ s <= pos - 1
  BY <1>2 DEF Going
<1>5. PICK x \in Nat : x = w.x /\ x + (n - s) <= Columns
  BY <1>1, <1>3, <1>4 DEF Going, Behind
<1>6. Within(cx.top, cx.bottom, sc, w.screen)
  BY DEF Going
<1>7. CASE text[pos] # Break
  <2>1. Put(cx, text, pos, w) = w
    BY <1>7 DEF Put
  <2>2. w.start \in 0 .. pos
    BY <1>2, <1>4
  <2>3. Going(cx.top, cx.bottom, text, pos, sc, w)
    BY <2>2 DEF Going
  <2> QED BY <2>1, <2>3, Zenon
<1>8. CASE text[pos] = Break
  <2>1. PICK seg : seg = SubSeq(text, w.start + 1, pos - 1)
    OBVIOUS
  <2>2. seg \in Seq(Shape) /\ Len(seg) = pos - 1 - s
    <3>1. pos - 1 \in Nat /\ pos - 1 <= Len(text)
      BY <1>1, <1>2
    <3> QED BY <1>4, <2>1, <3>1, PartIs
  <2>3. PICK u : u = OnLine(w, seg, Len(seg) > 1)
    OBVIOUS
  <2>6. /\ u.y = w.y /\ u.lines = Begun(w.lines, seg)
        /\ u.screen = IF Len(seg) > 1 THEN Drawn(w.screen, w.x, w.y, seg) ELSE w.screen
    BY <2>3 DEF OnLine, Writing
  <2>7. /\ Standing(cx.top, cx.bottom, u.y, u.lines, k, u.screen)
        /\ Within(cx.top, cx.bottom, w.screen, u.screen)
    <3>1. x + Len(seg) <= Columns
      BY <1>2, <1>4, <1>5, <2>2, SegmentFits, Zenon
    <3>2. Len(seg) > 1 \/ Len(seg) <= 1
      BY <1>2, <1>4, <2>2
    <3>3. w.screen \in Screens
      BY <1>6 DEF Within
    <3>4. w.x + Len(seg) <= Columns
      BY <1>5, <3>1
    <3> QED BY <1>3, <2>2, <2>6, <3>2, <3>3, <3>4, OnLineStands
  <2>8. PICK v : v = LineBreak(cx, u, pos)
    OBVIOUS
  <2>9. /\ Stood(cx.top, cx.bottom, v) /\ Within(cx.top, cx.bottom, u.screen, v.screen)
        /\ v.start = pos /\ v.x = 0
    <3>1. u.screen \in Screens
      BY <2>7 DEF Within
    <3>2. Standing(cx.top, cx.bottom, u.y, u.lines, k, u.screen)
      BY <2>7
    <3>3. Broken(cx, u, pos, v)
      BY <2>8, <3>1, <3>2, BreakStands
    <3> QED BY <3>3 DEF Broken
  <2>10. Within(cx.top, cx.bottom, sc, v.screen)
    BY <1>6, <2>7, <2>9, WithinGoesOn
  <2>11. v.start \in 0 .. pos /\ v.x + (Len(text) - v.start) <= Columns
    BY <1>1, <1>2, <1>4, <1>5, <2>9
  <2>12. Put(cx, text, pos, w) = v
    BY <1>8, <2>1, <2>3, <2>8, SMTT(60) DEF Put
  <2>13. Going(cx.top, cx.bottom, text, pos, sc, v)
    BY <2>9, <2>10, <2>11 DEF Going
  <2> QED BY <2>12, <2>13, Zenon
<1> QED BY <1>7, <1>8

\* The writings of a text, character by character.
Unrolls(f, n, cx, text, start) ==
  f = [pos \in 0 .. n |-> IF pos = 0 THEN start ELSE Put(cx, text, pos, f[pos - 1])]

LEMMA Unrolled ==
  ASSUME NEW m \in Nat, NEW cx, NEW text, NEW start
  PROVE  \E f : Unrolls(f, m, cx, text, start)
<1> DEFINE P == {n \in Nat : \E f : Unrolls(f, n, cx, text, start)}
<1>1. 0 \in P
  <2>1. PICK f : f = [pos \in 0 .. 0 |-> start]
    OBVIOUS
  <2>2. f = [pos \in 0 .. 0 |-> IF pos = 0 THEN start ELSE Put(cx, text, pos, f[pos - 1])]
    BY <2>1
  <2> QED BY <2>2 DEF Unrolls
<1>2. ASSUME NEW n \in 0 .. m - 1, n \in P PROVE n + 1 \in P
  <2>1. PICK f : Unrolls(f, n, cx, text, start)
    BY <1>2
  <2>2. PICK g : g = [pos \in 0 .. n + 1 |-> IF pos = n + 1 THEN Put(cx, text, n + 1, f[n]) ELSE f[pos]]
    OBVIOUS
  <2>3. \A pos \in 0 .. n : g[pos] = f[pos]
    BY <2>2
  <2>4. g[n + 1] = Put(cx, text, n + 1, f[n])
    BY <2>2
  <2>5. ASSUME NEW pos \in 0 .. n + 1
        PROVE  g[pos] = IF pos = 0 THEN start ELSE Put(cx, text, pos, g[pos - 1])
    <3>1. CASE pos = n + 1
      <4>1. pos # 0 /\ pos - 1 = n /\ n \in 0 .. n
        BY <3>1
      <4>2. g[pos - 1] = f[n]
        BY <2>3, <4>1
      <4> QED BY <2>4, <3>1, <4>1, <4>2
    <3>2. CASE pos # n + 1
      <4>1. pos \in 0 .. n /\ (pos # 0 => pos - 1 \in 0 .. n)
        BY <3>2
      <4>2. f[pos] = IF pos = 0 THEN start ELSE Put(cx, text, pos, f[pos - 1])
        BY <2>1, <4>1 DEF Unrolls
      <4>3. pos # 0 => g[pos - 1] = f[pos - 1]
        BY <2>3, <4>1
      <4>4. g[pos] = f[pos]
        BY <2>3, <4>1
      <4> QED BY <4>2, <4>3, <4>4
    <3> QED BY <3>1, <3>2
  <2>6. g = [pos \in 0 .. n + 1 |-> g[pos]]
    BY <2>2
  <2>7. Unrolls(g, n + 1, cx, text, start)
    BY <2>5, <2>6 DEF Unrolls
  <2> QED BY <2>7
<1> HIDE DEF P
<1>3. 0 .. m \subseteq P
  BY <1>1, <1>2, InductionUpTo
<1>4. m \in P
  BY <1>3
<1> QED BY <1>4 DEF P

\* A whole text.
LEMMA OutputStands ==
  ASSUME NEW cx, NEW text, text \in Seq(Shape), NEW start,
         start.start = 0, start.screen \in Screens, Stood(cx.top, cx.bottom, start),
         start.x + Len(text) <= Columns,
         NEW v, v = Output(cx, text, start)
  PROVE  Stood(cx.top, cx.bottom, v) /\ Within(cx.top, cx.bottom, start.screen, v.screen)
<1> USE ScreenNumbers
<1>1. PICK n \in Nat : n = Len(text)
  OBVIOUS
<1>2. PICK after : after = CHOOSE f : Unrolls(f, Len(text), cx, text, start)
  OBVIOUS
<1>3. Unrolls(after, n, cx, text, start)
  BY <1>1, <1>2, Unrolled
<1> DEFINE P == {p \in Nat : Going(cx.top, cx.bottom, text, p, start.screen, after[p])}
<1>4. 0 \in P
  <2>1. after[0] = start
    BY <1>3 DEF Unrolls
  <2>2. start.x + (Len(text) - start.start) <= Columns /\ start.start \in 0 .. 0
    BY <1>1
  <2>3. Within(cx.top, cx.bottom, start.screen, start.screen)
    BY DEF Within
  <2>4. Going(cx.top, cx.bottom, text, 0, start.screen, start)
    BY <2>2, <2>3 DEF Going
  <2> QED BY <2>1, <2>4
<1>5. ASSUME NEW p \in 0 .. n - 1, p \in P PROVE p + 1 \in P
  <2>1. p + 1 \in 1 .. Len(text) /\ p + 1 \in 0 .. n /\ p + 1 # 0 /\ (p + 1) - 1 = p
    BY <1>1
  <2>2. after[p + 1] = Put(cx, text, p + 1, after[p])
    BY <1>3, <2>1 DEF Unrolls
  <2>3. PICK w : w = after[p]
    OBVIOUS
  <2>4. Going(cx.top, cx.bottom, text, (p + 1) - 1, start.screen, w)
    BY <1>5, <2>1, <2>3
  <2>5. Going(cx.top, cx.bottom, text, p + 1, start.screen, Put(cx, text, p + 1, w))
    BY <2>1, <2>4, PutGoes, Zenon
  <2> QED BY <2>2, <2>3, <2>5
<1>6. Going(cx.top, cx.bottom, text, n, start.screen, after[n])
  <2> HIDE DEF P
  <2>1. 0 .. n \subseteq P
    BY <1>4, <1>5, InductionUpTo
  <2>2. n \in P
    BY <2>1
  <2> QED BY <2>2 DEF P
<1>7. PICK end : end = after[n]
  OBVIOUS
<1>8. PICK rest : rest = OnLine(end, SubSeq(text, end.start + 1, Len(text)), TRUE)
  OBVIOUS
<1>9. v = IF end.start = Len(text) THEN end
          ELSE Writing(end.x + Len(text), end.y, rest.screen, rest.lines, end.start)
  BY <1>1, <1>2, <1>7, <1>8 DEF Output, Unrolls
<1>10. Going(cx.top, cx.bottom, text, n, start.screen, end)
  BY <1>6, <1>7, Zenon
<1>11. CASE end.start = Len(text)
  BY <1>9, <1>10, <1>11 DEF Going
<1>12. CASE end.start # Len(text)
  <2>1. PICK k \in Nat : /\ Standing(cx.top, cx.bottom, end.y, end.lines, k, end.screen)
                         /\ Behind(end.x, end.lines[k])
    BY <1>10 DEF Going, Stood
  <2>2. PICK s \in Nat : s = end.start /\ s < n
    BY <1>1, <1>10, <1>12 DEF Going
  <2>3. PICK x \in Nat : x = end.x /\ x + (n - s) <= Columns
    BY <1>1, <1>10, <2>1, <2>2 DEF Going, Behind
  <2>4. PICK seg : seg = SubSeq(text, end.start + 1, Len(text))
    OBVIOUS
  <2>5. seg \in Seq(Shape) /\ Len(seg) = n - s
    BY <1>1, <2>2, <2>4, PartIs
  <2>7. rest = OnLine(end, seg, TRUE)
    BY <1>8, <2>4, Zenon
  <2>8. /\ rest.lines = Begun(end.lines, seg)
        /\ rest.screen = IF TRUE THEN Drawn(end.screen, end.x, end.y, seg) ELSE end.screen
    BY <2>7 DEF OnLine, Writing
  <2>9. end.x + Len(seg) <= Columns
    BY <2>3, <2>5
  <2>10. end.screen \in Screens
    BY <1>10 DEF Going, Within
  <2>11. /\ Standing(cx.top, cx.bottom, end.y, rest.lines, k, rest.screen)
         /\ Within(cx.top, cx.bottom, end.screen, rest.screen)
    BY <2>1, <2>5, <2>8, <2>9, <2>10, OnLineStands
  <2>12. v.x = x + n /\ v.y = end.y /\ v.lines = rest.lines /\ v.screen = rest.screen
    BY <1>1, <1>9, <1>12, <2>3 DEF Writing
  <2>13. Behind(x + n, rest.lines[k])
    <3>1. /\ end.lines \in Seq(Seq(Shape)) /\ k \in Nat \ {0} /\ Len(end.lines) = k
      BY <2>1 DEF Standing
    <3>2. rest.lines[k] = IF end.lines[k] = <<>> THEN seg ELSE end.lines[k]
      <4>1. BegunTo(rest.lines, end.lines, k, seg)
        BY <2>5, <2>8, <3>1, BegunIs
      <4> QED BY <4>1 DEF BegunTo
    <3>3. CASE end.lines[k] = <<>>
      <4>1. seg # <<>> /\ Len(seg) <= x + n
        BY <2>2, <2>5
      <4> QED BY <3>2, <3>3, <4>1 DEF Behind
    <3>4. CASE end.lines[k] # <<>>
      <4>1. PICK l \in Nat : l = Len(end.lines[k]) /\ l <= x
        <5>1. k \in 1 .. k
          BY <3>1
        <5>2. Len(end.lines[k]) \in 0 .. Columns
          BY <2>1, <5>1 DEF Standing
        <5> QED BY <2>1, <2>3, <5>2 DEF Behind
      <4>2. l <= x + n
        BY <4>1
      <4> QED BY <3>2, <3>4, <4>1, <4>2 DEF Behind
    <3> QED BY <3>3, <3>4
  <2>14. Within(cx.top, cx.bottom, start.screen, v.screen)
    <3>1. Within(cx.top, cx.bottom, start.screen, end.screen)
      BY <1>10 DEF Going
    <3> QED BY <2>11, <2>12, <3>1, WithinGoesOn
  <2> QED BY <2>11, <2>12, <2>13, <2>14 DEF Stood
<1> QED BY <1>11, <1>12

-----------------------------------------------------------------------------
\* A region: its lines ls stand on the screen sc, its cursor behind the last.
Placed(cx, ls, sc) == Stood(cx.top, cx.bottom, Writing(cx.x, cx.y, sc, ls, 0))

Apart(a, b) == a.bottom <= b.top \/ b.bottom <= a.top

Placements == [top : Nat, bottom : Nat, x : Nat, y : Nat, font : BOOLEAN]

\* The regions lie apart, and in each the lines stand that were written there.
ConsoleInv ==
  /\ shown = screen /\ screen \in Screens
  /\ contexts \in Seq(Placements) /\ active \in 1 .. Len(contexts)
  /\ lines \in Seq(Seq(Seq(Shape))) /\ Len(lines) = Len(contexts)
  /\ \A i, j \in 2 .. Len(contexts) : i # j => Apart(contexts[i], contexts[j])
  /\ \A i \in Regions : Placed(contexts[i], lines[i], screen)

LEMMA PlacedIs ==
  ASSUME NEW cx, NEW ls, NEW sc
  PROVE  Placed(cx, ls, sc) <=>
           \E k \in Nat : Standing(cx.top, cx.bottom, cx.y, ls, k, sc) /\ Behind(cx.x, ls[k])
<1>1. PICK w : w = Writing(cx.x, cx.y, sc, ls, 0)
  OBVIOUS
<1>2. w.x = cx.x /\ w.y = cx.y /\ w.screen = sc /\ w.lines = ls
  BY <1>1 DEF Writing
<1> QED BY <1>1, <1>2 DEF Placed, Stood

\* A region in which nothing was written.
LEMMA EmptyIsPlaced ==
  ASSUME NEW cx, NEW sc, cx.top \in Nat, cx.bottom \in Nat, cx.bottom <= Rows,
         cx.top + Line <= cx.bottom, cx.x = 0, cx.y = cx.top
  PROVE  Placed(cx, << <<>> >>, sc)
<1> USE ScreenNumbers
<1>1. PICK ls : ls = << <<>> >>
  OBVIOUS
<1>2. ls \in Seq(Seq(Shape)) /\ Len(ls) = 1 /\ ls[1] = <<>>
  BY <1>1
<1>3. \A n \in 1 .. 1 : n = 1
  OBVIOUS
<1>4. Len(<<>>) = 0 /\ 0 \in 0 .. Columns
  OBVIOUS
<1>5. \A n \in 1 .. 1 : Len(ls[n]) \in 0 .. Columns /\ Stands(cx.top, cx.y - Up(1, n), ls[n], sc)
  BY <1>2, <1>3, <1>4 DEF Stands
<1>6. Standing(cx.top, cx.bottom, cx.y, ls, 1, sc)
  BY <1>2, <1>5 DEF Standing
<1>7. Behind(cx.x, ls[1])
  BY <1>2 DEF Behind
<1>8. Placed(cx, ls, sc)
  BY <1>6, <1>7, PlacedIs
<1> QED BY <1>1, <1>8

\* What is written in another region does not touch this one.
LEMMA OtherIsPlaced ==
  ASSUME NEW cx, NEW ls, NEW sc, NEW new, Placed(cx, ls, sc), NEW d, Apart(cx, d),
         d.top \in Nat, d.bottom \in Nat, Within(d.top, d.bottom, sc, new)
  PROVE  Placed(cx, ls, new)
<1>1. PICK k \in Nat : Standing(cx.top, cx.bottom, cx.y, ls, k, sc) /\ Behind(cx.x, ls[k])
  BY PlacedIs
<1>2. PICK top \in Nat, bottom \in Nat : top = cx.top /\ bottom = cx.bottom
  BY <1>1 DEF Standing
<1>3. PICK a \in Nat, b \in Nat : a = d.top /\ b = d.bottom
  OBVIOUS
<1>4. bottom <= a \/ b <= top
  BY <1>2, <1>3 DEF Apart
<1>5. \A r \in 0 .. Rows - 1 : r \in top .. bottom - 1 => r \notin a .. b - 1
  BY <1>4, ScreenNumbers
<1>6. \A r \in 0 .. Rows - 1 : r \in top .. bottom - 1 => new[r] = sc[r]
  BY <1>3, <1>5 DEF Within
<1>7. Standing(cx.top, cx.bottom, cx.y, ls, k, new)
  BY <1>1, <1>2, <1>6, OtherStands
<1> QED BY <1>1, <1>7, PlacedIs

\* When the screen is cleared, the lines of the other regions are.
LEMMA WipedIsPlaced ==
  ASSUME NEW cx, NEW ls, NEW sc, NEW new, Placed(cx, ls, sc)
  PROVE  Placed(cx, Wiped(ls), new)
<1> USE ScreenNumbers
<1>1. PICK k \in Nat : Standing(cx.top, cx.bottom, cx.y, ls, k, sc) /\ Behind(cx.x, ls[k])
  BY PlacedIs
<1>2. PICK v : v = Wiped(ls)
  OBVIOUS
<1>3. k \in Nat \ {0} /\ ls \in Seq(Seq(Shape)) /\ Len(ls) = k
  BY <1>1 DEF Standing
<1>4. v = [n \in 1 .. k |-> IF ls[n] = <<>> THEN <<>> ELSE <<Clear>>]
  <2>1. DOMAIN ls = 1 .. k
    BY <1>3
  <2> QED BY <1>2, <2>1 DEF Wiped
<1>5. <<>> \in Seq(Shape) /\ <<Clear>> \in Seq(Shape) /\ Len(<<>>) = 0 /\ Len(<<Clear>>) = 1
  BY DEF Shape
<1>6. v \in Seq(Seq(Shape)) /\ Len(v) = k
  <2>1. \A n \in 1 .. k : v[n] \in Seq(Shape)
    BY <1>4, <1>5
  <2>2. v = [n \in 1 .. k |-> v[n]]
    BY <1>4
  <2> QED BY <1>3, <2>1, <2>2, Listed
<1>7. ASSUME NEW n \in 1 .. k PROVE Len(v[n]) \in 0 .. Columns /\ ~ (Len(v[n]) > 1)
  <2>1. ls[n] \in Seq(Shape)
    BY <1>3
  <2>2. PICK m \in Nat : m = Len(ls[n]) /\ m <= Columns
    BY <1>1 DEF Standing
  <2>3. CASE ls[n] = <<>>
    BY <1>4, <1>5, <2>3
  <2>4. CASE ls[n] # <<>>
    <3>1. m # 0
      BY <2>1, <2>2, <2>4
    <3>2. 1 <= Columns
      BY <2>2, <3>1
    <3> QED BY <1>4, <1>5, <2>4, <3>2
  <2> QED BY <2>3, <2>4
<1>8. \A n \in 1 .. k : Stands(cx.top, cx.y - Up(k, n), v[n], new)
  BY <1>7 DEF Stands
<1>9. Standing(cx.top, cx.bottom, cx.y, v, k, new)
  BY <1>1, <1>6, <1>7, <1>8 DEF Standing
<1>10. Behind(cx.x, v[k])
  <2>1. k \in 1 .. k /\ ls[k] \in Seq(Shape)
    BY <1>3
  <2>2. CASE ls[k] = <<>>
    BY <1>1, <1>4, <1>5, <2>1, <2>2 DEF Behind
  <2>3. CASE ls[k] # <<>>
    <3>1. PICK m \in Nat : m = Len(ls[k]) /\ m # 0
      BY <2>1, <2>3
    <3>2. PICK x \in Nat : x = cx.x /\ m <= x
      BY <1>1, <3>1 DEF Behind
    <3>3. v[k] = <<Clear>> /\ Len(v[k]) = 1 /\ v[k] # <<>>
      BY <1>4, <1>5, <2>1, <2>3
    <3>4. 1 <= x
      BY <3>1, <3>2
    <3> QED BY <3>2, <3>3, <3>4 DEF Behind
  <2> QED BY <2>2, <2>3
<1>11. Placed(cx, v, new)
  BY <1>9, <1>10, PlacedIs
<1> QED BY <1>2, <1>11

\* The context that is written in, and the one it becomes.
LEMMA AtIs ==
  ASSUME NEW cx, cx \in Placements, NEW x, x \in Nat, NEW y, y \in Nat,
         NEW new, new = At(cx, x, y)
  PROVE  /\ new \in Placements /\ new.x = x /\ new.y = y
         /\ new.top = cx.top /\ new.bottom = cx.bottom
BY DEF At, Placements

\* Only regions that lie apart are written in.
LEMMA OthersLieApart ==
  ASSUME ConsoleInv, Usable
  PROVE  active \in Regions /\ \A i \in Regions : i # active => Apart(contexts[i], Cx)
<1>1. PICK n \in Nat : n = Len(contexts)
  BY DEF ConsoleInv
<1>2. active \in 1 .. n /\ (active = 1 => n = 1)
  BY <1>1 DEF ConsoleInv, Usable
<1>3. CASE n = 1
  BY <1>1, <1>2, <1>3 DEF Regions
<1>4. CASE n # 1
  <2>1. Regions = 2 .. n /\ active \in 2 .. n
    BY <1>1, <1>2, <1>4 DEF Regions
  <2> QED BY <1>1, <2>1 DEF ConsoleInv, Cx
<1> QED BY <1>3, <1>4

\* What is written in a region changes nothing in the others.
LEMMA EffectKeeps ==
  ASSUME ConsoleInv, Usable, NEW v, NEW n, Effect(v, n),
         Stood(Cx.top, Cx.bottom, v), Within(Cx.top, Cx.bottom, screen, v.screen)
  PROVE  ConsoleInv'
<1>1. PICK k \in Nat : Standing(Cx.top, Cx.bottom, v.y, v.lines, k, v.screen) /\ Behind(v.x, v.lines[k])
  BY DEF Stood
<1>2. PICK len \in Nat : len = Len(contexts) /\ len = Len(lines)
  BY DEF ConsoleInv
<1>3. PICK old : old = Cx
  OBVIOUS
<1>4. old \in Placements
  BY <1>2, <1>3 DEF ConsoleInv, Cx
<1>5. v.x \in Nat /\ v.y \in Nat /\ v.lines \in Seq(Seq(Shape)) /\ v.screen \in Screens
  BY <1>1 DEF Standing, Behind, Within
<1>6. PICK new : new = At(old, v.x, v.y)
  OBVIOUS
<1>7. /\ new \in Placements /\ new.x = v.x /\ new.y = v.y
      /\ new.top = old.top /\ new.bottom = old.bottom
  <2>1. PICK x \in Nat, y \in Nat : x = v.x /\ y = v.y
    BY <1>5
  <2>2. new = At(old, x, y)
    BY <1>6, <2>1
  <2> QED BY <1>4, <2>1, <2>2, AtIs
<1>8. contexts' = [contexts EXCEPT ![active] = new]
  BY <1>3, <1>6 DEF Effect
<1>9. /\ contexts' \in Seq(Placements) /\ Len(contexts') = len
      /\ \A i \in 1 .. len : contexts'[i] = IF i = active THEN new ELSE contexts[i]
  BY <1>2, <1>7, <1>8, Replaced DEF ConsoleInv
<1>10. /\ lines' \in Seq(Seq(Seq(Shape))) /\ Len(lines') = len
       /\ \A i \in 1 .. len : lines'[i] = IF i = active THEN v.lines ELSE lines[i]
  <2>1. lines' = [lines EXCEPT ![active] = v.lines]
    BY DEF Effect
  <2> QED BY <1>2, <1>5, <2>1, Replaced DEF ConsoleInv
<1>11. shown' = screen' /\ screen' = v.screen /\ active' = active
  BY DEF Effect
<1>12. \A i \in 1 .. len : contexts'[i].top = contexts[i].top /\ contexts'[i].bottom = contexts[i].bottom
  BY <1>3, <1>7, <1>9 DEF Cx
<1>13. Regions' = Regions /\ Regions \subseteq 1 .. len
  BY <1>2, <1>9 DEF Regions, ConsoleInv
<1>14. ASSUME NEW i \in Regions PROVE Placed(contexts'[i], lines'[i], v.screen)
  <2>1. CASE i = active
    <3>1. contexts'[i] = new /\ lines'[i] = v.lines
      BY <1>9, <1>10, <1>13, <2>1
    <3>2. Placed(new, v.lines, v.screen)
      <4>1. Standing(new.top, new.bottom, new.y, v.lines, k, v.screen) /\ Behind(new.x, v.lines[k])
        BY <1>1, <1>3, <1>7
      <4> QED BY <4>1, PlacedIs
    <3> QED BY <3>1, <3>2
  <2>2. CASE i # active
    <3>1. contexts'[i] = contexts[i] /\ lines'[i] = lines[i]
      BY <1>9, <1>10, <1>13, <2>2
    <3>2. Apart(contexts[i], Cx)
      BY <2>2, OthersLieApart
    <3>3. Placed(contexts[i], lines[i], screen)
      BY DEF ConsoleInv
    <3>4. Cx.top \in Nat /\ Cx.bottom \in Nat
      BY <1>3, <1>4 DEF Placements
    <3>5. Placed(contexts[i], lines[i], v.screen)
      BY <3>2, <3>3, <3>4, OtherIsPlaced
    <3> QED BY <3>1, <3>5
  <2> QED BY <2>1, <2>2
<1>15. \A i, j \in 2 .. len : i # j => Apart(contexts'[i], contexts'[j])
  <2>1. ASSUME NEW i \in 2 .. len, NEW j \in 2 .. len, i # j PROVE Apart(contexts'[i], contexts'[j])
    <3>1. Apart(contexts[i], contexts[j])
      BY <1>2, <2>1 DEF ConsoleInv
    <3>2. i \in 1 .. len /\ j \in 1 .. len
      OBVIOUS
    <3> QED BY <1>12, <3>1, <3>2 DEF Apart
  <2> QED BY <2>1
<1>16. active \in 1 .. len
  BY <1>2 DEF ConsoleInv
<1> QED BY <1>5, <1>9, <1>10, <1>11, <1>13, <1>14, <1>15, <1>16 DEF ConsoleInv

\* What the active context is about to write.
LEMMA NowStands ==
  ASSUME ConsoleInv, Usable
  PROVE  /\ Stood(Cx.top, Cx.bottom, Now) /\ Now.start = 0 /\ Now.screen \in Screens
         /\ Now.screen = screen /\ Now.x = Cx.x
<1>1. Placed(contexts[active], lines[active], screen)
  BY OthersLieApart DEF ConsoleInv
<1>2. Stood(Cx.top, Cx.bottom, Now)
  BY <1>1 DEF Placed, Cx, Now
<1> QED BY <1>2 DEF Now, Writing, ConsoleInv

LEMMA RegionCreated ==
  ASSUME ConsoleInv, output_console_create_region
  PROVE  ConsoleInv'
<1> USE ScreenNumbers
<1>1. PICK b \in Bands :
        /\ \A i \in 2 .. Len(contexts) : b.bottom <= contexts[i].top \/ contexts[i].bottom <= b.top
        /\ contexts' = Append(contexts, Context(b.top, b.bottom))
  BY DEF output_console_create_region
<1>2. PICK top \in Nat, bottom \in Nat :
        top = b.top /\ bottom = b.bottom /\ bottom <= Rows /\ top + Line <= bottom
  <2>1. b.top \in 0 .. Rows /\ b.bottom \in 0 .. Rows /\ b.top + Line <= b.bottom
    BY ConsoleAssumption
  <2> QED BY <2>1
<1>3. PICK new : new = Context(top, bottom)
  OBVIOUS
<1>4. /\ new \in Placements /\ new.top = top /\ new.bottom = bottom /\ new.x = 0 /\ new.y = top
  BY <1>3 DEF Context, Placements
<1>5. PICK n \in Nat \ {0} : n = Len(contexts) /\ n = Len(lines)
  <2>1. Len(contexts) \in Nat \ {0}
    BY DEF ConsoleInv
  <2> QED BY <2>1 DEF ConsoleInv
<1>6. /\ contexts' \in Seq(Placements) /\ Len(contexts') = n + 1
      /\ \A i \in 1 .. n : contexts'[i] = contexts[i]
      /\ contexts'[n + 1] = new
  <2>1. contexts' = Append(contexts, new)
    BY <1>1, <1>2, <1>3
  <2> QED BY <1>4, <1>5, <2>1, Appended DEF ConsoleInv
<1>7. /\ lines' \in Seq(Seq(Seq(Shape))) /\ Len(lines') = n + 1
      /\ \A i \in 1 .. n : lines'[i] = lines[i]
      /\ lines'[n + 1] = << <<>> >>
  <2>1. << <<>> >> \in Seq(Seq(Shape))
    OBVIOUS
  <2>2. lines' = Append(lines, << <<>> >>)
    BY DEF output_console_create_region
  <2>3. PICK e \in Seq(Seq(Shape)) : e = << <<>> >>
    BY <2>1
  <2>4. lines' = Append(lines, e)
    BY <2>2, <2>3
  <2>5. lines \in Seq(Seq(Seq(Shape))) /\ Len(lines) = n
    BY <1>5 DEF ConsoleInv
  <2>6. /\ Append(lines, e) \in Seq(Seq(Seq(Shape))) /\ Len(Append(lines, e)) = n + 1
        /\ \A j \in 1 .. n : Append(lines, e)[j] = lines[j]
        /\ Append(lines, e)[n + 1] = e
    BY <2>5, Appended
  <2> QED BY <2>3, <2>4, <2>6
<1>8. shown' = shown /\ screen' = screen /\ active' = active
  BY DEF output_console_create_region
<1>9. \A i \in 2 .. n : Apart(contexts[i], new) /\ Apart(new, contexts[i])
  BY <1>1, <1>2, <1>4, <1>5 DEF Apart
<1>10. \A i \in 2 .. n + 1 : i \in 2 .. n \/ i = n + 1
  OBVIOUS
<1>11. \A i \in 2 .. n : i \in 1 .. n
  OBVIOUS
<1>12. ASSUME NEW i \in 2 .. n + 1, NEW j \in 2 .. n + 1, i # j
       PROVE  Apart(contexts'[i], contexts'[j])
  <2>1. CASE i \in 2 .. n /\ j \in 2 .. n
    <3>1. Apart(contexts[i], contexts[j])
      BY <1>5, <1>12, <2>1 DEF ConsoleInv
    <3> QED BY <1>6, <1>11, <2>1, <3>1
  <2>2. CASE i \in 2 .. n /\ j = n + 1
    BY <1>6, <1>9, <1>11, <2>2
  <2>3. CASE i = n + 1 /\ j \in 2 .. n
    BY <1>6, <1>9, <1>11, <2>3
  <2> QED BY <1>10, <1>12, <2>1, <2>2, <2>3
<1>13. Placed(new, << <<>> >>, screen)
  BY <1>2, <1>4, EmptyIsPlaced
<1>14. ASSUME NEW i \in 2 .. n + 1 PROVE Placed(contexts'[i], lines'[i], screen)
  <2>1. CASE i \in 2 .. n
    <3>1. i \in Regions
      BY <1>5, <2>1 DEF Regions
    <3>2. Placed(contexts[i], lines[i], screen)
      BY <3>1 DEF ConsoleInv
    <3> QED BY <1>6, <1>7, <1>11, <2>1, <3>2
  <2>2. CASE i = n + 1
    BY <1>6, <1>7, <1>13, <2>2
  <2> QED BY <1>10, <2>1, <2>2
<1>15. Regions' = 2 .. n + 1
  BY <1>5, <1>6 DEF Regions
<1>16. active \in 1 .. n + 1 /\ shown = screen /\ screen \in Screens
  BY <1>5 DEF ConsoleInv
<1> QED BY <1>6, <1>7, <1>8, <1>12, <1>14, <1>15, <1>16 DEF ConsoleInv

LEMMA ScreenCleared ==
  ASSUME ConsoleInv, output_console_clear_screen
  PROVE  ConsoleInv'
<1> USE ScreenNumbers
<1>1. PICK n \in Nat : n = Len(contexts) /\ n = Len(lines)
  BY DEF ConsoleInv
<1>2. PICK old : old = Cx
  OBVIOUS
<1>3. old \in Placements
  BY <1>1, <1>2 DEF ConsoleInv, Cx
<1>4. PICK new : new = At(old, 0, old.top)
  OBVIOUS
<1>5. /\ new \in Placements /\ new.x = 0 /\ new.y = old.top
      /\ new.top = old.top /\ new.bottom = old.bottom
  <2>1. old.top \in Nat
    BY <1>3 DEF Placements
  <2>2. PICK x \in Nat, y \in Nat : x = 0 /\ y = old.top
    BY <2>1
  <2>3. new = At(old, x, y)
    BY <1>4, <2>2
  <2> QED BY <1>3, <2>2, <2>3, AtIs
<1>6. /\ contexts' \in Seq(Placements) /\ Len(contexts') = n
      /\ \A i \in 1 .. n : contexts'[i] = IF i = active THEN new ELSE contexts[i]
  <2>1. contexts' = [contexts EXCEPT ![active] = new]
    BY <1>2, <1>4 DEF output_console_clear_screen
  <2> QED BY <1>1, <1>5, <2>1, Replaced DEF ConsoleInv
<1>7. lines' = [i \in 1 .. n |-> IF i = active THEN << <<>> >> ELSE Wiped(lines[i])]
  <2>1. DOMAIN lines = 1 .. n
    BY <1>1 DEF ConsoleInv
  <2> QED BY <2>1 DEF output_console_clear_screen
<1>8. lines' \in Seq(Seq(Seq(Shape))) /\ Len(lines') = n
  <2>1. ASSUME NEW i \in 1 .. n PROVE lines'[i] \in Seq(Seq(Shape))
    <3>1. PICK ls : ls = lines[i]
      OBVIOUS
    <3>2. ls \in Seq(Seq(Shape))
      BY <1>1, <3>1 DEF ConsoleInv
    <3>3. PICK k \in Nat : k = Len(ls) /\ DOMAIN ls = 1 .. k
      BY <3>2
    <3>4. PICK f : f = Wiped(ls)
      OBVIOUS
    <3>5. f = [m \in 1 .. k |-> IF ls[m] = <<>> THEN <<>> ELSE <<Clear>>]
      BY <3>3, <3>4 DEF Wiped
    <3>6. <<>> \in Seq(Shape) /\ <<Clear>> \in Seq(Shape)
      BY DEF Shape
    <3>7. f \in Seq(Seq(Shape))
      <4>1. \A m \in 1 .. k : f[m] \in Seq(Shape)
        BY <3>5, <3>6
      <4>2. f = [m \in 1 .. k |-> f[m]]
        BY <3>5
      <4> QED BY <4>1, <4>2, Listed
    <3>8. << <<>> >> \in Seq(Seq(Shape))
      OBVIOUS
    <3> QED BY <1>7, <3>1, <3>4, <3>7, <3>8
  <2>2. lines' = [i \in 1 .. n |-> lines'[i]]
    BY <1>7
  <2> QED BY <2>1, <2>2, Listed
<1>9. Blank \in Screens
  <2>1. Clear \in Shape
    BY DEF Shape
  <2> QED BY <2>1 DEF Blank, Screens
<1>10. shown' = screen' /\ screen' = Blank /\ active' = active
  BY DEF output_console_clear_screen
<1>11. \A i \in 1 .. n : contexts'[i].top = contexts[i].top /\ contexts'[i].bottom = contexts[i].bottom
  BY <1>2, <1>5, <1>6 DEF Cx
<1>12. \A i, j \in 2 .. n : i # j => Apart(contexts'[i], contexts'[j])
  <2>1. ASSUME NEW i \in 2 .. n, NEW j \in 2 .. n, i # j PROVE Apart(contexts'[i], contexts'[j])
    <3>1. Apart(contexts[i], contexts[j])
      BY <1>1, <2>1 DEF ConsoleInv
    <3>2. i \in 1 .. n /\ j \in 1 .. n
      OBVIOUS
    <3> QED BY <1>11, <3>1, <3>2 DEF Apart
  <2> QED BY <2>1
<1>13. Regions' = Regions /\ Regions \subseteq 1 .. n
  BY <1>1, <1>6 DEF Regions, ConsoleInv
<1>14. ASSUME NEW i \in Regions PROVE Placed(contexts'[i], lines'[i], Blank)
  <2>1. i \in 1 .. n
    BY <1>13
  <2>2. Placed(contexts[i], lines[i], screen)
    BY DEF ConsoleInv
  <2>3. CASE i = active
    <3>1. new.top \in Nat /\ new.bottom \in Nat /\ new.bottom <= Rows /\ new.top + Line <= new.bottom
      <4>1. PICK k \in Nat : Standing(old.top, old.bottom, old.y, lines[i], k, screen)
        BY <1>2, <2>2, <2>3, PlacedIs DEF Cx
      <4>2. PICK top \in Nat, bottom \in Nat, y \in Nat :
              /\ top = old.top /\ bottom = old.bottom /\ y = old.y
              /\ bottom <= Rows /\ top <= y /\ y + Line <= bottom
        BY <4>1 DEF Standing
      <4>3. top + Line <= bottom
        BY <4>2
      <4> QED BY <1>5, <4>2, <4>3
    <3>2. Placed(new, << <<>> >>, Blank)
      BY <1>5, <3>1, EmptyIsPlaced
    <3> QED BY <1>6, <1>7, <2>1, <2>3, <3>2
  <2>4. CASE i # active
    <3>1. Placed(contexts[i], Wiped(lines[i]), Blank)
      BY <2>2, WipedIsPlaced
    <3> QED BY <1>6, <1>7, <2>1, <2>4, <3>1
  <2> QED BY <2>3, <2>4
<1>15. active \in 1 .. n
  BY <1>1 DEF ConsoleInv
<1> QED BY <1>6, <1>8, <1>9, <1>10, <1>12, <1>13, <1>14, <1>15 DEF ConsoleInv

LEMMA FontSet ==
  ASSUME ConsoleInv, output_console_set_font
  PROVE  ConsoleInv'
<1>1. PICK n \in Nat : n = Len(contexts)
  BY DEF ConsoleInv
<1>2. PICK old : old = contexts[active]
  OBVIOUS
<1>3. active \in 1 .. n /\ old \in Placements
  BY <1>1, <1>2 DEF ConsoleInv
<1>4. PICK new : new = [old EXCEPT !.font = TRUE]
  OBVIOUS
<1>5. /\ new \in Placements /\ new.x = old.x /\ new.y = old.y
      /\ new.top = old.top /\ new.bottom = old.bottom
  BY <1>3, <1>4 DEF Placements
<1>6. contexts' = [contexts EXCEPT ![active] = new]
  BY <1>2, <1>4 DEF output_console_set_font
<1>7. /\ contexts' \in Seq(Placements) /\ Len(contexts') = n
      /\ \A i \in 1 .. n : contexts'[i] = IF i = active THEN new ELSE contexts[i]
  BY <1>1, <1>5, <1>6, Replaced DEF ConsoleInv
<1>8. /\ shown' = shown /\ screen' = screen /\ active' = active /\ lines' = lines
  BY DEF output_console_set_font
<1>9. \A i \in 1 .. n : /\ contexts'[i].top = contexts[i].top
                        /\ contexts'[i].bottom = contexts[i].bottom
                        /\ contexts'[i].x = contexts[i].x /\ contexts'[i].y = contexts[i].y
  BY <1>2, <1>5, <1>7
<1>10. Regions' = Regions /\ Regions \subseteq 1 .. n
  BY <1>1, <1>7 DEF Regions, ConsoleInv
<1>11. ASSUME NEW i \in Regions PROVE Placed(contexts'[i], lines[i], screen)
  <2>1. i \in 1 .. n /\ Placed(contexts[i], lines[i], screen)
    BY <1>10 DEF ConsoleInv
  <2>2. PICK k \in Nat : /\ Standing(contexts[i].top, contexts[i].bottom, contexts[i].y, lines[i], k, screen)
                         /\ Behind(contexts[i].x, lines[i][k])
    BY <2>1, PlacedIs
  <2>3. /\ Standing(contexts'[i].top, contexts'[i].bottom, contexts'[i].y, lines[i], k, screen)
        /\ Behind(contexts'[i].x, lines[i][k])
    BY <1>9, <2>1, <2>2
  <2> QED BY <2>3, PlacedIs
<1>12. \A i, j \in 2 .. n : i # j => Apart(contexts'[i], contexts'[j])
  <2>1. ASSUME NEW i \in 2 .. n, NEW j \in 2 .. n, i # j PROVE Apart(contexts'[i], contexts'[j])
    <3>1. Apart(contexts[i], contexts[j])
      BY <1>1, <2>1 DEF ConsoleInv
    <3>2. i \in 1 .. n /\ j \in 1 .. n
      OBVIOUS
    <3> QED BY <1>9, <3>1, <3>2 DEF Apart
  <2> QED BY <2>1
<1>13. Len(lines) = n /\ lines \in Seq(Seq(Seq(Shape))) /\ shown = screen /\ screen \in Screens
  BY <1>1 DEF ConsoleInv
<1> QED BY <1>3, <1>7, <1>8, <1>10, <1>11, <1>12, <1>13 DEF ConsoleInv

LEMMA LineBroken ==
  ASSUME ConsoleInv, output_console_line_break
  PROVE  ConsoleInv'
<1>1. Usable /\ Effect(LineBreak(Cx, Now, 0), count + 1)
  BY DEF output_console_line_break
<1>2. PICK cx, w, v : cx = Cx /\ w = Now /\ v = LineBreak(cx, w, 0)
  OBVIOUS
<1>3. Stood(cx.top, cx.bottom, w) /\ w.screen \in Screens /\ w.screen = screen
  BY <1>1, <1>2, NowStands
<1>4. PICK k \in Nat : Standing(cx.top, cx.bottom, w.y, w.lines, k, w.screen)
  BY <1>3 DEF Stood
<1>5. Broken(cx, w, 0, v)
  BY <1>2, <1>3, <1>4, BreakStands
<1>6. Stood(Cx.top, Cx.bottom, v) /\ Within(Cx.top, Cx.bottom, screen, v.screen)
  BY <1>2, <1>3, <1>5 DEF Broken
<1>7. Effect(v, count + 1)
  BY <1>1, <1>2
<1>8. PICK n : n = count + 1
  OBVIOUS
<1>9. Effect(v, n)
  BY <1>7, <1>8
<1> QED BY <1>1, <1>6, <1>9, EffectKeeps

LEMMA StringPut ==
  ASSUME ConsoleInv, output_console_output_string
  PROVE  ConsoleInv'
<1>1. PICK text \in Texts :
        Usable /\ Cx.x + Len(text) <= Columns /\ \E n : Effect(Output(Cx, text, Now), n)
  BY DEF output_console_output_string
<1>2. PICK cx, w, v : cx = Cx /\ w = Now /\ v = Output(cx, text, w)
  OBVIOUS
<1>3. text \in Seq(Shape)
  <2>1. text \in Seq(Alphabet)
    BY ConsoleAssumption
  <2> QED BY <2>1 DEF Shape
<1>4. /\ Stood(cx.top, cx.bottom, w) /\ w.start = 0 /\ w.screen \in Screens
      /\ w.screen = screen /\ w.x + Len(text) <= Columns
  BY <1>1, <1>2, NowStands
<1>5. Stood(cx.top, cx.bottom, v) /\ Within(cx.top, cx.bottom, w.screen, v.screen)
  BY <1>2, <1>3, <1>4, OutputStands
<1>6. Stood(Cx.top, Cx.bottom, v) /\ Within(Cx.top, Cx.bottom, screen, v.screen)
  BY <1>2, <1>4, <1>5
<1>7. PICK n : Effect(v, n)
  BY <1>1, <1>2
<1> QED BY <1>1, <1>6, <1>7, EffectKeeps

LEMMA StartsPlaced == ConsoleInit => ConsoleInv
<1> USE ScreenNumbers
<1> SUFFICES ASSUME ConsoleInit PROVE ConsoleInv
  OBVIOUS
<1>1. PICK cx : cx = Context(0, Rows)
  OBVIOUS
<1>2. cx \in Placements /\ cx.top = 0 /\ cx.bottom = Rows /\ cx.x = 0 /\ cx.y = 0
  BY <1>1 DEF Context, Placements
<1>3. contexts = <<cx>> /\ lines = << << <<>> >> >> /\ active = 1 /\ shown = screen /\ screen = Blank
  BY <1>1 DEF ConsoleInit
<1>4. Blank \in Screens
  <2>1. Clear \in Shape
    BY DEF Shape
  <2> QED BY <2>1 DEF Blank, Screens
<1>5. contexts \in Seq(Placements) /\ Len(contexts) = 1 /\ contexts[1] = cx
  BY <1>2, <1>3
<1>6. PICK e : e = << <<>> >>
  OBVIOUS
<1>7. e \in Seq(Seq(Shape))
  BY <1>6
<1>8. lines \in Seq(Seq(Seq(Shape))) /\ Len(lines) = 1 /\ lines[1] = e
  <2>1. lines = <<e>>
    BY <1>3, <1>6
  <2> QED BY <1>7, <2>1
<1>9. Placed(cx, e, screen)
  BY <1>2, <1>6, EmptyIsPlaced
<1>10. Regions = {1}
  BY <1>5 DEF Regions
<1>11. active \in 1 .. 1 /\ \A i \in 2 .. 1 : FALSE
  BY <1>3
<1> QED BY <1>3, <1>4, <1>5, <1>8, <1>9, <1>10, <1>11 DEF ConsoleInv

LEMMA PlacesHold == ConsoleInv /\ [ConsoleNext]_consoleVars => ConsoleInv'
<1> SUFFICES ASSUME ConsoleInv, [ConsoleNext]_consoleVars PROVE ConsoleInv'
  OBVIOUS
<1>1. CASE output_console_create_region
  BY <1>1, RegionCreated
<1>2. CASE output_console_activate_region
  <2>1. /\ contexts' = contexts /\ lines' = lines /\ shown' = shown /\ screen' = screen
        /\ active' \in DOMAIN contexts
    BY <1>2 DEF output_console_activate_region
  <2>2. active' \in 1 .. Len(contexts)
    BY <2>1 DEF ConsoleInv
  <2>3. Regions' = Regions
    BY <2>1 DEF Regions
  <2> QED BY <2>1, <2>2, <2>3 DEF ConsoleInv
<1>3. CASE output_console_set_font
  BY <1>3, FontSet
<1>4. CASE output_console_clear_screen
  BY <1>4, ScreenCleared
<1>5. CASE output_console_line_break
  BY <1>5, LineBroken
<1>6. CASE output_console_output_string
  BY <1>6, StringPut
<1>7. CASE UNCHANGED consoleVars
  <2>1. /\ contexts' = contexts /\ lines' = lines /\ shown' = shown /\ screen' = screen
        /\ active' = active
    BY <1>7 DEF consoleVars
  <2>2. Regions' = Regions
    BY <2>1 DEF Regions
  <2> QED BY <2>1, <2>2 DEF ConsoleInv
<1> QED BY <1>1, <1>2, <1>3, <1>4, <1>5, <1>6, <1>7 DEF ConsoleNext

LEMMA PlacedIsInside == ConsoleInv => ConsoleInside
<1> USE ScreenNumbers
<1> SUFFICES ASSUME ConsoleInv PROVE ConsoleInside
  OBVIOUS
<1>1. ASSUME NEW i \in Regions
      PROVE  /\ contexts[i].y \in contexts[i].top .. contexts[i].bottom - Line
             /\ \A n \in DOMAIN lines[i] :
                  RowOf(i, n) >= contexts[i].top /\ Len(lines[i][n]) > 1 =>
                    \A r \in RowOf(i, n) .. RowOf(i, n) + Glyph - 1 : IsPrefix(lines[i][n], screen[r])
  <2>1. PICK cx, ls : cx = contexts[i] /\ ls = lines[i]
    OBVIOUS
  <2>2. PICK k \in Nat : Standing(cx.top, cx.bottom, cx.y, ls, k, screen)
    BY <2>1, PlacedIs DEF ConsoleInv
  <2>3. PICK top \in Nat, bottom \in Nat, y \in Nat :
          /\ top = cx.top /\ bottom = cx.bottom /\ y = cx.y
          /\ bottom <= Rows /\ top <= y /\ y + Line <= bottom
    BY <2>2 DEF Standing
  <2>4. k \in Nat \ {0} /\ ls \in Seq(Seq(Shape)) /\ Len(ls) = k
    BY <2>2 DEF Standing
  <2>5. y \in top .. bottom - Line
    BY <2>3
  <2>6. ASSUME NEW n \in 1 .. k, RowOf(i, n) >= top, Len(ls[n]) > 1,
               NEW r \in RowOf(i, n) .. RowOf(i, n) + Glyph - 1
        PROVE  IsPrefix(ls[n], screen[r])
    <3>1. PICK u \in Nat : u = Up(k, n)
      BY <2>4, UpIs
    <3>2. RowOf(i, n) = y - u
      BY <2>1, <2>3, <2>4, <3>1 DEF RowOf, Up
    <3>3. Stands(top, y - u, ls[n], screen)
      BY <2>2, <2>3, <3>1 DEF Standing
    <3>4. r \in y - u .. y - u + Glyph - 1 /\ y - u >= top
      BY <2>6, <3>2
    <3>5. Starts(screen[r], ls[n])
      BY <2>6, <3>3, <3>4 DEF Stands
    <3>6. r \in 0 .. Rows - 1
      BY <2>3, <3>4
    <3>7. screen[r] \in [1 .. Columns -> Shape]
      BY <3>6 DEF ConsoleInv, Screens
    <3>8. PICK l : l = ls[n]
      OBVIOUS
    <3>9. l \in Seq(Shape)
      BY <2>4, <3>8
    <3>10. Len(l) <= Columns
      <4>1. Len(l) \in 0 .. Columns
        BY <2>2, <3>8 DEF Standing
      <4> QED BY <4>1
    <3>11. IsPrefix(l, screen[r])
      BY <3>5, <3>7, <3>8, <3>9, <3>10, PrefixIs
    <3> QED BY <3>8, <3>11
  <2>7. DOMAIN ls = 1 .. k
    BY <2>4
  <2> QED BY <2>1, <2>3, <2>5, <2>6, <2>7
<1>2. shown = screen
  BY DEF ConsoleInv
<1> QED BY <1>1, <1>2 DEF ConsoleInside

\* However many regions there are, how high a line is and whatever is written:
\* the cursor of a region is where a whole line fits, and above it stand the
\* lines that were written there, untouched by its neighbours, up to its top.
THEOREM ConsoleAlwaysInside == ConsoleSpec => []ConsoleInside
<1>1. ConsoleInit => ConsoleInv
  BY StartsPlaced
<1>2. ConsoleInv /\ [ConsoleNext]_consoleVars => ConsoleInv'
  BY PlacesHold
<1>3. ConsoleInv => ConsoleInside
  BY PlacedIsInside
<1> QED BY <1>1, <1>2, <1>3, PTL DEF ConsoleSpec

=============================================================================
