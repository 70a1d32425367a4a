----------------------------- MODULE TasksProofs -----------------------------
(***************************************************************************)
(* Proofs about Tasks, for any number of tasks: its invariants, and that   *)
(* it implements TaskLifecycle if no new context carries the mark of the   *)
(* idle task by chance.                                                    *)
(***************************************************************************)
EXTENDS Tasks, TLAPS

USE ContextAssumption, FreshPriAssumption, XsaveAssumption

QueueTypes(nx, tl, od) ==
  /\ nx \in [Node -> Context \cup {Nil}]
  /\ tl \in [Level -> Node]
  /\ od \in [Level -> Seq(Context)]

\* A sequence with an element is not the empty one.
LEMMA LongIsNotEmpty ==
  ASSUME NEW s, Len(s) >= 1
  PROVE  s # <<>>
<1>1. Len(<<>>) = 0
  OBVIOUS
<1>2. SUFFICES ASSUME s = <<>> PROVE FALSE
  OBVIOUS
<1>3. Len(s) = 0
  BY <1>1, <1>2
<1> QED BY <1>3

\* A queue whose sentinel points somewhere holds that context first.
LEMMA FirstOfList ==
  ASSUME NEW nx, NEW tl, NEW od, NEW p \in Level,
         QueueTypes(nx, tl, od), WellFormed(nx, tl, od), nx[p] # Nil
  PROVE  /\ od[p] # <<>>
         /\ Len(od[p]) \in Nat /\ Len(od[p]) >= 1
         /\ nx[p] = od[p][1]
         /\ nx[p] \in Task
         /\ Head(od[p]) = nx[p]
BY DEF QueueTypes, WellFormed, IsList, Elements, Context

\* cpu_context_try_pop_task takes the first context off one queue and leaves
\* every queue well formed.
LEMMA PopWellFormed ==
  ASSUME NEW nx, NEW tl, NEW od, NEW p \in Level,
         QueueTypes(nx, tl, od), WellFormed(nx, tl, od), nx[p] # Nil
  PROVE  /\ QueueTypes(PopNext(nx, p), PopTail(nx, tl, p), [od EXCEPT ![p] = Tail(@)])
         /\ WellFormed(PopNext(nx, p), PopTail(nx, tl, p), [od EXCEPT ![p] = Tail(@)])
<1> DEFINE nx1 == PopNext(nx, p)
           tl1 == PopTail(nx, tl, p)
           od1 == [od EXCEPT ![p] = Tail(@)]
<1>1. /\ od[p] \in Seq(Context) /\ od[p] # <<>> /\ Len(od[p]) \in Nat /\ Len(od[p]) >= 1
      /\ nx[p] = od[p][1] /\ nx[p] \in Task
  BY FirstOfList DEF QueueTypes
<1>n. PICK n \in Nat : n = Len(od[p]) /\ n >= 1
  BY <1>1
<1>2. /\ od1[p] \in Seq(Context)
      /\ Len(od1[p]) = Len(od[p]) - 1
      /\ \A i \in 1 .. Len(od1[p]) : od1[p][i] = od[p][i + 1]
  BY <1>1 DEF QueueTypes
<1>m. Len(od1[p]) = Len(od[p]) - 1
  BY <1>2
<1>3. \A r \in Level : r # p => od1[r] = od[r]
  BY DEF QueueTypes
<1>l. /\ \A i \in 1 .. Len(od[p]) - 1 : nx[od[p][i]] = od[p][i + 1]
      /\ nx[od[p][Len(od[p])]] = Nil
      /\ tl[p] = od[p][Len(od[p])]
  BY <1>1 DEF WellFormed, IsList
<1>g. n >= 1
  BY <1>n
<1>k. n = 1 \/ n > 1
  BY <1>g
<1>4. nx[nx[p]] = IF n = 1 THEN Nil ELSE od[p][2]
  <2>1. CASE n = 1
    BY <2>1, <1>n, <1>1, <1>l
  <2>2. CASE n > 1
    <3>1. 1 \in 1 .. Len(od[p]) - 1
      BY <2>2, <1>n
    <3> QED BY <3>1, <2>2, <1>1, <1>l
  <2> QED BY <2>1, <2>2, <1>k
<1>5. QueueTypes(nx1, tl1, od1)
  BY <1>1, <1>2, <1>3 DEF QueueTypes, PopNext, PopTail, Node
<1>6. \A c \in Context : nx1[c] = nx[c]
  BY DEF QueueTypes, PopNext, Node
<1>7. IsList(nx1, tl1, p, od1[p])
  <2>1. CASE n = 1
    <3>1. od1[p] = <<>>
      BY <2>1, <1>n, <1>2
    <3>2. nx1[p] = Nil /\ tl1[p] = p
      BY <2>1, <1>n, <1>4 DEF QueueTypes, PopNext, PopTail, Node
    <3> QED BY <3>1, <3>2 DEF IsList
  <2>2. CASE n > 1
    <3>n. Len(od1[p]) \in Nat /\ Len(od1[p]) >= 1
      BY <2>2, <1>n, <1>m
    <3>1. od1[p] # <<>>
      BY <3>n, LongIsNotEmpty
    <3>2. od[p][2] \in Context /\ od[p][2] # Nil
      <4>1. 2 \in 1 .. Len(od[p])
        BY <2>2, <1>n
      <4> QED BY <4>1, <1>1 DEF Node
    <3>3. nx1[p] = od1[p][1]
      <4>1. nx1[p] = nx[nx[p]]
        BY DEF QueueTypes, PopNext, Node
      <4>2. od1[p][1] = od[p][2]
        BY <3>n, <1>2
      <4> QED BY <4>1, <4>2, <2>2, <1>n, <1>4
    <3>4. tl1 = tl
      BY <2>2, <1>n, <1>4, <3>2 DEF PopTail
    <3>5. \A i \in 1 .. Len(od1[p]) - 1 : nx1[od1[p][i]] = od1[p][i + 1]
      <4> TAKE i \in 1 .. Len(od1[p]) - 1
      <4>1. i + 1 \in 1 .. Len(od[p]) - 1 /\ i \in 1 .. Len(od1[p]) /\ i + 1 \in 1 .. Len(od1[p])
        BY <1>n, <1>m
      <4>2. nx[od[p][i + 1]] = od[p][i + 2]
        BY <4>1, <1>l
      <4>3. od[p][i + 1] \in Context
        BY <4>1, <1>1
      <4> QED BY <4>1, <4>2, <4>3, <1>2, <1>6
    <3>6. nx1[od1[p][Len(od1[p])]] = Nil
      <4>1. od1[p][Len(od1[p])] = od[p][Len(od[p])]
        BY <3>n, <1>n, <1>2
      <4>2. od[p][Len(od[p])] \in Context /\ nx[od[p][Len(od[p])]] = Nil
        BY <1>1, <1>l
      <4> QED BY <4>1, <4>2, <1>6
    <3>7. tl1[p] = od1[p][Len(od1[p])]
      BY <3>n, <3>4, <1>l, <1>n, <1>2
    <3> QED BY <3>1, <3>3, <3>5, <3>6, <3>7 DEF IsList
  <2> QED BY <2>1, <2>2, <1>k
<1>8. ASSUME NEW r \in Level, r # p PROVE IsList(nx1, tl1, r, od1[r])
  <2>1. nx1[r] = nx[r] /\ tl1[r] = tl[r]
    BY <1>8 DEF QueueTypes, PopNext, PopTail, Node
  <2>2. IsList(nx, tl, r, od[r]) /\ od[r] \in Seq(Context)
    BY DEF WellFormed, QueueTypes
  <2>3. \A i \in 1 .. Len(od[r]) : nx1[od[r][i]] = nx[od[r][i]]
    BY <2>2, <1>6
  <2> QED BY <1>8, <1>3, <2>1, <2>2, <2>3 DEF IsList
<1>9. Disjoint(od1)
  <2> SUFFICES ASSUME NEW q \in Level, NEW r \in Level,
                      NEW i \in 1 .. Len(od1[q]), NEW j \in 1 .. Len(od1[r]),
                      od1[q][i] = od1[r][j]
               PROVE  q = r /\ i = j
    BY DEF Disjoint
  <2> DEFINE ii == IF q = p THEN i + 1 ELSE i
             jj == IF r = p THEN j + 1 ELSE j
  <2>0. od[q] \in Seq(Context) /\ od[r] \in Seq(Context)
    BY DEF QueueTypes
  <2>1. ii \in 1 .. Len(od[q]) /\ od1[q][i] = od[q][ii]
    BY <1>1, <1>2, <1>3, <2>0
  <2>2. jj \in 1 .. Len(od[r]) /\ od1[r][j] = od[r][jj]
    BY <1>1, <1>2, <1>3, <2>0
  <2>3. q = r /\ ii = jj
    BY <2>1, <2>2 DEF WellFormed, Disjoint
  <2> QED BY <2>3, <2>0, <1>2
<1>10. ASSUME NEW r \in Level PROVE Elements(od1[r]) \subseteq Task
  <2>1. CASE r = p
    <3> SUFFICES ASSUME NEW i \in 1 .. Len(od1[p]) PROVE od1[p][i] \in Task
      BY <2>1 DEF Elements
    <3>1. i + 1 \in 1 .. Len(od[p])
      BY <1>n, <1>m
    <3> QED BY <3>1, <1>2 DEF WellFormed, Elements
  <2>2. CASE r # p
    BY <2>2, <1>3 DEF WellFormed
  <2> QED BY <2>1, <2>2
<1> QED BY <1>5, <1>7, <1>8, <1>9, <1>10 DEF WellFormed

\* cpu_context_push_task puts a context that is on no queue at the end of one
\* and leaves every queue well formed.
LEMMA PushWellFormed ==
  ASSUME NEW nx, NEW tl, NEW od, NEW p \in Level, NEW t \in Task,
         QueueTypes(nx, tl, od), WellFormed(nx, tl, od),
         \A r \in Level : t \notin Elements(od[r])
  PROVE  /\ QueueTypes(PushNext(nx, tl, p, t), PushTail(tl, p, t), [od EXCEPT ![p] = Append(@, t)])
         /\ WellFormed(PushNext(nx, tl, p, t), PushTail(tl, p, t), [od EXCEPT ![p] = Append(@, t)])
<1> DEFINE nx1 == PushNext(nx, tl, p, t)
           tl1 == PushTail(tl, p, t)
           od1 == [od EXCEPT ![p] = Append(@, t)]
<1>1. /\ od[p] \in Seq(Context) /\ t \in Context /\ t \in Node /\ tl[p] \in Node
      /\ p \in Node
  BY DEF QueueTypes, Context, Node
<1>2. PICK n \in Nat : n = Len(od[p])
  BY <1>1
<1>3. /\ od1[p] \in Seq(Context)
      /\ Len(od1[p]) = Len(od[p]) + 1
      /\ \A i \in 1 .. Len(od[p]) : od1[p][i] = od[p][i]
      /\ od1[p][Len(od[p]) + 1] = t
  BY <1>1 DEF QueueTypes
<1>4. Len(od1[p]) = n + 1
  BY <1>2, <1>3
<1>5. \A r \in Level : r # p => od1[r] = od[r]
  BY DEF QueueTypes
<1>6. \A r \in Level : od[r] \in Seq(Context) /\ \A i \in 1 .. Len(od[r]) : od[r][i] # t /\ od[r][i] \in Task
  BY DEF QueueTypes, WellFormed, Elements
<1>7. tl[p] # t /\ (n = 0 => tl[p] = p) /\ (n > 0 => tl[p] = od[p][n])
  <2>1. CASE od[p] = <<>>
    <3>1. n = 0
      BY <2>1, <1>2
    <3>2. tl[p] = p
      BY <2>1 DEF WellFormed, IsList
    <3> QED BY <3>1, <3>2 DEF Context
  <2>2. CASE od[p] # <<>>
    <3>1. n \in 1 .. Len(od[p])
      BY <2>2, <1>1, <1>2
    <3>2. tl[p] = od[p][n]
      BY <2>2, <1>2 DEF WellFormed, IsList
    <3> QED BY <3>1, <3>2, <1>6
  <2> QED BY <2>1, <2>2
<1>8. /\ nx1[tl[p]] = t
      /\ nx1[t] = Nil
      /\ \A m \in Node : m # tl[p] /\ m # t => nx1[m] = nx[m]
  BY <1>1, <1>7 DEF QueueTypes, PushNext
<1>9. QueueTypes(nx1, tl1, od1)
  BY <1>1, <1>3, <1>5 DEF QueueTypes, PushNext, PushTail
<1>10. tl1[p] = t /\ \A r \in Level : r # p => tl1[r] = tl[r]
  BY DEF QueueTypes, PushTail
<1>11. IsList(nx1, tl1, p, od1[p])
  <2>1. od1[p] # <<>>
    <3>1. Len(od1[p]) \in Nat /\ Len(od1[p]) >= 1
      BY <1>4
    <3> QED BY <3>1, LongIsNotEmpty
  <2>2. od1[p][Len(od1[p])] = t
    BY <1>2, <1>3, <1>4
  <2>3. nx1[p] = od1[p][1]
    <3>1. CASE n = 0
      BY <3>1, <1>2, <1>3, <1>7, <1>8
    <3>2. CASE n > 0
      <4>1. n \in 1 .. Len(od[p]) /\ 1 \in 1 .. Len(od[p])
        BY <3>2, <1>2
      <4>2. tl[p] \in Task
        BY <4>1, <3>2, <1>6, <1>7
      <4>3. nx1[p] = nx[p]
        BY <4>2, <1>1, <1>8 DEF Context
      <4>4. nx[p] = od[p][1]
        BY <4>1, <3>2, <1>2 DEF WellFormed, IsList
      <4> QED BY <4>1, <4>3, <4>4, <1>3
    <3> QED BY <3>1, <3>2
  <2>4. ASSUME NEW i \in 1 .. Len(od1[p]) - 1
        PROVE  nx1[od1[p][i]] = od1[p][i + 1]
    <3>1. i \in 1 .. Len(od[p]) /\ i \in 1 .. n /\ n > 0
      BY <1>2, <1>4
    <3>2. od1[p][i] = od[p][i] /\ od[p][i] \in Node /\ od[p][i] # t
      BY <3>1, <1>3, <1>6 DEF Node, Context
    <3>3. CASE i = n
      BY <3>1, <3>2, <3>3, <1>2, <1>3, <1>7, <1>8
    <3>4. CASE i # n
      <4>1. /\ i \in 1 .. Len(od[p]) - 1 /\ i + 1 \in 1 .. Len(od[p])
            /\ n \in 1 .. Len(od[p])
        BY <3>1, <3>4, <1>2
      <4>2. od[p] # <<>>
        BY <4>1
      <4>3. nx[od[p][i]] = od[p][i + 1]
        BY <4>1, <4>2 DEF WellFormed, IsList
      <4>4. od[p][i] # tl[p]
        BY <3>1, <3>4, <4>1, <1>7 DEF WellFormed, Disjoint
      <4> QED BY <4>1, <4>3, <4>4, <3>2, <1>3, <1>8
    <3> QED BY <3>3, <3>4
  <2> QED BY <2>1, <2>2, <2>3, <2>4, <1>8, <1>10 DEF IsList
<1>12. ASSUME NEW r \in Level, r # p PROVE IsList(nx1, tl1, r, od1[r])
  <2>1. IsList(nx, tl, r, od[r]) /\ od1[r] = od[r] /\ tl1[r] = tl[r]
    BY <1>5, <1>10, <1>12 DEF WellFormed
  <2>2. r # tl[p] /\ r # t
    <3>1. CASE n = 0
      BY <3>1, <1>7, <1>12 DEF Context
    <3>2. CASE n > 0
      <4>1. n \in 1 .. Len(od[p])
        BY <3>2, <1>2
      <4> QED BY <4>1, <3>2, <1>6, <1>7 DEF Context
    <3> QED BY <3>1, <3>2
  <2>3. nx1[r] = nx[r]
    BY <2>2, <1>8 DEF Node
  <2>4. ASSUME NEW i \in 1 .. Len(od[r]) PROVE nx1[od[r][i]] = nx[od[r][i]]
    <3>1. od[r][i] \in Task /\ od[r][i] # t
      BY <1>6
    <3>2. od[r][i] # tl[p]
      <4>1. CASE n = 0
        BY <4>1, <3>1, <1>7 DEF Context
      <4>2. CASE n > 0
        <5>1. n \in 1 .. Len(od[p])
          BY <4>2, <1>2
        <5> QED BY <5>1, <4>2, <1>7, <1>12 DEF WellFormed, Disjoint
      <4> QED BY <4>1, <4>2
    <3> QED BY <3>1, <3>2, <1>8 DEF Node, Context
  <2>5. od[r] \in Seq(Context)
    BY <1>6
  <2>6. IsList(nx1, tl1, r, od[r])
    BY <2>1, <2>3, <2>4, <2>5 DEF IsList
  <2> QED BY <2>1, <2>6
<1>13. Disjoint(od1)
  <2>1. ASSUME NEW q \in Level, NEW i \in 1 .. Len(od1[q])
        PROVE  IF q = p /\ i = n + 1
                 THEN od1[q][i] = t
                 ELSE i \in 1 .. Len(od[q]) /\ od1[q][i] = od[q][i] /\ od[q][i] # t
    <3>1. CASE q = p
      <4>1. CASE i = n + 1
        <5>1. od1[p][n + 1] = t
          BY <1>2, <1>3
        <5> QED BY <5>1, <3>1, <4>1
      <4>2. CASE i # n + 1
        <5>1. i \in 1 .. Len(od[p])
          BY <3>1, <4>2, <1>2, <1>4
        <5> QED BY <5>1, <3>1, <4>2, <1>3, <1>6
      <4> QED BY <4>1, <4>2
    <3>2. CASE q # p
      BY <3>2, <1>5, <1>6
    <3> QED BY <3>1, <3>2
  <2> SUFFICES ASSUME NEW q \in Level, NEW r \in Level,
                      NEW i \in 1 .. Len(od1[q]), NEW j \in 1 .. Len(od1[r]),
                      od1[q][i] = od1[r][j]
               PROVE  q = r /\ i = j
    BY DEF Disjoint
  <2>2. CASE q = p /\ i = n + 1
    BY <2>1, <2>2
  <2>3. CASE ~(q = p /\ i = n + 1)
    BY <2>1, <2>3 DEF WellFormed, Disjoint
  <2> QED BY <2>2, <2>3
<1>14. ASSUME NEW r \in Level PROVE Elements(od1[r]) \subseteq Task
  <2>1. CASE r = p
    <3> SUFFICES ASSUME NEW i \in 1 .. Len(od1[p]) PROVE od1[p][i] \in Task
      BY <2>1 DEF Elements
    <3>1. i \in 1 .. Len(od[p]) \/ i = Len(od[p]) + 1
      BY <1>2, <1>4
    <3> QED BY <3>1, <1>3, <1>6
  <2>2. CASE r # p
    BY <2>2, <1>5 DEF WellFormed
  <2> QED BY <2>1, <2>2
<1> QED BY <1>9, <1>11, <1>12, <1>13, <1>14 DEF WellFormed

\* A pop takes the context it returns off the queues, and no other.
LEMMA PopOnQueue ==
  ASSUME NEW nx, NEW tl, NEW od, NEW p \in Level,
         QueueTypes(nx, tl, od), WellFormed(nx, tl, od), nx[p] # Nil
  PROVE  /\ OnQueue(od, nx[p])
         /\ \A t : OnQueue([od EXCEPT ![p] = Tail(@)], t) <=> OnQueue(od, t) /\ t # nx[p]
<1> DEFINE od1 == [od EXCEPT ![p] = Tail(@)]
<1>0. /\ od[p] # <<>> /\ nx[p] = od[p][1]
      /\ Len(od[p]) \in Nat /\ Len(od[p]) >= 1
  BY FirstOfList
<1>1. /\ od[p] \in Seq(Context) /\ od[p] # <<>> /\ nx[p] = od[p][1]
  BY <1>0 DEF QueueTypes
<1>2. PICK n \in Nat : n = Len(od[p]) /\ n >= 1
  BY <1>0
<1>3. n >= 1
  BY <1>2
<1>4. /\ Len(od1[p]) = Len(od[p]) - 1
      /\ \A i \in 1 .. Len(od1[p]) : od1[p][i] = od[p][i + 1]
  BY <1>1 DEF QueueTypes
<1>5. Len(od1[p]) = n - 1
  BY <1>2, <1>4
<1>6. \A r \in Level : r # p => od1[r] = od[r]
  BY DEF QueueTypes
<1>7. OnQueue(od, nx[p])
  <2>1. 1 \in 1 .. Len(od[p])
    BY <1>2, <1>3
  <2> QED BY <2>1, <1>1 DEF OnQueue, Elements
<1>8. ASSUME NEW t, OnQueue(od1, t) PROVE OnQueue(od, t) /\ t # nx[p]
  <2>1. PICK r \in Level : t \in Elements(od1[r])
    BY <1>8 DEF OnQueue
  <2>2. PICK i \in 1 .. Len(od1[r]) : t = od1[r][i]
    BY <2>1 DEF Elements
  <2>3. 1 \in 1 .. Len(od[p])
    BY <1>2, <1>3
  <2>4. CASE r = p
    <3>1. i + 1 \in 1 .. Len(od[p]) /\ i + 1 # 1
      BY <2>4, <1>2, <1>5
    <3>2. t = od[p][i + 1]
      BY <2>2, <2>4, <1>4
    <3>3. od[p][i + 1] # od[p][1]
      BY <3>1, <2>3 DEF WellFormed, Disjoint
    <3> QED BY <3>1, <3>2, <3>3, <1>1 DEF OnQueue, Elements
  <2>5. CASE r # p
    <3>1. i \in 1 .. Len(od[r]) /\ t = od[r][i]
      BY <2>2, <2>5, <1>6
    <3>2. od[r][i] # od[p][1]
      BY <3>1, <2>3, <2>5 DEF WellFormed, Disjoint
    <3> QED BY <3>1, <3>2, <1>1 DEF OnQueue, Elements
  <2> QED BY <2>4, <2>5
<1>9. ASSUME NEW t, OnQueue(od, t), t # nx[p] PROVE OnQueue(od1, t)
  <2>1. PICK r \in Level : t \in Elements(od[r])
    BY <1>9 DEF OnQueue
  <2>2. PICK i \in 1 .. Len(od[r]) : t = od[r][i]
    BY <2>1 DEF Elements
  <2>3. CASE r = p
    <3>1. i # 1
      BY <2>2, <2>3, <1>1, <1>9
    <3>2. i - 1 \in 1 .. Len(od1[p]) /\ (i - 1) + 1 = i
      BY <2>3, <3>1, <1>2, <1>5
    <3>3. t = od1[p][i - 1]
      BY <3>2, <2>2, <2>3, <1>4
    <3> QED BY <3>2, <3>3 DEF OnQueue, Elements
  <2>4. CASE r # p
    BY <2>1, <2>4, <1>6 DEF OnQueue
  <2> QED BY <2>3, <2>4
<1> QED BY <1>7, <1>8, <1>9

\* A push puts the context it is given on a queue, and no other.
LEMMA PushOnQueue ==
  ASSUME NEW od, NEW p \in Level, NEW c \in Context, od \in [Level -> Seq(Context)]
  PROVE  \A t : OnQueue([od EXCEPT ![p] = Append(@, c)], t) <=> OnQueue(od, t) \/ t = c
<1> DEFINE od1 == [od EXCEPT ![p] = Append(@, c)]
<1>1. od[p] \in Seq(Context)
  OBVIOUS
<1>2. PICK n \in Nat : n = Len(od[p])
  BY <1>1
<1>3. /\ Len(od1[p]) = Len(od[p]) + 1
      /\ \A i \in 1 .. Len(od[p]) : od1[p][i] = od[p][i]
      /\ od1[p][Len(od[p]) + 1] = c
  BY <1>1
<1>4. Len(od1[p]) = n + 1 /\ od1[p][n + 1] = c
  BY <1>2, <1>3
<1>5. \A r \in Level : r # p => od1[r] = od[r]
  OBVIOUS
<1>6. Elements(od1[p]) = Elements(od[p]) \cup {c}
  <2>1. ASSUME NEW i \in 1 .. Len(od1[p])
        PROVE  od1[p][i] \in Elements(od[p]) \cup {c}
    <3>1. i \in 1 .. Len(od[p]) \/ i = n + 1
      BY <1>2, <1>4
    <3> QED BY <3>1, <1>3, <1>4 DEF Elements
  <2>2. \A i \in 1 .. Len(od[p]) : i \in 1 .. Len(od1[p])
    BY <1>2, <1>4
  <2>3. n + 1 \in 1 .. Len(od1[p])
    BY <1>4
  <2> QED BY <2>1, <2>2, <2>3, <1>3, <1>4 DEF Elements
<1> QED BY <1>5, <1>6 DEF OnQueue

-----------------------------------------------------------------------------
(* The inductive invariant.  QueuesWellFormed needs that what is pushed is *)
(* on no queue: the running task (CpuInv, QueuedInv) and a new one.        *)

QueuedInv ==
  \A t \in Task : Queued(t) => life[t] = "live" /\ onCpu # t

CpuInv ==
  /\ mode = "boot" => onCpu = Boot /\ running = Nil
  /\ mode # "boot" => onCpu \in Context /\ pri[Idle] = NumPris
  /\ mode = "up" => running = onCpu
  /\ mode = "up" /\ onCpu \in Task => life[onCpu] = "live"

\* An unborn task matters because its area is still its own when it starts.
FrameInv ==
  /\ onCpu \notin saved
  /\ mode # "boot" => onCpu = Idle \/ Idle \in saved
  /\ \A t \in Task : Queued(t) => t \in saved /\ xarea[t] = t
  /\ \A t \in Task : life[t] = "unborn" => onCpu # t /\ xarea[t] = t
  /\ IF Xsave THEN onCpu \in Task => fpu = onCpu
              ELSE \A t \in Task : xarea[t] = t

IInv == TypeOK /\ QueuesWellFormed /\ QueuedInv /\ CpuInv /\ FrameInv

\* The invariant holds before the boot code has created a task.
LEMMA InitEstablishesIInv == Init => IInv
<1> SUFFICES ASSUME Init PROVE IInv
  OBVIOUS
<1>1. \A p \in Level : order[p] = <<>> /\ Len(order[p]) = 0
  BY DEF Init
<1>2. TypeOK
  <2>1. QueueTypes(next, tail, order)
    BY <1>1 DEF Init, QueueTypes, Node
  <2>2. pri \in [Context -> Nat] /\ asked \in [Task -> Level]
    BY DEF Init, Level, Highest, Normal, Lowest
  <2>3. life \in [Task -> Life] /\ xarea \in [Context -> Context \cup {Boot}]
    BY DEF Init, Life
  <2> QED BY <2>1, <2>2, <2>3 DEF Init, TypeOK, QueueTypes
<1>3. \A p \in Level : Elements(order[p]) = {}
  BY <1>1 DEF Elements
<1>4. QueuesWellFormed
  <2>1. \A p \in Level : IsList(next, tail, p, order[p])
    BY <1>1 DEF Init, IsList, Node
  <2>2. Disjoint(order)
    BY <1>1 DEF Disjoint
  <2> QED BY <2>1, <2>2, <1>3 DEF QueuesWellFormed, WellFormed
<1>5. \A t \in Task : ~Queued(t)
  BY <1>3 DEF Queued, OnQueue
<1> QED BY <1>2, <1>4, <1>5 DEF Init, IInv, QueuedInv, CpuInv, FrameInv, Context, Node

\* What a dispatch from the queue p does to the queues.
LEMMA RunFirstQueues ==
  ASSUME TypeOK, QueuesWellFormed, NEW p \in Level, next[p] # Nil
  PROVE  LET nx == PopNext(next, p)
             tl == PopTail(next, tail, p)
             od == [order EXCEPT ![p] = Tail(@)]
         IN /\ QueueTypes(nx, tl, od)
            /\ WellFormed(nx, tl, od)
            /\ next[p] \in Task
            /\ Queued(next[p])
            /\ \A t \in Task : OnQueue(od, t) <=> Queued(t) /\ t # next[p]
<1>1. QueueTypes(next, tail, order) /\ WellFormed(next, tail, order)
  BY DEF TypeOK, QueueTypes, QueuesWellFormed
<1>2. next[p] \in Task
  BY <1>1, FirstOfList
<1> QED BY <1>1, <1>2, PopWellFormed, PopOnQueue DEF Queued

\* tasks_create, by the boot code or by a task: the new context was unborn,
\* so it is on no queue yet.
LEMMA CreateKeepsIInv ==
  ASSUME IInv, NEW t \in Task, NEW p \in Level, tasks_create(t, p)
  PROVE  IInv'
<1> USE DEF tasks_create
<1>1. TypeOK /\ QueueTypes(next, tail, order) /\ WellFormed(next, tail, order)
  BY DEF IInv, TypeOK, QueueTypes, QueuesWellFormed
<1>2. ~Queued(t) /\ t \in Context
  BY DEF IInv, QueuedInv, Context
<1>3. QueueTypes(next', tail', order') /\ WellFormed(next', tail', order')
  <2>1. \A r \in Level : t \notin Elements(order[r])
    BY <1>2 DEF Queued, OnQueue
  <2> QED BY <1>1, <2>1, PushWellFormed
<1>4. \A c \in Task : Queued(c)' <=> Queued(c) \/ c = t
  BY <1>1, <1>2, PushOnQueue DEF TypeOK, Queued
<1>5. TypeOK'
  <2>1. life' \in [Task -> Life] /\ asked' \in [Task -> Level]
    BY <1>1 DEF TypeOK, Life
  <2>2. pri' \in [Context -> Nat]
    BY <1>1, <1>2 DEF TypeOK
  <2>3. saved' \subseteq Context
    BY <1>1, <1>2 DEF TypeOK
  <2> QED BY <1>1, <1>3, <2>1, <2>2, <2>3 DEF TypeOK, QueueTypes
<1>6. QueuesWellFormed'
  BY <1>3 DEF QueuesWellFormed
<1>7. QueuedInv'
  <2>1. onCpu # t
    BY DEF IInv, FrameInv
  <2>2. \A c \in Task : life'[c] = IF c = t THEN "live" ELSE life[c]
    BY <1>1 DEF TypeOK
  <2> QED BY <1>4, <2>1, <2>2 DEF IInv, QueuedInv
<1>8. CpuInv'
  <2>1. pri'[Idle] = pri[Idle]
    BY <1>1 DEF TypeOK, Context
  <2>2. \A c \in Task : life[c] = "live" => life'[c] = "live"
    BY <1>1 DEF TypeOK
  <2> QED BY <2>1, <2>2 DEF IInv, CpuInv
<1>9. FrameInv'
  <2>1. xarea[t] = t /\ onCpu # t
    BY DEF IInv, FrameInv
  <2>2. \A c \in Task : life'[c] = "unborn" => life[c] = "unborn"
    BY <1>1 DEF TypeOK
  <2> QED BY <1>4, <2>1, <2>2 DEF IInv, FrameInv
<1> QED BY <1>5, <1>6, <1>7, <1>8, <1>9 DEF IInv

\* tasks_start_idle leaves the boot code for the first task queued.
LEMMA StartKeepsIInv ==
  ASSUME IInv, tasks_start_idle
  PROVE  IInv'
<1>0. PICK p \in Level : RunFirst(p, saved \cup {Idle})
  BY DEF tasks_start_idle
<1> DEFINE t == next[p]
<1>1. TypeOK /\ QueuesWellFormed /\ t # Nil
  BY <1>0 DEF IInv, RunFirst, IsTop
<1>2. /\ QueueTypes(next', tail', order') /\ WellFormed(next', tail', order')
      /\ t \in Task /\ Queued(t)
      /\ \A c \in Task : Queued(c)' <=> Queued(c) /\ c # t
  BY <1>0, <1>1, RunFirstQueues DEF RunFirst, Queued
<1>3. /\ running' = t /\ onCpu' = t
      /\ saved' = (saved \cup {Idle}) \ {t}
      /\ xarea' = xarea
      /\ fpu' = IF Xsave THEN xarea[t] ELSE fpu
  BY <1>0 DEF RunFirst, SwitchTo
<1>4. /\ mode' = "up" /\ life' = life /\ asked' = asked /\ nullSave' = nullSave
      /\ pri' = [pri EXCEPT ![Idle] = NumPris]
  BY DEF tasks_start_idle
<1>5. TypeOK'
  <2>1. pri' \in [Context -> Nat]
    BY <1>1, <1>4 DEF TypeOK, NumPris
  <2> QED BY <1>1, <1>2, <1>3, <1>4, <2>1 DEF TypeOK, QueueTypes, Context
<1>6. QueuesWellFormed'
  BY <1>2 DEF QueuesWellFormed
<1>7. QueuedInv'
  BY <1>2, <1>3, <1>4 DEF IInv, QueuedInv
<1>8. CpuInv'
  <2>1. pri'[Idle] = NumPris
    BY <1>1, <1>4 DEF TypeOK, Context
  <2>2. life[t] = "live" /\ t \in Context
    BY <1>2 DEF IInv, QueuedInv, Context
  <2> QED BY <1>3, <1>4, <2>1, <2>2 DEF CpuInv
<1>9. FrameInv'
  <2>1. life[t] = "live" /\ xarea[t] = t /\ t # Idle
    BY <1>2 DEF IInv, QueuedInv, FrameInv
  <2> QED BY <1>2, <1>3, <1>4, <2>1 DEF IInv, FrameInv
<1> QED BY <1>5, <1>6, <1>7, <1>8, <1>9 DEF IInv

\* A yield: the running task is on no queue, and only the idle task is left
\* out of them.
LEMMA YieldKeepsIInv ==
  ASSUME IInv, NEW p \in Level, YieldTo(p)
  PROVE  IInv'
<1> DEFINE t  == next[p]
           nx == PopNext(next, p)
           tl == PopTail(next, tail, p)
           od == [order EXCEPT ![p] = Tail(@)]
<1>0. /\ TypeOK /\ QueuesWellFormed /\ t # Nil
      /\ mode = "up" /\ running = onCpu /\ onCpu \in Context
      /\ UNCHANGED <<pri, life, asked, mode, nullSave>>
  BY DEF IInv, YieldTo, Yields, IsTop, CpuInv, taskVars
<1>1. /\ QueueTypes(nx, tl, od) /\ WellFormed(nx, tl, od)
      /\ t \in Task /\ Queued(t)
      /\ \A c \in Task : OnQueue(od, c) <=> Queued(c) /\ c # t
  BY <1>0, RunFirstQueues
<1>2. /\ running' = t /\ onCpu' = t
      /\ saved' = (saved \cup {onCpu}) \ {t}
      /\ xarea' = IF Xsave THEN [xarea EXCEPT ![onCpu] = fpu] ELSE xarea
      /\ fpu' = IF Xsave THEN xarea[t] ELSE fpu
  BY <1>0 DEF YieldTo, SwitchTo, Node
<1>3. t # onCpu /\ (onCpu \in Task => ~Queued(onCpu))
  BY <1>1 DEF IInv, QueuedInv
<1>4. onCpu = Idle => pri[running] = NumPris
  BY <1>0 DEF IInv, CpuInv
<1>5. /\ QueueTypes(next', tail', order') /\ WellFormed(next', tail', order')
      /\ \A c \in Task : Queued(c)' => (Queued(c) \/ c = onCpu) /\ c # t
  <2>1. CASE pri[running] # NumPris
    <3>1. /\ next' = PushNext(nx, tl, p, running)
          /\ tail' = PushTail(tl, p, running)
          /\ order' = [order EXCEPT ![p] = Append(Tail(@), running)]
      BY <2>1 DEF YieldTo, Requeues
    <3>2. order' = [od EXCEPT ![p] = Append(@, running)]
      BY <3>1, <1>0 DEF TypeOK
    <3>3. running \in Task
      BY <2>1, <1>0, <1>4 DEF Context
    <3>4. \A r \in Level : running \notin Elements(od[r])
      BY <3>3, <1>0, <1>1, <1>3 DEF OnQueue
    <3>5. QueueTypes(next', tail', order') /\ WellFormed(next', tail', order')
      <4> DEFINE nx2 == PushNext(nx, tl, p, running)
                 tl2 == PushTail(tl, p, running)
                 od2 == [od EXCEPT ![p] = Append(@, running)]
      <4>1. QueueTypes(nx, tl, od) /\ WellFormed(nx, tl, od)
        BY <1>1
      <4>2. QueueTypes(nx2, tl2, od2) /\ WellFormed(nx2, tl2, od2)
        BY <4>1, <3>3, <3>4, PushWellFormed
      <4>3. next' = nx2 /\ tail' = tl2 /\ order' = od2
        BY <3>1, <3>2
      <4> QED BY <4>2, <4>3
    <3>6. \A c \in Task : Queued(c)' <=> OnQueue(od, c) \/ c = running
      BY <3>2, <1>0, <1>1, PushOnQueue DEF Queued, QueueTypes
    <3> QED BY <3>5, <3>6, <1>0, <1>1, <1>3
  <2>2. CASE pri[running] = NumPris
    BY <2>2, <1>1 DEF YieldTo, Requeues, Queued
  <2> QED BY <2>1, <2>2
<1>6. TypeOK'
  <2>1. xarea' \in [Context -> Context \cup {Boot}]
    BY <1>0, <1>2 DEF TypeOK
  <2> QED BY <1>0, <1>1, <1>2, <1>5, <2>1 DEF TypeOK, QueueTypes, Context
<1>7. QueuesWellFormed'
  BY <1>5 DEF QueuesWellFormed
<1>8. QueuedInv'
  <2>1. onCpu \in Task => life[onCpu] = "live"
    BY <1>0 DEF IInv, CpuInv
  <2> QED BY <2>1, <1>0, <1>2, <1>5 DEF IInv, QueuedInv
<1>9. CpuInv'
  <2>1. life[t] = "live" /\ t \in Context
    BY <1>1 DEF IInv, QueuedInv, Context
  <2> QED BY <2>1, <1>0, <1>2 DEF IInv, CpuInv
<1>10. FrameInv'
  <2>1. xarea[t] = t /\ t # Idle /\ life[t] = "live"
    BY <1>1 DEF IInv, FrameInv, QueuedInv
  <2>2. \A c \in Task : c # onCpu => xarea'[c] = xarea[c]
    BY <1>0, <1>2 DEF TypeOK
  <2>3. onCpu \in Task => xarea'[onCpu] = onCpu \/ ~Xsave
    BY <1>0, <1>2 DEF TypeOK, IInv, FrameInv
  <2>4. ~Xsave => \A c \in Task : xarea'[c] = c
    BY <1>2 DEF IInv, FrameInv
  <2> QED BY <2>1, <2>2, <2>3, <2>4, <1>0, <1>1, <1>2, <1>3, <1>5 DEF IInv, FrameInv
<1> QED BY <1>6, <1>7, <1>8, <1>9, <1>10 DEF IInv

\* A task returns while others are queued: the first of them is dispatched
\* and the task that returned is on no queue.
LEMMA ReturnKeepsIInv ==
  ASSUME IInv, NEW u \in Task, NEW p \in Level, ReturnTo(u, p)
  PROVE  IInv'
<1> DEFINE t == next[p]
<1>0. /\ TypeOK /\ QueuesWellFormed /\ t # Nil
      /\ mode = "up" /\ onCpu = u
      /\ life' = [life EXCEPT ![u] = "returned"]
      /\ UNCHANGED <<pri, asked, mode, nullSave>>
  BY DEF IInv, ReturnTo, RunFirst, IsTop, LiveOnCpu
<1>1. /\ QueueTypes(next', tail', order') /\ WellFormed(next', tail', order')
      /\ t \in Task /\ Queued(t)
      /\ \A c \in Task : Queued(c)' <=> Queued(c) /\ c # t
  BY <1>0, RunFirstQueues DEF ReturnTo, RunFirst, Queued
<1>2. /\ running' = t /\ onCpu' = t
      /\ saved' = saved \ {t}
      /\ xarea' = xarea
      /\ fpu' = IF Xsave THEN xarea[t] ELSE fpu
  BY DEF ReturnTo, RunFirst, SwitchTo
<1>3. t # u /\ ~Queued(u) /\ life[t] = "live"
  BY <1>0, <1>1 DEF IInv, QueuedInv
<1>4. \A c \in Task : c # u => life'[c] = life[c]
  BY <1>0 DEF TypeOK
<1>5. TypeOK'
  <2>1. life' \in [Task -> Life]
    BY <1>0 DEF TypeOK, Life
  <2> QED BY <1>0, <1>1, <1>2, <2>1 DEF TypeOK, QueueTypes, Context
<1>6. QueuesWellFormed'
  BY <1>1 DEF QueuesWellFormed
<1>7. QueuedInv'
  BY <1>1, <1>2, <1>3, <1>4 DEF IInv, QueuedInv
<1>8. CpuInv'
  <2>1. t \in Context
    BY <1>1 DEF Context
  <2> QED BY <2>1, <1>0, <1>1, <1>2, <1>3, <1>4 DEF IInv, CpuInv
<1>9. FrameInv'
  <2>1. xarea[t] = t /\ t # Idle /\ u # Idle
    BY <1>1 DEF IInv, FrameInv
  <2>2. \A c \in Task : life'[c] = "unborn" => life[c] = "unborn"
    BY <1>0 DEF TypeOK
  <2> QED BY <2>1, <2>2, <1>0, <1>1, <1>2, <1>3 DEF IInv, FrameInv
<1> QED BY <1>5, <1>6, <1>7, <1>8, <1>9 DEF IInv

\* The last task returns: the queues stay as they are, and either the idle
\* task runs or the save through the null pointer faults.
LEMMA ReturnToIdleKeepsIInv ==
  ASSUME IInv, NEW u \in Task, ReturnToIdle(u)
  PROVE  IInv'
<1>0. /\ TypeOK /\ mode = "up" /\ onCpu = u
      /\ life' = [life EXCEPT ![u] = "returned"]
      /\ running' = Idle /\ nullSave' = TRUE
      /\ UNCHANGED <<next, tail, order, pri, asked, xarea, fpu>>
  BY DEF IInv, ReturnToIdle, LiveOnCpu, queueVars
<1>1. \/ onCpu' = Idle /\ saved' = saved \ {Idle} /\ mode' = mode
      \/ mode' = "faulted" /\ onCpu' = onCpu /\ saved' = saved
  BY DEF ReturnToIdle
<1>2. ~Queued(u) /\ u # Idle
  BY <1>0 DEF IInv, QueuedInv
<1>3. \A c \in Task : c # u => life'[c] = life[c]
  BY <1>0 DEF TypeOK
<1>4. \A c \in Task : Queued(c)' <=> Queued(c)
  BY <1>0 DEF Queued
<1>5. TypeOK'
  <2>1. life' \in [Task -> Life]
    BY <1>0 DEF TypeOK, Life
  <2> QED BY <1>0, <1>1, <2>1 DEF TypeOK, Context
<1>6. QueuesWellFormed'
  BY <1>0 DEF IInv, QueuesWellFormed
<1>7. QueuedInv'
  BY <1>1, <1>2, <1>3, <1>4 DEF IInv, QueuedInv
<1>8. CpuInv'
  BY <1>0, <1>1 DEF IInv, CpuInv, Context
<1>9. FrameInv'
  <2>1. \A c \in Task : life'[c] = "unborn" => life[c] = "unborn"
    BY <1>0 DEF TypeOK
  <2> QED BY <2>1, <1>0, <1>1, <1>2, <1>4 DEF IInv, FrameInv
<1> QED BY <1>5, <1>6, <1>7, <1>8, <1>9 DEF IInv

\* A step that changes nothing keeps the invariant.
LEMMA StutterKeepsIInv ==
  ASSUME IInv, UNCHANGED vars
  PROVE  IInv'
BY DEF IInv, TypeOK, QueuesWellFormed, QueuedInv, Queued, CpuInv, FrameInv,
       vars, queueVars, cpuVars, taskVars

\* Every step of the scheduler keeps the invariant, one case for each action.
LEMMA NextKeepsIInv == IInv /\ [Next]_vars => IInv'
<1> SUFFICES ASSUME IInv, [Next]_vars PROVE IInv'
  OBVIOUS
<1>1. CASE \E t \in Task : CreateMain(t)
  BY <1>1, CreateKeepsIInv DEF CreateMain, Level, Highest, Normal, Lowest
<1>2. CASE tasks_start_idle
  BY <1>2, StartKeepsIInv
<1>3. CASE \E t \in Task, p \in Level : CreateTask(t, p)
  BY <1>3, CreateKeepsIInv DEF CreateTask
<1>4. CASE Yield
  BY <1>4, YieldKeepsIInv DEF Yield
<1>5. CASE Return
  BY <1>5, ReturnKeepsIInv, ReturnToIdleKeepsIInv DEF Return
<1>6. CASE YieldToSelf \/ FaultAgain \/ UNCHANGED vars
  BY <1>6, StutterKeepsIInv DEF YieldToSelf, FaultAgain
<1> QED BY <1>1, <1>2, <1>3, <1>4, <1>5, <1>6 DEF Next

\* The inductive invariant holds in every reachable state of the scheduler.
THEOREM Invariance == Spec => []IInv
<1> QED BY InitEstablishesIInv, NextKeepsIInv, PTL DEF Spec

\* Every reachable state of the scheduler is of the declared type.
THEOREM TypeCorrect == Spec => []TypeOK
<1>1. IInv => TypeOK
  BY DEF IInv
<1> QED BY <1>1, Invariance, PTL

\* The three intrusive lists are well formed in every reachable state, for
\* any number of tasks and whatever the uninitialised _pri fields hold.
THEOREM QueuesAlwaysWellFormed == Spec => []QueuesWellFormed
<1>1. IInv => QueuesWellFormed
  BY DEF IInv
<1> QED BY <1>1, Invariance, PTL

\* The spin of cpu_context_push_task on a broken queue is never entered.
THEOREM PushNeverSpins == Spec => [](\A p \in Level : ~Spins(next, tail, p))
<1>1. IInv => \A p \in Level : ~Spins(next, tail, p)
  <2> SUFFICES ASSUME IInv, NEW p \in Level, next[p] = Nil PROVE tail[p] = p
    BY DEF Spins
  <2>1. QueueTypes(next, tail, order) /\ WellFormed(next, tail, order)
    BY DEF IInv, TypeOK, QueueTypes, QueuesWellFormed
  <2>2. CASE order[p] = <<>>
    BY <2>1, <2>2 DEF WellFormed, IsList
  <2>3. CASE order[p] # <<>>
    <3>1. order[p] \in Seq(Context)
      BY <2>1 DEF QueueTypes
    <3>2. 1 \in 1 .. Len(order[p])
      BY <3>1, <2>3
    <3>3. next[p] = order[p][1] /\ order[p][1] \in Context
      BY <3>1, <3>2, <2>1, <2>3 DEF WellFormed, IsList
    <3> QED BY <3>3 DEF Node
  <2> QED BY <2>2, <2>3
<1> QED BY <1>1, Invariance, PTL

\* _running_task, the stacks and the extended state stay consistent with the
\* context that executes.
THEOREM ContextsAlwaysConsistent == Spec => []ContextsConsistent
<1>1. IInv => ContextsConsistent
  BY DEF IInv, CpuInv, FrameInv, ContextsConsistent, Node
<1> QED BY <1>1, Invariance, PTL

-----------------------------------------------------------------------------
(* No task is lost, if no new context carries the idle mark by chance.     *)

LiveInv ==
  \A t \in Task : life[t] = "live" =>
    /\ pri[t] # NumPris
    /\ Queued(t) \/ (mode = "up" /\ onCpu = t)

\* A live task stays on a queue or on the CPU, whatever step is taken, as long
\* as a new context never carries the idle mark.
LEMMA NextKeepsLiveInv ==
  ASSUME NumPris \notin FreshPri, IInv, LiveInv, [Next]_vars
  PROVE  LiveInv'
<1>0. /\ TypeOK /\ QueuesWellFormed
      /\ QueueTypes(next, tail, order) /\ WellFormed(next, tail, order)
  BY DEF IInv, TypeOK, QueueTypes, QueuesWellFormed
<1>1. ASSUME NEW t \in Task, NEW p \in Level, tasks_create(t, p) PROVE LiveInv'
  <2>1. \A c \in Task : Queued(c)' <=> Queued(c) \/ c = t
    BY <1>0, <1>1, PushOnQueue DEF tasks_create, QueueTypes, Queued, Context
  <2>2. \A c \in Task : c # t => life'[c] = life[c] /\ pri'[c] = pri[c]
    BY <1>0, <1>1 DEF tasks_create, TypeOK, Context
  <2>3. pri'[t] # NumPris
    BY <1>0, <1>1 DEF tasks_create, TypeOK, Context
  <2>4. mode' = mode /\ onCpu' = onCpu
    BY <1>1 DEF tasks_create
  <2> QED BY <2>1, <2>2, <2>3, <2>4 DEF LiveInv
<1>2. ASSUME tasks_start_idle PROVE LiveInv'
  <2>1. PICK p \in Level : RunFirst(p, saved \cup {Idle})
    BY <1>2 DEF tasks_start_idle
  <2>2. \A c \in Task : Queued(c)' <=> Queued(c) /\ c # next[p]
    BY <1>0, <2>1, RunFirstQueues DEF RunFirst, IsTop, Queued
  <2>3. \A c \in Task : pri'[c] = pri[c] /\ life'[c] = life[c]
    BY <1>0, <1>2 DEF tasks_start_idle, TypeOK, Context
  <2>4. mode = "boot" /\ mode' = "up" /\ onCpu' = next[p]
    BY <1>2, <2>1 DEF tasks_start_idle, RunFirst, SwitchTo
  <2> QED BY <2>2, <2>3, <2>4 DEF LiveInv
<1>3. ASSUME NEW p \in Level, YieldTo(p) PROVE LiveInv'
  <2> DEFINE od == [order EXCEPT ![p] = Tail(@)]
  <2>1. /\ mode = "up" /\ running = onCpu /\ onCpu \in Context
        /\ UNCHANGED <<pri, life, mode>> /\ onCpu' = next[p]
        /\ next[p] # Nil
    BY <1>3 DEF IInv, CpuInv, YieldTo, Yields, SwitchTo, taskVars, IsTop
  <2>2. \A c \in Task : OnQueue(od, c) <=> Queued(c) /\ c # next[p]
    BY <1>0, <2>1, RunFirstQueues
  <2>3. od \in [Level -> Seq(Context)]
    BY <1>0, <2>1, RunFirstQueues DEF QueueTypes
  <2>4. CASE onCpu \in Task
    <3>1. pri[running] # NumPris
      BY <2>1, <2>4 DEF IInv, CpuInv, LiveInv
    <3>2. order' = [od EXCEPT ![p] = Append(@, running)]
      BY <3>1, <1>0, <1>3 DEF YieldTo, Requeues, TypeOK
    <3>3. \A c \in Task : Queued(c)' <=> OnQueue(od, c) \/ c = running
      BY <3>2, <2>1, <2>3, PushOnQueue DEF Queued
    <3> QED BY <3>3, <2>1, <2>2 DEF LiveInv
  <2>5. CASE onCpu = Idle
    <3>1. order' = od
      BY <2>1, <2>5, <1>3 DEF IInv, CpuInv, YieldTo, Requeues
    <3> QED BY <3>1, <2>1, <2>2, <2>5 DEF LiveInv, Queued
  <2> QED BY <2>1, <2>4, <2>5 DEF Context
<1>4. ASSUME NEW u \in Task, NEW p \in Level, ReturnTo(u, p) PROVE LiveInv'
  <2>1. \A c \in Task : Queued(c)' <=> Queued(c) /\ c # next[p]
    BY <1>0, <1>4, RunFirstQueues DEF ReturnTo, RunFirst, IsTop, Queued
  <2>2. /\ \A c \in Task : life'[c] = IF c = u THEN "returned" ELSE life[c]
        /\ UNCHANGED <<pri, mode>>
        /\ mode = "up" /\ onCpu = u /\ onCpu' = next[p]
    BY <1>0, <1>4 DEF ReturnTo, RunFirst, SwitchTo, LiveOnCpu, TypeOK
  <2> QED BY <2>1, <2>2 DEF LiveInv
<1>5. ASSUME NEW u \in Task, ReturnToIdle(u) PROVE LiveInv'
  <2>1. /\ \A c \in Task : life'[c] = IF c = u THEN "returned" ELSE life[c]
        /\ UNCHANGED <<pri, order>>
        /\ onCpu = u
    BY <1>0, <1>5 DEF ReturnToIdle, LiveOnCpu, TypeOK, queueVars
  <2> QED BY <2>1 DEF LiveInv, Queued
<1>6. CASE UNCHANGED vars
  BY <1>6 DEF LiveInv, Queued, vars, queueVars, cpuVars, taskVars
<1>7. Normal \in Level
  BY DEF Level, Highest, Normal, Lowest
<1> QED BY <1>1, <1>2, <1>3, <1>4, <1>5, <1>6, <1>7
    DEF Next, CreateMain, CreateTask, Yield, YieldToSelf, Return, FaultAgain

\* While it is live, a task is the running one or on exactly one queue, and
\* no task comes back after it has returned, for any number of tasks: unless
\* the memory of a new context happens to hold the mark of the idle task.
THEOREM NoTaskIsLost ==
  ASSUME NumPris \notin FreshPri
  PROVE  Spec => []NoTaskLost
<1>1. Init => LiveInv
  BY DEF Init, LiveInv
<1>2. IInv /\ LiveInv /\ [Next]_vars => LiveInv'
  BY NextKeepsLiveInv
<1>3. IInv /\ LiveInv => NoTaskLost
  BY DEF IInv, QueuedInv, CpuInv, LiveInv, NoTaskLost
<1> QED BY <1>1, <1>2, <1>3, Invariance, PTL DEF Spec

-----------------------------------------------------------------------------
(* Tasks implements TaskLifecycle.                                         *)

\* Once the CPU idles, every task has returned or was never created: only a
\* running task creates another.
IdleInv ==
  mode = "up" /\ onCpu = Idle => \A t \in Task : life[t] # "live"

RInv == IInv /\ LiveInv /\ IdleInv

-----------------------------------------------------------------------------
(* The refinement mapping.                                                 *)

LifeStatus(stage, executes) ==
  IF stage = "unborn" THEN "unborn"
  ELSE IF stage = "returned" THEN "finished"
  ELSE IF executes THEN "running" ELSE "ready"

LEMMA StatusIs ==
  ASSUME TypeOK
  PROVE  \A t \in Task : StatusOf(t) = LifeStatus(life[t], onCpu = t)
<1> SUFFICES ASSUME NEW t \in Task PROVE StatusOf(t) = LifeStatus(life[t], onCpu = t)
  OBVIOUS
<1>1. life[t] \in {"unborn", "live", "returned"}
  BY DEF TypeOK, Life
<1>2. CASE life[t] = "unborn"
  BY <1>2 DEF StatusOf, LifeStatus
<1>3. CASE life[t] = "returned"
  BY <1>3 DEF StatusOf, LifeStatus
<1>4. CASE life[t] = "live"
  BY <1>4 DEF StatusOf, LifeStatus
<1> QED BY <1>1, <1>2, <1>3, <1>4

LEMMA StatusWillBe ==
  ASSUME TypeOK'
  PROVE  \A t \in Task : StatusOf(t)' = LifeStatus(life'[t], onCpu' = t)
<1> SUFFICES ASSUME NEW t \in Task PROVE StatusOf(t)' = LifeStatus(life'[t], onCpu' = t)
  OBVIOUS
<1>1. life'[t] \in {"unborn", "live", "returned"}
  BY DEF TypeOK, Life
<1>2. CASE life'[t] = "unborn"
  BY <1>2 DEF StatusOf, LifeStatus
<1>3. CASE life'[t] = "returned"
  BY <1>3 DEF StatusOf, LifeStatus
<1>4. CASE life'[t] = "live"
  BY <1>4 DEF StatusOf, LifeStatus
<1> QED BY <1>1, <1>2, <1>3, <1>4

\* The task at the front of a queue is ready in the eyes of TaskLifecycle.
LEMMA QueuedIsReady ==
  ASSUME IInv, NEW t \in Task, Queued(t)
  PROVE  t \in Lifecycle!Ready /\ StatusOf(t) = "ready" /\ life[t] = "live" /\ onCpu # t
<1>1. life[t] = "live" /\ onCpu # t
  BY DEF IInv, QueuedInv
<1>2. StatusOf(t) = "ready"
  BY <1>1, StatusIs DEF IInv, LifeStatus
<1> QED BY <1>1, <1>2 DEF Lifecycle!Ready

\* With all sentinels pointing nowhere no task is on a queue.
LEMMA NothingQueuedMeansNone ==
  ASSUME IInv, NothingQueued, NEW t \in Task
  PROVE  ~Queued(t)
<1>1. QueueTypes(next, tail, order) /\ WellFormed(next, tail, order)
  BY DEF IInv, TypeOK, QueueTypes, QueuesWellFormed
<1>2. ASSUME NEW p \in Level PROVE order[p] = <<>>
  <2>1. next[p] = Nil /\ order[p] \in Seq(Context) /\ IsList(next, tail, p, order[p])
    BY <1>1 DEF NothingQueued, QueueTypes, WellFormed
  <2>2. SUFFICES ASSUME order[p] # <<>> PROVE FALSE
    OBVIOUS
  <2>3. 1 \in 1 .. Len(order[p])
    BY <2>1, <2>2
  <2>4. order[p][1] \in Context /\ next[p] = order[p][1]
    BY <2>1, <2>2, <2>3 DEF IsList
  <2> QED BY <2>1, <2>4 DEF Node
<1>3. \A p \in Level : Elements(order[p]) = {}
  BY <1>2 DEF Elements
<1> QED BY <1>3 DEF Queued, OnQueue

-----------------------------------------------------------------------------
(* Every action of the scheduler is one of TaskLifecycle, or none.         *)

View == <<[t \in Task |-> StatusOf(t)], CpuDoes>>

LEMMA CreateMaps ==
  ASSUME IInv, TypeOK', NEW t \in Task, NEW p \in Level, tasks_create(t, p),
         CpuDoes \in {"boot", "task"}
  PROVE  Lifecycle!Spawn(t)
<1>1. /\ life[t] = "unborn" /\ life' = [life EXCEPT ![t] = "live"]
      /\ onCpu' = onCpu /\ mode' = mode /\ onCpu # t /\ life \in [Task -> Life]
  BY DEF tasks_create, IInv, FrameInv, TypeOK
<1>2. \A c \in Task : StatusOf(c)' = IF c = t THEN "ready" ELSE StatusOf(c)
  <2>1. \A c \in Task : life'[c] = IF c = t THEN "live" ELSE life[c]
    BY <1>1
  <2> QED BY <2>1, <1>1, StatusIs, StatusWillBe DEF IInv, LifeStatus
<1>3. StatusOf(t) = "unborn"
  BY <1>1, StatusIs DEF IInv, LifeStatus
<1>4. CpuDoes' = CpuDoes
  BY <1>1 DEF CpuDoes
<1>5. [c \in Task |-> StatusOf(c)]' = [[c \in Task |-> StatusOf(c)] EXCEPT ![t] = "ready"]
  BY <1>2
<1> QED BY <1>3, <1>4, <1>5 DEF Lifecycle!Spawn

LEMMA StartMaps ==
  ASSUME IInv, TypeOK', tasks_start_idle
  PROVE  \E t \in Task : Lifecycle!Start(t)
<1>1. PICK p \in Level : RunFirst(p, saved \cup {Idle})
  BY DEF tasks_start_idle
<1> DEFINE t == next[p]
<1>2. next[p] # Nil /\ onCpu' = t /\ life' = life /\ mode = "boot" /\ mode' = "up"
  BY <1>1 DEF tasks_start_idle, RunFirst, IsTop, SwitchTo
<1>3. t \in Task /\ Queued(t) /\ onCpu = Boot
  BY <1>2, RunFirstQueues DEF IInv, CpuInv
<1>4. t \in Lifecycle!Ready /\ life[t] = "live"
  BY <1>3, QueuedIsReady
<1>5. \A c \in Task : c # Boot /\ c # Idle
  BY DEF Node, Context
<1>6. \A c \in Task : StatusOf(c)' = IF c = t THEN "running" ELSE StatusOf(c)
  BY <1>2, <1>3, <1>4, <1>5, StatusIs, StatusWillBe DEF IInv, LifeStatus
<1>7. CpuDoes = "boot" /\ CpuDoes' = "task"
  BY <1>2, <1>3, <1>5 DEF CpuDoes
<1>8. [c \in Task |-> StatusOf(c)]' = [[c \in Task |-> StatusOf(c)] EXCEPT ![t] = "running"]
  BY <1>6
<1> QED BY <1>3, <1>4, <1>7, <1>8 DEF Lifecycle!Start

LEMMA YieldMaps ==
  ASSUME RInv, TypeOK', NEW p \in Level, YieldTo(p)
  PROVE  \E s, t \in Task : Lifecycle!GiveWay(s, t)
<1> DEFINE t == next[p]
           s == onCpu
<1>1. next[p] # Nil /\ onCpu' = t /\ life' = life /\ mode = "up" /\ mode' = mode
  BY DEF YieldTo, Yields, IsTop, SwitchTo, taskVars
<1>2. t \in Task /\ Queued(t)
  BY <1>1, RunFirstQueues DEF RInv, IInv
<1>3. t \in Lifecycle!Ready /\ life[t] = "live" /\ s # t
  BY <1>2, QueuedIsReady DEF RInv
<1>4. s \in Task /\ life[s] = "live"
  BY <1>1, <1>2, <1>3 DEF YieldTo, Yields, LiveOnCpu, RInv, IdleInv
<1>5. StatusOf(s) = "running"
  BY <1>4, StatusIs DEF RInv, IInv, LifeStatus
<1>6. \A c \in Task : StatusOf(c)' = IF c = t THEN "running" ELSE IF c = s THEN "ready" ELSE StatusOf(c)
  BY <1>1, <1>2, <1>3, <1>4, StatusIs, StatusWillBe DEF RInv, IInv, LifeStatus
<1>7. CpuDoes = "task" /\ CpuDoes' = "task"
  BY <1>1, <1>2, <1>4 DEF CpuDoes
<1>8. [c \in Task |-> StatusOf(c)]'
        = [[c \in Task |-> StatusOf(c)] EXCEPT ![s] = "ready", ![t] = "running"]
  BY <1>6
<1> QED BY <1>2, <1>3, <1>4, <1>5, <1>7, <1>8 DEF Lifecycle!GiveWay

LEMMA ReturnMaps ==
  ASSUME RInv, TypeOK', NEW u \in Task, NEW p \in Level, ReturnTo(u, p)
  PROVE  Lifecycle!Finish(u)
<1> DEFINE t == next[p]
<1>1. /\ next[p] # Nil /\ onCpu = u /\ onCpu' = t /\ life[u] = "live"
      /\ life' = [life EXCEPT ![u] = "returned"] /\ life \in [Task -> Life]
      /\ mode = "up" /\ mode' = mode
  BY DEF ReturnTo, RunFirst, IsTop, SwitchTo, LiveOnCpu, RInv, IInv, TypeOK
<1>2. t \in Task /\ Queued(t)
  BY <1>1, RunFirstQueues DEF RInv, IInv
<1>3. t \in Lifecycle!Ready /\ life[t] = "live" /\ u # t
  BY <1>1, <1>2, QueuedIsReady DEF RInv
<1>4. StatusOf(u) = "running"
  BY <1>1, StatusIs DEF RInv, IInv, LifeStatus
<1>5. \A c \in Task : life'[c] = IF c = u THEN "returned" ELSE life[c]
  BY <1>1
<1>6. \A c \in Task : StatusOf(c)' = IF c = t THEN "running" ELSE IF c = u THEN "finished" ELSE StatusOf(c)
  BY <1>1, <1>2, <1>3, <1>5, StatusIs, StatusWillBe DEF RInv, IInv, LifeStatus
<1>7. CpuDoes = "task" /\ CpuDoes' = "task"
  BY <1>1, <1>2 DEF CpuDoes
<1>8. [c \in Task |-> StatusOf(c)]'
        = [[c \in Task |-> StatusOf(c)] EXCEPT ![u] = "finished", ![t] = "running"]
  BY <1>6
<1> QED BY <1>3, <1>4, <1>7, <1>8 DEF Lifecycle!Finish

LEMMA ReturnToIdleMaps ==
  ASSUME RInv, TypeOK', NEW u \in Task, ReturnToIdle(u)
  PROVE  Lifecycle!Finish(u)
<1>1. /\ NothingQueued /\ onCpu = u /\ life[u] = "live" /\ mode = "up"
      /\ life' = [life EXCEPT ![u] = "returned"] /\ life \in [Task -> Life]
  BY DEF ReturnToIdle, LiveOnCpu, RInv, IInv, TypeOK
<1>2. \/ onCpu' = Idle /\ mode' = mode
      \/ mode' = "faulted" /\ onCpu' = onCpu
  BY DEF ReturnToIdle
<1>3. \A c \in Task : life[c] = "live" => c = u
  BY <1>1, NothingQueuedMeansNone DEF RInv, LiveInv
<1>4. Lifecycle!Ready = {}
  <2>1. ASSUME NEW c \in Task PROVE StatusOf(c) # "ready"
    BY <1>1, <1>3, StatusIs DEF RInv, IInv, LifeStatus, TypeOK, Life
  <2> QED BY <2>1 DEF Lifecycle!Ready
<1>5. StatusOf(u) = "running"
  BY <1>1, StatusIs DEF RInv, IInv, LifeStatus
<1>6. \A c \in Task : life'[c] = IF c = u THEN "returned" ELSE life[c]
  BY <1>1
<1>7. \A c \in Task : StatusOf(c)' = IF c = u THEN "finished" ELSE StatusOf(c)
  <2> SUFFICES ASSUME NEW c \in Task
               PROVE  StatusOf(c)' = IF c = u THEN "finished" ELSE StatusOf(c)
    OBVIOUS
  <2>1. StatusOf(c)' = LifeStatus(life'[c], onCpu' = c) /\ StatusOf(c) = LifeStatus(life[c], onCpu = c)
    BY StatusIs, StatusWillBe DEF RInv, IInv
  <2>2. CASE c = u
    BY <2>1, <2>2, <1>6 DEF LifeStatus
  <2>3. CASE c # u
    <3>1. life'[c] = life[c] /\ life[c] \in {"unborn", "returned"}
      BY <2>3, <1>1, <1>3, <1>6 DEF Life
    <3> QED BY <2>1, <2>3, <3>1 DEF LifeStatus
  <2> QED BY <2>2, <2>3
<1>8. CpuDoes' \in {"idle", "halted"}
  BY <1>1, <1>2 DEF CpuDoes
<1>9. [c \in Task |-> StatusOf(c)]' = [[c \in Task |-> StatusOf(c)] EXCEPT ![u] = "finished"]
  BY <1>7
<1> QED BY <1>4, <1>5, <1>8, <1>9 DEF Lifecycle!Finish

-----------------------------------------------------------------------------
\* The CPU idles for good.
LEMMA NextKeepsIdleInv ==
  ASSUME RInv, [Next]_vars
  PROVE  IdleInv'
<1>1. ASSUME NEW t \in Task, NEW p \in Level, tasks_create(t, p), mode = "boot" \/ onCpu \in Task
      PROVE  IdleInv'
  BY <1>1 DEF tasks_create, IdleInv, RInv, IInv, CpuInv
<1>2. ASSUME NEW p \in Level, NEW frames, RunFirst(p, frames) PROVE IdleInv'
  <2>1. onCpu' = next[p] /\ next[p] \in Task
    BY <1>2, RunFirstQueues DEF RunFirst, SwitchTo, IsTop, RInv, IInv
  <2> QED BY <2>1 DEF IdleInv
<1>3. ASSUME NEW p \in Level, YieldTo(p) PROVE IdleInv'
  <2>1. onCpu' = next[p] /\ next[p] \in Task
    BY <1>3, RunFirstQueues DEF YieldTo, SwitchTo, IsTop, RInv, IInv
  <2> QED BY <2>1 DEF IdleInv
<1>4. ASSUME NEW u \in Task, ReturnToIdle(u) PROVE IdleInv'
  <2>1. \A c \in Task : life[c] = "live" => c = u
    BY <1>4, NothingQueuedMeansNone DEF ReturnToIdle, LiveOnCpu, RInv, LiveInv
  <2>2. \A c \in Task : life'[c] = IF c = u THEN "returned" ELSE life[c]
    BY <1>4 DEF ReturnToIdle, RInv, IInv, TypeOK
  <2> QED BY <2>1, <2>2 DEF IdleInv
<1>5. CASE UNCHANGED vars
  BY <1>5 DEF RInv, IdleInv, vars, cpuVars, taskVars
<1>6. CASE \E t \in Task : CreateMain(t)
  BY <1>1, <1>6 DEF CreateMain, Level, Highest, Normal, Lowest
<1>7. CASE \E t \in Task, p \in Level : CreateTask(t, p)
  BY <1>1, <1>7 DEF CreateTask, LiveOnCpu
<1> QED BY <1>2, <1>3, <1>4, <1>5, <1>6, <1>7
    DEF Next, tasks_start_idle, Yield, YieldToSelf, Return, ReturnTo, FaultAgain

\* A step of the scheduler is a step of TaskLifecycle or changes nothing that
\* TaskLifecycle sees.
LEMMA StepMaps ==
  ASSUME RInv, TypeOK', [Next]_vars
  PROVE  [Lifecycle!LcNext]_View
<1>1. ASSUME NEW t \in Task, CreateMain(t) PROVE Lifecycle!LcNext
  <2>0. mode = "boot" /\ tasks_create(t, Normal) /\ Normal \in Level
    BY <1>1 DEF CreateMain, Level, Highest, Normal, Lowest
  <2>a. ASSUME NEW p \in Level, tasks_create(t, p) PROVE Lifecycle!Spawn(t)
    <3>1. CpuDoes = "boot"
      BY <2>0 DEF CpuDoes
    <3> QED BY <2>a, <3>1, CreateMaps DEF RInv
  <2>1. Lifecycle!Spawn(t)
    BY <2>0, <2>a
  <2> QED BY <2>1 DEF Lifecycle!LcNext
<1>2. ASSUME NEW t \in Task, NEW p \in Level, CreateTask(t, p) PROVE Lifecycle!LcNext
  <2>1. mode = "up" /\ onCpu \in Task /\ tasks_create(t, p)
    BY <1>2 DEF CreateTask, LiveOnCpu
  <2>2. CpuDoes = "task"
    BY <2>1 DEF CpuDoes
  <2>3. Lifecycle!Spawn(t)
    BY <2>1, <2>2, CreateMaps DEF RInv
  <2> QED BY <2>3 DEF Lifecycle!LcNext
<1>3. CASE tasks_start_idle
  BY <1>3, StartMaps DEF Lifecycle!LcNext, RInv
<1>4. CASE Yield
  BY <1>4, YieldMaps DEF Yield, Lifecycle!LcNext
<1>5. CASE Return
  BY <1>5, ReturnMaps, ReturnToIdleMaps DEF Return, Lifecycle!LcNext
<1>6. CASE UNCHANGED vars
  <2>1. UNCHANGED <<life, onCpu, mode>>
    BY <1>6 DEF vars, cpuVars, taskVars
  <2>2. \A c \in Task : StatusOf(c)' = StatusOf(c)
    BY <2>1 DEF StatusOf
  <2>3. CpuDoes' = CpuDoes
    BY <2>1 DEF CpuDoes
  <2> QED BY <2>2, <2>3 DEF View
<1> QED BY <1>1, <1>2, <1>3, <1>4, <1>5, <1>6 DEF Next, YieldToSelf, FaultAgain

LEMMA InitMaps == Init => IdleInv /\ Lifecycle!LcInit
<1> SUFFICES ASSUME Init PROVE IdleInv /\ Lifecycle!LcInit
  OBVIOUS
<1>1. \A c \in Task : StatusOf(c) = "unborn"
  BY InitEstablishesIInv, StatusIs DEF Init, IInv, LifeStatus
<1>2. CpuDoes = "boot" /\ mode = "boot"
  BY DEF Init, CpuDoes
<1> QED BY <1>1, <1>2 DEF IdleInv, Lifecycle!LcInit

\* The queues, the stacks and the null _running_task of a task that returns
\* keep the promise of TaskLifecycle: created tasks become ready, one runs at a
\* time, none is forgotten or runs after its end, and the CPU idles only when
\* no task is ready.
THEOREM LifecycleIsImplemented ==
  ASSUME NumPris \notin FreshPri
  PROVE  Spec => ImplementsLifecycle
<1>1. Init => LiveInv /\ IdleInv /\ Lifecycle!LcInit
  BY InitMaps DEF Init, LiveInv
<1>2. IInv /\ LiveInv /\ IdleInv /\ [Next]_vars => LiveInv' /\ IdleInv'
  BY NextKeepsLiveInv, NextKeepsIdleInv DEF RInv
<1>3. IInv /\ LiveInv /\ IdleInv /\ IInv' /\ [Next]_vars => [Lifecycle!LcNext]_View
  BY StepMaps DEF RInv, IInv
<1>4. Spec => []IInv
  BY Invariance
<1>5. Spec => Lifecycle!LcInit /\ [][Lifecycle!LcNext]_View
  BY <1>1, <1>2, <1>3, <1>4, PTL DEF Spec
<1> QED BY <1>5, PTL DEF ImplementsLifecycle, Lifecycle!LcSpec, Lifecycle!lcVars, View

=============================================================================
