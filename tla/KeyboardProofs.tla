--------------------------- MODULE KeyboardProofs ---------------------------
(***************************************************************************)
(* Proofs about Keyboard, for every set of scan codes, every size of the   *)
(* buffer and every number of bytes sent.                                  *)
(***************************************************************************)
EXTENDS Keyboard, FiniteSetTheorems, TLAPS

USE KeyboardAssumption DEF Extended, None

\* The variables that are true or false, and the flags of the special keys.
Flags ==
  /\ irq \in BOOLEAN /\ active \in BOOLEAN /\ extended \in BOOLEAN
  /\ overrun \in BOOLEAN /\ ext \in BOOLEAN /\ checked \in BOOLEAN
  /\ held \subseteq Special \X BOOLEAN

\* The others: bytes, counts and indices.
Numbers ==
  /\ out \in ScanCode \cup {None}
  /\ sent \in 0 .. MaxBytes
  /\ active => keys < Size
  /\ buf \in [0 .. Size - 1 -> ScanCode \cup {0}]
  /\ keys \in 0 .. Size
  /\ lock \in {0, 1}
  /\ stored \in [ScanCode -> Nat] /\ taken \in [ScanCode -> Nat] /\ torn \in Nat
  /\ pc \in {"idle", "load", "pop", "read", "test", "unlock"}
  /\ seen \in 0 .. Size
  /\ pc = "pop" => seen > 0 /\ keys > 0
  /\ index \in 0 .. Size - 1
  /\ sc \in ScanCode \cup {0}

\* What the task has read of _keys_in_buffer is no more than what is there: a
\* handler in between only adds.
ReaderInv ==
  /\ pc = "pop" => seen <= keys
  /\ pc \in {"read", "test"} => index <= keys

IInv == Flags /\ Numbers /\ ReaderInv /\ CheckedKeyIsThere

\* Counting an element up leaves counts.
LEMMA CountUp ==
  ASSUME NEW S, NEW f \in [S -> Nat], NEW e
  PROVE  [f EXCEPT ![e] = @ + 1] \in [S -> Nat]
<1> DEFINE g == [f EXCEPT ![e] = @ + 1]
<1>1. ASSUME NEW x \in S PROVE g[x] \in Nat
  <2>1. CASE x = e
    BY <2>1
  <2>2. CASE x # e
    BY <2>2
  <2> QED BY <2>1, <2>2
<1>2. g = [x \in S |-> g[x]]
  OBVIOUS
<1> QED BY <1>1, <1>2

LEMMA InitIInv == Init => IInv
<1>1. Init => Flags
  BY DEF Init, Flags
<1>2. Init => Numbers
  BY DEF Init, Numbers
<1>3. Init => ReaderInv /\ CheckedKeyIsThere
  BY DEF Init, ReaderInv, CheckedKeyIsThere
<1> QED BY <1>1, <1>2, <1>3 DEF IInv

\* The flags stay flags.
LEMMA NextKeepsFlags == Flags /\ [Next]_vars => Flags'
<1> SUFFICES ASSUME Flags, [Next]_vars PROVE Flags'
  OBVIOUS
<1> USE DEF Flags, deviceVars, handlerVars, bufferVars, taskVars
<1>1. CASE \E c \in ScanCode : Send(c)
  BY <1>1 DEF Send
<1>2. CASE Enter
  <2>1. active' \in BOOLEAN
    BY <1>2 DEF Enter
  <2>2. overrun' \in BOOLEAN
    BY <1>2 DEF Enter
  <2>3. irq' = FALSE
    BY <1>2 DEF Enter
  <2>4. extended' = extended /\ held' = held /\ ext' = ext /\ checked' = checked
    BY <1>2 DEF Enter
  <2> QED BY <2>1, <2>2, <2>3, <2>4
<1>3. CASE TakeByte
  <2>1. held' \subseteq Special \X BOOLEAN
    <3>1. CASE UNCHANGED held
      BY <3>1
    <3>2. CASE out % 128 \in Special /\ Track(out % 128, out < 128)
      <4>1. <<out % 128, extended /\ out % 128 # Caps>> \in Special \X BOOLEAN
        BY <3>2
      <4> QED BY <3>2, <4>1 DEF Track
    <3> QED BY <1>3, <3>1, <3>2 DEF TakeByte
  <2>2. extended' \in BOOLEAN /\ active' \in BOOLEAN
    BY <1>3 DEF TakeByte, Store
  <2> QED BY <1>3, <2>1, <2>2 DEF TakeByte
<1>4. CASE Leave
  BY <1>4 DEF Leave
<1>5. CASE Check
  BY <1>5 DEF Check, TaskAt, HasKey
<1>6. CASE Lock
  BY <1>6 DEF Lock, TaskAt, Passes
<1>7. CASE Load
  BY <1>7 DEF Load, TaskAt
<1>8. CASE Pop
  BY <1>8 DEF Pop, TaskAt
<1>9. CASE Read
  BY <1>9 DEF Read, TaskAt, Element
<1>10. CASE Test
  BY <1>10 DEF Test, TaskAt
<1>11. CASE Unlock
  BY <1>11 DEF Unlock, TaskAt
<1>12. CASE UNCHANGED vars
  BY <1>12 DEF vars
<1> QED
  BY <1>1, <1>2, <1>3, <1>4, <1>5, <1>6, <1>7, <1>8, <1>9, <1>10, <1>11, <1>12 DEF Next

\* Bytes, counts and indices stay in their ranges.
LEMMA NextKeepsNumbers ==
  ASSUME IInv, [Next]_vars
  PROVE  Numbers' /\ ReaderInv' /\ CheckedKeyIsThere'
<1> USE DEF IInv, Numbers, ReaderInv, CheckedKeyIsThere, deviceVars, handlerVars, bufferVars, taskVars
<1>1. CASE \E c \in ScanCode : Send(c)
  BY <1>1 DEF Send
<1>2. CASE Enter
  BY <1>2 DEF Enter
<1>3. CASE TakeByte
  <2>1. CASE Store(out)
    <3>1. active /\ keys \in 0 .. Size - 1 /\ keys' = keys + 1 /\ out \in ScanCode
      BY <1>3, <2>1 DEF TakeByte, Store
    <3>2. /\ buf' \in [0 .. Size - 1 -> ScanCode \cup {0}]
          /\ stored' \in [ScanCode -> Nat] /\ torn' \in Nat
      BY <2>1, <3>1 DEF Store
    <3>3. active' => keys' # Size
      BY <1>3 DEF TakeByte
    <3>4. active' => keys' < Size
      BY <3>1, <3>3
    <3>5. UNCHANGED <<sent, pc, seen, index, sc, checked, taken>> /\ out' = None /\ lock' = 0
      BY <1>3, <2>1 DEF TakeByte, Store
    <3> QED BY <3>1, <3>2, <3>4, <3>5
  <2>2. CASE UNCHANGED <<bufferVars, lock>>
    <3>1. active /\ keys \in 0 .. Size - 1 /\ UNCHANGED <<sent, taskVars>> /\ out' = None
      BY <1>3, <2>2 DEF TakeByte
    <3> QED BY <2>2, <3>1
  <2> QED BY <1>3, <2>1, <2>2 DEF TakeByte
<1>4. CASE Leave
  BY <1>4 DEF Leave
<1>5. CASE Check
  BY <1>5 DEF Check, TaskAt, HasKey
<1>6. CASE Lock
  BY <1>6 DEF Lock, TaskAt, Passes
<1>7. CASE Load
  BY <1>7 DEF Load, TaskAt
<1>8. CASE Pop
  BY <1>8 DEF Pop, TaskAt
<1>9. CASE Read
  <2>1. Element \in ScanCode \cup {0}
    BY DEF Element
  <2>2. taken' \in [ScanCode -> Nat]
    BY <1>9, CountUp DEF Read
  <2>3. pc = "read" /\ pc' \in {"test", "unlock"} /\ sc' = Element
    BY <1>9 DEF Read, TaskAt
  <2>4. UNCHANGED <<deviceVars, handlerVars, bufferVars, lock, seen, index, ext, checked>>
    BY <1>9 DEF Read
  <2> QED BY <2>1, <2>2, <2>3, <2>4
<1>10. CASE Test
  BY <1>10 DEF Test, TaskAt
<1>11. CASE Unlock
  BY <1>11 DEF Unlock, TaskAt
<1>12. CASE UNCHANGED vars
  BY <1>12 DEF vars
<1> QED
  BY <1>1, <1>2, <1>3, <1>4, <1>5, <1>6, <1>7, <1>8, <1>9, <1>10, <1>11, <1>12 DEF Next

LEMMA InductiveInvariant == Spec => []IInv
<1>1. IInv /\ [Next]_vars => IInv'
  BY NextKeepsFlags, NextKeepsNumbers DEF IInv
<1> QED BY <1>1, InitIInv, PTL DEF Spec

\* However the handler interrupts keyboard_get_last_key, _keys_in_buffer stays in
\* its range and every access is to an element of the buffer.
THEOREM TypeCorrect == Spec => []TypeOK
<1>1. IInv => TypeOK
  BY DEF IInv, Flags, Numbers, TypeOK
<1> QED BY <1>1, InductiveInvariant, PTL

\* A task that keyboard_has_key has told of a key finds one.
THEOREM CheckedKeyIsAlwaysThere == Spec => []CheckedKeyIsThere
<1>1. IInv => CheckedKeyIsThere
  BY DEF IInv
<1> QED BY <1>1, InductiveInvariant, PTL

-----------------------------------------------------------------------------
(* The codes in the buffer.                                                *)

\* How often c is among the first n elements of f.
Among(f, n, c) == Cardinality({i \in 0 .. n - 1 : f[i] = c})

\* How many elements the task still reckons with: those behind them were stored
\* while it was taking one, and may be dropped.
Reckoned ==
  IF pc = "pop" THEN seen ELSE IF pc \in {"read", "test"} THEN index ELSE keys

\* KeysConserved, with only the elements that are reckoned with counted as there.
\* The weaker form would not do: a pop that goes by what was read before drops
\* those behind them without any further code being stored.
Balanced(c) ==
  /\ stored[c] <= taken[c] + Among(buf, Reckoned, c) + InHand(c) + torn
  /\ taken[c] + Among(buf, keys, c) + InHand(c) <= stored[c] + torn

BalanceInv == \A c \in ScanCode : Balanced(c)

LEMMA AmongIsCount ==
  ASSUME NEW f, NEW n \in Nat, NEW c
  PROVE  Among(f, n, c) \in Nat
<1>1. IsFiniteSet(0 .. n - 1)
  BY FS_Interval
<1>2. IsFiniteSet({i \in 0 .. n - 1 : f[i] = c})
  BY <1>1, FS_Subset
<1> QED BY <1>2, FS_CardinalityType DEF Among

\* One element more, whatever becomes of those behind it.
LEMMA AmongOneMore ==
  ASSUME NEW f, NEW g, NEW n \in Nat, NEW c, \A i \in 0 .. n - 1 : g[i] = f[i]
  PROVE  Among(g, n + 1, c) = Among(f, n, c) + (IF g[n] = c THEN 1 ELSE 0)
<1> DEFINE before == {i \in 0 .. n - 1 : f[i] = c}
           after  == {i \in 0 .. (n + 1) - 1 : g[i] = c}
<1>1. IsFiniteSet(0 .. n - 1)
  BY FS_Interval
<1>2. IsFiniteSet(before)
  BY <1>1, FS_Subset
<1>3. n \notin before
  OBVIOUS
<1>4. Cardinality(before) \in Nat
  BY <1>2, FS_CardinalityType
<1>5. CASE g[n] = c
  <2>1. after = before \cup {n}
    BY <1>5
  <2> HIDE DEF before, after
  <2>2. Cardinality(after) = Cardinality(before) + 1
    BY <1>2, <1>3, <2>1, FS_AddElement
  <2> QED BY <1>5, <2>2 DEF Among, before, after
<1>6. CASE g[n] # c
  <2>1. after = before
    BY <1>6
  <2> HIDE DEF before, after
  <2>2. Cardinality(after) = Cardinality(before) + 0
    BY <1>4, <2>1
  <2> QED BY <1>6, <2>2 DEF Among, before, after
<1> QED BY <1>5, <1>6

\* No more among fewer elements.
LEMMA AmongFewer ==
  ASSUME NEW f, NEW n \in Nat, NEW m \in 0 .. n, NEW c
  PROVE  Among(f, m, c) <= Among(f, n, c)
<1> DEFINE fewer == {i \in 0 .. m - 1 : f[i] = c}
           more  == {i \in 0 .. n - 1 : f[i] = c}
<1>1. IsFiniteSet(0 .. n - 1)
  BY FS_Interval
<1>2. IsFiniteSet(more)
  BY <1>1, FS_Subset
<1>3. fewer \subseteq more
  OBVIOUS
<1> HIDE DEF fewer, more
<1>4. Cardinality(fewer) <= Cardinality(more)
  BY <1>2, <1>3, FS_Subset
<1> QED BY <1>4 DEF Among, fewer, more

\* The counts are natural numbers, and the elements reckoned with are there.
LEMMA CountsAre ==
  ASSUME IInv, NEW c \in ScanCode
  PROVE  /\ stored[c] \in Nat /\ taken[c] \in Nat /\ torn \in Nat /\ InHand(c) \in {0, 1}
         /\ keys \in 0 .. Size /\ Reckoned \in 0 .. keys
<1>1. stored[c] \in Nat /\ taken[c] \in Nat /\ torn \in Nat /\ keys \in 0 .. Size
  BY DEF IInv, Numbers
<1>2. InHand(c) \in {0, 1}
  BY DEF InHand
<1>3. Reckoned \in 0 .. keys
  BY DEF IInv, Numbers, ReaderInv, Reckoned
<1> QED BY <1>1, <1>2, <1>3

LEMMA StoreKeepsBalance ==
  ASSUME IInv, BalanceInv, TakeByte, Store(out)
  PROVE  BalanceInv'
<1> SUFFICES ASSUME NEW c \in ScanCode PROVE Balanced(c)'
  BY DEF BalanceInv
<1> DEFINE new == IF out = c THEN 1 ELSE 0
<1>1. /\ keys \in 0 .. Size - 1 /\ keys' = keys + 1 /\ out \in ScanCode
      /\ buf' = [buf EXCEPT ![keys] = out] /\ stored' = [stored EXCEPT ![out] = @ + 1]
      /\ UNCHANGED <<pc, seen, index, taken>>
  BY DEF IInv, Numbers, TakeByte, Store, taskVars
<1>2. stored'[c] = stored[c] + new /\ taken'[c] = taken[c]
  BY <1>1 DEF IInv, Numbers
<1>3. /\ \A i \in 0 .. keys - 1 : buf'[i] = buf[i]
      /\ buf'[keys] = out
  BY <1>1 DEF IInv, Numbers
<1>4. Among(buf', keys + 1, c) = Among(buf, keys, c) + new
  <2>1. keys \in Nat
    BY <1>1
  <2>2. Among(buf', keys + 1, c) = Among(buf, keys, c) + (IF buf'[keys] = c THEN 1 ELSE 0)
    BY <1>3, <2>1, AmongOneMore
  <2> QED BY <1>3, <2>2
<1>5. Balanced(c)
  BY DEF BalanceInv
<1>6. /\ stored[c] \in Nat /\ taken[c] \in Nat /\ torn \in Nat /\ InHand(c) \in {0, 1}
      /\ Reckoned \in 0 .. keys
      /\ Among(buf, keys, c) \in Nat /\ Among(buf, Reckoned, c) \in Nat
  <2>1. /\ stored[c] \in Nat /\ taken[c] \in Nat /\ torn \in Nat /\ InHand(c) \in {0, 1}
        /\ keys \in 0 .. Size /\ Reckoned \in 0 .. keys
    BY CountsAre
  <2>2. keys \in Nat /\ Reckoned \in Nat
    BY <2>1
  <2> QED BY <2>1, <2>2, AmongIsCount
<1>7. CASE pc \in {"pop", "read", "test"}
  <2>1. torn' = torn + 1 /\ Reckoned' = Reckoned
    BY <1>1, <1>7 DEF Store, Reckoned
  <2>2. Among(buf', Reckoned, c) = Among(buf, Reckoned, c)
    <3>1. PICK r \in 0 .. keys : r = Reckoned
      BY <1>6
    <3>2. \A i \in 0 .. r - 1 : i \in 0 .. keys - 1
      BY <1>1, <3>1
    <3>3. {i \in 0 .. r - 1 : buf'[i] = c} = {i \in 0 .. r - 1 : buf[i] = c}
      BY <1>3, <3>2
    <3> QED BY <3>1, <3>3 DEF Among
  <2>3. InHand(c)' = InHand(c) \/ InHand(c)' = new
    BY <1>1, <1>3 DEF InHand, IInv, Numbers
  <2>4. /\ stored'[c] <= taken'[c] + Among(buf', Reckoned', c) + InHand(c)' + torn'
        /\ taken'[c] + Among(buf', keys', c) + InHand(c)' <= stored'[c] + torn'
    BY <1>1, <1>2, <1>4, <1>5, <1>6, <2>1, <2>2, <2>3 DEF Balanced
  <2> QED BY <2>4 DEF Balanced
<1>8. CASE pc \notin {"pop", "read", "test"}
  <2>1. torn' = torn /\ Reckoned = keys /\ Reckoned' = keys'
    BY <1>1, <1>8 DEF Store, Reckoned
  <2>2. InHand(c) = 0 /\ InHand(c)' = 0
    BY <1>1, <1>8 DEF InHand
  <2>3. /\ stored'[c] <= taken'[c] + Among(buf', Reckoned', c) + InHand(c)' + torn'
        /\ taken'[c] + Among(buf', keys', c) + InHand(c)' <= stored'[c] + torn'
    BY <1>1, <1>2, <1>4, <1>5, <1>6, <2>1, <2>2 DEF Balanced
  <2> QED BY <2>3 DEF Balanced
<1> QED BY <1>7, <1>8

\* A step of the task that touches neither the buffer nor the counts, and
\* reckons with no fewer elements than before.
LEMMA QuietStepKeepsBalance ==
  ASSUME IInv, IInv', BalanceInv, UNCHANGED <<buf, keys, stored, torn, taken>>,
         pc # "read", pc' # "read", Reckoned <= Reckoned'
  PROVE  BalanceInv'
<1> SUFFICES ASSUME NEW c \in ScanCode PROVE Balanced(c)'
  BY DEF BalanceInv
<1>1. Balanced(c) /\ InHand(c) = 0 /\ InHand(c)' = 0
  BY DEF BalanceInv, InHand
<1>2. /\ stored[c] \in Nat /\ taken[c] \in Nat /\ torn \in Nat
      /\ Reckoned \in Nat /\ Reckoned' \in Nat /\ Reckoned \in 0 .. Reckoned'
  <2>1. stored[c] \in Nat /\ taken[c] \in Nat /\ torn \in Nat /\ keys \in 0 .. Size /\ Reckoned \in 0 .. keys
    BY CountsAre
  <2>2. keys' \in 0 .. Size /\ Reckoned' \in 0 .. keys'
    BY DEF IInv, Numbers, ReaderInv, Reckoned
  <2> QED BY <2>1, <2>2
<1>3. /\ Among(buf, Reckoned, c) \in Nat /\ Among(buf, Reckoned', c) \in Nat
      /\ Among(buf, Reckoned, c) <= Among(buf, Reckoned', c)
  BY <1>2, AmongIsCount, AmongFewer
<1> QED BY <1>1, <1>2, <1>3 DEF Balanced

LEMMA PopKeepsBalance ==
  ASSUME IInv, BalanceInv, Pop
  PROVE  BalanceInv'
<1> SUFFICES ASSUME NEW c \in ScanCode PROVE Balanced(c)'
  BY DEF BalanceInv
<1>1. /\ pc = "pop" /\ pc' = "read" /\ UNCHANGED <<buf, stored, torn, taken>>
      /\ \E v \in {seen, keys} : keys' = v - 1 /\ index' = v - 1
  BY DEF Pop, TaskAt
<1>2. Reckoned = seen /\ InHand(c) = 0 /\ seen \in 1 .. keys /\ keys \in 1 .. Size
  BY <1>1 DEF Reckoned, InHand, IInv, Numbers, ReaderInv
<1>3. PICK v \in seen .. keys : keys' = v - 1 /\ index' = v - 1
  BY <1>1, <1>2
<1>4. Reckoned' = keys' /\ InHand(c)' = IF buf[v - 1] = c THEN 1 ELSE 0
  BY <1>1, <1>3 DEF Reckoned, InHand
<1>5. v \in Nat /\ v - 1 \in Nat /\ (v - 1) + 1 = v /\ seen \in 0 .. v /\ v \in 0 .. keys /\ keys \in Nat /\ seen \in Nat
  BY <1>2, <1>3
<1>6. Among(buf, v, c) = Among(buf, v - 1, c) + InHand(c)'
  <2>1. Among(buf, (v - 1) + 1, c) = Among(buf, v - 1, c) + (IF buf[v - 1] = c THEN 1 ELSE 0)
    BY <1>5, AmongOneMore
  <2> QED BY <1>4, <1>5, <2>1
<1>7. /\ Among(buf, v, c) \in Nat /\ Among(buf, v - 1, c) \in Nat
      /\ Among(buf, keys, c) \in Nat /\ Among(buf, seen, c) \in Nat
  BY <1>5, AmongIsCount
<1>8. Among(buf, seen, c) <= Among(buf, v, c) /\ Among(buf, v, c) <= Among(buf, keys, c)
  BY <1>5, AmongFewer
<1>9. /\ stored[c] \in Nat /\ taken[c] \in Nat /\ torn \in Nat
      /\ InHand(c)' \in {0, 1}
  BY <1>4, CountsAre
<1>10. /\ stored[c] <= taken[c] + Among(buf, seen, c) + 0 + torn
       /\ taken[c] + Among(buf, keys, c) + 0 <= stored[c] + torn
  BY <1>2 DEF BalanceInv, Balanced
<1>11. /\ stored[c] <= taken[c] + Among(buf, v - 1, c) + InHand(c)' + torn
       /\ taken[c] + Among(buf, v - 1, c) + InHand(c)' <= stored[c] + torn
  BY <1>6, <1>7, <1>8, <1>9, <1>10
<1> QED BY <1>1, <1>3, <1>4, <1>11 DEF Balanced

LEMMA ReadKeepsBalance ==
  ASSUME IInv, BalanceInv, Read
  PROVE  BalanceInv'
<1> SUFFICES ASSUME NEW c \in ScanCode PROVE Balanced(c)'
  BY DEF BalanceInv
<1>1. /\ pc = "read" /\ pc' \in {"test", "unlock"} /\ UNCHANGED <<buf, keys, stored, torn, index>>
      /\ taken' = [taken EXCEPT ![buf[index]] = @ + 1]
  BY DEF Read, TaskAt, Element, bufferVars
<1>2. taken'[c] = taken[c] + InHand(c) /\ InHand(c)' = 0
  BY <1>1 DEF IInv, Numbers, InHand
<1>3. Reckoned = index /\ Reckoned' \in {index, keys}
  BY <1>1 DEF Reckoned
<1>4. /\ stored[c] \in Nat /\ taken[c] \in Nat /\ torn \in Nat /\ InHand(c) \in {0, 1}
      /\ keys \in Nat /\ index \in Nat /\ index \in 0 .. keys
  BY <1>3, CountsAre
<1>5. Among(buf, index, c) \in Nat /\ Among(buf, keys, c) \in Nat
  BY <1>4, AmongIsCount
<1>6. Among(buf, index, c) <= Among(buf, keys, c)
  BY <1>4, AmongFewer
<1>7. /\ stored[c] <= taken[c] + Among(buf, index, c) + InHand(c) + torn
      /\ taken[c] + Among(buf, keys, c) + InHand(c) <= stored[c] + torn
  BY <1>3 DEF BalanceInv, Balanced
<1>8. PICK r \in {index, keys} : r = Reckoned'
  BY <1>3
<1>9. Among(buf, r, c) \in Nat /\ Among(buf, index, c) <= Among(buf, r, c)
  BY <1>5, <1>6
<1>10. /\ stored[c] <= taken'[c] + Among(buf, r, c) + 0 + torn
       /\ taken'[c] + Among(buf, keys, c) + 0 <= stored[c] + torn
  BY <1>2, <1>4, <1>5, <1>7, <1>9
<1> QED BY <1>1, <1>2, <1>8, <1>10 DEF Balanced

LEMMA NextKeepsBalance ==
  ASSUME IInv, IInv', BalanceInv, [Next]_vars
  PROVE  BalanceInv'
<1> USE DEF deviceVars, handlerVars, bufferVars, taskVars
<1>0. ASSUME UNCHANGED <<bufferVars, taskVars>> PROVE BalanceInv'
  BY <1>0 DEF BalanceInv, Balanced, Among, Reckoned, InHand
<1>1. CASE \E c \in ScanCode : Send(c)
  BY <1>0, <1>1 DEF Send
<1>2. CASE Enter
  BY <1>0, <1>2 DEF Enter
<1>3. CASE TakeByte
  <2>1. CASE Store(out)
    BY <1>3, <2>1, StoreKeepsBalance
  <2>2. CASE UNCHANGED <<bufferVars, lock>>
    BY <1>0, <1>3, <2>2 DEF TakeByte
  <2> QED BY <1>3, <2>1, <2>2 DEF TakeByte
<1>4. CASE Leave
  BY <1>0, <1>4 DEF Leave
<1>5. CASE Check
  <2>1. Reckoned = keys /\ Reckoned' = keys /\ keys <= keys
    BY <1>5 DEF Check, TaskAt, Reckoned, IInv, Numbers
  <2> QED BY <1>5, <2>1, QuietStepKeepsBalance DEF Check, TaskAt
<1>6. CASE Lock
  <2>1. Reckoned = keys /\ Reckoned' = keys /\ keys <= keys
    BY <1>6 DEF Lock, TaskAt, Reckoned, IInv, Numbers
  <2> QED BY <1>6, <2>1, QuietStepKeepsBalance DEF Lock, TaskAt
<1>7. CASE Load
  <2>1. Reckoned = keys /\ Reckoned' = keys /\ keys <= keys
    BY <1>7 DEF Load, TaskAt, Reckoned, IInv, Numbers
  <2> QED BY <1>7, <2>1, QuietStepKeepsBalance DEF Load, TaskAt
<1>8. CASE Pop
  BY <1>8, PopKeepsBalance
<1>9. CASE Read
  BY <1>9, ReadKeepsBalance
<1>10. CASE Test
  <2>1. Reckoned = index /\ Reckoned' \in {index, keys} /\ index <= keys
    BY <1>10 DEF Test, TaskAt, Reckoned, IInv, Numbers, ReaderInv
  <2>2. Reckoned <= Reckoned'
    BY <2>1 DEF IInv, Numbers
  <2> QED BY <1>10, <2>2, QuietStepKeepsBalance DEF Test, TaskAt
<1>11. CASE Unlock
  <2>1. Reckoned = keys /\ Reckoned' = keys /\ keys <= keys
    BY <1>11 DEF Unlock, TaskAt, Reckoned, IInv, Numbers
  <2> QED BY <1>11, <2>1, QuietStepKeepsBalance DEF Unlock, TaskAt
<1>12. CASE UNCHANGED vars
  BY <1>0, <1>12 DEF vars
<1> QED
  BY <1>1, <1>2, <1>3, <1>4, <1>5, <1>6, <1>7, <1>8, <1>9, <1>10, <1>11, <1>12 DEF Next

\* For any number of codes and any size of the buffer: with no code stored between
\* two accesses of keyboard_get_last_key every code is taken out once, waits, or
\* is being taken; with n stored so, at most n of each code are lost and at most
\* n taken or waiting once too often.
THEOREM KeysAlwaysConserved == Spec => []KeysConserved
<1>1. Init => BalanceInv
  <2> SUFFICES ASSUME Init, NEW c \in ScanCode PROVE Balanced(c)
    BY DEF BalanceInv
  <2>1. {i \in 0 .. 0 - 1 : buf[i] = c} = {}
    OBVIOUS
  <2>2. Among(buf, 0, c) = 0
    BY <2>1, FS_EmptySet DEF Among
  <2>3. keys = 0 /\ Reckoned = 0 /\ InHand(c) = 0 /\ stored[c] = 0 /\ taken[c] = 0 /\ torn = 0
    BY DEF Init, Reckoned, InHand
  <2> QED BY <2>2, <2>3 DEF Balanced
<1>2. IInv /\ IInv' /\ BalanceInv /\ [Next]_vars => BalanceInv'
  BY NextKeepsBalance
<1>3. IInv /\ BalanceInv => KeysConserved
  <2> SUFFICES ASSUME IInv, BalanceInv, NEW c \in ScanCode
               PROVE  /\ stored[c] <= taken[c] + Waiting(c) + InHand(c) + torn
                      /\ taken[c] + Waiting(c) + InHand(c) <= stored[c] + torn
    BY DEF KeysConserved
  <2>1. Waiting(c) = Among(buf, keys, c)
    BY DEF Waiting, Among
  <2>2. /\ stored[c] \in Nat /\ taken[c] \in Nat /\ torn \in Nat /\ InHand(c) \in {0, 1}
        /\ keys \in Nat /\ Reckoned \in 0 .. keys /\ Reckoned \in Nat
    BY CountsAre
  <2>3. /\ Among(buf, Reckoned, c) \in Nat /\ Among(buf, keys, c) \in Nat
        /\ Among(buf, Reckoned, c) <= Among(buf, keys, c)
    BY <2>2, AmongIsCount, AmongFewer
  <2> QED BY <2>1, <2>2, <2>3 DEF BalanceInv, Balanced
<1> QED BY <1>1, <1>2, <1>3, InductiveInvariant, PTL DEF Spec

=============================================================================
