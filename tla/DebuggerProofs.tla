--------------------------- MODULE DebuggerProofs ---------------------------
(***************************************************************************)
(* Proofs about Debugger, for any program, any addresses to break at and   *)
(* any bound on the breakpoints.                                           *)
(***************************************************************************)
EXTENDS Debugger, DataFacts

-----------------------------------------------------------------------------
(* The list of breakpoints and the memory.                                 *)

LEMMA Bound == MaxBreakpoints \in Nat
BY DebuggerAssumption

USE Bound

Typed(s) ==
  s \in [memory : [Address -> {"own", "int3"}],
         bps : [1 .. MaxBreakpoints -> Entry \cup {NoEntry}],
         size : 0 .. MaxBreakpoints]

ActiveAt(s, a) == {i \in 1 .. s.size : s.bps[i].active /\ s.bps[i].at = a}

\* Every int 3 has an active breakpoint.
Owned(s) == \A a \in Address : s.memory[a] = "int3" => ActiveAt(s, a) # {}

\* An address may be in the list more than once, as _remove_breakpoint leaves a
\* copy of the last entry; of its active entries the last one has the program's
\* byte.  The others may have an int 3 in its place.
LastHasByte(s) ==
  \A a \in Address : \A i \in ActiveAt(s, a) :
    (\A j \in ActiveAt(s, a) : j <= i) => s.bps[i].byte = "own"

Sound(s) == Typed(s) /\ Owned(s) /\ LastHasByte(s)

\* _debugger_breakpoint_at has found entry i, the first of its address.
First(s, a, i) ==
  /\ i \in 1 .. s.size /\ s.bps[i].at = a
  /\ \A j \in 1 .. s.size : s.bps[j].at = a => i <= j

NoneAt(s, a) == \A j \in 1 .. s.size : s.bps[j].at # a

LEMMA ListReplaced ==
  ASSUME NEW s, Typed(s), NEW b \in [1 .. MaxBreakpoints -> Entry \cup {NoEntry}]
  PROVE  Typed([s EXCEPT !.bps = b])
BY DEF Typed

LEMMA Found ==
  ASSUME NEW s, Typed(s), NEW a
  PROVE  \/ BreakpointAt(s, a) = 0 /\ NoneAt(s, a)
         \/ First(s, a, BreakpointAt(s, a)) /\ BreakpointAt(s, a) # 0
<1> DEFINE here == {i \in 1 .. s.size : s.bps[i].at = a}
<1>1. s.size \in Nat
  BY DEF Typed
<1>2. CASE here = {}
  <2>1. BreakpointAt(s, a) = 0
    BY <1>2 DEF BreakpointAt
  <2> QED BY <1>2, <2>1 DEF NoneAt
<1>3. CASE here # {}
  <2>1. PICK i \in here : \A j \in here : i <= j
    <3>1. here \subseteq Nat
      BY <1>1
    <3> HIDE DEF here
    <3> QED BY <1>3, <3>1, Least
  <2>2. BreakpointAt(s, a) = CHOOSE k \in here : \A j \in here : k <= j
    BY <1>3 DEF BreakpointAt
  <2>3. BreakpointAt(s, a) \in here /\ \A j \in here : BreakpointAt(s, a) <= j
    BY <2>1, <2>2
  <2>4. BreakpointAt(s, a) # 0
    BY <1>1, <2>3
  <2> QED BY <2>3, <2>4 DEF First
<1> QED BY <1>2, <1>3

\* The byte behind an int 3 that is taken away: either the program's, or there
\* is another active breakpoint behind this one.
LEMMA ByteBehind ==
  ASSUME NEW s, Sound(s), NEW a \in Address, NEW i \in ActiveAt(s, a)
  PROVE  s.bps[i].byte = "own" \/ \E j \in ActiveAt(s, a) : i < j
<1>1. s.size \in Nat
  BY DEF Sound, Typed
<1>2. \A j \in ActiveAt(s, a) : j <= i \/ i < j
  BY <1>1 DEF ActiveAt
<1> QED BY <1>2 DEF Sound, LastHasByte

LEMMA OwnByteBehindInt3 ==
  ASSUME NEW s, Sound(s), NEW a \in Address, ActiveAt(s, a) # {}
  PROVE  \E i \in ActiveAt(s, a) :
           s.bps[i].byte = "own" /\ \A j \in ActiveAt(s, a) : j <= i
<1>1. s.size \in Nat /\ ActiveAt(s, a) \subseteq 0 .. s.size
  BY DEF Sound, Typed, ActiveAt
<1>2. PICK i \in ActiveAt(s, a) : \A j \in ActiveAt(s, a) : j <= i
  BY <1>1, Greatest
<1> QED BY <1>2 DEF Sound, LastHasByte

-----------------------------------------------------------------------------
\* What a change of the first entry of an address, or of a new one, must keep.
LEMMA PatchedIsSound ==
  ASSUME NEW s, Sound(s), NEW a \in Address, NEW i, First(s, a, i),
         NEW b \in Entry, b.at = a, NEW y \in {"own", "int3"},
         y = "int3" => b.active \/ \E j \in ActiveAt(s, a) : i < j,
         b.active => b.byte = "own" \/ \E j \in ActiveAt(s, a) : i < j
  PROVE  Sound(Patched(s, i, b, y)) /\ Patched(s, i, b, y).size = s.size
<1> DEFINE t == Patched(s, i, b, y)
<1>1. /\ Typed(s) /\ s.size \in Nat /\ i \in 1 .. s.size /\ i \in 1 .. MaxBreakpoints
      /\ s.bps[i].at = a
  BY DEF Sound, Typed, First
<1>2. /\ t.size = s.size /\ t.bps = [s.bps EXCEPT ![i] = b]
      /\ t.memory = [s.memory EXCEPT ![a] = y]
  BY DEF Patched
<1>3. Typed(t)
  BY <1>1 DEF Patched, Typed
<1>4. t.bps[i] = b /\ \A j \in 1 .. s.size : j # i => t.bps[j] = s.bps[j]
  BY <1>1, <1>2 DEF Typed
<1>5. t.memory[a] = y /\ \A c \in Address \ {a} : t.memory[c] = s.memory[c]
  BY <1>1, <1>2 DEF Typed
<1>6. \A c \in Address \ {a} : ActiveAt(t, c) = ActiveAt(s, c)
  BY <1>1, <1>2, <1>4 DEF ActiveAt
<1>7. \A j : j \in ActiveAt(t, a) <=>
              IF j = i THEN b.active ELSE j \in ActiveAt(s, a)
  BY <1>1, <1>2, <1>4 DEF ActiveAt
<1>8. \A j \in ActiveAt(s, a) : j = i \/ i < j
  BY <1>1 DEF First, ActiveAt
<1>9. Owned(t)
  <2>1. ASSUME NEW c \in Address, t.memory[c] = "int3", c # a PROVE ActiveAt(t, c) # {}
    BY <1>5, <1>6, <2>1 DEF Sound, Owned
  <2>2. ASSUME y = "int3" PROVE ActiveAt(t, a) # {}
    <3>1. CASE b.active
      BY <1>7, <3>1
    <3>2. CASE \E j \in ActiveAt(s, a) : i < j
      <4>1. PICK j \in ActiveAt(s, a) : i < j
        BY <3>2
      <4>2. j # i
        BY <1>1, <4>1 DEF ActiveAt
      <4> QED BY <1>7, <4>2
    <3> QED BY <2>2, <3>1, <3>2
  <2> QED BY <1>5, <2>1, <2>2 DEF Owned
<1>10. LastHasByte(t)
  <2>1. ASSUME NEW c \in Address, c # a, NEW j \in ActiveAt(t, c),
               \A k \in ActiveAt(t, c) : k <= j
        PROVE  t.bps[j].byte = "own"
    <3>1. j \in ActiveAt(s, c) /\ \A k \in ActiveAt(s, c) : k <= j
      BY <1>6, <2>1
    <3>2. t.bps[j] = s.bps[j]
      BY <1>1, <1>4, <2>1, <3>1 DEF ActiveAt
    <3> QED BY <3>1, <3>2 DEF Sound, LastHasByte
  <2>2. ASSUME NEW j \in ActiveAt(t, a), \A k \in ActiveAt(t, a) : k <= j
        PROVE  t.bps[j].byte = "own"
    <3>1. CASE j = i
      <4>1. b.active
        BY <1>7, <3>1
      <4>2. ~ \E k \in ActiveAt(s, a) : i < k
        <5> SUFFICES ASSUME NEW k \in ActiveAt(s, a), i < k PROVE FALSE
          OBVIOUS
        <5>1. k # i /\ ~ (k <= i)
          BY <1>1 DEF ActiveAt
        <5> QED BY <1>7, <2>2, <3>1, <5>1
      <4> QED BY <1>4, <3>1, <4>1, <4>2
    <3>2. CASE j # i
      <4>1. j \in ActiveAt(s, a) /\ i < j
        BY <1>7, <1>8, <3>2
      <4>2. \A k \in ActiveAt(s, a) : k <= j
        <5> SUFFICES ASSUME NEW k \in ActiveAt(s, a), k # i PROVE k <= j
          BY <1>1, <4>1 DEF ActiveAt
        <5> QED BY <1>7, <2>2
      <4>3. t.bps[j] = s.bps[j]
        BY <1>4, <3>2, <4>1 DEF ActiveAt
      <4> QED BY <4>1, <4>2, <4>3 DEF Sound, LastHasByte
    <3> QED BY <3>1, <3>2
  <2> QED BY <2>1, <2>2 DEF LastHasByte
<1> QED BY <1>2, <1>3, <1>9, <1>10 DEF Sound

LEMMA AddedIsSound ==
  ASSUME NEW s, Sound(s), NEW a \in Address, NoneAt(s, a), s.size < MaxBreakpoints,
         NEW active \in BOOLEAN
  PROVE  Sound(Added(s, a, active)) /\ Added(s, a, active).size = s.size + 1
<1> DEFINE n == s.size + 1
           new == [at |-> a, byte |-> s.memory[a], active |-> active, transient |-> FALSE]
           y == IF active THEN "int3" ELSE s.memory[a]
           t == Added(s, a, active)
<1>1. Typed(s) /\ s.size \in Nat /\ n \in 1 .. MaxBreakpoints
  BY DEF Sound, Typed
<1>2. new \in Entry
  BY <1>1 DEF Typed, Entry
<1>3. [s EXCEPT !.size = @ + 1] = [memory |-> s.memory, bps |-> s.bps, size |-> n]
  BY <1>1 DEF Typed
<1>4. t = [memory |-> [s.memory EXCEPT ![a] = y], bps |-> [s.bps EXCEPT ![n] = new], size |-> n]
  BY <1>3 DEF Added, Patched
<1>5. Typed(t)
  <2>1. y \in {"own", "int3"}
    BY <1>1 DEF Typed
  <2>2. [s.memory EXCEPT ![a] = y] \in [Address -> {"own", "int3"}]
    BY <1>1, <2>1 DEF Typed
  <2>3. [s.bps EXCEPT ![n] = new] \in [1 .. MaxBreakpoints -> Entry \cup {NoEntry}]
    BY <1>1, <1>2 DEF Typed
  <2>4. n \in 0 .. MaxBreakpoints
    BY <1>1
  <2> HIDE DEF n, new, y
  <2> QED BY <1>4, <2>2, <2>3, <2>4 DEF Typed
<1>6. t.bps[n] = new /\ \A i \in 1 .. s.size : t.bps[i] = s.bps[i]
  BY <1>1, <1>4 DEF Typed
<1>7. \A i \in 1 .. n : i = n \/ i \in 1 .. s.size
  BY <1>1
<1>8. ActiveAt(s, a) = {} /\ s.memory[a] = "own"
  BY <1>1 DEF ActiveAt, NoneAt, Sound, Owned, Typed
<1>9. t.memory[a] = y /\ \A b \in Address \ {a} : t.memory[b] = s.memory[b]
  BY <1>1, <1>4 DEF Typed
<1>10. \A b \in Address \ {a} : ActiveAt(t, b) = ActiveAt(s, b)
  <2>1. t.size = n /\ new.at = a /\ 1 .. s.size \subseteq 1 .. n
    BY <1>1, <1>4
  <2> HIDE DEF t, n, new
  <2> QED BY <1>6, <1>7, <2>1 DEF ActiveAt
<1>11. ActiveAt(t, a) = IF active THEN {n} ELSE {}
  <2>1. t.size = n /\ new.at = a /\ new.active = active /\ n \in 1 .. n
    BY <1>1, <1>4
  <2> HIDE DEF t, n, new
  <2> QED BY <1>6, <1>7, <1>8, <2>1 DEF ActiveAt, NoneAt
<1>12. Owned(t)
  BY <1>8, <1>9, <1>10, <1>11 DEF Owned, Sound
<1>13. LastHasByte(t)
  <2>1. \A b \in Address \ {a} : \A i \in ActiveAt(s, b) : t.bps[i] = s.bps[i]
    BY <1>6 DEF ActiveAt
  <2>2. new.byte = "own"
    BY <1>8
  <2> HIDE DEF t, new
  <2> QED BY <1>6, <1>10, <1>11, <2>1, <2>2 DEF LastHasByte, Sound
<1>14. t.size = s.size + 1
  BY <1>4
<1> QED BY <1>5, <1>12, <1>13, <1>14 DEF Sound

\* Only an entry at an address has the address, NoEntry none.
LEMMA FirstIsEntry ==
  ASSUME NEW s, Typed(s), NEW a \in Address, NEW i, First(s, a, i)
  PROVE  s.bps[i] \in Entry /\ s.bps[i].at = a
<1>1. i \in 1 .. MaxBreakpoints /\ s.bps[i].at = a
  BY DEF Typed, First
<1>2. s.bps[i] \in Entry \cup {NoEntry}
  BY <1>1 DEF Typed
<1>3. a # 0
  BY DebuggerAssumption
<1> QED BY <1>1, <1>2, <1>3 DEF NoEntry

LEMMA EnableIsSound ==
  ASSUME NEW s, Sound(s), NEW a \in Address, NEW i, First(s, a, i)
  PROVE  Sound(Enable(s, i)) /\ Enable(s, i).size = s.size
<1> DEFINE b == [s.bps[i] EXCEPT !.byte = s.memory[s.bps[i].at], !.active = TRUE]
<1>1. CASE s.bps[i].active
  BY <1>1 DEF Enable
<1>2. CASE ~s.bps[i].active
  <2>1. Typed(s) /\ s.bps[i] \in Entry /\ s.bps[i].at = a /\ s.memory[a] \in {"own", "int3"}
    BY FirstIsEntry DEF Sound, Typed
  <2>2. b \in Entry /\ b.at = a /\ b.active /\ b.byte = s.memory[a]
    BY <2>1 DEF Entry
  <2>3. b.byte = "own" \/ \E j \in ActiveAt(s, a) : i < j
    <3>1. SUFFICES ASSUME s.memory[a] = "int3" PROVE \E j \in ActiveAt(s, a) : i < j
      BY <2>1, <2>2
    <3>2. PICK j \in ActiveAt(s, a) : TRUE
      BY <3>1 DEF Sound, Owned
    <3>3. j # i /\ i <= j /\ i \in Int /\ j \in Int
      BY <1>2, <3>2 DEF First, ActiveAt
    <3> QED BY <3>2, <3>3
  <2>4. Enable(s, i) = Patched(s, i, b, "int3")
    BY <1>2 DEF Enable
  <2> HIDE DEF b
  <2> QED BY <2>2, <2>3, <2>4, PatchedIsSound
<1> QED BY <1>1, <1>2

LEMMA DisableIsSound ==
  ASSUME NEW s, Sound(s), NEW a \in Address, NEW i, First(s, a, i)
  PROVE  /\ Sound(Disable(s, i)) /\ Disable(s, i).size = s.size
         /\ ~Disable(s, i).bps[i].active /\ First(Disable(s, i), a, i)
<1> DEFINE b == [s.bps[i] EXCEPT !.active = FALSE]
           t == Patched(s, i, b, s.bps[i].byte)
<1>1. CASE ~s.bps[i].active
  BY <1>1 DEF Disable
<1>2. CASE s.bps[i].active
  <2>1. /\ Typed(s) /\ s.bps[i] \in Entry /\ s.bps[i].at = a /\ s.bps[i].byte \in {"own", "int3"}
        /\ i \in ActiveAt(s, a) /\ i \in 1 .. MaxBreakpoints
    BY <1>2, FirstIsEntry DEF Sound, Typed, ActiveAt, First, Entry
  <2>2. b \in Entry /\ b.at = a /\ ~b.active
    BY <2>1 DEF Entry
  <2>3. s.bps[i].byte = "own" \/ \E j \in ActiveAt(s, a) : i < j
    BY <2>1, ByteBehind
  <2>4. Disable(s, i) = t
    BY <1>2 DEF Disable
  <2>5. Sound(t) /\ t.size = s.size
    <3> HIDE DEF b
    <3> QED BY <2>1, <2>2, <2>3, PatchedIsSound
  <2>6. t.bps[i] = b /\ \A j \in 1 .. s.size : j # i => t.bps[j] = s.bps[j]
    <3> HIDE DEF b
    <3> QED BY <2>1 DEF Patched, Typed
  <2>7. First(t, a, i)
    <3> HIDE DEF b, t
    <3> QED BY <2>2, <2>5, <2>6 DEF First
  <2> QED BY <2>2, <2>4, <2>5, <2>6, <2>7
<1> QED BY <1>1, <1>2

LEMMA SetBreakpointIsSound ==
  ASSUME NEW s, Sound(s), NEW a \in Address, s.size < MaxBreakpoints
  PROVE  Sound(SetBreakpoint(s, a)) /\ SetBreakpoint(s, a).size \in {s.size, s.size + 1}
<1> DEFINE i == BreakpointAt(s, a)
           b == [at        |-> a,
                 byte      |-> IF s.memory[a] = "int3" THEN s.bps[i].byte ELSE s.memory[a],
                 active    |-> TRUE,
                 transient |-> FALSE]
<1>1. CASE i = 0 /\ NoneAt(s, a)
  <2>1. SetBreakpoint(s, a) = Added(s, a, TRUE)
    BY <1>1 DEF SetBreakpoint
  <2> QED BY <1>1, <2>1, AddedIsSound
<1>2. CASE i # 0 /\ First(s, a, i)
  <2>1. SetBreakpoint(s, a) = Patched(s, i, b, "int3")
    BY <1>2 DEF SetBreakpoint
  <2> HIDE DEF i
  <2>2. Typed(s) /\ s.bps[i] \in Entry /\ s.bps[i].at = a /\ s.memory[a] \in {"own", "int3"}
    BY <1>2, FirstIsEntry DEF Sound, Typed
  <2>3. b \in Entry /\ b.at = a /\ b.active
    BY <2>2 DEF Entry
  <2>4. b.byte = "own" \/ \E j \in ActiveAt(s, a) : i < j
    <3>1. SUFFICES ASSUME s.memory[a] = "int3"
                   PROVE s.bps[i].byte = "own" \/ \E j \in ActiveAt(s, a) : i < j
      BY <2>2
    <3>2. CASE s.bps[i].active
      <4>1. i \in ActiveAt(s, a)
        BY <1>2, <3>2 DEF ActiveAt, First
      <4> QED BY <4>1, ByteBehind
    <3>3. CASE ~s.bps[i].active
      <4>1. PICK j \in ActiveAt(s, a) : TRUE
        BY <3>1 DEF Sound, Owned
      <4>2. j # i /\ i <= j /\ i \in Int /\ j \in Int
        BY <1>2, <3>3, <4>1 DEF First, ActiveAt
      <4> QED BY <4>1, <4>2
    <3> QED BY <3>2, <3>3
  <2> HIDE DEF b
  <2> QED BY <1>2, <2>1, <2>3, <2>4, PatchedIsSound
<1>3. Typed(s)
  BY DEF Sound
<1> HIDE DEF i
<1> QED BY <1>1, <1>2, <1>3, Found DEF i

\* An entry that is removed must not be the one an int 3 needs.
LEMMA RemovedIsSound ==
  ASSUME NEW s, Sound(s), NEW a \in Address, NEW i, First(s, a, i),
         ~s.bps[i].active \/ s.memory[a] = "own"
  PROVE  Sound(Removed(s, i)) /\ Removed(s, i).size = s.size
<1> DEFINE n == s.size
           t == [memory |-> s.memory, bps |-> [s.bps EXCEPT ![i] = s.bps[n]], size |-> n]
<1>1. Typed(s) /\ n \in Nat /\ i \in 1 .. n /\ n \in 1 .. MaxBreakpoints /\ n # 0
  BY DEF Sound, Typed, First
<1>2. Removed(s, i) = t
  <2>1. Removed(s, i) = [s EXCEPT !.bps[i] = s.bps[n]]
    BY <1>1 DEF Removed
  <2> QED BY <1>1, <2>1 DEF Typed
<1>3. Typed(t)
  BY <1>1 DEF Typed
<1>4. /\ t.bps[i] = s.bps[n] /\ t.size = n /\ t.memory = s.memory
      /\ \A j \in 1 .. n : j # i => t.bps[j] = s.bps[j]
      /\ t.bps[n] = s.bps[n]
  BY <1>1 DEF Typed, First
<1> HIDE DEF t
<1>5. \A c : \A j : j # i => (j \in ActiveAt(t, c) <=> j \in ActiveAt(s, c))
  BY <1>4 DEF ActiveAt
<1>6. \A c : i \in ActiveAt(t, c) <=> n \in ActiveAt(s, c)
  BY <1>1, <1>4 DEF ActiveAt
<1>7. \A c : n \in ActiveAt(t, c) <=> n \in ActiveAt(s, c)
  BY <1>1, <1>4 DEF ActiveAt
<1>8. Owned(t)
  <2> SUFFICES ASSUME NEW c \in Address, t.memory[c] = "int3"
               PROVE  ActiveAt(t, c) # {}
    BY DEF Owned
  <2>1. PICK j \in ActiveAt(s, c) : TRUE
    BY <1>4 DEF Sound, Owned
  <2>2. CASE j # i
    BY <1>5, <2>1, <2>2
  <2>3. CASE j = i
    <3>1. s.bps[i].active /\ a = c
      BY <2>1, <2>3 DEF ActiveAt, First
    <3> QED BY <1>4, <3>1
  <2> QED BY <2>2, <2>3
<1>9. LastHasByte(t)
  <2> SUFFICES ASSUME NEW c \in Address, NEW j \in ActiveAt(t, c),
                      \A k \in ActiveAt(t, c) : k <= j
               PROVE  t.bps[j].byte = "own"
    BY DEF LastHasByte
  <2>1. CASE j = i
    <3>1. n \in ActiveAt(t, c) /\ n <= i
      BY <1>6, <1>7, <2>1
    <3>2. i = n /\ n \in ActiveAt(s, c)
      BY <1>1, <1>6, <2>1, <3>1
    <3>3. \A k \in ActiveAt(s, c) : k <= n
      BY <1>1 DEF ActiveAt
    <3> QED BY <1>4, <2>1, <3>2, <3>3 DEF Sound, LastHasByte
  <2>2. CASE j # i
    <3>1. j \in ActiveAt(s, c) /\ t.bps[j] = s.bps[j]
      BY <1>4, <1>5, <2>2 DEF ActiveAt
    <3>2. ASSUME NEW k \in ActiveAt(s, c) PROVE k <= j
      <4>1. CASE k # i
        BY <1>5, <4>1
      <4>2. CASE k = i
        <5>1. c = a /\ j \in 1 .. n /\ s.bps[j].at = a
          BY <3>1, <4>2 DEF ActiveAt, First
        <5> QED BY <4>2, <5>1 DEF First
      <4> QED BY <4>1, <4>2
    <3> QED BY <3>1, <3>2 DEF Sound, LastHasByte
  <2> QED BY <2>1, <2>2
<1> QED BY <1>2, <1>3, <1>4, <1>8, <1>9 DEF Sound

LEMMA UpdatedIsSound ==
  ASSUME NEW s, Sound(s), NEW info \in Info, s.size < MaxBreakpoints
  PROVE  Sound(Updated(s, info)) /\ Updated(s, info).size \in {s.size, s.size + 1}
<1> DEFINE a == info.at
           i == BreakpointAt(s, a)
<1>1. a \in Address /\ info.edc \in {"enabled", "disabled", "cleared"}
  BY DebuggerAssumption DEF Info
<1>2. CASE i = 0 /\ NoneAt(s, a)
  <2>1. Updated(s, info) = Added(s, a, info.edc = "enabled")
    BY <1>2 DEF Updated
  <2>2. (info.edc = "enabled") \in BOOLEAN
    OBVIOUS
  <2> QED BY <1>1, <1>2, <2>1, <2>2, AddedIsSound
<1>3. CASE i # 0 /\ First(s, a, i)
  <2>1. CASE info.edc = "enabled"
    <3>1. Updated(s, info) = Enable(s, i)
      BY <1>3, <2>1 DEF Updated
    <3> QED BY <1>1, <1>3, <3>1, EnableIsSound
  <2>2. CASE info.edc = "disabled"
    <3>1. Updated(s, info) = Disable(s, i)
      BY <1>3, <2>2 DEF Updated
    <3> QED BY <1>1, <1>3, <3>1, DisableIsSound
  <2>3. CASE info.edc = "cleared"
    <3>1. Updated(s, info) = Removed(Disable(s, i), i)
      BY <1>3, <2>3 DEF Updated
    <3> HIDE DEF i, a
    <3>2. /\ Sound(Disable(s, i)) /\ Disable(s, i).size = s.size
          /\ ~Disable(s, i).bps[i].active /\ First(Disable(s, i), a, i)
      BY <1>1, <1>3, DisableIsSound
    <3> QED BY <1>1, <3>1, <3>2, RemovedIsSound
  <2> QED BY <1>1, <2>1, <2>2, <2>3
<1>4. Typed(s)
  BY DEF Sound
<1> HIDE DEF i, a
<1> QED BY <1>2, <1>3, <1>4, Found DEF i

LEMMA UpdatedByIsSound ==
  ASSUME NEW s, Sound(s), NEW n \in 1 .. 2, NEW info \in Info, s.size + 1 < MaxBreakpoints
  PROVE  Sound(UpdatedBy(s, n, info))
<1>1. s.size \in Nat
  BY DEF Sound, Typed
<1>2. s.size < MaxBreakpoints
  BY <1>1
<1>3. Sound(Updated(s, info)) /\ Updated(s, info).size \in {s.size, s.size + 1}
  BY <1>2, UpdatedIsSound
<1>4. Updated(s, info).size < MaxBreakpoints
  BY <1>1, <1>2, <1>3
<1>5. Sound(Updated(Updated(s, info), info))
  BY <1>3, <1>4, UpdatedIsSound
<1> QED BY <1>3, <1>5 DEF UpdatedBy

\* The list is empty, and every byte is the program's.
LEMMA AllClearedIsSound ==
  ASSUME NEW s, Sound(s)
  PROVE  Sound(AllCleared(s)) /\ \A a \in Address : AllCleared(s).memory[a] = "own"
<1> DEFINE active(a) == {i \in 1 .. s.size : s.bps[i].active /\ s.bps[i].at = a}
           final(a)  == CHOOSE i \in active(a) : \A j \in active(a) : j <= i
           m == [a \in Address |-> IF active(a) = {} THEN s.memory[a] ELSE s.bps[final(a)].byte]
           b == [i \in 1 .. MaxBreakpoints |->
                   IF i <= s.size THEN [s.bps[i] EXCEPT !.active = FALSE] ELSE s.bps[i]]
<1>1. AllCleared(s) = [memory |-> m, bps |-> b, size |-> 0]
  BY DEF AllCleared
<1>2. \A a \in Address : m[a] = "own"
  <2> SUFFICES ASSUME NEW a \in Address PROVE m[a] = "own"
    OBVIOUS
  <2>1. CASE active(a) = {}
    BY <2>1 DEF Sound, Owned, ActiveAt, Typed
  <2>2. CASE active(a) # {}
    <3>1. PICK i \in active(a) : s.bps[i].byte = "own" /\ \A j \in active(a) : j <= i
      BY <2>2, OwnByteBehindInt3 DEF ActiveAt
    <3>2. final(a) \in active(a) /\ \A j \in active(a) : j <= final(a)
      <4> HIDE DEF active
      <4> QED BY <3>1
    <3>3. final(a) <= i /\ i <= final(a)
      <4> HIDE DEF active, final
      <4> QED BY <3>1, <3>2
    <3>4. final(a) = i
      <4>1. i \in Int /\ final(a) \in Int
        BY <3>2
      <4> HIDE DEF final
      <4> QED BY <3>3, <4>1
    <3>5. m[a] = s.bps[final(a)].byte
      BY <2>2
    <3> HIDE DEF final, m
    <3> QED BY <3>1, <3>4, <3>5
  <2> QED BY <2>1, <2>2
<1>3. m \in [Address -> {"own", "int3"}]
  <2>1. \A a \in Address : m[a] \in {"own", "int3"}
    <3> HIDE DEF m
    <3> QED BY <1>2
  <2> HIDE DEF active, final
  <2> QED BY <2>1
<1>4. b \in [1 .. MaxBreakpoints -> Entry \cup {NoEntry}]
  <2> SUFFICES ASSUME NEW i \in 1 .. MaxBreakpoints
               PROVE  [s.bps[i] EXCEPT !.active = FALSE] \in Entry \cup {NoEntry}
                      /\ s.bps[i] \in Entry \cup {NoEntry}
    OBVIOUS
  <2>1. s.bps[i] \in Entry \cup {NoEntry}
    BY DEF Sound, Typed
  <2>2. CASE s.bps[i] \in Entry
    <3>1. [s.bps[i] EXCEPT !.active = FALSE] \in Entry
      BY <2>2 DEF Entry
    <3> QED BY <2>1, <3>1
  <2>3. CASE s.bps[i] = NoEntry
    <3>1. s.bps[i] \in [at : {0}, byte : {"own"}, active : {FALSE}, transient : {FALSE}]
      BY <2>3 DEF NoEntry
    <3>2. [s.bps[i] EXCEPT !.active = FALSE] = s.bps[i]
      BY <3>1
    <3> QED BY <2>1, <3>2
  <2> QED BY <2>1, <2>2, <2>3
<1> HIDE DEF m, b
<1>5. Typed(AllCleared(s))
  BY <1>1, <1>3, <1>4 DEF Typed
<1>6. AllCleared(s).size = 0 /\ AllCleared(s).memory = m
  BY <1>1
<1>7. \A c : ActiveAt(AllCleared(s), c) = {}
  BY <1>6 DEF ActiveAt
<1> QED BY <1>2, <1>5, <1>6, <1>7 DEF Sound, Owned, LastHasByte

-----------------------------------------------------------------------------
(* The inductive invariant.                                                *)

\* A connection that is being made has received the first characters of the
\* identification last.
ConnectInv ==
  /\ recent \in Seq({"j", "o", "s", "x", "?"}) /\ Len(recent) <= 4
  /\ IF mode = "waiting"
     THEN /\ matched \in 0 .. 3 /\ matched <= Len(recent)
          /\ \A k \in 1 .. matched : recent[Len(recent) - matched + k] = Id[k]
     ELSE recent = Id

\* Nothing of the program has happened before the connection.
QuietInv ==
  mode = "waiting" => ~disturbed /\ ~last.active /\ ~tf

\* While the program runs, the breakpoint to put back is one of the list.
RestoreInv ==
  mode = "run" /\ last.active => last.at \in Address /\ ActiveAt(Listing, last.at) # {}

ProgramInv ==
  ~disturbed =>
    /\ Sound(Listing) /\ RestoreInv
    /\ rip = due
    /\ mode = "run" /\ tf => last.active \/ lastCommand = "trace"

IInv == TypeOK /\ ConnectInv /\ QuietInv /\ ProgramInv

LEMMA ListingIsTyped ==
  ASSUME TypeOK
  PROVE  Typed(Listing)
BY DEF TypeOK, Listing, Typed

LEMMA InitIInv == Init => IInv
<1> SUFFICES ASSUME Init PROVE IInv
  OBVIOUS
<1>1. \A a \in Address : a \in Nat
  BY DebuggerAssumption
<1>2. TypeOK
  <2>1. memory \in [Address -> {"own", "int3"}]
    BY DEF Init
  <2>2. breakpoints \in [1 .. MaxBreakpoints -> Entry \cup {NoEntry}]
    BY DEF Init
  <2>3. last \in [active : BOOLEAN, at : Address \cup {0}]
    BY DEF Init
  <2>4. tf \in BOOLEAN /\ disturbed \in BOOLEAN
    BY DEF Init
  <2>5. matched \in 0 .. 4 /\ Len(recent) <= 4 /\ size \in 0 .. MaxBreakpoints /\ bp \in 0 .. MaxBreakpoints
    BY DEF Init
  <2> QED BY <2>1, <2>2, <2>3, <2>4, <2>5 DEF Init, TypeOK
<1>3. ConnectInv /\ QuietInv
  BY DEF Init, ConnectInv, QuietInv
<1>4. ProgramInv
  <2>1. Listing.size = 0 /\ \A a \in Address : Listing.memory[a] = "own"
    BY DEF Init, Listing
  <2>2. \A a : ActiveAt(Listing, a) = {}
    BY <2>1 DEF ActiveAt
  <2>3. Sound(Listing)
    BY <1>2, <2>1, <2>2, ListingIsTyped DEF Sound, Owned, LastHasByte
  <2> QED BY <2>3 DEF Init, ProgramInv, RestoreInv
<1> QED BY <1>2, <1>3, <1>4 DEF IInv

\* The state after a change of the list.
LEMMA ListingBecomes ==
  ASSUME NEW s, Sound(s), Becomes(s)
  PROVE  /\ Listing' = s /\ Sound(Listing)'
         /\ memory' \in [Address -> {"own", "int3"}]
         /\ breakpoints' \in [1 .. MaxBreakpoints -> Entry \cup {NoEntry}]
         /\ size' \in 0 .. MaxBreakpoints
<1>1. Typed(s) /\ memory' = s.memory /\ breakpoints' = s.bps /\ size' = s.size
  BY DEF Sound, Becomes
<1>2. Listing' = s
  BY <1>1 DEF Typed, Listing
<1>3. Sound(Listing)'
  BY <1>2 DEF Sound, Typed, Owned, LastHasByte, ActiveAt
<1> QED BY <1>1, <1>2, <1>3 DEF Typed

LEMMA LoopKeepsIInv ==
  ASSUME IInv, InLoop, NEW s, Sound(s), Becomes(s), lastCommand' \in {"trace", "other"},
         UNCHANGED rest
  PROVE  IInv'
<1>1. TypeOK'
  BY ListingBecomes DEF IInv, TypeOK, rest, link
<1>2. ConnectInv' /\ QuietInv'
  BY DEF IInv, ConnectInv, QuietInv, InLoop, rest, link
<1>3. ProgramInv'
  BY ListingBecomes DEF IInv, ProgramInv, RestoreInv, InLoop, rest
<1> QED BY <1>1, <1>2, <1>3 DEF IInv

LEMMA ReceiveKeepsIInv ==
  ASSUME IInv, NEW c \in {"j", "o", "s", "x", "?"}, Receive(c)
  PROVE  IInv'
<1>1. /\ mode = "waiting" /\ matched' = Matched(c)
      /\ recent' = (IF Len(recent) = 4 THEN Tail(recent) ELSE recent) \o <<c>>
      /\ mode' = IF matched' = 4 THEN "run" ELSE "waiting"
      /\ UNCHANGED <<list, last, lastCommand, rip, tf, bp, due, disturbed>>
  BY DEF Receive
<1> DEFINE before == IF Len(recent) = 4 THEN Tail(recent) ELSE recent
<1>2. PICK n \in 0 .. 4 : n = Len(recent)
  <2>1. recent \in Seq({"j", "o", "s", "x", "?"}) /\ Len(recent) <= 4
    BY DEF IInv, ConnectInv
  <2>2. PICK n \in Nat : n = Len(recent)
    BY <2>1
  <2>3. n \in 0 .. 4
    BY <2>1, <2>2
  <2> QED BY <2>2, <2>3
<1>3. /\ before \in Seq({"j", "o", "s", "x", "?"})
      /\ Len(before) = IF n = 4 THEN 3 ELSE n
      /\ \A k \in 1 .. Len(before) : before[k] = recent[IF n = 4 THEN k + 1 ELSE k]
  BY <1>2 DEF IInv, ConnectInv
<1> HIDE DEF before
<1>4. PICK m \in 0 .. 3 : m = Len(before)
  BY <1>2, <1>3
<1>5. /\ recent' \in Seq({"j", "o", "s", "x", "?"}) /\ Len(recent') = m + 1
      /\ recent'[m + 1] = c /\ \A k \in 1 .. m : recent'[k] = before[k]
  BY <1>1, <1>3, <1>4 DEF before
<1>6. matched \in 0 .. 3 /\ matched <= n
      /\ \A k \in 1 .. matched : recent[n - matched + k] = Id[k]
  BY <1>1, <1>2 DEF IInv, ConnectInv
<1>7. matched' \in {0, matched + 1} /\ (matched' = matched + 1 => c = Id[matched + 1])
  BY <1>1, <1>6 DEF Matched
<1>8. matched <= m /\ \A k \in 1 .. matched : recent'[m - matched + k] = Id[k]
  <2>1. matched <= m
    BY <1>2, <1>3, <1>4, <1>6
  <2>2. ASSUME NEW k \in 1 .. matched PROVE recent'[m - matched + k] = Id[k]
    <3>1. m - matched + k \in 1 .. m
      BY <1>6, <2>1
    <3>2. recent'[m - matched + k] = before[m - matched + k]
      BY <1>5, <3>1
    <3>3. before[m - matched + k] = recent[n - matched + k]
      <4>1. (IF n = 4 THEN m - matched + k + 1 ELSE m - matched + k) = n - matched + k
        BY <1>2, <1>3, <1>4, <1>6
      <4> QED BY <1>3, <1>4, <3>1, <4>1
    <3> QED BY <1>6, <3>2, <3>3
  <2> QED BY <2>1, <2>2
<1>9. \A k \in 1 .. matched' : recent'[m + 1 - matched' + k] = Id[k]
  <2> SUFFICES ASSUME NEW k \in 1 .. matched'
               PROVE  recent'[m + 1 - matched' + k] = Id[k]
    OBVIOUS
  <2>1. matched' = matched + 1 /\ c = Id[matched + 1] /\ k \in 1 .. matched + 1
    BY <1>6, <1>7
  <2>2. m + 1 - matched' + k = m - matched + k
    BY <1>4, <1>6, <2>1
  <2>3. CASE k \in 1 .. matched
    BY <1>8, <2>2, <2>3
  <2>4. CASE k = matched + 1
    <3>1. m - matched + k = m + 1
      BY <1>4, <1>6, <2>4
    <3> QED BY <1>5, <2>1, <2>2, <2>4, <3>1
  <2> QED BY <1>6, <2>1, <2>3, <2>4
<1>10. ConnectInv'
  <2>1. CASE matched' = 4
    <3>1. matched = 3 /\ m = 3
      BY <1>4, <1>6, <1>7, <1>8, <2>1
    <3>2. Len(recent') = 4 /\ \A k \in 1 .. 4 : recent'[k] = Id[k]
      BY <1>5, <1>9, <2>1, <3>1
    <3>3. recent' = Id
      <4>1. Id \in Seq({"j", "o", "s", "x", "?"}) /\ Len(Id) = 4
        BY DEF Id
      <4> QED BY <1>5, <3>2, <4>1
    <3> QED BY <1>1, <1>5, <2>1, <3>2, <3>3 DEF ConnectInv
  <2>2. CASE matched' # 4
    <3>1. matched' \in 0 .. 3 /\ matched' <= m + 1
      BY <1>6, <1>7, <1>8, <1>4, <2>2
    <3>2. mode' = "waiting"
      BY <1>1, <2>2
    <3>3. Len(recent') = m + 1
      BY <1>5
    <3>4. m + 1 <= 4
      BY <1>4
    <3>5. Len(recent') <= 4
      BY <3>3, <3>4
    <3>6. \A k \in 1 .. matched' : recent'[Len(recent') - matched' + k] = Id[k]
      BY <1>4, <1>9, <3>1, <3>3
    <3>7. matched' <= Len(recent')
      BY <3>1, <3>3
    <3> QED BY <1>5, <3>1, <3>2, <3>5, <3>6, <3>7 DEF ConnectInv
  <2> QED BY <2>1, <2>2
<1>11. TypeOK'
  <2>1. matched' \in 0 .. 4 /\ Len(recent') <= 4
    BY <1>4, <1>5, <1>6, <1>7
  <2> QED BY <1>1, <2>1 DEF IInv, TypeOK, list
<1>12. QuietInv'
  BY <1>1 DEF IInv, QuietInv
<1>13. ProgramInv'
  <2>1. Listing' = Listing
    BY <1>1 DEF Listing, list
  <2>2. ~disturbed /\ ~last.active /\ ~tf
    BY <1>1 DEF IInv, QuietInv
  <2>3. Sound(Listing) /\ Becomes(Listing) /\ rip = due
    BY <1>1, <2>2 DEF IInv, ProgramInv, Becomes, Listing, list
  <2>4. Sound(Listing)'
    BY <2>3, ListingBecomes
  <2> QED BY <1>1, <2>2, <2>3, <2>4 DEF ProgramInv, RestoreInv
<1> QED BY <1>10, <1>11, <1>12, <1>13 DEF IInv

\* An int 3 may be written where an active breakpoint is, and any byte removed.
LEMMA WrittenIsSound ==
  ASSUME NEW s, Sound(s), NEW a \in Address, NEW y \in {"own", "int3"},
         y = "int3" => ActiveAt(s, a) # {}
  PROVE  Sound([s EXCEPT !.memory[a] = y])
<1> DEFINE t == [s EXCEPT !.memory[a] = y]
<1>1. Typed(s)
  BY DEF Sound
<1>2. Typed(t) /\ t.bps = s.bps /\ t.size = s.size /\ t.memory = [s.memory EXCEPT ![a] = y]
  BY <1>1 DEF Typed
<1>3. t.memory[a] = y /\ \A c \in Address \ {a} : t.memory[c] = s.memory[c]
  BY <1>1, <1>2 DEF Typed
<1> HIDE DEF t
<1>4. \A c : ActiveAt(t, c) = ActiveAt(s, c)
  BY <1>2 DEF ActiveAt
<1>5. Owned(t)
  BY <1>3, <1>4 DEF Sound, Owned
<1>6. LastHasByte(t)
  BY <1>2, <1>4 DEF Sound, LastHasByte
<1> QED BY <1>2, <1>5, <1>6 DEF Sound, t

\* A trap of an executed instruction (1) or an int 3 (3).
LEMMA BreakOrTrapKeepsIInv ==
  ASSUME IInv, mode = "run", ~disturbed, NEW id \in {1, 3}, NEW r, BreakOrTrap(id, r),
         id = 1 => r \in Address /\ due' = r,
         id = 3 => r = rip + 1 /\ due' = due
  PROVE  IInv'
<1> DEFINE restored == IF last.active THEN [Listing EXCEPT !.memory[last.at] = "int3"] ELSE Listing
           i == BreakpointAt(restored, r - 1)
           put == [restored EXCEPT !.memory[r - 1] = restored.bps[i].byte]
           goesOn == last.active /\ lastCommand # "trace"
           breaks == i # 0 /\ restored.bps[i].active
<1>1. /\ TypeOK /\ ConnectInv /\ rip = due /\ RestoreInv /\ Sound(Listing)
      /\ tf => last.active \/ lastCommand = "trace"
  BY DEF IInv, ProgramInv
<1>2. due \in Address /\ due \in Nat /\ due' \in Address
  BY <1>1, DebuggerAssumption DEF TypeOK
<1>3. r \in Nat /\ r \in Address \cup {a + 1 : a \in Address}
  BY <1>1, <1>2, DebuggerAssumption
<1>4. Sound(restored)
  BY <1>1, WrittenIsSound DEF RestoreInv
<1>5. ASSUME breaks PROVE r - 1 \in Address /\ Sound(put)
  <2> HIDE DEF restored, i
  <2>1. Typed(restored)
    BY <1>4 DEF Sound
  <2>2. First(restored, r - 1, i)
    BY <1>5, <2>1, Found DEF i
  <2>3. restored.bps[i] \in Entry \cup {NoEntry} /\ restored.bps[i].active
    BY <1>5, <2>1, <2>2 DEF Typed, First
  <2>4. restored.bps[i] \in Entry /\ restored.bps[i].at = r - 1
    BY <2>2, <2>3 DEF NoEntry, First
  <2>5. r - 1 \in Address /\ restored.bps[i].byte \in {"own", "int3"}
    BY <2>4 DEF Entry
  <2>6. i \in ActiveAt(restored, r - 1)
    BY <2>2, <2>3 DEF ActiveAt, First
  <2> QED BY <1>4, <2>5, <2>6, WrittenIsSound
<1>6. BreakOrTrap(id, r)
  OBVIOUS
<1>7. CASE goesOn
  <2>1. /\ Becomes(restored) /\ tf' = FALSE /\ last' = [last EXCEPT !.active = FALSE] /\ rip' = r
        /\ disturbed' = (id = 3) /\ UNCHANGED <<mode, bp, lastCommand, link>>
    BY <1>6, <1>7 DEF BreakOrTrap, FlagAfterRestore
  <2> HIDE DEF restored
  <2>2. last' \in [active : BOOLEAN, at : Address \cup {0}] /\ ~last'.active
    BY <1>1, <2>1 DEF TypeOK
  <2>3. TypeOK'
    BY <1>1, <1>2, <1>3, <1>4, <2>1, <2>2, ListingBecomes DEF TypeOK, link
  <2>4. ConnectInv' /\ QuietInv'
    BY <1>1, <2>1 DEF ConnectInv, QuietInv, link
  <2>5. ~disturbed' => rip' = due'
    BY <2>1
  <2>6. ProgramInv'
    BY <1>4, <2>1, <2>2, <2>5, ListingBecomes DEF ProgramInv, RestoreInv
  <2> QED BY <2>3, <2>4, <2>6 DEF IInv
<1>8. CASE ~goesOn /\ breaks
  <2>1. /\ last' = [last EXCEPT !.active = FALSE] /\ Becomes(put) /\ Stop(r - 1, i)
        /\ disturbed' = (id = 1)
    BY <1>6, <1>8 DEF BreakOrTrap, BackedUp
  <2> HIDE DEF restored, i, put
  <2>2. /\ mode' = "stopped" /\ rip' = r - 1 /\ bp' = i
        /\ UNCHANGED <<tf, lastCommand, matched, recent>>
    BY <2>1 DEF Stop, link
  <2>3. last' \in [active : BOOLEAN, at : Address \cup {0}]
    BY <1>1, <2>1 DEF TypeOK
  <2>4. i \in 0 .. MaxBreakpoints
    BY <1>4, Found DEF Sound, Typed, First, i
  <2>5. TypeOK'
    <3>1. Sound(put) /\ rip' \in Address /\ due' \in Address
      BY <1>2, <1>5, <1>8, <2>2
    <3>2. disturbed' \in BOOLEAN
      BY <2>1
    <3> QED BY <1>1, <2>1, <2>2, <2>3, <2>4, <3>1, <3>2, ListingBecomes DEF TypeOK
  <2>6. ConnectInv' /\ QuietInv'
    BY <1>1, <2>2 DEF ConnectInv, QuietInv
  <2>7. ASSUME ~disturbed' PROVE rip' = due'
    <3>1. id = 3
      BY <2>1, <2>7
    <3> QED BY <1>1, <1>2, <2>2, <3>1
  <2>8. ProgramInv'
    BY <1>5, <1>8, <2>1, <2>2, <2>7, ListingBecomes DEF ProgramInv, RestoreInv
  <2> QED BY <2>5, <2>6, <2>8 DEF IInv
<1>9. CASE ~goesOn /\ ~breaks
  <2>1. /\ last' = [last EXCEPT !.active = FALSE] /\ Becomes(restored) /\ Stop(r, i)
        /\ disturbed' = (id = 3)
    BY <1>6, <1>9 DEF BreakOrTrap
  <2> HIDE DEF restored, i, put
  <2>2. /\ mode' = "stopped" /\ rip' = r /\ bp' = i
        /\ UNCHANGED <<tf, lastCommand, matched, recent>>
    BY <2>1 DEF Stop, link
  <2>3. last' \in [active : BOOLEAN, at : Address \cup {0}]
    BY <1>1, <2>1 DEF TypeOK
  <2>4. i \in 0 .. MaxBreakpoints
    BY <1>4, Found DEF Sound, Typed, First, i
  <2>5. TypeOK'
    BY <1>1, <1>2, <1>3, <1>4, <2>1, <2>2, <2>3, <2>4, ListingBecomes DEF TypeOK
  <2>6. ConnectInv' /\ QuietInv'
    BY <1>1, <2>2 DEF ConnectInv, QuietInv
  <2>7. ~disturbed' => rip' = due'
    BY <2>1, <2>2
  <2>8. ProgramInv'
    BY <1>4, <2>1, <2>2, <2>7, ListingBecomes DEF ProgramInv, RestoreInv
  <2> QED BY <2>5, <2>6, <2>8 DEF IInv
<1> QED BY <1>7, <1>8, <1>9

LEMMA RunKeepsIInv ==
  ASSUME IInv, Run
  PROVE  IInv'
<1>1. mode = "run" /\ ~disturbed /\ TypeOK /\ ConnectInv /\ rip = due /\ rip \in Address
  BY DEF Run, IInv, ProgramInv, TypeOK
<1>2. CASE Fault
  <2>1. /\ mode' = "stopped" /\ rip' = rip /\ bp' = 0
        /\ UNCHANGED <<memory, breakpoints, size, last, due, disturbed, tf, lastCommand, matched, recent>>
    BY <1>2 DEF Fault, Stop, list, link
  <2>2. Becomes(Listing)
    BY <2>1 DEF Becomes, Listing
  <2>3. TypeOK'
    BY <1>1, <2>1 DEF TypeOK
  <2>4. ConnectInv' /\ QuietInv'
    BY <1>1, <2>1 DEF ConnectInv, QuietInv
  <2>5. ProgramInv'
    BY <1>1, <2>1, <2>2, ListingBecomes DEF IInv, ProgramInv, RestoreInv
  <2> QED BY <2>3, <2>4, <2>5 DEF IInv
<1>3. CASE TriggerAssert
  <2>1. /\ mode' = "asserted"
        /\ UNCHANGED <<memory, breakpoints, size, last, lastCommand, rip, tf, bp, due, disturbed, matched, recent>>
    BY <1>3 DEF TriggerAssert, list, link
  <2>2. Becomes(Listing)
    BY <2>1 DEF Becomes, Listing
  <2>3. TypeOK'
    BY <1>1, <2>1 DEF TypeOK
  <2>4. ConnectInv' /\ QuietInv'
    BY <1>1, <2>1 DEF ConnectInv, QuietInv
  <2>5. ProgramInv'
    BY <1>1, <2>1, <2>2, ListingBecomes DEF IInv, ProgramInv, RestoreInv
  <2> QED BY <2>3, <2>4, <2>5 DEF IInv
<1>4. CASE Execute
  <2>1. CASE memory[rip] = "int3"
    <3>1. BreakOrTrap(3, rip + 1) /\ due' = due
      BY <1>4, <2>1 DEF Execute
    <3> QED BY <1>1, <3>1, BreakOrTrapKeepsIInv
  <2>2. CASE memory[rip] # "int3" /\ tf
    <3>1. BreakOrTrap(1, Follows[rip]) /\ due' = Follows[rip] /\ Follows[rip] \in Address
      BY <1>1, <1>4, <2>2, DebuggerAssumption DEF Execute
    <3> QED BY <1>1, <3>1, BreakOrTrapKeepsIInv
  <2>3. CASE memory[rip] # "int3" /\ ~tf
    <3>1. /\ due' = Follows[rip] /\ rip' = Follows[rip] /\ Follows[rip] \in Address
          /\ UNCHANGED <<mode, memory, breakpoints, size, last, lastCommand, tf, bp, disturbed, matched, recent>>
      BY <1>1, <1>4, <2>3, DebuggerAssumption DEF Execute, list, link
    <3>2. Becomes(Listing)
      BY <3>1 DEF Becomes, Listing
    <3>3. TypeOK'
      BY <1>1, <3>1 DEF TypeOK
    <3>4. ConnectInv' /\ QuietInv'
      BY <1>1, <3>1 DEF ConnectInv, QuietInv
    <3>5. ProgramInv'
      BY <1>1, <3>1, <3>2, ListingBecomes DEF IInv, ProgramInv, RestoreInv
    <3> QED BY <3>3, <3>4, <3>5 DEF IInv
  <2> QED BY <2>1, <2>2, <2>3
<1> QED BY <1>2, <1>3, <1>4 DEF Run

\* The end of the loop, with the list that the command left.
LEMMA LeaveKeepsIInv ==
  ASSUME IInv, Stopped, NEW s, Sound(s), NEW flag \in BOOLEAN, Leave(s, flag),
         lastCommand' \in {"trace", "other"}, flag => lastCommand' = "trace"
  PROVE  IInv'
<1> DEFINE b == s.bps[bp]
           stale == bp # 0 /\ (BreakpointAt(s, rip) # bp \/ s.memory[rip] = "int3")
<1>1. /\ mode = "stopped" /\ ~disturbed /\ TypeOK /\ ConnectInv /\ rip = due /\ rip \in Address
      /\ Typed(s)
  BY DEF Stopped, IInv, ProgramInv, TypeOK, Sound
<1>2. mode' = "run" /\ bp' = 0 /\ UNCHANGED <<rip, due, matched, recent>>
  BY DEF Leave, link
<1>3. ASSUME bp # 0, ~stale PROVE First(s, rip, bp) /\ s.memory[rip] = "own"
  <2>1. BreakpointAt(s, rip) = bp /\ s.memory[rip] # "int3"
    BY <1>3
  <2>2. First(s, rip, bp)
    BY <1>1, <1>3, <2>1, Found
  <2> QED BY <1>1, <2>1, <2>2 DEF Typed
<1>4. ConnectInv' /\ QuietInv'
  BY <1>1, <1>2 DEF ConnectInv, QuietInv
<1>5. CASE bp # 0 /\ b.active /\ ~b.transient
  <2>1. /\ last' = [active |-> TRUE, at |-> rip] /\ tf' = TRUE
        /\ Becomes(s) /\ disturbed' = stale
    BY <1>5 DEF Leave
  <2>2. last' \in [active : BOOLEAN, at : Address \cup {0}]
    BY <1>1, <2>1
  <2> HIDE DEF stale
  <2>3. TypeOK'
    <3>1. disturbed' \in BOOLEAN
      BY <2>1 DEF stale
    <3> QED BY <1>1, <1>2, <2>1, <2>2, <3>1, ListingBecomes DEF TypeOK
  <2>4. ASSUME ~disturbed' PROVE ActiveAt(Listing', rip) # {}
    <3>1. First(s, rip, bp) /\ b.active
      BY <1>3, <1>5, <2>1, <2>4
    <3>2. bp \in ActiveAt(s, rip)
      BY <3>1 DEF ActiveAt, First
    <3> QED BY <2>1, <3>2, ListingBecomes
  <2>5. ProgramInv'
    <3>1. RestoreInv' \/ disturbed'
      BY <1>1, <1>2, <2>1, <2>4 DEF RestoreInv
    <3> QED BY <1>1, <1>2, <2>1, <3>1, ListingBecomes DEF ProgramInv
  <2> QED BY <1>4, <2>3, <2>5 DEF IInv
<1>6. CASE ~(bp # 0 /\ b.active /\ ~b.transient) /\ bp # 0 /\ b.transient
  <2>1. /\ last' = [last EXCEPT !.active = FALSE] /\ tf' = flag
        /\ Becomes(Removed(s, bp)) /\ disturbed' = stale
    BY <1>6 DEF Leave
  <2>2. last' \in [active : BOOLEAN, at : Address \cup {0}] /\ ~last'.active
    BY <1>1, <2>1 DEF TypeOK
  <2>3. bp \in 1 .. MaxBreakpoints
    BY <1>1, <1>6 DEF TypeOK
  <2>4. Typed(Removed(s, bp))
    <3> DEFINE gone  == IF s.size = 0 THEN NoEntry ELSE s.bps[s.size]
               after == [s.bps EXCEPT ![bp] = gone]
    <3>1. Removed(s, bp) = [s EXCEPT !.bps = after]
      BY DEF Removed
    <3>2. gone \in Entry \cup {NoEntry}
      BY <1>1 DEF Typed
    <3> HIDE DEF gone
    <3>3. after \in [1 .. MaxBreakpoints -> Entry \cup {NoEntry}]
      BY <1>1, <3>2 DEF Typed
    <3> HIDE DEF after
    <3> QED BY <1>1, <3>1, <3>3, ListReplaced
  <2>5. TypeOK'
    <3>1. disturbed' \in BOOLEAN
      BY <2>1
    <3>2. /\ memory' \in [Address -> {"own", "int3"}]
          /\ breakpoints' \in [1 .. MaxBreakpoints -> Entry \cup {NoEntry}]
          /\ size' \in 0 .. MaxBreakpoints
      BY <2>1, <2>4 DEF Becomes, Typed
    <3> HIDE DEF stale
    <3> QED BY <1>1, <1>2, <2>1, <2>2, <3>1, <3>2 DEF TypeOK
  <2>6. ASSUME ~disturbed' PROVE Sound(Listing)'
    <3>1. First(s, rip, bp) /\ s.memory[rip] = "own"
      BY <1>3, <1>6, <2>1, <2>6
    <3>2. Sound(Removed(s, bp))
      BY <1>1, <3>1, RemovedIsSound
    <3> QED BY <2>1, <3>2, ListingBecomes
  <2>7. ProgramInv'
    BY <1>1, <1>2, <2>1, <2>2, <2>6 DEF ProgramInv, RestoreInv
  <2> QED BY <1>4, <2>5, <2>7 DEF IInv
<1>7. CASE ~(bp # 0 /\ b.active /\ ~b.transient) /\ ~(bp # 0 /\ b.transient)
  <2>1. /\ last' = [last EXCEPT !.active = FALSE] /\ tf' = flag
        /\ Becomes(s) /\ disturbed' = disturbed
    BY <1>7 DEF Leave
  <2>2. last' \in [active : BOOLEAN, at : Address \cup {0}] /\ ~last'.active
    BY <1>1, <2>1 DEF TypeOK
  <2>3. TypeOK'
    BY <1>1, <1>2, <2>1, <2>2, ListingBecomes DEF TypeOK
  <2>4. ProgramInv'
    BY <1>1, <1>2, <2>1, <2>2, ListingBecomes DEF ProgramInv, RestoreInv
  <2> QED BY <1>4, <2>3, <2>4 DEF IInv
<1> QED BY <1>5, <1>6, <1>7

\* SingleStep over a call marks the breakpoint behind it.
LEMMA MarkedIsSound ==
  ASSUME NEW s, Sound(s), NEW a \in Address
  PROVE  Sound([s EXCEPT !.bps[BreakpointAt(s, a)].transient = TRUE])
<1> DEFINE i == BreakpointAt(s, a)
           t == [s EXCEPT !.bps[i].transient = TRUE]
           b == [s.bps[i] EXCEPT !.transient = TRUE]
<1>1. Typed(s)
  BY DEF Sound
<1>2. i \notin 1 .. MaxBreakpoints \/ (i \in 1 .. MaxBreakpoints /\ s.bps[i] \in Entry)
  BY <1>1, Found, FirstIsEntry DEF Typed, First
<1> HIDE DEF i
<1>3. t.size = s.size /\ t.memory = s.memory /\ t.bps = [s.bps EXCEPT ![i] = b]
  BY <1>1 DEF Typed
<1>4. i \in 1 .. MaxBreakpoints =>
        b \in Entry /\ b.at = s.bps[i].at /\ b.active = s.bps[i].active /\ b.byte = s.bps[i].byte
  BY <1>2 DEF Entry
<1>5. t.bps \in [1 .. MaxBreakpoints -> Entry \cup {NoEntry}]
  <2> HIDE DEF b, t
  <2> QED BY <1>1, <1>3, <1>4 DEF Typed
<1>6. Typed(t)
  <2>1. t = [s EXCEPT !.bps = [s.bps EXCEPT ![i] = b]]
    OBVIOUS
  <2> HIDE DEF b, t
  <2> QED BY <1>1, <1>3, <1>5, <2>1, ListReplaced
<1>7. \A j \in 1 .. s.size : /\ t.bps[j].at = s.bps[j].at /\ t.bps[j].active = s.bps[j].active
                            /\ t.bps[j].byte = s.bps[j].byte
  <2> SUFFICES ASSUME NEW j \in 1 .. s.size
               PROVE  /\ t.bps[j].at = s.bps[j].at /\ t.bps[j].active = s.bps[j].active
                      /\ t.bps[j].byte = s.bps[j].byte
    OBVIOUS
  <2>1. j \in 1 .. MaxBreakpoints
    BY <1>1 DEF Typed
  <2>2. CASE j = i
    <3>1. t.bps[j] = b
      <4> HIDE DEF t, b
      <4> QED BY <1>1, <1>3, <2>1, <2>2 DEF Typed
    <3> QED BY <1>4, <2>1, <2>2, <3>1
  <2>3. CASE j # i
    <3>1. t.bps[j] = s.bps[j]
      <4> HIDE DEF t, b
      <4> QED BY <1>1, <1>3, <2>1, <2>3 DEF Typed
    <3> QED BY <3>1
  <2> QED BY <2>2, <2>3
<1> HIDE DEF t
<1>8. \A c : ActiveAt(t, c) = ActiveAt(s, c)
  BY <1>3, <1>7 DEF ActiveAt
<1>9. \A c : \A j \in ActiveAt(s, c) : t.bps[j].byte = s.bps[j].byte
  BY <1>7 DEF ActiveAt
<1>10. Owned(t)
  BY <1>3, <1>8 DEF Sound, Owned
<1>11. LastHasByte(t)
  BY <1>8, <1>9 DEF Sound, LastHasByte
<1> QED BY <1>6, <1>10, <1>11 DEF Sound, t, i

LEMMA NextKeepsIInv == IInv /\ [Next]_vars => IInv'
<1> SUFFICES ASSUME IInv, [Next]_vars PROVE IInv'
  OBVIOUS
<1>1. ASSUME ~disturbed PROVE Sound(Listing)
  BY <1>1 DEF IInv, ProgramInv
<1>2. ASSUME NEW c \in {"j", "o", "s", "x", "?"}, Receive(c) PROVE IInv'
  BY <1>2, ReceiveKeepsIInv
<1>3. CASE Run
  BY <1>3, RunKeepsIInv
<1>4. CASE ClearAll
  <2>1. Sound(AllCleared(Listing)) /\ Becomes(AllCleared(Listing))
    BY <1>1, <1>4, AllClearedIsSound DEF ClearAll, InLoop
  <2> QED BY <1>4, <2>1, LoopKeepsIInv DEF ClearAll
<1>5. ASSUME NEW n \in 1 .. 2, NEW info \in Info, Update(n, info) PROVE IInv'
  <2>1. Sound(Listing) /\ Listing.size + 1 < MaxBreakpoints
    BY <1>1, <1>5 DEF Update, InLoop, Listing
  <2>2. Sound(UpdatedBy(Listing, n, info))
    BY <2>1, UpdatedByIsSound
  <2> QED BY <1>5, <2>2, LoopKeepsIInv DEF Update
<1>6. ASSUME NEW a \in Address, WriteTargetMemory(a) PROVE IInv'
  <2> DEFINE s == [Listing EXCEPT !.memory[a] = "own"]
  <2>1. Sound(s)
    BY <1>1, <1>6, WrittenIsSound DEF WriteTargetMemory, InLoop
  <2>2. Becomes(s)
    BY <1>6 DEF WriteTargetMemory, Becomes, Listing
  <2> HIDE DEF s
  <2> QED BY <1>6, <2>1, <2>2, LoopKeepsIInv DEF WriteTargetMemory
<1>7. CASE Query
  <2>1. Becomes(Listing) /\ Sound(Listing)
    BY <1>1, <1>7 DEF Query, InLoop, Becomes, Listing, list
  <2> QED BY <1>7, <2>1, LoopKeepsIInv DEF Query
<1>8. CASE TraceStep
  <2>1. Stopped /\ lastCommand' = "trace" /\ Leave(Listing, TRUE) /\ Sound(Listing)
    BY <1>1, <1>8 DEF TraceStep, Stopped
  <2> QED BY <2>1, LeaveKeepsIInv
<1>9. CASE Continue
  <2>1. Stopped /\ lastCommand' = "other" /\ Leave(Listing, FALSE) /\ Sound(Listing)
    BY <1>1, <1>9 DEF Continue, Stopped
  <2> QED BY <2>1, LeaveKeepsIInv
<1>10. CASE SingleStep
  <2>1. Stopped /\ Sound(Listing) /\ rip \in Address
    BY <1>1, <1>10 DEF SingleStep, Stopped, IInv, ProgramInv, TypeOK
  <2>2. CASE rip \notin Calls \/ memory[rip] = "int3"
    <3>1. lastCommand' = "trace" /\ Leave(Listing, TRUE)
      BY <1>10, <2>2 DEF SingleStep
    <3> QED BY <2>1, <3>1, LeaveKeepsIInv
  <2>3. CASE rip \in Calls /\ memory[rip] # "int3"
    <3> DEFINE behind == rip + Length[rip]
               s == SetBreakpoint(Listing, behind)
               t == [s EXCEPT !.bps[BreakpointAt(s, behind)].transient = TRUE]
    <3>1. Listing.size < MaxBreakpoints /\ lastCommand' = "other" /\ Leave(t, FALSE)
      BY <1>10, <2>3 DEF SingleStep, Listing
    <3>2. behind \in Address
      BY <2>3, DebuggerAssumption
    <3> HIDE DEF behind
    <3>3. Sound(s)
      BY <2>1, <3>1, <3>2, SetBreakpointIsSound
    <3> HIDE DEF s
    <3>4. Sound(t)
      BY <3>2, <3>3, MarkedIsSound
    <3> HIDE DEF t
    <3> QED BY <2>1, <3>1, <3>4, LeaveKeepsIInv
  <2> QED BY <2>2, <2>3
<1>11. CASE UNCHANGED vars
  <2>1. Listing' = Listing
    BY <1>11 DEF vars, Listing
  <2>2. TypeOK' /\ ConnectInv' /\ QuietInv'
    BY <1>11 DEF vars, IInv, TypeOK, ConnectInv, QuietInv
  <2>3. ProgramInv'
    <3>1. ASSUME ~disturbed PROVE Sound(Listing)'
      <4>1. Becomes(Listing)
        BY <1>11 DEF vars, Becomes, Listing
      <4> QED BY <1>1, <3>1, <4>1, ListingBecomes
    <3> QED BY <1>11, <2>1, <3>1 DEF vars, IInv, ProgramInv, RestoreInv
  <2> QED BY <2>2, <2>3 DEF IInv
<1> QED BY <1>2, <1>3, <1>4, <1>5, <1>6, <1>7, <1>8, <1>9, <1>10, <1>11 DEF Next

LEMMA InductiveInvariant == Spec => []IInv
BY InitIInv, NextKeepsIInv, PTL DEF Spec

-----------------------------------------------------------------------------
\* What the run checks as TypeOK, for any program and any number of
\* breakpoints: every variable of the debugger keeps its type.
THEOREM TypeCorrect == Spec => []TypeOK
<1>1. IInv => TypeOK
  BY DEF IInv
<1> QED BY <1>1, InductiveInvariant, PTL

\* debugger_wait_for_connection lets the kernel go on only after the four
\* characters of the identification in a row.
THEOREM ConnectsOnlyOnId == Spec => []ConnectsOnId
<1>1. IInv => ConnectsOnId
  BY DEF IInv, ConnectInv, ConnectsOnId
<1> QED BY <1>1, InductiveInvariant, PTL

\* Until a mishap every int 3 in the program has an active breakpoint that keeps
\* the program's byte: the last of its address.
THEOREM BytesAlwaysRecoverable == Spec => []BytesRecoverable
<1>1. IInv => BytesRecoverable
  <2> SUFFICES ASSUME IInv, ~disturbed, NEW a \in Address, memory[a] = "int3"
               PROVE  \E i \in 1 .. size : /\ breakpoints[i].at = a /\ breakpoints[i].active
                                          /\ breakpoints[i].byte = "own"
    BY DEF BytesRecoverable
  <2>1. Sound(Listing) /\ Listing.memory[a] = "int3"
    BY DEF IInv, ProgramInv, Listing
  <2>2. ActiveAt(Listing, a) # {}
    BY <2>1 DEF Sound, Owned
  <2>3. PICK i \in ActiveAt(Listing, a) : Listing.bps[i].byte = "own"
    BY <2>1, <2>2, OwnByteBehindInt3
  <2> QED BY <2>3 DEF ActiveAt, Listing
<1> QED BY <1>1, InductiveInvariant, PTL

\* The program never stops of itself: the trap flag is set only while a
\* breakpoint waits to be put back or the front end has asked for a trace.
THEOREM TracesAlwaysAskedFor == Spec => []TracesOnlyWhenAsked
<1>1. IInv => TracesOnlyWhenAsked
  BY DEF IInv, ProgramInv, TracesOnlyWhenAsked
<1> QED BY <1>1, InductiveInvariant, PTL

\* Breakpoints and steps do not change the order in which the program's
\* instructions are executed, until a mishap.
THEOREM AlwaysRunsInOrder == Spec => []RunsInOrder
<1>1. IInv => RunsInOrder
  BY DEF IInv, ProgramInv, RunsInOrder
<1> QED BY <1>1, InductiveInvariant, PTL

=============================================================================
