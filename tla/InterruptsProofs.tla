-------------------------- MODULE InterruptsProofs --------------------------
(***************************************************************************)
(* Proofs about Interrupts, for whatever lines are registered and in       *)
(* whatever order.                                                         *)
(***************************************************************************)
EXTENDS Interrupts, TLAPS

USE RegistrationAssumption

-----------------------------------------------------------------------------
(* The stack of handlers as a sequence.                                    *)

Distinct(s) == \A m, n \in 1 .. Len(s) : s[m] = s[n] => m = n

\* A handler of a line that has none active is put on the stack.
LEMMA PushLine ==
  ASSUME NEW s \in Seq(Irq), NEW i \in Irq, Distinct(s), i \notin Lines(s)
  PROVE  /\ Append(s, i) \in Seq(Irq)
         /\ Lines(Append(s, i)) = Lines(s) \cup {i}
         /\ Distinct(Append(s, i))
<1> DEFINE t == Append(s, i)
<1>n. PICK k \in Nat : k = Len(s)
  OBVIOUS
<1>1. Len(t) = k + 1 /\ t[k + 1] = i /\ \A m \in 1 .. k : t[m] = s[m]
  BY <1>n
<1>2. \A m \in 1 .. Len(t) : m \in 1 .. k \/ m = k + 1
  BY <1>1
<1>3. Lines(t) = Lines(s) \cup {i}
  <2>1. Lines(t) \subseteq Lines(s) \cup {i}
    BY <1>n, <1>1, <1>2 DEF Lines
  <2>2. \A m \in 1 .. k : m \in 1 .. Len(t)
    BY <1>1
  <2>3. k + 1 \in 1 .. Len(t)
    BY <1>1
  <2>4. Lines(s) \cup {i} \subseteq Lines(t)
    BY <1>n, <1>1, <2>2, <2>3 DEF Lines
  <2> QED BY <2>1, <2>4
<1>4. \A m \in 1 .. k : t[m] # i
  BY <1>n, <1>1 DEF Lines
<1>5. Distinct(t)
  BY <1>n, <1>1, <1>2, <1>4 DEF Distinct
<1> QED BY <1>3, <1>5

\* The innermost handler leaves the stack.
LEMMA PopLine ==
  ASSUME NEW s \in Seq(Irq), s # <<>>, Distinct(s)
  PROVE  /\ s[Len(s)] \in Lines(s) /\ s[Len(s)] \in Irq
         /\ SubSeq(s, 1, Len(s) - 1) \in Seq(Irq)
         /\ Lines(SubSeq(s, 1, Len(s) - 1)) = Lines(s) \ {s[Len(s)]}
         /\ Distinct(SubSeq(s, 1, Len(s) - 1))
<1> DEFINE t == SubSeq(s, 1, Len(s) - 1)
<1>n. PICK k \in Nat : k = Len(s) /\ k >= 1
  OBVIOUS
<1>1. t \in Seq(Irq) /\ Len(t) = k - 1 /\ \A m \in 1 .. k - 1 : t[m] = s[m]
  BY <1>n
<1>2. k \in 1 .. k /\ \A m \in 1 .. k : m \in 1 .. k - 1 \/ m = k
  BY <1>n
<1>3. s[k] \in Lines(s) /\ s[k] \in Irq
  BY <1>n, <1>2 DEF Lines
<1>4. \A m \in 1 .. k - 1 : m \in 1 .. k /\ m # k
  BY <1>n
<1>5. \A m \in 1 .. k - 1 : s[m] # s[k]
  BY <1>n, <1>2, <1>4 DEF Distinct
<1>6. Lines(t) = Lines(s) \ {s[k]}
  BY <1>n, <1>1, <1>2, <1>4, <1>5 DEF Lines
<1>7. Distinct(t)
  BY <1>n, <1>1, <1>4 DEF Distinct
<1> QED BY <1>n, <1>1, <1>3, <1>6, <1>7

LEMMA NoLines ==
  /\ Lines(<<>>) = {}
  /\ <<>> \in Seq(Irq)
  /\ Distinct(<<>>)
<1>1. Len(<<>>) = 0
  OBVIOUS
<1>2. 1 .. 0 = {}
  OBVIOUS
<1> QED BY <1>1, <1>2 DEF Lines, Distinct

-----------------------------------------------------------------------------
(* The controllers.                                                        *)

\* With nothing else in service, the EOIs of the dispatch end all that its
\* acknowledge has begun.
LEMMA EoiEndsAll ==
  ASSUME NEW i \in Irq, inService = {}
  PROVE  i8259a_send_eoi(i, Acknowledged(i)) = {}
<1>1. \A j \in Irq : Foremost({j}) = {j}
  BY DEF Foremost, Rank, Irq, Slave, Cascade
<1>2. CASE i \in Slave
  <2>1. Acknowledged(i) = {i, Cascade}
    BY <1>2 DEF Acknowledged
  <2>2. Cascade \in Irq /\ Cascade \notin Slave
    BY DEF Irq, Slave, Cascade
  <2>3. {i, Cascade} \ Slave = {Cascade} /\ {i, Cascade} \cap Slave = {i}
    BY <1>2, <2>2
  <2> QED BY <1>1, <1>2, <2>1, <2>2, <2>3 DEF i8259a_send_eoi
<1>3. CASE i \notin Slave
  <2>1. Acknowledged(i) = {i} /\ {i} \ Slave = {i}
    BY <1>3 DEF Acknowledged
  <2> QED BY <1>1, <1>3, <2>1 DEF i8259a_send_eoi
<1> QED BY <1>2, <1>3

\* The line being registered is a line, and none registered before.
LEMMA RegisteringIsNew ==
  ASSUME done \in 0 .. Len(Registration), done < Len(Registration)
  PROVE  /\ Registering \in Irq /\ Registering # Cascade
         /\ Registering \in Lines(Registration)
         /\ \A n \in 1 .. done : Registration[n] # Registering
         /\ done + 1 \in 0 .. Len(Registration)
         /\ {Registration[n] : n \in 1 .. done + 1}
              = {Registration[n] : n \in 1 .. done} \cup {Registering}
<1>n. PICK k \in Nat : k = Len(Registration)
  OBVIOUS
<1>1. done + 1 \in 1 .. k /\ done \in Nat
  BY <1>n
<1>2. \A n \in 1 .. done : n \in 1 .. k /\ n # done + 1
  BY <1>n
<1>3. \A n \in 1 .. done + 1 : n \in 1 .. done \/ n = done + 1
  BY <1>1
<1>4. \A n \in 1 .. done : n \in 1 .. done + 1
  BY <1>1
<1>5. done + 1 \in 1 .. done + 1
  BY <1>1
<1>6. Registering \in Irq \ {Cascade} /\ Registering \in Lines(Registration)
  BY <1>n, <1>1 DEF Registering, Lines
<1>7. \A n \in 1 .. done : Registration[n] # Registering
  BY <1>n, <1>1, <1>2 DEF Registering
<1>8. {Registration[n] : n \in 1 .. done + 1}
        = {Registration[n] : n \in 1 .. done} \cup {Registering}
  BY <1>3, <1>4, <1>5 DEF Registering
<1>9. done + 1 \in 0 .. Len(Registration)
  BY <1>n, <1>1
<1> QED BY <1>6, <1>7, <1>8, <1>9

LEMMA RegisteredAreLines ==
  ASSUME done \in 0 .. Len(Registration)
  PROVE  {Registration[n] : n \in 1 .. done} \subseteq Irq \ {Cascade}
<1>n. PICK k \in Nat : k = Len(Registration)
  OBVIOUS
<1>1. \A n \in 1 .. done : n \in 1 .. k
  BY <1>n
<1> QED BY <1>n, <1>1

-----------------------------------------------------------------------------
(* The inductive invariant.                                                *)

\* The lines that are masked while no handler is active.
Closed == Irq \ ({Cascade} \cup Opened)

\* Only a line that will be registered asks, and one that is open has its
\* handler: no dispatch finds none.
HandlersInv ==
  /\ requested \subseteq Lines(Registration)
  /\ \A n \in 1 .. done : Registration[n] \in handlers
  /\ at # "free" => Registering \in handlers

\* A handler is active for open lines only.
StackInv == Lines(stack) \subseteq Opened

\* What the boot code has read of a mask is still right, though handlers have
\* run since: whatever they changed they have put back.
RegInv ==
  /\ at = "read" => reg = Closed \cap Pic(Registering)
  /\ at = "loaded" => reg \ {Registering} = Irq \ (Closed \cup {Registering})

IInv ==
  /\ TypeOK /\ HandlersInv /\ StackInv /\ RegInv
  /\ NotDoubled /\ MasksTrackHandlers

LEMMA InitIInv == Init => IInv
<1> SUFFICES ASSUME Init PROVE IInv
  OBVIOUS
<1>1. Opening = {} /\ Opened = {} /\ done = 0 /\ at = "free" /\ stack = <<>>
  BY DEF Init, Opening, Opened
<1>2. Len(Registration) \in Nat
  OBVIOUS
<1>3. TypeOK
  BY <1>1, <1>2, NoLines DEF Init, TypeOK, Irq, Cascade
<1>4. HandlersInv /\ StackInv /\ RegInv
  BY <1>1, NoLines DEF Init, HandlersInv, StackInv, RegInv
<1>5. NotDoubled
  BY <1>1, NoLines DEF NotDoubled, Distinct
<1>6. MasksTrackHandlers
  BY <1>1, NoLines DEF Init, MasksTrackHandlers, Irq, Cascade
<1> QED BY <1>3, <1>4, <1>5, <1>6 DEF IInv

\* Nothing that is open depends on what a handler changes.
LEMMA SameOpen ==
  ASSUME UNCHANGED <<done, at>>
  PROVE  Opening' = Opening /\ Opened' = Opened /\ Closed' = Closed /\ Registering' = Registering
BY DEF Opening, Opened, Closed, Registering

LEMMA RaiseKeepsIInv ==
  ASSUME IInv, NEW i \in Irq, Raise(i)
  PROVE  IInv'
<1>1. UNCHANGED <<masked, irqMask, inService, handlers, done, at, reg, stack>>
  BY DEF Raise, setVars
<1>2. requested' \subseteq Lines(Registration) /\ requested' \subseteq Irq
  BY DEF Raise, IInv, HandlersInv, TypeOK
<1> QED BY <1>1, <1>2, SameOpen
        DEF IInv, TypeOK, HandlersInv, StackInv, RegInv, NotDoubled, MasksTrackHandlers

\* The processor is signalled only lines that are open, have a handler and have
\* none active.
LEMMA SignalledIsOpen ==
  ASSUME IInv, NEW i \in Irq, Signalled(i)
  PROVE  i \in requested /\ i \in Opened /\ i \in handlers /\ i \notin Lines(stack)
<1>1. i \in requested /\ i \notin masked
  BY DEF Signalled
<1>2. i # Cascade
  <2>1. \A n \in 1 .. Len(Registration) : Registration[n] # Cascade
    OBVIOUS
  <2> QED BY <1>1, <2>1 DEF IInv, HandlersInv, Lines
<1>3. i \in Opened /\ i \notin Lines(stack)
  BY <1>1, <1>2 DEF IInv, MasksTrackHandlers
<1>4. i \in handlers
  BY <1>3 DEF IInv, HandlersInv, Opened, Opening
<1> QED BY <1>1, <1>3, <1>4

\* A dispatch masks its line and puts its handler on the stack.
LEMMA DispatchKeepsIInv ==
  ASSUME IInv, NEW i \in Irq, interrupts_irq_handler(i)
  PROVE  IInv' /\ stack' = Append(stack, i) /\ requested' = requested \ {i}
<1>1. i \in Opened /\ i \in handlers /\ i \notin Lines(stack)
  BY SignalledIsOpen DEF interrupts_irq_handler, Deliverable
<1>2. /\ masked' = masked \cup {i} /\ irqMask' = irqMask \ {i}
      /\ stack' = Append(stack, i) /\ requested' = requested \ {i}
      /\ UNCHANGED <<handlers, done, at, reg>>
  BY <1>1 DEF interrupts_irq_handler, setVars
<1>3. inService' = {}
  BY EoiEndsAll DEF IInv, TypeOK, interrupts_irq_handler
<1>4. stack \in Seq(Irq) /\ Distinct(stack)
  BY DEF IInv, TypeOK, NotDoubled, Distinct
<1>5. /\ stack' \in Seq(Irq) /\ Lines(stack') = Lines(stack) \cup {i}
      /\ Distinct(stack')
  BY <1>1, <1>2, <1>4, PushLine
<1>6. Opening' = Opening /\ Opened' = Opened /\ Closed' = Closed /\ Registering' = Registering
  BY <1>2, SameOpen
<1>7. TypeOK'
  BY <1>2, <1>3, <1>5 DEF IInv, TypeOK
<1>8. HandlersInv' /\ StackInv' /\ RegInv'
  BY <1>1, <1>2, <1>5, <1>6 DEF IInv, HandlersInv, StackInv, RegInv
<1>9. NotDoubled'
  BY <1>5 DEF NotDoubled, Distinct
<1>10. MasksTrackHandlers'
  BY <1>2, <1>5, <1>6 DEF IInv, MasksTrackHandlers
<1> QED BY <1>2, <1>7, <1>8, <1>9, <1>10 DEF IInv

\* A handler that returns unmasks its line.
LEMMA ReturnKeepsIInv ==
  ASSUME IInv, HandlerReturns
  PROVE  IInv'
<1> DEFINE i == stack[Len(stack)]
<1>1. /\ stack # <<>>
      /\ masked' = masked \ {i} /\ irqMask' = irqMask \cup {i}
      /\ stack' = SubSeq(stack, 1, Len(stack) - 1)
      /\ UNCHANGED <<requested, inService, handlers, done, at, reg>>
  BY DEF HandlerReturns, setVars
<1>2. stack \in Seq(Irq) /\ Distinct(stack)
  BY DEF IInv, TypeOK, NotDoubled, Distinct
<1>3. /\ i \in Lines(stack) /\ i \in Irq
      /\ stack' \in Seq(Irq) /\ Lines(stack') = Lines(stack) \ {i}
      /\ Distinct(stack')
  BY <1>1, <1>2, PopLine
<1>4. Opening' = Opening /\ Opened' = Opened /\ Closed' = Closed /\ Registering' = Registering
  BY <1>1, SameOpen
<1>5. i \in Opened /\ i # Cascade
  <2>1. i \in Opened
    BY <1>3 DEF IInv, StackInv
  <2>2. done \in 0 .. Len(Registration) /\ (at # "free" => done < Len(Registration))
    BY DEF IInv, TypeOK
  <2> QED BY <2>1, <2>2, RegisteringIsNew, RegisteredAreLines DEF Opened, Opening
<1>6. TypeOK'
  BY <1>1, <1>3 DEF IInv, TypeOK
<1>7. HandlersInv' /\ StackInv' /\ RegInv'
  BY <1>1, <1>3, <1>4 DEF IInv, HandlersInv, StackInv, RegInv
<1>8. NotDoubled'
  BY <1>3 DEF NotDoubled, Distinct
<1>9. MasksTrackHandlers'
  BY <1>1, <1>3, <1>4, <1>5 DEF IInv, MasksTrackHandlers
<1> QED BY <1>6, <1>7, <1>8, <1>9 DEF IInv

-----------------------------------------------------------------------------
(* interrupts_set_irq_handler.                                             *)

\* The boot code steps with no handler active, so a mask is what it is at rest.
LEMMA BootAtRest ==
  ASSUME IInv, NEW p, BootAt(p)
  PROVE  /\ at = p /\ stack = <<>> /\ Lines(stack) = {} /\ masked = Closed
         /\ done \in 0 .. Len(Registration) /\ done < Len(Registration)
         /\ Registering \in Irq /\ Registering # Cascade
         /\ \A i \in Irq \ Opening : i \in irqMask <=> i \notin Closed
<1>1. at = p /\ stack = <<>> /\ done < Len(Registration) /\ done \in 0 .. Len(Registration)
  BY DEF BootAt, IInv, TypeOK
<1>2. Lines(stack) = {}
  BY <1>1, NoLines
<1>3. Registering \in Irq /\ Registering # Cascade
  BY <1>1, RegisteringIsNew
<1> QED BY <1>1, <1>2, <1>3 DEF IInv, MasksTrackHandlers, Closed

LEMMA SetHandlerKeepsIInv ==
  ASSUME IInv, SetHandler
  PROVE  IInv'
<1>1. /\ handlers' = handlers \cup {Registering} /\ at = "free" /\ at' = "set"
      /\ UNCHANGED <<masked, irqMask, requested, inService, done, reg, stack>>
  BY DEF SetHandler, BootAt, picVars
<1>2. Registering \in Irq /\ done < Len(Registration)
  BY BootAtRest DEF SetHandler
<1>3. Registering' = Registering /\ Opening' = Opening /\ Opened' = Opened /\ Closed' = Closed
  BY <1>1 DEF Registering, Opening, Opened, Closed
<1>4. TypeOK'
  BY <1>1, <1>2 DEF IInv, TypeOK
<1>5. HandlersInv' /\ StackInv' /\ RegInv' /\ NotDoubled' /\ MasksTrackHandlers'
  BY <1>1, <1>3 DEF IInv, HandlersInv, StackInv, RegInv, NotDoubled, MasksTrackHandlers
<1> QED BY <1>4, <1>5 DEF IInv

LEMMA ReadMaskKeepsIInv ==
  ASSUME IInv, ReadMask
  PROVE  IInv'
<1>1. /\ reg' = masked \cap Pic(Registering) /\ at = "set" /\ at' = "read"
      /\ UNCHANGED <<masked, irqMask, requested, inService, handlers, done, stack>>
  BY DEF ReadMask, BootAt, picVars
<1>2. masked = Closed
  BY BootAtRest DEF ReadMask
<1>3. Registering' = Registering /\ Opening' = Opening /\ Opened' = Opened /\ Closed' = Closed
  BY <1>1 DEF Registering, Opening, Opened, Closed
<1>4. TypeOK'
  BY <1>1 DEF IInv, TypeOK
<1>5. RegInv'
  BY <1>1, <1>2, <1>3 DEF RegInv
<1>6. HandlersInv' /\ StackInv' /\ NotDoubled' /\ MasksTrackHandlers'
  BY <1>1, <1>3 DEF IInv, HandlersInv, StackInv, NotDoubled, MasksTrackHandlers
<1> QED BY <1>4, <1>5, <1>6 DEF IInv

\* The write opens the line being registered and leaves every other as it was.
LEMMA WriteMaskKeepsIInv ==
  ASSUME IInv, WriteMask
  PROVE  IInv'
<1> DEFINE r == Registering
<1>1. /\ masked' = (masked \ Pic(r)) \cup (reg \ {r}) /\ at = "read" /\ at' = "written"
      /\ UNCHANGED <<irqMask, requested, inService, handlers, done, reg, stack>>
  BY DEF WriteMask, BootAt
<1>2. /\ masked = Closed /\ Lines(stack) = {} /\ r \in Irq /\ r # Cascade
      /\ done < Len(Registration) /\ \A i \in Irq \ Opening : i \in irqMask <=> i \notin Closed
  BY BootAtRest DEF WriteMask
<1>3. reg = Closed \cap Pic(r) /\ r \in Pic(r)
  BY <1>1, <1>2 DEF IInv, RegInv, Pic, Irq
<1>4. masked' = Closed \ {r}
  BY <1>1, <1>2, <1>3
<1>5. r' = r /\ Opening = {} /\ Opening' = {r} /\ Opened' = Opened \cup {r}
  BY <1>1 DEF Registering, Opening, Opened
<1>6. Closed' = Closed \ {r}
  BY <1>5 DEF Closed
<1>7. TypeOK'
  BY <1>1, <1>2, <1>4 DEF IInv, TypeOK, Closed
<1>8. HandlersInv'
  BY <1>1, <1>5 DEF IInv, HandlersInv
<1>9. StackInv' /\ RegInv' /\ NotDoubled'
  BY <1>1, <1>5 DEF IInv, StackInv, RegInv, NotDoubled
<1>10. MasksTrackHandlers'
  BY <1>1, <1>2, <1>4, <1>5, <1>6 DEF MasksTrackHandlers, Closed
<1> QED BY <1>7, <1>8, <1>9, <1>10 DEF IInv

LEMMA ReadIrqMaskKeepsIInv ==
  ASSUME IInv, ReadIrqMask
  PROVE  IInv'
<1> DEFINE r == Registering
<1>1. /\ reg' = irqMask /\ at = "written" /\ at' = "loaded"
      /\ UNCHANGED <<masked, irqMask, requested, inService, handlers, done, stack>>
  BY DEF ReadIrqMask, BootAt, picVars
<1>2. \A i \in Irq \ Opening : i \in irqMask <=> i \notin Closed
  BY BootAtRest DEF ReadIrqMask
<1>3. r' = r /\ Opening = {r} /\ Opening' = {r} /\ Opened' = Opened /\ Closed' = Closed
  BY <1>1 DEF Registering, Opening, Opened, Closed
<1>4. irqMask \subseteq Irq
  BY DEF IInv, TypeOK
<1>5. RegInv'
  BY <1>1, <1>2, <1>3, <1>4 DEF RegInv
<1>6. TypeOK'
  BY <1>1 DEF IInv, TypeOK
<1>7. HandlersInv' /\ StackInv' /\ NotDoubled' /\ MasksTrackHandlers'
  BY <1>1, <1>3 DEF IInv, HandlersInv, StackInv, NotDoubled, MasksTrackHandlers
<1> QED BY <1>5, <1>6, <1>7 DEF IInv

\* The registration is complete: the line counts as open for good.
LEMMA WriteIrqMaskKeepsIInv ==
  ASSUME IInv, WriteIrqMask
  PROVE  IInv'
<1> DEFINE r == Registering
           before == {Registration[n] : n \in 1 .. done}
<1>1. /\ irqMask' = reg \cup {r} /\ done' = done + 1 /\ at = "loaded" /\ at' = "free"
      /\ UNCHANGED <<masked, requested, inService, handlers, reg, stack>>
  BY DEF WriteIrqMask, BootAt
<1>2. /\ masked = Closed /\ Lines(stack) = {} /\ r \in Irq
      /\ done \in 0 .. Len(Registration) /\ done < Len(Registration)
  BY BootAtRest DEF WriteIrqMask
<1>3. /\ done + 1 \in 0 .. Len(Registration)
      /\ {Registration[n] : n \in 1 .. done + 1} = before \cup {r}
  BY <1>2, RegisteringIsNew
<1>4. Opening = {r} /\ Opened = before \cup {r} /\ Opening' = {} /\ Opened' = before \cup {r}
  BY <1>1, <1>3 DEF Opening, Opened
<1>5. Opened' = Opened /\ Closed' = Closed /\ r \notin Closed
  BY <1>4 DEF Closed
<1>6. reg \ {r} = Irq \ (Closed \cup {r})
  BY <1>1 DEF IInv, RegInv
<1>7. TypeOK'
  BY <1>1, <1>2, <1>3 DEF IInv, TypeOK
<1>8. HandlersInv'
  <2>1. before \cup {r} \subseteq handlers
    BY <1>1 DEF IInv, HandlersInv
  <2>2. \A n \in 1 .. done + 1 : Registration[n] \in handlers
    BY <1>3, <2>1
  <2> QED BY <1>1, <2>2 DEF IInv, HandlersInv
<1>9. StackInv' /\ RegInv' /\ NotDoubled'
  BY <1>1, <1>5 DEF IInv, StackInv, RegInv, NotDoubled
<1>10. MasksTrackHandlers'
  <2>1. \A i \in Irq : i \in irqMask' <=> i \notin masked'
    BY <1>1, <1>2, <1>5, <1>6
  <2> QED BY <1>1, <1>2, <1>5, <2>1 DEF MasksTrackHandlers, Closed
<1> QED BY <1>7, <1>8, <1>9, <1>10 DEF IInv

LEMMA NextKeepsIInv == IInv /\ [Next]_vars => IInv'
<1> SUFFICES ASSUME IInv, [Next]_vars PROVE IInv'
  OBVIOUS
<1>1. CASE UNCHANGED vars
  <2>1. UNCHANGED <<masked, irqMask, requested, inService, handlers, done, at, reg, stack>>
    BY <1>1 DEF vars, picVars, setVars
  <2> QED BY <2>1, SameOpen
          DEF IInv, TypeOK, HandlersInv, StackInv, RegInv, NotDoubled, MasksTrackHandlers
<1>2. CASE Next
  BY <1>2, RaiseKeepsIInv, DispatchKeepsIInv, ReturnKeepsIInv, SetHandlerKeepsIInv,
     ReadMaskKeepsIInv, WriteMaskKeepsIInv, ReadIrqMaskKeepsIInv, WriteIrqMaskKeepsIInv
  DEF Next
<1> QED BY <1>1, <1>2

LEMMA InductiveInvariant == Spec => []IInv
<1>1. IInv /\ [Next]_vars => IInv'
  BY NextKeepsIInv
<1> QED BY <1>1, InitIInv, PTL DEF Spec

-----------------------------------------------------------------------------
(* The theorems.                                                           *)

\* Every variable stays of its type, and no line is left in service.
THEOREM TypeCorrect == Spec => []TypeOK
<1>1. IInv => TypeOK
  BY DEF IInv
<1> QED BY <1>1, InductiveInvariant, PTL

\* The handler of a line never interrupts itself.
THEOREM NeverDoubled == Spec => []NotDoubled
<1>1. IInv => NotDoubled
  BY DEF IInv
<1> QED BY <1>1, InductiveInvariant, PTL

\* However handlers interrupt i8259a_enable_irq between its accesses, a line that
\* has been opened is masked exactly while its handler is active.
THEOREM MasksAlwaysTrack == Spec => []MasksTrackHandlers
<1>1. IInv => MasksTrackHandlers
  BY DEF IInv
<1> QED BY <1>1, InductiveInvariant, PTL

\* The processor takes a request only to run the handler of its line.
THEOREM RequestsAlwaysReachHandlers == Spec => RequestsReachHandlers
<1> DEFINE Reaches == \A i \in requested : i \notin requested' => stack' = Append(stack, i)
<1>1. IInv /\ [Next]_vars => [Reaches]_vars
  <2> SUFFICES ASSUME IInv, Next PROVE Reaches
    OBVIOUS
  <2>1. ASSUME NEW i \in Irq, interrupts_irq_handler(i) PROVE Reaches
    BY <2>1, DispatchKeepsIInv
  <2>2. ASSUME NEW i \in Irq, Raise(i) PROVE Reaches
    BY <2>2 DEF Raise
  <2>3. ASSUME HandlerReturns \/ SetHandler \/ ReadMask \/ WriteMask \/ ReadIrqMask \/ WriteIrqMask
        PROVE  Reaches
    BY <2>3 DEF HandlerReturns, SetHandler, ReadMask, WriteMask, ReadIrqMask, WriteIrqMask, picVars
  <2> QED BY <2>1, <2>2, <2>3 DEF Next
<1> QED BY <1>1, InductiveInvariant, PTL DEF Spec, RequestsReachHandlers

=============================================================================
