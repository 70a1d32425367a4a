----------------------------- MODULE Interrupts -----------------------------
(***************************************************************************)
(* IRQs on the boot processor: the two cascaded 8259A controllers as       *)
(* i8259a.c programs them, the dispatch of interrupts_irq_handler, and the *)
(* boot code that registers handlers with interrupts_set_irq_handler.      *)
(*                                                                         *)
(* A handler runs with interrupts on, so another line may interrupt it:    *)
(* stack holds the lines whose handlers are active, innermost last.  What  *)
(* runs with interrupts off is one step, what runs with them on is a step  *)
(* for each access to a mask.  Interrupts are on whenever a step starts:   *)
(* until the first registration has run its sti, every line is masked.     *)
(*                                                                         *)
(* The model starts when i8259a_initialise is done.                        *)
(***************************************************************************)
EXTENDS Integers, Sequences

CONSTANT Registration   \* the lines the kernel registers, in order

Irq     == 0 .. 15
Cascade == 2                          \* the slave reports on this line
Slave   == 8 .. 15
Pic(i)  == IF i \in Slave THEN Slave ELSE Irq \ Slave

Lines(s) == {s[n] : n \in 1 .. Len(s)}

ASSUME RegistrationAssumption ==
  /\ Registration \in Seq(Irq \ {Cascade})
  /\ \A m, n \in 1 .. Len(Registration) : Registration[m] = Registration[n] => m = n

VARIABLES
  masked,    \* the bits set in the mask registers of the controllers
  irqMask,   \* _i8259a_irq_mask, as the set of lines it calls enabled
  requested, \* lines whose request a controller has latched
  inService, \* lines in service: acknowledged, without an EOI so far
  handlers,  \* the lines with a handler in _irq_handlers
  stack,     \* the lines whose handlers are active
  done,      \* how many lines have been registered
  at,        \* where interrupts_set_irq_handler is
  reg        \* the mask it has read

picVars == <<masked, irqMask, requested, inService>>
setVars == <<handlers, done, at, reg>>
vars    == <<picVars, setVars, stack>>

-----------------------------------------------------------------------------
(* The controllers.                                                        *)

\* On the master the slave comes in third: 0, 1, 8 .. 15, 3 .. 7.
Rank(i) == IF i \in Slave THEN 16 * Cascade + i ELSE 16 * i

\* The request of i gets as far as the processor.
Signalled(i) ==
  /\ i \in requested \ masked
  /\ i \in Slave => Cascade \notin masked
  /\ \A s \in inService : Rank(i) < Rank(s)

Deliverable(i) == Signalled(i) /\ \A j \in Irq : Signalled(j) => Rank(i) <= Rank(j)

Interrupted == \E i \in Irq : Signalled(i)

Acknowledged(i) == inService \cup {i} \cup (IF i \in Slave THEN {Cascade} ELSE {})

Foremost(S) == {i \in S : \A j \in S : Rank(i) <= Rank(j)}

\* Variant: the EOI goes to the controller of the line alone.
EoiToOne(i, S) == S \ Foremost(S \cap Pic(i))

\* i8259a_send_eoi: an EOI names no line and ends the foremost one in service;
\* for a line of the slave both controllers get one.
i8259a_send_eoi(i, S) ==
  S \ (Foremost(S \ Slave) \cup (IF i \in Slave THEN Foremost(S \cap Slave) ELSE {}))

-----------------------------------------------------------------------------
Init ==
  /\ masked = Irq \ {Cascade}
  /\ irqMask = {Cascade}
  /\ requested = {}
  /\ inService = {}
  /\ handlers = {}
  /\ stack = <<>>
  /\ done = 0
  /\ at = "free"
  /\ reg = {}

\* A device asks for service; a request latched already absorbs the new one.
Raise(i) ==
  /\ i \in Lines(Registration) \ requested
  /\ requested' = requested \cup {i}
  /\ UNCHANGED <<masked, irqMask, inService, setVars, stack>>

\* Variant: the line stays unmasked while its handler is active.
EnterUnmasked(i) ==
  /\ Deliverable(i)
  /\ requested' = requested \ {i}
  /\ inService' = i8259a_send_eoi(i, Acknowledged(i))
  /\ stack' = IF i \in handlers THEN Append(stack, i) ELSE stack
  /\ UNCHANGED <<masked, irqMask, setVars>>

\* interrupts_irq_handler up to the call of the handler: acknowledge, mask the
\* line, EOI, sti.  With no handler set the line is unmasked again at once.
interrupts_irq_handler(i) ==
  /\ Deliverable(i)
  /\ requested' = requested \ {i}
  /\ inService' = i8259a_send_eoi(i, Acknowledged(i))
  /\ IF i \in handlers
       THEN /\ masked' = masked \cup {i}
            /\ irqMask' = irqMask \ {i}
            /\ stack' = Append(stack, i)
       ELSE /\ masked' = masked \ {i}
            /\ irqMask' = irqMask \cup {i}
            /\ UNCHANGED stack
  /\ UNCHANGED setVars

\* The handler returns: cli, unmask the line, iretq.
HandlerReturns ==
  /\ stack # <<>>
  /\ ~Interrupted
  /\ LET i == stack[Len(stack)]
     IN /\ masked' = masked \ {i}
        /\ irqMask' = irqMask \cup {i}
  /\ stack' = SubSeq(stack, 1, Len(stack) - 1)
  /\ UNCHANGED <<requested, inService, setVars>>

-----------------------------------------------------------------------------
(* interrupts_set_irq_handler, called by clock_initialise and              *)
(* keyboard_initialise.                                                    *)

Registering == Registration[done + 1]

\* The boot code takes a step: no handler is active and none is due.
BootAt(p) == at = p /\ done < Len(Registration) /\ stack = <<>> /\ ~Interrupted

\* Variant: the line is unmasked before its handler is set.
UnmaskFirst ==
  /\ BootAt("free")
  /\ masked' = masked \ {Registering}
  /\ at' = "set"
  /\ UNCHANGED <<irqMask, requested, inService, handlers, done, reg, stack>>

SetHandler ==
  /\ BootAt("free")
  /\ handlers' = handlers \cup {Registering}
  /\ at' = "set"
  /\ UNCHANGED <<picVars, done, reg, stack>>

\* i8259a_enable_irq reads the mask register of one controller, ...
ReadMask ==
  /\ BootAt("set")
  /\ reg' = masked \cap Pic(Registering)
  /\ at' = "read"
  /\ UNCHANGED <<picVars, handlers, done, stack>>

\* Variant: the write replaces the masks of both controllers.
WriteBothMasks ==
  /\ BootAt("read")
  /\ masked' = reg \ {Registering}
  /\ at' = "written"
  /\ UNCHANGED <<irqMask, requested, inService, handlers, done, reg, stack>>

\* ... writes it back without the line ...
WriteMask ==
  /\ BootAt("read")
  /\ masked' = (masked \ Pic(Registering)) \cup (reg \ {Registering})
  /\ at' = "written"
  /\ UNCHANGED <<irqMask, requested, inService, handlers, done, reg, stack>>

\* ... and updates _i8259a_irq_mask, a read and a write again.
ReadIrqMask ==
  /\ BootAt("written")
  /\ reg' = irqMask
  /\ at' = "loaded"
  /\ UNCHANGED <<picVars, handlers, done, stack>>

WriteIrqMask ==
  /\ BootAt("loaded")
  /\ irqMask' = reg \cup {Registering}
  /\ done' = done + 1
  /\ at' = "free"
  /\ UNCHANGED <<masked, requested, inService, handlers, reg, stack>>

Next ==
  \/ \E i \in Irq : Raise(i) \/ interrupts_irq_handler(i)
  \/ HandlerReturns
  \/ SetHandler \/ ReadMask \/ WriteMask \/ ReadIrqMask \/ WriteIrqMask

\* The processor takes an interrupt that is signalled to it.
Fairness == WF_vars(\E i \in Irq : interrupts_irq_handler(i))

Spec == Init /\ [][Next]_vars /\ Fairness

-----------------------------------------------------------------------------
(* Properties.                                                             *)

\* Every variable stays of its type, and no line is left in service while
\* interrupts are on.
TypeOK ==
  /\ masked \subseteq Irq
  /\ irqMask \subseteq Irq
  /\ requested \subseteq Irq
  /\ inService = {}
  /\ handlers \subseteq Irq
  /\ stack \in Seq(Irq)
  /\ done \in 0 .. Len(Registration)
  /\ at \in {"free", "set", "read", "written", "loaded"}
  /\ at # "free" => done < Len(Registration)
  /\ reg \subseteq Irq

\* interrupts.c:191 masks the line before the EOI "so we don't get doubled":
\* the handler of a line never interrupts itself.
NotDoubled == \A m, n \in 1 .. Len(stack) : stack[m] = stack[n] => m = n

\* The line whose mask bit is clear before _i8259a_irq_mask says so.
Opening == IF at \in {"written", "loaded"} THEN {Registering} ELSE {}

\* The lines whose mask bit has been cleared for good.
Opened == {Registration[n] : n \in 1 .. done} \cup Opening

\* The masks survive the races on them.  The boot code reads and writes them
\* with interrupts on, and handlers that interrupt it do the same; yet a line
\* that has been opened is masked exactly while its handler is active, every
\* other line but the cascade is masked, and _i8259a_irq_mask agrees with the
\* controllers, the line being registered apart.
MasksTrackHandlers ==
  /\ masked = (Irq \ ({Cascade} \cup Opened)) \cup Lines(stack)
  /\ \A i \in Irq \ Opening : i \in irqMask <=> i \notin masked

\* No request is dropped: the processor takes one only to run its handler.
RequestsReachHandlers ==
  [][\A i \in requested : i \notin requested' => stack' = Append(stack, i)]_vars

\* A request on an unmasked line is always served, whatever handlers run and
\* however often other lines ask: each line that is served is masked until
\* its handler returns, so it cannot shut out the ones below it.
RequestsServed ==
  \A i \in Lines(Registration) : i \in requested /\ i \notin masked ~> i \in Lines(stack)

=============================================================================
