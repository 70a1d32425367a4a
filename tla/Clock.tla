------------------------------- MODULE Clock --------------------------------
(***************************************************************************)
(* clock_initialise and the handlers of IRQ 0 (the PIT) and IRQ 8 (the RTC *)
(* of the CMOS, whose registers are selected through port 0x70 and read    *)
(* and written through port 0x71, by the handler as well).                 *)
(***************************************************************************)
EXTENDS Integers

CONSTANT Tries   \* measurements of the processor's frequency

ClockAssumption == Tries \in Nat \ {0}

VARIABLES
  ck,        \* where clock_initialise is
  measured,  \* measurements made
  iflag,     \* interrupts are on
  handled,   \* the IRQs with a handler, which are the ones not masked
  counting,  \* the PIT counts with the kernel's divisor
  index,     \* the register of the CMOS selected
  periodic,  \* register B: the periodic interrupt is enabled
  armed,     \* register C has been read since the last interrupt
  landed,    \* history: the registers written
  waited     \* ms_now - ms_start, up to the first value above 10

vars == <<ck, measured, iflag, handled, counting, index, periodic, armed, landed, waited>>
rtc  == <<index, periodic, armed, landed>>

\* The firmware may have left the periodic interrupt on.
Init ==
  /\ ck = "off" /\ measured = 0 /\ iflag = FALSE /\ handled = {} /\ counting = FALSE
  /\ index = "none" /\ periodic \in BOOLEAN /\ armed \in BOOLEAN
  /\ landed = {} /\ waited = 0

-----------------------------------------------------------------------------
HZ         == 200
CLOCK_FREQ == 1193182

\* The divisor, cut to 16 bits, and milliseconds in a tick (the fraction, which
\* is below a thousandth, is left out).
Divisor == ((2 * CLOCK_FREQ + HZ) \div (2 * HZ)) % 65536

\* Variant: the length of a tick is that of a full count.
MsPerFullCount == (65536 * 1000) \div CLOCK_FREQ
MsPerTick      == (Divisor * 1000) \div CLOCK_FREQ

\* _est_cpu_freq: each measurement lasts until a bit of the counter is set.
Measure ==
  /\ ck = "off" /\ measured < Tries
  /\ measured' = measured + 1
  /\ UNCHANGED <<ck, iflag, handled, counting, rtc, waited>>

i8253_start_clock ==
  /\ ck = "off" /\ measured = Tries
  /\ ck' = "pit" /\ counting' = TRUE
  /\ UNCHANGED <<measured, iflag, handled, rtc, waited>>

\* interrupts_set_irq_handler, which ends with sti.
set_irq_handler(from, irq, to) ==
  /\ ck = from
  /\ handled' = handled \cup {irq} /\ iflag' = TRUE /\ ck' = to
  /\ UNCHANGED <<measured, counting, rtc, waited>>

\* Variants: the register is chosen with interrupts on, and never turned on again.
StaysOn(flag) == flag
cli(flag) == FALSE

StaysOff(flag) == flag
sti(flag) == TRUE

\* _enable_rtc_timer, one step for each port access.
SelectAndRead ==
  /\ ck = "rtc" /\ ck' = "select"
  /\ iflag' = cli(iflag) /\ index' = "B"
  /\ UNCHANGED <<measured, handled, counting, periodic, armed, landed, waited>>

SelectAgain ==
  /\ ck = "select" /\ ck' = "write"
  /\ index' = "B"
  /\ UNCHANGED <<measured, iflag, handled, counting, periodic, armed, landed, waited>>

WriteSelected ==
  /\ ck = "write" /\ ck' = "sti"
  /\ landed' = landed \cup {index}
  /\ periodic' = (periodic \/ index = "B")
  /\ UNCHANGED <<measured, iflag, handled, counting, index, armed, waited>>

EnableInterrupts ==
  /\ ck = "sti" /\ ck' = "wait"
  /\ iflag' = sti(iflag) /\ waited' = 0
  /\ UNCHANGED <<measured, handled, counting, rtc>>

\* The wait for ten milliseconds.
Waited ==
  /\ ck = "wait" /\ waited > 10
  /\ ck' = "up"
  /\ UNCHANGED <<measured, iflag, handled, counting, rtc, waited>>

clock_initialise ==
  \/ Measure \/ i8253_start_clock
  \/ set_irq_handler("pit", 0, "irq0") \/ set_irq_handler("irq0", 8, "rtc")
  \/ SelectAndRead \/ SelectAgain \/ WriteSelected \/ EnableInterrupts \/ Waited

\* _irq_0_handler
Irq0 ==
  /\ iflag /\ counting /\ 0 \in handled /\ ck = "wait"
  /\ waited' = IF waited > 10 THEN waited ELSE waited + MsPerTick
  /\ UNCHANGED <<ck, measured, iflag, handled, counting, rtc>>

\* The RTC's interrupt and _irq_8_handler, which selects register C and reads it.
Irq8 ==
  /\ iflag /\ 8 \in handled /\ periodic /\ armed
  /\ index' = "C" /\ armed' = TRUE
  /\ UNCHANGED <<ck, measured, iflag, handled, counting, periodic, landed, waited>>

Next == clock_initialise \/ Irq0 \/ Irq8

Fairness == WF_vars(clock_initialise) /\ WF_vars(Irq0)

Spec == Init /\ [][Next]_vars /\ Fairness

-----------------------------------------------------------------------------
TypeOK ==
  /\ ck \in {"off", "pit", "irq0", "rtc", "select", "write", "sti", "wait", "up"}
  /\ measured \in 0 .. Tries
  /\ iflag \in BOOLEAN /\ handled \subseteq {0, 8} /\ counting \in BOOLEAN
  /\ index \in {"none", "B", "C"} /\ periodic \in BOOLEAN /\ armed \in BOOLEAN
  /\ landed \subseteq {"none", "B", "C"}
  /\ waited \in 0 .. 15

\* The RTC's handler runs between any two steps that have interrupts on, and
\* the data written while the timer is enabled still goes to register B alone;
\* after that the periodic interrupt is on.
RtcWritesLand ==
  /\ landed \subseteq {"B"}
  /\ ck \in {"sti", "wait", "up"} => periodic

=============================================================================
