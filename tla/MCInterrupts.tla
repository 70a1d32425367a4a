---------------------------- MODULE MCInterrupts ----------------------------
(* Interrupts with the lines the kernel does register.                     *)
EXTENDS Interrupts

\* clock_initialise registers the PIT and the RTC, keyboard_initialise the
\* keyboard.
MCRegistration == <<0, 8, 1>>

=============================================================================
