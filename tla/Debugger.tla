------------------------------ MODULE Debugger ------------------------------
(***************************************************************************)
(* The kernel's side of the debugger (debugger.c): breakpoints that are    *)
(* int 3 bytes in the program, the trap after a breakpoint that puts its   *)
(* byte back, and the loop that obeys the packets of the front end while   *)
(* the program is stopped.  A byte of the program is its own or an int 3.  *)
(***************************************************************************)
EXTENDS Integers, Sequences

CONSTANTS
  Follows,      \* the instruction after the one at an address, in execution
  Calls,        \* addresses of CALL instructions
  Length,       \* length of the instruction at an address
  Settable,     \* addresses the front end sets breakpoints at
  MaxBreakpoints  \* bound: below the 16 the vector is created with

Address == DOMAIN Follows

ASSUME DebuggerAssumption ==
  /\ Address \subseteq Nat \ {0} /\ Follows \in [Address -> Address]
  /\ Length \in [Address -> Nat \ {0}]
  /\ Settable \cup Calls \subseteq Address /\ MaxBreakpoints \in Nat
  /\ \A c \in Calls : c + Length[c] \in Address

VARIABLES
  mode,         \* "waiting" for a connection, "run", "stopped" or "asserted"
  matched,      \* conn_id_pos
  recent,       \* history: the last four characters received
  memory,       \* the byte at each address: "own" or "int3"
  breakpoints, size,   \* _breakpoints: its memory and its size
  last,         \* _last_rt_bp
  lastCommand,  \* _last_command
  rip, tf,      \* of the program
  bp,           \* index of the breakpoint the handler stopped at, or 0
  due,          \* history: the instruction that is next in the program
  disturbed     \* history: one of the mishaps that the comments below name

vars == <<mode, matched, recent, memory, breakpoints, size, last, lastCommand, rip, tf,
          bp, due, disturbed>>

list == <<memory, breakpoints, size>>
link == <<matched, recent>>

Entry == [at : Address, byte : {"own", "int3"}, active : BOOLEAN, transient : BOOLEAN]
NoEntry == [at |-> 0, byte |-> "own", active |-> FALSE, transient |-> FALSE]

\* debugger_initialise, and the program at some instruction.
Init ==
  /\ mode = "waiting" /\ matched = 0 /\ recent = <<>>
  /\ memory = [a \in Address |-> "own"]
  /\ breakpoints = [i \in 1 .. MaxBreakpoints |-> NoEntry] /\ size = 0
  /\ last = [active |-> FALSE, at |-> 0]
  /\ lastCommand = "none"
  /\ rip \in Address /\ due = rip /\ tf = FALSE
  /\ bp = 0
  /\ disturbed = FALSE

-----------------------------------------------------------------------------
(* debugger_wait_for_connection.                                           *)

Id == <<"j", "o", "s", "x">>

\* Variant: a character that does not match is passed over.
SkipMismatch(c) == IF c = Id[matched + 1] THEN matched + 1 ELSE matched

\* A character that does not match starts again, but is not itself looked at.
Matched(c) == IF c = Id[matched + 1] THEN matched + 1 ELSE 0

Receive(c) ==
  /\ mode = "waiting"
  /\ matched' = Matched(c)
  /\ recent' = (IF Len(recent) = 4 THEN Tail(recent) ELSE recent) \o <<c>>
  /\ mode' = IF matched' = 4 THEN "run" ELSE "waiting"
  /\ UNCHANGED <<list, last, lastCommand, rip, tf, bp, due, disturbed>>

-----------------------------------------------------------------------------
(* Breakpoints, as operators on the memory and the list.                   *)

Listing == [memory |-> memory, bps |-> breakpoints, size |-> size]

\* _debugger_breakpoint_at: the first with the address, or 0.
BreakpointAt(s, a) ==
  LET here == {i \in 1 .. s.size : s.bps[i].at = a}
  IN IF here = {} THEN 0 ELSE CHOOSE i \in here : \A j \in here : i <= j

\* Entry i becomes b, and byte y is written to its address.
Patched(s, i, b, y) ==
  [memory |-> [s.memory EXCEPT ![b.at] = y], bps |-> [s.bps EXCEPT ![i] = b], size |-> s.size]

\* _DISABLE_BP_IF_ACTIVE.
Disable(s, i) ==
  IF ~s.bps[i].active THEN s
  ELSE Patched(s, i, [s.bps[i] EXCEPT !.active = FALSE], s.bps[i].byte)

\* Variant: a breakpoint that is active is patched again.
EnableAgain(s, i) ==
  Patched(s, i, [s.bps[i] EXCEPT !.byte = s.memory[s.bps[i].at], !.active = TRUE], "int3")

\* _RESTORE_BP_IF_INACTIVE.
Enable(s, i) ==
  IF s.bps[i].active THEN s
  ELSE Patched(s, i, [s.bps[i] EXCEPT !.byte = s.memory[s.bps[i].at], !.active = TRUE], "int3")

\* vector_push_back of a new one.
Added(s, a, active) ==
  Patched([s EXCEPT !.size = @ + 1], s.size + 1,
          [at |-> a, byte |-> s.memory[a], active |-> active, transient |-> FALSE],
          IF active THEN "int3" ELSE s.memory[a])

\* Variant: the list shrinks, but an empty one is not expected.
RemovedShrinking(s, i) == [s EXCEPT !.bps[i] = NoEntry, !.size = @ - 1]

\* _remove_breakpoint: the last takes its place, and also stays where it is.
\* With an empty list the bytes before the vector are copied.
Removed(s, i) == [s EXCEPT !.bps[i] = IF s.size = 0 THEN NoEntry ELSE s.bps[s.size]]

\* _set_breakpoint, also debugger_set_breakpoint.
SetBreakpoint(s, a) ==
  LET i == BreakpointAt(s, a)
  IN IF i = 0 THEN Added(s, a, TRUE)
     ELSE Patched(s, i, [at        |-> a,
                         byte      |-> IF s.memory[a] = "int3" THEN s.bps[i].byte ELSE s.memory[a],
                         active    |-> TRUE,
                         transient |-> FALSE], "int3")

\* One debugger_packet_breakpoint_info_t.
Updated(s, info) ==
  LET i == BreakpointAt(s, info.at)
  IN IF i = 0 THEN Added(s, info.at, info.edc = "enabled")
     ELSE CASE info.edc = "enabled"  -> Enable(s, i)
            [] info.edc = "disabled" -> Disable(s, i)
            [] info.edc = "cleared"  -> Removed(Disable(s, i), i)

\* A packet of n of them, one or two: the first is taken n times.
UpdatedBy(s, n, info) == IF n = 1 THEN Updated(s, info) ELSE Updated(Updated(s, info), info)

\* A packet of none: the bytes are put back one breakpoint after the other, so
\* the last active one at an address decides, and the list is emptied.
AllCleared(s) ==
  LET active(a) == {i \in 1 .. s.size : s.bps[i].active /\ s.bps[i].at = a}
      final(a)  == CHOOSE i \in active(a) : \A j \in active(a) : j <= i
  IN [memory |-> [a \in Address |-> IF active(a) = {} THEN s.memory[a] ELSE s.bps[final(a)].byte],
      bps    |-> [i \in 1 .. MaxBreakpoints |->
                    IF i <= s.size THEN [s.bps[i] EXCEPT !.active = FALSE] ELSE s.bps[i]],
      size   |-> 0]

Becomes(s) == memory' = s.memory /\ breakpoints' = s.bps /\ size' = s.size

-----------------------------------------------------------------------------
(* _debugger_isr_handler up to the loop.                                   *)

\* Variant: the trap flag stays.
KeptFlag == tf

\* The flag after the trap behind a breakpoint.
FlagAfterRestore == FALSE

\* Variant: the instruction that an int 3 hid is not gone back to.
NotBackedUp(r) == r

BackedUp(r) == r - 1

Stop(r, i) ==
  /\ mode' = "stopped" /\ rip' = r /\ bp' = i
  /\ UNCHANGED <<tf, lastCommand, link>>

\* Exceptions 1 and 3, with the instruction pointer r that they leave: put back
\* the int 3 of the breakpoint last passed, and go on unless a trace is on; else
\* find the breakpoint of the byte before r.
BreakOrTrap(id, r) ==
  LET restored == IF last.active THEN [Listing EXCEPT !.memory[last.at] = "int3"] ELSE Listing
      i == BreakpointAt(restored, r - 1)
  IN IF last.active /\ lastCommand # "trace"
       THEN /\ Becomes(restored)
            /\ tf' = FlagAfterRestore /\ last' = [last EXCEPT !.active = FALSE]
            /\ rip' = r
            /\ disturbed' = (id = 3)     \* an int 3 was set at the instruction to go on with
            /\ UNCHANGED <<mode, bp, lastCommand, link>>
       ELSE /\ last' = [last EXCEPT !.active = FALSE]
            /\ IF i # 0 /\ restored.bps[i].active
                 THEN /\ Becomes([restored EXCEPT !.memory[r - 1] = restored.bps[i].byte])
                      /\ Stop(BackedUp(r), i)
                      /\ disturbed' = (id = 1)     \* the instruction was executed
                 ELSE /\ Becomes(restored)
                      /\ Stop(r, i)
                      /\ disturbed' = (id = 3)     \* an int 3 that no breakpoint owns

\* Exceptions 6, 13 and 14 stop at the instruction.
Fault == Stop(rip, 0) /\ UNCHANGED <<list, last, due, disturbed>>

\* The program executes an instruction: its own, or an int 3.
Execute ==
  IF memory[rip] = "int3"
    THEN BreakOrTrap(3, rip + 1) /\ UNCHANGED due
    ELSE /\ due' = Follows[rip]
         /\ IF tf THEN BreakOrTrap(1, Follows[rip])
            ELSE /\ rip' = Follows[rip]
                 /\ UNCHANGED <<mode, list, last, lastCommand, tf, bp, disturbed, link>>

\* debugger_trigger_assert: a loop that no command leaves.
TriggerAssert ==
  /\ mode' = "asserted"
  /\ UNCHANGED <<list, last, lastCommand, rip, tf, bp, due, disturbed, link>>

Run == mode = "run" /\ ~disturbed /\ (Execute \/ Fault \/ TriggerAssert)

-----------------------------------------------------------------------------
(* _debugger_loop, while the program is stopped or after an assertion.     *)

InLoop == mode \in {"stopped", "asserted"} /\ ~disturbed

rest == <<mode, last, rip, tf, bp, due, disturbed, link>>

ClearAll ==
  /\ InLoop
  /\ Becomes(AllCleared(Listing)) /\ lastCommand' = "other"
  /\ UNCHANGED rest

Update(n, info) ==
  /\ InLoop /\ size + 1 < MaxBreakpoints
  /\ Becomes(UpdatedBy(Listing, n, info)) /\ lastCommand' = "other"
  /\ UNCHANGED rest

\* kDebuggerPacket_WriteTargetMemory: the front end writes the program's bytes.
WriteTargetMemory(a) ==
  /\ InLoop
  /\ memory' = [memory EXCEPT ![a] = "own"] /\ lastCommand' = "other"
  /\ UNCHANGED <<breakpoints, size, rest>>

\* The packets that are answered: memory, page tables, CPUID, memory map, MSR,
\* hive; and those that are not known, or not allowed after an assertion.
Query ==
  /\ InLoop
  /\ \/ lastCommand' = "other"
     \/ mode = "asserted" /\ lastCommand' = "trace"
  /\ UNCHANGED <<list, rest>>

\* The handler after the loop: the breakpoint stopped at, if it is still active,
\* is put back after one instruction; a transient one is removed.  The pointer
\* to it dates from before the loop, and a trap finds the breakpoint before rip:
\* it may not be the one the list now has for rip.  After every stop without a
\* breakpoint the code reads _transient through a null pointer; what it finds
\* near address 0, and the entry it then copies there, are outside this state.
Leave(s, flag) ==
  LET b     == s.bps[bp]
      stale == bp # 0 /\ (BreakpointAt(s, rip) # bp \/ s.memory[rip] = "int3")
  IN /\ mode' = "run" /\ bp' = 0
     /\ IF bp # 0 /\ b.active /\ ~b.transient
          THEN /\ last' = [active |-> TRUE, at |-> rip] /\ tf' = TRUE
               /\ Becomes(s) /\ disturbed' = stale
          ELSE /\ last' = [last EXCEPT !.active = FALSE] /\ tf' = flag
               /\ IF bp # 0 /\ b.transient
                    THEN Becomes(Removed(s, bp)) /\ disturbed' = stale
                    ELSE Becomes(s) /\ UNCHANGED disturbed
     /\ UNCHANGED <<rip, due, link>>

Stopped == mode = "stopped" /\ ~disturbed

TraceStep == Stopped /\ lastCommand' = "trace" /\ Leave(Listing, TRUE)

Continue == Stopped /\ lastCommand' = "other" /\ Leave(Listing, FALSE)

\* Over a call: a breakpoint behind it, transient even if there was one.  A call
\* that an int 3 hides is not seen to be one.
SingleStep ==
  /\ Stopped
  /\ IF rip \notin Calls \/ memory[rip] = "int3"
     THEN lastCommand' = "trace" /\ Leave(Listing, TRUE)
     ELSE LET behind == rip + Length[rip]
              s      == SetBreakpoint(Listing, behind)
              i      == BreakpointAt(s, behind)
          IN /\ size < MaxBreakpoints
             /\ lastCommand' = "other"
             /\ Leave([s EXCEPT !.bps[i].transient = TRUE], FALSE)

Info == [at : Settable, edc : {"enabled", "disabled", "cleared"}]

Next ==
  \/ \E c \in {"j", "o", "s", "x", "?"} : Receive(c)
  \/ Run
  \/ ClearAll
  \/ \E n \in 1 .. 2, info \in Info : Update(n, info)
  \/ \E a \in Address : WriteTargetMemory(a)
  \/ Query
  \/ TraceStep
  \/ SingleStep
  \/ Continue

Spec == Init /\ [][Next]_vars

-----------------------------------------------------------------------------
TypeOK ==
  /\ mode \in {"waiting", "run", "stopped", "asserted"}
  /\ matched \in 0 .. 4 /\ Len(recent) <= 4
  /\ memory \in [Address -> {"own", "int3"}]
  /\ breakpoints \in [1 .. MaxBreakpoints -> Entry \cup {NoEntry}]
  /\ size \in 0 .. MaxBreakpoints
  /\ last \in [active : BOOLEAN, at : Address \cup {0}]
  /\ lastCommand \in {"none", "trace", "other"}
  /\ tf \in BOOLEAN /\ disturbed \in BOOLEAN
  /\ bp \in 0 .. MaxBreakpoints
  /\ rip \in Address \cup {a + 1 : a \in Address} /\ due \in Address

\* debugger_wait_for_connection connects only after the four characters of the
\* identification in a row.
ConnectsOnId == mode = "waiting" \/ recent = Id

\* Until one of the mishaps named below, every int 3 in the program belongs to an
\* active breakpoint of the list, with the byte it stands for: clearing all
\* breakpoints restores the program.
BytesRecoverable ==
  ~disturbed =>
    \A a \in Address : memory[a] = "int3" =>
      \E i \in 1 .. size : /\ breakpoints[i].at = a /\ breakpoints[i].active
                           /\ breakpoints[i].byte = "own"

\* The program runs with the trap flag only while a breakpoint waits to be put
\* back or the front end asked for a trace: no stop comes of itself.
TracesOnlyWhenAsked ==
  mode = "run" /\ tf /\ ~disturbed => last.active \/ lastCommand = "trace"

\* The program executes its instructions in its order, each once, whatever
\* breakpoints and steps there are, unless one of the mishaps happens: a trap after
\* a one-byte instruction taken for its breakpoint, an int 3 set again at the
\* breakpoint stopped at, or the pointer to the breakpoint stopped at used after
\* the loop although the list has another for that place by then.
RunsInOrder == mode \in {"run", "stopped"} /\ ~disturbed => rip = due

=============================================================================
