-------------------------------- MODULE Smp ---------------------------------
(***************************************************************************)
(* smp_initialise: the boot processor asks the firmware's multi-processor  *)
(* protocol for the processors, starts each of them on initialise_this_ap  *)
(* and waits for it.  A processor finds its number through gs:0, which is  *)
(* the _id of its entry of _processors.                                    *)
(***************************************************************************)
EXTENDS Integers

CONSTANTS
  MaxProcessors,  \* bound: processors there may be
  Handles         \* handles that fit the buffer

SmpAssumption == MaxProcessors \in Nat \ {0} /\ Handles \in Nat \ {0}

Processor == 0 .. MaxProcessors - 1

VARIABLES
  sm,          \* where smp_initialise is
  handle,      \* handles tried
  bsp,         \* _bsp_id
  count,       \* _num_processors
  processors,  \* _id and _is_good of each entry of _processors
  gs,          \* the entry the GS base of each processor points to, or -1
  ran,         \* history: the processors that have run initialise_this_ap
  at,          \* p, the processor the loop is at
  stray        \* history: the per-CPU memory is wherever chance has put it

vars == <<sm, handle, bsp, count, processors, gs, ran, at, stray>>

Init ==
  /\ sm = "off" /\ handle = 0 /\ bsp = 0 /\ count = 0
  /\ processors = [p \in Processor |-> [id |-> 0, good |-> FALSE]]
  /\ gs = [p \in Processor |-> -1] /\ ran = {}
  /\ at = 0 /\ stray = FALSE

-----------------------------------------------------------------------------
\* initialise_this_ap on processor p, given entry e.
initialise_this_ap(p, e) ==
  /\ gs' = [gs EXCEPT ![p] = e]
  /\ ran' = ran \cup {p}

Locate ==
  /\ sm = "off" /\ sm' = "handles"
  /\ UNCHANGED <<handle, bsp, count, processors, gs, ran, at, stray>>

\* No such protocol.  The uninitialised block is used as an allocator before it
\* is one, so _processors is whatever comes out of that.
UniProcessor ==
  /\ sm = "off" /\ sm' = "up"
  /\ processors' = [processors EXCEPT ![0] = [id |-> 0, good |-> TRUE]]
  /\ initialise_this_ap(0, 0)
  /\ count' = 1 /\ stray' = TRUE
  /\ UNCHANGED <<handle, bsp, at>>

\* The handles are tried in turn; when none will do smp_initialise succeeds
\* with nothing done.
HandleProtocol ==
  /\ sm = "handles"
  /\ \/ sm' = "who" /\ UNCHANGED handle
     \/ handle' = handle + 1 /\ sm' = IF handle' = Handles THEN "up" ELSE "handles"
  /\ UNCHANGED <<bsp, count, processors, gs, ran, at, stray>>

WhoAmI ==
  /\ sm = "who"
  /\ \/ bsp' \in Processor /\ sm' = "number"
     \/ sm' = "failed" /\ UNCHANGED bsp
  /\ UNCHANGED <<handle, count, processors, gs, ran, at, stray>>

\* The number of processors, the memory for them and the boot processor itself.
NumberOfProcessors ==
  /\ sm = "number"
  /\ \/ /\ count' \in bsp + 1 .. MaxProcessors
        /\ processors' = [processors EXCEPT ![bsp] = [id |-> bsp, good |-> TRUE]]
        /\ initialise_this_ap(bsp, bsp)
        /\ sm' = "starting"
     \/ sm' = "failed" /\ UNCHANGED <<count, processors, gs, ran>>
  /\ UNCHANGED <<handle, bsp, at, stray>>

\* Variant: the loop does not leave out the boot processor.
EveryProcessor(p) == TRUE
IsAp(p) == p # bsp

\* What becomes of the entry of processor p.  The firmware refuses to start a
\* disabled processor, or the one that asks.
Entry(p, info, started) ==
  [id   |-> p,
   good |-> IF IsAp(p) /\ info THEN started ELSE processors[p].good]

StartAp ==
  /\ sm = "starting" /\ at < count
  /\ \E info, started \in BOOLEAN :
       /\ at = bsp => ~started
       /\ processors' = [processors EXCEPT ![at] = Entry(at, info, started)]
       /\ IF IsAp(at) /\ info /\ started THEN initialise_this_ap(at, at)
                                         ELSE UNCHANGED <<gs, ran>>
  /\ at' = at + 1
  /\ sm' = IF at' = count THEN "up" ELSE "starting"
  /\ UNCHANGED <<handle, bsp, count, stray>>

smp_initialise ==
  Locate \/ UniProcessor \/ HandleProtocol \/ WhoAmI \/ NumberOfProcessors \/ StartAp

Next == smp_initialise

Spec == Init /\ [][Next]_vars

-----------------------------------------------------------------------------
TypeOK ==
  /\ sm \in {"off", "handles", "who", "number", "starting", "up", "failed"}
  /\ handle \in 0 .. Handles /\ at \in 0 .. MaxProcessors
  /\ bsp \in Processor /\ count \in 0 .. MaxProcessors
  /\ processors \in [Processor -> [id : Processor, good : BOOLEAN]]
  /\ gs \in [Processor -> Processor \cup {-1}] /\ ran \subseteq Processor
  /\ stray \in BOOLEAN

\* per_cpu_this_cpu_id on processor p.
this_cpu_id(p) == processors[gs[p]].id

\* Once the kernel relies on per-CPU data, a processor that runs kernel code
\* finds itself: its number is its own, inside the arrays, the entry is called
\* good, and no other entry is, whichever start-ups the firmware refused.
PerCpuRight ==
  sm = "up" =>
    \A p \in Processor :
      /\ p \in ran => this_cpu_id(p) = p /\ this_cpu_id(p) < count
      /\ processors[p].good <=> p \in ran

=============================================================================
