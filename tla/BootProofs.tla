----------------------------- MODULE BootProofs ------------------------------
(***************************************************************************)
(* Proofs about Boot, for every map the firmware may start with, whatever  *)
(* it makes of it, for any number of processors, handles and measurements. *)
(* Each component's invariant is inductive for the component's own steps;  *)
(* every step of the boot is one of them or leaves it alone.  The page     *)
(* tables, which the boot only checks, come last, on their own.            *)
(***************************************************************************)
EXTENDS Boot, PageTables, DataFacts

-----------------------------------------------------------------------------
(* The clock.                                                              *)

\* Between the selection of register B and the write to it interrupts are off,
\* so no handler selects register C; and the timer is on from the write on.
IndexInv ==
  /\ ck \in {"select", "write", "sti"} => iflag = FALSE
  /\ ck = "write" => index = "B"

ClockInv == Time!TypeOK /\ IndexInv /\ Time!RtcWritesLand

LEMMA ClockInit == Time!ClockAssumption /\ Time!Init => ClockInv
<1> SUFFICES ASSUME Time!ClockAssumption, Time!Init PROVE ClockInv
  OBVIOUS
<1>1. measured \in 0 .. Tries /\ waited \in 0 .. 15
  BY DEF Time!ClockAssumption, Time!Init
<1> QED BY <1>1 DEF Time!Init, ClockInv, Time!TypeOK, IndexInv, Time!RtcWritesLand

\* A tick is five milliseconds, whatever the divisor is cut to.
LEMMA TickLength == Time!MsPerTick = 5
<1>1. Time!Divisor = 5966
  BY DEF Time!Divisor, Time!HZ, Time!CLOCK_FREQ
<1> QED BY <1>1 DEF Time!MsPerTick, Time!CLOCK_FREQ

LEMMA ClockNext ==
  ASSUME Time!ClockAssumption, ClockInv, [Time!Next]_clockVars
  PROVE  ClockInv'
<1> USE DEF ClockInv, Time!TypeOK, IndexInv, Time!RtcWritesLand, Time!rtc
<1>1. CASE Time!Measure \/ Time!i8253_start_clock
  <2>1. Tries \in Nat /\ measured \in 0 .. Tries
    BY DEF Time!ClockAssumption
  <2>2. measured' \in 0 .. Tries
    BY <1>1, <2>1 DEF Time!Measure, Time!i8253_start_clock
  <2> QED BY <1>1, <2>2 DEF Time!Measure, Time!i8253_start_clock
<1>2. CASE Time!set_irq_handler("pit", 0, "irq0") \/ Time!set_irq_handler("irq0", 8, "rtc")
  BY <1>2 DEF Time!set_irq_handler
<1>3. CASE Time!SelectAndRead
  BY <1>3 DEF Time!SelectAndRead, Time!cli
<1>4. CASE Time!SelectAgain
  BY <1>4 DEF Time!SelectAgain
<1>5. CASE Time!WriteSelected
  BY <1>5 DEF Time!WriteSelected
<1>6. CASE Time!EnableInterrupts \/ Time!Waited
  <2>1. waited' \in 0 .. 15
    BY <1>6 DEF Time!EnableInterrupts, Time!Waited
  <2> QED BY <1>6, <2>1 DEF Time!EnableInterrupts, Time!Waited, Time!sti
<1>7. CASE Time!Irq0
  <2>1. waited' = IF waited > 10 THEN waited ELSE waited + 5
    BY <1>7, TickLength DEF Time!Irq0
  <2>2. waited' \in 0 .. 15
    BY <2>1
  <2> QED BY <1>7, <2>2 DEF Time!Irq0
<1>8. CASE Time!Irq8
  BY <1>8 DEF Time!Irq8
<1>9. CASE UNCHANGED clockVars
  BY <1>9 DEF clockVars
<1> QED
  BY <1>1, <1>2, <1>3, <1>4, <1>5, <1>6, <1>7, <1>8, <1>9 DEF Time!Next, Time!clock_initialise

-----------------------------------------------------------------------------
(* The processors.                                                         *)

\* Nothing has run before the boot processor has entered itself.
EarlyInv ==
  /\ sm \in {"off", "handles", "who", "number"} => ran = {} /\ at = 0
  /\ sm = "off" => handle = 0
  /\ sm = "handles" => handle < Handles
  /\ sm = "starting" => at < count /\ bsp < count

\* A processor that has run initialise_this_ap has found its own entry, and only
\* its entry is called good; of those after the loop's position, it is the boot
\* processor alone.
EntriesInv ==
  \A p \in Cpus!Processor :
    /\ p \in ran => gs[p] = p /\ processors[p].id = p /\ p < count
    /\ processors[p].good <=> p \in ran
    /\ sm = "starting" /\ p >= at /\ p \in ran => p = bsp

SmpInv == Cpus!TypeOK /\ EarlyInv /\ EntriesInv

LEMMA SmpInit == Cpus!SmpAssumption /\ Cpus!Init => SmpInv
<1> SUFFICES ASSUME Cpus!SmpAssumption, Cpus!Init PROVE SmpInv
  OBVIOUS
<1>1. 0 \in Cpus!Processor /\ MaxProcessors \in Nat /\ Handles \in Nat /\ Handles > 0
  BY DEF Cpus!SmpAssumption, Cpus!Processor
<1>2. Cpus!TypeOK
  <2>1. processors \in [Cpus!Processor -> [id : Cpus!Processor, good : BOOLEAN]]
    <3>1. [id |-> 0, good |-> FALSE] \in [id : Cpus!Processor, good : BOOLEAN]
      BY <1>1
    <3> QED BY <3>1 DEF Cpus!Init
  <2>2. gs \in [Cpus!Processor -> Cpus!Processor \cup {-1}] /\ ran \subseteq Cpus!Processor
    BY <1>1 DEF Cpus!Init
  <2>3. stray \in BOOLEAN
    BY DEF Cpus!Init
  <2> QED BY <1>1, <2>1, <2>2, <2>3 DEF Cpus!Init, Cpus!TypeOK
<1> QED BY <1>1, <1>2 DEF Cpus!Init, SmpInv, EarlyInv, EntriesInv

\* An action of the enumeration before the boot processor has entered itself.
LEMMA EarlyKeepsSmpInv ==
  ASSUME Cpus!SmpAssumption, SmpInv, Cpus!Locate \/ Cpus!HandleProtocol \/ Cpus!WhoAmI
  PROVE  SmpInv'
<1>1. /\ UNCHANGED <<count, processors, gs, ran, at, stray>> /\ ran = {} /\ at = 0
      /\ sm' \in {"handles", "who", "number", "up", "failed"}
  BY DEF Cpus!Locate, Cpus!HandleProtocol, Cpus!WhoAmI, SmpInv, EarlyInv
<1>2. handle' \in 0 .. Handles /\ bsp' \in Cpus!Processor /\ (sm' = "handles" => handle' < Handles)
  <2>1. handle \in 0 .. Handles /\ bsp \in Cpus!Processor /\ Handles \in Nat \ {0}
    BY DEF SmpInv, Cpus!TypeOK, Cpus!SmpAssumption
  <2>2. CASE Cpus!Locate
    <3>1. handle = 0
      BY <2>2 DEF Cpus!Locate, SmpInv, EarlyInv
    <3> QED BY <2>1, <2>2, <3>1 DEF Cpus!Locate
  <2>3. CASE Cpus!HandleProtocol
    <3>1. handle < Handles /\ bsp' = bsp
      BY <2>3 DEF Cpus!HandleProtocol, SmpInv, EarlyInv
    <3> QED BY <2>1, <2>3, <3>1 DEF Cpus!HandleProtocol
  <2>4. CASE Cpus!WhoAmI
    BY <2>1, <2>4 DEF Cpus!WhoAmI
  <2> QED BY <2>2, <2>3, <2>4
<1>3. Cpus!TypeOK'
  BY <1>1, <1>2 DEF SmpInv, Cpus!TypeOK
<1>4. EarlyInv'
  BY <1>1, <1>2 DEF EarlyInv
<1>5. EntriesInv'
  BY <1>1 DEF SmpInv, EntriesInv
<1> QED BY <1>3, <1>4, <1>5 DEF SmpInv

\* The first processor: entry e is that of processor e, and the only good one.
LEMMA FirstKeepsSmpInv ==
  ASSUME Cpus!SmpAssumption, SmpInv, ran = {}, NEW e \in Cpus!Processor,
         processors' = [processors EXCEPT ![e] = [id |-> e, good |-> TRUE]],
         Cpus!initialise_this_ap(e, e), count' \in Nat, e < count'
  PROVE  /\ processors' \in [Cpus!Processor -> [id : Cpus!Processor, good : BOOLEAN]]
         /\ gs' \in [Cpus!Processor -> Cpus!Processor \cup {-1}]
         /\ ran' = {e}
         /\ \A p \in Cpus!Processor :
              /\ p \in ran' => gs'[p] = p /\ processors'[p].id = p /\ p < count'
              /\ processors'[p].good <=> p \in ran'
<1>1. gs' = [gs EXCEPT ![e] = e] /\ ran' = {e}
  BY DEF Cpus!initialise_this_ap
<1>2. /\ processors \in [Cpus!Processor -> [id : Cpus!Processor, good : BOOLEAN]]
      /\ gs \in [Cpus!Processor -> Cpus!Processor \cup {-1}]
  BY DEF SmpInv, Cpus!TypeOK
<1>3. [id |-> e, good |-> TRUE] \in [id : Cpus!Processor, good : BOOLEAN]
  OBVIOUS
<1>4. ASSUME NEW p \in Cpus!Processor
      PROVE  /\ p \in ran' => gs'[p] = p /\ processors'[p].id = p /\ p < count'
             /\ processors'[p].good <=> p \in ran'
  <2>1. CASE p = e
    BY <2>1, <1>1, <1>2
  <2>2. CASE p # e
    BY <2>2, <1>1, <1>2 DEF SmpInv, EntriesInv
  <2> QED BY <2>1, <2>2
<1> QED BY <1>1, <1>2, <1>3, <1>4

LEMMA UniKeepsSmpInv ==
  ASSUME Cpus!SmpAssumption, SmpInv, Cpus!UniProcessor
  PROVE  SmpInv'
<1>1. /\ ran = {} /\ sm' = "up" /\ count' = 1 /\ stray' = TRUE
      /\ UNCHANGED <<handle, bsp, at>>
  BY DEF Cpus!UniProcessor, SmpInv, EarlyInv
<1>2. 0 \in Cpus!Processor /\ 1 \in 0 .. MaxProcessors /\ 0 < 1 /\ 1 \in Nat
  BY DEF Cpus!SmpAssumption, Cpus!Processor
<1>3. /\ processors' \in [Cpus!Processor -> [id : Cpus!Processor, good : BOOLEAN]]
      /\ gs' \in [Cpus!Processor -> Cpus!Processor \cup {-1}] /\ ran' = {0}
      /\ \A p \in Cpus!Processor :
           /\ p \in ran' => gs'[p] = p /\ processors'[p].id = p /\ p < count'
           /\ processors'[p].good <=> p \in ran'
  BY <1>1, <1>2, FirstKeepsSmpInv DEF Cpus!UniProcessor
<1>4. stray' \in BOOLEAN
  BY <1>1
<1>5. Cpus!TypeOK'
  BY <1>1, <1>2, <1>3, <1>4 DEF SmpInv, Cpus!TypeOK
<1> QED BY <1>1, <1>3, <1>5 DEF SmpInv, EarlyInv, EntriesInv

LEMMA NumberKeepsSmpInv ==
  ASSUME Cpus!SmpAssumption, SmpInv, Cpus!NumberOfProcessors
  PROVE  SmpInv'
<1>1. ran = {} /\ UNCHANGED <<handle, bsp, at, stray>> /\ bsp \in Cpus!Processor
  BY DEF Cpus!NumberOfProcessors, SmpInv, EarlyInv, Cpus!TypeOK
<1>2. CASE sm' = "failed" /\ UNCHANGED <<count, processors, gs, ran>>
  BY <1>1, <1>2 DEF SmpInv, Cpus!TypeOK, EarlyInv, EntriesInv
<1>3. CASE /\ count' \in bsp + 1 .. MaxProcessors
           /\ processors' = [processors EXCEPT ![bsp] = [id |-> bsp, good |-> TRUE]]
           /\ Cpus!initialise_this_ap(bsp, bsp)
           /\ sm' = "starting"
  <2>1. count' \in Nat /\ count' \in 0 .. MaxProcessors /\ bsp < count'
    BY <1>1, <1>3 DEF Cpus!Processor, Cpus!SmpAssumption
  <2>2. /\ processors' \in [Cpus!Processor -> [id : Cpus!Processor, good : BOOLEAN]]
        /\ gs' \in [Cpus!Processor -> Cpus!Processor \cup {-1}] /\ ran' = {bsp}
        /\ \A p \in Cpus!Processor :
             /\ p \in ran' => gs'[p] = p /\ processors'[p].id = p /\ p < count'
             /\ processors'[p].good <=> p \in ran'
    BY <1>1, <1>3, <2>1, FirstKeepsSmpInv
  <2>3. Cpus!TypeOK'
    BY <1>1, <1>3, <2>1, <2>2 DEF SmpInv, Cpus!TypeOK
  <2>4. EntriesInv'
    BY <1>1, <2>2 DEF EntriesInv
  <2>5. at' < count'
    <3>1. at' = 0
      BY <1>1 DEF Cpus!NumberOfProcessors, SmpInv, EarlyInv
    <3> QED BY <1>1, <2>1, <3>1 DEF Cpus!Processor
  <2> QED BY <1>1, <1>3, <2>1, <2>3, <2>4, <2>5 DEF SmpInv, EarlyInv
<1> QED BY <1>2, <1>3 DEF Cpus!NumberOfProcessors

\* One turn of the loop: the entry is good if the processor was started, and that
\* of the boot processor keeps what it was.
LEMMA StartApKeepsSmpInv ==
  ASSUME Cpus!SmpAssumption, SmpInv, Cpus!StartAp
  PROVE  SmpInv'
<1>1. PICK info \in BOOLEAN, started \in BOOLEAN :
        /\ at = bsp => ~started
        /\ processors' = [processors EXCEPT ![at] = Cpus!Entry(at, info, started)]
        /\ IF Cpus!IsAp(at) /\ info /\ started THEN Cpus!initialise_this_ap(at, at)
                                          ELSE UNCHANGED <<gs, ran>>
  BY DEF Cpus!StartAp
<1>2. /\ sm = "starting" /\ at < count /\ at' = at + 1 /\ bsp < count
      /\ sm' = IF at + 1 = count THEN "up" ELSE "starting"
      /\ UNCHANGED <<handle, bsp, count, stray>>
  BY DEF Cpus!StartAp, SmpInv, EarlyInv
<1>3. /\ at \in Nat /\ count \in Nat /\ count <= MaxProcessors /\ MaxProcessors \in Nat
      /\ at \in Cpus!Processor /\ at + 1 \in 0 .. MaxProcessors
  BY <1>2 DEF SmpInv, Cpus!TypeOK, Cpus!SmpAssumption, Cpus!Processor
<1>4. /\ processors \in [Cpus!Processor -> [id : Cpus!Processor, good : BOOLEAN]]
      /\ gs \in [Cpus!Processor -> Cpus!Processor \cup {-1}] /\ ran \subseteq Cpus!Processor
  BY DEF SmpInv, Cpus!TypeOK
<1> DEFINE starts == Cpus!IsAp(at) /\ info /\ started
           e      == Cpus!Entry(at, info, started)
<1>5. \/ starts /\ gs' = [gs EXCEPT ![at] = at] /\ ran' = ran \cup {at}
      \/ ~starts /\ gs' = gs /\ ran' = ran
  BY <1>1 DEF Cpus!initialise_this_ap
<1>6. e.id = at /\ e \in [id : Cpus!Processor, good : BOOLEAN]
  BY <1>3, <1>4 DEF Cpus!Entry
<1>7. e.good <=> at \in ran'
  <2>1. at \in ran => at = bsp
    BY <1>2, <1>3 DEF SmpInv, EntriesInv
  <2>2. processors[at].good <=> at \in ran
    BY <1>3 DEF SmpInv, EntriesInv
  <2>3. CASE starts
    BY <2>3, <1>5 DEF Cpus!Entry
  <2>4. CASE ~starts
    BY <2>1, <2>2, <2>4, <1>5 DEF Cpus!Entry, Cpus!IsAp
  <2> QED BY <2>3, <2>4
<1>8. Cpus!TypeOK'
  <2>1. processors' \in [Cpus!Processor -> [id : Cpus!Processor, good : BOOLEAN]]
    BY <1>1, <1>4, <1>6
  <2>2. gs' \in [Cpus!Processor -> Cpus!Processor \cup {-1}] /\ ran' \subseteq Cpus!Processor
    BY <1>3, <1>4, <1>5
  <2> QED BY <1>2, <1>3, <2>1, <2>2 DEF SmpInv, Cpus!TypeOK
<1>9. EarlyInv'
  BY <1>2, <1>3 DEF EarlyInv, SmpInv, Cpus!TypeOK
<1>10. ASSUME NEW p \in Cpus!Processor
       PROVE  /\ p \in ran' => gs'[p] = p /\ processors'[p].id = p /\ p < count'
              /\ processors'[p].good <=> p \in ran'
              /\ sm' = "starting" /\ p >= at' /\ p \in ran' => p = bsp'
  <2>1. CASE p = at
    <3>1. processors'[p] = e
      BY <2>1, <1>1, <1>3, <1>4
    <3>2. p \in ran' => gs'[p] = p
      BY <2>1, <1>3, <1>4, <1>5 DEF SmpInv, EntriesInv
    <3>3. ~(p >= at')
      BY <2>1, <1>2, <1>3
    <3> QED BY <2>1, <3>1, <3>2, <3>3, <1>2, <1>6, <1>7
  <2>2. CASE p # at
    <3>1. processors'[p] = processors[p] /\ gs'[p] = gs[p] /\ (p \in ran' <=> p \in ran)
      BY <2>2, <1>1, <1>4, <1>5
    <3>2. p >= at' => p >= at
      BY <1>2, <1>3 DEF Cpus!Processor
    <3> QED BY <3>1, <3>2, <1>2 DEF SmpInv, EntriesInv
  <2> QED BY <2>1, <2>2
<1> QED BY <1>8, <1>9, <1>10 DEF SmpInv, EntriesInv

LEMMA SmpNext ==
  ASSUME Cpus!SmpAssumption, SmpInv, [Cpus!Next]_smpVars
  PROVE  SmpInv'
<1>1. CASE UNCHANGED smpVars
  BY <1>1 DEF smpVars, SmpInv, Cpus!TypeOK, EarlyInv, EntriesInv
<1> QED BY <1>1, EarlyKeepsSmpInv, UniKeepsSmpInv, NumberKeepsSmpInv, StartApKeepsSmpInv
        DEF Cpus!Next, Cpus!smp_initialise

-----------------------------------------------------------------------------
(* The memory map: what the loop over it builds.                           *)

\* A region of a descriptor's, and one that has grown by it.
LEMMA RegionTyped ==
  ASSUME NEW d \in Memory!Descriptor, NEW r \in Memory!MemoryRegion,
         NEW type \in Memory!BootServices \cup {"RAM", "loader", "reserved"}
  PROVE  /\ Memory!Region(d, type) \in Memory!MemoryRegion
         /\ Memory!Grown(r, d) \in Memory!MemoryRegion
<1>1. d.at \in Nat /\ d.pages \in Nat /\ d.pages \in Int
  BY DEF Memory!Descriptor
<1>2. Memory!Region(d, type) \in Memory!MemoryRegion
  BY <1>1 DEF Memory!Region, Memory!MemoryRegion
<1>3. Memory!Grown(r, d) \in Memory!MemoryRegion
  <2> DEFINE pages == r.pages + d.pages - (Memory!End(r) - d.at)
  <2>1. r.at \in Nat /\ r.pages \in Int
    BY DEF Memory!MemoryRegion
  <2>2. pages \in Int
    BY <1>1, <2>1 DEF Memory!End
  <2>3. Memory!Grown(r, d) = [r EXCEPT !.pages = pages]
    BY DEF Memory!Grown
  <2> HIDE DEF pages
  <2> QED BY <2>2, <2>3 DEF Memory!MemoryRegion
<1> QED BY <1>2, <1>3

LEMMA AddTyped ==
  ASSUME NEW d \in Memory!Descriptor, NEW rs \in Seq(Memory!MemoryRegion),
         NEW first, NEW s, NEW exit
  PROVE  Memory!_add_memory_region(rs, d, first, s, exit) \in Seq(Memory!MemoryRegion)
<1>1. \A type \in Memory!BootServices \cup {"RAM", "loader", "reserved"} :
        Memory!Region(d, type) \in Memory!MemoryRegion
  <2>1. PICK r : r \in Memory!MemoryRegion
    <3>1. [at |-> 0, pages |-> 0, type |-> "RAM"] \in Memory!MemoryRegion
      BY DEF Memory!MemoryRegion
    <3> QED BY <3>1
  <2> QED BY <2>1, RegionTyped
<1>2. \A type \in Memory!BootServices \cup {"RAM", "loader", "reserved"} :
        Append(rs, Memory!Region(d, type)) \in Seq(Memory!MemoryRegion)
  BY <1>1
<1>3. Memory!WithUsable(rs, d, first, s) \in Seq(Memory!MemoryRegion)
  <2>1. CASE rs = <<>>
    <3>1. <<Memory!Region(d, "RAM")>> \in Seq(Memory!MemoryRegion)
      BY <1>1
    <3> QED BY <2>1, <3>1 DEF Memory!WithUsable
  <2>2. CASE rs # <<>>
    <3>1. Len(rs) \in 1 .. Len(rs)
      <4>1. PICK n \in Nat : n = Len(rs)
        OBVIOUS
      <4> QED BY <2>2, <4>1
    <3>2. rs[Len(rs)] \in Memory!MemoryRegion
      BY <3>1
    <3>3. Memory!Grown(rs[Len(rs)], d) \in Memory!MemoryRegion
      BY <3>2, RegionTyped
    <3>4. [rs EXCEPT ![Len(rs)] = Memory!Grown(rs[Len(rs)], d)] \in Seq(Memory!MemoryRegion)
      BY <3>1, <3>3, Replaced
    <3> QED BY <2>2, <3>4, <1>2 DEF Memory!WithUsable, Memory!Last
  <2> QED BY <2>1, <2>2
<1>4. CASE d.kind \in Memory!BootServices
  <2>1. exit \/ ~exit
    OBVIOUS
  <2> QED BY <1>2, <1>3, <1>4, <2>1 DEF Memory!_add_memory_region, Memory!BootServices
<1>5. CASE d.kind \in {"conventional", "uncached"}
  BY <1>2, <1>3, <1>5 DEF Memory!_add_memory_region, Memory!BootServices
<1>6. CASE d.kind \in {"loader", "reserved"}
  BY <1>2, <1>6 DEF Memory!_add_memory_region, Memory!BootServices
<1>7. CASE d.kind = "runtime"
  BY <1>7 DEF Memory!_add_memory_region, Memory!BootServices
<1> QED BY <1>4, <1>5, <1>6, <1>7 DEF Memory!Descriptor, Memory!Kinds

\* One turn of the loop, at descriptor n.
Turn(rs, map, n, s, exit) ==
  IF n \in Memory!BeforeEmpty(map)
  THEN Memory!_add_memory_region(rs, map[n], n = 1, s, exit)
  ELSE rs

LEMMA TurnTyped ==
  ASSUME NEW map \in Seq(Memory!Descriptor), NEW n \in 1 .. Len(map),
         NEW rs \in Seq(Memory!MemoryRegion), NEW s, NEW exit
  PROVE  Turn(rs, map, n, s, exit) \in Seq(Memory!MemoryRegion)
<1>1. map[n] \in Memory!Descriptor
  OBVIOUS
<1> QED BY <1>1, AddTyped DEF Turn

\* The loop: the regions after each of its turns, and the last of them.
LEMMA LoopRuns ==
  ASSUME NEW map \in Seq(Memory!Descriptor), NEW s, NEW exit
  PROVE  \E f \in [0 .. Len(map) -> Seq(Memory!MemoryRegion)] :
           /\ f[0] = <<>>
           /\ \A n \in 1 .. Len(map) : f[n] = Turn(f[n - 1], map, n, s, exit)
           /\ Memory!_build_memory_map(map, s, exit) = f[Len(map)]
<1> DEFINE Regions == Seq(Memory!MemoryRegion)
           turn == [n \in 1 .. Len(map) |-> [rs \in Regions |-> Turn(rs, map, n, s, exit)]]
           upTo[n \in 0 .. Len(map)] ==
             IF n \in Memory!BeforeEmpty(map)
             THEN Memory!_add_memory_region(upTo[n - 1], map[n], n = 1, s, exit)
             ELSE IF n = 0 THEN <<>> ELSE upTo[n - 1]
<1>1. Len(map) \in Nat /\ <<>> \in Regions /\ DOMAIN map = 1 .. Len(map)
  OBVIOUS
<1>2. turn \in [1 .. Len(map) -> [Regions -> Regions]]
  BY TurnTyped
<1>3. PICK f \in [0 .. Len(map) -> Regions] :
        f[0] = <<>> /\ \A n \in 1 .. Len(map) : f[n] = turn[n][f[n - 1]]
  <2> DEFINE m     == Len(map)
             empty == <<>>
  <2>1. m \in Nat /\ empty \in Regions /\ turn \in [1 .. m -> [Regions -> Regions]]
    BY <1>1, <1>2
  <2> HIDE DEF turn, Regions, m, empty, upTo
  <2>2. \E f : Recurs(f, m, Regions, empty, turn)
    BY <2>1, Recursion
  <2> QED BY <2>2 DEF m, empty, Recurs
<1>4. ASSUME NEW n \in 1 .. Len(map) PROVE f[n] = Turn(f[n - 1], map, n, s, exit)
  <2>1. f[n - 1] \in Regions
    <3>1. n - 1 \in 0 .. Len(map)
      BY <1>1
    <3> QED BY <3>1, <1>3
  <2> QED BY <2>1, <1>3
<1>5. f = [n \in 0 .. Len(map) |->
             IF n \in Memory!BeforeEmpty(map)
             THEN Memory!_add_memory_region(f[n - 1], map[n], n = 1, s, exit)
             ELSE IF n = 0 THEN <<>> ELSE f[n - 1]]
  <2>1. ASSUME NEW n \in 0 .. Len(map)
        PROVE  f[n] = IF n \in Memory!BeforeEmpty(map)
                      THEN Memory!_add_memory_region(f[n - 1], map[n], n = 1, s, exit)
                      ELSE IF n = 0 THEN <<>> ELSE f[n - 1]
    <3>1. CASE n = 0
      <4>1. n \notin Memory!BeforeEmpty(map)
        BY <1>1, <3>1 DEF Memory!BeforeEmpty
      <4> QED BY <3>1, <4>1, <1>3
    <3>2. CASE n # 0
      <4>1. n \in 1 .. Len(map)
        BY <1>1, <3>2
      <4> QED BY <3>2, <4>1, <1>4 DEF Turn
    <3> QED BY <3>1, <3>2
  <2> QED BY <2>1, <1>3
<1>6. upTo = [n \in 0 .. Len(map) |->
                IF n \in Memory!BeforeEmpty(map)
                THEN Memory!_add_memory_region(upTo[n - 1], map[n], n = 1, s, exit)
                ELSE IF n = 0 THEN <<>> ELSE upTo[n - 1]]
  BY <1>5
<1>7. Memory!_build_memory_map(map, s, exit) = upTo[Len(map)]
  BY DEF Memory!_build_memory_map
<1> HIDE DEF upTo
<1>8. \A n \in 0 .. Len(map) : n # 0 => n - 1 \in 0 .. Len(map)
  BY <1>1
<1>9. upTo[0] = <<>>
  <2>1. 0 \notin Memory!BeforeEmpty(map)
    BY <1>1 DEF Memory!BeforeEmpty
  <2>2. 0 \in 0 .. Len(map)
    BY <1>1
  <2> QED BY <2>1, <2>2, <1>6
<1>10. ASSUME NEW n \in 1 .. Len(map) PROVE upTo[n] = Turn(upTo[n - 1], map, n, s, exit)
  <2>1. n \in 0 .. Len(map) /\ n # 0
    BY <1>1
  <2> QED BY <2>1, <1>6 DEF Turn
<1>11. ASSUME NEW n \in 0 .. Len(map) PROVE upTo[n] \in Regions
  <2> DEFINE P == {k \in Nat : k <= Len(map) => upTo[k] \in Regions}
  <2>1. 0 \in P
    BY <1>1, <1>9
  <2>2. ASSUME NEW k \in 0 .. Len(map) - 1, k \in P PROVE k + 1 \in P
    <3>1. k + 1 \in 1 .. Len(map) /\ k <= Len(map) /\ k + 1 - 1 = k /\ k + 1 \in Nat
      BY <1>1
    <3>2. upTo[k] \in Regions
      BY <2>2, <3>1
    <3>3. upTo[k + 1] = Turn(upTo[k], map, k + 1, s, exit)
      BY <3>1, <1>10
    <3> QED BY <3>1, <3>2, <3>3, TurnTyped
  <2>3. 0 .. Len(map) \subseteq P
    <3> HIDE DEF P
    <3> QED BY <1>1, <2>1, <2>2, InductionUpTo
  <2>4. n \in Nat /\ n <= Len(map)
    BY <1>1
  <2> QED BY <2>3, <2>4
<1>12. upTo \in [0 .. Len(map) -> Regions]
  BY <1>6, <1>11
<1> QED BY <1>7, <1>9, <1>10, <1>12

\* What the loop keeps of an ordered map: after n turns the regions lie one after
\* the other, before every descriptor still to come, and RAM is usable memory.
Laid(map, n, rs) ==
  /\ \A i, j \in 1 .. Len(rs) : i < j => Memory!End(rs[i]) <= rs[j].at
  /\ \A i \in 1 .. Len(rs) : \A k \in n + 1 .. Len(map) : Memory!End(rs[i]) <= map[k].at
  /\ \A i \in 1 .. Len(rs) : rs[i].type = "RAM" => Memory!Span(rs[i]) \subseteq Memory!Usable(map)

\* A region for descriptor n after those there are.
LEMMA AppendedIsLaid ==
  ASSUME NEW map \in Seq(Memory!Descriptor), Memory!Ordered(map), NEW n \in 1 .. Len(map),
         NEW rs \in Seq(Memory!MemoryRegion), Laid(map, n - 1, rs),
         NEW type \in Memory!BootServices \cup {"RAM", "loader", "reserved"},
         type = "RAM" => map[n].kind \in Memory!BootServices \cup {"conventional"}
  PROVE  Laid(map, n, Append(rs, Memory!Region(map[n], type)))
<1> DEFINE d == map[n]
           r == Memory!Region(d, type)
           t == Append(rs, r)
<1>1. PICK m \in Nat : m = Len(map)
  OBVIOUS
<1>2. PICK l \in Nat : l = Len(rs)
  OBVIOUS
<1>3. \A k \in 1 .. m : map[k].at \in Nat /\ map[k].pages \in Nat
  <2>1. \A k \in 1 .. m : map[k] \in Memory!Descriptor
    BY <1>1
  <2> QED BY <2>1 DEF Memory!Descriptor
<1>4. \A i \in 1 .. l : rs[i].at \in Nat /\ rs[i].pages \in Int
  <2>1. \A i \in 1 .. l : rs[i] \in Memory!MemoryRegion
    BY <1>2
  <2> QED BY <2>1 DEF Memory!MemoryRegion
<1>5. r.at = d.at /\ Memory!End(r) = Memory!End(d) /\ r.type = type /\ Memory!Span(r) = Memory!Span(d)
  BY DEF Memory!Region, Memory!End, Memory!Span
<1>6. Len(t) = l + 1 /\ (\A i \in 1 .. l : t[i] = rs[i]) /\ t[l + 1] = r
  <2>1. r \in Memory!MemoryRegion
    BY <1>1, <1>3 DEF Memory!Region, Memory!MemoryRegion
  <2> HIDE DEF r
  <2> QED BY <2>1, <1>2, Appended
<1> HIDE DEF t, r
<1>7. n \in 1 .. m /\ \A k \in n + 1 .. m : Memory!End(d) <= map[k].at
  <2>1. n \in 1 .. m /\ \A k \in n + 1 .. m : k \in 1 .. m /\ n < k
    BY <1>1
  <2>2. DOMAIN map = 1 .. m
    BY <1>1
  <2> QED BY <2>1, <2>2 DEF Memory!Ordered
<1>8. \A i, j \in 1 .. l + 1 : i < j => Memory!End(t[i]) <= t[j].at
  <2> SUFFICES ASSUME NEW i \in 1 .. l + 1, NEW j \in 1 .. l + 1, i < j
               PROVE  Memory!End(t[i]) <= t[j].at
    OBVIOUS
  <2>1. i \in 1 .. l
    BY <1>2
  <2>2. CASE j \in 1 .. l
    BY <2>1, <2>2, <1>2, <1>6 DEF Laid
  <2>3. CASE j = l + 1
    <3>1. n \in n - 1 + 1 .. m
      BY <1>1, <1>7
    <3>2. Memory!End(rs[i]) <= d.at
      BY <2>1, <3>1, <1>1, <1>2 DEF Laid
    <3> QED BY <2>1, <2>3, <3>2, <1>5, <1>6
  <2>4. j \in 1 .. l \/ j = l + 1
    BY <1>2
  <2> QED BY <2>2, <2>3, <2>4
<1>9. \A i \in 1 .. l + 1 : \A k \in n + 1 .. m : Memory!End(t[i]) <= map[k].at
  <2> SUFFICES ASSUME NEW i \in 1 .. l + 1, NEW k \in n + 1 .. m
               PROVE  Memory!End(t[i]) <= map[k].at
    OBVIOUS
  <2>1. CASE i \in 1 .. l
    <3>1. k \in n - 1 + 1 .. m
      BY <1>7
    <3> QED BY <2>1, <3>1, <1>1, <1>2, <1>6 DEF Laid
  <2>2. CASE i = l + 1
    BY <2>2, <1>5, <1>6, <1>7
  <2>3. i \in 1 .. l \/ i = l + 1
    BY <1>2
  <2> QED BY <2>1, <2>2, <2>3
<1>10. \A i \in 1 .. l + 1 : t[i].type = "RAM" => Memory!Span(t[i]) \subseteq Memory!Usable(map)
  <2> SUFFICES ASSUME NEW i \in 1 .. l + 1, t[i].type = "RAM"
               PROVE  Memory!Span(t[i]) \subseteq Memory!Usable(map)
    OBVIOUS
  <2>1. CASE i \in 1 .. l
    BY <2>1, <1>2, <1>6 DEF Laid
  <2>2. CASE i = l + 1
    <3>1. n \in DOMAIN map
      OBVIOUS
    <3> QED BY <2>2, <3>1, <1>5, <1>6 DEF Memory!Usable
  <2>3. i \in 1 .. l \/ i = l + 1
    BY <1>2
  <2> QED BY <2>1, <2>2, <2>3
<1> QED BY <1>1, <1>6, <1>8, <1>9, <1>10 DEF Laid, t, r

\* The last region grown by descriptor n, which it reaches: it ends where the
\* descriptor begins.
LEMMA GrownIsLaid ==
  ASSUME NEW map \in Seq(Memory!Descriptor), Memory!Ordered(map), NEW n \in 1 .. Len(map),
         NEW rs \in Seq(Memory!MemoryRegion), Laid(map, n - 1, rs), rs # <<>>,
         Memory!Reaches(rs[Len(rs)], map[n]),
         map[n].kind \in Memory!BootServices \cup {"conventional"}
  PROVE  Laid(map, n, [rs EXCEPT ![Len(rs)] = Memory!Grown(@, map[n])])
<1> DEFINE d == map[n]
<1>1. PICK m \in Nat : m = Len(map)
  OBVIOUS
<1>2. PICK l \in Nat : l = Len(rs)
  OBVIOUS
<1>3. l \in 1 .. l
  BY <1>2
<1> DEFINE old == rs[l]
           r == Memory!Grown(old, d)
           t == [rs EXCEPT ![l] = r]
<1>4. d \in Memory!Descriptor /\ old \in Memory!MemoryRegion
  BY <1>2, <1>3
<1>5. d.at \in Nat /\ d.pages \in Nat /\ old.at \in Nat /\ old.pages \in Int
  BY <1>4 DEF Memory!Descriptor, Memory!MemoryRegion
<1>6. n \in 1 .. m /\ n \in n - 1 + 1 .. m
  BY <1>1
<1>7. Memory!End(old) = d.at
  <2>1. Memory!End(old) <= d.at
    BY <1>1, <1>2, <1>3, <1>6 DEF Laid
  <2>2. Memory!Reaches(old, d)
    BY <1>2
  <2> HIDE DEF old, d
  <2>3. Memory!End(old) >= d.at
    BY <2>2 DEF Memory!Reaches
  <2> QED BY <2>1, <2>3, <1>5 DEF Memory!End
<1>8. r \in Memory!MemoryRegion
  BY <1>4, RegionTyped
<1>9. r.at = old.at /\ Memory!End(r) = Memory!End(d) /\ r.type = old.type
  <2>1. r = [old EXCEPT !.pages = old.pages + d.pages - (Memory!End(old) - d.at)]
    BY DEF Memory!Grown
  <2>2. r.at = old.at /\ r.type = old.type
        /\ r.pages = old.pages + d.pages - (Memory!End(old) - d.at)
    BY <2>1, <1>4 DEF Memory!MemoryRegion
  <2> QED BY <2>2, <1>5, <1>7 DEF Memory!End
<1>10. Len(t) = l /\ \A i \in 1 .. l : t[i] = IF i = l THEN r ELSE rs[i]
  <2> HIDE DEF r
  <2> QED BY <1>2, <1>3, <1>8, Replaced
<1>11. Memory!Span(r) \subseteq Memory!Span(old) \cup Memory!Span(d)
  BY <1>5, <1>7, <1>9 DEF Memory!Span, Memory!End
<1> HIDE DEF t, r
<1>12. \A i, j \in 1 .. l : i < j => Memory!End(t[i]) <= t[j].at
  <2> SUFFICES ASSUME NEW i \in 1 .. l, NEW j \in 1 .. l, i < j
               PROVE  Memory!End(t[i]) <= t[j].at
    OBVIOUS
  <2>1. i # l
    BY <1>2
  <2>2. t[i] = rs[i] /\ t[j].at = rs[j].at
    BY <2>1, <1>9, <1>10
  <2> QED BY <2>2, <1>2 DEF Laid
<1>13. \A i \in 1 .. l : \A k \in n + 1 .. m : Memory!End(t[i]) <= map[k].at
  <2> SUFFICES ASSUME NEW i \in 1 .. l, NEW k \in n + 1 .. m
               PROVE  Memory!End(t[i]) <= map[k].at
    OBVIOUS
  <2>1. k \in n - 1 + 1 .. m /\ k \in 1 .. m /\ n < k
    BY <1>6
  <2>2. CASE i = l
    <3>1. DOMAIN map = 1 .. m
      BY <1>1
    <3>2. Memory!End(d) <= map[k].at
      BY <2>1, <3>1, <1>6 DEF Memory!Ordered
    <3> QED BY <2>2, <3>2, <1>9, <1>10
  <2>3. CASE i # l
    BY <2>1, <2>3, <1>1, <1>2, <1>10 DEF Laid
  <2> QED BY <2>2, <2>3
<1>14. \A i \in 1 .. l : t[i].type = "RAM" => Memory!Span(t[i]) \subseteq Memory!Usable(map)
  <2> SUFFICES ASSUME NEW i \in 1 .. l, t[i].type = "RAM"
               PROVE  Memory!Span(t[i]) \subseteq Memory!Usable(map)
    OBVIOUS
  <2>1. CASE i = l
    <3>1. Memory!Span(old) \subseteq Memory!Usable(map)
      BY <2>1, <1>2, <1>9, <1>10 DEF Laid
    <3>2. Memory!Span(d) \subseteq Memory!Usable(map)
      <4>1. n \in DOMAIN map
        OBVIOUS
      <4> QED BY <4>1 DEF Memory!Usable
    <3> QED BY <2>1, <3>1, <3>2, <1>10, <1>11
  <2>2. CASE i # l
    BY <2>2, <1>2, <1>10 DEF Laid
  <2> QED BY <2>1, <2>2
<1> QED BY <1>1, <1>2, <1>10, <1>12, <1>13, <1>14 DEF Laid, t, r

\* Nothing is added at descriptor n.
LEMMA StaysLaid ==
  ASSUME NEW map \in Seq(Memory!Descriptor), NEW n \in 1 .. Len(map),
         NEW rs \in Seq(Memory!MemoryRegion), Laid(map, n - 1, rs)
  PROVE  Laid(map, n, rs)
<1>1. \A k \in n + 1 .. Len(map) : k \in n - 1 + 1 .. Len(map)
  <2>1. PICK m \in Nat : m = Len(map)
    OBVIOUS
  <2> QED BY <2>1
<1> QED BY <1>1 DEF Laid

LEMMA AddIsLaid ==
  ASSUME NEW map \in Seq(Memory!Descriptor), Memory!Ordered(map), NEW n \in 1 .. Len(map),
         NEW rs \in Seq(Memory!MemoryRegion), Laid(map, n - 1, rs),
         NEW first, NEW s, NEW exit
  PROVE  Laid(map, n, Memory!_add_memory_region(rs, map[n], first, s, exit))
<1> DEFINE d == map[n]
<1>1. Laid(map, n, rs)
  BY StaysLaid
<1>2. ASSUME NEW type \in Memory!BootServices \cup {"RAM", "loader", "reserved"},
             type = "RAM" => d.kind \in Memory!BootServices \cup {"conventional"}
      PROVE  Laid(map, n, Append(rs, Memory!Region(d, type)))
  BY <1>2, AppendedIsLaid
<1>3. CASE d.kind \in Memory!BootServices \cup {"conventional"}
  <2>1. Laid(map, n, Append(rs, Memory!Region(d, "RAM")))
    BY <1>2, <1>3
  <2>2. Laid(map, n, Memory!WithUsable(rs, d, first, s))
    <3>1. CASE rs = <<>>
      <4>1. Append(rs, Memory!Region(d, "RAM")) = <<Memory!Region(d, "RAM")>>
        BY <3>1
      <4> QED BY <3>1, <4>1, <2>1, <1>1 DEF Memory!WithUsable
    <3>2. CASE rs # <<>> /\ Memory!Reaches(rs[Len(rs)], d)
      <4>1. Laid(map, n, [rs EXCEPT ![Len(rs)] = Memory!Grown(@, d)])
        BY <3>2, <1>3, GrownIsLaid
      <4> QED BY <3>2, <4>1 DEF Memory!WithUsable, Memory!Last
    <3>3. CASE rs # <<>> /\ ~Memory!Reaches(rs[Len(rs)], d)
      BY <3>3, <2>1 DEF Memory!WithUsable, Memory!Last
    <3> QED BY <3>1, <3>2, <3>3
  <2>3. d.kind \in Memory!BootServices => Laid(map, n, Append(rs, Memory!Region(d, d.kind)))
    <3>1. d.kind \in Memory!BootServices => d.kind # "RAM"
      BY DEF Memory!BootServices
    <3> QED BY <3>1, <1>2
  <2>4. Laid(map, n, Memory!_add_memory_region(rs, d, first, s, exit))
    <3>1. CASE d.kind \in Memory!BootServices /\ ~exit
      <4>1. Memory!_add_memory_region(rs, d, first, s, exit) = Append(rs, Memory!Region(d, d.kind))
        BY <3>1 DEF Memory!_add_memory_region, Memory!BootServices
      <4> QED BY <3>1, <4>1, <2>3
    <3>2. CASE d.kind \in Memory!BootServices /\ exit
      <4>1. Memory!_add_memory_region(rs, d, first, s, exit) = Memory!WithUsable(rs, d, first, s)
        BY <3>2 DEF Memory!_add_memory_region, Memory!BootServices
      <4> QED BY <4>1, <2>2
    <3>3. CASE d.kind = "conventional"
      BY <3>3, <2>2 DEF Memory!_add_memory_region, Memory!BootServices
    <3> QED BY <1>3, <3>1, <3>2, <3>3
  <2> QED BY <2>4
<1>4. CASE d.kind \in {"uncached", "loader", "reserved"}
  <2>1. Laid(map, n, Append(rs, Memory!Region(d, "reserved")))
    BY <1>2
  <2>2. Laid(map, n, Append(rs, Memory!Region(d, "loader")))
    BY <1>2
  <2>3. Laid(map, n, Memory!_add_memory_region(rs, d, first, s, exit))
    BY <1>4, <2>1, <2>2 DEF Memory!_add_memory_region, Memory!BootServices
  <2> QED BY <2>3
<1>5. CASE d.kind = "runtime"
  <2>1. Memory!_add_memory_region(rs, d, first, s, exit) = rs
    BY <1>5 DEF Memory!_add_memory_region, Memory!BootServices
  <2> QED BY <2>1, <1>1
<1>6. d \in Memory!Descriptor
  OBVIOUS
<1> QED BY <1>3, <1>4, <1>5, <1>6 DEF Memory!Descriptor, Memory!Kinds

LEMMA TurnIsLaid ==
  ASSUME NEW map \in Seq(Memory!Descriptor), Memory!Ordered(map), NEW n \in 1 .. Len(map),
         NEW rs \in Seq(Memory!MemoryRegion), Laid(map, n - 1, rs), NEW s, NEW exit
  PROVE  Laid(map, n, Turn(rs, map, n, s, exit))
BY AddIsLaid, StaysLaid DEF Turn

\* What is built from any map is a list of regions; from an ordered one they lie
\* apart, and RAM is usable memory.
LEMMA BuiltIsTyped ==
  ASSUME NEW map \in Seq(Memory!Descriptor), NEW s, NEW exit
  PROVE  Memory!_build_memory_map(map, s, exit) \in Seq(Memory!MemoryRegion)
<1>1. Len(map) \in 0 .. Len(map)
  <2>1. PICK m \in Nat : m = Len(map)
    OBVIOUS
  <2> QED BY <2>1
<1> QED BY <1>1, LoopRuns

LEMMA BuiltIsLaid ==
  ASSUME NEW map \in Seq(Memory!Descriptor), Memory!Ordered(map),
         NEW s, NEW exit
  PROVE  Laid(map, Len(map), Memory!_build_memory_map(map, s, exit))
<1>1. PICK f \in [0 .. Len(map) -> Seq(Memory!MemoryRegion)] :
        /\ f[0] = <<>>
        /\ \A n \in 1 .. Len(map) : f[n] = Turn(f[n - 1], map, n, s, exit)
        /\ Memory!_build_memory_map(map, s, exit) = f[Len(map)]
  BY LoopRuns
<1>2. PICK m \in Nat : m = Len(map)
  OBVIOUS
<1> DEFINE P == {n \in Nat : n <= m => Laid(map, n, f[n])}
<1>3. 0 \in P
  <2>1. Laid(map, 0, <<>>)
    BY DEF Laid
  <2> QED BY <2>1, <1>1
<1>4. ASSUME NEW n \in 0 .. m - 1, n \in P PROVE n + 1 \in P
  <2>1. n + 1 \in 1 .. m /\ n <= m /\ n \in 0 .. m /\ n + 1 - 1 = n /\ n + 1 \in Nat
    OBVIOUS
  <2>2. Laid(map, n, f[n]) /\ f[n] \in Seq(Memory!MemoryRegion)
    BY <1>1, <1>2, <1>4, <2>1
  <2>3. f[n + 1] = Turn(f[n], map, n + 1, s, exit)
    BY <1>1, <1>2, <2>1
  <2>4. Laid(map, n + 1, f[n + 1])
    BY <1>2, <2>1, <2>2, <2>3, TurnIsLaid
  <2> QED BY <2>1, <2>4
<1>5. m \in P
  <2> HIDE DEF P
  <2>1. 0 .. m \subseteq P
    BY <1>3, <1>4, InductionUpTo
  <2> QED BY <2>1
<1> QED BY <1>1, <1>2, <1>5

-----------------------------------------------------------------------------
(* The memory map: what the firmware makes of its own.                     *)

\* A list with an element put in at i.
WithInserted(t, s, i, e) ==
  /\ Len(t) = Len(s) + 1
  /\ \A j \in 1 .. Len(s) + 1 :
       t[j] = IF j < i THEN s[j] ELSE IF j = i THEN e ELSE s[j - 1]

LEMMA Inserted ==
  ASSUME NEW C, NEW s \in Seq(C), NEW i \in 1 .. Len(s) + 1, NEW e \in C
  PROVE  /\ Memory!InsertAt(s, i, e) \in Seq(C)
         /\ WithInserted(Memory!InsertAt(s, i, e), s, i, e)
<1> DEFINE t     == Memory!InsertAt(s, i, e)
           front == SubSeq(s, 1, i - 1)
           back  == SubSeq(s, i, Len(s))
           fore  == front \o <<e>>
<1>1. PICK n \in Nat : n = Len(s)
  OBVIOUS
<1>2. i \in 1 .. n + 1
  BY <1>1
<1>3. /\ front \in Seq(C) /\ Len(front) = i - 1
      /\ \A j \in 1 .. i - 1 : front[j] = s[j]
  BY <1>1, <1>2
<1>4. /\ back \in Seq(C) /\ Len(back) = n + 1 - i
      /\ \A j \in 1 .. n + 1 - i : back[j] = s[i + j - 1]
  BY <1>1, <1>2
<1>5. t = fore \o back
  BY DEF Memory!InsertAt
<1> HIDE DEF front, back, t
<1>6. /\ fore \in Seq(C) /\ Len(fore) = i
      /\ (\A j \in 1 .. i - 1 : fore[j] = front[j]) /\ fore[i] = e
  <2>1. <<e>> \in Seq(C) /\ Len(<<e>>) = 1 /\ <<e>>[1] = e
    OBVIOUS
  <2> QED BY <2>1, <1>2, <1>3
<1> HIDE DEF fore
<1>7. /\ t \in Seq(C) /\ Len(t) = n + 1
      /\ (\A j \in 1 .. i : t[j] = fore[j])
      /\ \A j \in i + 1 .. n + 1 : t[j] = back[j - i]
  <2>1. /\ t \in Seq(C) /\ Len(t) = i + Len(back)
        /\ \A j \in 1 .. i : t[j] = fore[j]
        /\ \A j \in 1 .. Len(back) : t[i + j] = back[j]
    <3>1. i \in Nat /\ i = Len(fore) /\ fore \in Seq(C) /\ back \in Seq(C)
      BY <1>2, <1>4, <1>6
    <3>2. /\ fore \o back \in Seq(C) /\ Len(fore \o back) = i + Len(back)
          /\ \A j \in 1 .. i : (fore \o back)[j] = fore[j]
          /\ \A j \in 1 .. Len(back) : (fore \o back)[i + j] = back[j]
      BY <3>1, Concatenated
    <3> QED BY <3>2, <1>5
  <2>2. i + Len(back) = n + 1
    BY <1>2, <1>4
  <2>3. \A j \in i + 1 .. n + 1 : j - i \in 1 .. n + 1 - i /\ i + (j - i) = j
    BY <1>2
  <2> QED BY <2>1, <2>2, <2>3, <1>4
<1>8. ASSUME NEW j \in 1 .. n + 1
      PROVE  t[j] = IF j < i THEN s[j] ELSE IF j = i THEN e ELSE s[j - 1]
  <2>1. CASE j < i
    BY <2>1, <1>2, <1>3, <1>6, <1>7
  <2>2. CASE j = i
    BY <2>2, <1>2, <1>6, <1>7
  <2>3. CASE j > i
    <3>1. j - i \in 1 .. n + 1 - i /\ i + (j - i) - 1 = j - 1 /\ j \in i + 1 .. n + 1
      BY <2>3, <1>2
    <3> QED BY <2>3, <3>1, <1>4, <1>7
  <2> QED BY <2>1, <2>2, <2>3, <1>2
<1> QED BY <1>1, <1>7, <1>8 DEF t, WithInserted

LEMMA EndTyped ==
  ASSUME NEW d \in Memory!Descriptor
  PROVE  d.at \in Nat /\ Memory!End(d) \in Nat
BY DEF Memory!Descriptor, Memory!End

\* A map that is split stays a map, in order of address.
LEMMA SplitIsOrdered ==
  ASSUME NEW map \in Seq(Memory!Descriptor), Memory!Ordered(map), NEW i \in DOMAIN map,
         NEW pages \in Nat, map[i].pages >= pages, NEW kind \in Memory!Kinds
  PROVE  /\ Memory!Split(map, i, pages, kind) \in Seq(Memory!Descriptor)
         /\ Memory!Ordered(Memory!Split(map, i, pages, kind))
<1> DEFINE d     == map[i]
           taken == [at |-> Memory!End(d) - pages, pages |-> pages, kind |-> kind]
           t     == Memory!Split(map, i, pages, kind)
<1>1. PICK n \in Nat : n = Len(map)
  OBVIOUS
<1>2. i \in 1 .. n /\ DOMAIN map = 1 .. n
  BY <1>1
<1>3. \A j \in 1 .. n : map[j].at \in Nat /\ map[j].pages \in Nat
  <2>1. \A j \in 1 .. n : map[j] \in Memory!Descriptor
    BY <1>1
  <2> QED BY <2>1 DEF Memory!Descriptor
<1>4. taken \in Memory!Descriptor
  <2>1. Memory!End(d) - pages \in Nat
    BY <1>2, <1>3 DEF Memory!End
  <2> QED BY <2>1 DEF Memory!Descriptor
<1>5. taken.at >= d.at /\ Memory!End(taken) = Memory!End(d)
  BY <1>2, <1>3 DEF Memory!End
<1>6. \A j, k \in 1 .. n : j < k => Memory!End(map[j]) <= map[k].at
  BY <1>2 DEF Memory!Ordered
<1>7. CASE d.pages = pages
  <2>1. t = [map EXCEPT ![i] = taken]
    BY <1>7 DEF Memory!Split
  <2>2. taken.at = d.at
    BY <1>2, <1>3, <1>7 DEF Memory!End
  <2> HIDE DEF taken, t
  <2>3. /\ t \in Seq(Memory!Descriptor) /\ Len(t) = n
        /\ \A j \in 1 .. n : t[j] = IF j = i THEN taken ELSE map[j]
    BY <2>1, <1>1, <1>2, <1>4, Replaced
  <2>4. \A j \in 1 .. n : t[j].at = map[j].at /\ Memory!End(t[j]) = Memory!End(map[j])
    BY <2>2, <2>3, <1>5
  <2>5. DOMAIN t = 1 .. n
    BY <2>3
  <2>6. Memory!Ordered(t)
    BY <2>4, <2>5, <1>6 DEF Memory!Ordered
  <2> QED BY <2>3, <2>6 DEF t
<1>8. CASE d.pages # pages
  <2> DEFINE left == [d EXCEPT !.pages = d.pages - pages]
             cut  == [map EXCEPT ![i] = left]
  <2>1. d \in Memory!Descriptor /\ d.pages - pages \in Nat
    BY <1>2, <1>3
  <2>2. left \in Memory!Descriptor /\ left.at = d.at /\ left.pages = d.pages - pages
    BY <2>1 DEF Memory!Descriptor
  <2>3. Memory!End(left) = taken.at /\ Memory!End(left) <= Memory!End(d)
    BY <2>2, <1>2, <1>3 DEF Memory!End
  <2>4. t = Memory!InsertAt(cut, i + 1, taken)
    BY <1>8 DEF Memory!Split
  <2> HIDE DEF left, taken, t
  <2>5. /\ cut \in Seq(Memory!Descriptor) /\ Len(cut) = n
        /\ \A j \in 1 .. n : cut[j] = IF j = i THEN left ELSE map[j]
    BY <2>2, <1>1, <1>2, Replaced
  <2> HIDE DEF cut
  <2>6. i + 1 \in 1 .. Len(cut) + 1
    BY <2>5, <1>2
  <2>7. /\ t \in Seq(Memory!Descriptor) /\ Len(t) = n + 1
        /\ \A j \in 1 .. n + 1 : t[j] = IF j < i + 1 THEN cut[j]
                                        ELSE IF j = i + 1 THEN taken ELSE cut[j - 1]
    <3>1. /\ t \in Seq(Memory!Descriptor) /\ Len(t) = Len(cut) + 1
          /\ \A j \in 1 .. Len(cut) + 1 : t[j] = IF j < i + 1 THEN cut[j]
                                                 ELSE IF j = i + 1 THEN taken ELSE cut[j - 1]
      <4>1. t \in Seq(Memory!Descriptor) /\ WithInserted(t, cut, i + 1, taken)
        BY <2>4, <2>5, <2>6, <1>4, Inserted
      <4> QED BY <4>1 DEF WithInserted
    <3> QED BY <3>1, <2>5
  <2> DEFINE From(j) == IF j <= i THEN j ELSE j - 1
  <2>8. ASSUME NEW j \in 1 .. n + 1
        PROVE  /\ From(j) \in 1 .. n
               /\ t[j].at >= map[From(j)].at /\ Memory!End(t[j]) <= Memory!End(map[From(j)])
    <3>1. From(j) \in 1 .. n
      BY <1>2
    <3>2. CASE j = i
      <4>1. t[j] = left
        BY <3>2, <2>5, <2>7, <1>2
      <4> QED BY <3>1, <3>2, <4>1, <2>2, <2>3, <1>2, <1>3
    <3>3. CASE j = i + 1
      <4>1. t[j] = taken /\ From(j) = i
        BY <3>3, <2>7, <1>2
      <4>2. d \in Memory!Descriptor
        BY <1>1, <1>2
      <4>3. Memory!End(d) \in Nat
        BY <4>2, EndTyped
      <4>4. Memory!End(taken) <= Memory!End(d)
        BY <4>3, <1>5
      <4> QED BY <3>1, <4>1, <4>4, <1>5
    <3>4. CASE j # i /\ j # i + 1
      <4>1. t[j] = map[From(j)]
        BY <3>1, <3>4, <2>5, <2>7, <1>2
      <4> QED BY <3>1, <4>1, <1>3 DEF Memory!End
    <3> QED BY <3>2, <3>3, <3>4
  <2>9. ASSUME NEW j \in 1 .. n + 1, NEW k \in 1 .. n + 1, j < k
        PROVE  Memory!End(t[j]) <= t[k].at
    <3>1. CASE j = i /\ k = i + 1
      <4>1. t[j] = left
        BY <3>1, <2>5, <2>7, <1>2
      <4>2. t[k] = taken
        BY <3>1, <2>7, <1>2
      <4>3. taken.at <= taken.at
        BY <1>4 DEF Memory!Descriptor
      <4> QED BY <4>1, <4>2, <4>3, <2>3
    <3>2. CASE ~(j = i /\ k = i + 1)
      <4>1. From(j) < From(k)
        BY <3>2, <2>9, <1>2
      <4>2. Memory!End(map[From(j)]) <= map[From(k)].at
        BY <4>1, <2>8, <1>6
      <4>3. t[j] \in Memory!Descriptor /\ t[k] \in Memory!Descriptor
        BY <2>7
      <4> DEFINE a == From(j)
                 b == From(k)
      <4>4. a \in 1 .. n /\ b \in 1 .. n /\ Memory!End(t[j]) <= Memory!End(map[a])
            /\ map[b].at <= t[k].at /\ Memory!End(map[a]) <= map[b].at
        <5>1. t[k].at \in Nat /\ map[b].at \in Nat
          BY <4>3, <2>8, <1>3 DEF Memory!Descriptor
        <5> QED BY <4>2, <5>1, <2>8
      <4> HIDE DEF a, b
      <4>5. t[k].at \in Nat /\ Memory!End(t[j]) \in Nat
        BY <4>3, EndTyped
      <4>6. map[b].at \in Nat /\ Memory!End(map[a]) \in Nat
        <5>1. map[a] \in Memory!Descriptor /\ map[b] \in Memory!Descriptor
          BY <4>4, <1>2
        <5> QED BY <5>1, EndTyped
      <4> QED BY <4>4, <4>5, <4>6
    <3> QED BY <3>1, <3>2
  <2>10. DOMAIN t = 1 .. n + 1
    BY <2>7
  <2>11. Memory!Ordered(t)
    BY <2>9, <2>10 DEF Memory!Ordered
  <2> QED BY <2>7, <2>11 DEF t
<1> QED BY <1>7, <1>8

\* Every change the firmware makes, of its own or for an allocation, leaves a map
\* in order of address.
LEMMA AllocatedIsOrdered ==
  ASSUME NEW map \in Seq(Memory!Descriptor), Memory!Ordered(map),
         NEW pages \in Nat, NEW kind \in Memory!Kinds,
         NEW new \in Memory!Allocated(map, pages, kind)
  PROVE  new \in Seq(Memory!Descriptor) /\ Memory!Ordered(new)
<1>1. PICK i \in DOMAIN map : map[i].pages >= pages /\ new = Memory!Split(map, i, pages, kind)
  BY DEF Memory!Allocated
<1> QED BY <1>1, SplitIsOrdered

LEMMA GivenBackIsOrdered ==
  ASSUME NEW map \in Seq(Memory!Descriptor), Memory!Ordered(map),
         NEW new \in Memory!GivenBack(map)
  PROVE  new \in Seq(Memory!Descriptor) /\ Memory!Ordered(new)
<1>1. PICK n \in Nat : n = Len(map)
  OBVIOUS
<1>2. PICK i \in 1 .. n : new = [map EXCEPT ![i].kind = "conventional"]
  BY <1>1 DEF Memory!GivenBack
<1> DEFINE d == [map[i] EXCEPT !.kind = "conventional"]
<1>3. map[i] \in Memory!Descriptor
  BY <1>1, <1>2
<1>4. d \in Memory!Descriptor /\ d.at = map[i].at /\ d.pages = map[i].pages
  BY <1>3 DEF Memory!Descriptor, Memory!Kinds
<1>5. new = [map EXCEPT ![i] = d]
  BY <1>2
<1> HIDE DEF d
<1>6. /\ new \in Seq(Memory!Descriptor) /\ Len(new) = n
      /\ \A j \in 1 .. n : new[j] = IF j = i THEN d ELSE map[j]
  BY <1>1, <1>4, <1>5, Replaced
<1>7. \A j \in 1 .. n : new[j].at = map[j].at /\ Memory!End(new[j]) = Memory!End(map[j])
  BY <1>4, <1>6 DEF Memory!End
<1>8. DOMAIN new = 1 .. n /\ DOMAIN map = 1 .. n
  BY <1>1, <1>6
<1>9. Memory!Ordered(new)
  BY <1>7, <1>8 DEF Memory!Ordered
<1> QED BY <1>6, <1>9

-----------------------------------------------------------------------------
(* The memory map: the invariant.                                          *)

\* The key that is read with the map is the key of the map the regions are built
\* from, and every change gives the firmware's map a new one.
KeyInv ==
  /\ mm = "resized" => key < version
  /\ mm = "rebuilt" /\ key = version => Laid(firmware, Len(firmware), regions)
  /\ mm = "exited" => Laid(firmware, Len(firmware), regions)

MapInv == Memory!TypeOK /\ KeyInv

LEMMA MapInit == Memory!MemoryMapAssumption /\ Memory!Init => MapInv
<1> SUFFICES ASSUME Memory!MemoryMapAssumption, Memory!Init PROVE MapInv
  OBVIOUS
<1>1. firmware \in Seq(Memory!Descriptor) /\ Memory!Ordered(firmware)
  BY DEF Memory!MemoryMapAssumption, Memory!Init
<1>2. regions \in Seq(Memory!MemoryRegion)
  BY DEF Memory!Init
<1>3. changes \in 0 .. MaxChanges /\ room \in Nat /\ version \in Nat /\ key \in 0 .. version
  BY DEF Memory!MemoryMapAssumption, Memory!Init
<1> QED BY <1>1, <1>2, <1>3 DEF Memory!Init, MapInv, Memory!TypeOK, KeyInv

LEMMA ChangeKeepsMapInv ==
  ASSUME Memory!MemoryMapAssumption, MapInv, Memory!FirmwareChanges
  PROVE  MapInv'
<1>1. /\ mm \notin {"exited", "refused", "asserted"} /\ changes < MaxChanges
      /\ firmware' \in Memory!Allocated(firmware, 1, "bsData") \cup Memory!GivenBack(firmware)
      /\ version' = version + 1 /\ changes' = changes + 1
      /\ UNCHANGED <<room, key, regions, mm>>
  BY DEF Memory!FirmwareChanges
<1>2. firmware' \in Seq(Memory!Descriptor) /\ Memory!Ordered(firmware')
  <2>1. firmware \in Seq(Memory!Descriptor) /\ Memory!Ordered(firmware)
        /\ 1 \in Nat /\ "bsData" \in Memory!Kinds
    BY DEF MapInv, Memory!TypeOK, Memory!Kinds, Memory!BootServices
  <2> QED BY <2>1, <1>1, AllocatedIsOrdered, GivenBackIsOrdered
<1>3. /\ changes' \in 0 .. MaxChanges /\ version' \in Nat /\ key' \in 0 .. version'
      /\ key' < version'
  <2>1. changes \in 0 .. MaxChanges /\ version \in Nat /\ key \in 0 .. version /\ MaxChanges \in Nat
    BY DEF MapInv, Memory!TypeOK, Memory!MemoryMapAssumption
  <2> QED BY <2>1, <1>1
<1>4. key' # version'
  BY <1>3
<1>5. Memory!TypeOK'
  BY <1>1, <1>2, <1>3 DEF MapInv, Memory!TypeOK
<1>6. KeyInv'
  BY <1>1, <1>3, <1>4 DEF KeyInv
<1> QED BY <1>5, <1>6 DEF MapInv

LEMMA SizeKeepsMapInv ==
  ASSUME Memory!MemoryMapAssumption, MapInv, Memory!SizeMap
  PROVE  MapInv'
<1>1. /\ mm \in {"off", "up"} /\ version' = version + 1 /\ UNCHANGED <<changes, key>>
      /\ mm' \in {"sized", "resized", "built", "rebuilt"}
  BY DEF Memory!SizeMap
<1>2. version' \in Nat /\ key' \in 0 .. version' /\ key' < version' /\ key' # version'
  <2>1. version \in Nat /\ key \in 0 .. version
    BY DEF MapInv, Memory!TypeOK
  <2> QED BY <2>1, <1>1
<1>3. firmware \in Seq(Memory!Descriptor) /\ Memory!Ordered(firmware)
      /\ regions \in Seq(Memory!MemoryRegion) /\ room \in Nat
  BY DEF MapInv, Memory!TypeOK
<1>4. firmware' \in Seq(Memory!Descriptor) /\ Memory!Ordered(firmware')
  <2>1. 1 \in Nat /\ "loader" \in Memory!Kinds
    BY DEF Memory!Kinds
  <2>2. firmware' \in Memory!Allocated(firmware, 1, "loader") \/ firmware' = firmware
    BY DEF Memory!SizeMap
  <2> QED BY <2>1, <2>2, <1>3, AllocatedIsOrdered
<1>5. room' \in Nat
  <2>1. Len(firmware) + 2 \in Nat
    <3>1. PICK n \in Nat : n = Len(firmware)
      BY <1>3
    <3> QED BY <3>1
  <2> QED BY <2>1, <1>3 DEF Memory!SizeMap
<1>6. regions' \in Seq(Memory!MemoryRegion)
  <2>1. CASE regions' = regions
    BY <2>1, <1>3
  <2>2. CASE \E map \in Garbage, reached \in BOOLEAN :
               regions' = Memory!_build_memory_map(map, reached, mm = "up")
    BY <2>2, BuiltIsTyped DEF Memory!MemoryMapAssumption
  <2> QED BY <2>1, <2>2 DEF Memory!SizeMap
<1>7. Memory!TypeOK'
  BY <1>1, <1>2, <1>4, <1>5, <1>6 DEF MapInv, Memory!TypeOK
<1>8. KeyInv'
  BY <1>1, <1>2 DEF KeyInv
<1> QED BY <1>7, <1>8 DEF MapInv

LEMMA ReadKeepsMapInv ==
  ASSUME Memory!MemoryMapAssumption, MapInv, Memory!ReadMap
  PROVE  MapInv'
<1>1. /\ mm \in {"sized", "resized"} /\ mm' = IF mm = "sized" THEN "built" ELSE "rebuilt"
      /\ UNCHANGED <<firmware, version, changes, room>>
  BY DEF Memory!ReadMap
<1>2. firmware \in Seq(Memory!Descriptor) /\ Memory!Ordered(firmware)
      /\ version \in Nat /\ key \in 0 .. version
  BY DEF MapInv, Memory!TypeOK
<1>3. PICK reached \in BOOLEAN :
        \/ /\ key' = version
           /\ regions' = Memory!_build_memory_map(firmware, reached, mm = "resized")
        \/ /\ key' = key
           /\ \E map \in Garbage : regions' = Memory!_build_memory_map(map, reached, mm = "resized")
  BY DEF Memory!ReadMap
<1>4. regions' \in Seq(Memory!MemoryRegion)
  BY <1>2, <1>3, BuiltIsTyped DEF Memory!MemoryMapAssumption
<1>5. key' \in 0 .. version' /\ version' \in Nat
  BY <1>1, <1>2, <1>3
<1>6. Memory!TypeOK'
  BY <1>1, <1>2, <1>4, <1>5 DEF MapInv, Memory!TypeOK
<1>7. mm = "resized" /\ key' = version' => Laid(firmware', Len(firmware'), regions')
  <2> SUFFICES ASSUME mm = "resized", key' = version' PROVE Laid(firmware', Len(firmware'), regions')
    OBVIOUS
  <2>1. key # version
    <3>1. key < version
      BY DEF MapInv, KeyInv
    <3> QED BY <3>1, <1>2
  <2>2. regions' = Memory!_build_memory_map(firmware, reached, mm = "resized")
    BY <2>1, <1>1, <1>3
  <2>3. Laid(firmware, Len(firmware), regions')
    BY <2>2, <1>2, BuiltIsLaid
  <2> QED BY <2>3, <1>1
<1>8. KeyInv'
  BY <1>1, <1>7 DEF KeyInv
<1> QED BY <1>6, <1>8 DEF MapInv

LEMMA HeapKeepsMapInv ==
  ASSUME Memory!MemoryMapAssumption, MapInv, Memory!AllocateHeap
  PROVE  MapInv'
<1>1. /\ mm' \in {"up", "asserted"} /\ UNCHANGED <<changes, room, key, regions>>
      /\ \/ firmware' \in Memory!Allocated(firmware, HeapPages, "loader") /\ version' = version + 1
         \/ UNCHANGED <<firmware, version>>
  BY DEF Memory!AllocateHeap
<1>2. firmware' \in Seq(Memory!Descriptor) /\ Memory!Ordered(firmware')
  <2>1. HeapPages \in Nat /\ "loader" \in Memory!Kinds
        /\ firmware \in Seq(Memory!Descriptor) /\ Memory!Ordered(firmware)
    BY DEF Memory!MemoryMapAssumption, MapInv, Memory!TypeOK, Memory!Kinds
  <2> QED BY <2>1, <1>1, AllocatedIsOrdered
<1>3. version' \in Nat /\ key' \in 0 .. version'
  <2>1. version \in Nat /\ key \in 0 .. version
    BY DEF MapInv, Memory!TypeOK
  <2> QED BY <2>1, <1>1
<1>4. Memory!TypeOK'
  BY <1>1, <1>2, <1>3 DEF MapInv, Memory!TypeOK
<1>5. KeyInv'
  BY <1>1 DEF KeyInv
<1> QED BY <1>4, <1>5 DEF MapInv

LEMMA MapNext ==
  ASSUME Memory!MemoryMapAssumption, MapInv, [Memory!Next]_memoryVars
  PROVE  MapInv'
<1>1. CASE Memory!ExitBootServices
  <2>1. /\ mm = "rebuilt" /\ mm' = IF key = version THEN "exited" ELSE "refused"
        /\ UNCHANGED <<firmware, version, changes, room, key, regions>>
    BY <1>1 DEF Memory!ExitBootServices
  <2>2. Memory!TypeOK'
    BY <2>1 DEF MapInv, Memory!TypeOK
  <2>3. KeyInv'
    BY <2>1 DEF MapInv, KeyInv
  <2> QED BY <2>2, <2>3 DEF MapInv
<1>2. CASE UNCHANGED memoryVars
  BY <1>2 DEF memoryVars, MapInv, Memory!TypeOK, KeyInv
<1> QED BY <1>1, <1>2, ChangeKeepsMapInv, SizeKeepsMapInv, ReadKeepsMapInv, HeapKeepsMapInv
        DEF Memory!Next, Memory!memory_uefi_init, Memory!memory_runtime_init

LEMMA MapInvIsEnough == MapInv => Memory!RamIsOurs
<1> SUFFICES ASSUME MapInv, mm = "exited"
             PROVE  /\ \A i, j \in DOMAIN regions :
                         i # j => Memory!Span(regions[i]) \cap Memory!Span(regions[j]) = {}
                    /\ \A i \in DOMAIN regions : regions[i].type = "RAM" =>
                         Memory!Span(regions[i]) \subseteq Memory!Usable(firmware)
  BY DEF Memory!RamIsOurs
<1>1. Laid(firmware, Len(firmware), regions) /\ regions \in Seq(Memory!MemoryRegion)
  BY DEF MapInv, KeyInv, Memory!TypeOK
<1>2. PICK n \in Nat : n = Len(regions)
  BY <1>1
<1>3. DOMAIN regions = 1 .. n
  BY <1>1, <1>2
<1>4. \A i \in 1 .. n : regions[i].at \in Nat /\ regions[i].pages \in Int
  <2>1. \A i \in 1 .. n : regions[i] \in Memory!MemoryRegion
    BY <1>1, <1>3
  <2> QED BY <2>1 DEF Memory!MemoryRegion
<1>5. ASSUME NEW i \in 1 .. n, NEW j \in 1 .. n, i < j
      PROVE  Memory!Span(regions[i]) \cap Memory!Span(regions[j]) = {}
  <2>1. Memory!End(regions[i]) <= regions[j].at
    BY <1>1, <1>2, <1>5 DEF Laid
  <2> QED BY <2>1, <1>4 DEF Memory!Span, Memory!End
<1>6. ASSUME NEW i \in 1 .. n, NEW j \in 1 .. n, i # j
      PROVE  Memory!Span(regions[i]) \cap Memory!Span(regions[j]) = {}
  <2>1. i < j \/ j < i
    BY <1>6
  <2> QED BY <2>1, <1>5
<1> QED BY <1>1, <1>2, <1>3, <1>6 DEF Laid

-----------------------------------------------------------------------------
(* The boot.                                                               *)

Stages == {"image", "tables", "memory", "acpi", "smp", "video", "booted", "check", "dump",
           "exit", "clock", "connect", "running", "halted", "asserted"}

StageInv == boot \in Stages /\ keys \subseteq AcpiNames \cup KernelNames

IInv == MapInv /\ SmpInv /\ ClockInv /\ StageInv

LEMMA InitIInv == Init => IInv
<1> SUFFICES ASSUME Init PROVE IInv
  OBVIOUS
<1>1. MapInv
  BY MapInit, BootAssumption DEF Init
<1>2. SmpInv
  BY SmpInit, BootAssumption DEF Init
<1>3. ClockInv
  BY ClockInit, BootAssumption DEF Init
<1>4. StageInv
  BY DEF Init, StageInv, Stages
<1> QED BY <1>1, <1>2, <1>3, <1>4 DEF IInv

\* Every step of the boot is one of each component's steps or leaves it alone.
LEMMA StepsOfComponents ==
  ASSUME [Next]_vars
  PROVE  [Memory!Next]_memoryVars /\ [Cpus!Next]_smpVars /\ [Time!Next]_clockVars
<1>1. CASE LocateImage \/ CheckPaging
  BY <1>1 DEF LocateImage, CheckPaging
<1>2. CASE InitMemory
  BY <1>2 DEF InitMemory, Memory!Next
<1>3. CASE acpi_intitialise
  BY <1>3 DEF acpi_intitialise
<1>4. CASE InitProcessors
  BY <1>4 DEF InitProcessors, Cpus!Next
<1>5. CASE video_initialise \/ Booted \/ CheckBooted
  BY <1>5 DEF video_initialise, Booted, CheckBooted
<1>6. CASE DumpInfo \/ StartKernel
  BY <1>6 DEF DumpInfo, StartKernel
<1>7. CASE ExitFirmware
  BY <1>7 DEF ExitFirmware, Memory!Next
<1>8. CASE InitClock
  BY <1>8 DEF InitClock, Time!Next
<1>9. CASE Firmware
  BY <1>9 DEF Firmware, Memory!Next
<1>10. CASE Interrupt
  BY <1>10 DEF Interrupt, Time!Next
<1>11. CASE UNCHANGED vars
  BY <1>11 DEF vars, memoryVars, smpVars, clockVars
<1> QED BY <1>1, <1>2, <1>3, <1>4, <1>5, <1>6, <1>7, <1>8, <1>9, <1>10, <1>11
        DEF Next, Bootstrap

LEMMA NextKeepsStageInv ==
  ASSUME StageInv, [Next]_vars
  PROVE  StageInv'
<1> USE DEF StageInv, Stages
<1>1. CASE LocateImage \/ CheckPaging
  BY <1>1 DEF LocateImage, CheckPaging, Stage
<1>2. CASE InitMemory
  BY <1>2 DEF InitMemory
<1>3. CASE acpi_intitialise
  <2>1. boot' \in Stages
    BY <1>3 DEF acpi_intitialise, Stage
  <2>2. keys' \subseteq AcpiNames \cup KernelNames
    BY <1>3 DEF acpi_intitialise, AcpiKeys, AcpiNames
  <2> QED BY <2>1, <2>2
<1>4. CASE InitProcessors
  BY <1>4 DEF InitProcessors
<1>5. CASE video_initialise
  BY <1>5 DEF video_initialise, Stage
<1>6. CASE Booted
  BY <1>6 DEF Booted, Stage
<1>7. CASE CheckBooted \/ DumpInfo \/ StartKernel
  BY <1>7 DEF CheckBooted, DumpInfo, StartKernel, Stage
<1>8. CASE ExitFirmware
  BY <1>8 DEF ExitFirmware
<1>9. CASE InitClock
  BY <1>9 DEF InitClock
<1>10. CASE Firmware \/ Interrupt
  BY <1>10 DEF Firmware, Interrupt
<1>11. CASE UNCHANGED vars
  BY <1>11 DEF vars
<1> QED BY <1>1, <1>2, <1>3, <1>4, <1>5, <1>6, <1>7, <1>8, <1>9, <1>10, <1>11
        DEF Next, Bootstrap

LEMMA InductiveInvariant == Spec => []IInv
<1>1. Init => IInv
  BY InitIInv
<1>2. IInv /\ [Next]_vars => IInv'
  <2> SUFFICES ASSUME IInv, [Next]_vars PROVE IInv'
    OBVIOUS
  <2>1. [Memory!Next]_memoryVars /\ [Cpus!Next]_smpVars /\ [Time!Next]_clockVars
    BY StepsOfComponents
  <2>2. MapInv'
    BY <2>1, MapNext, BootAssumption DEF IInv
  <2>3. SmpInv'
    BY <2>1, SmpNext, BootAssumption DEF IInv
  <2>4. ClockInv'
    BY <2>1, ClockNext, BootAssumption DEF IInv
  <2>5. StageInv'
    BY NextKeepsStageInv DEF IInv
  <2> QED BY <2>2, <2>3, <2>4, <2>5 DEF IInv
<1> QED BY <1>1, <1>2, PTL DEF Spec

\* The variables of the boot and of its three components keep to their types:
\* the firmware's map stays in order of address whatever is split or given back,
\* and the key read is never ahead of the firmware's.
THEOREM TypeCorrect == Spec => []TypeOK
<1>1. IInv => TypeOK
  BY DEF IInv, MapInv, SmpInv, ClockInv, StageInv, Stages, TypeOK
<1> QED BY <1>1, InductiveInvariant, PTL

\* When the kernel has left the boot services, no two regions overlap and every
\* page of a RAM region is one the firmware's last map calls usable.
THEOREM RamAlwaysOurs == Spec => []RamIsOurs
<1>1. IInv => RamIsOurs
  BY MapInvIsEnough DEF IInv, RamIsOurs
<1> QED BY <1>1, InductiveInvariant, PTL

\* Once the kernel relies on per-CPU data, a processor that runs kernel code finds
\* its own entry, inside the arrays, and no other entry is called good.
THEOREM PerCpuAlwaysRight == Spec => []PerCpuRight
<1>1. IInv => PerCpuRight
  BY DEF IInv, SmpInv, EntriesInv, PerCpuRight, Cpus!PerCpuRight, Cpus!this_cpu_id
<1> QED BY <1>1, InductiveInvariant, PTL

\* _enable_rtc_timer writes register B and no other, though the handler of the
\* RTC uses the same index port, and leaves the periodic interrupt on.
THEOREM RtcWritesAlwaysLand == Spec => []RtcWritesLand
<1>1. IInv => RtcWritesLand
  BY DEF IInv, ClockInv, RtcWritesLand
<1> QED BY <1>1, InductiveInvariant, PTL

-----------------------------------------------------------------------------
(* The page tables.                                                        *)

\* As long as nothing has been stored in frame 0, one way leads to each table,
\* and the frame of the kernel's own table is no table before it is made.
PagesInv ==
  /\ PagesTypeOK
  /\ ~wild => IsTree(tables)
  /\ kernel = Root => Fresh \notin DOMAIN tables

LEMMA PagesStart == PagesInit => PagesInv
<1> SUFFICES ASSUME PagesInit PROVE PagesInv
  OBVIOUS
<1>1. tables \in Mappings /\ kernel = Root /\ asked = <<>> /\ wild = FALSE
  BY DEF PagesInit
<1>2. \A f \in DOMAIN tables : tables[f] \in [Index -> Entry]
  BY <1>1, PageTablesAssumption
<1>3. Root \in DOMAIN tables /\ Fresh \notin DOMAIN tables /\ IsTree(tables)
  BY <1>1, PageTablesAssumption
<1> QED BY <1>1, <1>2, <1>3 DEF PagesInv, PagesTypeOK

\* An address is four places.
LEMMA AddressIs ==
  ASSUME NEW a, a \in Address
  PROVE  /\ a[1] \in Index /\ a[2] \in Index /\ a[3] \in Index /\ a[4] \in Index
         /\ a = <<a[1], a[2], a[3], a[4]>>
BY DEF Address

\* The tables on the ways of a map in which one way leads to each: they are
\* tables of the map, the page table of an address is none of those above a page
\* table, and it belongs to the addresses that agree in three places.
Unshared(map, a, b) ==
  /\ HasPdpt(map, b) => PML4E(map, b).frame \in DOMAIN map
  /\ HasPd(map, b) => PDPTE(map, b).frame \in DOMAIN map
  /\ HasTable(map, b) => PDE(map, b).frame \in DOMAIN map
  /\ HasTable(map, a) /\ PDE(map, a).frame # 0 =>
       /\ PDE(map, a).frame # Root
       /\ HasPdpt(map, b) => PML4E(map, b).frame # PDE(map, a).frame
       /\ HasPd(map, b) => PDPTE(map, b).frame # PDE(map, a).frame
       /\ HasTable(map, b) /\ PDE(map, b).frame = PDE(map, a).frame =>
            a[1] = b[1] /\ a[2] = b[2] /\ a[3] = b[3]

LEMMA TreeUnshared ==
  ASSUME NEW map, IsTree(map), NEW a, a \in Address, NEW b, b \in Address
  PROVE  Unshared(map, a, b)
<1> DEFINE Ways == UNION {Way(map, c) : c \in Address}
<1>1. \A m, n \in Ways : m.at \in DOMAIN map /\ (m.at = n.at /\ m.at # 0 => m = n)
  BY DEF IsTree
<1>2. Way(map, a) \subseteq Ways /\ Way(map, b) \subseteq Ways
  OBVIOUS
<1> DEFINE w1 == [level |-> 1, by |-> <<>>, at |-> Root]
           w2 == [level |-> 2, by |-> <<b[1]>>, at |-> PML4E(map, b).frame]
           w3 == [level |-> 3, by |-> <<b[1], b[2]>>, at |-> PDPTE(map, b).frame]
           w4 == [level |-> 4, by |-> <<b[1], b[2], b[3]>>, at |-> PDE(map, b).frame]
           u4 == [level |-> 4, by |-> <<a[1], a[2], a[3]>>, at |-> PDE(map, a).frame]
<1>3. /\ w1 \in Ways
      /\ HasPdpt(map, b) => w2 \in Ways
      /\ HasPd(map, b) => w3 \in Ways
      /\ HasTable(map, b) => w4 \in Ways
      /\ HasTable(map, a) => u4 \in Ways
  BY <1>2 DEF Way
<1> HIDE DEF Ways
<1>4. HasPdpt(map, b) => PML4E(map, b).frame \in DOMAIN map
  <2>1. w2.at = PML4E(map, b).frame
    OBVIOUS
  <2> HIDE DEF w2
  <2> QED BY <1>1, <1>3, <2>1
<1>5. HasPd(map, b) => PDPTE(map, b).frame \in DOMAIN map
  <2>1. w3.at = PDPTE(map, b).frame
    OBVIOUS
  <2> HIDE DEF w3
  <2> QED BY <1>1, <1>3, <2>1
<1>6. HasTable(map, b) => PDE(map, b).frame \in DOMAIN map
  <2>1. w4.at = PDE(map, b).frame
    OBVIOUS
  <2> HIDE DEF w4
  <2> QED BY <1>1, <1>3, <2>1
<1>7. ASSUME HasTable(map, a), PDE(map, a).frame # 0
      PROVE  /\ PDE(map, a).frame # Root
             /\ HasPdpt(map, b) => PML4E(map, b).frame # PDE(map, a).frame
             /\ HasPd(map, b) => PDPTE(map, b).frame # PDE(map, a).frame
             /\ HasTable(map, b) /\ PDE(map, b).frame = PDE(map, a).frame =>
                  a[1] = b[1] /\ a[2] = b[2] /\ a[3] = b[3]
  <2>1. \A n \in Ways : n.at = PDE(map, a).frame => n = u4
    <3>1. u4.at = PDE(map, a).frame
      OBVIOUS
    <3> HIDE DEF u4
    <3> QED BY <1>1, <1>3, <1>7, <3>1
  <2>2. u4.level = 4 /\ u4.by = <<a[1], a[2], a[3]>>
    OBVIOUS
  <2>3. w1.level = 1 /\ w1.at = Root /\ w2.level = 2 /\ w2.at = PML4E(map, b).frame
    OBVIOUS
  <2>4. w3.level = 3 /\ w3.at = PDPTE(map, b).frame /\ w4.at = PDE(map, b).frame
    OBVIOUS
  <2>5. w4.by = <<b[1], b[2], b[3]>>
    OBVIOUS
  <2> HIDE DEF w1, w2, w3, w4, u4
  <2>6. PDE(map, a).frame # Root
    BY <1>3, <2>1, <2>2, <2>3
  <2>7. HasPdpt(map, b) => PML4E(map, b).frame # PDE(map, a).frame
    BY <1>3, <2>1, <2>2, <2>3
  <2>8. HasPd(map, b) => PDPTE(map, b).frame # PDE(map, a).frame
    BY <1>3, <2>1, <2>2, <2>4
  <2>9. ASSUME HasTable(map, b), PDE(map, b).frame = PDE(map, a).frame
        PROVE  a[1] = b[1] /\ a[2] = b[2] /\ a[3] = b[3]
    <3>1. w4 = u4
      BY <1>3, <2>1, <2>4, <2>9
    <3>2. <<a[1], a[2], a[3]>> = <<b[1], b[2], b[3]>>
      BY <2>2, <2>5, <3>1
    <3> QED BY <3>2
  <2> QED BY <2>6, <2>7, <2>8, <2>9
<1> QED BY <1>4, <1>5, <1>6, <1>7 DEF Unshared

\* Two maps that agree on the upper tables of an address agree on its way.
SameWay(map, new, b) ==
  /\ HasPdpt(new, b) = HasPdpt(map, b) /\ HasPd(new, b) = HasPd(map, b)
  /\ HasTable(new, b) = HasTable(map, b)
  /\ PML4E(new, b) = PML4E(map, b)
  /\ HasPdpt(map, b) => PDPTE(new, b) = PDPTE(map, b)
  /\ HasPd(map, b) => PDE(new, b) = PDE(map, b)
  /\ Way(new, b) = Way(map, b)

LEMMA UpperTables ==
  ASSUME NEW map, NEW new, NEW b,
         new[Root] = map[Root],
         HasPdpt(map, b) => new[PML4E(map, b).frame] = map[PML4E(map, b).frame],
         HasPd(map, b) => new[PDPTE(map, b).frame] = map[PDPTE(map, b).frame]
  PROVE  SameWay(map, new, b)
<1>1. PML4E(new, b) = PML4E(map, b)
  BY DEF PML4E
<1>2. HasPdpt(new, b) = HasPdpt(map, b)
  BY <1>1 DEF HasPdpt
<1>3. HasPdpt(map, b) => PDPTE(new, b) = PDPTE(map, b)
  BY <1>1 DEF PDPTE
<1>4. HasPd(new, b) = HasPd(map, b)
  BY <1>2, <1>3 DEF HasPd
<1>5. HasPd(map, b) => PDE(new, b) = PDE(map, b)
  BY <1>3 DEF PDE, HasPd
<1>6. HasTable(new, b) = HasTable(map, b)
  BY <1>4, <1>5 DEF HasTable
<1>7. Way(new, b) = Way(map, b)
  <2>1. HasTable(map, b) => PDE(new, b) = PDE(map, b)
    BY <1>5 DEF HasTable
  <2>2. HasPd(map, b) => PDPTE(new, b) = PDPTE(map, b)
    BY <1>3 DEF HasPd
  <2> QED BY <1>1, <1>2, <1>4, <1>6, <2>1, <2>2 DEF Way
<1> QED BY <1>1, <1>2, <1>3, <1>4, <1>5, <1>6, <1>7 DEF SameWay

\* If all ways stay as they are, there is still one to each table.
LEMMA TreeStays ==
  ASSUME NEW map, NEW new, IsTree(map), DOMAIN map \subseteq DOMAIN new,
         \A b \in Address : SameWay(map, new, b)
  PROVE  IsTree(new)
<1>1. {Way(new, b) : b \in Address} = {Way(map, b) : b \in Address}
  BY DEF SameWay
<1>2. UNION {Way(new, b) : b \in Address} = UNION {Way(map, b) : b \in Address}
  BY <1>1
<1> DEFINE Old == UNION {Way(map, b) : b \in Address}
           Ways == UNION {Way(new, b) : b \in Address}
<1>3. \A m, n \in Old : m.at \in DOMAIN map /\ (m.at = n.at /\ m.at # 0 => m = n)
  BY DEF IsTree
<1>4. \A m, n \in Ways : m.at \in DOMAIN new /\ (m.at = n.at /\ m.at # 0 => m = n)
  <2> HIDE DEF Old, Ways
  <2>1. Ways = Old
    BY <1>2 DEF Ways, Old
  <2> QED BY <1>3, <2>1
<1> QED BY <1>4 DEF IsTree

\* What may become of an entry.
Allowed(old, new) ==
  \/ new = Nothing
  \/ new = [old EXCEPT !.rights = new.rights] /\ old.rights \subseteq new.rights

\* The entry after a change of protection.
LEMMA ProtectedEntry ==
  ASSUME NEW e \in Entry, NEW flags
  PROVE  /\ _prot_flags_to_page_flags(e, flags) \in Entry
         /\ Allowed(e, _prot_flags_to_page_flags(e, flags))
<1> DEFINE new == _prot_flags_to_page_flags(e, flags)
<1>1. CASE "noaccess" \in flags
  <2>1. new = Nothing
    BY <1>1 DEF _prot_flags_to_page_flags
  <2>2. Nothing \in Entry
    BY DEF Nothing, Entry
  <2> QED BY <2>1, <2>2 DEF Allowed
<1>2. CASE "noaccess" \notin flags
  <2> DEFINE added == (IF flags \cap {"readwrite", "execute_readwrite"} # {} /\ "readonly" \notin flags
                       THEN {"write"} ELSE {})
                      \cup (IF flags \cap {"execute_readwrite", "execute_read", "execute"} # {}
                            THEN {"execute"} ELSE {})
                      \cup (IF "nocache" \in flags THEN {"uncached"} ELSE {})
                      \cup (IF "writecombine" \in flags THEN {"through"} ELSE {})
  <2>1. new = [e EXCEPT !.rights = e.rights \cup added]
    BY <1>2 DEF _prot_flags_to_page_flags
  <2>2. added \subseteq Rights
    BY DEF Rights
  <2> HIDE DEF added
  <2>3. new \in Entry /\ new.rights = e.rights \cup added
    BY <2>1, <2>2 DEF Entry
  <2>4. new = [e EXCEPT !.rights = new.rights]
    BY <2>1, <2>3
  <2> QED BY <2>3, <2>4 DEF Allowed
<1> QED BY <1>1, <1>2

\* What a call for a page does that finds a page table at f other than frame 0.
LEMMA OneEntry ==
  ASSUME PagesInv, ~wild, NEW a \in Address, NEW flags,
         NEW f \in TableOf(a), f # 0,
         tables' = [tables EXCEPT ![f][PT_IDX(a)] = _prot_flags_to_page_flags(@, flags)]
  PROVE  /\ f = PDE(tables, a).frame /\ HasTable(tables, a)
         /\ f \in DOMAIN tables /\ tables[f] \in [Index -> Entry]
         /\ tables' = [tables EXCEPT ![f] = [tables[f] EXCEPT ![a[4]] =
                         _prot_flags_to_page_flags(tables[f][a[4]], flags)]]
         /\ \A b \in Address : SameWay(tables, tables', b)
<1>1. f = PDE(tables, a).frame /\ HasTable(tables, a)
  BY DEF TableOf
<1>2. IsTree(tables)
  BY DEF PagesInv
<1>3. f \in DOMAIN tables
  BY <1>1, <1>2, TreeUnshared DEF Unshared
<1>4. tables[f] \in [Index -> Entry]
  BY <1>3 DEF PagesInv, PagesTypeOK
<1>5. tables' = [tables EXCEPT ![f] = [tables[f] EXCEPT ![a[4]] =
                         _prot_flags_to_page_flags(tables[f][a[4]], flags)]]
  BY DEF PT_IDX
<1>6. ASSUME NEW b \in Address PROVE SameWay(tables, tables', b)
  <2>1. Unshared(tables, a, b)
    BY <1>2, TreeUnshared
  <2>2. \A g : g # f => tables'[g] = tables[g]
    BY <1>5
  <2>3. Root # f
    BY <1>1, <2>1 DEF Unshared
  <2>4. HasPdpt(tables, b) => PML4E(tables, b).frame # f
    BY <1>1, <2>1 DEF Unshared
  <2>5. HasPd(tables, b) => PDPTE(tables, b).frame # f
    BY <1>1, <2>1 DEF Unshared
  <2>6. /\ tables'[Root] = tables[Root]
        /\ HasPdpt(tables, b) => tables'[PML4E(tables, b).frame] = tables[PML4E(tables, b).frame]
        /\ HasPd(tables, b) => tables'[PDPTE(tables, b).frame] = tables[PDPTE(tables, b).frame]
    BY <2>2, <2>3, <2>4, <2>5
  <2> QED BY <2>6, UpperTables
<1> QED BY <1>1, <1>3, <1>4, <1>5, <1>6

\* What a step may do to the way to an address.
KeepsOthers(a) ==
  Walk(tables', a) # Walk(tables, a) =>
    asked' = a /\ Allowed(Walk(tables, a)[4], Walk(tables', a)[4])

\* A walk to a page that has a table is of four entries.
LEMMA WholeWalk ==
  ASSUME NEW map, NEW b, HasTable(map, b)
  PROVE  Walk(map, b)[4] = map[PDE(map, b).frame][b[4]]
<1>1. HasPd(map, b) /\ HasPdpt(map, b)
  BY DEF HasTable, HasPd
<1> DEFINE x == PML4E(map, b)
           y == PDPTE(map, b)
           z == PDE(map, b)
           e == map[PDE(map, b).frame][b[4]]
<1>2. Walk(map, b) = <<x>> \o <<y>> \o <<z>> \o <<e>>
  BY <1>1 DEF Walk
<1> HIDE DEF x, y, z, e
<1>3. (<<x>> \o <<y>> \o <<z>> \o <<e>>)[4] = e
  OBVIOUS
<1> QED BY <1>2, <1>3 DEF e

LEMMA SameWalk ==
  ASSUME NEW map, NEW new, NEW b, SameWay(map, new, b),
         HasTable(map, b) => new[PDE(map, b).frame][b[4]] = map[PDE(map, b).frame][b[4]]
  PROVE  Walk(new, b) = Walk(map, b)
<1>1. HasPd(map, b) => HasPdpt(map, b)
  BY DEF HasPd
<1>2. HasTable(map, b) => HasPd(map, b)
  BY DEF HasTable
<1>3. HasTable(map, b) => new[PDE(new, b).frame][b[4]] = map[PDE(map, b).frame][b[4]]
  BY <1>2 DEF SameWay
<1>4. (IF HasPdpt(new, b) THEN <<PDPTE(new, b)>> ELSE <<>>)
        = (IF HasPdpt(map, b) THEN <<PDPTE(map, b)>> ELSE <<>>)
  BY DEF SameWay
<1>5. (IF HasPd(new, b) THEN <<PDE(new, b)>> ELSE <<>>)
        = (IF HasPd(map, b) THEN <<PDE(map, b)>> ELSE <<>>)
  BY DEF SameWay
<1>6. (IF HasTable(new, b) THEN <<new[PDE(new, b).frame][b[4]]>> ELSE <<>>)
        = (IF HasTable(map, b) THEN <<map[PDE(map, b).frame][b[4]]>> ELSE <<>>)
  BY <1>3 DEF SameWay
<1>7. PML4E(new, b) = PML4E(map, b)
  BY DEF SameWay
<1> QED BY <1>4, <1>5, <1>6, <1>7 DEF Walk

LEMMA ProtectStep ==
  ASSUME PagesInv, NEW a \in Address, NEW flags \in SUBSET Flags, pagetables_protect_page(a, flags)
  PROVE  PagesInv' /\ (~wild' => \A b \in Address : KeepsOthers(b))
<1>1. asked' = a /\ kernel' = kernel
  BY DEF pagetables_protect_page
<1>2. CASE TableOf(a) = {} /\ UNCHANGED <<tables, wild>>
  <2>1. PagesInv'
    BY <1>1, <1>2 DEF PagesInv, PagesTypeOK
  <2>2. \A b \in Address : Walk(tables', b) = Walk(tables, b)
    BY <1>2 DEF Walk
  <2> QED BY <2>1, <2>2 DEF KeepsOthers
<1>3. ASSUME NEW f \in TableOf(a),
             tables' = [tables EXCEPT ![f][PT_IDX(a)] = _prot_flags_to_page_flags(@, flags)],
             wild' = (wild \/ f = 0)
      PROVE  PagesInv' /\ (~wild' => \A b \in Address : KeepsOthers(b))
  <2>1. a[4] \in Index
    BY AddressIs
  <2>2. DOMAIN tables' = DOMAIN tables
    BY <1>3
  <2>3. \A g \in DOMAIN tables : tables[g] \in [Index -> Entry]
    BY DEF PagesInv, PagesTypeOK
  <2>4. \A g \in DOMAIN tables' : tables'[g] \in [Index -> Entry]
    <3>1. SUFFICES ASSUME NEW g \in DOMAIN tables PROVE tables'[g] \in [Index -> Entry]
      BY <2>2
    <3>2. CASE g # f
      BY <1>3, <2>3, <3>2
    <3>3. CASE g = f
      <4>1. tables[f][a[4]] \in Entry
        BY <2>1, <2>3, <3>3
      <4>2. _prot_flags_to_page_flags(tables[f][a[4]], flags) \in Entry
        BY <4>1, ProtectedEntry
      <4>3. tables'[g] = [tables[f] EXCEPT ![a[4]] = _prot_flags_to_page_flags(tables[f][a[4]], flags)]
        BY <1>3, <3>3 DEF PT_IDX
      <4>4. \A h, e : h \in [Index -> Entry] /\ e \in Entry => [h EXCEPT ![a[4]] = e] \in [Index -> Entry]
        OBVIOUS
      <4> QED BY <2>3, <3>3, <4>2, <4>3, <4>4
    <3> QED BY <3>2, <3>3
  <2>5. PagesTypeOK'
    <3>1. kernel' \in DOMAIN tables'
      BY <1>1, <2>2 DEF PagesInv, PagesTypeOK
    <3>2. asked' \in Address \cup {<<>>}
      BY <1>1
    <3>3. wild' \in BOOLEAN
      BY <1>3
    <3> QED BY <2>4, <3>1, <3>2, <3>3 DEF PagesTypeOK
  <2>6. kernel' = Root => Fresh \notin DOMAIN tables'
    BY <1>1, <2>2 DEF PagesInv
  <2>7. CASE wild'
    BY <2>5, <2>6, <2>7 DEF PagesInv
  <2>8. CASE ~wild'
    <3>1. ~wild /\ f # 0
      BY <1>3, <2>8
    <3>2. /\ f = PDE(tables, a).frame /\ HasTable(tables, a)
          /\ f \in DOMAIN tables /\ tables[f] \in [Index -> Entry]
          /\ tables' = [tables EXCEPT ![f] = [tables[f] EXCEPT ![a[4]] =
                          _prot_flags_to_page_flags(tables[f][a[4]], flags)]]
          /\ \A b \in Address : SameWay(tables, tables', b)
      BY <1>3, <3>1, OneEntry
    <3>3. IsTree(tables)
      BY <3>1 DEF PagesInv
    <3>4. IsTree(tables')
      BY <2>2, <3>2, <3>3, TreeStays
    <3>5. ASSUME NEW b \in Address PROVE KeepsOthers(b)
      <4>1. SameWay(tables, tables', b)
        BY <3>2
      <4>2. CASE b = a
        <5>1. tables'[f][a[4]] = _prot_flags_to_page_flags(tables[f][a[4]], flags)
          BY <2>1, <3>2
        <5>2. Walk(tables, a)[4] = tables[f][a[4]]
          BY <3>2, WholeWalk
        <5>3. HasTable(tables', a) /\ PDE(tables', a) = PDE(tables, a)
          BY <3>2, <4>1, <4>2 DEF SameWay, HasTable
        <5>4. Walk(tables', a)[4] = tables'[f][a[4]]
          BY <3>2, <5>3, WholeWalk
        <5>5. tables[f][a[4]] \in Entry
          BY <2>1, <3>2
        <5> QED BY <1>1, <4>2, <5>1, <5>2, <5>4, <5>5, ProtectedEntry DEF KeepsOthers
      <4>3. CASE b # a
        <5>1. ASSUME HasTable(tables, b)
              PROVE  tables'[PDE(tables, b).frame][b[4]] = tables[PDE(tables, b).frame][b[4]]
          <6>1. CASE PDE(tables, b).frame # f
            BY <3>2, <6>1
          <6>2. CASE PDE(tables, b).frame = f
            <7>1. Unshared(tables, a, b)
              BY <3>3, TreeUnshared
            <7>2. a[1] = b[1] /\ a[2] = b[2] /\ a[3] = b[3]
              BY <3>1, <3>2, <5>1, <6>2, <7>1 DEF Unshared
            <7>3. a[4] # b[4]
              BY <4>3, <7>2, AddressIs
            <7> QED BY <3>2, <6>2, <7>3
          <6> QED BY <6>1, <6>2
        <5>2. Walk(tables', b) = Walk(tables, b)
          BY <4>1, <5>1, SameWalk
        <5> QED BY <5>2 DEF KeepsOthers
      <4> QED BY <4>2, <4>3
    <3> QED BY <2>5, <2>6, <3>4, <3>5 DEF PagesInv
  <2> QED BY <2>7, <2>8
<1> QED BY <1>2, <1>3 DEF pagetables_protect_page

LEMMA OwnTableStep ==
  ASSUME PagesInv, pagetables_runtime_init
  PROVE  PagesInv' /\ (~wild' => \A b \in Address : KeepsOthers(b))
<1>1. kernel = Root /\ kernel' = Fresh /\ asked' = asked /\ wild' = wild /\ Fresh \notin DOMAIN tables
  BY DEF pagetables_runtime_init, PagesInv
<1>2. DOMAIN tables' = DOMAIN tables \cup {Fresh}
  BY DEF pagetables_runtime_init
<1>3. \A f \in DOMAIN tables : tables'[f] = tables[f]
  BY <1>1 DEF pagetables_runtime_init
<1>4. tables'[Fresh] \in [Index -> Entry]
  <2> DEFINE first == [present |-> TRUE, huge |-> TRUE, frame |-> 0, rights |-> Rights \ {"execute"}]
  <2>1. first \in Entry /\ Nothing \in Entry
    BY DEF Entry, Nothing
  <2>2. tables'[Fresh] = [i \in Index |-> IF i = 0 THEN first ELSE Nothing]
    BY DEF pagetables_runtime_init
  <2> HIDE DEF first
  <2> QED BY <2>1, <2>2
<1>5. PagesTypeOK'
  <2>1. \A f \in DOMAIN tables' : tables'[f] \in [Index -> Entry]
    BY <1>2, <1>3, <1>4 DEF PagesInv, PagesTypeOK
  <2> QED BY <1>1, <1>2, <2>1 DEF PagesInv, PagesTypeOK
<1>6. Root # Fresh
  BY <1>1 DEF PagesInv, PagesTypeOK
<1>7. ASSUME ~wild, NEW b \in Address
      PROVE  SameWay(tables, tables', b) /\ Walk(tables', b) = Walk(tables, b)
  <2>1. Unshared(tables, b, b)
    BY <1>7, TreeUnshared DEF PagesInv
  <2>2. Root \in DOMAIN tables
    BY <1>1 DEF PagesInv, PagesTypeOK
  <2>3. SameWay(tables, tables', b)
    BY <1>3, <2>1, <2>2, UpperTables DEF Unshared
  <2>4. HasTable(tables, b) => tables'[PDE(tables, b).frame] = tables[PDE(tables, b).frame]
    BY <1>3, <2>1 DEF Unshared
  <2> QED BY <2>3, <2>4, SameWalk
<1>8. ~wild' => IsTree(tables')
  <2> SUFFICES ASSUME ~wild' PROVE IsTree(tables')
    OBVIOUS
  <2>1. \A b \in Address : SameWay(tables, tables', b)
    BY <1>1, <1>7
  <2> QED BY <1>1, <1>2, <2>1, TreeStays DEF PagesInv
<1>9. ~wild' => \A b \in Address : KeepsOthers(b)
  BY <1>1, <1>7 DEF KeepsOthers
<1> QED BY <1>1, <1>5, <1>6, <1>8, <1>9 DEF PagesInv

LEMMA PagesStep ==
  ASSUME PagesInv, [PagesNext]_pageVars
  PROVE  PagesInv' /\ (~wild' => \A b \in Address : KeepsOthers(b))
<1>1. CASE PagesNext
  <2>1. ASSUME NEW a \in Protected, NEW flags \in Asked, pagetables_protect_page(a, flags)
        PROVE  PagesInv' /\ (~wild' => \A b \in Address : KeepsOthers(b))
    <3>1. a \in Address /\ flags \in SUBSET Flags
      BY PageTablesAssumption
    <3> QED BY <2>1, <3>1, ProtectStep
  <2> QED BY <1>1, <2>1, OwnTableStep DEF PagesNext
<1>2. CASE UNCHANGED pageVars
  <2>1. PagesInv'
    BY <1>2 DEF pageVars, PagesInv, PagesTypeOK
  <2>2. \A b \in Address : Walk(tables', b) = Walk(tables, b)
    BY <1>2 DEF pageVars, Walk
  <2> QED BY <2>1, <2>2 DEF KeepsOthers
<1> QED BY <1>1, <1>2

\* Every reachable state of the page tables has its type.
THEOREM PagesTypeCorrect == PagesSpec => []PagesTypeOK
<1>1. PagesInv => PagesTypeOK
  BY DEF PagesInv
<1>2. PagesInv /\ [PagesNext]_pageVars => PagesInv'
  BY PagesStep
<1> QED BY <1>1, <1>2, PagesStart, PTL DEF PagesSpec

\* Protecting a page changes the way to that page alone, in tables of any size,
\* as long as each table is under one entry and no address under an absent table
\* has been protected: what pagetables_protect_page must do to the one entry it
\* stores.
THEOREM AlwaysProtectsOnePage == PagesSpec => ProtectsOnePage
<1>1. PagesInv /\ [PagesNext]_pageVars =>
        [~wild' => \A a \in Address :
           Walk(tables', a) # Walk(tables, a) =>
             /\ asked' = a
             /\ LET old == Walk(tables, a)[4]
                    new == Walk(tables', a)[4]
                IN  \/ new = Nothing
                    \/ new = [old EXCEPT !.rights = new.rights] /\ old.rights \subseteq new.rights
        ]_pageVars
  BY PagesStep, Zenon DEF KeepsOthers, Allowed
<1>2. PagesInv /\ [PagesNext]_pageVars => PagesInv'
  BY PagesStep
<1> QED BY <1>1, <1>2, PagesStart, PTL DEF PagesSpec, ProtectsOnePage

=============================================================================
