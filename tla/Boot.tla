-------------------------------- MODULE Boot --------------------------------
(***************************************************************************)
(* The way from efi_main to the idle task (efi_boot_loader.c, kernel.c),   *)
(* put together from the memory map, the processors and the clock.  Every  *)
(* stage that can fail does so in uefi_panic, which halts, or in an        *)
(* assertion, which nobody catches before the debugger is there.           *)
(***************************************************************************)
EXTENDS Integers, Sequences

CONSTANTS
  Maps, Garbage, HeapPages, MaxChanges,   \* of the memory map
  MaxProcessors, Handles,                 \* of the processors
  Tries,                                  \* of the clock
  ModeLists                               \* the video modes there may be

VARIABLES
  firmware, version, changes, room, key, regions, mm,
  sm, handle, bsp, count, processors, gs, ran, at, stray,
  ck, measured, iflag, handled, counting, index, periodic, armed, landed, waited,
  boot,   \* the stage
  keys    \* the names set in the kernel's hive

memoryVars == <<firmware, version, changes, room, key, regions, mm>>
smpVars    == <<sm, handle, bsp, count, processors, gs, ran, at, stray>>
clockVars  == <<ck, measured, iflag, handled, counting, index, periodic, armed, landed, waited>>
vars       == <<memoryVars, smpVars, clockVars, boot, keys>>

Memory == INSTANCE MemoryMap
Cpus   == INSTANCE Smp
Time   == INSTANCE Clock

ASSUME BootAssumption ==
  /\ Memory!MemoryMapAssumption /\ Cpus!SmpAssumption /\ Time!ClockAssumption
  /\ \A modes \in ModeLists : modes \in Seq([width : Nat, rgb : BOOLEAN])

Init ==
  /\ Memory!Init /\ Cpus!Init /\ Time!Init
  /\ boot = "image" /\ keys = {}

-----------------------------------------------------------------------------
Stage(from, to) == boot = from /\ boot' = to

\* uefi_init finds the loaded image.
LocateImage ==
  /\ Stage("image", "tables") \/ Stage("image", "halted")
  /\ UNCHANGED <<memoryVars, smpVars, clockVars, keys>>

\* pagetables_uefi_initialise, and the serial port.
CheckPaging ==
  /\ Stage("tables", "memory") \/ Stage("tables", "asserted")
  /\ UNCHANGED <<memoryVars, smpVars, clockVars, keys>>

\* memory_uefi_init, the two pools and the hive.
InitMemory ==
  /\ boot = "memory" /\ Memory!memory_uefi_init
  /\ boot' = CASE mm' = "up"       -> "acpi"
               [] mm' = "asserted" -> "asserted"
               [] OTHER            -> "memory"
  /\ UNCHANGED <<smpVars, clockVars, keys>>

\* The names the kernel's hive may have.
AcpiNames   == {"acpi:config_table_entries", "sdt:1.0", "sdt:2.0",
                "MADT", "HPET", "BGRT"}
KernelNames == {"kernel:pool", "kernel:heap", "kernel:hive_boot_size", "kernel:booted"}

\* The keys that acpi_intitialise sets: of the second version only with a good
\* signature and a good checksum, and then of the tables it lists.
AcpiKeys(first, second, good, listed) ==
  {"acpi:config_table_entries"}
  \cup (IF first THEN {"sdt:1.0"} ELSE {})
  \cup (IF second /\ good THEN {"sdt:2.0"} \cup listed ELSE {})

acpi_intitialise ==
  /\ Stage("acpi", "smp")
  /\ \E first, second, good \in BOOLEAN, listed \in {{"MADT", "HPET", "BGRT"}} :
       keys' = keys \cup AcpiKeys(first, second, good, listed)
  /\ UNCHANGED <<memoryVars, smpVars, clockVars>>

InitProcessors ==
  /\ boot = "smp" /\ Cpus!smp_initialise
  /\ boot' = CASE sm' = "up"     -> "video"
               [] sm' = "failed" -> "halted"
               [] OTHER          -> "smp"
  /\ UNCHANGED <<memoryVars, clockVars, keys>>

\* VIDEO_MAX_HORIZ_RES, and the mode taken: the first of the widest that fit.
MaxWidth == 1024
Fits(modes)  == {m \in DOMAIN modes : modes[m].rgb /\ modes[m].width \in 1 .. MaxWidth}
Found(modes) == {m \in Fits(modes) : \A n \in Fits(modes) :
                   modes[n].width < modes[m].width \/ (modes[n].width = modes[m].width /\ m <= n)}

\* Without a mode the status is that of the query after the last one, an error.
video_initialise ==
  /\ \E modes \in ModeLists, set \in BOOLEAN :
       Stage("video", IF Found(modes) # {} /\ set THEN "booted" ELSE "halted")
  /\ UNCHANGED <<memoryVars, smpVars, clockVars, keys>>

\* The rest of kernel_uefi_init and uefi_init.
Booted ==
  /\ Stage("booted", "check")
  /\ keys' = keys \cup KernelNames
  /\ UNCHANGED <<memoryVars, smpVars, clockVars>>

\* efi_main asks the hive whether the kernel has booted.
CheckBooted ==
  /\ Stage("check", IF "kernel:booted" \in keys THEN "dump" ELSE "halted")
  /\ UNCHANGED <<memoryVars, smpVars, clockVars, keys>>

\* dump_some_system_info asks for the number of processors.
DumpInfo ==
  /\ Stage("dump", IF count = 0 THEN "asserted" ELSE "exit")
  /\ UNCHANGED <<memoryVars, smpVars, clockVars, keys>>

\* memory_runtime_init, then interrupts_initialise_early and debugger_initialise.
ExitFirmware ==
  /\ boot = "exit" /\ Memory!memory_runtime_init
  /\ boot' = CASE mm' = "exited"  -> "clock"
               [] mm' = "refused" -> "halted"
               [] OTHER           -> "exit"
  /\ UNCHANGED <<smpVars, clockVars, keys>>

\* The clock, and after it the keyboard and the tasks.
InitClock ==
  /\ boot = "clock" /\ Time!clock_initialise
  /\ boot' = IF ck' = "up" THEN "connect" ELSE "clock"
  /\ UNCHANGED <<memoryVars, smpVars, keys>>

\* start_debugger, kernel_runtime_start.
StartKernel ==
  /\ Stage("connect", "running")
  /\ UNCHANGED <<memoryVars, smpVars, clockVars, keys>>

Firmware ==
  /\ boot \notin {"clock", "connect", "running", "halted", "asserted"}
  /\ Memory!FirmwareChanges
  /\ UNCHANGED <<smpVars, clockVars, boot, keys>>

Interrupt ==
  /\ boot \notin {"halted", "asserted"}
  /\ Time!Irq0 \/ Time!Irq8
  /\ UNCHANGED <<memoryVars, smpVars, boot, keys>>

Bootstrap ==
  \/ LocateImage \/ CheckPaging \/ InitMemory \/ acpi_intitialise \/ InitProcessors
  \/ video_initialise \/ Booted \/ CheckBooted \/ DumpInfo \/ ExitFirmware \/ InitClock

Next == Bootstrap \/ StartKernel \/ Firmware \/ Interrupt

\* The processor goes on, and the PIT ticks.  Nothing makes a debugger connect.
Fairness == WF_vars(Bootstrap) /\ WF_vars(Time!Irq0 /\ Interrupt)

Spec == Init /\ [][Next]_vars /\ Fairness

-----------------------------------------------------------------------------
TypeOK ==
  /\ Memory!TypeOK /\ Cpus!TypeOK /\ Time!TypeOK
  /\ boot \in {"image", "tables", "memory", "acpi", "smp", "video", "booted", "check", "dump",
               "exit", "clock", "connect", "running", "halted", "asserted"}
  /\ keys \subseteq AcpiNames \cup KernelNames

\* What RamIsOurs says of the memory map, PerCpuRight of the processors and
\* RtcWritesLand of the clock, as the boot takes them through their stages.
RamIsOurs     == Memory!RamIsOurs
PerCpuRight   == Cpus!PerCpuRight
RtcWritesLand == Time!RtcWritesLand

\* Every boot comes to an end: it waits for the debugger or runs, or says why not.
BootEnds == <>(boot \in {"connect", "running", "halted", "asserted"})

=============================================================================
