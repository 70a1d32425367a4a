# josx64 in TLA+

A verification project for josx64, a small 64-bit UEFI kernel in C and assembly.
It models the kernel's control logic from the boot loader to the debugger and the
parts of its C library that write, read and search, checks them with TLC on small
instances, and proves the invariants of the scheduler, the interrupt dispatch, the
keyboard, the debugger, the console, the page tables and the boot with its memory
map, its processors and its clock, and seven refinements (the scheduler, the four
allocators, the queue and the vector), with TLAPS for instances of any size. Line
numbers are those of the repository's sources; the map from definitions to lines is in `PROJECT.json`.

## The system

josx64 is loaded by UEFI firmware. `efi_boot_loader.c` calls the `*_uefi_init`
functions while boot services exist, then `kernel_runtime_init` leaves boot
services, sets up interrupts, clock, keyboard, SMP data and tasks, and
`kernel_runtime_start` creates the task of `main` and starts the idle task. From
there on the boot processor runs cooperative tasks, and interrupt handlers
interrupt them. The application processors are enumerated but run nothing.

| component | state | operations | interacts through |
|---|---|---|---|
| task scheduler (`tasks.c`, `x86_64.asm`) | three ready queues, `_running_task`, the stack pointer and XSAVE area of each context | `tasks_create`, `tasks_yield`, `_task_wrapper`, `tasks_start_idle`, `x86_64_task_switch` | per-CPU data at `gs:0`; the pool for contexts |
| spinlock (`kernel.h`, `atomic.h`) | one word | `lock_spinlock`, `lock_unlock` | any CPU or handler |
| IRQ dispatch (`interrupts.c`, `i8259a.c`) | handler table, mask registers, `_i8259a_irq_mask` | `interrupts_irq_handler`, `interrupts_set_irq_handler`, `i8259a_enable_irq`, `i8259a_disable_irq`, `i8259a_send_eoi` | calls the handlers of clock and keyboard |
| keyboard (`keyboard.c`) | a stack of scan codes, modifier flags, a lock | `_irq_1_handler`, `keyboard_has_key`, `keyboard_get_last_key` | IRQ 1; tasks that poll |
| clock (`clock.c`, `i8253.c`) | tick counters, the RTC's index register | `_irq_0_handler`, `_irq_8_handler`, `clock_get_ms_since_boot` | IRQ 0 and 8 |
| SMP (`smp.c`) | the processor array, per-CPU data | `smp_initialise`, `per_cpu_*` | the firmware's multi-processor protocol; gives the scheduler its queues |
| allocators (`linear_`, `arena_`, `fixed_allocator.h`, `bb_page_allocator.h`) | a pointer, a list of blocks with headers and tails, a list through free blocks, lists of page blocks with buddy tags | alloc, realloc, free | every component takes memory from a pool |
| collections (`collections.h`, `binary_search_tree.h`, `hive.h`) | vector, queue, unordered map, paged list, tree, key-value store | insert, remove, look up | the debugger keeps its breakpoints in a vector |
| memory map (`memory.c`, `pagetables.c`) | UEFI regions, page tables | map reading and merging, pool creation, page walks | boot loader, debugger |
| boot (`efi_boot_loader.c`, `kernel.c`) | how far it has come, the hive | `efi_main`, `kernel_uefi_init`, `kernel_runtime_init` | calls every component's start-up in turn |
| debugger (`debugger.c`, exceptions in `interrupts.c`) | breakpoints, the last one hit, the packet protocol | the int 3 and trap handlers, `_debugger_loop` | serial port, exceptions |
| output (`output_console.c`, `video.c`, `hex_dump.c`, `serial.c`, `trace.c`) | cursor, colours, scroll region | printing | every component |
| tables (`acpi.c`, `apic.c`, `pe.c`) | none that changes after start | parsing | SMP, debugger |
| C library (`src/libc`) | the symbol index; a JSON writer's context | `snprintf`, `strtol`, base64, JSON, `pdb_index_*`, slices | every component; the debugger's packets |

### What is hard, and what makes each part correct

* **Scheduler.** The ready queues of a CPU are lists through one `_next` field
  per context, with a `_tail` that points back at a sentinel; which context is
  put back depends on `_running_task`, which is null after a task has returned.
  Correct means: the lists stay lists, no task is lost or run after its end, the
  saved stacks and extended state are those of the right task, and a ready task
  runs eventually.
* **IRQ dispatch.** Handlers run with interrupts on and nest; the boot code
  changes the mask registers by read and write while handlers do the same.
  Correct means: a handler never interrupts itself, a mask bit is never lost,
  a request is never dropped, and every line is served.
* **Keyboard.** Handler and task share a counter and a buffer and take the same
  lock on one CPU. Correct means: no code lost or read twice but by the one race the
  code leaves open, no access outside the buffer, no deadlock, no byte left in the
  controller.
* **Allocators and collections.** Sequential; what is hard is that a long
  sequence of calls keeps blocks disjoint, free lists acyclic and counts right,
  and that iterators see everything once.
* **Debugger.** A protocol with the other end of the serial line over a list of
  breakpoints, each with the instruction byte it has replaced, while the program
  steps over them. Correct means: the program executes its own instructions, in
  order, and every breakpoint can be taken back.
* **Boot.** The firmware may change the memory map under the kernel and may
  refuse anything; the clock's port is shared with its handler. Correct means:
  memory that is called RAM is, each processor finds its own data, and the boot
  ends.
* **Library.** What one function writes another reads back: numbers, packets in
  base64 and JSON, a symbol listing cut into chunks at any place.

## Modules

| module | models | kind |
|---|---|---|
| `TaskLifecycle` | what cooperative tasks promise, without queues, priorities or stacks | abstract specification |
| `Tasks` | the scheduler of one CPU | detailed, implements `TaskLifecycle` |
| `TasksProofs` | lemmas on the queues, the inductive invariant, the theorems; `Tasks` implements `TaskLifecycle` | proofs |
| `Spinlock` | `lock_t` on the compare-and-exchange of `atomic.h` | detailed |
| `Interrupts` | both 8259A controllers, the dispatch, the registration of handlers | detailed |
| `MCInterrupts` | the lines the kernel registers | instance for TLC |
| `InterruptsProofs` | the stack of handlers, the races on the masks | proofs |
| `Keyboard` | the handler of IRQ 1 and its readers | detailed |
| `KeyboardProofs` | the type of its state, the key a check has promised, how many codes the race can lose or double | proofs |
| `Heap` | what `generic_allocator_t` promises | abstract specification |
| `LinearAllocator`, `FixedAllocator`, `ArenaAllocator`, `PageAllocator` | the four allocators, on addresses | detailed, implement `Heap` |
| `Allocators` | whichever of the four is at work implements `Heap` | composes the four allocators |
| `AllocatorProofs` | each allocator, and the four together, implement `Heap`; the arena's blocks, and the arena used as a stack; the pages of the page allocator | proofs |
| `Calls` | the latest call of a collection, a history | used by the collections and the next two |
| `Sequence`, `Dictionary` | what the collections promise: the effect of each call | abstract specifications |
| `Vector` | the operations of `vector_t` as operators | used by the next five |
| `VectorUse`, `Queue`, `PagedList` | two vectors, a ring, a list of pages | detailed, implement `Sequence` |
| `LibraryProofs` | queue and vector implement `Sequence`; the console keeps what is written | proofs |
| `UnorderedMap`, `Hive`, `SearchTree` | slots of vectors, the key-value store over them, a tree with rotations | detailed, implement `Dictionary` |
| `Debugger` | breakpoints, traps, the command loop, the connection | detailed |
| `DebuggerProofs` | the bytes behind breakpoints, the program's order, the identification | proofs |
| `MemoryMap`, `Smp`, `Clock` | reading the firmware's map and leaving boot services; the start of the processors; PIT and RTC | detailed |
| `PageTables` | the walk, protection, the kernel's own tables | detailed |
| `Boot` | the stages from `efi_main` to the idle task | composes `MemoryMap`, `Smp` and `Clock` |
| `BootProofs` | the invariants of memory map, processors and clock, and of their composition; the page tables | proofs |
| `DataFacts` | least numbers, induction, functions defined by recursion, lists changed, shortened, joined and taken apart | lemmas of the proofs |
| `Text`, `Base64`, `Json`, `PdbIndex` | writers and readers of the library | detailed |
| `Console` | regions, cursor, line breaks, scrolling | detailed |
| `MCAllocators`, `MCCollections`, `MCDebugger`, `MCBoot`, `MCLibc` | the small instances | instances for TLC |

`Tasks`, `Spinlock` and `Keyboard` need no such module: their `.cfg` files give the
constants their values.

An `MC` module over several components has a variable `which`: a behaviour runs
one of them, the others stand still. The allocators share nothing, nor do the
collections, so nothing is lost by it. `MCBoot` extends `Boot` and `PageTables`: its
variable `which` says whether a behaviour is the whole boot, the memory map on its
own with more changes by the firmware, or the page tables. `MCAllocators` extends
`Allocators`, which extends `ArenaAllocator`, and `MCLibc` extends `Console` in the
same way, so that the properties they check are those the theorems state. A module that is instantiated states its assumptions on its constants as a definition
(`LinearAssumption`, ...), which the module that instantiates it assumes:
`BootAssumption` is an `ASSUME` and includes those of the three components. A
module that is extended assumes what it needs itself.

Operators whose comment begins with "Variant:" are used by no specification.
Each is a plausible mistake in the definition that follows it, and is there to
show that a property would notice the mistake; `PROJECT.json` lists the pairs
under "mutants".

### Tasks

A step is a whole call: the scheduler's functions reach only the data of the CPU
they run on, no handler calls one, and a task keeps the CPU until it yields or
returns. `next` and `tail` are the `_next` and `_tail` fields; a level stands for
the address of its sentinel, so `tail[p] = p` is the empty queue. `running` is
`_running_task`, while `onCpu` is who really executes; that the two agree is a
property. `saved` are the contexts with a frame to resume, and `xarea` and `fpu`
say whose extended state the XSAVE areas and the registers hold.

`tasks_create` does not set `_pri`; the context comes out of the pool's memory.
`FreshPri` is the set of values it may find there. `YieldTo(p)` is
`_yield_to_next_task` with a next task on level `p`; it puts the running task on
level `p`, as the code does, and not on the task's own. `ReturnToIdle` is the
last branch of `_yield_to_next_task`, reached when a task returns with nothing
queued: it stores through a null task pointer, so the model either goes on in
the idle task or faults for ever, as low memory is mapped or not.

The XSAVE area of a new context is left as the pool's memory was; `Init` takes that for
the state the task starts with. `order` holds each queue as a sequence and `asked` the priority a task was
created with. Both are auxiliary: no guard reads them.

### Spinlock

A step is one access to the word. `atomic_compare_exchange_weak` returns the
value it found, 0 when it has taken the lock; `LeavesLoop` is the loop condition
of `lock_spinlock` on that value.

### Interrupts

`masked` are the bits of the mask registers, `irqMask` is the variable that
mirrors them, `stack` the nest of active handlers. The controllers themselves
are hardware: priorities, acknowledge and non-specific EOI follow the way
`i8259a_initialise` programs them and are marked external. A stretch of code
with interrupts off is one step; `i8259a_enable_irq` runs with interrupts on when
the boot code calls it, and is one step per access (`ReadMask`, `WriteMask`,
`ReadIrqMask`, `WriteIrqMask`). The boot code only steps while no handler is
active and none is due, as on one CPU it must.

### Keyboard

Handler and task interleave between any two accesses of the task. The handler's
loop is one step per byte (`TakeByte`). `Pop` and `Test` choose between the value
of `_keys_in_buffer` in memory and the one read before, because the variable is
not volatile and the compiler may keep it in a register. The lock is the one of
`Spinlock`: `Passes` lets its caller in whether it is held or not. A caller that
finds it free goes round its loop once more and is in. The controller raises its
line with a byte and raises it no more until that byte has been read.

### Allocators

Each module keeps the code's fields and, as ghosts, the ranges in use; `Heap` sees
only those. `Heap` has one more variable, `lost`: the kernel's allocators keep
their promise up to a point, and each module says which. The linear allocator
keeps it always. The fixed allocator keeps it until the first free
(`fixed_allocator_free` makes the free list a cycle). The arena keeps it while
every header and tail is whole. The page allocator keeps it until a free puts a
block together that is not the one it was.

`ArenaAllocator` lays headers and tails out byte for byte, because the code finds
the one from the other by arithmetic that a merged block does not satisfy. A
store over a part of a header or tail takes that word out of the functions
`head` and `tail`. Tails drift: a block's size counts seven bytes for alignment
that its payload may not need, and a merge adds them to a payload, so that the tail
of a merged block lies past its end. That does no harm while it lies past the end of
the arena, within a free block or over the tail of a block that is free too.
`intact` says that it has done none: a store over a header, over the tail of a block
in use, over bytes of a user or behind the arena's end makes it false, and so does a
merge that looks for a header or tail where there is none. From then on the code goes by
whatever bytes are there, and the model stops. `WellFormed` is what holds of blocks
and list until then. `tidy` is a way to use the arena which never gets there: every
block of at least `MinSize` bytes, none resized, freed newest first while another
header lies behind it. `Restored` says that this leaves `intact` true and, when the
last block has come back, the one free block of the start.

`PageAllocator` numbers pages from 1 and keeps for each free block the page of
the block it was split off behind, which is what the code's tag stands for, an
exclusive or of addresses. `Deal` and `Coalesce` are one turn each of the loops that
deal pages out and take them back, from the highest order to the lowest; `torn` says
that a free has taken back other pages than those its block was dealt.

### Collections

`Vector` has the operations of `vector_t` as operators on a record; whatever the
code copies to an offset that is no element's becomes `Garbage`. `VectorUse` calls
them on two vectors. `vector_swap` exchanges their elements and counts and leaves
`_memory` where it is; `crossed` says that each has the other's, and `PushAcross` and
`AppendAcross` are the growth that then reallocates or frees memory in use (`stale`).
A removal is accepted at any index up to the size, and from an empty vector, whose size
then is `SizeMax`. `Queue`, `UnorderedMap`, `Hive` and `SearchTree` are built on
them or on a vector's storage, as the code is. The hash of a map is any function
of the key: the code's depends on random permutations.

Every call is noted in `asked`, with its place or key and its value, and no guard reads
it. `Sequence` and `Dictionary` say what each call does to a sequence and to a function
from keys to values, so an overwrite that is dropped, or a value of another key, is not
one of their steps: a bit that changes with each call makes a call that does nothing
differ from no call. `put` replaces the value of a key (map and hive), `add` gives way
to the one that is there (`binary_search_tree_insert` returns without storing), `extend`
adds to a list (`hive_lpush`). `lost` says that the collection promises nothing any
more. It stands for `vector_remove` or `vector_append` having mixed up elements, and for
the vector also for a size that has wrapped and for memory that is `stale`
(`Unpromised`); the queue, the paged list and the tree are never lost.
`Hive` keeps the packs it has allocated, so that `PacksOwned` can say that each has
exactly one owner. `SearchTree` is recursive like its code; it checks order, the
heights as the code computes them, and that traversal and destruction meet every
node once.

### Debugger

The program is a function from addresses to the next; a byte of it is its own or
an int 3. `memory` is what is really there, `breakpoints` the vector, `bp` and
`last` the variables that live from one stop to the next. One action is one
packet obeyed, or one instruction of the program (`Run`) with the exception that
ends it: the handlers run to their end with interrupts off. The front end sends
any command at any stop. `Receive` is the connection, one character at a time.
Whether a step over a call is one is decided by the byte in memory, as the code decodes
there: a call under an int 3 is traced. `bp` is null on leaving every stop without a
breakpoint, and the code reads `_transient` through it (546): what it finds near address
0, and what it then copies there, are outside this state, and `Leave` does nothing more.
`BytesRecoverable`, `TracesOnlyWhenAsked` and `RunsInOrder` except the three uses
that `disturbed` records: a one-byte instruction with an active breakpoint that is traced; a
breakpoint disabled and enabled while the program stands on it; and a `bp` that
points behind the list's present entries, or to another than the one for `rip`,
when the code stores through it after the loop.

### Boot

`Boot` puts `MemoryMap`, `Smp` and `Clock` together by `INSTANCE`, adds the stages
between them and the ends: an error that halts, an assertion, the wait for the
debugger, the idle task. The firmware is external. It changes its map between any
two calls while boot services last (`FirmwareChanges`), which invalidates the key
that `ExitBootServices` needs; it refuses processors; it knows any list of video
modes. `Clock` takes one step per port access from the selection of an RTC
register on, and the handler of IRQ 8 uses the same index port in between;
`landed` records which registers a write has reached. `Smp` follows the number a
processor reads through `gs:0`; `stray` says that an entry outside the array was
written. The list of regions is built by one pass over the map, a recursive
function over its places as the code's loop goes over descriptors; what the
firmware leaves in a buffer that was too small is any list of descriptors, in
whatever order, and a region read from it may have a page count below zero where
the code's number wraps. `PageTables` has four levels of tables with any set of
places (`Index`), two in the run, in any memory in which one way leads to each table
(`IsTree`), as the firmware's identity mapping has it. The walk does not look whether
an entry of the third level is present, nor does the model: it goes on in page zero,
and `wild` records that a page there has been protected.

Three things are taken as they are on the machines the kernel runs on: memory of boot
services has the write-back attribute (`memory.c:240`), a map makes fewer regions than
`MAX_MEMORY_REGIONS` (the assertions at 59 and 256), and requests to the linear
allocator are below 2^63, so that its cast changes none.

### Library

`Text` writes a format into a buffer the way `_vprint.inc.c` does, with its count
that runs past what was written and the room left as an unsigned number, which is
huge once the end has been passed (`Left`, `Beyond`). A run is cut to the room, and the
room for its tabs is taken once for all of them. `TextFits` says that nothing is written
where the zero goes, and that a text which fits is written whole, a longer one cut where
the buffer ends. It excepts a run with several tabs and a number in hexadecimal pairs,
when they do not fit, and a tab printed by `%c`. `Text` reads numbers the way `intscan.c` does, with
a narrow accumulator first and a wide one after it. `Base64` and `Json` are a
writer followed by its reader. `PdbIndex` is the parser's stack machine over
lexemes, cut into chunks at any of a few places; names are sequences of tokens,
as the trie splits them. `Console` has cells in place of pixels and keeps what the
client wrote (`lines`, the first segment of each line) beside what the screen shows.
`Put` is one turn of the loop over a text; `Output` runs it over all characters by
a recursive function, as the loop does.

## Runs

| run | instance | question | result |
|---|---|---|---|
| `tasks` | three tasks, three levels | Are queues, stacks and extended state consistent, is no task lost, is `TaskLifecycle` implemented, does a queued task run? | all hold |
| `tasks_null_save` | the same | Is a null `prev` never saved to, as `x86_64.asm:109` has it? | violated |
| `tasks_priority` | the same | Does the highest priority task run next, as `tasks.c:105` has it? | violated |
| `spinlock` | two CPUs | Does the lock exclude? | violated |
| `interrupts` | lines 0, 8, 1 | Do masks, nesting and EOIs work out while handlers are registered? | all hold |
| `keyboard` | four codes, a buffer of three | How many codes can be lost or doubled, does a checked key exist, are bytes read, do calls return? | all hold, with the exceptions the properties name |
| `allocators` | pools of 91 bytes, 4 blocks, 300 bytes, 11 pages | Does each allocator implement `Heap`, do arena and page lists stay well formed, is memory that came back in order whole again? | all hold, up to `lost` |
| `arena_tails` | the arena alone | Does a tail hold the size of its payload, as `arena_allocator.h:17` has it? | violated |
| `collections` | up to five elements, three keys, five keys in a tree, two values | Are `Sequence` and `Dictionary` implemented, do iterators see all, does the hive keep its packs? | all hold, up to `lost` |
| `debugger` | a loop with a call, four breakpoints | Are bytes recoverable, are traces only those asked for, does the program run in order, does the identification connect? | all hold, with the exceptions the properties name |
| `boot` | maps of three descriptors, three processors | Is RAM ours, is per-CPU data right, do RTC writes land, does protection change one page, does the boot end? | all hold |
| `libc` | 12-bit numbers, short texts | Does what is written read back, are symbols found, does text stay in its region? | all hold, for the inputs named below |

**Findings.** `tasks_null_save`: `main` returns, nothing is queued, and
`tasks.c:171` passes `prev->_stack` with `prev` null. The switch tests the
*address* of the field against 0, finds the field's offset, and stores the stack
pointer there. `tasks_priority`: `main` (normal) creates a task at the lowest
level and yields; the lowest task runs and `main` is put behind it on the lowest
level, so the level of a task drifts with those it yields to. `spinlock`: 0 from
the compare-and-exchange means success, and `lock_spinlock` spins while it
*gets* 0; a CPU that finds the lock held enters. `arena_tails`: a block's size
counts seven bytes for alignment, which a block whose payload is a multiple of
eight does not take up; when two are merged, the seven bytes of the front one end
up in the payload the tail tells, and the next merge looks for the header seven
bytes too low. Until then the merged block's tail is written seven bytes past its
end: three blocks of 40 bytes, the second freed and then the first, and the header of
the third is stored over.

That the lock does not exclude is what keeps the keyboard alive: `_irq_1_handler`
takes the lock that the task it interrupted may hold, and with a lock that
excludes it would spin for ever (`CallsReturn`, whose variant `PassesFree` shows
it). Correcting the lock alone would turn one error into another.

Other things met while modelling, which no run claims:

*Interrupts, keyboard, tasks*

* `interrupts.h:60` says `interrupts_set_irq_handler` does not enable the line;
  `interrupts.c:212` enables it.
* A full keyboard buffer leaves the keyboard dead: the handler returns without
  reading the byte, and the controller asks no more (`BytesAreRead` excepts it,
  `overrun`).
* The extended prefix is put into the buffer first and the buffer is read from
  its end, so the code comes out before its prefix.
* The handler looks for alt at 0x6a.
* A code stored between two accesses of `keyboard_get_last_key` can be lost, or let
  another come out twice (`KeysConserved` bounds both by the number of such codes, `torn`).
* A context whose `_pri` happens to hold `kTaskPri_NumPris` is dropped when it
  yields (`NoTaskIsLost` excepts it).

*Allocators* (the first two and the corruption are what `lost` stands for)

* `fixed_allocator_free` (`fixed_allocator.h:83`) links the block to the first free
  one and that one back to it, a cycle: a block is handed out twice.
* The page allocator takes strangers for buddies: of 11 pages, allocate 6, free 6,
  and a page is on two lists. A free of a split block can hand back a block with a
  hole, or find none of its pieces and lose the pages.
* Blocks of the arena freed out of order damage the next header.
  `arena_allocator_realloc` grows in place when the *block* is large enough, though
  its payload is 23 bytes smaller, and keeps the old block when it moves. A payload
  that begins with 0xcdcdcdcd makes `free` ignore its block.
* `_ullog2` in the kernel's build (`bb_page_allocator.h:46`) counts leading zeros.

*Collections*

* `vector_remove` copies the last element to the *byte* offset `at`
  (`collections.h:540`); only the removal of element 0 works, and one from an empty
  vector makes its size 2^64 - 1. `vector_append` works only into an empty or a full
  vector. A vector of capacity 1 never grows. Of two vectors that were swapped the first
  to grow takes away the other's memory (`collections.h:77`, `450`).
* The map's occupancy is never decremented; `hive_find` relies on it only for an
  early exit, and callers that size their output by it get too much room, never too little
  (`IteratorsSeeAll`). A hive entry emptied by `hive_set` without values loses its pack.
* `paged_list_destroy` frees the full pages at the front and no other.
* `binary_search_tree.h:7` promises balance; single rotations and a stale height of
  the pivot leave 3, 1, 2 inserted in this order unbalanced.

*Debugger*

* A one-byte instruction under an active breakpoint that is traced is executed
  twice (`debugger.c:462`). Disabling and enabling the breakpoint the program stands
  on loses its byte, and so can a removal through the `bp` of an earlier stop. `bp` is used after the loop that set it, and is null at 546 on
  leaving every stop that was not at a breakpoint.
* Of several entries in an update packet the first is applied as often as there are
  entries (230). A second `j` in the identification is not taken for its first, as in `jjosx`.

*Boot*

* A descriptor of no pages ends the reading of the map (`memory.c:186`). Usable
  memory is merged into whatever region lies before it and so may be lost;
  `RamIsOurs` only says that what is called RAM is.
* A failed `ExitBootServices` is not tried again with a fresh map.
* With no usable handle `smp_initialise` succeeds with no processor.
* `pagetables_protect_page` only widens rights; `NOACCESS` loses the frame.
* A register C that the firmware left unread keeps the RTC from ticking.
* `efi_boot_loader.c` asks the hive for keys that `acpi_intitialise` does not set.

*Library and console*

* The least number prints as `-0`, `%x` of 256 as `00`, 0 in binary as nothing.
  Precision digits come in the wrong order. A width that is too small pads.
* Hex pairs do not stop at the end of the buffer, and `snprintf` then says more than it has
  written. A conversion that does not fit gives -1, and the zero then goes before the
  buffer. Two tabs in one run, in a buffer of seven, are eight blanks. A tab as `%c` is
  counted as one character.
* A negative number, or one at the very end of a slice, defeats the JSON tokeniser;
  a comma is missing after an empty nested object.
* A symbol that shares its first tokens with a longer one listed before it gets the
  longer name. A chunk that ends between tag and number yields a stale number.
  The search below the first symbol underflows.
* On the console a segment of one character before a line feed is not drawn, the
  cursor returns to 0 and not to the region's left, and scrolling moves the whole
  width and leaves the last row.

### Bounds, and why they are enough

* *Three tasks*: one runs while two share a queue or wait on two, so every case
  of push, pop and search occurs, the pop that empties a queue and the one that
  does not among them. `FreshPri` has two values, as only the idle mark is
  looked at. The theorems lift the safety part to any number of tasks. The three
  levels are the kernel's own.
* *Lines 0, 8 and 1*: all that the kernel registers, in its order, one of them
  on the slave. All 16 lines of the controllers are in the model.
* *A buffer of three and `MaxBytes` = 4* in place of 32 and no bound: the buffer
  fills, drains and overruns, a byte can come before and after each access of a
  task, and the scan codes are an ordinary one, the prefix, and a modifier
  pressed and released. `MaxBytes` only limits how much the keyboard sends.
* *Two CPUs* on the lock: enough to violate it.
* *Allocators*: the linear pool is 35 bytes behind its header of 56, at an aligned
  and an odd address, so it fills to the byte and just not. Four fixed blocks empty
  the list. 300 bytes of arena with requests of 8 (a small block), 40 and 100 split,
  merge on both sides, fail and leave a remainder too small to split; 3 blocks make
  every order of freeing neighbours. 11 pages are three blocks of different order;
  two allocations split, round up and meet as buddies.
* *Collections*: vectors start at capacity 2 and grow to 4, also after a swap and from
  an append; `SizeMax` is 99, above every size. Pages have 2 slots for up to 5 items, the
  ring has 3 places and wraps. Two values of every element and key tell an overwrite from
  none. Three keys in three slots with every hash give all collisions (one slot is like
  another, so the first key has slot 0), and capacity 2 makes a slot's vector grow. The
  hive has two keys, calls with up to two values, of which one fits in an entry, and two
  insertions. Five keys in any order reach every rotation.
* *Debugger*: four addresses with a call and instructions of one and two bytes,
  three to break at, among them the call and the function it calls; four entries leave
  room for the transient breakpoint of a step over. The theorems lift all five
  properties to any program and any number of entries.
* *Boot*: descriptors of 0, 1 and 2 pages of every kind that the switch tells apart,
  up to three of them, so that there is one to merge on either side; the firmware may
  change its map twice while the memory map runs on its own, and once in the whole
  boot. The theorems lift memory, processors and clock to maps of any length,
  any number of changes and any number of processors, and the page tables to any
  number of entries a table. Three processors and two handles, one of which may be
  unusable. The RTC's requests come at any time. `Tries` is the code's 4.
* *Library*: all numbers of 12 bits with a first accumulator of 8, so both loops of
  the scanner and the overflow of each happen; buffers of every size up to eight,
  with every pair of directives, runs with one tab and with two among them.
  Bytes in every remainder by three. Documents of depth three. Three symbols of names
  that share prefixes, cut at four places each. A screen of seven rows with lines of
  two, so that one row is left over; two regions and the whole screen. The theorem
  lifts the console to any screen, regions and texts.

### Fairness

* `Tasks`: the boot code runs to its end, and the task with the CPU yields or
  returns sooner or later. The second is the contract of cooperative scheduling,
  without which nothing can be promised. It does not make a task create others,
  nor choose whom it yields to.
* `Interrupts`: the processor takes an interrupt that is signalled to it. A
  handler need not return for that.
* `Keyboard`: an interrupt is taken and its handler runs; a call that has begun
  goes on. A task need not call at all, and the keyboard need not send.
* `Boot`: the boot processor goes on (`WF_vars(Bootstrap)`), and the PIT ticks while
  interrupts are on: a timer set up in periodic mode does, and the measurement of
  the clock waits for it. Nothing makes a debugger connect or the firmware change
  its map, and the RTC need not tick.

Tasks, IRQ lines and scan codes are treated differently by the specifications or
appear in liveness properties, so no symmetry is used.

## Proofs

Every theorem holds for every value of the constants its module's assumptions
allow.

| theorem | states | of module |
|---|---|---|
| `TypeCorrect`, `QueuesAlwaysWellFormed`, `ContextsAlwaysConsistent` | the invariants of run `tasks` of those names | `TasksProofs` |
| `PushNeverSpins` | the endless loop of `cpu_context_push_task` is never entered | `TasksProofs` |
| `NoTaskIsLost` | `NoTaskLost`, if `NumPris \notin FreshPri` | `TasksProofs` |
| `LifecycleIsImplemented` | `ImplementsLifecycle`, if `NumPris \notin FreshPri` | `TasksProofs` |
| `TypeCorrect`, `NeverDoubled`, `MasksAlwaysTrack`, `RequestsAlwaysReachHandlers` | the safety properties of run `interrupts` | `InterruptsProofs` |
| `TypeCorrect`, `KeysAlwaysConserved`, `CheckedKeyIsAlwaysThere` | the invariants of run `keyboard` | `KeyboardProofs` |
| `TypeCorrect`, `ConnectsOnlyOnId`, `BytesAlwaysRecoverable`, `TracesAlwaysAskedFor`, `AlwaysRunsInOrder` | the properties of run `debugger` | `DebuggerProofs` |
| `LinearImplementsHeap` | `LinearAllocator` implements `Heap` and never stops to | `AllocatorProofs` |
| `ArenaAlwaysWellFormed`, `ArenaImplementsHeap` | `WellFormed`; `ArenaAllocator` implements `Heap` until something that matters is stored over (`~intact`) | `AllocatorProofs` |
| `StackAlwaysRestored`, `StackImplementsHeap` | `Restored`; used as a stack (`tidy`) the arena implements `Heap` and never stops to | `AllocatorProofs` |
| `FixedImplementsHeap`, `StaysInsideUntilFreed` | `FixedAllocator` implements `Heap` up to the first free, and no link leads out of the pool before it | `AllocatorProofs` |
| `PagesAlwaysApart`, `PagesImplementHeap` | `PagesApart`; `PageAllocator` implements `Heap` until a free is `torn` | `AllocatorProofs` |
| `AllImplementHeap` | `ImplementsHeap` of run `allocators`: the refinement for all four | `AllocatorProofs` |
| `QueueImplementsSequence`, `QueueStaysInside` | `Queue` implements `Sequence` and never stops to; its `TypeOK` | `LibraryProofs` |
| `VectorImplementsSequence`, `VectorStaysInside` | `VectorUse` implements `Sequence` until it is `Unpromised`; its `TypeOK`: no more elements than memory, but for a wrapped size | `LibraryProofs` |
| `TypeCorrect`, `RamAlwaysOurs`, `PerCpuAlwaysRight`, `RtcWritesAlwaysLand` | the invariants `TypeOK`, `RamIsOurs`, `PerCpuRight` and `RtcWritesLand` of run `boot` | `BootProofs` |
| `PagesTypeCorrect`, `AlwaysProtectsOnePage` | `PagesTypeOK`; `ProtectsOnePage` of run `boot`: no step changes the way to a page but the one asked for | `BootProofs` |
| `ConsoleAlwaysInside` | `ConsoleInside` of run `libc`: what was written in a region stands there, whatever the others write | `LibraryProofs` |

**Assumptions.** `ContextAssumption`: contexts, sentinels, boot code and null are
different things. `FreshPriAssumption`: a field holds a number.
`XsaveAssumption`: the CPU has XSAVE or has not. `RegistrationAssumption`: no line
is registered twice, and the cascade line not at all, which is how the kernel calls
`interrupts_set_irq_handler`. `KeyboardAssumption`, `LinearAssumption` and
`FixedAssumption`: codes, sizes and counts are numbers in range. `QueueAssumption`:
a queue has room for something. `VectorAssumption`: the capacity is at least 2, as
a vector of capacity 1 never grows and would be written past its end.
`ArenaAssumption`: the arena is larger than what a block adds to its payload, and
requests are numbers. `PageAssumption`: the pool has two pages or more, as the code
asserts more than two with its own. `AllAssumption` is these four together. `PageTablesAssumption`: the mapping the firmware leaves has
tables of entries, one way to each, and does not use the frame `_allocate_table` will
return. `ConsoleAssumption`: a glyph fits in a line and a line on the screen, the
regions a client creates are on the screen and at least a line high.
`DebuggerAssumption`: a program is a function on its addresses, which are not
0, an instruction has at least one byte, and behind a call there is one.
`BootAssumption`: counts and ticks are numbers in range, and the firmware's own
maps are descriptors in order of address, as the merging of regions in
`memory.c` takes them to be; nothing is assumed of the order of `Garbage`. TLC evaluates all of them in the
runs, those of instantiated modules through the `MC` module. `NumPris \notin
FreshPri` is an assumption of `NoTaskIsLost` and `LifecycleIsImplemented` alone, since the code does nothing to ensure it.

**The scheduler.** `QueuesWellFormed` is not inductive: a push keeps the lists apart
only if what is pushed is on no list. So `IInv` adds `QueuedInv` (what is queued
is live and not on the CPU), `CpuInv` (in a running system `_running_task` is the
context on the CPU, and live if it is a task; only the idle context must carry
the mark) and `FrameInv` (who has a frame, and whose extended state is where).
`PopWellFormed` and `PushWellFormed` say on the level of `next`, `tail` and
`order` that the two list operations preserve `WellFormed`; `PopOnQueue` and
`PushOnQueue` say what they do to membership. Each action then has a lemma that
combines them, and `NextKeepsIInv` puts those together. `LiveInv`, relative to
`IInv`, is the other half of `NoTaskLost`: a live task is queued or running and
does not carry the mark.

**The refinement of the task life cycle.** A step that hands the CPU over maps to a
step of `TaskLifecycle` only if the task it picks is ready there and, when it picks
the idle task, no task is: both follow from `NoTaskLost`. `IdleInv` adds that no
task is live while the CPU idles, as only a running task creates another.

**The masks.** `MasksTrackHandlers` speaks of the masks between the accesses of the
boot code, which reads a mask, changes it and writes it back with interrupts on. A
handler that runs in between changes the same mask. `RegInv` is why nothing is lost:
what the boot code has read is still what the mask holds when it writes, because
every handler that has started since has also ended and put back the bit it had set.
`StackInv` (only open lines have active handlers) and `HandlersInv` (an open line
has a handler) go with it; `PushLine` and `PopLine` say what entering and leaving a
handler do to the stack.

**The keyboard.** `ReaderInv`: while a task looks for a second byte, the number of
bytes it has read is still at most the number there are, since the handler only adds.
The type is split in two, `Flags` and `Numbers`, for the provers' sake.

**The allocators.** `BelowPtr`: everything handed out by the linear allocator lies
behind its header and below `ptr`. `ListInv`: until something is freed, the list of
the fixed allocator is what it was laid out as, from its first block on, and every
word that users have overwritten lies before it.

**The arena.** `Whole` is the inductive invariant while `intact`: the list holds the
free blocks, once each and by size (`WholeList`), headers and tails lie inside the
arena (`WholeHeads`), and each block in use has its tail where its size says, room
for what was asked, and no other header or tail in its bytes (`WholeBlocks`). A
free block need not have its tail at its end, for that is what drifts. The list's
operations (the first that fits found, a block taken out, a block put in by size)
have lemmas on lists as such; `Gave` and `Merged` say what a split and a merge leave
of headers and tails. `ArenaImplementsHeap` follows since the bytes of
blocks in use lie within blocks, and these apart. For the stack, `Stacked` says how
`tidy` looks: the blocks in use lie behind each other in the order they were asked
for, and on top of them lies one free block to the end (`Room`) or nothing (`Full`).
Then an allocation splits the top or takes all of it (`CarvesTop`), and a free
merges with the top alone (`FreesTop`). A split leaves seven bytes at the arena's end
that belong to no block, and the merge that undoes it takes them back; so the
tail of the top lies as many times seven bytes below the end as there are blocks in
use, and never past it.

**The page allocator.** `Sorted` is the inductive invariant until a free is `torn`:
the blocks on the lists lie in the pool and away from each other (`Laid`), and the
blocks in use away from each other and from those. `SizesAre` and `OrdersAre` say what
the recursive function of sizes gives: an order's size doubles with each order, and
the order of a request holds it. `Dealing` is the invariant of the loop that deals
pages out: what has been put on the lists comes from the pages before `at`, those behind
it are still clear. `Lessened` is that of the loop that takes pieces back, and needs
nothing of the tags: whatever a tag finds was on a list. That what is put back whole
is clear is then the meaning of `~torn`: the pages that left the lists are those behind
the block (`AwayFromWhole`).

**The four allocators.** A behaviour of `Allocators` is one of each of the four
(`AllAreEach`), and a step of the one at work is a step of `Heap` for its pool
(`Stepped`), so `AllImplementHeap` follows from what is known of each.

**The queue.** `QueueInv`: `tail` lies as many places behind `head` as there are
elements, going round the ring at most once (`Around`). So the place a push writes is
none of those that hold elements, unless the ring is full, which the assertion
excludes; and what is read from `head` on after a pop is what was read from the next
place before it.

**The vector.** `VectorInv`: both are `Vectors`, whose count is at most their
capacity, which is more than 1, or such whose size has wrapped (`Sized`). Growth and the pushing back of any number of elements
keep what is there and put the new behind it (`GrownIs`, `PushBackGrows`,
`PushAllGrows`, by `Recursion` and `InductionUpTo` of `DataFacts`). `AppendedIs` and
`RemovedIs` are the two operations that may fail the promise: either the result is
what `Sequence` says or place 0 holds `Garbage`, and then `Sequence` promises nothing.

**The keyboard's codes.** `KeysConserved` compares for each code what was stored with
what was taken, waits and is in the reader's hand, and lets them differ by `torn`, the
number of codes that were stored between two accesses of the reader. It is not
inductive: a pop that goes by the count it read before drops what was stored behind it
without any store at that moment. `BalanceInv` therefore counts from below only the
elements that the reader still reckons with (`Reckoned`: those it has seen, those below
the one it takes, or all), and a store while it reads adds to `torn` and not to these.
How often a code waits is the cardinality of the places that hold it (`Among`), which
`AmongFewer` and the lemmas beside it change by one for one code.

**The debugger.** `BytesRecoverable` is not inductive: to take an int 3 back, the
entry found for it must remember the program's byte, and the list may have more than
one entry for an address, since a removal leaves a copy of the last entry behind.
`Sound` says what does hold of the list at any time: every int 3 has an active entry
(`Owned`), and of the active entries of an address the last has the program's byte
(`LastHasByte`). `ProgramInv` adds that the entry which waits to be put
back is in the list (`RestoreInv`), where the program is due, and why the trap
flag is on. `ConnectInv` says that as many characters as are matched were the last that
came. For each command a lemma says that it keeps the list sound
(`AddedIsSound`, `RemovedIsSound`, `UpdatedIsSound`, ...). The third exception was met
in this proof: a removal copies the last entry to a lower place, an update enables
that copy while memory holds the int 3 of the other, and the removal of the
transient entry through the old pointer takes the one with the byte. It takes 22 steps
and an entry more than the run then had.

**The memory map.** `KeyInv`: while the key that was read is the firmware's
present one, the regions are right for the firmware's present map, so that a
successful `ExitBootServices` makes RAM ours. Right means `Laid`: regions
lie apart and call RAM only what the map calls usable. It is an invariant of the loop of `_build_memory_map`, once it also says that what has been built up to a place
lies below the descriptors still to come, whether a descriptor is appended (`AppendedIsLaid`), merged into the region before
it (`GrownIsLaid`) or skipped. The loop is a recursive function, and `Recursion`
in `DataFacts` is what makes it one that exists and unfolds. `SplitIsOrdered`,
`AllocatedIsOrdered` and `GivenBackIsOrdered` show that the firmware's own
allocations keep its map in order.

**The clock.** `IndexInv`: between the selection of register B and the write to it
interrupts are off, so the handler of IRQ 8 cannot select register C in between.

**The processors.** `EarlyInv`: nothing has run before the boot processor enters
itself. `EntriesInv`: a processor that has run points to its own entry and is the
only one called good for it; behind the loop's position that is the boot processor
alone, which is why the loop may leave it out.

**The page tables.** `ProtectsOnePage` is about all addresses at once, so what is
needed is that a page table is nobody else's: not a table of an upper level on
another way, nor the page table of an address that differs in its first three
places (`Unshared`). That is `IsTree`, and `PagesInv` keeps it: a protection changes
entries of page tables alone, and no way goes through those (`UpperTables`,
`TreeStays`); the kernel's own table is a frame that no way leads to. Frame 0 is
the exception, as it stands for every absent table; once something has been stored
there (`wild`) nothing is claimed.

**The console.** `ConsoleInside` speaks of what stands above the cursor, and a text
that is written in the middle of a line must not overwrite what the line began with.
So `ConsoleInv` adds that the cursor is behind the beginning of its line (`Behind`)
and that the regions lie apart. `OnLineStands` and `BreakStands` say that a segment
and a line break keep what stands in a region, whether the break scrolls or not, and
change only rows of that region (`Within`); `OutputStands` follows by induction over
the characters (`Going` is the loop's invariant), after `Unrolled` has shown that the
recursive function exists. `OtherIsPlaced` carries the other regions over.

**The composition.** Every step of `Boot` is for each of the three components a step
of its own or leaves its variables alone (`StepsOfComponents`), so the invariants of
the components hold of the boot; `StageInv` adds the type of what belongs to the
stages alone.

**Induction.** The library's induction theorems take an operator, which no installed
prover can instantiate. `DataFacts` states induction with a set in its place: a set
that has 0 and with every number the next has all of them, by the well-foundedness
of strict inclusion on finite sets, which the library states without an operator. That is enough for
loops over an index. It does not reach `RECURSIVE` operators.

**Only model-checked.** The liveness properties, among them `BootComesToAnEnd`,
which are out of TLAPS's reach; the other collections, and `Text`, `Base64`, `Json` and
`PdbIndex`. `PagedList`, `UnorderedMap`, `SearchTree` and `PdbIndex` have recursive operators, as their code recurses or chases
links, and are beyond the prover for that. Of `Text`, `Base64` and `Json`, `RoundTrips`
says what recursive readers and writers compute, which is induction over data. Of the
arena, that `size` is the sum of the free blocks is not stated, and so its
upper bound in `TypeOK` is left to TLC: sums over sets are out of the provers' reach.
How often a free of the page allocator is torn is not proved either: strangers are
taken for buddies (see above), so it does happen.
The theorems about the queue and the vector, the page tables and
the console, and those about one allocator, are about those modules under their own
specifications; `MCAllocators`, `MCCollections`, `MCBoot` and `MCLibc` run them together with the others.

## Not modelled

The rows with status `not_modelled` in `PROJECT.json`, each with its reason:
`serial.c` and `trace.c` poll ports and format text; the lab programs and tests
show how the kernel is used; headers and fonts of others. Of the rows that are
partly modelled these are left out:

* exhaustion of the task pool and the debugger's iterator over tasks;
* the IDT and the entry stubs of `interrupts.asm`;
* the character table of `keyboard_get_last_key` and the identification sequence of
  `keyboard_initialise`;
* the dump of the memory map and the two pools of `memory_runtime_init`;
* disassembly in the debugger, the bytes of its packets, and the RTC ports its memory
  map query reads (`debugger.c:325`);
* glyphs, scaling and the hex dump: pixels, with no state behind them;
* ACPI, APIC and PE parsing: tables of the firmware and the image, read once;
* floating point, slices, `print.c`'s console buffer, string and memory functions.

## Plan

1. Proofs: base64 for byte strings of any length, the sum of the arena's free blocks.
2. The composition of `Interrupts` with the keyboard's handler, so that the
   controller of `Keyboard` need not be its own.
3. The balance of the search tree after the code's rotations, as a bound on height.
4. The console buffer of `print.c` and `fwrite`, slices and string functions.
