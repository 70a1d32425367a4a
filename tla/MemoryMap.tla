----------------------------- MODULE MemoryMap ------------------------------
(***************************************************************************)
(* memory.c: the memory map the firmware hands out, the regions built from *)
(* it, the kernel's first heap, and the one attempt to leave the boot      *)
(* services, which the firmware refuses when its map has changed since it  *)
(* was read.  The firmware is external; it may change its map whenever a   *)
(* timer of its own fires.                                                 *)
(***************************************************************************)
EXTENDS Integers, Sequences, SequencesExt

CONSTANTS
  Maps,       \* the maps the firmware may start with, in order of address
  Garbage,    \* what pool memory that was never filled in may hold
  HeapPages,  \* JOSX_MINIMUM_STARTUP_HEAP_SIZE, in pages
  MaxChanges  \* bound: changes the firmware makes on its own

\* The kinds of descriptors: "uncached" is conventional memory without the
\* write-back attribute, "runtime" stands for all the types the switch leaves
\* out, "reserved" for those that become a region of their own.  Memory of the
\* boot services has the attribute, and no map makes MAX_MEMORY_REGIONS regions,
\* which is asserted.
BootServices == {"bsCode", "bsData"}
Kinds        == BootServices \cup {"conventional", "uncached", "loader", "reserved", "runtime"}
Descriptor   == [at : Nat, pages : Nat, kind : Kinds]

End(d)  == d.at + d.pages
Span(d) == d.at .. End(d) - 1
Ordered(map) == \A i, j \in DOMAIN map : i < j => End(map[i]) <= map[j].at

MemoryMapAssumption ==
  /\ \A map \in Maps : map \in Seq(Descriptor) /\ Ordered(map)
  /\ \A map \in Garbage : map \in Seq(Descriptor)
  /\ HeapPages \in Nat \ {0} /\ MaxChanges \in Nat

VARIABLES
  firmware,   \* the firmware's map
  version,    \* and the key of it
  changes,    \* changes the firmware has made on its own
  room,       \* descriptors that fit _boot_service_memory_map
  key,        \* _map_key; 0 until a map has been read
  regions,    \* _regions, up to _num_regions
  mm          \* where memory.c is

vars == <<firmware, version, changes, room, key, regions, mm>>

Init ==
  /\ firmware \in Maps /\ version = 1 /\ changes = 0
  /\ room = 0 /\ key = 0 /\ regions = <<>> /\ mm = "off"

-----------------------------------------------------------------------------
(* _build_memory_map.                                                      *)

\* A descriptor without pages is never stepped over: the loop does not get to
\* the rest of the map.
BeforeEmpty(map) == {i \in DOMAIN map : \A j \in 1 .. i : map[j].pages # 0}

\* memory_region_t.  Descriptors out of order leave a size below zero, where the
\* code's number wraps.
MemoryRegion == [at : Nat, pages : Int, type : BootServices \cup {"RAM", "loader", "reserved"}]

Region(d, type) == [at |-> d.at, pages |-> d.pages, type |-> type]

Grown(r, d) == [r EXCEPT !.pages = @ + d.pages - (End(r) - d.at)]

\* Variant: the region before is grown whether or not it reaches the descriptor.
AlwaysReaches(r, d) == TRUE
Reaches(r, d) == End(r) >= d.at

\* reached: _regions[-1] is looked at when no region has been added so far, and
\* what lies there happens to pass for one that reaches the descriptor.
WithUsable(rs, d, first, reached) ==
  IF rs # <<>>
  THEN IF Reaches(Last(rs), d) THEN [rs EXCEPT ![Len(rs)] = Grown(@, d)]
                               ELSE Append(rs, Region(d, "RAM"))
  ELSE IF ~first /\ reached THEN rs ELSE <<Region(d, "RAM")>>

_add_memory_region(rs, d, first, reached, exit) ==
  CASE d.kind \in BootServices         -> IF exit THEN WithUsable(rs, d, first, reached)
                                                 ELSE Append(rs, Region(d, d.kind))
    [] d.kind = "conventional"          -> WithUsable(rs, d, first, reached)
    [] d.kind = "uncached"              -> Append(rs, Region(d, "reserved"))
    [] d.kind \in {"loader", "reserved"} -> Append(rs, Region(d, d.kind))
    [] OTHER                            -> rs

\* The regions after n turns of the loop.
_build_memory_map(map, reached, exit) ==
  LET upTo[n \in 0 .. Len(map)] ==
        IF n \in BeforeEmpty(map)
        THEN _add_memory_region(upTo[n - 1], map[n], n = 1, reached, exit)
        ELSE IF n = 0 THEN <<>> ELSE upTo[n - 1]
  IN  upTo[Len(map)]

-----------------------------------------------------------------------------
(* The firmware.                                                           *)

\* The last pages of descriptor i go to another owner.
Split(map, i, pages, kind) ==
  LET taken == [at |-> End(map[i]) - pages, pages |-> pages, kind |-> kind]
  IN  IF map[i].pages = pages
      THEN [map EXCEPT ![i] = taken]
      ELSE InsertAt([map EXCEPT ![i].pages = @ - pages], i + 1, taken)

\* The map after an allocation.
Allocated(map, pages, kind) ==
  {Split(map, i, pages, kind) :
     i \in {j \in DOMAIN map : map[j].kind = "conventional" /\ map[j].pages >= pages}}

\* Memory of the firmware's own that it gives back.
GivenBack(map) ==
  {[map EXCEPT ![i].kind = "conventional"] : i \in {j \in DOMAIN map : map[j].kind = "bsData"}}

FirmwareChanges ==
  /\ mm \notin {"exited", "refused", "asserted"} /\ changes < MaxChanges
  /\ firmware' \in Allocated(firmware, 1, "bsData") \cup GivenBack(firmware)
  /\ version' = version + 1 /\ changes' = changes + 1
  /\ UNCHANGED <<room, key, regions, mm>>

-----------------------------------------------------------------------------
(* The kernel.                                                             *)

\* The size the map has now, two descriptors on top and a pool for that.  The
\* pool may come out of memory the firmware holds anyway.  When there is none,
\* the callers take no notice and build their regions from the old pointer.
SizeMap ==
  /\ mm \in {"off", "up"}
  /\ \/ /\ room' = Len(firmware) + 2
        /\ firmware' \in Allocated(firmware, 1, "loader") \cup {firmware}
        /\ version' = version + 1
        /\ mm' = IF mm = "off" THEN "sized" ELSE "resized"
        /\ UNCHANGED regions
     \/ /\ Allocated(firmware, 1, "loader") = {}
        /\ \E map \in Garbage, reached \in BOOLEAN :
             regions' = _build_memory_map(map, reached, mm = "up")
        /\ version' = version + 1
        /\ mm' = IF mm = "off" THEN "built" ELSE "rebuilt"
        /\ UNCHANGED <<firmware, room>>
  /\ UNCHANGED <<changes, key>>

\* get_memory_map, whose status nobody looks at, and the regions.
ReadMap ==
  /\ mm \in {"sized", "resized"}
  /\ \E reached \in BOOLEAN :
       \/ /\ Len(firmware) <= room
          /\ key' = version
          /\ regions' = _build_memory_map(firmware, reached, mm = "resized")
       \/ /\ Len(firmware) > room
          /\ \E map \in Garbage : regions' = _build_memory_map(map, reached, mm = "resized")
          /\ UNCHANGED key
  /\ mm' = IF mm = "sized" THEN "built" ELSE "rebuilt"
  /\ UNCHANGED <<firmware, version, changes, room>>

PagesOf(rs) == FoldLeft(LAMBDA n, r : n + r.pages, 0, SelectSeq(rs, LAMBDA r : r.type = "RAM"))

\* The rest of memory_uefi_init: enough memory and pages for the first heap, or
\* an assertion.
AllocateHeap ==
  /\ mm = "built"
  /\ LET left == Allocated(firmware, HeapPages, "loader")
     IN  IF PagesOf(regions) >= HeapPages /\ left # {}
         THEN firmware' \in left /\ version' = version + 1 /\ mm' = "up"
         ELSE mm' = "asserted" /\ UNCHANGED <<firmware, version>>
  /\ UNCHANGED <<changes, room, key, regions>>

\* The rest of memory_runtime_init.
ExitBootServices ==
  /\ mm = "rebuilt"
  /\ mm' = IF key = version THEN "exited" ELSE "refused"
  /\ UNCHANGED <<firmware, version, changes, room, key, regions>>

memory_uefi_init    == mm \in {"off", "sized", "built"} /\ (SizeMap \/ ReadMap \/ AllocateHeap)
memory_runtime_init == mm \in {"up", "resized", "rebuilt"} /\ (SizeMap \/ ReadMap \/ ExitBootServices)

Next == memory_uefi_init \/ memory_runtime_init \/ FirmwareChanges

Spec == Init /\ [][Next]_vars

-----------------------------------------------------------------------------
TypeOK ==
  /\ firmware \in Seq(Descriptor) /\ Ordered(firmware)
  /\ changes \in 0 .. MaxChanges /\ room \in Nat /\ version \in Nat
  /\ key \in 0 .. version
  /\ regions \in Seq(MemoryRegion)
  /\ mm \in {"off", "sized", "built", "up", "resized", "rebuilt",
             "exited", "refused", "asserted"}

Usable(map) == UNION {Span(map[i]) : i \in {j \in DOMAIN map :
                  map[j].kind \in BootServices \cup {"conventional"}}}

\* When the kernel has left the boot services, whatever the firmware did while
\* the map was read, no region overlaps another and every page of a RAM region
\* is one that the firmware's last map calls usable: never the kernel's heap,
\* the loader's image or memory of the firmware's runtime services.
RamIsOurs ==
  mm = "exited" =>
    /\ \A i, j \in DOMAIN regions : i # j => Span(regions[i]) \cap Span(regions[j]) = {}
    /\ \A i \in DOMAIN regions : regions[i].type = "RAM" => Span(regions[i]) \subseteq Usable(firmware)

=============================================================================
