----------------------------- MODULE PageTables -----------------------------
(***************************************************************************)
(* pagetables.c over the identity mapping the firmware leaves: walking the *)
(* four levels and changing the protection of a 4 KB page.  Nobody looks   *)
(* whether the entry of the third level is present: when it is not, page   *)
(* zero is taken for the table.                                            *)
(***************************************************************************)
EXTENDS Integers, Sequences

CONSTANTS
  Index,     \* the places of a table
  Root,      \* the frame of the table in CR3
  Fresh,     \* a frame that _allocate_table may return
  Mappings,  \* the tables there may be: functions from frames to tables
  Protected, \* bound: the addresses that are protected
  Asked      \* bound: and the sets of flags

Address == Index \X Index \X Index \X Index
Rights  == {"write", "execute", "uncached", "through"}
Entry   == [present : BOOLEAN, huge : BOOLEAN, frame : Nat, rights : SUBSET Rights]
Nothing == [present |-> FALSE, huge |-> FALSE, frame |-> 0, rights |-> {}]

\* PAGE_xxx of jos.h.
Flags == {"noaccess", "readonly", "readwrite", "execute", "execute_read",
          "execute_readwrite", "nocache", "writecombine"}

VARIABLES
  tables,   \* the tables in memory, by their frame; frame 0 holds no table
  kernel,   \* the frame of _pml4
  asked,    \* the address last protected, or <<>>
  wild      \* history: an address under an absent table has been protected

pageVars == <<tables, kernel, asked, wild>>

\* The entries of the upper levels that a walk for address a reads in map.
PML4E(map, a) == map[Root][a[1]]
PDPTE(map, a) == map[PML4E(map, a).frame][a[2]]
PDE(map, a)   == map[PDPTE(map, a).frame][a[3]]

HasPdpt(map, a)  == PML4E(map, a).present
HasPd(map, a)    == HasPdpt(map, a) /\ ~PDPTE(map, a).huge /\ PDPTE(map, a).present
HasTable(map, a) == HasPd(map, a) /\ ~PDE(map, a).huge

\* The tables read on the way to a: their level, the indices that lead there
\* and their frame.
Way(map, a) ==
  {[level |-> 1, by |-> <<>>, at |-> Root]}
  \cup (IF HasPdpt(map, a) THEN {[level |-> 2, by |-> <<a[1]>>, at |-> PML4E(map, a).frame]} ELSE {})
  \cup (IF HasPd(map, a) THEN {[level |-> 3, by |-> <<a[1], a[2]>>, at |-> PDPTE(map, a).frame]} ELSE {})
  \cup (IF HasTable(map, a)
        THEN {[level |-> 4, by |-> <<a[1], a[2], a[3]>>, at |-> PDE(map, a).frame]} ELSE {})

\* One way leads to each table.
IsTree(map) ==
  \A m, n \in UNION {Way(map, a) : a \in Address} :
    m.at \in DOMAIN map /\ (m.at = n.at /\ m.at # 0 => m = n)

ASSUME PageTablesAssumption ==
  /\ 0 \in Index /\ Index \subseteq Nat
  /\ Root # 0 /\ Fresh # 0
  /\ Protected \subseteq Address /\ Asked \subseteq SUBSET Flags
  /\ \A map \in Mappings :
       /\ {0, Root} \subseteq DOMAIN map /\ Fresh \notin DOMAIN map
       /\ \A f \in DOMAIN map : map[f] \in [Index -> Entry]
       /\ IsTree(map)

\* pagetables_uefi_initialise
PagesInit == tables \in Mappings /\ kernel = Root /\ asked = <<>> /\ wild = FALSE

-----------------------------------------------------------------------------
\* The frame of the page table an address is under, {} when the walk ends
\* before that.
TableOf(a) == IF HasTable(tables, a) THEN {PDE(tables, a).frame} ELSE {}

\* Rights are only ever added, except that no access takes everything away,
\* the frame included.
_prot_flags_to_page_flags(e, flags) ==
  IF "noaccess" \in flags THEN Nothing
  ELSE LET added == (IF flags \cap {"readwrite", "execute_readwrite"} # {} /\ "readonly" \notin flags
                     THEN {"write"} ELSE {})
                    \cup (IF flags \cap {"execute_readwrite", "execute_read", "execute"} # {}
                          THEN {"execute"} ELSE {})
                    \cup (IF "nocache" \in flags THEN {"uncached"} ELSE {})
                    \cup (IF "writecombine" \in flags THEN {"through"} ELSE {})
       IN  [e EXCEPT !.rights = @ \cup added]

\* Variant: the entry at the index of the table above.
IndexAbove(a) == a[3]
PT_IDX(a) == a[4]

pagetables_protect_page(a, flags) ==
  /\ asked' = a
  /\ \/ /\ TableOf(a) = {} /\ UNCHANGED <<tables, wild>>
     \/ \E f \in TableOf(a) :
          /\ tables' = [tables EXCEPT ![f][PT_IDX(a)] = _prot_flags_to_page_flags(@, flags)]
          /\ wild' = (wild \/ f = 0)
  /\ UNCHANGED kernel

\* One entry for the first 512 GB, every flag set, and the frame of it zero.
\* The table is never loaded into CR3.
pagetables_runtime_init ==
  /\ kernel = Root
  /\ kernel' = Fresh
  /\ tables' = [f \in DOMAIN tables \cup {Fresh} |->
                  IF f = Fresh
                  THEN [i \in Index |->
                          IF i = 0 THEN [present |-> TRUE, huge |-> TRUE, frame |-> 0,
                                         rights |-> Rights \ {"execute"}]
                          ELSE Nothing]
                  ELSE tables[f]]
  /\ UNCHANGED <<asked, wild>>

PagesNext ==
  \/ \E a \in Protected, flags \in Asked : pagetables_protect_page(a, flags)
  \/ pagetables_runtime_init

PagesSpec == PagesInit /\ [][PagesNext]_pageVars

-----------------------------------------------------------------------------
\* pagetables_traverse_tables: the entries met on the way to an address.
Walk(map, a) ==
  <<PML4E(map, a)>>
  \o (IF HasPdpt(map, a) THEN <<PDPTE(map, a)>> ELSE <<>>)
  \o (IF HasPd(map, a) THEN <<PDE(map, a)>> ELSE <<>>)
  \o (IF HasTable(map, a) THEN <<map[PDE(map, a).frame][a[4]]>> ELSE <<>>)

PagesTypeOK ==
  /\ \A f \in DOMAIN tables : tables[f] \in [Index -> Entry]
  /\ kernel \in DOMAIN tables
  /\ asked \in Address \cup {<<>>} /\ wild \in BOOLEAN

\* Protecting a page leaves the way to every other address as it is, and at the
\* page itself either takes everything away or adds rights to the frame that was
\* mapped, as long as no address under an absent table has been protected.
ProtectsOnePage ==
  [][~wild' =>
       \A a \in Address :
         Walk(tables', a) # Walk(tables, a) =>
           /\ asked' = a
           /\ LET old == Walk(tables, a)[4]
                  new == Walk(tables', a)[4]
              IN  \/ new = Nothing
                  \/ new = [old EXCEPT !.rights = new.rights] /\ old.rights \subseteq new.rights
    ]_pageVars

=============================================================================
