------------------------------- MODULE MCBoot -------------------------------
(***************************************************************************)
(* Three machines, of which a behaviour runs one, as which says: the       *)
(* memory map on its own with every map of up to three descriptors, the    *)
(* page tables, and the whole boot with a few maps.                        *)
(***************************************************************************)
EXTENDS Boot, PageTables, SequencesExt

VARIABLE which

\* The maps made of blocks laid one after the other.
Blocks == [pages : {0, 1, 2}, kind : {"conventional", "uncached", "bsData", "reserved", "runtime"}]
Laid(blocks) ==
  [i \in DOMAIN blocks |->
     [at    |-> FoldLeft(LAMBDA n, b : n + b.pages, 1, SubSeq(blocks, 1, i - 1)),
      pages |-> blocks[i].pages,
      kind  |-> blocks[i].kind]]

Chosen == {Laid(<<[pages |-> n, kind |-> k], [pages |-> 3, kind |-> "conventional"],
                  [pages |-> 1, kind |-> "bsCode"]>>) : <<n, k>> \in {<<1, "runtime">>, <<0, "bsData">>}}

MCMaps == {Laid(bs) : bs \in SeqOf(Blocks, 2) \cup
             {<<a, b, c>> : a \in Blocks, b \in Blocks, c \in {d \in Blocks : d.pages = 2}}}
          \cup Chosen

Junk == {<<>>, Laid(<<[pages |-> 9, kind |-> "conventional"]>>)}

\* A table at frame 4 under the root, one at 3 under it, one at 2 under that;
\* beside it a huge page, an absent table or a second table at 1.
Frames(second) ==
  LET on(f)   == [present |-> TRUE, huge |-> FALSE, frame |-> f, rights |-> {"write"}]
      big(f)  == [on(f) EXCEPT !.huge = TRUE]
      off     == [present |-> FALSE, huge |-> FALSE, frame |-> 0, rights |-> {}]
      pair(a, b) == [i \in {0, 1} |-> IF i = 0 THEN a ELSE b]
  IN  [f \in 0 .. 5 |->
         CASE f = 5 -> pair(on(4), off)
           [] f = 4 -> pair(on(3), big(9))
           [] f = 3 -> pair(on(2), CASE second = "table"  -> on(1)
                                     [] second = "absent" -> off
                                     [] second = "huge"   -> big(9))
           [] f = 2 -> pair(on(6), on(7))
           [] f = 1 -> pair(on(8), off)
           [] f = 0 -> pair(off, off)]

MCMappings  == {Frames(s) : s \in {"table", "absent", "huge"}}
MCProtected == {<<0, 0, 0, 0>>, <<0, 0, 0, 1>>, <<0, 0, 1, 0>>, <<0, 1, 0, 1>>, <<1, 0, 0, 0>>}
MCAsked     == {{"noaccess"}, {"execute_readwrite", "nocache"}, {"readonly", "readwrite", "writecombine"}}

MCModeLists == {<<>>, <<[width |-> 1920, rgb |-> TRUE]>>,
                <<[width |-> 640, rgb |-> TRUE], [width |-> 1024, rgb |-> FALSE],
                  [width |-> 800, rgb |-> TRUE]>>}

\* The parts that a machine does not run stay as they are, in one state.
MCInit ==
  /\ which \in {"memory", "pages", "boot"}
  /\ Init /\ PagesInit
  /\ which # "memory" => firmware \in Chosen
  /\ which = "pages" => firmware = CHOOSE m \in Chosen : TRUE
  /\ which # "boot" => periodic /\ armed
  /\ which # "pages" => tables = Frames("huge")

\* Bound: in the whole boot the firmware changes its map once on its own.
MCNext ==
  /\ UNCHANGED which
  /\ \/ /\ which = "memory" /\ Memory!Next
        /\ UNCHANGED <<smpVars, clockVars, boot, keys, pageVars>>
     \/ /\ which = "pages" /\ PagesNext
        /\ UNCHANGED vars
     \/ /\ which = "boot" /\ Next /\ changes' <= 1
        /\ UNCHANGED pageVars

MCSpec == MCInit /\ [][MCNext]_<<vars, which, pageVars>> /\ Fairness

-----------------------------------------------------------------------------
\* What BootEnds says, of the machine that boots.
BootComesToAnEnd == which = "boot" => BootEnds

=============================================================================
