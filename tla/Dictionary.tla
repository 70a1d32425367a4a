----------------------------- MODULE Dictionary -----------------------------
(***************************************************************************)
(* What unordered_map_t, hive_t and binary_search_tree_t promise: a value  *)
(* for each of the keys put in and not removed, as the latest call asked.  *)
(***************************************************************************)
EXTENDS Calls, Sequences, TLC

VARIABLES
  dict,     \* the value of every key that is there
  lost      \* the collection no longer promises anything

DictionaryInit == dict = <<>> /\ lost = FALSE

\* A value takes the place of the one before,
Put == asked'.op = "put" /\ dict' = (asked'.at :> asked'.value) @@ dict

\* or gives way to it,
Add == asked'.op = "add" /\ dict' = dict @@ (asked'.at :> asked'.value)

\* or is the list that was there with elements added.
Extend ==
  LET before == IF asked'.at \in DOMAIN dict THEN dict[asked'.at][2] ELSE <<>>
  IN  /\ asked'.op = "extend"
      /\ dict' = (asked'.at :> <<"list", before \o asked'.value>>) @@ dict

Remove ==
  /\ asked'.op = "remove"
  /\ dict' = [x \in DOMAIN dict \ {asked'.at} |-> dict[x]]

Clear == asked'.op = "clear" /\ dict' = <<>>

DictionaryNext ==
  lost \/ lost' \/ (UNCHANGED lost /\ (Put \/ Add \/ Extend \/ Remove \/ Clear))

DictionarySpec == DictionaryInit /\ [][DictionaryNext]_<<dict, lost, asked>>

=============================================================================
