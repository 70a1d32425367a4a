-------------------------------- MODULE Calls --------------------------------
(***************************************************************************)
(* The latest call of a collection, kept beside it as a history: what      *)
(* Sequence and Dictionary take the promised effect from.                  *)
(***************************************************************************)

\* The operation, its place or key, its value, and a bit that tells a call from
\* an equal one before it.
VARIABLE asked

NothingAsked == asked = [op |-> "create", at |-> 0, value |-> 0, turn |-> FALSE]

Ask(op, at, value) ==
  asked' = [op |-> op, at |-> at, value |-> value, turn |-> ~asked.turn]

=============================================================================
