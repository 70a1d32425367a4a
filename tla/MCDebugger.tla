----------------------------- MODULE MCDebugger -----------------------------
(***************************************************************************)
(* A loop of an instruction of one byte, a call of two bytes to a function *)
(* that returns at once, and a jump back.                                  *)
(***************************************************************************)
EXTENDS Debugger, TLC

MCFollows == 1 :> 2 @@ 2 :> 5 @@ 4 :> 1 @@ 5 :> 4
MCLength  == 1 :> 1 @@ 2 :> 2 @@ 4 :> 1 @@ 5 :> 1

=============================================================================
