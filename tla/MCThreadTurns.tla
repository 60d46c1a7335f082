--------------------------- MODULE MCThreadTurns ---------------------------
(***************************************************************************)
(* ThreadTurns on a few messages and permission requests.  A message       *)
(* identity is used once, so the messages bound the run.                   *)
(***************************************************************************)
EXTENDS ThreadTurns, TLC

Symmetry == Permutations(Msgs)
=============================================================================
