----------------------------- MODULE Workspace ------------------------------
(***************************************************************************)
(* What the parts of a workspace have in common: `part' says which of them *)
(* moves, and `faults' counts what went wrong so far.                      *)
(***************************************************************************)
EXTENDS Integers

CONSTANTS None, MaxFaults

VARIABLES part, faults
=============================================================================
