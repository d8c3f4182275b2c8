---------------------------- MODULE MCPinItems -----------------------------
(***************************************************************************)
(* Model-checking instance of PinItems.                                    *)
(***************************************************************************)
EXTENDS PinItems, TLC

Symmetry == Permutations(Pins)
=============================================================================
