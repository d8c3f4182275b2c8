--------------------------- MODULE MCFlashStorage ---------------------------
(***************************************************************************)
(* Model-checking instance of FlashStorage: a PIN state of two data words, *)
(* as in the code, and credentials of one, fewer than in the code, so that *)
(* items of two sizes fill the small sector in several ways.  The values   *)
(* are interchangeable.                                                    *)
(***************************************************************************)
EXTENDS FlashStorage, TLC

MCSize == [pin |-> 2, credential |-> 1]
Symmetry == Permutations(Values)
=============================================================================
