----------------------------- MODULE MCCtapNfc -----------------------------
(***************************************************************************)
(* Model-checking instance of CtapNfc.                                     *)
(***************************************************************************)
EXTENDS CtapNfc
=============================================================================
