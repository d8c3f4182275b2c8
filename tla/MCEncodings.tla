---------------------------- MODULE MCEncodings ----------------------------
(***************************************************************************)
(* Model-checking instance of Encodings.                                   *)
(***************************************************************************)
EXTENDS Encodings
=============================================================================
