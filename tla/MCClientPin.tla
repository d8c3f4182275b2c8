---------------------------- MODULE MCClientPin ----------------------------
(***************************************************************************)
(* Model-checking instance of ClientPin.  Hosts, PINs and relying parties  *)
(* are interchangeable, and no property tells one from another: each is an *)
(* invariant or about single steps, so that the symmetry is sound.         *)
(***************************************************************************)
EXTENDS ClientPin, TLC

Symmetry == Permutations(Hosts) \cup Permutations(Pins) \cup Permutations(RpIds)
=============================================================================
