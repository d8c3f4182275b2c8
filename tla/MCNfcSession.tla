---------------------------- MODULE MCNfcSession ----------------------------
(***************************************************************************)
(* Model-checking instance of NfcSession.                                  *)
(***************************************************************************)
EXTENDS NfcSession
=============================================================================
