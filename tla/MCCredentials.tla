--------------------------- MODULE MCCredentials ---------------------------
(***************************************************************************)
(* Model-checking instance of Credentials.  Relying parties and users are  *)
(* interchangeable.  Protection 2 and 3 differ for allow and exclude lists  *)
(* alone, and these matter for a credential that is not discoverable.      *)
(***************************************************************************)
EXTENDS Credentials, TLC

SomeKinds == {<<TRUE, 1>>, <<TRUE, 2>>, <<TRUE, 3>>, <<FALSE, 1>>}

Symmetry == Permutations(Rps) \cup Permutations(Users)
=============================================================================
