---------------------------- MODULE MCDatabase ------------------------------
(***************************************************************************)
(* Database with calls that are all alike.                                 *)
(***************************************************************************)
EXTENDS Database, TLC

Interchangeable == Permutations(Calls)
=============================================================================
