------------------------------ MODULE MCRoster ------------------------------
(***************************************************************************)
(* Roster with interchangeable users, schools and requests.  Every hazard  *)
(* of the handlers is one of two requests that overlap, and either may be  *)
(* for anything, and fail; the database they find may be any.              *)
(***************************************************************************)
EXTENDS Roster, TLC

MCServed == [r \in Requests |-> Ops]
Interchangeable == Permutations(Users) \cup Permutations(Schools) \cup Permutations(Requests)
=============================================================================
