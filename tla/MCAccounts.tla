----------------------------- MODULE MCAccounts -----------------------------
(***************************************************************************)
(* Accounts on two users and three requests.  The spellings are an         *)
(* address, the same address in capitals, a string of blanks, which trims  *)
(* to the empty string, and the empty string.                              *)
(***************************************************************************)
EXTENDS Accounts, TLC

CONSTANTS lower, upper, blank, empty

MCRaw == {lower, upper, blank, empty}
MCNorm == [a \in MCRaw |-> CASE a \in {lower, upper} -> lower
                             [] a \in {blank, empty} -> empty]
Interchangeable == Permutations(Requests) \cup Permutations(Users)
=============================================================================
