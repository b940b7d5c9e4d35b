------------------------------ MODULE MCAccess ------------------------------
(***************************************************************************)
(* Access with an administrator and another user.  The hazards are pairs   *)
(* of requests that overlap, or a request after a role has changed; any    *)
(*two may meet, and any comment, event, class and role be there.          *)
(***************************************************************************)
EXTENDS Access, TLC

MCServed == [r \in Requests |-> Ops]
Interchangeable == Permutations(Classes) \cup Permutations(Requests)
=============================================================================
