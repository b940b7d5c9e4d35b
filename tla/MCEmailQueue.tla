---------------------------- MODULE MCEmailQueue ----------------------------
(***************************************************************************)
(* EmailQueue with two messages; the one to a good address is enqueued up  *)
(* to twice.                                                               *)
(***************************************************************************)
EXTENDS EmailQueue, TLC

MCMaxSends == [m \in Messages |-> IF m \in Bad THEN 1 ELSE 2]
=============================================================================
