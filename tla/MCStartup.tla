----------------------------- MODULE MCStartup ------------------------------
(***************************************************************************)
(* Startup with two containers, one of them invoked by two at once.        *)
(***************************************************************************)
EXTENDS Startup, TLC

CONSTANTS c1, c2, i1, i2, i3

MCHome == (i1 :> c1) @@ (i2 :> c1) @@ (i3 :> c2)
=============================================================================
