------------------------------ MODULE MCWebPages ------------------------------
(* Every page.  Two rows at first, one of them the reader's own; two schools *)
(* that share a year.                                                       *)
EXTENDS WebPages, TLC

CONSTANTS r1, r2, s1, s2, c1, c2, u1, u2

MCPages    == ClosurePages \cup ManagerPages \cup {"gallery", "directory", "classes"}
MCClicks   == [p \in MCPages |-> IF p = "schools" THEN 2 ELSE 3]
NoClicks   == [p \in {} |-> 0]
MCOld      == {r1, r2}
MCMine     == {r1}
MCCalls    == {1, 2}
MCSelPages == {"users", "events", "ownEvents", "classes", "join", "photos", "user", "profile"}
NoPages    == {}
MCSchools  == {s1, s2}
MCClasses  == {c1, c2}
MCLinked   == s1 :> {c1, c2} @@ s2 :> {c1}
MCMaxMoves == [p \in MCSelPages |->
                  CASE p \in {"events", "user", "profile"} -> 3
                    [] p \in {"users", "ownEvents"} -> 4
                    [] OTHER -> 5]
MCNewest   == s1 :> c2 @@ s2 :> c1
MCDrafts   == VisitorPages \cup ManagerForms \cup {"profile", "feedback"}
MCSubjects == {u1, u2}
(* A zone on either side of UTC. *)
MCZones    == {[std |-> -5, from |-> 8, to |-> 20], [std |-> 9, from |-> 8, to |-> 24]}
MCHours    == 0..28
===============================================================================
