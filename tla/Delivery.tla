------------------------------ MODULE Delivery ------------------------------
(***************************************************************************)
(* What the password-reset queue promises: a message it took is mailed, or *)
(* buried where an operator finds it; it is never just dropped, and it may *)
(* be mailed more than once.                                               *)
(***************************************************************************)

CONSTANT Messages

VARIABLES
    owed,     \* taken, and neither done with nor buried
    mailed,   \* mailed at least once
    buried    \* given up on, in the dead-letter queue

vars == <<owed, mailed, buried>>

Init == owed = {} /\ mailed = {} /\ buried = {}

Take(m) == /\ owed' = owed \cup {m}
           /\ UNCHANGED <<mailed, buried>>

Mail(m) == /\ m \in owed
           /\ mailed' = mailed \cup {m}
           /\ UNCHANGED <<owed, buried>>

Finish(S) == /\ S \subseteq owed \cap mailed
             /\ owed' = owed \ S
             /\ UNCHANGED <<mailed, buried>>

(* A message may have been taken twice, and the other copy go on.          *)
Bury(m) == /\ m \in owed
           /\ buried' = buried \cup {m}
           /\ owed' = owed \/ owed' = owed \ {m}
           /\ UNCHANGED mailed

Settle(m) == \/ \E S \in SUBSET Messages : m \in S /\ Finish(S)
             \/ Bury(m) /\ owed' = owed \ {m}

Next == \/ \E m \in Messages : Take(m) \/ Mail(m) \/ Bury(m)
        \/ \E S \in SUBSET Messages : Finish(S)

Spec == Init /\ [][Next]_vars /\ \A m \in Messages : WF_vars(Settle(m))
=============================================================================
