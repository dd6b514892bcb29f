--------------------------- MODULE OrderLifecycle ---------------------------
(***************************************************************************)
(* What the Shadow ledger promises about orders, whatever its prices,      *)
(* limits and workers: an order is submitted at most once, while no other  *)
(* is outstanding; it ends at most once; and the position moves only when  *)
(* the outstanding order fills, or when it is closed outright, which ends  *)
(* whatever was outstanding.                                               *)
(***************************************************************************)
EXTENDS Integers

CONSTANT Orders

VARIABLES
    state,      \* state of each order: new, outstanding, filled or dropped
    position

States == {"new", "outstanding", "filled", "dropped"}

Outstanding == {o \in Orders : state[o] = "outstanding"}

Init ==
    /\ state = [o \in Orders |-> "new"]
    /\ position = 0

\* The orders D end without a fill.
Dropping(D) == [o \in Orders |-> IF o \in D THEN "dropped" ELSE state[o]]

Drop ==
    /\ \E D \in SUBSET {o \in Orders : state[o] \in {"new", "outstanding"}} :
         state' = Dropping(D)
    /\ UNCHANGED position

\* Whatever was outstanding has been dropped when o is submitted.
Submit(o) ==
    /\ state[o] = "new"
    /\ state' = [Dropping(Outstanding) EXCEPT ![o] = "outstanding"]
    /\ UNCHANGED position

FillOrder(o) ==
    /\ Outstanding = {o}
    /\ state' = [state EXCEPT ![o] = "filled"]
    /\ position' \in Int \ {position}

Close ==
    /\ position # 0
    /\ state' = Dropping(Outstanding)
    /\ position' = 0

Next ==
    \/ Drop
    \/ \E o \in Orders : Submit(o) \/ FillOrder(o)
    \/ Close

Spec == Init /\ [][Next]_<<state, position>>
=============================================================================
