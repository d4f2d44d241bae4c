--------------------------- MODULE BoundedHandover ---------------------------
(***************************************************************************)
(* What a Handover promises: it writes down which objects it is about to   *)
(* move, at most Limit at a time, before it moves them, and an object in   *)
(* transition stays written down until it has arrived.                     *)
(***************************************************************************)
EXTENDS FiniteSets, Naturals

CONSTANTS Objects, Limit

VARIABLES
    active,      \* the handover is in force
    announced,   \* the objects written down
    moving       \* the objects in transition

vars == <<active, announced, moving>>

Init == active = TRUE /\ announced = {} /\ moving = {}

Announce ==
    /\ active
    /\ announced' \in SUBSET Objects
    /\ Cardinality(announced') <= Limit
    /\ moving \subseteq announced'
    /\ UNCHANGED <<active, moving>>

Depart(o) ==
    /\ active
    /\ o \in announced
    /\ moving' = moving \union {o}
    /\ UNCHANGED <<active, announced>>

(* An object arrives, or is removed, or taken elsewhere.                   *)
Arrive(o) == moving' = moving \ {o} /\ UNCHANGED <<active, announced>>

Stop == active' = FALSE /\ UNCHANGED <<announced, moving>>

Next == Announce \/ Stop \/ \E o \in Objects : Depart(o) \/ Arrive(o)

Spec == Init /\ [][Next]_vars
=============================================================================
