------------------------------ MODULE Crossroad ------------------------------
(***************************************************************************)
(* What the crossing of Assignment_6 promises, without threads: vehicles    *)
(* wait at four start points, enter the crossing when no vehicle of the     *)
(* other road is inside and their own lane is free, and leave it.  The      *)
(* conditions are those of Assignment_6/README.md, lines 13-18; Intersection *)
(* shows that the threads of program.c implement it.                        *)
(***************************************************************************)
EXTENDS Naturals

CONSTANT MaxVehicles        \* the largest number of vehicles of one run

Points == 1..4              \* start points P1..P4

\* P1 faces P3 and P2 faces P4 (the pairs of program.c:209).
Opposite(p) == CASE p = 1 -> 3 [] p = 2 -> 4 [] p = 3 -> 1 [] p = 4 -> 2

VARIABLES
    todo,       \* todo[p]: vehicles of p that have not entered the crossing
    road,       \* the start points whose vehicle is inside the crossing
    gone        \* gone[p]: vehicles of p that left the crossing

vars == <<todo, road, gone>>

TypeOK ==
    /\ todo \in [Points -> Nat]
    /\ road \subseteq Points
    /\ gone \in [Points -> Nat]

Init ==
    /\ todo = [p \in Points |-> 0]
    /\ road = {}
    /\ gone = [p \in Points |-> 0]

\* The list of vehicles is drawn once, before anything moves.
Draw ==
    /\ Init
    /\ \E t \in [Points -> 0..MaxVehicles] : todo' = t
    /\ UNCHANGED <<road, gone>>

\* A vehicle of p enters: its lane is free and only the facing lane is in use.
Enter(p) ==
    /\ todo[p] > 0
    /\ p \notin road
    /\ road \subseteq {Opposite(p)}
    /\ todo' = [todo EXCEPT ![p] = @ - 1]
    /\ road' = road \cup {p}
    /\ UNCHANGED gone

Leave(p) ==
    /\ p \in road
    /\ road' = road \ {p}
    /\ gone' = [gone EXCEPT ![p] = @ + 1]
    /\ UNCHANGED todo

Next == Draw \/ \E p \in Points : Enter(p) \/ Leave(p)

Spec == Init /\ [][Next]_vars
==============================================================================
