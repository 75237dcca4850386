----------------------------- MODULE DerivedData -----------------------------
(***************************************************************************)
(* What the derived data of a program/version promises about the channel   *)
(* map.  Plots and base damage that count as current are made one event at *)
(* a time from the map in force, plots only while a worker lives; the map  *)
(* is replaced only when no worker lives, no base counts as current and no *)
(* plot but those of the new map.  Nothing is promised once a task lost    *)
(* its row while its worker lived.                                         *)
(* DerivedTasks implements this specification.                             *)
(***************************************************************************)
CONSTANTS Events, Maps

VARIABLES
    map,        \* the channel map in force
    plots,      \* <<event, map>>: current plots, and what they were made from
    bases,      \* <<event, map>>: current base damage, likewise
    workers,    \* tasks whose worker lives
    excused     \* a row was taken from a living worker

vars == <<map, plots, bases, workers, excused>>

\* All are of map m.
AllOf(data, m) == \A d \in data : d[2] = m

\* The datum of event e is replaced by one made from the map in force.
Made(data, e) == {d \in data : d[1] # e} \cup {<<e, map>>}

Init ==
    /\ AllOf(plots, map)
    /\ bases = {} /\ workers = {} /\ excused = FALSE

Plot(e) ==
    /\ workers # {}
    /\ plots' = Made(plots, e)
    /\ UNCHANGED <<map, bases, workers, excused>>

\* A worker computes the damage of e, or a rescale starts from its base.
Compute(e) ==
    /\ bases' = Made(bases, e)
    /\ UNCHANGED <<map, plots, workers, excused>>

\* Data is cleared, marked stale, found wanting, or scaled from another base.
Withdraw ==
    /\ plots' \subseteq plots /\ bases' \subseteq bases
    /\ UNCHANGED <<map, workers, excused>>

Remap(m) ==
    /\ workers = {} /\ bases = {} /\ AllOf(plots, m)
    /\ map' = m
    /\ UNCHANGED <<plots, bases, workers, excused>>

\* Workers begin or end.
Work == UNCHANGED <<map, plots, bases, excused>>

Escape == excused' = TRUE

Next ==
    \/ Escape
    \/ ~excused /\ \/ \E e \in Events : Plot(e) \/ Compute(e)
                   \/ \E m \in Maps : Remap(m)
                   \/ Withdraw \/ Work

Spec == Init /\ [][Next]_vars

-----------------------------------------------------------------------------
(* What follows from this specification alone.                             *)

\* Everything current is of the map in force.
OfTheMap == ~excused => AllOf(plots, map) /\ AllOf(bases, map)

=============================================================================
