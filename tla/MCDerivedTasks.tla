--------------------------- MODULE MCDerivedTasks ---------------------------
(***************************************************************************)
(* Small instances of DerivedTasks for TLC: every schedule but a draft     *)
(* matches all events, and each has its own scaling.                       *)
(***************************************************************************)
EXTENDS DerivedTasks, TLC

CONSTANTS e1, e2, m1, m2, plain, scaled, blank, draft

MCScheduled == [s \in Schedules |-> IF s = draft THEN {} ELSE Events]
MCScaling == [s \in Schedules |-> s]

\* So two schedules of one matching are interchangeable, as maps are.
Symmetry == Permutations(Maps) \cup Permutations(Schedules \ {draft})

\* No action and no property tells a completed task from a failed one.
Ended(s) == IF s = "completed" THEN "failed" ELSE s
EndedAlike == <<[t \in Tasks |-> Ended(status[t])], kind, at,
                [a \in Actors |-> [mem[a] EXCEPT !.out = Ended(mem[a].out)]],
                results, overran>>

=============================================================================
