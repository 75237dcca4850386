-------------------------- MODULE MCDatabaseSwitch --------------------------
(***************************************************************************)
(* Two databases, one user with a page and one without, two tasks, for TLC.*)
(***************************************************************************)
EXTENDS DatabaseSwitch

CONSTANTS d1, d2, u1, op, t1, t2

=============================================================================
