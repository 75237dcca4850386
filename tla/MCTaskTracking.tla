--------------------------- MODULE MCTaskTracking ---------------------------
(***************************************************************************)
(* Two tasks of one scope, of either kind, for TLC.                        *)
(***************************************************************************)
EXTENDS TaskTracking

CONSTANTS t1, t2

=============================================================================
