--------------------------- MODULE MCClientSession ---------------------------
(***************************************************************************)
(* Two instances of the hook, for TLC.                                     *)
(***************************************************************************)
EXTENDS ClientSession

CONSTANTS h1, h2

=============================================================================
