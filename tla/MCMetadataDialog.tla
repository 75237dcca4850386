-------------------------- MODULE MCMetadataDialog --------------------------
(***************************************************************************)
(* Two program/versions, for TLC.                                          *)
(***************************************************************************)
EXTENDS MetadataDialog, TLC

CONSTANTS a, b

Alike == Permutations(Scopes)

=============================================================================
