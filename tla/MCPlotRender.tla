---------------------------- MODULE MCPlotRender ----------------------------
(***************************************************************************)
(* Two selections, for TLC.                                                *)
(***************************************************************************)
EXTENDS PlotRender

CONSTANTS e1, e2

=============================================================================
