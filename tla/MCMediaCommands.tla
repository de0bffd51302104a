--------------------------- MODULE MCMediaCommands ---------------------------
(* MediaCommands with constants small enough for TLC.  No symmetry: the run     *)
(* checks a liveness property.                                                 *)
EXTENDS MediaCommands

=============================================================================
