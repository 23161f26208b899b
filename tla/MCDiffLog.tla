------------------------------ MODULE MCDiffLog ------------------------------
(* DiffLog for TLC: of the two disagreements one has a line longer than a  *)
(* file may grow.                                                          *)
EXTENDS DiffLog

MCLength == <<3, 1>>
=============================================================================
