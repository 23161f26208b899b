-------------------------- MODULE MCStateIDsFlight --------------------------
(* A small instance of StateIDsFlight for TLC; its configuration gives the *)
(* values.  Callers are not declared symmetric: a liveness property is     *)
(* among those checked.                                                    *)
EXTENDS StateIDsFlight
=============================================================================
