-------------------------- MODULE MCMissingEvents --------------------------
(* A small instance of MissingEvents for TLC: every acyclic graph of four  *)
(* events, so that the order of ids is independent of that of the graph.   *)
(* At most one of them is not held: all that are not fare the same.        *)
EXTENDS MissingEvents

Events == 1 .. 4
Acyclics == {g \in [Events -> SUBSET Events] : Acyclic(g)}

OneUnknown == WalkInit /\ Cardinality(Event \ held) <= 1
OneUnknownSpec == OneUnknown /\ [][WalkNext]_walkVars
=============================================================================
