---------------------------- MODULE MCRequestPath ----------------------------
(* Small instances of RequestPath for TLC.  Three requests of one origin,  *)
(* so that the limiter queues and rejects: r1 may be for any endpoint, the *)
(* others compete with it for the slot and are interchangeable.            *)
EXTENDS RequestPath, TLC

CONSTANT r1

AnyEndpoint == [r \in Req |-> IF r = r1 THEN Modes \X Kinds ELSE {<<"native", "buffered">>}]
Streams     == [r \in Req |-> {<<"native", "streamed">>}]

Symmetry == Permutations(Req \ {r1})
=============================================================================
