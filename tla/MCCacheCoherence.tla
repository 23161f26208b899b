-------------------------- MODULE MCCacheCoherence --------------------------
(* Small instances of CacheCoherence for TLC.  The three caches are one    *)
(* that is the source of another, one keyed by event, and the derived one. *)
EXTENDS CacheCoherence

ThreeCaches == <<"stateGroups", "events", "filteredState">>
TwoCaches   == <<"stateGroups", "filteredState">>
=============================================================================
