----------------------------- MODULE BoundedMap -----------------------------
(***************************************************************************)
(* What the readers of a cache rely on (internal/store): a map that may    *)
(* forget anything at any insertion, never holds more than MaxBytes, never *)
(* invents a value, keeps what was just admitted, and empties on demand.   *)
(* LRU implements it.                                                      *)
(***************************************************************************)
EXTENDS Integers, FiniteSets, FiniteSetsExt, Functions

CONSTANTS Key, Value, Size, MaxBytes

VARIABLE content    \* a function from the keys held to their values

Weight(f) == MapThenSumSet(LAMBDA k : Size[f[k]], DOMAIN f)

Init == content = << >>

(* Admit v under k, forgetting what has to go, and nothing else changes.   *)
Put(k, v) ==
  \E kept \in SUBSET (DOMAIN content \ {k}) :
    /\ content' = [j \in kept \cup {k} |-> IF j = k THEN v ELSE content[j]]
    /\ Weight(content') <= MaxBytes

Drop(k) == content' = Restrict(content, DOMAIN content \ {k})

Clear == content' = << >>

Next ==
  \/ \E k \in Key, v \in Value : Put(k, v)
  \/ \E k \in Key : Drop(k)
  \/ Clear

Spec == Init /\ [][Next]_content
=============================================================================
