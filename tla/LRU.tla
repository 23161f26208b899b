--------------------------------- MODULE LRU ---------------------------------
(***************************************************************************)
(* The size-bounded least-recently-used cache: internal/cache/lru.go.      *)
(*                                                                         *)
(* The entries map and the order list hold the same elements, so one       *)
(* sequence stands for both, most recently used first; `bytes' is kept     *)
(* beside it by increments, as in the code.  Each operation is one         *)
(* critical section.  The armed flag, read outside the mutex, belongs to   *)
(* CacheCoherence; here the cache is armed.                                *)
(*                                                                         *)
(* A definition named X_Y is X with a fault, for showing that a property   *)
(* notices it; nothing uses it.                                            *)
(***************************************************************************)
EXTENDS Integers, Sequences, FiniteSets, SequencesExt, FiniteSetsExt

CONSTANTS
  Key, Value,
  Size,       \* Sizer: the footprint of a value
  MaxBytes

ASSUME SizeAssumption == Size \in [Value -> Nat] /\ MaxBytes \in Nat

VARIABLES
  order,      \* LRU.order, with each element's key and value
  bytes       \* LRU.bytes

vars == <<order, bytes>>

Init == order = << >> /\ bytes = 0

Enabled == MaxBytes > 0

Position(k) == {i \in DOMAIN order : order[i].key = k}

SizeOf(e) == Size[e.value]

Total(s) == FoldSeq(LAMBDA e, n : SizeOf(e) + n, 0, s)

(* MoveToFront of the element at i, holding v from now on.                 *)
ToFront(i, v) == <<[order[i] EXCEPT !.value = v]>> \o RemoveAt(order, i)

Kept_EvictsOnce(s, b) == IF b <= MaxBytes THEN Len(s) ELSE Len(s) - 1

Kept_NotEvenFull(s, b) ==
  Max({0} \cup {n \in 0 .. Len(s) : b - Total(SubSeq(s, n + 1, Len(s))) < MaxBytes})

(* evictLocked: elements go from the back while the counter is above the   *)
(* bound; what is left is the longest prefix for which it is not.          *)
Kept(s, b) ==
  Max({0} \cup {n \in 0 .. Len(s) : b - Total(SubSeq(s, n + 1, Len(s))) <= MaxBytes})

EvictLocked(s, b) ==
  LET n == Kept(s, b) IN
  /\ order' = SubSeq(s, 1, n)
  /\ bytes' = b - Total(SubSeq(s, n + 1, Len(s)))

(* Get of a key that is held; a miss changes only statistics.              *)
Get(k) ==
  /\ Enabled
  /\ \E i \in Position(k) : order' = ToFront(i, order[i].value)
  /\ UNCHANGED bytes

(* Add: too large for the whole cache, already held, or new.               *)
AddRefused(k, v) == Enabled /\ Size[v] > MaxBytes /\ UNCHANGED vars

AddReplaces_OldSizeStays(k, v) ==
  /\ Enabled
  /\ Size[v] <= MaxBytes
  /\ \E i \in Position(k) : EvictLocked(ToFront(i, v), bytes + Size[v])

AddReplaces(k, v) ==
  /\ Enabled
  /\ Size[v] <= MaxBytes
  /\ \E i \in Position(k) :
       EvictLocked(ToFront(i, v), bytes + Size[v] - SizeOf(order[i]))

AddInserts(k, v) ==
  /\ Enabled
  /\ Size[v] <= MaxBytes
  /\ Position(k) = {}
  /\ EvictLocked(<<[key |-> k, value |-> v]>> \o order, bytes + Size[v])

RemoveKey(k) ==
  \E i \in Position(k) :
    /\ order' = RemoveAt(order, i)
    /\ bytes' = bytes - SizeOf(order[i])

Purge == order' = << >> /\ bytes' = 0

Add(k, v) == AddRefused(k, v) \/ AddReplaces(k, v) \/ AddInserts(k, v)

Next ==
  \/ \E k \in Key : Get(k) \/ RemoveKey(k)
  \/ \E k \in Key, v \in Value : Add(k, v)
  \/ Purge

Spec == Init /\ [][Next]_vars

-----------------------------------------------------------------------------
(* Type invariant: no key is held twice, and the counter is never          *)
(* negative.                                                               *)
TypeOK ==
  /\ order \in Seq([key : Key, value : Value])
  /\ \A i, j \in DOMAIN order : order[i].key = order[j].key => i = j
  /\ bytes \in Nat

(* The counter that decides eviction is what the entries really weigh: no  *)
(* sequence of replacements, removals, evictions and purges lets it drift, *)
(* which would shrink the cache for good or unbound it.                    *)
BytesExact == bytes = Total(order)

(* What is held under other keys, in order.                                *)
Others(k) ==
  IF Position(k) = {} THEN order ELSE RemoveAt(order, CHOOSE i \in Position(k) : TRUE)

(* "Eviction is by total byte size": what remains fits, and no more went   *)
(* than had to, counted from the least recently used end.                  *)
EvictsOnlyWhatItMust ==
  [][\A k \in Key, v \in Value :
       Add(k, v) /\ Size[v] <= MaxBytes =>
         LET full == <<[key |-> k, value |-> v]>> \o Others(k)
         IN /\ order' # << >> /\ IsPrefix(order', full)
            /\ Total(order') <= MaxBytes
            /\ order' = full \/ Total(SubSeq(full, 1, Len(order') + 1)) > MaxBytes]_vars

(* The map the store sees.                                                 *)
Held == [k \in {order[i].key : i \in DOMAIN order} |->
           order[CHOOSE i \in Position(k) : TRUE].value]

Map == INSTANCE BoundedMap WITH content <- Held

(* The list, the map and the counter together behave as a bounded map that *)
(* forgets and never invents: what lru.go promises the store.              *)
ImplementsBoundedMap == Map!Spec
=============================================================================
