------------------------------ MODULE AuthChain ------------------------------
(***************************************************************************)
(* The auth chain of a set of events: internal/store/authchain.go.         *)
(*                                                                         *)
(* Synapse's chain cover index gives an event a place in a chain, each     *)
(* event of a chain reaching all earlier ones, and records links between   *)
(* chains.  GetAuthChainIDs follows links, a generation of queries at a    *)
(* time, to the furthest place reached in every chain; where an event of   *)
(* the request is not in the index, GetAuthChainIDsRecursive walks the     *)
(* graph itself.  A step is one generation.                                *)
(*                                                                         *)
(* A definition named X_Y is X with a fault, for showing that a property   *)
(* notices it; nothing uses it.                                            *)
(***************************************************************************)
EXTENDS Integers, FiniteSets, FiniteSetsExt, Ancestry

CONSTANTS
  Event,     \* event ids, also used to name chains
  Graph      \* the auth graphs considered: event_auth, joined with events

ASSUME GraphAssumption == Graph \subseteq [Event -> SUBSET Event] /\ IsFiniteSet(Event)

VARIABLES
  auth, chain, seq, covered, links,   \* the database
  start,       \* the events asked for
  phase,       \* "ask", "links", "walk", "done", "failed"
  frontier,    \* materialiseChains: how far each chain may be left from; 0: not in it
  reachable,   \* materialiseChains: how far each chain is reached; 0: not at all
  front,       \* GetAuthChainIDsRecursive: events whose parents are asked next
  results      \* the events found

database == <<auth, chain, seq, covered, links, start>>
vars == <<database, phase, frontier, reachable, front, results>>

-----------------------------------------------------------------------------
(* What Synapse keeps in event_auth_chains and event_auth_chain_links      *)
(* (external).  An event is in the index only if what it refers to is, so  *)
(* an event on a cycle never is.                                           *)

Reaches(e, a) == a \in Ancestors(auth, {e})

InChain(c) == {e \in covered : chain[e] = c}

(* A chain is named for its first event, and each event of it reaches all  *)
(* the earlier ones, whose number gives its sequence number.               *)
ValidChains ==
  /\ \A e \in Event : IF e \in covered THEN chain[e] \in InChain(chain[e]) ELSE chain[e] = e
  /\ \A e \in covered : ~Reaches(e, e) /\ (e = chain[e] \/ Reaches(e, chain[e]))
  /\ \A e, a \in covered :
       chain[e] = chain[a] => e = a \/ (Reaches(e, a) <=> ~Reaches(a, e))

SequenceNumber(e) ==
  IF e \in covered THEN 1 + Cardinality({a \in InChain(chain[e]) : Reaches(e, a)}) ELSE 0

Crossing == {l \in covered \X covered : l[2] \in auth[l[1]] /\ chain[l[1]] # chain[l[2]]}

(* A link may be left out when another parent leads to the same event.     *)
Implied(l) == \E b \in auth[l[1]] : Reaches(b, l[2])

Init ==
  /\ auth \in Graph
  /\ covered \in {c \in SUBSET Event : Closed(auth, c)}
  /\ chain \in [Event -> Event]
  /\ ValidChains
  /\ seq = [e \in Event |-> SequenceNumber(e)]
  /\ links \in {Crossing, {l \in Crossing : ~Implied(l)}}
  /\ start \in SUBSET Event
  /\ phase = "ask"
  /\ frontier = [c \in Event |-> 0]
  /\ reachable = [c \in Event |-> 0]
  /\ front = {}
  /\ results = {}

-----------------------------------------------------------------------------
(* Step 1: the furthest of the events asked for in each chain.             *)
EventChains == [c \in Event |-> Max({0} \cup {seq[e] : e \in start \cap InChain(c)})]

(* Nothing asked; every event in the index; one that is not.               *)
Nothing ==
  /\ phase = "ask" /\ start = {}
  /\ phase' = "done"
  /\ UNCHANGED <<database, frontier, reachable, front, results>>

AskIndex ==
  /\ phase = "ask" /\ start # {} /\ start \subseteq covered
  /\ phase' = "links"
  /\ frontier' = EventChains
  /\ UNCHANGED <<database, reachable, front, results>>

FallBack ==
  /\ phase = "ask" /\ ~(start \subseteq covered)
  /\ phase' = "walk"
  /\ front' = start
  /\ UNCHANGED <<database, frontier, reachable, results>>

(* Step 2: links that leave a frontier chain from a place within reach.    *)
Usable_FromAnywhere == {l \in links : frontier[chain[l[1]]] > 0}
Usable == {l \in links : seq[l[1]] <= frontier[chain[l[1]]]}

FollowLinks ==
  LET reached == [c \in Event |->
        Max({reachable[c]} \cup {seq[l[2]] : l \in {l \in Usable : chain[l[2]] = c}})]
  IN
  /\ phase = "links"
  /\ \E c \in Event : frontier[c] > 0
  /\ reachable' = reached
  /\ frontier' = [c \in Event |-> IF reached[c] > reachable[c] THEN reached[c] ELSE 0]
  /\ UNCHANGED <<database, phase, front, results>>

(* Steps 3 and 4: an event reaches what is before it in its own chain.     *)
Collect ==
  LET chains == [c \in Event |-> Max({reachable[c], EventChains[c] - 1})] IN
  /\ phase = "links"
  /\ \A c \in Event : frontier[c] = 0
  /\ results' = {e \in covered : seq[e] <= chains[chain[e]]}
  /\ phase' = "done"
  /\ UNCHANGED <<database, frontier, reachable, front>>

-----------------------------------------------------------------------------
(* The recursive walk: a generation of parents, those not seen followed.   *)
Walk_RevisitsSeen ==
  /\ phase = "walk" /\ front # {}
  /\ front' = Parents(auth, front)
  /\ results' = results \cup Parents(auth, front)
  /\ UNCHANGED <<database, phase, frontier, reachable>>

Walk ==
  /\ phase = "walk" /\ front # {}
  /\ front' = Parents(auth, front) \ results
  /\ results' = results \cup Parents(auth, front)
  /\ UNCHANGED <<database, phase, frontier, reachable>>

Walked ==
  /\ phase = "walk" /\ front = {}
  /\ phase' = "done"
  /\ UNCHANGED <<database, frontier, reachable, front, results>>

(* A query fails: for positions, for links, for the events or for parents. *)
(* The caller has an error, and nothing of what was found.                 *)
QueryFails ==
  /\ \/ phase = "ask" /\ start # {}
     \/ phase = "links" /\ \E c \in Event : frontier[c] > 0 \/ reachable[c] > 0 \/ EventChains[c] > 1
     \/ phase = "walk" /\ front # {}
  /\ phase' = "failed"
  /\ results' = {}
  /\ UNCHANGED <<database, frontier, reachable, front>>

Next ==
  Nothing \/ AskIndex \/ FallBack \/ FollowLinks \/ Collect \/ Walk \/ Walked \/ QueryFails

Spec == Init /\ [][Next]_vars

(* A query that is sent is answered or fails, and the loops go on.         *)
FairSpec == Spec /\ WF_vars(Next)

-----------------------------------------------------------------------------
(* Type invariant.                                                         *)
TypeOK ==
  /\ phase \in {"ask", "links", "walk", "done", "failed"}
  /\ frontier \in [Event -> 0 .. Cardinality(Event)]
  /\ reachable \in [Event -> 0 .. Cardinality(Event)]
  /\ front \subseteq Event
  /\ results \subseteq Event

(* The index and the walk compute the same thing, the auth chain: all that *)
(* the events asked for refer to, directly or not, and nothing else.       *)
Exact == phase = "done" => results = Ancestors(auth, start)

(* Both loops end, on "the cycles that malformed rooms can contain" too.   *)
Terminates == <>(phase \in {"done", "failed"})
=============================================================================
