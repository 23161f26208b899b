---------------------------- MODULE MissingEvents ----------------------------
(***************************************************************************)
(* The walk of /get_missing_events: GetMissingEvents and prevEvents of     *)
(* internal/store/missingevents.go.                                        *)
(*                                                                         *)
(* Backwards from `latest', breadth first, not past `earliest', until      *)
(* `limit' events are found.  Event ids are integers, for their order.  A  *)
(* step is one query for the prev-events of one event.                     *)
(*                                                                         *)
(* A definition named X_Y is X with a fault, for showing that a property   *)
(* notices it; nothing uses it.                                            *)
(***************************************************************************)
EXTENDS Integers, Sequences, FiniteSets, SequencesExt, FiniteSetsExt, Ancestry

CONSTANTS
  Event,       \* event ids
  Graph,       \* the graphs considered: event_edges, joined with events of the room
  AskedLimit   \* the limits asked for

ASSUME EventAssumption ==
  Event \subseteq Nat /\ IsFiniteSet(Event) /\ Graph \subseteq [Event -> SUBSET Event]
  /\ AskedLimit \subseteq Int

MaxMissingEvents == 20

VARIABLES
  prev,                     \* the room's graph
  held,                     \* the events of the room that we hold
  earliest, latest, limit,  \* the request, its limit capped
  phase,                    \* "ask", "walk", "done", "failed"
  seen, results, truncated,
  front, next               \* what is left of this generation, and the one after it

request == <<prev, held, earliest, latest, limit>>
walkVars == <<request, phase, seen, front, next, results, truncated>>

WalkInit ==
  /\ prev \in Graph
  /\ held \in {h \in SUBSET Event : \A e \in Event : prev[e] \subseteq h}
  /\ earliest \in SUBSET Event
  /\ latest \in SUBSET Event
  /\ \E n \in AskedLimit : limit = Min({n, MaxMissingEvents})
  /\ phase = "ask"
  /\ seen = {} /\ front = {} /\ next = {} /\ results = << >>
  /\ truncated = FALSE

(* Event ids in order.                                                     *)
InOrder(ids) ==
  CHOOSE s \in [1 .. Cardinality(ids) -> ids] : \A i, j \in DOMAIN s : i < j => s[i] < s[j]

-----------------------------------------------------------------------------
(* No room for an answer, or nothing asked that the caller has not got.    *)
Nothing ==
  /\ phase = "ask"
  /\ limit <= 0 \/ latest \subseteq earliest
  /\ phase' = "done"
  /\ UNCHANGED <<request, seen, front, next, results, truncated>>

Start_InAnyRoom ==
  /\ phase = "ask"
  /\ limit > 0 /\ ~(latest \subseteq earliest)
  /\ phase' = "walk"
  /\ seen' = earliest
  /\ front' = latest \ earliest
  /\ UNCHANGED <<request, next, results, truncated>>

Start_LatestSeen ==
  /\ phase = "ask"
  /\ limit > 0 /\ ~(latest \subseteq earliest)
  /\ phase' = "walk"
  /\ seen' = earliest \cup latest
  /\ front' = (latest \ earliest) \cap held
  /\ UNCHANGED <<request, next, results, truncated>>

(* The events to start from are those we hold in this room.                *)
Start ==
  /\ phase = "ask"
  /\ limit > 0 /\ ~(latest \subseteq earliest)
  /\ phase' = "walk"
  /\ seen' = earliest
  /\ front' = (latest \ earliest) \cap held
  /\ UNCHANGED <<request, next, results, truncated>>

(* prevEvents: the first by id, and no more than there is room for.        *)
PrevEvents(e) ==
  {p \in prev[e] : Cardinality({q \in prev[e] : q < p}) < limit - Len(results)}

(* The frontier holds no event twice and is sorted, so the next event is   *)
(* the least that is left of it.                                           *)
Visit(e) ==
  LET fresh == PrevEvents(e) \ seen IN
  /\ phase = "walk" /\ Len(results) < limit
  /\ e \in front /\ \A o \in front : e <= o
  /\ front' = front \ {e}
  /\ seen' = seen \cup fresh
  /\ next' = next \cup fresh
  /\ results' = results \o InOrder(fresh)
  /\ UNCHANGED <<request, phase, truncated>>

NextGeneration ==
  /\ phase = "walk" /\ front = {} /\ next # {} /\ Len(results) < limit
  /\ front' = next
  /\ next' = {}
  /\ UNCHANGED <<request, phase, seen, results, truncated>>

(* Reversed: the answer is in roughly chronological order.                 *)
Finish ==
  /\ phase = "walk"
  /\ Len(results) >= limit \/ (front = {} /\ next = {})
  /\ phase' = "done"
  /\ results' = Reverse(results)
  /\ truncated' = (Len(results) >= limit)
  /\ UNCHANGED <<request, seen, front, next>>

(* A query fails, the first one or one for prev-events: what was found is  *)
(* not returned.                                                           *)
QueryFails ==
  /\ \/ phase = "ask" /\ limit > 0 /\ ~(latest \subseteq earliest)
     \/ phase = "walk" /\ front # {} /\ Len(results) < limit
  /\ phase' = "failed"
  /\ results' = << >> /\ truncated' = FALSE
  /\ seen' = {} /\ front' = {} /\ next' = {}
  /\ UNCHANGED request

WalkNext ==
  Nothing \/ Start \/ (\E e \in Event : Visit(e)) \/ NextGeneration \/ Finish \/ QueryFails

WalkSpec == WalkInit /\ [][WalkNext]_walkVars

-----------------------------------------------------------------------------
(* Type invariant; what is left to visit has been found and was not asked  *)
(* to be left out.                                                         *)
WalkTypeOK ==
  /\ phase \in {"ask", "walk", "done", "failed"}
  /\ seen \subseteq Event
  /\ results \in Seq(Event)
  /\ truncated \in BOOLEAN
  /\ front \subseteq Event \ earliest /\ next \subseteq seen \ earliest

(* What the walk is after: the events behind the ones asked for, not       *)
(* looking past one that the caller has.                                   *)
Beyond == [e \in Event |-> IF e \in earliest THEN {} ELSE prev[e] \ earliest]
Wanted == Ancestors(Beyond, (latest \ earliest) \cap held)

(* Everything returned lies between the two, and no event is given away    *)
(* that the caller did not ask about or has; none comes twice, and the     *)
(* walk "stops mid-frontier rather than overshooting" the limit.           *)
OnlyWanted ==
  /\ ToSet(results) \subseteq Wanted
  /\ Cardinality(ToSet(results)) = Len(results)
  /\ Len(results) <= Max({limit, 0})

MostPrevs == Max({Cardinality(prev[e]) : e \in Event})

(* With room to spare for the prev-events of any one event, the walk finds *)
(* everything, and says that it was not cut short.  With less, prev-events *)
(* already seen may use up the LIMIT of a query; others are then lost, and *)
(* `truncated' does not say so.                                            *)
CompleteWithRoom ==
  phase = "done" /\ Len(results) + MostPrevs <= limit
    => ToSet(results) = Wanted /\ (MostPrevs > 0 => ~truncated)
=============================================================================
