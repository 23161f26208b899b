--------------------------- MODULE CacheCoherence ---------------------------
(***************************************************************************)
(* The caches against Synapse's database: the replication subscriber       *)
(* (internal/replication/replication.go), the set of caches it drives      *)
(* (internal/store/cache.go), the armed flag of lru.go, and the            *)
(* read-through of internal/store (GetEvents, GetStateGroupForEvent,       *)
(* GetStateForGroup, cachedFilteredState, GetAuthChainIDs).                *)
(*                                                                         *)
(* Nothing holds two of the locks at once: the subscriber goes through the *)
(* caches one by one, each SetArmed stores the flag and then empties under *)
(* the mutex, and a reader looks at the flag before it takes the mutex and *)
(* queries the database holding nothing.  Each of those is one step here.  *)
(*                                                                         *)
(* A datum is only a version: db[c][k] counts what Synapse has done to     *)
(* what cache c would hold under k, and an entry is the version it was     *)
(* read at.  What is forgotten for lack of room is any entry (see LRU).    *)
(*                                                                         *)
(* A definition named X_Y is X with a fault, for showing that a property   *)
(* notices it; nothing uses it.                                            *)
(***************************************************************************)
EXTENDS Integers, Sequences, FiniteSets, SequencesExt

CONSTANTS
  Order,       \* the caches, in the order SetCachesArmed and PurgeCaches go
  Key,         \* what they are keyed by
  Reader,      \* request goroutines
  MaxVersion,  \* bound: how often Synapse changes one datum
  MaxChannel   \* bound: messages not yet received

Cache == ToSet(Order)

(* The caches DropEvent reaches, and the one filled from another.          *)
ByEvent == {"events", "eventStateGroup"} \cap Cache
Derived == {"filteredState"} \cap Cache
Whole   == "stateGroups"

ASSUME OrderAssumption ==
  /\ Order \in Seq({"stateGroups", "events", "eventStateGroup", "authChains", "filteredState"})
  /\ IsInjective(Order)
  /\ "filteredState" \in Cache => Whole \in Cache
  /\ \A i, j \in DOMAIN Order : Order[i] = Whole /\ Order[j] = "filteredState" => i < j
  /\ MaxVersion \in Nat /\ MaxChannel \in Nat

VARIABLES
  db,        \* Synapse's database
  armed,     \* LRU.armed
  content,   \* LRU.entries: the version held, or None
  session,   \* Run: "backoff", "open" (inside session) or "stopped"
  link,      \* the Redis connection is subscribed
  channel,   \* ChannelWithSubscriptions: not yet received
  todo,      \* what the subscriber has still to do to the caches
  reader,    \* where each reader is: at, cache, key, version read
  overtaken, \* history: an invalidation passed since the reader read
  late       \* history: entries such a reader has put in

vars == <<db, armed, content, session, link, channel, todo, reader, overtaken, late>>
caches == <<armed, content, late>>

None == -1
Versions == 0 .. MaxVersion

-----------------------------------------------------------------------------
(* The subscriber's program, as a list of single steps on single caches.   *)
OnAll(op)   == [i \in DOMAIN Order |-> [op |-> op, cache |-> Order[i]]]
PurgeCaches_DerivedFirst == Reverse(OnAll("purge"))
PurgeCaches == OnAll("purge")

(* A Remove of a cache that is not there does nothing.                     *)
DropEvent(k) == <<[op |-> "drop", cache |-> "events", key |-> k],
                  [op |-> "drop", cache |-> "eventStateGroup", key |-> k]>>

(* SetArmed(false), one cache after another: each stores the flag, then    *)
(* empties.                                                                *)
Disarm == [i \in 1 .. 2 * Len(Order) |->
             [op |-> IF i % 2 = 1 THEN "disarm" ELSE "purge", cache |-> Order[(i + 1) \div 2]]]

Arm_KeepsEntries == OnAll("arm")
Arm == Disarm \o OnAll("arm")

(* session and handle: what a received event leads to.  A row that cannot  *)
(* be parsed empties; presence, receipts and unknown caches are ignored.   *)
Response(m) ==
  CASE m.type = "subscribe" -> Arm
    [] m.type \in {"purge", "malformed"} -> PurgeCaches
    [] m.type = "event" -> DropEvent(m.key)
    [] m.type = "other" -> << >>

Init ==
  /\ db = [c \in Cache |-> [k \in Key |-> 0]]
  /\ armed = [c \in Cache |-> TRUE]            \* NewLRU: armed by default
  /\ content = [c \in Cache |-> [k \in Key |-> None]]
  /\ session = "backoff"
  /\ link = FALSE
  /\ channel = << >>
  /\ todo = Disarm                             \* Run: disarm("startup")
  /\ reader = [r \in Reader |-> [at |-> "idle"]]
  /\ overtaken = [r \in Reader |-> FALSE]
  /\ late = [c \in Cache |-> {}]

-----------------------------------------------------------------------------
(* Synapse and Redis (external).  A row is published after its change; a   *)
(* subscriber that is not connected never sees it.                         *)
Publish(m) ==
  /\ Len(channel) < MaxChannel
  /\ channel' = IF link THEN Append(channel, m) ELSE channel

Bump(cs, ks) ==
  /\ \A c \in cs, k \in ks : db[c][k] < MaxVersion
  /\ db' = [c \in Cache |-> [k \in Key |->
             IF c \in cs /\ k \in ks THEN db[c][k] + 1 ELSE db[c][k]]]

(* purge_history or a deleted room: any of the data, not enumerated.       *)
Delete ==
  /\ \E ks \in SUBSET Key \ {{}} : Bump(Cache, ks)
  /\ \E type \in {"purge", "malformed"} : Publish([type |-> type])
  /\ UNCHANGED <<session, link, todo, reader, overtaken, caches>>

(* One event was changed.                                                  *)
ChangeEvent ==
  /\ \E k \in Key :
       /\ Bump(ByEvent, {k})
       /\ \E m \in {[type |-> "event", key |-> k], [type |-> "purge"], [type |-> "malformed"]} :
            Publish(m)
  /\ UNCHANGED <<session, link, todo, reader, overtaken, caches>>

(* Rows that concern nothing cached here.                                  *)
Chatter ==
  /\ Publish([type |-> "other"])
  /\ UNCHANGED <<db, session, link, todo, reader, overtaken, caches>>

(* go-redis loses the connection, and subscribes (again) by itself.        *)
LinkDown ==
  /\ link
  /\ link' = FALSE
  /\ UNCHANGED <<db, session, channel, todo, reader, overtaken, caches>>

LinkUp ==
  /\ session = "open"
  /\ ~link
  /\ Len(channel) < MaxChannel
  /\ link' = TRUE
  /\ channel' = Append(channel, [type |-> "subscribe"])
  /\ UNCHANGED <<db, session, todo, reader, overtaken, caches>>

-----------------------------------------------------------------------------
(* The subscriber.                                                         *)

StartSession ==
  /\ session = "backoff" /\ todo = << >>
  /\ session' = "open"
  /\ UNCHANGED <<db, link, channel, todo, reader, overtaken, caches>>

Receive ==
  /\ session = "open" /\ todo = << >> /\ channel # << >>
  /\ todo' = Response(Head(channel))
  /\ channel' = Tail(channel)
  /\ UNCHANGED <<db, session, link, reader, overtaken, caches>>

(* The channel was closed: the deferred Closes, then disarm and backoff.   *)
SessionEnds ==
  /\ session = "open" /\ todo = << >>
  /\ session' = "backoff"
  /\ link' = FALSE /\ channel' = << >>
  /\ todo' = Disarm
  /\ UNCHANGED <<db, reader, overtaken, caches>>

(* ctx is done, in a session or in the backoff.                            *)
Shutdown ==
  /\ session # "stopped" /\ todo = << >>
  /\ session' = "stopped"
  /\ link' = FALSE /\ channel' = << >>
  /\ todo' = Disarm
  /\ UNCHANGED <<db, reader, overtaken, caches>>

(* Whether a step of the subscriber takes the entry under k out of c.      *)
Clears(s, c, k) ==
  s.cache = c /\ (s.op = "purge" \/ (s.op = "drop" /\ s.key = k))

(* A reader has a value in hand for the entry that step s takes out.       *)
Holds(r) == reader[r].at \in {"have", "adding"}
Overtakes(s, r) == Holds(r) /\ Clears(s, reader[r].cache, reader[r].key)

CacheStep ==
  /\ todo # << >>
  /\ LET s == Head(todo) IN
     /\ armed' = IF s.op \in {"arm", "disarm"}
                 THEN [armed EXCEPT ![s.cache] = (s.op = "arm")] ELSE armed
     /\ content' = [c \in Cache |-> [k \in Key |->
                      IF Clears(s, c, k) THEN None ELSE content[c][k]]]
     /\ late' = [c \in Cache |-> {k \in late[c] : ~Clears(s, c, k)}]
     /\ overtaken' = [r \in Reader |-> overtaken[r] \/ Overtakes(s, r)]
  /\ todo' = Tail(todo)
  /\ UNCHANGED <<db, session, link, channel, reader>>

-----------------------------------------------------------------------------
(* A reader: Get, the query, Add.                                          *)

Goto(r, to) == reader' = [reader EXCEPT ![r] = to]
Done(r) == Goto(r, [at |-> "idle"])
Unmoved == UNCHANGED <<db, session, link, channel, todo>>

(* Get's Enabled(), before the mutex.  A miss goes on to the database, or  *)
(* first to the whole map for a filtered view.                             *)
Missed(c, k) == [at |-> IF c \in Derived THEN "whole" ELSE "query", cache |-> c, key |-> k]

Lookup(r) ==
  /\ reader[r].at = "idle"
  /\ \E c \in Cache, k \in Key :
       Goto(r, IF armed[c] THEN [at |-> "get", cache |-> c, key |-> k] ELSE Missed(c, k))
  /\ Unmoved /\ UNCHANGED <<overtaken, caches>>

(* Get, under the mutex: a hit is served.                                  *)
Get(r) ==
  LET c == reader[r].cache  k == reader[r].key IN
  /\ reader[r].at = "get"
  /\ IF content[c][k] # None THEN Done(r) ELSE Goto(r, Missed(c, k))
  /\ Unmoved /\ UNCHANGED <<overtaken, caches>>

(* cachedFilteredState: stateGroups.Get, its flag and then its mutex.      *)
LookupWhole(r) ==
  /\ reader[r].at = "whole"
  /\ Goto(r, [reader[r] EXCEPT !.at = IF armed[Whole] THEN "getwhole" ELSE "query"])
  /\ Unmoved /\ UNCHANGED <<overtaken, caches>>

Have(c, k, v) == [at |-> "have", cache |-> c, key |-> k, version |-> v]

GetWhole(r) ==
  LET c == reader[r].cache  k == reader[r].key IN
  /\ reader[r].at = "getwhole"
  /\ IF content[Whole][k] # None
     THEN /\ Goto(r, Have(c, k, content[Whole][k]))
          /\ overtaken' = [overtaken EXCEPT ![r] = k \in late[Whole]]
     ELSE Goto(r, [reader[r] EXCEPT !.at = "query"]) /\ UNCHANGED overtaken
  /\ Unmoved /\ UNCHANGED caches

(* The database answers; an error or a missing row ends the read.          *)
Query(r) ==
  LET c == reader[r].cache  k == reader[r].key IN
  /\ reader[r].at = "query"
  /\ Goto(r, Have(c, k, db[c][k]))
  /\ overtaken' = [overtaken EXCEPT ![r] = FALSE]
  /\ Unmoved /\ UNCHANGED caches

QueryFails(r) ==
  /\ reader[r].at = "query"
  /\ Done(r)
  /\ Unmoved /\ UNCHANGED <<overtaken, caches>>

(* Add's Enabled(), before the mutex.                                      *)
OfferAdd(r) ==
  /\ reader[r].at = "have"
  /\ IF armed[reader[r].cache]
     THEN Goto(r, [reader[r] EXCEPT !.at = "adding"])
     ELSE Done(r)
  /\ Unmoved /\ UNCHANGED <<overtaken, caches>>

(* GetEventsBatched reads without populating.                              *)
ReadOnly(r) ==
  /\ reader[r].at = "have"
  /\ Done(r)
  /\ Unmoved /\ UNCHANGED <<overtaken, caches>>

(* Add, under the mutex; room is made by forgetting other entries.         *)
Add(r) ==
  LET c == reader[r].cache  k == reader[r].key IN
  /\ reader[r].at = "adding"
  /\ \E evicted \in SUBSET (Key \ {k}) :
       /\ content' = [content EXCEPT ![c] = [j \in Key |->
                        IF j = k THEN reader[r].version
                        ELSE IF j \in evicted THEN None ELSE @[j]]]
       /\ late' = [late EXCEPT ![c] =
                     ((@ \ evicted) \ {k}) \cup IF overtaken[r] THEN {k} ELSE {}]
  /\ Done(r)
  /\ Unmoved /\ UNCHANGED <<armed, overtaken>>

-----------------------------------------------------------------------------
Subscriber == StartSession \/ Receive \/ CacheStep
Read(r) ==
  \/ Lookup(r) \/ Get(r) \/ LookupWhole(r) \/ GetWhole(r)
  \/ Query(r) \/ QueryFails(r) \/ OfferAdd(r) \/ ReadOnly(r) \/ Add(r)

Next ==
  \/ Delete \/ ChangeEvent \/ Chatter \/ LinkDown \/ LinkUp
  \/ Subscriber \/ SessionEnds \/ Shutdown
  \/ \E r \in Reader : Read(r)

Spec == Init /\ [][Next]_vars

(* The subscriber's goroutine runs and go-redis keeps reconnecting.        *)
FairSpec == Spec /\ WF_vars(Subscriber) /\ WF_vars(LinkUp)

-----------------------------------------------------------------------------
(* Type invariant: what a reader is about to cache was read.               *)
TypeOK ==
  /\ db \in [Cache -> [Key -> Versions]]
  /\ armed \in [Cache -> BOOLEAN]
  /\ content \in [Cache -> [Key -> Versions \cup {None}]]
  /\ session \in {"backoff", "open", "stopped"}
  /\ link \in BOOLEAN
  /\ Len(channel) <= MaxChannel
  /\ \A r \in Reader : reader[r].at \in
       {"idle", "get", "whole", "getwhole", "query", "have", "adding"}
  /\ \A r \in Reader : Holds(r) => reader[r].version \in Versions
  /\ overtaken \in [Reader -> BOOLEAN]
  /\ late \in [Cache -> SUBSET Key]

(* An invalidation that will take the entry out is on its way: in the      *)
(* subscriber's hands, in the channel, or (the connection being down) in   *)
(* the empty-and-arm that every subscribe causes.                          *)
OnItsWay(c, k) ==
  \/ \E i \in DOMAIN todo : Clears(todo[i], c, k)
  \/ \E i \in DOMAIN channel : \E j \in DOMAIN Response(channel[i]) :
       Clears(Response(channel[i])[j], c, k)
  \/ ~link

Stale(c, k) == content[c][k] \notin {None, db[c][k]}

(* Whatever order deletions, rows, lost connections and the one-by-one     *)
(* emptying happen in, an entry that no longer agrees with the database is *)
(* about to be removed, unless a reader put it in that had read before an  *)
(* invalidation and added after it.  For a filtered view this rests on     *)
(* stateGroups being emptied before filteredState.                         *)
StaleIsOnItsWayOut ==
  \A c \in Cache, k \in Key : Stale(c, k) /\ k \notin late[c] => OnItsWay(c, k)

(* A stale entry does not stay: it goes, or a slow reader replaces it.     *)
StaleGoes ==
  \A c \in Cache, k \in Key :
    Stale(c, k) ~> ~Stale(c, k) \/ k \in late[c]

(* cache.go: "Disarming empties every cache, so re-arming always starts    *)
(* from the database"; README: "Losing Redis costs latency, never          *)
(* correctness".  With the stream up and everything received, applied and  *)
(* read, what is cached is what the database holds.                        *)
CurrentWhenQuiet ==
  (/\ link /\ channel = << >> /\ todo = << >>
   /\ \A r \in Reader : reader[r].at = "idle")
  => \A c \in Cache, k \in Key : armed[c] => ~Stale(c, k)
=============================================================================
