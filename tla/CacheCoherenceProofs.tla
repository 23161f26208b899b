------------------------ MODULE CacheCoherenceProofs ------------------------
(***************************************************************************)
(* A stale entry always has its invalidation on the way, for any caches,   *)
(* keys, readers, changes and messages: proofs checked by TLAPS.           *)
(***************************************************************************)
EXTENDS CacheCoherence, TLAPS

Filtered == "filteredState"

(* The shapes of what travels.                                             *)
Steps ==
       [op : {"arm", "disarm", "purge"}, cache : Cache]
  \cup [op : {"drop"}, cache : {"events", "eventStateGroup"}, key : Key]

Messages ==
  [type : {"subscribe", "purge", "malformed", "other"}] \cup [type : {"event"}, key : Key]

Readings ==
       [at : {"idle"}]
  \cup [at : {"get", "query"}, cache : Cache, key : Key]
  \cup [at : {"whole", "getwhole"}, cache : Derived, key : Key]
  \cup [at : {"have", "adding"}, cache : Cache, key : Key, version : Int]

Shapes ==
  /\ db \in [Cache -> [Key -> Int]]
  /\ content \in [Cache -> [Key -> Int]]
  /\ channel \in Seq(Messages)
  /\ todo \in Seq(Steps)
  /\ reader \in [Reader -> Readings]
  /\ overtaken \in [Reader -> BOOLEAN]
  /\ late \in [Cache -> SUBSET Key]

(* A program that empties the whole maps goes on to empty the filtered     *)
(* views made of them.                                                     *)
Purges(p, i, c) == p[i].op = "purge" /\ p[i].cache = c
ViewsFollow(p) ==
  \A i \in DOMAIN p :
    Purges(p, i, Whole) /\ Filtered \in Cache => \E j \in DOMAIN p : j > i /\ Purges(p, j, Filtered)

(* A filtered view changes exactly when the whole map does.                *)
OneDatum == Filtered \in Cache => \A k \in Key : db[Whole][k] = db[Filtered][k]

(* What a reader has in hand is current, or an invalidation is on its way  *)
(* that will find it out; unless one has passed it already.                *)
HandOK(r) ==
  (Holds(r) /\ ~overtaken[r])
  => \/ reader[r].version = db[reader[r].cache][reader[r].key]
     \/ OnItsWay(reader[r].cache, reader[r].key)

(* The inductive invariant.                                                *)
IInv ==
  /\ Shapes /\ ViewsFollow(todo) /\ OneDatum
  /\ \A r \in Reader : HandOK(r)
  /\ StaleIsOnItsWayOut

-----------------------------------------------------------------------------
(* The subscriber's programs.                                              *)

(* The caches are the ones that Order lists.                               *)
LEMMA CacheNames ==
  /\ Cache \subseteq {"stateGroups", "events", "eventStateGroup", "authChains", "filteredState"}
  /\ Order \in Seq(Cache)
  /\ \A c \in Cache : \E i \in DOMAIN Order : Order[i] = c
  /\ \A i \in DOMAIN Order : Order[i] \in Cache
BY OrderAssumption DEF Cache, ToSet

(* One step for every cache, in order.                                     *)
LEMMA OnAllFacts ==
  ASSUME NEW op \in {"arm", "disarm", "purge"}
  PROVE  /\ OnAll(op) \in Seq(Steps) /\ DOMAIN OnAll(op) = DOMAIN Order
         /\ \A i \in DOMAIN Order : OnAll(op)[i].op = op /\ OnAll(op)[i].cache = Order[i]
<1>1. Len(Order) \in Nat /\ DOMAIN Order = 1 .. Len(Order)
  BY CacheNames
<1>2. \A i \in 1 .. Len(Order) : [op |-> op, cache |-> Order[i]] \in Steps
  BY <1>1, CacheNames DEF Steps
<1>3. OnAll(op) \in Seq(Steps)
  BY <1>1, <1>2 DEF OnAll
<1> QED
  BY <1>3 DEF OnAll

(* PurgeCaches empties every cache, the whole states before their views.   *)
LEMMA PurgeFacts ==
  /\ PurgeCaches \in Seq(Steps) /\ ViewsFollow(PurgeCaches)
  /\ \A c \in Cache : \E i \in DOMAIN PurgeCaches : Purges(PurgeCaches, i, c)
<1>1. /\ PurgeCaches \in Seq(Steps) /\ DOMAIN PurgeCaches = DOMAIN Order
      /\ \A i \in DOMAIN Order : PurgeCaches[i].op = "purge" /\ PurgeCaches[i].cache = Order[i]
  BY OnAllFacts DEF PurgeCaches
<1>2. \A c \in Cache : \E i \in DOMAIN PurgeCaches : Purges(PurgeCaches, i, c)
  BY <1>1, CacheNames DEF Purges
<1>3. ViewsFollow(PurgeCaches)
  <2> SUFFICES ASSUME NEW i \in DOMAIN PurgeCaches, Purges(PurgeCaches, i, Whole), Filtered \in Cache
               PROVE  \E j \in DOMAIN PurgeCaches : j > i /\ Purges(PurgeCaches, j, Filtered)
    BY DEF ViewsFollow
  <2>1. PICK j \in DOMAIN PurgeCaches : Purges(PurgeCaches, j, Filtered)
    BY <1>2
  <2>2. i \in DOMAIN Order /\ j \in DOMAIN Order /\ Order[i] = Whole /\ Order[j] = Filtered
    BY <1>1, <2>1 DEF Purges
  <2>3. i < j /\ i \in Int /\ j \in Int
    BY <2>2, OrderAssumption, CacheNames DEF Filtered
  <2> QED
    BY <2>1, <2>3
<1> QED
  BY <1>1, <1>2, <1>3

(* So does Disarm.                                                         *)
LEMMA DisarmFacts ==
  /\ Disarm \in Seq(Steps) /\ ViewsFollow(Disarm)
  /\ \A c \in Cache : \E i \in DOMAIN Disarm : Purges(Disarm, i, c)
<1>1. Len(Order) \in Nat /\ DOMAIN Order = 1 .. Len(Order)
  BY CacheNames
<1>2. ASSUME NEW i \in 1 .. 2 * Len(Order)
      PROVE  (i + 1) \div 2 \in DOMAIN Order /\ i % 2 \in {0, 1} /\ (i % 2 = 0 => i = 2 * ((i + 1) \div 2))
  BY <1>1
<1>3. DOMAIN Disarm = 1 .. 2 * Len(Order) /\ 2 * Len(Order) \in Nat
  BY <1>1 DEF Disarm
<1>4. Disarm \in Seq(Steps)
  <2>1. ASSUME NEW i \in 1 .. 2 * Len(Order)
        PROVE  [op |-> IF i % 2 = 1 THEN "disarm" ELSE "purge", cache |-> Order[(i + 1) \div 2]] \in Steps
    <3>1. Order[(i + 1) \div 2] \in Cache
      BY <1>2, CacheNames
    <3> QED
      BY <3>1 DEF Steps
  <2> QED
    BY <1>3, <2>1 DEF Disarm
<1>5. ASSUME NEW i \in DOMAIN Disarm, NEW c, Purges(Disarm, i, c)
      PROVE  \E p \in DOMAIN Order : i = 2 * p /\ Order[p] = c
  <2>1. i % 2 # 1 /\ Order[(i + 1) \div 2] = c
    BY <1>3, <1>5 DEF Disarm, Purges
  <2> QED
    BY <1>2, <1>3, <2>1
<1>6. ASSUME NEW p \in DOMAIN Order
      PROVE  2 * p \in DOMAIN Disarm /\ Purges(Disarm, 2 * p, Order[p])
  <2>1. p \in Int /\ 2 * p \in 1 .. 2 * Len(Order) /\ (2 * p) % 2 # 1 /\ (2 * p + 1) \div 2 = p
    BY <1>1
  <2> QED
    BY <1>3, <2>1 DEF Disarm, Purges
<1>7. \A c \in Cache : \E i \in DOMAIN Disarm : Purges(Disarm, i, c)
  BY <1>6, CacheNames
<1>8. ViewsFollow(Disarm)
  <2> SUFFICES ASSUME NEW i \in DOMAIN Disarm, Purges(Disarm, i, Whole), Filtered \in Cache
               PROVE  \E j \in DOMAIN Disarm : j > i /\ Purges(Disarm, j, Filtered)
    BY DEF ViewsFollow
  <2>1. PICK p \in DOMAIN Order : i = 2 * p /\ Order[p] = Whole
    BY <1>5
  <2>2. PICK q \in DOMAIN Order : Order[q] = Filtered
    BY CacheNames
  <2>3. p < q /\ p \in Int /\ q \in Int
    BY <1>1, <2>1, <2>2, OrderAssumption DEF Filtered
  <2>4. 2 * q \in DOMAIN Disarm /\ Purges(Disarm, 2 * q, Filtered)
    BY <1>6, <2>2
  <2> QED
    BY <2>1, <2>3, <2>4
<1> QED
  BY <1>4, <1>7, <1>8

(* And so does Arm.                                                        *)
LEMMA ArmFacts ==
  /\ Arm \in Seq(Steps) /\ ViewsFollow(Arm)
  /\ \A c \in Cache : \E i \in DOMAIN Arm : Purges(Arm, i, c)
<1>1. /\ OnAll("arm") \in Seq(Steps)
      /\ \A i \in DOMAIN OnAll("arm") : OnAll("arm")[i].op = "arm"
  BY OnAllFacts
<1>2. Disarm \in Seq(Steps)
  BY DisarmFacts
<1>3. Arm \in Seq(Steps) /\ DOMAIN Arm = 1 .. (Len(Disarm) + Len(OnAll("arm")))
  BY <1>1, <1>2 DEF Arm
<1>4. DOMAIN Disarm = 1 .. Len(Disarm) /\ Len(Disarm) \in Nat /\ Len(OnAll("arm")) \in Nat
      /\ DOMAIN OnAll("arm") = 1 .. Len(OnAll("arm"))
  BY <1>1, <1>2
<1>5. \A i \in DOMAIN Disarm : i \in DOMAIN Arm /\ Arm[i] = Disarm[i]
  BY <1>1, <1>2, <1>3, <1>4 DEF Arm
<1>6. \A i \in DOMAIN Arm : i \notin DOMAIN Disarm => Arm[i].op = "arm"
  <2> SUFFICES ASSUME NEW i \in DOMAIN Arm, i \notin DOMAIN Disarm PROVE Arm[i].op = "arm"
    OBVIOUS
  <2>1. i - Len(Disarm) \in DOMAIN OnAll("arm")
    BY <1>3, <1>4
  <2>2. Arm[i] = OnAll("arm")[i - Len(Disarm)]
    BY <1>1, <1>2, <1>3, <1>4 DEF Arm
  <2> QED
    BY <1>1, <2>1, <2>2
<1>7. \A c \in Cache : \E i \in DOMAIN Arm : Purges(Arm, i, c)
  BY <1>5, DisarmFacts DEF Purges
<1>8. ViewsFollow(Arm)
  BY <1>5, <1>6, DisarmFacts DEF ViewsFollow, Purges
<1> QED
  BY <1>3, <1>7, <1>8

(* DropEvent clears all that is kept for the event.                        *)
LEMMA DropFacts ==
  ASSUME NEW k \in Key
  PROVE  /\ DropEvent(k) \in Seq(Steps) /\ ViewsFollow(DropEvent(k))
         /\ \A c \in ByEvent : \E i \in DOMAIN DropEvent(k) : Clears(DropEvent(k)[i], c, k)
<1>1. /\ [op |-> "drop", cache |-> "events", key |-> k] \in Steps
      /\ [op |-> "drop", cache |-> "eventStateGroup", key |-> k] \in Steps
  BY DEF Steps
<1>2. DropEvent(k) \in Seq(Steps) /\ DOMAIN DropEvent(k) = {1, 2}
  BY <1>1 DEF DropEvent
<1>3. /\ DropEvent(k)[1] = [op |-> "drop", cache |-> "events", key |-> k]
      /\ DropEvent(k)[2] = [op |-> "drop", cache |-> "eventStateGroup", key |-> k]
  BY DEF DropEvent
<1>4. ViewsFollow(DropEvent(k))
  BY <1>2, <1>3 DEF ViewsFollow, Purges
<1>5. \A c \in ByEvent : \E i \in DOMAIN DropEvent(k) : Clears(DropEvent(k)[i], c, k)
  BY <1>2, <1>3 DEF ByEvent, Clears
<1> QED
  BY <1>2, <1>4, <1>5

(* Every message leads to a program that empties in order, and to one that *)
(* takes out what the message is about.                                    *)
LEMMA ResponseFacts ==
  ASSUME NEW m \in Messages
  PROVE  /\ Response(m) \in Seq(Steps) /\ ViewsFollow(Response(m))
         /\ m.type \in {"subscribe", "purge", "malformed"} =>
              \A c \in Cache, k \in Key : \E i \in DOMAIN Response(m) : Clears(Response(m)[i], c, k)
         /\ m.type = "event" =>
              \A c \in ByEvent : \E i \in DOMAIN Response(m) : Clears(Response(m)[i], c, m.key)
<1>1. \/ m.type \in {"subscribe", "purge", "malformed", "other"}
      \/ m.type = "event" /\ m.key \in Key
  BY DEF Messages
<1>2. CASE m.type = "subscribe"
  <2>1. Response(m) = Arm
    BY <1>2 DEF Response
  <2> QED
    BY <1>2, <2>1, ArmFacts DEF Purges, Clears
<1>3. CASE m.type \in {"purge", "malformed"}
  <2>1. Response(m) = PurgeCaches
    BY <1>3 DEF Response
  <2> QED
    BY <1>3, <2>1, PurgeFacts DEF Purges, Clears
<1>4. CASE m.type = "event"
  <2>1. Response(m) = DropEvent(m.key) /\ m.key \in Key
    BY <1>1, <1>4 DEF Response
  <2> QED
    BY <1>4, <2>1, DropFacts
<1>5. CASE m.type = "other"
  <2>1. Response(m) = << >>
    BY <1>5 DEF Response
  <2> QED
    BY <1>5, <2>1 DEF ViewsFollow
<1> QED
  BY <1>1, <1>2, <1>3, <1>4, <1>5

(* Where the whole map's entry is about to go, so is the filtered view's.  *)
LEMMA ViewGoesToo ==
  ASSUME Shapes, ViewsFollow(todo), Filtered \in Cache, NEW k \in Key, OnItsWay(Whole, k)
  PROVE  OnItsWay(Filtered, k)
<1>1. ASSUME NEW p \in Seq(Steps), ViewsFollow(p), NEW i \in DOMAIN p, Clears(p[i], Whole, k)
      PROVE  \E j \in DOMAIN p : Clears(p[j], Filtered, k)
  <2>1. p[i] \in Steps
    BY <1>1
  <2>2. Purges(p, i, Whole)
    BY <1>1, <2>1 DEF Steps, Clears, Purges, Whole
  <2>3. \E j \in DOMAIN p : Purges(p, j, Filtered)
    BY <1>1, <2>2 DEF ViewsFollow
  <2> QED
    BY <2>3 DEF Purges, Clears
<1>2. CASE \E i \in DOMAIN todo : Clears(todo[i], Whole, k)
  BY <1>1, <1>2 DEF Shapes, OnItsWay
<1>3. CASE \E i \in DOMAIN channel : \E j \in DOMAIN Response(channel[i]) :
             Clears(Response(channel[i])[j], Whole, k)
  <2>1. PICK i \in DOMAIN channel : \E j \in DOMAIN Response(channel[i]) :
          Clears(Response(channel[i])[j], Whole, k)
    BY <1>3
  <2>2. channel[i] \in Messages
    BY DEF Shapes
  <2>3. Response(channel[i]) \in Seq(Steps) /\ ViewsFollow(Response(channel[i]))
    BY <2>2, ResponseFacts
  <2> QED
    BY <1>1, <2>1, <2>3 DEF OnItsWay
<1> QED
  BY <1>2, <1>3 DEF OnItsWay

-----------------------------------------------------------------------------
(* The invariant is inductive.                                             *)

(* A step that takes nothing out and puts nothing in: what was on its way  *)
(* still is, what Synapse changed is now, so entries and hands stay good.  *)
LEMMA StillOnItsWay ==
  ASSUME IInv, Shapes', ViewsFollow(todo'), OneDatum',
         \A c \in Cache, k \in Key : OnItsWay(c, k) => OnItsWay(c, k)',
         \A c \in Cache, k \in Key : db'[c][k] = db[c][k] \/ OnItsWay(c, k)',
         UNCHANGED <<content, late, reader, overtaken>>
  PROVE  IInv'
<1>1. ASSUME NEW r \in Reader PROVE HandOK(r)'
  <2> SUFFICES ASSUME Holds(r), ~overtaken[r]
               PROVE  \/ reader[r].version = db'[reader[r].cache][reader[r].key]
                      \/ OnItsWay(reader[r].cache, reader[r].key)'
    BY Zenon DEF HandOK, Holds
  <2>1. reader[r].cache \in Cache /\ reader[r].key \in Key
    <3>1. reader[r] \in Readings /\ reader[r].at \in {"have", "adding"}
      BY DEF IInv, Shapes, Holds
    <3> QED
      BY <3>1 DEF Readings
  <2>2. \/ reader[r].version = db[reader[r].cache][reader[r].key]
        \/ OnItsWay(reader[r].cache, reader[r].key)
    BY DEF IInv, HandOK
  <2> QED
    BY <2>1, <2>2
<1>2. StaleIsOnItsWayOut'
  <2> SUFFICES ASSUME NEW c \in Cache, NEW k \in Key, Stale(c, k)', k \notin late[c]
               PROVE  OnItsWay(c, k)'
    BY DEF StaleIsOnItsWayOut
  <2>1. db'[c][k] = db[c][k] => Stale(c, k)
    BY DEF Stale
  <2> QED
    BY <2>1 DEF IInv, StaleIsOnItsWayOut
<1> QED
  BY <1>1, <1>2 DEF IInv

(* What is appended to the channel takes nothing away from it.             *)
LEMMA AppendKeeps ==
  ASSUME Shapes, NEW m \in Messages, channel' = Append(channel, m), UNCHANGED <<todo, link>>
  PROVE  /\ channel' \in Seq(Messages)
         /\ \A c \in Cache, k \in Key : OnItsWay(c, k) => OnItsWay(c, k)'
         /\ \A c \in Cache, k \in Key :
              (\E j \in DOMAIN Response(m) : Clears(Response(m)[j], c, k)) => OnItsWay(c, k)'
<1>1. /\ channel' \in Seq(Messages) /\ Len(channel) + 1 \in DOMAIN channel'
      /\ channel'[Len(channel) + 1] = m
      /\ \A i \in DOMAIN channel : i \in DOMAIN channel' /\ channel'[i] = channel[i]
  BY DEF Shapes
<1> QED
  BY <1>1 DEF OnItsWay

(* Synapse's publications.                                                 *)
LEMMA Publishes ==
  ASSUME Shapes, NEW m \in Messages, Publish(m), UNCHANGED <<todo, link>>
  PROVE  /\ channel' \in Seq(Messages)
         /\ \A c \in Cache, k \in Key : OnItsWay(c, k) => OnItsWay(c, k)'
         /\ \A c \in Cache, k \in Key :
              (\E j \in DOMAIN Response(m) : Clears(Response(m)[j], c, k)) => OnItsWay(c, k)'
<1>1. CASE link
  BY <1>1, AppendKeeps DEF Publish
<1>2. CASE ~link
  BY <1>2 DEF Publish, OnItsWay, Shapes
<1> QED
  BY <1>1, <1>2

(* A change of the database changes a datum in all the caches it is in.    *)
LEMMA Bumps ==
  ASSUME Shapes, OneDatum, NEW cs \in SUBSET Cache, NEW ks \in SUBSET Key, Bump(cs, ks),
         cs = Cache \/ cs = ByEvent
  PROVE  /\ db' \in [Cache -> [Key -> Int]]
         /\ OneDatum'
         /\ \A c \in Cache, k \in Key : db'[c][k] # db[c][k] => c \in cs /\ k \in ks
<1>1. db' = [c \in Cache |-> [k \in Key |->
               IF c \in cs /\ k \in ks THEN db[c][k] + 1 ELSE db[c][k]]]
  BY DEF Bump
<1>2. \A c \in Cache, k \in Key :
        /\ db[c][k] \in Int
        /\ db'[c][k] = IF c \in cs /\ k \in ks THEN db[c][k] + 1 ELSE db[c][k]
  BY <1>1 DEF Shapes
<1>3. db' \in [Cache -> [Key -> Int]]
  BY <1>1, <1>2
<1>4. OneDatum'
  <2> SUFFICES ASSUME Filtered \in Cache, NEW k \in Key PROVE db'[Whole][k] = db'[Filtered][k]
    BY DEF OneDatum
  <2>1. Whole \in Cache /\ (Whole \in cs <=> Filtered \in cs)
    BY OrderAssumption DEF ByEvent, Filtered, Whole
  <2>2. db[Whole][k] = db[Filtered][k]
    BY DEF OneDatum
  <2> QED
    BY <1>2, <2>1, <2>2
<1> QED
  BY <1>2, <1>3, <1>4

(* A change that Synapse makes comes with its message, or needs none.      *)
LEMMA SynapseWrites == IInv /\ (Delete \/ ChangeEvent \/ Chatter) => IInv'
<1> SUFFICES ASSUME IInv, Delete \/ ChangeEvent \/ Chatter PROVE IInv'
  OBVIOUS
<1>0. Shapes /\ OneDatum /\ ViewsFollow(todo)
  BY DEF IInv
<1>1. CASE Delete
  <2>1. PICK ks \in SUBSET Key : Bump(Cache, ks)
    BY <1>1 DEF Delete
  <2>2. PICK type \in {"purge", "malformed"} : Publish([type |-> type])
    BY <1>1 DEF Delete
  <2>3. UNCHANGED <<session, link, todo, reader, overtaken, armed, content, late>>
    BY <1>1 DEF Delete, caches
  <2>4. [type |-> type] \in Messages /\ [type |-> type].type \in {"purge", "malformed"}
    BY DEF Messages
  <2>5. \A c \in Cache, k \in Key : OnItsWay(c, k)'
    BY <1>0, <2>2, <2>3, <2>4, ResponseFacts, Publishes
  <2>6. Shapes' /\ OneDatum'
    BY <1>0, <2>1, <2>2, <2>3, <2>4, Bumps, Publishes DEF Shapes
  <2> QED
    BY <1>0, <2>3, <2>5, <2>6, StillOnItsWay
<1>2. CASE ChangeEvent
  <2>1. PICK k \in Key :
          /\ Bump(ByEvent, {k})
          /\ \E m \in {[type |-> "event", key |-> k], [type |-> "purge"], [type |-> "malformed"]} :
               Publish(m)
    BY <1>2 DEF ChangeEvent
  <2>2. PICK m \in {[type |-> "event", key |-> k], [type |-> "purge"], [type |-> "malformed"]} :
          Publish(m)
    BY <2>1
  <2>3. UNCHANGED <<session, link, todo, reader, overtaken, armed, content, late>>
    BY <1>2 DEF ChangeEvent, caches
  <2>4. m \in Messages /\ (m.type \in {"purge", "malformed"} \/ (m.type = "event" /\ m.key = k))
    BY <2>2 DEF Messages
  <2>5. \A c \in ByEvent : \E i \in DOMAIN Response(m) : Clears(Response(m)[i], c, k)
    BY <2>4, ResponseFacts DEF ByEvent
  <2>6. /\ \A c \in ByEvent : OnItsWay(c, k)'
        /\ \A c \in Cache, i \in Key : OnItsWay(c, i) => OnItsWay(c, i)'
        /\ channel' \in Seq(Messages)
    BY <1>0, <2>2, <2>3, <2>4, <2>5, Publishes DEF ByEvent
  <2>7. /\ db' \in [Cache -> [Key -> Int]] /\ OneDatum'
        /\ \A c \in Cache, i \in Key : db'[c][i] # db[c][i] => c \in ByEvent /\ i \in {k}
    BY <1>0, <2>1, Bumps DEF ByEvent
  <2>8. Shapes'
    BY <1>0, <2>3, <2>6, <2>7 DEF Shapes
  <2> QED
    BY <1>0, <2>3, <2>6, <2>7, <2>8, StillOnItsWay
<1>3. CASE Chatter
  <2>1. Publish([type |-> "other"])
        /\ UNCHANGED <<db, session, link, todo, reader, overtaken, armed, content, late>>
    BY <1>3 DEF Chatter, caches
  <2>2. [type |-> "other"] \in Messages
    BY DEF Messages
  <2>3. Shapes' /\ OneDatum'
    BY <1>0, <2>1, <2>2, Publishes DEF Shapes, OneDatum
  <2> QED
    BY <1>0, <2>1, <2>2, <2>3, Publishes, StillOnItsWay
<1> QED
  BY <1>1, <1>2, <1>3

(* The connection, and the subscriber's loop.                              *)
LEMMA LinkSteps == IInv /\ (LinkDown \/ LinkUp \/ StartSession \/ Receive \/ SessionEnds \/ Shutdown) => IInv'
<1> SUFFICES ASSUME IInv, LinkDown \/ LinkUp \/ StartSession \/ Receive \/ SessionEnds \/ Shutdown
             PROVE  IInv'
  OBVIOUS
<1>0. Shapes /\ OneDatum /\ ViewsFollow(todo)
  BY DEF IInv
<1>1. UNCHANGED <<db, content, late, reader, overtaken>>
  BY DEF LinkDown, LinkUp, StartSession, Receive, SessionEnds, Shutdown, caches
<1>2. OneDatum'
  BY <1>0, <1>1 DEF OneDatum
<1> SUFFICES /\ channel' \in Seq(Messages) /\ todo' \in Seq(Steps) /\ ViewsFollow(todo')
             /\ \A c \in Cache, k \in Key : OnItsWay(c, k) => OnItsWay(c, k)'
  <2>1. Shapes'
    BY <1>0, <1>1 DEF Shapes
  <2> QED
    BY <1>1, <1>2, <2>1, StillOnItsWay
<1>3. CASE LinkDown
  BY <1>0, <1>3 DEF LinkDown, OnItsWay, Shapes
<1>4. CASE LinkUp
  <2>1. [type |-> "subscribe"] \in Messages /\ [type |-> "subscribe"].type = "subscribe"
    BY DEF Messages
  <2>2. channel' = Append(channel, [type |-> "subscribe"]) /\ todo' = todo /\ link' = TRUE
    BY <1>4 DEF LinkUp
  <2>3. /\ channel' \in Seq(Messages) /\ Len(channel) + 1 \in DOMAIN channel'
        /\ channel'[Len(channel) + 1] = [type |-> "subscribe"]
    BY <1>0, <2>1, <2>2 DEF Shapes
  <2>4. \A c \in Cache, k \in Key : \E i \in DOMAIN Response([type |-> "subscribe"]) :
          Clears(Response([type |-> "subscribe"])[i], c, k)
    BY <2>1, ResponseFacts
  <2>5. \A c \in Cache, k \in Key : OnItsWay(c, k)'
    BY <2>3, <2>4 DEF OnItsWay
  <2> QED
    BY <1>0, <2>2, <2>3, <2>5 DEF Shapes
<1>5. CASE StartSession
  BY <1>0, <1>5 DEF StartSession, OnItsWay, Shapes
<1>6. CASE Receive
  <2>1. /\ todo = << >> /\ channel # << >> /\ todo' = Response(Head(channel))
        /\ channel' = Tail(channel) /\ link' = link
    BY <1>6 DEF Receive
  <2>2. Head(channel) \in Messages /\ channel[1] = Head(channel)
    BY <1>0, <2>1 DEF Shapes
  <2>3. todo' \in Seq(Steps) /\ ViewsFollow(todo')
    BY <2>1, <2>2, ResponseFacts
  <2>4. /\ channel' \in Seq(Messages)
        /\ \A i \in DOMAIN channel : i # 1 => i - 1 \in DOMAIN channel' /\ channel'[i - 1] = channel[i]
    BY <1>0, <2>1 DEF Shapes
  <2>5. ASSUME NEW c \in Cache, NEW k \in Key, OnItsWay(c, k) PROVE OnItsWay(c, k)'
    <3>1. CASE ~link
      BY <2>1, <3>1 DEF OnItsWay
    <3>2. CASE link
      <4>1. PICK i \in DOMAIN channel : \E j \in DOMAIN Response(channel[i]) :
              Clears(Response(channel[i])[j], c, k)
        BY <2>1, <2>5, <3>2 DEF OnItsWay
      <4>2. CASE i = 1
        BY <2>1, <2>2, <4>1, <4>2 DEF OnItsWay
      <4>3. CASE i # 1
        BY <2>4, <4>1, <4>3 DEF OnItsWay
      <4> QED
        BY <4>2, <4>3
    <3> QED
      BY <3>1, <3>2
  <2> QED
    BY <2>3, <2>4, <2>5
<1>7. CASE SessionEnds \/ Shutdown
  <2>1. link' = FALSE /\ channel' = << >> /\ todo' = Disarm
    BY <1>7 DEF SessionEnds, Shutdown
  <2> QED
    BY <2>1, DisarmFacts DEF OnItsWay
<1> QED
  BY <1>3, <1>4, <1>5, <1>6, <1>7

(* What the subscriber does to one cache: the entry it takes out is gone   *)
(* from the cache, and the hand that holds it is overtaken.                *)
LEMMA CacheSteps == IInv /\ CacheStep => IInv'
<1> SUFFICES ASSUME IInv, CacheStep PROVE IInv'
  OBVIOUS
<1> DEFINE s == Head(todo)
<1>0. Shapes /\ OneDatum /\ ViewsFollow(todo)
  BY DEF IInv
<1>1. /\ todo # << >> /\ todo' = Tail(todo)
      /\ content' = [c \in Cache |-> [k \in Key |-> IF Clears(s, c, k) THEN None ELSE content[c][k]]]
      /\ late' = [c \in Cache |-> {k \in late[c] : ~Clears(s, c, k)}]
      /\ overtaken' = [r \in Reader |-> overtaken[r] \/ Overtakes(s, r)]
      /\ UNCHANGED <<db, session, link, channel, reader>>
  BY DEF CacheStep
<1>2. /\ todo' \in Seq(Steps) /\ todo[1] = s
      /\ \A i \in DOMAIN todo : i # 1 => i - 1 \in DOMAIN todo' /\ todo'[i - 1] = todo[i]
      /\ \A i \in DOMAIN todo' : i \in Int /\ i + 1 \in DOMAIN todo /\ todo'[i] = todo[i + 1]
      /\ DOMAIN todo \subseteq Int
  BY <1>0, <1>1 DEF Shapes
<1>3. ViewsFollow(todo')
  <2> SUFFICES ASSUME NEW i \in DOMAIN todo', Purges(todo', i, Whole), Filtered \in Cache
               PROVE  \E j \in DOMAIN todo' : j > i /\ Purges(todo', j, Filtered)
    BY DEF ViewsFollow
  <2>1. i + 1 \in DOMAIN todo /\ Purges(todo, i + 1, Whole) /\ i \in Int
    BY <1>2 DEF Purges
  <2>2. PICK j \in DOMAIN todo : j > i + 1 /\ Purges(todo, j, Filtered)
    BY <1>0, <2>1 DEF ViewsFollow
  <2>3. j \in Int /\ j # 1
    BY <1>0, <1>1, <1>2, <2>1, <2>2 DEF Shapes
  <2>4. j - 1 \in DOMAIN todo' /\ Purges(todo', j - 1, Filtered) /\ j - 1 > i
    BY <1>2, <2>1, <2>2, <2>3 DEF Purges
  <2> QED
    BY <2>4
<1>4. ASSUME NEW c \in Cache, NEW k \in Key, OnItsWay(c, k), ~Clears(s, c, k)
      PROVE  OnItsWay(c, k)'
  <2>1. CASE \E i \in DOMAIN todo : Clears(todo[i], c, k)
    <3>1. PICK i \in DOMAIN todo : Clears(todo[i], c, k)
      BY <2>1
    <3>2. i # 1
      BY <1>2, <1>4, <3>1
    <3> QED
      BY <1>2, <3>1, <3>2 DEF OnItsWay
  <2>2. CASE ~\E i \in DOMAIN todo : Clears(todo[i], c, k)
    BY <1>1, <1>4, <2>2 DEF OnItsWay
  <2> QED
    BY <2>1, <2>2
<1>5. Shapes'
  <2>1. content' \in [Cache -> [Key -> Int]]
    BY <1>0, <1>1 DEF Shapes, None
  <2>2. late' \in [Cache -> SUBSET Key]
    BY <1>0, <1>1 DEF Shapes
  <2>3. overtaken' \in [Reader -> BOOLEAN]
    BY <1>0, <1>1 DEF Shapes
  <2> QED
    BY <1>0, <1>1, <1>2, <2>1, <2>2, <2>3 DEF Shapes
<1>6. OneDatum'
  BY <1>0, <1>1 DEF OneDatum
<1>7. ASSUME NEW r \in Reader PROVE HandOK(r)'
  <2> SUFFICES ASSUME Holds(r), ~overtaken'[r]
               PROVE  \/ reader[r].version = db[reader[r].cache][reader[r].key]
                      \/ OnItsWay(reader[r].cache, reader[r].key)'
    BY <1>1, Zenon DEF HandOK, Holds
  <2>1. reader[r].cache \in Cache /\ reader[r].key \in Key
    <3>1. reader[r] \in Readings /\ reader[r].at \in {"have", "adding"}
      BY <1>0 DEF Shapes, Holds
    <3> QED
      BY <3>1 DEF Readings
  <2>2. ~overtaken[r] /\ ~Clears(s, reader[r].cache, reader[r].key)
    BY <1>1, Zenon DEF Overtakes
  <2>3. \/ reader[r].version = db[reader[r].cache][reader[r].key]
        \/ OnItsWay(reader[r].cache, reader[r].key)
    BY <2>2, Zenon DEF IInv, HandOK
  <2>4. reader' = reader
    BY <1>1
  <2> QED
    BY <1>4, <2>1, <2>2, <2>3, <2>4
<1>8. StaleIsOnItsWayOut'
  <2> SUFFICES ASSUME NEW c \in Cache, NEW k \in Key, Stale(c, k)', k \notin late'[c]
               PROVE  OnItsWay(c, k)'
    BY DEF StaleIsOnItsWayOut
  <2>1. ~Clears(s, c, k) /\ content'[c][k] = content[c][k]
    BY <1>1 DEF Stale
  <2>2. Stale(c, k) /\ k \notin late[c]
    BY <1>1, <2>1 DEF Stale
  <2> QED
    BY <1>4, <2>1, <2>2 DEF IInv, StaleIsOnItsWayOut
<1> QED
  BY <1>3, <1>5, <1>6, <1>7, <1>8 DEF IInv

(* A reader's steps up to its Add leave the caches alone: only what it has *)
(* in hand is new.                                                         *)
LEMMA ReaderMoves ==
  ASSUME IInv, NEW r \in Reader, NEW to \in Readings, Goto(r, to), Unmoved,
         UNCHANGED <<content, late>>,
         overtaken' \in [Reader -> BOOLEAN],
         \A q \in Reader \ {r} : overtaken'[q] = overtaken[q],
         (to.at \in {"have", "adding"} /\ ~overtaken'[r])
           => to.version = db[to.cache][to.key] \/ OnItsWay(to.cache, to.key)
  PROVE  IInv'
<1>0. Shapes /\ OneDatum /\ ViewsFollow(todo) /\ StaleIsOnItsWayOut /\ \A q \in Reader : HandOK(q)
  BY DEF IInv
<1>1. reader' = [reader EXCEPT ![r] = to] /\ UNCHANGED <<db, session, link, channel, todo>>
  BY DEF Goto, Unmoved
<1>2. Shapes' /\ reader'[r] = to /\ \A q \in Reader \ {r} : reader'[q] = reader[q]
  BY <1>0, <1>1 DEF Shapes
<1>4. ASSUME NEW c, NEW k PROVE OnItsWay(c, k)' <=> OnItsWay(c, k)
  BY <1>1 DEF OnItsWay
<1>5. HandOK(r)'
  <2> SUFFICES ASSUME to.at \in {"have", "adding"}, ~overtaken'[r]
               PROVE  to.version = db[to.cache][to.key] \/ OnItsWay(to.cache, to.key)
    <3>1. db' = db /\ reader'[r] = to
      BY <1>1, <1>2
    <3> QED
      BY <1>4, <3>1, Zenon DEF HandOK, Holds
  <2> QED
    BY Zenon
<1>6. ASSUME NEW q \in Reader \ {r} PROVE HandOK(q)'
  <2>1. reader'[q] = reader[q] /\ overtaken'[q] = overtaken[q] /\ HandOK(q)
    BY <1>0, <1>2
  <2> QED
    BY <1>1, <1>4, <2>1 DEF HandOK, Holds
<1>7. StaleIsOnItsWayOut'
  BY <1>0, <1>1, <1>4 DEF StaleIsOnItsWayOut, Stale
<1>8. OneDatum' /\ ViewsFollow(todo')
  BY <1>0, <1>1 DEF OneDatum
<1> QED
  BY <1>2, <1>5, <1>6, <1>7, <1>8 DEF IInv

(* What a reader does with one cache.                                      *)
LEMMA ReaderSteps ==
  ASSUME IInv, NEW r \in Reader,
         \/ Lookup(r) \/ Get(r) \/ LookupWhole(r) \/ GetWhole(r)
         \/ Query(r) \/ QueryFails(r) \/ OfferAdd(r) \/ ReadOnly(r)
  PROVE  IInv'
<1> DEFINE c == reader[r].cache
           k == reader[r].key
<1>0. Shapes /\ OneDatum /\ ViewsFollow(todo) /\ StaleIsOnItsWayOut /\ HandOK(r)
  BY DEF IInv
<1>1. reader[r] \in Readings /\ overtaken \in [Reader -> BOOLEAN]
  BY <1>0 DEF Shapes
<1>2. [at |-> "idle"] \in Readings /\ [at |-> "idle"].at = "idle"
  BY DEF Readings
<1>3. ASSUME NEW d \in Cache, NEW i \in Key
      PROVE  Missed(d, i) \in Readings /\ Missed(d, i).at \in {"whole", "query"}
  BY DEF Missed, Readings
<1>4. Unmoved /\ UNCHANGED <<content, late>>
  BY DEF Lookup, Get, LookupWhole, GetWhole, Query, QueryFails, OfferAdd, ReadOnly, caches
<1>5. CASE Lookup(r)
  <2>1. PICK d \in Cache, i \in Key :
          Goto(r, IF armed[d] THEN [at |-> "get", cache |-> d, key |-> i] ELSE Missed(d, i))
    BY <1>5 DEF Lookup
  <2>2. PICK to \in Readings : to.at \in {"get", "whole", "query"} /\ Goto(r, to)
    <3>1. [at |-> "get", cache |-> d, key |-> i] \in Readings
      BY DEF Readings
    <3> QED
      BY <1>3, <2>1, <3>1
  <2>3. overtaken' = overtaken
    BY <1>5 DEF Lookup
  <2> QED
    BY <1>1, <1>4, <2>2, <2>3, ReaderMoves
<1>6. CASE Get(r)
  <2>1. c \in Cache /\ k \in Key /\ overtaken' = overtaken
    BY <1>1, <1>6 DEF Get, Readings
  <2>2. PICK to \in Readings : to.at \in {"idle", "whole", "query"} /\ Goto(r, to)
    BY <1>2, <1>3, <1>6, <2>1 DEF Get, Done
  <2> QED
    BY <1>1, <1>4, <2>1, <2>2, ReaderMoves
<1>7. CASE LookupWhole(r)
  <2>1. reader[r] \in [at : {"whole", "getwhole"}, cache : Derived, key : Key]
    BY <1>1, <1>7 DEF LookupWhole, Readings
  <2>2. /\ [reader[r] EXCEPT !.at = "getwhole"] \in Readings
        /\ [reader[r] EXCEPT !.at = "query"] \in Readings
        /\ [reader[r] EXCEPT !.at = "getwhole"].at = "getwhole"
        /\ [reader[r] EXCEPT !.at = "query"].at = "query"
    BY <2>1 DEF Readings, Derived
  <2>3. PICK to \in Readings : to.at \in {"getwhole", "query"} /\ Goto(r, to)
    <3>1. CASE armed[Whole]
      BY <1>7, <2>2, <3>1 DEF LookupWhole
    <3>2. CASE ~armed[Whole]
      BY <1>7, <2>2, <3>2 DEF LookupWhole
    <3> QED
      BY <3>1, <3>2
  <2>4. overtaken' = overtaken
    BY <1>7 DEF LookupWhole
  <2> QED
    BY <1>1, <1>4, <2>3, <2>4, ReaderMoves
<1>8. CASE GetWhole(r)
  <2>1. reader[r] \in [at : {"whole", "getwhole"}, cache : Derived, key : Key]
    BY <1>1, <1>8 DEF GetWhole, Readings
  <2>2. c = Filtered /\ c \in Cache /\ Whole \in Cache /\ k \in Key
    BY <2>1, OrderAssumption DEF Derived, Filtered
  <2>3. CASE content[Whole][k] = None
    <3>1. /\ [reader[r] EXCEPT !.at = "query"] \in Readings
          /\ [reader[r] EXCEPT !.at = "query"].at = "query"
      BY <2>1 DEF Readings, Derived
    <3>2. Goto(r, [reader[r] EXCEPT !.at = "query"]) /\ overtaken' = overtaken
      BY <1>8, <2>3 DEF GetWhole
    <3> QED
      BY <1>1, <1>4, <3>1, <3>2, ReaderMoves
  <2>4. CASE content[Whole][k] # None
    <3> DEFINE to == Have(c, k, content[Whole][k])
    <3>1. Goto(r, to) /\ overtaken' = [overtaken EXCEPT ![r] = k \in late[Whole]]
      BY <1>8, <2>4 DEF GetWhole
    <3>2. /\ to \in Readings /\ to.at = "have" /\ to.cache = c /\ to.key = k
          /\ to.version = content[Whole][k]
      BY <1>0, <2>2 DEF Readings, Have, Shapes
    <3>3. overtaken' \in [Reader -> BOOLEAN] /\ \A q \in Reader \ {r} : overtaken'[q] = overtaken[q]
      BY <1>1, <3>1
    <3>4. ASSUME ~overtaken'[r] PROVE content[Whole][k] = db[c][k] \/ OnItsWay(c, k)
      <4>1. k \notin late[Whole]
        BY <1>1, <3>1, <3>4, Zenon
      <4>2. content[Whole][k] = db[Whole][k] \/ OnItsWay(Whole, k)
        BY <1>0, <2>2, <2>4, <4>1 DEF StaleIsOnItsWayOut, Stale
      <4>3. db[Whole][k] = db[c][k]
        BY <1>0, <2>2 DEF OneDatum
      <4> QED
        BY <1>0, <2>2, <4>2, <4>3, ViewGoesToo
    <3> HIDE DEF to
    <3> QED
      BY <1>4, <3>1, <3>2, <3>3, <3>4, ReaderMoves
  <2> QED
    BY <2>3, <2>4
<1>9. CASE Query(r)
  <2>1. c \in Cache /\ k \in Key
    BY <1>1, <1>9 DEF Query, Readings
  <2> DEFINE to == Have(c, k, db[c][k])
  <2>2. Goto(r, to) /\ overtaken' = [overtaken EXCEPT ![r] = FALSE]
    BY <1>9 DEF Query
  <2>3. to \in Readings /\ to.cache = c /\ to.key = k /\ to.version = db[c][k]
    BY <1>0, <2>1 DEF Readings, Have, Shapes
  <2>4. overtaken' \in [Reader -> BOOLEAN] /\ \A q \in Reader \ {r} : overtaken'[q] = overtaken[q]
    BY <1>1, <2>2
  <2> HIDE DEF to
  <2> QED
    BY <1>4, <2>2, <2>3, <2>4, ReaderMoves
<1>10. CASE QueryFails(r) \/ ReadOnly(r)
  <2>1. Goto(r, [at |-> "idle"]) /\ overtaken' = overtaken
    BY <1>10 DEF QueryFails, ReadOnly, Done
  <2> QED
    BY <1>1, <1>2, <1>4, <2>1, ReaderMoves
<1>11. CASE OfferAdd(r)
  <2>1. overtaken' = overtaken /\ reader[r].at = "have"
    BY <1>11 DEF OfferAdd
  <2>2. CASE armed[c]
    <3> DEFINE to == [reader[r] EXCEPT !.at = "adding"]
    <3>1. Goto(r, to)
      BY <1>11, <2>2 DEF OfferAdd
    <3>2. reader[r] \in [at : {"have", "adding"}, cache : Cache, key : Key, version : Int]
      BY <1>1, <2>1 DEF Readings
    <3>3. to \in Readings /\ to.cache = c /\ to.key = k /\ to.version = reader[r].version
      BY <3>2 DEF Readings
    <3>4. ~overtaken[r] => reader[r].version = db[c][k] \/ OnItsWay(c, k)
      BY <1>0, <2>1, Zenon DEF HandOK, Holds
    <3> HIDE DEF to
    <3> QED
      BY <1>1, <1>4, <2>1, <3>1, <3>3, <3>4, ReaderMoves
  <2>3. CASE ~armed[c]
    <3>1. Goto(r, [at |-> "idle"])
      BY <1>11, <2>3 DEF OfferAdd, Done
    <3> QED
      BY <1>1, <1>2, <1>4, <2>1, <3>1, ReaderMoves
  <2> QED
    BY <2>2, <2>3
<1> QED
  BY <1>5, <1>6, <1>7, <1>8, <1>9, <1>10, <1>11

(* Add: the entry is what the reader held.                                 *)
LEMMA AddStep ==
  ASSUME IInv, NEW r \in Reader, Add(r)
  PROVE  IInv'
<1> DEFINE c == reader[r].cache
           k == reader[r].key
<1>0. Shapes /\ OneDatum /\ ViewsFollow(todo) /\ StaleIsOnItsWayOut /\ \A q \in Reader : HandOK(q)
  BY DEF IInv
<1>1. reader[r] \in [at : {"have", "adding"}, cache : Cache, key : Key, version : Int]
  BY <1>0 DEF Add, Shapes, Readings
<1>2. PICK evicted \in SUBSET (Key \ {k}) :
        /\ content' = [content EXCEPT ![c] = [j \in Key |->
                         IF j = k THEN reader[r].version
                         ELSE IF j \in evicted THEN None ELSE content[c][j]]]
        /\ late' = [late EXCEPT ![c] =
                      ((late[c] \ evicted) \ {k}) \cup IF overtaken[r] THEN {k} ELSE {}]
  BY <1>0, <1>1 DEF Add, Shapes
<1>3. /\ reader' = [reader EXCEPT ![r] = [at |-> "idle"]]
      /\ UNCHANGED <<db, session, link, channel, todo, overtaken>>
  BY DEF Add, Done, Goto, Unmoved
<1>4. Shapes'
  <2>1. content' \in [Cache -> [Key -> Int]]
    BY <1>0, <1>1, <1>2 DEF Shapes, None
  <2>2. late' \in [Cache -> SUBSET Key]
    BY <1>0, <1>1, <1>2 DEF Shapes
  <2>3. reader' \in [Reader -> Readings]
    BY <1>0, <1>3 DEF Shapes, Readings
  <2> QED
    BY <1>0, <1>3, <2>1, <2>2, <2>3 DEF Shapes
<1>5. ASSUME NEW d, NEW i PROVE OnItsWay(d, i)' <=> OnItsWay(d, i)
  BY <1>3 DEF OnItsWay
<1>6. ASSUME NEW q \in Reader PROVE HandOK(q)'
  <2>1. CASE q = r
    BY <1>0, <1>3, <2>1 DEF HandOK, Holds, Shapes
  <2>2. CASE q # r
    <3>1. reader'[q] = reader[q] /\ overtaken'[q] = overtaken[q] /\ HandOK(q)
      BY <1>0, <1>3, <2>2 DEF Shapes
    <3> QED
      BY <1>3, <1>5, <3>1 DEF HandOK, Holds
  <2> QED
    BY <2>1, <2>2
<1>7. StaleIsOnItsWayOut'
  <2> SUFFICES ASSUME NEW d \in Cache, NEW i \in Key, Stale(d, i)', i \notin late'[d]
               PROVE  OnItsWay(d, i)
    BY <1>5 DEF StaleIsOnItsWayOut
  <2>1. CASE d = c /\ i = k
    <3>1. content'[d][i] = reader[r].version
      BY <1>0, <1>1, <1>2, <2>1 DEF Shapes
    <3>2. ~overtaken[r]
      <4>1. late'[c] = ((late[c] \ evicted) \ {k}) \cup IF overtaken[r] THEN {k} ELSE {}
        BY <1>0, <1>1, <1>2 DEF Shapes
      <4> QED
        BY <2>1, <4>1
    <3>3. Holds(r)
      BY DEF Add, Holds
    <3>4. reader[r].version = db[c][k] \/ OnItsWay(c, k)
      BY <1>0, <3>2, <3>3, Zenon DEF HandOK
    <3> QED
      BY <1>3, <2>1, <3>1, <3>4 DEF Stale
  <2>2. CASE ~(d = c /\ i = k)
    <3>1. content'[d][i] = content[d][i] \/ content'[d][i] = None
      BY <1>0, <1>1, <1>2, <2>2 DEF Shapes
    <3>2. content'[d][i] # None
      BY DEF Stale
    <3>3. Stale(d, i)
      BY <1>3, <3>1, <3>2 DEF Stale
    <3>4. i \notin late[d]
      <4>1. CASE d = c
        <5>1. late'[c] = ((late[c] \ evicted) \ {k}) \cup IF overtaken[r] THEN {k} ELSE {}
          BY <1>0, <1>1, <1>2 DEF Shapes
        <5>2. i \notin evicted
          BY <1>0, <1>1, <1>2, <2>2, <3>2, <4>1 DEF Shapes
        <5> QED
          BY <2>2, <4>1, <5>1, <5>2
      <4>2. CASE d # c
        BY <1>0, <1>1, <1>2, <4>2 DEF Shapes
      <4> QED
        BY <4>1, <4>2
    <3> QED
      BY <1>0, <3>3, <3>4 DEF StaleIsOnItsWayOut
  <2> QED
    BY <2>1, <2>2
<1>8. OneDatum' /\ ViewsFollow(todo')
  BY <1>0, <1>3 DEF OneDatum
<1> QED
  BY <1>4, <1>6, <1>7, <1>8 DEF IInv

(* The invariant holds at the start.                                       *)
LEMMA InitIInv == Init => IInv
<1> SUFFICES ASSUME Init PROVE IInv
  OBVIOUS
<1>1. Shapes
  BY DisarmFacts DEF Init, Shapes, Readings, None
<1>2. ViewsFollow(todo)
  BY DisarmFacts DEF Init
<1>3. OneDatum
  BY OrderAssumption DEF Init, OneDatum, Filtered
<1>4. \A r \in Reader : HandOK(r)
  BY DEF Init, HandOK, Holds
<1>5. StaleIsOnItsWayOut
  BY DEF Init, StaleIsOnItsWayOut, Stale
<1> QED
  BY <1>1, <1>2, <1>3, <1>4, <1>5 DEF IInv

(* replication.go and the read-through of internal/store: whatever order   *)
(* Synapse's changes and rows, lost connections, the one-by-one emptying   *)
(* and the readers' three steps happen in, an entry that differs from the  *)
(* database is about to be taken out, unless a reader put it in that an    *)
(* invalidation had overtaken.                                             *)
THEOREM StaleIsFoundOut == Spec => []StaleIsOnItsWayOut
<1>1. ASSUME IInv, [Next]_vars PROVE IInv'
  <2>1. CASE UNCHANGED vars
    <3>1. UNCHANGED <<db, content, late, reader, overtaken, channel, todo, link>>
      BY <2>1 DEF vars
    <3>2. Shapes' /\ OneDatum' /\ ViewsFollow(todo')
      BY <1>1, <3>1 DEF IInv, Shapes, OneDatum
    <3>3. \A c \in Cache, k \in Key : OnItsWay(c, k) => OnItsWay(c, k)'
      BY <3>1 DEF OnItsWay
    <3> QED
      BY <1>1, <3>1, <3>2, <3>3, StillOnItsWay
  <2>2. ASSUME NEW r \in Reader, Read(r) PROVE IInv'
    BY <1>1, <2>2, ReaderSteps, AddStep DEF Read
  <2> QED
    BY <1>1, <2>1, <2>2, SynapseWrites, LinkSteps, CacheSteps DEF Next, Subscriber
<1>2. IInv => StaleIsOnItsWayOut
  BY DEF IInv
<1> QED
  BY InitIInv, <1>1, <1>2, PTL DEF Spec

(* With the stream up and everything received and applied, an entry that   *)
(* differs from the database was put in by a reader that an invalidation   *)
(* had overtaken.                                                          *)
QuietButForLate ==
  (link /\ channel = << >> /\ todo = << >>)
  => \A c \in Cache, k \in Key : Stale(c, k) => k \in late[c]

(* cache.go says re-arming always starts from the database.  The overtaken *)
(* reader is the one exception: no lost row, no reconnection and no order  *)
(* of the emptying leaves anything else stale.                             *)
THEOREM OnlyLateReaders == Spec => []QuietButForLate
<1>1. StaleIsOnItsWayOut => QuietButForLate
  BY DEF StaleIsOnItsWayOut, QuietButForLate, OnItsWay
<1> QED
  BY StaleIsFoundOut, <1>1, PTL
=============================================================================
