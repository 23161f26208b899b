------------------------------ MODULE RateLimit ------------------------------
(***************************************************************************)
(* The per-origin federation rate limiter: internal/ratelimit/limiter.go.  *)
(*                                                                         *)
(* A request goroutine calls Acquire, which runs in several critical       *)
(* sections of the host's mutex with waits in between.  One action is one  *)
(* critical section (or one branch of a select); the goroutine's place     *)
(* between two of them is pc[r].  A hostLimiter is reached through the map *)
(* `hosts' under another mutex, so a goroutine can hold a hostLimiter the  *)
(* map has since forgotten: that is why state is kept per hostLimiter      *)
(* object (an element of Inst) and not per host.                           *)
(*                                                                         *)
(* Time is abstract: how many arrivals have left the window when an        *)
(* arrival prunes it, when a sleep ends and when a host has been idle for  *)
(* maxIdle are left open.                                                  *)
(*                                                                         *)
(* A definition named X_Y is X with a fault, for showing that a property   *)
(* notices it; nothing uses it.                                            *)
(***************************************************************************)
EXTENDS Integers, Sequences, FiniteSets, SequencesExt

CONSTANTS
  Req,         \* request goroutines; one that returned comes back as a new one
  Host,        \* origins, as claimed in the X-Matrix header
  Inst,        \* hostLimiter objects the heap may hold
  NoInst,      \* the nil pointer
  ConfSleepLimit, ConfRejectLimit, ConfConcurrent,  \* rc_federation as configured
  Prompt       \* TRUE: nobody stays in the limiter for as long as maxIdle

(* FederationSettings.withDefaults: an unset (zero) field takes Synapse's  *)
(* default.                                                                *)
withDefault(conf, default) == IF conf = 0 THEN default ELSE conf

SleepLimit  == withDefault(ConfSleepLimit, 10)
RejectLimit == withDefault(ConfRejectLimit, 50)
Concurrent  == withDefault(ConfConcurrent, 3)

(* FederationSettings.Validate rejects negative values.                    *)
ASSUME ConfAssumption ==
  /\ ConfSleepLimit \in Nat
  /\ ConfRejectLimit \in Nat
  /\ ConfConcurrent \in Nat
  /\ Prompt \in BOOLEAN

ASSUME SetAssumption == IsFiniteSet(Req) /\ NoInst \notin Inst

VARIABLES
  hosts,       \* Limiter.hosts
  recent,      \* len(requestTimes), counted up to SleepLimit + 1
  sleeping,    \* hostLimiter.sleeping
  queued,      \* hostLimiter.queued
  processing,  \* hostLimiter.processing
  waiters,     \* hostLimiter.waiters: the requests whose channels are listed
  idle,        \* lastUsed lies more than maxIdle in the past
  pc,          \* where a request's goroutine is inside Acquire
  inst,        \* the *hostLimiter its goroutine holds
  origin,      \* the host it asked for
  gone         \* its context is done: the client hung up

counters == <<recent, sleeping, queued, processing, waiters, idle>>
vars == <<hosts, recent, sleeping, queued, processing, waiters, idle, pc, inst, origin, gone>>

(***************************************************************************)
(* out        not in the limiter                                           *)
(* found      has its hostLimiter, not yet locked it                       *)
(* sleeping   in clock.Sleep                                               *)
(* awake      between the sleep stage and the queue stage                  *)
(* queued     in the select, its channel in waiters                        *)
(* leaving    took the ctx.Done branch, abandon() not yet locked; listed   *)
(* granted    in the select, its channel closed: the slot is its own       *)
(* returning  took the ctx.Done branch although its channel is closed      *)
(* running    Acquire returned a release function                          *)
(***************************************************************************)
Waiting == {"queued", "leaving"}
Holding == {"granted", "returning", "running"}
Place   == {"out", "found", "sleeping", "awake"} \cup Waiting \cup Holding

Init ==
  /\ hosts = [h \in Host |-> NoInst]
  /\ recent = [i \in Inst |-> 0]
  /\ sleeping = [i \in Inst |-> 0]
  /\ queued = [i \in Inst |-> 0]
  /\ processing = [i \in Inst |-> 0]
  /\ waiters = [i \in Inst |-> <<>>]
  /\ idle = [i \in Inst |-> FALSE]
  /\ pc = [r \in Req |-> "out"]
  /\ inst = [r \in Req |-> NoInst]
  /\ origin \in [Req -> Host]
  /\ gone = [r \in Req |-> FALSE]

-----------------------------------------------------------------------------
(* Acquire, first step: hostLimiter(host) under Limiter.mu.                *)

(* An object nobody points to: the allocator may hand it out.              *)
Free(i) == (\A h \in Host : hosts[h] # i) /\ (\A r \in Req : inst[r] # i)

(* The host has an entry in the map.                                       *)
FindHost(r, h) ==
  /\ pc[r] = "out"
  /\ hosts[h] # NoInst
  /\ pc' = [pc EXCEPT ![r] = "found"]
  /\ inst' = [inst EXCEPT ![r] = hosts[h]]
  /\ origin' = [origin EXCEPT ![r] = h]
  /\ UNCHANGED <<hosts, gone, counters>>

(* It has none: a zero hostLimiter is made and entered.                    *)
MakeHost(r, h, i) ==
  /\ pc[r] = "out"
  /\ hosts[h] = NoInst
  /\ Free(i)
  /\ hosts' = [hosts EXCEPT ![h] = i]
  /\ recent' = [recent EXCEPT ![i] = 0]
  /\ sleeping' = [sleeping EXCEPT ![i] = 0]
  /\ queued' = [queued EXCEPT ![i] = 0]
  /\ processing' = [processing EXCEPT ![i] = 0]
  /\ waiters' = [waiters EXCEPT ![i] = <<>>]
  /\ idle' = [idle EXCEPT ![i] = FALSE]
  /\ pc' = [pc EXCEPT ![r] = "found"]
  /\ inst' = [inst EXCEPT ![r] = i]
  /\ origin' = [origin EXCEPT ![r] = h]
  /\ UNCHANGED gone

-----------------------------------------------------------------------------
(* Acquire, first critical section.  prune drops the arrivals that have    *)
(* left the window: `kept' of them are still in it.                        *)

(* The request's goroutine leaves the limiter.                             *)
Leave(r) ==
  /\ inst' = [inst EXCEPT ![r] = NoInst]
  /\ gone' = [gone EXCEPT ![r] = FALSE]

TooManyWaiting(i) == sleeping[i] + queued[i] > RejectLimit

Reject(r) ==
  LET i == inst[r] IN
  /\ pc[r] = "found"
  /\ TooManyWaiting(i)
  /\ \E kept \in 0 .. recent[i] : recent' = [recent EXCEPT ![i] = kept]
  /\ idle' = [idle EXCEPT ![i] = FALSE]
  /\ pc' = [pc EXCEPT ![r] = "out"]
  /\ Leave(r)
  /\ UNCHANGED <<hosts, sleeping, queued, processing, waiters, origin>>

Admit(r) ==
  LET i == inst[r] IN
  /\ pc[r] = "found"
  /\ ~TooManyWaiting(i)
  /\ idle' = [idle EXCEPT ![i] = FALSE]
  /\ \E kept \in 0 .. recent[i] :
       IF kept + 1 > SleepLimit
       THEN /\ recent' = [recent EXCEPT ![i] = SleepLimit + 1]
            /\ sleeping' = [sleeping EXCEPT ![i] = @ + 1]
            /\ pc' = [pc EXCEPT ![r] = "sleeping"]
       ELSE /\ recent' = [recent EXCEPT ![i] = kept + 1]
            /\ pc' = [pc EXCEPT ![r] = "awake"]
            /\ UNCHANGED sleeping
  /\ UNCHANGED <<hosts, queued, processing, waiters, inst, origin, gone>>

-----------------------------------------------------------------------------
(* The sleep stage.  clock.Sleep ends by its timer or by the context; when *)
(* both are ready the select takes either.                                 *)

SleepEnds(r) ==
  /\ pc[r] = "sleeping"
  /\ sleeping' = [sleeping EXCEPT ![inst[r]] = @ - 1]
  /\ pc' = [pc EXCEPT ![r] = "awake"]
  /\ UNCHANGED <<hosts, recent, queued, processing, waiters, idle, inst, origin, gone>>

SleepCanceled_StillCounted(r) ==
  /\ pc[r] = "sleeping"
  /\ gone[r]
  /\ pc' = [pc EXCEPT ![r] = "out"]
  /\ Leave(r)
  /\ UNCHANGED <<hosts, recent, sleeping, queued, processing, waiters, idle, origin>>

SleepCanceled(r) ==
  /\ pc[r] = "sleeping"
  /\ gone[r]
  /\ sleeping' = [sleeping EXCEPT ![inst[r]] = @ - 1]
  /\ pc' = [pc EXCEPT ![r] = "out"]
  /\ Leave(r)
  /\ UNCHANGED <<hosts, recent, queued, processing, waiters, idle, origin>>

-----------------------------------------------------------------------------
(* The queue stage.                                                        *)

TakeSlot_OneTooMany(r) ==
  LET i == inst[r] IN
  /\ pc[r] = "awake"
  /\ processing[i] <= Concurrent
  /\ processing' = [processing EXCEPT ![i] = @ + 1]
  /\ pc' = [pc EXCEPT ![r] = "running"]
  /\ UNCHANGED <<hosts, recent, sleeping, queued, waiters, idle, inst, origin, gone>>

TakeSlot(r) ==
  LET i == inst[r] IN
  /\ pc[r] = "awake"
  /\ processing[i] < Concurrent
  /\ processing' = [processing EXCEPT ![i] = @ + 1]
  /\ pc' = [pc EXCEPT ![r] = "running"]
  /\ UNCHANGED <<hosts, recent, sleeping, queued, waiters, idle, inst, origin, gone>>

JoinQueue(r) ==
  LET i == inst[r] IN
  /\ pc[r] = "awake"
  /\ ~(processing[i] < Concurrent)
  /\ waiters' = [waiters EXCEPT ![i] = Append(@, r)]
  /\ queued' = [queued EXCEPT ![i] = @ + 1]
  /\ pc' = [pc EXCEPT ![r] = "queued"]
  /\ UNCHANGED <<hosts, recent, sleeping, processing, idle, inst, origin, gone>>

(* The select: its channel is closed, or its context is done, or both and  *)
(* either branch may be taken.                                             *)
Wake(r) ==
  /\ pc[r] = "granted"
  /\ pc' = [pc EXCEPT ![r] = "running"]
  /\ UNCHANGED <<hosts, counters, inst, origin, gone>>

GiveUp(r) ==
  /\ gone[r]
  /\ \/ pc[r] = "queued"  /\ pc' = [pc EXCEPT ![r] = "leaving"]
     \/ pc[r] = "granted" /\ pc' = [pc EXCEPT ![r] = "returning"]
  /\ UNCHANGED <<hosts, counters, inst, origin, gone>>

(* close(next): the waiter's goroutine owns the slot from now on.          *)
Closed(place) == IF place = "leaving" THEN "returning" ELSE "granted"

PassSlotOn_NoHandOver(r) ==
  /\ processing' = [processing EXCEPT ![inst[r]] = @ - 1]
  /\ pc' = [pc EXCEPT ![r] = "out"]
  /\ Leave(r)
  /\ UNCHANGED <<hosts, recent, sleeping, queued, waiters, idle, origin>>

PassSlotOn_NewestFirst(r) ==
  LET i == inst[r] IN
  /\ IF waiters[i] # <<>>
     THEN /\ waiters' = [waiters EXCEPT ![i] = Front(@)]
          /\ queued' = [queued EXCEPT ![i] = @ - 1]
          /\ pc' = [pc EXCEPT ![Last(waiters[i])] = Closed(@), ![r] = "out"]
          /\ UNCHANGED processing
     ELSE /\ processing' = [processing EXCEPT ![i] = @ - 1]
          /\ pc' = [pc EXCEPT ![r] = "out"]
          /\ UNCHANGED <<waiters, queued>>
  /\ Leave(r)
  /\ UNCHANGED <<hosts, recent, sleeping, idle, origin>>

(* What release() and the second half of abandon() do with the slot that   *)
(* request r gives back.                                                   *)
PassSlotOn(r) ==
  LET i == inst[r] IN
  /\ IF waiters[i] # <<>>
     THEN /\ waiters' = [waiters EXCEPT ![i] = Tail(@)]
          /\ queued' = [queued EXCEPT ![i] = @ - 1]
          /\ pc' = [pc EXCEPT ![Head(waiters[i])] = Closed(@), ![r] = "out"]
          /\ UNCHANGED processing
     ELSE /\ processing' = [processing EXCEPT ![i] = @ - 1]
          /\ pc' = [pc EXCEPT ![r] = "out"]
          /\ UNCHANGED <<waiters, queued>>
  /\ Leave(r)
  /\ UNCHANGED <<hosts, recent, sleeping, idle, origin>>

Release(r) == pc[r] = "running" /\ PassSlotOn(r)

(* abandon(): still listed, so its channel is taken out of the list.       *)
AbandonQueue(r) ==
  LET i == inst[r] IN
  /\ pc[r] = "leaving"
  /\ \E k \in DOMAIN waiters[i] :
       /\ waiters[i][k] = r
       /\ waiters' = [waiters EXCEPT ![i] = RemoveAt(@, k)]
  /\ queued' = [queued EXCEPT ![i] = @ - 1]
  /\ pc' = [pc EXCEPT ![r] = "out"]
  /\ Leave(r)
  /\ UNCHANGED <<hosts, recent, sleeping, processing, idle, origin>>

AbandonSlot_Forgets(r) ==
  /\ pc[r] = "returning"
  /\ pc' = [pc EXCEPT ![r] = "out"]
  /\ Leave(r)
  /\ UNCHANGED <<hosts, counters, origin>>

(* abandon(): the slot came before the lock, so it is given back.          *)
AbandonSlot(r) == pc[r] = "returning" /\ PassSlotOn(r)

-----------------------------------------------------------------------------
(* Cleanup(maxIdle), for one host: the loop takes and drops each host's    *)
(* mutex in turn, all of it under Limiter.mu.                              *)
Unused(i) == idle[i] /\ processing[i] = 0 /\ queued[i] = 0 /\ sleeping[i] = 0

Cleanup(h) ==
  /\ hosts[h] # NoInst
  /\ Unused(hosts[h])
  /\ hosts' = [hosts EXCEPT ![h] = NoInst]
  /\ UNCHANGED <<counters, pc, inst, origin, gone>>

(* The environment: maxIdle (an hour) passes since a host was last used,   *)
(* and a client hangs up.                                                  *)
BecomeIdle(i) ==
  /\ \E h \in Host : hosts[h] = i
  /\ ~idle[i]
  /\ Prompt => \A r \in Req : inst[r] # i
  /\ idle' = [idle EXCEPT ![i] = TRUE]
  /\ UNCHANGED <<hosts, recent, sleeping, queued, processing, waiters, pc, inst, origin, gone>>

HangUp(r) ==
  /\ pc[r] # "out"
  /\ ~gone[r]
  /\ gone' = [gone EXCEPT ![r] = TRUE]
  /\ UNCHANGED <<hosts, counters, pc, inst, origin>>

-----------------------------------------------------------------------------
Arrive(r) ==
  \E h \in Host : FindHost(r, h) \/ \E i \in Inst : MakeHost(r, h, i)

(* The steps a goroutine that is inside Acquire takes by itself.           *)
Acquire(r) ==
  \/ Reject(r) \/ Admit(r)
  \/ SleepEnds(r) \/ SleepCanceled(r)
  \/ TakeSlot(r) \/ JoinQueue(r)
  \/ Wake(r) \/ GiveUp(r)
  \/ AbandonQueue(r) \/ AbandonSlot(r)

Next ==
  \/ \E r \in Req : Arrive(r) \/ Acquire(r) \/ Release(r) \/ HangUp(r)
  \/ \E h \in Host : Cleanup(h)
  \/ \E i \in Inst : BecomeIdle(i)

Spec == Init /\ [][Next]_vars

(***************************************************************************)
(* A goroutine that can run eventually runs, a sleep ends, and a request   *)
(* that got its slot returns it: its handler is bounded by a timeout.      *)
(* Nothing obliges a request to arrive or a client to hang up.             *)
(***************************************************************************)
Fairness == \A r \in Req : WF_vars(Acquire(r) \/ Release(r))

FairSpec == Spec /\ Fairness

-----------------------------------------------------------------------------
Holders(i)  == {r \in Req : inst[r] = i /\ pc[r] \in Holding}
Waiters(i)  == {r \in Req : inst[r] = i /\ pc[r] \in Waiting}
Sleepers(i) == {r \in Req : inst[r] = i /\ pc[r] = "sleeping"}

(* Type invariant: every field of the limiter keeps its type, and the      *)
(* counters of limiter.go never go negative.                               *)
TypeOK ==
  /\ hosts \in [Host -> Inst \cup {NoInst}]
  /\ recent \in [Inst -> 0 .. SleepLimit + 1]
  /\ sleeping \in [Inst -> Nat]
  /\ queued \in [Inst -> Nat]
  /\ processing \in [Inst -> 0 .. Concurrent]
  /\ waiters \in [Inst -> Seq(Req)]
  /\ idle \in [Inst -> BOOLEAN]
  /\ pc \in [Req -> Place]
  /\ inst \in [Req -> Inst \cup {NoInst}]
  /\ origin \in [Req -> Host]
  /\ gone \in [Req -> BOOLEAN]

(* Every slot that `processing' counts belongs to exactly one request that *)
(* will call release() or abandon() (limiter.go, "processing is already    *)
(* accounted for"): no hand-over, cancellation or race of the two loses a  *)
(* slot or creates one.                                                    *)
SlotsAccountedFor == \A i \in Inst : processing[i] = Cardinality(Holders(i))

(* "queue: allow only a fixed number of a server's requests to run at      *)
(* once", for the requests that share one hostLimiter.                     *)
ConcurrencyBound == \A i \in Inst : Cardinality(Holders(i)) <= Concurrent

(* No request waits in the queue while a slot is free, so it always has a  *)
(* running request ahead of it whose release() will reach it.              *)
NoIdleSlotWhileQueued ==
  \A i \in Inst : waiters[i] # <<>> => processing[i] = Concurrent

(* The list of channels and the two counters that decide rejection agree   *)
(* with where the goroutines are, so an abandoned wait or a cancelled      *)
(* sleep never keeps pushing the host towards 429.                         *)
WaitingAccountedFor ==
  \A i \in Inst :
    /\ queued[i] = Len(waiters[i])
    /\ ToSet(waiters[i]) = Waiters(i)
    /\ IsInjective(waiters[i])
    /\ sleeping[i] = Cardinality(Sleepers(i))

(* In a step that gives r a slot, whoever is queued on the same            *)
(* hostLimiter and gets none is behind r.                                  *)
InOrder ==
  \A r, s \in Req :
    (/\ pc[r] \notin Holding /\ pc'[r] \in Holding
     /\ pc[s] \in Waiting /\ pc'[s] \in Waiting
     /\ inst[r] = inst[s])
    => \E j, k \in DOMAIN waiters[inst[r]] :
         j < k /\ waiters[inst[r]][j] = r /\ waiters[inst[r]][k] = s

(* release(): "handing it directly to the next waiter so the slot cannot   *)
(* be taken by a request that arrived later".  Slots go out in queue       *)
(* order, whatever arrives or gives up in between.                         *)
NoOvertaking == [][InOrder]_vars

(* A request that entered Acquire is eventually rejected, given up or      *)
(* served: the queue moves as long as running requests finish.             *)
EveryRequestLeaves == \A r \in Req : pc[r] # "out" ~> pc[r] = "out"
=============================================================================
