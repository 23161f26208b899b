# A TLA+ model of synapse-gopro-worker

The worker answers four read-only Matrix federation endpoints from Synapse's
database, or forwards them to Synapse, or does both and compares. This directory
models the parts of it that keep state or run concurrently, checks them with TLC
on small instances, and proves the safety properties for every instance with
TLAPS. `PROJECT.json` lists the runs, the source lines behind every definition,
the faults each property is known to notice, the findings and the hazards.

## The system

| Part | State it keeps | Operations | What makes it correct |
| --- | --- | --- | --- |
| `ratelimit` | per origin: recent arrivals, sleepers, a queue of channels, slots in use | `Acquire`, `release`, `abandon`, `Cleanup` | slots and queue exact whatever is cancelled; first come, first served; no lost wake-up |
| `fedapi` | one goroutine per request, in one of four modes, and a digester for a streamed answer | `ServeHTTP`, `serveNative`, `serveStreamed`, fallback | exactly one answer per client; every failure reaches the proxy; the cost to Synapse is bounded; slot and digester are let go |
| `proxy` | none | `Forward`, `ForwardStreaming`, `Fetch` | says truthfully whether the whole answer was relayed |
| `cache` | list, map, byte counter, armed flag | `Get`, `Add`, `Remove`, `Purge`, `SetArmed` | bounded map; counter never drifts |
| `replication` with `store` caches | session, Redis link, five caches, readers in flight | `Run`, `session`, `handle`, read-through | a stale entry is never left in |
| `difflog` | bounded queue, rotating files, counters, checkpoint | `Log`, `Observe`, `Close`, writer loop | no panic at shutdown, `Close` returns, bounded disk, no silent loss, counters survive restarts |
| `shadow` | a semaphore, one job per comparison | `Go`, `GoState`, `CompareServed`, `CompareStateServed` | a match means agreement, a real disagreement is counted, a failure of Synapse is not |
| `store/authchain` | none beyond one call | index walk, recursive walk | both equal the auth chain |
| `store/missingevents` | none beyond one call | backwards walk with a limit | bounded, only what was asked, honest about truncation |
| `matrixstate/coalesce` | running shared computations | `StateIDs` | no caller harmed by another, none let in by another |
| `matrixstate` resolvers and rules, `store` queries behind them | parsed ACLs | `Event`, `GetMissingEvents`, `State` | redacted content is never served, content is never withheld without reason, access and history are checked, whatever Synapse writes meanwhile |
| `matrixstate` digest | two running sums | `digestAccumulator`, `ScanStateResponse` | equal exactly for the same events, as often, in the same array |
| `fedauth`, `pducmp`, `config`, `metrics`, `cmd` | little | | see "Not modelled" |

A request goes through `fedapi`: it takes a slot of `ratelimit` when it is to be
answered natively, asks a `matrixstate` resolver (which reads `store` through the
caches), gives the slot back, and falls back to `proxy` on any failure. In
shadow and canary mode a detached comparison in `shadow` follows, whose result
goes to `difflog`. `replication` empties and arms the caches from its own
goroutine. What is hard: cancellation racing hand-over in the limiter; panics
unwinding a handler; readers, purges and reconnects interleaving around the
caches; rotation and checkpoints against crashes; the many ways two answers can
fail to be comparable; an answer put together from many queries while Synapse
writes between them.

## Modules

| Module | Models | How state and steps correspond |
| --- | --- | --- |
| `RateLimit` | `ratelimit/limiter.go` | one action per critical section or select branch; `pc` is the goroutine's place between them; state is per `hostLimiter` object, since a goroutine can hold one the map has forgotten |
| `RequestPath` | `fedapi`, outcomes of `proxy` | instantiates `RateLimit` on its own variables and conjoins its actions; `phase` is where `ServeHTTP` is; `wrote`, `asked`, `compared` are what client and Synapse saw, `passes` the replays of a diagnosis; phases `aborted` and `panicked` are a handler unwound by `http.ErrAbortHandler` and by a panic nobody recovers; `digester` is the goroutine behind a `StateSink`, and phase `drain` the wait for it |
| `LRU`, `BoundedMap` | `cache/lru.go` | `order` is the list, `bytes` the counter; `BoundedMap` is what the store relies on, and `LRU` implements it with `content <- Held` |
| `CacheCoherence` | `replication`, `store/cache.go`, the read-throughs | the subscriber's work on the caches is a list of single-cache steps (`todo`); a reader checks the flag, locks, queries and adds in separate steps; a datum is a version number |
| `DiffLog` | `difflog/writer.go`, `stats.go` | memory and disk apart; a crash clears the first and keeps the second; records are numbered in the order they are met and have lines of any `Length`; a file is the sequence of its bytes, so that long records, partial writes and fragments show; `unmoved` are the rotated files whose rename failed; the first start may find what an earlier run left, every file full |
| `ShadowRunner` | `shadow/runner.go`, `state.go`, parts of `compare.go` | `Judge` is the classification, `sem` the semaphore |
| `StateDigest` | the digest of `matrixstate/state.go` | operators `ShadowRunner` extends; an answer is two sequences of events, SHA-256 a number small enough that sums wrap |
| `EventAnswers` | `matrixstate` `event.go`, `missingevents.go`, `state.go`, `visibility.go`, `acl.go`; `store` `event.go`, `redaction.go`, `redactionauth.go`, `room.go` | `Script` is the order of an endpoint's queries and each is a step; `db` is what Synapse may write between two of them, `world` what it may not; `always` and `ever` record what held during the request. What Synapse stores of a redaction twice, in its `redactions` row and with its event, is two facts (`Records`) |
| `Ancestry` | | the reference definition of what a set of events reaches: the least closed set |
| `AuthChain` | `store/authchain.go` | one step per generation of queries, any of which may fail; Synapse's index is any valid chain cover of any closed part of the graph |
| `MissingEvents` | `store/missingevents.go` | one step per query, which may fail; a frontier is sorted and has no event twice, so it is a set visited least id first |
| `StateIDsFlight` | `matrixstate/coalesce.go`, `StateIDs`, `checkAccess` | callers, and the singleflight's running calls |

`RateLimitProofs`, `RequestPathProofs`, `CacheCoherenceProofs`, `DiffLogProofs`,
`ShadowRunnerProofs` and `EventAnswersProofs` hold the theorems about the module
each is named for, and their proofs; `StateIDsProofs` those about what
`/state_ids` is computed with, `AuthChain` and `StateIDsFlight`, and `StoreProofs`
those about `LRU` and `MissingEvents`. Modules that are proved about together
share no name, hence `FlightInit`, `WalkInit` and the like. An `MC…` module names the small instance of each, and a `.cfg` gives it to TLC.
Definitions named `X_Y` are `X` with a plausible fault; no specification uses
them. They show that the property they are paired with in `PROJECT.json` would
notice.

## Runs

Passing:

| Run | Instance | Shows |
| --- | --- | --- |
| `rate_limit` | 3 requests, 1 slot, 2 limiter objects | slots, queue and counters exact; queue order kept; everybody leaves `Acquire`. Three requests are a holder, a waiter being handed the slot and one behind it, or two sleepers and a newcomer that is rejected; two objects let `Cleanup` split a host |
| `request_path` | 3 requests, one of them for any endpoint in any mode | one answer, nobody forgotten, what Synapse is asked bounded, the slot back before proxying, whole answers compared and nothing else, no digester left behind when `ServeHTTP` returns. The two others are there to make the limiter queue and reject |
| `lru` | 4 keys, sizes 0, 1, 2, 5 of 4 | implements `BoundedMap`; counter exact; evicts no more than it must |
| `cache_coherence` | 3 caches, 1 key, 1 reader, 2 messages in flight | a stale entry has its invalidation on the way and it arrives, except for an entry added by an overtaken reader |
| `diff_log` | 2 records of 3 bytes and 1, files of 2 bytes, queue 1, 2 old files, 2 starts, from nothing or from full files | no send on a closed channel, disk bounded, evidence kept, accepted records accounted for, checkpoints monotone, `Close` returns |
| `shadow_runner` | every pair of answers, 2 jobs, 1 slot | classification sound in both directions, digests told apart as the answers are; a comparison is dropped as busy only when the slots are taken |
| `auth_chain` | all acyclic graphs of 4 events, all graphs of 3, all covers | index and walk both end and are both exact |
| `missing_events` | all acyclic graphs of 4 events, at most one of them unknown to us, limits 0, 2, 30 | within the limit, only wanted events, complete with room to spare |
| `state_ids_flight` | 3 callers, 2 keys | hanging up is private, no free ride, everybody returns |
| `event_answers` | 2 requests, 2 writes by Synapse, 2 circumstances unusual | what was redacted or banned throughout is never served whole; nothing is pruned without a reason; restricted history stays so; access was granted; no original in full beside or after a redaction we passed on, where its two records agree |

Bounds that are not the code's: `Records` (disagreements met; a constant of
`DiffLog`) with their `Length`, `MaxOdd`,
`MaxChanges`, `MaxRequests` (how many of an event's seventeen circumstances differ
from the common case, writes of Synapse, requests), `MaxVersion`, `MaxChannel` (changes of a datum,
undelivered messages), `MaxMatches`, `MaxErrors`, `MaxRestarts` (comparisons,
failures beyond the records' own, starts of the process), `Asks` (which endpoints
a request may be for) and `Prompt` (nobody stays in the limiter for the hour
after which `Cleanup` forgets a host). One change is enough for an entry to be
stale and two messages for one to overtake another; one failure more than there
are records lets a checkpoint fail while a write does. A line of three bytes
does not fit a file of two and can be cut short in three ways, one of one byte
fills up what is left; `MissingEvents` itself takes any set of events to be
unknown, and since they all fare the same its run has one. Two new lines after an
earlier run shift every file once and delete the oldest, then do it again. The
rules of `EventAnswers` join at most two facts beside what Synapse writes, two
writes let one fact come while another goes, and a second request meets what the
first left: the parsed ACL, or a redaction the server has been told of. Deadlock is checked except
where the system really stops: `DiffLog` and `EventAnswers` at their bounds, the
two walks when done, and `RequestPath`, where leaked slots (below) can leave everybody waiting.

Each module has a `TypeOK` (`FlightTypeOK`, `WalkTypeOK`), which is part of the inductive invariant where there
is a proof, as it stands or in the weaker form that the proof needs.

Violations, each a disagreement between what the repository says and what its
code does:

| Run | What the trace shows |
| --- | --- |
| `request_path_slot` | an aborted stream panics past `release()`: the slot is gone for good |
| `cache_coherence_quiet` | a reader slower than an invalidation leaves a stale entry for good |

Further disagreements met while modelling, which the models reproduce and no run
is kept for:

- `ratelimit/limiter.go:262`: `Cleanup` between another goroutine's lookup of a
  host and its lock gives one server two limiters, so the bound is per limiter
  object and not per server.
- `ratelimit/limiter.go:120`: requests past the reject check are in neither
  counter until they queue, so more than `RejectLimit` may come to wait.
- `ratelimit/limiter.go:103`: "A limit of zero disables that stage" cannot
  happen, `withDefaults` having replaced the zero.
- `fedapi/stream.go:161`: a Matrix error served on `/state` in canary mode is
  never compared (`ComparedIsComplete` makes that exception).
- `fedapi/canary.go:119`, `fedapi/stream.go:124`: `handler.go:247` and the
  repository's README, line 81, say that a panic falls back to the proxy with
  nothing written. `answer()` recovers (`canary.go:261`); `Verify`, and the `State`
  that streams, run outside it. A panic there unwinds `ServeHTTP`: the client gets
  nothing and the origin loses the slot (`NativePanics`; `NobodyForgotten` makes
  that exception).
- `shadow/diagnose.go:114`, `:171`: a comparison of `/state` that disagrees is
  diagnosed by replaying the request to Synapse once or twice more, so a request
  can cost it three computations (`Diagnose`, `SynapseCost`).
- `replication/replication.go:177`: caches stay armed while go-redis reconnects
  underneath the subscription.
- `fedapi/handler.go:414`: "Always drained" is so when the proxy returns; when
  `ReverseProxy` panics because an answer broke off, `Wait` is not reached and the
  digester stays blocked (`ForwardAborts`; `DigesterReleased` makes that exception).
  The same panic in the replay of `fedapi/canary.go:352`
  loses the comparison uncounted, where `canary.go:317` says it is "lost as
  upstream_undigestible".
- `store/missingevents.go:134`: the query's `LIMIT` counts prev-events that were
  seen already, so others can be lost while `truncated` stays false; line 30 says
  it "reports that the walk stopped because it reached the limit", and
  `shadow/compare.go:201` that a walk that completed "is fully determined".
  `CompleteWithRoom` states what does hold.
- `matrixstate/event.go:161`: any failure to read the history_visibility event
  counts as shared history (`PrivacyKept` makes that exception).
- `matrixstate/acl.go:88`: "serverName must have any port already stripped", but
  `missingevents.go:56` and `stateids.go:123` pass the origin as it came.
- `store/state.go:342`: an erased user's events "must not be served to other
  servers, redacted or otherwise"; `/event` and `/get_missing_events` serve them
  pruned and `/state` whole.
- `store/redactionauth.go:18`: `/state` "must withhold" unauthorised redactions
  and never asks which they are; redactions not being state events, nothing
  follows from it.
- `store/redaction.go:109`: redactions and bans are read one after the other, so
  an event whose redaction arrives just after the one and whose sender's ban ends
  just before the other is served whole (`RedactionHonoured` asks for one reason
  that lasted).
- `store/redaction.go:43`, `store/redactionauth.go:102`: whether a redaction is to
  be authorised on read is the column `redactions.recheck` for applying it and the
  event's `recheck_redaction` for serving it; what it redacts is likewise read from
  the row in one place and from the event in the other. Where Synapse's records
  differ, the row asking for a recheck and the event not, a redaction from another
  server is passed on and not honoured; so is one whose row has lost `redacts`.
  `NoWholeAfterRedaction` has `RecordsAgree` as its hypothesis, and TLC finds it
  violated without.
- `difflog/writer.go:17`: "at most MaxFiles * MaxFileBytes": `MaxFiles` is the
  number of rotated files, the active one comes on top; and line 294 writes a
  record longer than `MaxFileBytes` whole, into an empty file, which then is as
  long as that record. `DiskBounded` states what holds.
- `difflog/writer.go:337`: the errors of the renames are ignored. A file that could
  not be renamed is overwritten by the next rename, or by the new `diffs.jsonl.1`,
  though it is not the oldest, where line 37 says "oldest deleted first".
  `EvidenceKept` allows for exactly that file.
- `difflog/writer.go:300`: a write that fails part-way leaves a fragment, which
  the next record continues on the same line.
- `fedauth/auth.go:142`: `requireCurrentlyValidKey` is satisfied by any valid key
  of the origin, not by the one that verified the signature.
- `difflog/writer.go:389`: the first checkpoint after a restart resets the
  reported numbers of dropped records and of write errors.
- `shadow/state.go:265`, `shadow/runner.go:584`: on `/state` Synapse's 429 to a
  replay, and its 401 for keys it could not fetch, count as mismatches
  (`NoVerdictNotCounted` makes that exception).

## Fairness

Weak fairness of a goroutine's own steps: the Go scheduler runs what can run.
`Release` in `RateLimit` is among them because handlers are bounded by timeouts
(`nativeTimeout`, `streamTimeout`); the leak above is outside that module.
`CacheCoherence` assumes that go-redis keeps trying to reconnect.
`StateIDsFlight` assumes a computation ends, which `stateIDsComputeTimeout`
enforces. `AuthChain` assumes that a query is answered or fails. Nothing obliges a client
to send or to hang up, nor Synapse to change anything. In `DiffLog` the writer's
`select` chooses at random among what is ready, so the queue and its closing are
each taken if they stay ready while a ticker fires: strong fairness of `Write` and
`Drained`, weak of the rest of `Close`'s way. Liveness of `RequestPath` is false
once a slot is lost and is not checked; `DigesterReleased` states what must be done
by the time the handler returns instead.

## Proofs

For each component there is an inductive invariant (`IInv`, `FlightIInv`,
`WalkIInv`); a proof module shows that it holds at
the start and that every action keeps it, one lemma per action or group of
alike actions, and reads the theorems off it. TLC also finds each of
them to hold on the instance of the corresponding run. A theorem holds for
every value of the constants that the module's `ASSUME` allows; bounds such as
`Records` or `MaxVersion` are any natural numbers there.

| Theorems | State | For every |
| --- | --- | --- |
| `RateLimitProofs`: `TypeCorrect`, `SlotsConserved`, `Bounded`, `NoLostWakeUp`, `WaitingConserved`, `FirstComeFirstServed` | `TypeOK`, `SlotsAccountedFor`, `ConcurrencyBound`, `NoIdleSlotWhileQueued`, `WaitingAccountedFor`, `NoOvertaking` | finite set of requests, hosts, limiter objects, limits that `Validate` accepts |
| `RequestPathProofs`: `Answered`, `CostBounded`, `SlotBackFirst`, `ComparesWholeAnswers`, `DigesterDrained`, `OneAnswerOnly` | `NobodyForgotten`, `SynapseCost`, `NoSlotAfterNative`, `ComparedIsComplete`, `DigesterReleased`, `OneAnswer` | set of requests, endpoints and modes they may use, limits |
| `RequestPathProofs`: `UsesTheLimiter` | `Spec => RL!Spec`: the handler implements the limiter's specification | the same |
| `CacheCoherenceProofs`: `StaleIsFoundOut`, `OnlyLateReaders` | `StaleIsOnItsWayOut`; and that, once connected and quiet, nothing is stale but what an overtaken reader added | set of readers and keys, choice of caches, number of changes and messages |
| `DiffLogProofs`: `TypeCorrect`, `NoPanicOnClose`, `FilesStayBounded`, `NothingLostInSilence`, `CountersSurvive`, `EvidenceSurvives` | `TypeOK`, `NoSendOnClosedQueue`, `DiskBounded`, `AcceptedIsAccountedFor`, `CheckpointsGrow`, `EvidenceKept` | queue size, bound of a file, length of each line, number of files, records, failures and restarts |
| `ShadowRunnerProofs`: `MatchesAgree`, `DisagreementsAreSeen`, `AcceptanceIsLogged`, `SheddingIsNoMismatch`, `BusyIsBusy` | `MatchMeansAgreement`, `DisagreementIsRecorded`, `DangerousIsLogged`, `NoVerdictNotCounted`, `BusyMeansBusy` | set of comparisons, number of slots |
| `EventAnswersProofs`: `RedactionsAreHonoured`, `PruningHasAReason`, `PrivacyIsKept`, `AccessIsChecked`, `ServedRedactionsHold` | `RedactionHonoured`, `PrunedForAReason`, `PrivacyKept`, `AccessWasGranted`, `NoWholeAfterRedaction` | combination of circumstances, number of writes and of requests |
| `StateIDsProofs`: `ChainIsExact`, `TypeCorrect` | `Exact`, `TypeOK` | finite set of events, graph (cyclic or not), closed part of it in the index, valid chain cover, request |
| `StateIDsProofs`: `CancelledByItsOwn`, `CheckedByItsOwn`, `WaitersAreListed` | `HangUpIsPrivate`, `NoFreeRide`; and that whoever waits is listed in a call that runs | set of callers and events |
| `StoreProofs`: `CacheTypeCorrect`, `ByteCountIsExact`, `EvictionIsMinimal` | `TypeOK`, `BytesExact`, `EvictsOnlyWhatItMust` | set of keys and of values, size of each value, bound |
| `StoreProofs`: `CacheIsABoundedMap` | `Spec => ImplementsBoundedMap`: list and counter implement the map | the same |
| `StoreProofs`: `WalkTypeCorrect`, `WalkReturnsOnlyWanted`, `WalkIsComplete` | `WalkTypeOK`, `OnlyWanted`, `CompleteWithRoom` | finite set of events, graph (cyclic or not), request and limit |

Why the invariants have to say more than the properties:

- **Limiter.** A release hands its slot to whoever heads the list, so slots are
  exact only if the list holds exactly the requests that wait; a request may take
  a free slot without queueing, so the order is kept only if nobody waits while a
  slot is free. `IInv` is the conjunction with `TypeOK` and `PointerOK` (a
  goroutine points to a limiter object exactly while it is inside). `Limits`
  contributes that `Concurrent` is at least 1 after `withDefaults`. Facts about
  lists without repetitions and about cardinalities are lemmas of their own.
- **Request path.** `Coupled` ties the handler's place to the limiter's: they move
  in separate modules, and a slot can be handed over by another request's release.
  `LimiterOK` is what that needs of the limiter: nobody but a request that waits,
  once, is in a list. `Departed` says the limiter gives up only on a client that
  has gone, which is why a request that leaves it unanswered forgets nobody.
  `Progress` gives, for each place of the handler, what was written, asked and
  compared. That every step is the limiter's or leaves it alone is
  `UsesTheLimiter`, so the limiter's theorems apply inside the worker.
- **Caches.** A reader adds what it read earlier, so the invariant covers what is
  in its hand as well as what is in a cache (`HandOK`). A filtered view is made
  from a whole state a cache may hold: emptying the wholes must be followed by
  emptying the views (`ViewsFollow`), for which the proof uses that
  `store/cache.go` purges `stateGroups` before `filteredState`
  (`OrderAssumption`), and the two hold one datum (`OneDatum`). `OnlyLateReaders`
  is the exact extent of the violation that `cache_coherence_quiet` shows.
- **Diff log.** Counters survive a crash only because memory, and a clone about to
  be saved, are never behind the disk (`MemoryIsAhead`); nobody sends on a
  closed queue only because a process that is down has no goroutine half-way
  (`DownIsQuiet`). A file within its bound stays so under a write, whole or cut
  short, because what is appended to a file that holds anything was measured first
  (`GrownFits`), and a part of an over-long record alone is still one (`PrefixFits`).
  A rotation keeps every file but the oldest and those whose renames failed
  (`ShiftedFacts`).
- **Comparison.** `VerdictOK` says an outcome is the judgement of the two answers
  the comparison was given, so that the theorems are about `Judge`, over all
  pairs of answers; `SlotsOK` that taken slots and running comparisons are the
  same number, after a panic too. Two theorems have the hypothesis `NoCollision`,
  that answers with equal digests hold the same events: what the repository
  expects of two sums of SHA-256. It is true of the instance TLC runs, and the
  fault paired with `MatchMeansAgreement` is a digest for which it is false. The
  provers cannot evaluate a fold, so it is a hypothesis and not a lemma.
- **Event answers.** An answer is put together from queries made at different
  moments. The invariant says, for each step of a `Script`, what the facts read
  so far imply about the moments since the request began (`always`, `ever`); and
  that a redaction that was passed on is heeded from then on, where its two records
  agree (`ToldOK`).
- **Auth chain.** While links are followed, every place reached is an ancestor's,
  and a link that leaves a reached or requested place has been followed or is
  about to be (`Followed`): completeness rests on the second. That links may be
  left out when another reference leads to the same event, and that they lead to
  a place in a chain and not to an event, makes the end a real argument
  (`CollectedComplete`): of the ancestors missed take a highest, of the events
  that refer to it a lowest, and whichever way that reference is recorded, it was
  followed. The lemmas `Lowest` and `Highest`
  take minimal elements of well-founded orders instead (the library's `WFMin`
  over the order of finite sets by inclusion). For the walk: what was found has
  had its parents asked for, or is about to (`Walking`).
- **Shared computation.** An answer goes to whoever waits, so it is deserved only
  because all that wait were let in (`Entitled`).
- **Cache.** An add takes the old size off the counter and puts the new one on;
  that keeps the counter exact only if the list holds no key twice, which `TypeOK`
  says. The rest is about sums. The folds of the community modules are recursive
  functions over the subsets of a set, an element chosen at each: `AddsExists` and
  `TableExists` show that there is such a function, `TableIsSum` that it gives the
  sum whatever is chosen, `TotalCat` and `RemoveTotal` what that means for a list
  put together or with an entry taken out, and `SumReindex` that the list and the
  map it stands for weigh the same, on which the refinement rests.
- **Walk.** Seen is what the caller has and what was found; and, as long as there
  is room for the prev-events of any one event, whatever was found is still to be
  visited or has had its prev-events found (`Walking`). `FirstFacts` says that a
  query is cut short only if it has more rows than room, and `InOrderFacts` that
  what it gives is appended once each.

Where these arguments need induction over data they take a minimal counterexample
instead (`MinimalSubset`, `SubsetInduction`, `LeastNatural`), which needs no
operator parameter.

Only model-checked: what is about something happening eventually
(`EveryRequestLeaves`, `StaleGoes`, `CloseReturns`, `Terminates`,
`EveryCallerReturns`), which needs fairness and is out of the prover's reach; and
what the digests of `StateDigest` evaluate to. Every other property of a passing
run is a theorem.

## Not modelled

- `fedauth`: signatures, key requests and most of their checks are the mautrix
  library's, outside the repository; what is left is a map of keys with an expiry.
  Verification is an outcome in `RequestPath` and `ShadowRunner`.
- In `EventAnswers`: which fields a pruned event keeps in which room version, the
  state group arithmetic of "the state before an event" (any set of state events
  here), and the event cache, whose staleness is `CacheCoherence`'s subject.
- In `AuthChain`: the cache in front of the index walk, one of the caches
  `CacheCoherence` stands for, and the batching of the recursive walk's queries.
- Of the diagnosis of a `/state` mismatch: everything but the replays it sends.
- `proxy`'s choice of backend, headers and capture limits; `config`, `metrics`,
  `pducmp`, traces, reports, the sweep tools, scripts and deployment:
  parsing, formatting, dispatch or I/O.

## Plan

Done, in order of importance: limiter, request path, caches, diff log,
comparison, the two walks, the shared computation, the limiter's theorems; then
the digester's pipe, `Close` returning, the digests of `/state`, and the rules
and queries behind `/event`, `/get_missing_events` and `/state`.

Next, modelling: `ShadowRunner` composed with `DiffLog`, records that cannot be
encoded included.

Proved: the limiter, the request path and its use of the limiter, the caches, the
diff log, the comparison, the rules behind event answers, the auth chain, the
shared computation, the bounded cache and the map it implements, and the walk of
`/get_missing_events`. Liveness is what is left, for a prover that has fairness.
