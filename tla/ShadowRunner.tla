---------------------------- MODULE ShadowRunner ----------------------------
(***************************************************************************)
(* The comparison of our answers with Synapse's: internal/shadow/runner.go *)
(* and state.go, CompareStatus and CompareGetMissingEvents of compare.go.  *)
(*                                                                         *)
(* Four entry points share the slots of one semaphore.  Go and GoState     *)
(* judge an answer Synapse served, computing ours; CompareServed and       *)
(* CompareStateServed judge one we served, with Synapse's fetched since.   *)
(* /state is compared by digest: its body is never captured.               *)
(*                                                                         *)
(* An answer is a status and what its body says: "a" or "b" are contents   *)
(* that compare unequal, "garbled" parses as neither; a 401 says either    *)
(* that Synapse could not fetch the origin's keys or that the signature is *)
(* bad.  The content of a /state answer is one of StateDigest's.           *)
(*                                                                         *)
(* A definition named X_Y is X with a fault, for showing that a property   *)
(* notices it; nothing uses it.                                            *)
(***************************************************************************)
EXTENDS Integers, FiniteSets, StateDigest

CONSTANTS
  Job,           \* comparisons; one that is over comes back as another
  Concurrency    \* Options.Concurrency

ASSUME ConcurrencyAssumption == Concurrency \in Nat \ {0}

Shadowed == {"shadow", "state"}              \* Go, GoState
Served   == {"served", "stateServed"}        \* CompareServed, CompareStateServed
ByDigest == {"state", "stateServed"}

(* What Synapse may have answered.  `whole': the body was captured, or     *)
(* digested, to its end.  `limit': as many events as the request allows.   *)
(* 502 is also what the proxy makes of no answer at all.                   *)
Replies ==
       [status : {200}, body : DOMAIN StateBody \cup {"garbled"}, whole : BOOLEAN, limit : BOOLEAN]
  \cup [status : {401}, body : {"keys", "signature"}, whole : BOOLEAN, limit : {FALSE}]
  \cup [status : {403, 404, 429, 502}, body : {"error"}, whole : BOOLEAN, limit : {FALSE}]

(* What our side makes of the request: the verdict on its signature, and   *)
(* the answer, 0 being an internal error or a timeout.  `cut': the walk of *)
(* get_missing_events stopped at its limit.  Nothing is computed for a     *)
(* request we reject.                                                      *)
Answers ==
       [auth : {200}, status : {200}, body : {"a", "b"}, cut : BOOLEAN]
  \cup [auth : {200}, status : {0, 403, 404}, body : {"error"}, cut : {FALSE}]
  \cup [auth : {401}, status : {0}, body : {"error"}, cut : {FALSE}]

(* /state has no walk to cut short.  What was served had been verified,    *)
(* and was an answer; a stream is 200.                                     *)
Input(k, s, o) ==
  /\ k \notin ByDigest /\ s.status = 200 => s.body \in {"a", "b", "garbled"}
  /\ k \in ByDigest => ~s.limit /\ ~o.cut
  /\ k \in Served => o.auth = 200 /\ o.status # 0
  /\ k = "stateServed" => o.status = 200

VARIABLES
  at,        \* "idle", "waiting" for a slot, "running", "finished"
  kind,      \* the entry point
  synapse,   \* Synapse's answer
  ours,      \* our side
  outcome,   \* match, mismatch, the reason of a skip, or "none" so far
  authlog,   \* logAuthMismatch was called
  sem        \* len(Runner.sem)

vars == <<at, kind, synapse, ours, outcome, authlog, sem>>

Init ==
  /\ at = [j \in Job |-> "idle"]
  /\ kind = [j \in Job |-> "shadow"]
  /\ synapse = [j \in Job |-> CHOOSE s \in Replies : TRUE]
  /\ ours = [j \in Job |-> CHOOSE o \in Answers : TRUE]
  /\ outcome = [j \in Job |-> "none"]
  /\ authlog = [j \in Job |-> FALSE]
  /\ sem = 0

-----------------------------------------------------------------------------
(* The judgement.  k is the entry point, s Synapse's answer, o our side.   *)

(* Only where the body was captured can it be asked.                       *)
CouldNotFetchKeys_Any401(k, s) == s.status = 401
CouldNotFetchKeys(k, s) ==
  k \notin ByDigest /\ s.status = 401 /\ s.whole /\ s.body = "keys"

(* diff: a body that does not parse is reported as an error, and an order  *)
(* of walking as neither agreement nor disagreement.                       *)
Diff(s, o) ==
  CASE s.body = o.body -> "match"
    [] s.body = "garbled" -> "mismatch"
    [] OTHER -> IF o.cut \/ s.limit THEN "walk_truncated" ELSE "mismatch"

Finish_Counts429(k, s, o) ==
  IF s.status # o.status
  THEN IF o.status # 401 /\ CouldNotFetchKeys(k, s) THEN "upstream_key_fetch_failed" ELSE "mismatch"
  ELSE CASE s.status # 200 -> "match"
         [] s.status = 200 /\ ~s.whole -> "truncated"
         [] OTHER -> Diff(s, o)

Finish(k, s, o) ==
  IF s.status # o.status
  THEN CASE o.status # 401 /\ CouldNotFetchKeys(k, s) -> "upstream_key_fetch_failed"
         [] s.status = 429 -> "upstream_rate_limited"
         [] OTHER -> "mismatch"
  ELSE CASE s.status # 200 -> "match"
         [] s.status = 200 /\ ~s.whole -> "truncated"
         [] OTHER -> Diff(s, o)

(* A request we would reject has the rejection as its answer.              *)
Rejection(o) == [status |-> o.auth, body |-> "error", cut |-> FALSE]

Run(s, o) ==
  CASE o.auth # 200 -> Finish("shadow", s, Rejection(o))
    [] o.auth = 200 /\ o.status = 0 -> "mismatch"
    [] OTHER -> Finish("shadow", s, o)

Undigestible(s) == ~s.whole \/ s.body = "garbled"
Unavailable(s)  == s.status = 502
Agrees(s, o)    ==
  DigestsAgree(DigestStateResponse(StateBody[s.body]), DigestStateResponse(StateBody[o.body]))

CompareState(s, o) ==
  IF Undigestible(s) THEN "upstream_undigestible"
  ELSE IF Unavailable(s) THEN "upstream_unavailable"
  ELSE CASE o.auth # 200 -> Finish("state", s, Rejection(o))
         [] o.auth = 200 /\ o.status = 0 -> "mismatch"
         [] o.auth = 200 /\ o.status # 0 /\ (o.status # 200 \/ s.status # 200) ->
              Finish("state", s, o)
         [] OTHER -> IF Agrees(s, o) THEN "match" ELSE "mismatch"

CompareServed(s, o) ==
  IF Unavailable(s) THEN "upstream_unavailable" ELSE Finish("served", s, o)

CompareStateServed_SkipsErrors(s, o) ==
  CASE Undigestible(s) -> "upstream_undigestible"
    [] ~Undigestible(s) /\ s.status # 200 -> "upstream_unavailable"
    [] OTHER -> IF Agrees(s, o) THEN "match" ELSE "mismatch"

CompareStateServed(s, o) ==
  IF Undigestible(s) THEN "upstream_undigestible"
  ELSE IF Unavailable(s) THEN "upstream_unavailable"
  ELSE IF s.status = 200 /\ Agrees(s, o) THEN "match" ELSE "mismatch"

Judge(k, s, o) ==
  CASE k = "shadow" -> Run(s, o)
    [] k = "state" -> CompareState(s, o)
    [] k = "served" -> CompareServed(s, o)
    [] k = "stateServed" -> CompareStateServed(s, o)

(* verifyOrigin, when it is reached: the two verdicts are compared, and a  *)
(* disagreement is logged.                                                 *)
Verifies(k, s) == k = "shadow" \/ (k = "state" /\ ~Undigestible(s) /\ ~Unavailable(s))

VerifyOrigin(k, s, o) ==
  /\ Verifies(k, s)
  /\ \/ o.auth = 200 /\ s.status = 401 /\ ~CouldNotFetchKeys(k, s)
     \/ o.auth # 200 /\ s.status \notin {401, 403}

-----------------------------------------------------------------------------
(* The slots.                                                              *)

Move(j, from, to) == at[j] = from /\ at' = [at EXCEPT ![j] = to]

Given(j) ==
  \E k \in Shadowed \cup Served, s \in Replies, o \in Answers :
    /\ Input(k, s, o)
    /\ kind' = [kind EXCEPT ![j] = k]
    /\ synapse' = [synapse EXCEPT ![j] = s]
    /\ ours' = [ours EXCEPT ![j] = o]

(* A free slot is taken at once, whichever the entry point.                *)
TakeSlot(j) ==
  /\ Move(j, "idle", "running")
  /\ sem < Concurrency
  /\ sem' = sem + 1
  /\ Given(j)
  /\ UNCHANGED <<outcome, authlog>>

(* Go and GoState drop the comparison when there is none ...               *)
DropBusy(j) ==
  /\ Move(j, "idle", "finished")
  /\ sem = Concurrency
  /\ Given(j) /\ kind'[j] \in Shadowed
  /\ outcome' = [outcome EXCEPT ![j] = "busy"]
  /\ UNCHANGED <<authlog, sem>>

(* ... and the verification of a served answer waits up to verifyWait.     *)
WaitForSlot(j) ==
  /\ Move(j, "idle", "waiting")
  /\ sem = Concurrency
  /\ Given(j) /\ kind'[j] \in Served
  /\ UNCHANGED <<outcome, authlog, sem>>

GetSlot(j) ==
  /\ Move(j, "waiting", "running")
  /\ sem < Concurrency
  /\ sem' = sem + 1
  /\ UNCHANGED <<kind, synapse, ours, outcome, authlog>>

TimeOut(j) ==
  /\ Move(j, "waiting", "finished")
  /\ outcome' = [outcome EXCEPT ![j] = "busy_verify"]
  /\ UNCHANGED <<kind, synapse, ours, authlog, sem>>

(* The comparison ends, and the deferred receive frees the slot.           *)
Compare(j) ==
  /\ Move(j, "running", "finished")
  /\ outcome' = [outcome EXCEPT ![j] = Judge(kind[j], synapse[j], ours[j])]
  /\ authlog' = [authlog EXCEPT ![j] = VerifyOrigin(kind[j], synapse[j], ours[j])]
  /\ sem' = sem - 1
  /\ UNCHANGED <<kind, synapse, ours>>

(* A panic in a resolver is recovered; the slot is freed all the same.     *)
Panic_KeepsSlot(j) ==
  /\ Move(j, "running", "finished")
  /\ outcome' = [outcome EXCEPT ![j] = "panic"]
  /\ UNCHANGED <<kind, synapse, ours, authlog, sem>>

Panic(j) ==
  /\ Move(j, "running", "finished")
  /\ outcome' = [outcome EXCEPT ![j] = "panic"]
  /\ sem' = sem - 1
  /\ UNCHANGED <<kind, synapse, ours, authlog>>

Retire(j) ==
  /\ Move(j, "finished", "idle")
  /\ kind' = [kind EXCEPT ![j] = "shadow"]
  /\ synapse' = [synapse EXCEPT ![j] = CHOOSE s \in Replies : TRUE]
  /\ ours' = [ours EXCEPT ![j] = CHOOSE o \in Answers : TRUE]
  /\ outcome' = [outcome EXCEPT ![j] = "none"]
  /\ authlog' = [authlog EXCEPT ![j] = FALSE]
  /\ UNCHANGED sem

Next ==
  \E j \in Job :
    \/ TakeSlot(j) \/ DropBusy(j) \/ WaitForSlot(j) \/ GetSlot(j) \/ TimeOut(j)
    \/ Compare(j) \/ Panic(j) \/ Retire(j)

Spec == Init /\ [][Next]_vars

-----------------------------------------------------------------------------
Unverdicts == {"none", "busy", "busy_verify", "panic"}
Skips == {"upstream_key_fetch_failed", "upstream_rate_limited", "truncated",
          "walk_truncated", "upstream_undigestible", "upstream_unavailable"}

(* Type invariant; a shadow comparison is dropped rather than queued.      *)
TypeOK ==
  /\ at \in [Job -> {"idle", "waiting", "running", "finished"}]
  /\ kind \in [Job -> Shadowed \cup Served]
  /\ synapse \in [Job -> Replies]
  /\ ours \in [Job -> Answers]
  /\ outcome \in [Job -> {"match", "mismatch"} \cup Unverdicts \cup Skips]
  /\ authlog \in [Job -> BOOLEAN]
  /\ sem \in 0 .. Concurrency
  /\ \A j \in Job : at[j] = "waiting" => kind[j] \in Served

Running == {j \in Job : at[j] = "running"}

(* A comparison is dropped as busy only while every slot has one running:  *)
(* no panic, and no timer that races a freed slot, has lost one.  And no   *)
(* more run than there are slots.                                          *)
BusyMeansBusy ==
  [][/\ Cardinality(Running') <= Concurrency
     /\ (\E j \in Job : outcome'[j] = "busy" /\ outcome[j] # "busy")
          => Cardinality(Running) = Concurrency]_vars

(* What our side really amounts to.                                        *)
Ours(o) == IF o.auth = 200 THEN o ELSE Rejection(o)

Agreement(k, s, o) ==
  /\ s.status = Ours(o).status
  /\ s.status = 200 =>
       \/ s.body = Ours(o).body
       \/ /\ k \in ByDigest /\ s.body # "garbled"
          /\ SameEvents(StateBody[s.body], StateBody[o.body])

Judged(j) == at[j] = "finished" /\ outcome[j] \notin Unverdicts

(* "a failure to compare is recorded as a skip rather than as agreement":  *)
(* the match rate counts only comparisons in which the two sides agree.    *)
MatchMeansAgreement ==
  \A j \in Job : outcome[j] = "match" => Agreement(kind[j], synapse[j], ours[j])

(* Synapse gave a verdict: it did not shed load, fail to fetch the keys or *)
(* fail to answer.                                                         *)
Verdict(s) == s.status \notin {429, 502} /\ ~(s.status = 401 /\ s.body = "keys")

(* Enough of it was seen: the status decides, or the body was read.        *)
Readable(k, s, o) ==
  IF k \in ByDigest THEN ~Undigestible(s) ELSE s.status # Ours(o).status \/ s.whole

Ambiguous(k, s, o) == k \notin ByDigest /\ (o.cut \/ s.limit)

(* No reclassification hides a real disagreement: when Synapse gave a      *)
(* verdict that could be read, and there was one right answer, a different *)
(* one of ours is counted as a mismatch.                                   *)
DisagreementIsRecorded ==
  \A j \in Job :
    LET k == kind[j]  s == synapse[j]  o == ours[j] IN
    (/\ Judged(j) /\ ~Agreement(k, s, o)
     /\ Verdict(s) /\ Readable(k, s, o) /\ ~Ambiguous(k, s, o))
    => outcome[j] = "mismatch"

(* "We would have accepted what Synapse rejected on the merits.  This is   *)
(* the dangerous direction and must block promotion": it is always logged  *)
(* by a comparison that verifies.                                          *)
DangerousIsLogged ==
  \A j \in Job :
    (/\ Judged(j) /\ kind[j] \in Shadowed
     /\ kind[j] = "state" => synapse[j].whole
     /\ ours[j].auth = 200 /\ synapse[j].status = 401 /\ synapse[j].body = "signature")
    => authlog[j]

(* Where the body was captured, Synapse shedding load or failing to fetch  *)
(* keys never costs us a mismatch, unless we failed ourselves.             *)
NoVerdictNotCounted ==
  \A j \in Job :
    (/\ Judged(j) /\ kind[j] \notin ByDigest /\ Ours(ours[j]).status # 0
     /\ \/ synapse[j].status = 429
        \/ synapse[j].status = 401 /\ synapse[j].body = "keys" /\ synapse[j].whole)
    => outcome[j] # "mismatch"
=============================================================================
