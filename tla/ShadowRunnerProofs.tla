------------------------- MODULE ShadowRunnerProofs -------------------------
(***************************************************************************)
(* The verdicts of a comparison are what they claim, and no slot is lost,  *)
(* for any number of comparisons and slots: proofs checked by TLAPS.       *)
(***************************************************************************)
EXTENDS ShadowRunner, FiniteSetTheorems, TLAPS

(* What digestAccumulator relies on: answers with equal digests hold the   *)
(* same events.  The two theorems that need it say so.                     *)
NoCollision ==
  \A x, y \in DOMAIN StateBody :
    DigestsAgree(DigestStateResponse(StateBody[x]), DigestStateResponse(StateBody[y]))
      => SameEvents(StateBody[x], StateBody[y])

(* Every slot that is taken belongs to a comparison that runs.             *)
SlotsOK == IsFiniteSet(Running) /\ sem \in Nat /\ sem <= Concurrency /\ sem = Cardinality(Running)

(* The outcome of a finished comparison: it was not made, or it is the     *)
(* judgement of the two answers it was given.                              *)
VerdictOK(j) ==
  /\ at[j] = "idle" => outcome[j] = "none"
  /\ at[j] \in {"waiting", "running"} =>
       outcome[j] = "none" /\ Input(kind[j], synapse[j], ours[j])
  /\ at[j] = "finished" =>
       \/ outcome[j] \in {"busy", "busy_verify", "panic"}
       \/ /\ Input(kind[j], synapse[j], ours[j])
          /\ outcome[j] = Judge(kind[j], synapse[j], ours[j])
          /\ authlog[j] = VerifyOrigin(kind[j], synapse[j], ours[j])

FieldsOK ==
  /\ at \in [Job -> {"idle", "waiting", "running", "finished"}]
  /\ kind \in [Job -> Shadowed \cup Served]
  /\ synapse \in [Job -> Replies]
  /\ ours \in [Job -> Answers]
  /\ DOMAIN outcome = Job
  /\ DOMAIN authlog = Job

(* The inductive invariant.                                                *)
IInv == FieldsOK /\ SlotsOK /\ \A j \in Job : VerdictOK(j)

-----------------------------------------------------------------------------
(* The judgement, by entry point.                                          *)

(* What Synapse may answer.                                                *)
LEMMA ReplyFacts ==
  ASSUME NEW s \in Replies
  PROVE  /\ s.status \in {200, 401, 403, 404, 429, 502}
         /\ s.whole \in BOOLEAN /\ s.limit \in BOOLEAN
         /\ s.status = 200 => s.body \in DOMAIN StateBody \cup {"garbled"}
         /\ s.status = 401 => s.body \in {"keys", "signature"}
         /\ s.status \in {403, 404, 429, 502} => s.body = "error"
<1>1. CASE s \in [status : {200}, body : DOMAIN StateBody \cup {"garbled"}, whole : BOOLEAN, limit : BOOLEAN]
  BY <1>1
<1>2. CASE s \in [status : {401}, body : {"keys", "signature"}, whole : BOOLEAN, limit : {FALSE}]
  <2>1. s.limit \in {FALSE}
    BY <1>2
  <2>2. s.limit \in BOOLEAN /\ s.whole \in BOOLEAN
    BY <1>2, <2>1, Zenon
  <2>3. /\ s.status \in {200, 401, 403, 404, 429, 502} \ {200}
        /\ s.status = 401 => s.body \in {"keys", "signature"}
        /\ s.status \in {403, 404, 429, 502} => s.body = "error"
    BY <1>2
  <2> QED
    BY <2>2, <2>3
<1>3. CASE s \in [status : {403, 404, 429, 502}, body : {"error"}, whole : BOOLEAN, limit : {FALSE}]
  <2>1. s.limit \in {FALSE}
    BY <1>3
  <2>2. s.limit \in BOOLEAN /\ s.whole \in BOOLEAN
    BY <1>3, <2>1, Zenon
  <2>3. /\ s.status \in {200, 401, 403, 404, 429, 502} \ {200}
        /\ s.status = 401 => s.body \in {"keys", "signature"}
        /\ s.status \in {403, 404, 429, 502} => s.body = "error"
    BY <1>3
  <2> QED
    BY <2>2, <2>3
<1> QED
  BY <1>1, <1>2, <1>3 DEF Replies

(* What we may answer.                                                     *)
LEMMA AnswerFacts ==
  ASSUME NEW o \in Answers
  PROVE  /\ o.auth \in {200, 401} /\ o.status \in {0, 200, 403, 404}
         /\ o.status = 200 => o.auth = 200 /\ o.body \in {"a", "b"}
         /\ o.status # 200 => o.body = "error" /\ ~o.cut
         /\ o.auth # 200 => o.status = 0
         /\ o.cut \in BOOLEAN
<1>1. CASE o \in [auth : {200}, status : {200}, body : {"a", "b"}, cut : BOOLEAN]
  BY <1>1
<1>2. CASE o \in [auth : {200}, status : {0, 403, 404}, body : {"error"}, cut : {FALSE}]
  <2>1. o.cut \in {FALSE}
    BY <1>2
  <2>2. o.cut \in BOOLEAN /\ ~o.cut
    BY <2>1, Zenon
  <2>3. /\ o.auth \in {200, 401} /\ o.status \in {0, 403, 404} /\ o.body = "error"
        /\ o.auth # 200 => o.status = 0
    BY <1>2
  <2> QED
    BY <2>2, <2>3
<1>3. CASE o \in [auth : {401}, status : {0}, body : {"error"}, cut : {FALSE}]
  <2>1. o.cut \in {FALSE}
    BY <1>3
  <2>2. o.cut \in BOOLEAN /\ ~o.cut
    BY <2>1, Zenon
  <2>3. /\ o.auth \in {200, 401} /\ o.status \in {0, 403, 404} /\ o.body = "error"
        /\ o.auth # 200 => o.status = 0
    BY <1>3
  <2> QED
    BY <2>2, <2>3
<1> QED
  BY <1>1, <1>2, <1>3 DEF Answers

(* A garbled body is no state.                                             *)
LEMMA BodyNames == {"a", "b"} \subseteq DOMAIN StateBody /\ "garbled" \notin DOMAIN StateBody
BY DEF StateBody

(* What Finish can say, and when.                                          *)
LEMMA FinishFacts ==
  ASSUME NEW k \in Shadowed \cup Served, NEW s \in Replies, NEW o \in Answers, NEW p,
         p = Ours(o), p.status # 0
  PROVE  /\ Finish(k, s, p) = "match" =>
              s.status = p.status /\ (s.status = 200 => s.body = p.body)
         /\ s.status = p.status /\ s.status # 200 => Finish(k, s, p) = "match"
         /\ (/\ s.status # p.status /\ s.status # 429
             /\ ~(s.status = 401 /\ s.body = "keys")) => Finish(k, s, p) = "mismatch"
         /\ (/\ s.status = p.status /\ s.status = 200 /\ s.whole /\ s.body # p.body
             /\ ~p.cut /\ ~s.limit) => Finish(k, s, p) = "mismatch"
         /\ Finish(k, s, p) = "mismatch" => s.status # 429
         /\ Finish(k, s, p) = "mismatch" /\ k \notin ByDigest /\ p.status # 401 =>
              ~(s.status = 401 /\ s.body = "keys" /\ s.whole)
<1>1. s.status # p.status =>
        /\ Finish(k, s, p) \in {"upstream_key_fetch_failed", "upstream_rate_limited", "mismatch"}
        /\ Finish(k, s, p) = "mismatch" => s.status # 429 /\ ~(p.status # 401 /\ CouldNotFetchKeys(k, s))
        /\ s.status # 429 /\ ~CouldNotFetchKeys(k, s) => Finish(k, s, p) = "mismatch"
  <2>1. CASE s.status = 429
    BY <2>1 DEF Finish, CouldNotFetchKeys
  <2>2. CASE s.status # 429
    BY <2>2 DEF Finish
  <2> QED
    BY <2>1, <2>2
<1>2. s.status = p.status /\ s.status # 200 => Finish(k, s, p) = "match"
  BY DEF Finish
<1>3. s.status = p.status /\ s.status = 200 =>
        Finish(k, s, p) = IF ~s.whole THEN "truncated" ELSE Diff(s, p)
  BY DEF Finish
<1>4. /\ Diff(s, p) \in {"match", "mismatch", "walk_truncated"}
      /\ Diff(s, p) = "match" => s.body = p.body
      /\ s.body # p.body /\ ~p.cut /\ ~s.limit => Diff(s, p) = "mismatch"
  BY DEF Diff
<1> QED
  BY <1>1, <1>2, <1>3, <1>4, ReplyFacts DEF CouldNotFetchKeys

(* Go and CompareServed: the judgement is Finish's, unless we failed or    *)
(* Synapse did.                                                            *)
LEMMA BodyVerdict ==
  ASSUME NEW k \in {"shadow", "served"}, NEW s \in Replies, NEW o \in Answers, Input(k, s, o)
  PROVE  \/ k = "shadow" /\ Ours(o).status = 0 /\ Judge(k, s, o) = "mismatch"
         \/ k = "served" /\ s.status = 502 /\ Judge(k, s, o) = "upstream_unavailable"
         \/ Ours(o).status # 0 /\ Judge(k, s, o) = Finish(k, s, Ours(o))
<1>1. CASE k = "shadow"
  <2>1. Judge(k, s, o) = Run(s, o)
    BY <1>1 DEF Judge
  <2>2. CASE o.auth # 200
    <3>1. o.auth = 401 /\ Ours(o) = Rejection(o) /\ Ours(o).status = 401
      BY <2>2, AnswerFacts DEF Ours, Rejection
    <3>2. Run(s, o) = Finish("shadow", s, Rejection(o))
      BY <2>2 DEF Run
    <3> QED
      BY <1>1, <2>1, <3>1, <3>2
  <2>3. CASE o.auth = 200 /\ o.status = 0
    BY <1>1, <2>1, <2>3 DEF Run, Ours
  <2>4. CASE o.auth = 200 /\ o.status # 0
    BY <1>1, <2>1, <2>4 DEF Run, Ours
  <2> QED
    BY <2>2, <2>3, <2>4
<1>2. CASE k = "served"
  <2>1. Judge(k, s, o) = CompareServed(s, o)
    BY <1>2 DEF Judge
  <2>2. o.auth = 200 /\ o.status # 0 /\ Ours(o) = o
    BY <1>2 DEF Input, Served, Ours
  <2> QED
    BY <1>2, <2>1, <2>2 DEF CompareServed, Unavailable
<1> QED
  BY <1>1, <1>2

(* GoState and CompareStateServed: by status where one of them is no 200,  *)
(* by digest where both are.                                               *)
LEMMA DigestVerdict ==
  ASSUME NEW k \in ByDigest, NEW s \in Replies, NEW o \in Answers, Input(k, s, o)
  PROVE  \/ Undigestible(s) /\ Judge(k, s, o) = "upstream_undigestible"
         \/ s.status = 502 /\ Judge(k, s, o) = "upstream_unavailable"
         \/ /\ ~Undigestible(s) /\ s.status # 502
            /\ \/ Ours(o).status = 0 /\ Judge(k, s, o) = "mismatch"
               \/ /\ Ours(o).status # 0 /\ (s.status # 200 \/ Ours(o).status # 200)
                  /\ \/ Judge(k, s, o) = Finish(k, s, Ours(o))
                     \/ s.status # Ours(o).status /\ Judge(k, s, o) = "mismatch"
               \/ /\ s.status = 200 /\ Ours(o).status = 200 /\ Ours(o) = o
                  /\ Judge(k, s, o) = IF Agrees(s, o) THEN "match" ELSE "mismatch"
<1>1. CASE k = "state"
  <2>1. Judge(k, s, o) = CompareState(s, o)
    BY <1>1 DEF Judge
  <2>2. CASE Undigestible(s) \/ Unavailable(s)
    BY <2>1, <2>2 DEF CompareState, Unavailable
  <2>3. CASE ~Undigestible(s) /\ ~Unavailable(s)
    <3>0. s.status # 502
      BY <2>3 DEF Unavailable
    <3>1. CASE o.auth # 200
      <4>1. o.auth = 401 /\ Ours(o) = Rejection(o) /\ Ours(o).status = 401
        BY <3>1, AnswerFacts DEF Ours, Rejection
      <4>2. CompareState(s, o) = Finish("state", s, Rejection(o))
        BY <2>3, <3>1 DEF CompareState
      <4> QED
        BY <1>1, <2>1, <2>3, <3>0, <4>1, <4>2
    <3>2. CASE o.auth = 200 /\ o.status = 0
      BY <2>1, <2>3, <3>0, <3>2 DEF CompareState, Ours
    <3>3. CASE o.auth = 200 /\ o.status # 0 /\ (o.status # 200 \/ s.status # 200)
      <4>1. CompareState(s, o) = Finish("state", s, o) /\ Ours(o) = o
        BY <2>3, <3>3 DEF CompareState, Ours
      <4> QED
        BY <1>1, <2>1, <2>3, <3>0, <3>3, <4>1
    <3>4. CASE o.auth = 200 /\ o.status = 200 /\ s.status = 200
      <4>1. CompareState(s, o) = (IF Agrees(s, o) THEN "match" ELSE "mismatch") /\ Ours(o) = o
        BY <2>3, <3>4 DEF CompareState, Ours
      <4> QED
        BY <2>1, <2>3, <3>0, <3>4, <4>1
    <3> QED
      BY <3>1, <3>2, <3>3, <3>4
  <2> QED
    BY <2>2, <2>3
<1>2. CASE k = "stateServed"
  <2>1. Judge(k, s, o) = CompareStateServed(s, o)
    BY <1>2 DEF Judge
  <2>2. o.auth = 200 /\ o.status = 200 /\ Ours(o) = o
    BY <1>2 DEF Input, Served, Ours
  <2> QED
    BY <1>2, <2>1, <2>2 DEF CompareStateServed, Unavailable
<1> QED
  BY <1>1, <1>2 DEF ByDigest

(* Our answer after the check of the origin.                               *)
LEMMA OursFacts ==
  ASSUME NEW o \in Answers
  PROVE  /\ Ours(o).status \in {0, 200, 401, 403, 404}
         /\ Ours(o).status = 200 => Ours(o) = o /\ o.body \in {"a", "b"}
BY AnswerFacts DEF Ours, Rejection

(* Equal digests of two answers that could be read: they agree.            *)
LEMMA AgreesFacts ==
  ASSUME NoCollision, NEW k \in ByDigest, NEW s \in Replies, NEW o \in Answers,
         s.status = 200, Ours(o).status = 200, Agrees(s, o), ~Undigestible(s)
  PROVE  Agreement(k, s, o)
<1>1. s.body \in DOMAIN StateBody /\ s.body # "garbled"
  BY ReplyFacts DEF Undigestible
<1>2. o.body \in DOMAIN StateBody
  BY OursFacts, BodyNames
<1>3. SameEvents(StateBody[s.body], StateBody[o.body])
  BY <1>1, <1>2 DEF NoCollision, Agrees
<1> QED
  BY <1>1, <1>3 DEF Agreement

(* A pair judged to match agrees.                                          *)
LEMMA JudgeMatch ==
  ASSUME NoCollision, NEW k \in Shadowed \cup Served, NEW s \in Replies, NEW o \in Answers,
         Input(k, s, o), Judge(k, s, o) = "match"
  PROVE  Agreement(k, s, o)
<1>1. CASE k \in ByDigest
  <2>1. \/ Ours(o).status # 0 /\ Judge(k, s, o) = Finish(k, s, Ours(o))
        \/ s.status = 200 /\ Ours(o).status = 200 /\ Agrees(s, o) /\ ~Undigestible(s)
    BY <1>1, DigestVerdict
  <2>2. CASE Ours(o).status # 0 /\ Judge(k, s, o) = Finish(k, s, Ours(o))
    BY <2>2, FinishFacts DEF Agreement
  <2> QED
    BY <1>1, <2>1, <2>2, AgreesFacts
<1>2. CASE k \notin ByDigest
  <2>1. k \in {"shadow", "served"}
    BY <1>2 DEF ByDigest, Shadowed, Served
  <2>2. Ours(o).status # 0 /\ Judge(k, s, o) = Finish(k, s, Ours(o))
    BY <2>1, BodyVerdict
  <2> QED
    BY <2>2, FinishFacts DEF Agreement
<1> QED
  BY <1>1, <1>2

(* A pair that disagrees is judged a mismatch.                             *)
LEMMA JudgeDisagreement ==
  ASSUME NoCollision, NEW k \in Shadowed \cup Served, NEW s \in Replies, NEW o \in Answers,
         Input(k, s, o), ~Agreement(k, s, o), Verdict(s), Readable(k, s, o), ~Ambiguous(k, s, o)
  PROVE  Judge(k, s, o) = "mismatch"
<1>1. s.status # 429 /\ s.status # 502 /\ ~(s.status = 401 /\ s.body = "keys")
  BY DEF Verdict
<1>2. ASSUME s.status = Ours(o).status
      PROVE  s.status = 200 /\ s.body # Ours(o).body
  BY <1>2 DEF Agreement
<1>3. ASSUME Ours(o).status # 0, s.status # Ours(o).status
      PROVE  Finish(k, s, Ours(o)) = "mismatch"
  BY <1>1, <1>3, FinishFacts
<1>4. CASE k \in ByDigest
  <2>1. ~Undigestible(s)
    BY <1>4 DEF Readable
  <2>2. \/ Judge(k, s, o) = "mismatch"
        \/ /\ Ours(o).status # 0 /\ (s.status # 200 \/ Ours(o).status # 200)
           /\ Judge(k, s, o) = Finish(k, s, Ours(o))
        \/ s.status = 200 /\ Ours(o).status = 200 /\ Agrees(s, o)
    BY <1>1, <1>4, <2>1, DigestVerdict
  <2>3. ~(s.status = 200 /\ Ours(o).status = 200 /\ Agrees(s, o))
    BY <1>4, <2>1, AgreesFacts
  <2> QED
    BY <1>2, <1>3, <2>2, <2>3
<1>5. CASE k \notin ByDigest
  <2>1. k \in {"shadow", "served"}
    BY <1>5 DEF ByDigest, Shadowed, Served
  <2>2. \/ Judge(k, s, o) = "mismatch"
        \/ Ours(o).status # 0 /\ Judge(k, s, o) = Finish(k, s, Ours(o))
    BY <1>1, <2>1, BodyVerdict
  <2>3. ASSUME Ours(o).status # 0, s.status = Ours(o).status
        PROVE  Finish(k, s, Ours(o)) = "mismatch"
    <3>1. s.status = 200 /\ s.body # Ours(o).body /\ Ours(o) = o
      BY <1>2, <2>3, OursFacts
    <3>2. s.whole /\ ~o.cut /\ ~s.limit
      BY <1>5, <2>3 DEF Readable, Ambiguous
    <3>3. Diff(s, o) = "mismatch"
      BY <3>1, <3>2 DEF Diff
    <3>4. Finish(k, s, o) = Diff(s, o)
      BY <2>3, <3>1, <3>2 DEF Finish
    <3> QED
      BY <3>1, <3>3, <3>4
  <2> QED
    BY <1>3, <2>2, <2>3
<1> QED
  BY <1>4, <1>5

(* Where Synapse gave no verdict there is no mismatch.                     *)
LEMMA JudgeNoVerdict ==
  ASSUME NEW k \in (Shadowed \cup Served) \ ByDigest, NEW s \in Replies, NEW o \in Answers,
         Input(k, s, o), Ours(o).status # 0,
         s.status = 429 \/ (s.status = 401 /\ s.body = "keys" /\ s.whole)
  PROVE  Judge(k, s, o) # "mismatch"
<1>1. k \in {"shadow", "served"}
  BY DEF ByDigest, Shadowed, Served
<1>2. \/ Judge(k, s, o) = "upstream_unavailable"
      \/ Judge(k, s, o) = Finish(k, s, Ours(o))
  BY <1>1, BodyVerdict
<1>3. Finish(k, s, Ours(o)) # "mismatch"
  <2>1. CASE s.status = 429
    BY <2>1, FinishFacts
  <2>2. CASE s.status = 401 /\ s.body = "keys" /\ s.whole
    BY <2>2, FinishFacts
  <2> QED
    BY <2>1, <2>2
<1> QED
  BY <1>2, <1>3

(* A judgement is never one of the outcomes of a comparison not made.      *)
LEMMA JudgeIsNotBusy ==
  ASSUME NEW k \in Shadowed \cup Served, NEW s \in Replies, NEW o \in Answers, Input(k, s, o)
  PROVE  Judge(k, s, o) # "busy"
<1>1. Diff(s, Ours(o)) # "busy"
  BY DEF Diff
<1>2. Finish(k, s, Ours(o)) # "busy"
  BY <1>1 DEF Finish
<1>3. CASE k \in ByDigest
  BY <1>2, <1>3, DigestVerdict
<1>4. CASE k \notin ByDigest
  <2>1. k \in {"shadow", "served"}
    BY <1>4 DEF ByDigest, Shadowed, Served
  <2> QED
    BY <1>2, <2>1, BodyVerdict
<1> QED
  BY <1>3, <1>4

-----------------------------------------------------------------------------
(* The invariant is inductive.                                             *)

(* The answers of a comparison not begun.                                  *)
LEMMA BlankAnswers ==
  (CHOOSE s \in Replies : TRUE) \in Replies /\ (CHOOSE o \in Answers : TRUE) \in Answers
<1>1. (CHOOSE s \in Replies : TRUE) \in Replies
  <2>1. [status |-> 403, body |-> "error", whole |-> TRUE, limit |-> FALSE] \in Replies
    BY DEF Replies
  <2> QED
    BY <2>1
<1>2. (CHOOSE o \in Answers : TRUE) \in Answers
  <2>1. [auth |-> 401, status |-> 0, body |-> "error", cut |-> FALSE] \in Answers
    BY DEF Answers
  <2> QED
    BY <2>1
<1> QED
  BY <1>1, <1>2

(* The invariant holds at the start.                                       *)
LEMMA InitIInv == Init => IInv
<1> SUFFICES ASSUME Init PROVE IInv
  OBVIOUS
<1>3. FieldsOK
  BY BlankAnswers DEF Init, FieldsOK, Shadowed
<1>4. Running = {}
  BY DEF Init, Running
<1>5. SlotsOK
  BY <1>4, FS_EmptySet, ConcurrencyAssumption DEF Init, SlotsOK
<1>6. \A j \in Job : VerdictOK(j)
  BY DEF Init, VerdictOK
<1> QED
  BY <1>3, <1>5, <1>6 DEF IInv

(* What a step of j leaves of the others.                                  *)
LEMMA OthersKept ==
  ASSUME IInv, NEW j \in Job, FieldsOK',
         \A i \in Job \ {j} :
           /\ at'[i] = at[i] /\ kind'[i] = kind[i] /\ synapse'[i] = synapse[i]
           /\ ours'[i] = ours[i] /\ outcome'[i] = outcome[i] /\ authlog'[i] = authlog[i],
         SlotsOK', VerdictOK(j)'
  PROVE  IInv'
<1>1. ASSUME NEW i \in Job \ {j} PROVE VerdictOK(i)'
  <2>1. VerdictOK(i)
    BY DEF IInv
  <2>2. /\ at'[i] = at[i] /\ kind'[i] = kind[i] /\ synapse'[i] = synapse[i]
        /\ ours'[i] = ours[i] /\ outcome'[i] = outcome[i] /\ authlog'[i] = authlog[i]
    OBVIOUS
  <2> QED
    BY <2>1, <2>2 DEF VerdictOK
<1> QED
  BY <1>1 DEF IInv

(* The slots, when a comparison starts to run, stops, or does neither.     *)
LEMMA SlotTaken ==
  ASSUME SlotsOK, FieldsOK, NEW j \in Job, at[j] # "running", sem < Concurrency,
         at' = [at EXCEPT ![j] = "running"], sem' = sem + 1
  PROVE  SlotsOK'
<1>1. Running' = Running \cup {j} /\ j \notin Running
  BY DEF Running, FieldsOK
<1> QED
  BY <1>1, FS_AddElement, ConcurrencyAssumption DEF SlotsOK

(* A comparison that ends gives its slot back.                             *)
LEMMA SlotFreed ==
  ASSUME SlotsOK, FieldsOK, NEW j \in Job, NEW to \in {"finished"}, at[j] = "running",
         at' = [at EXCEPT ![j] = to], sem' = sem - 1
  PROVE  SlotsOK'
<1>1. Running' = Running \ {j} /\ j \in Running
  BY DEF Running, FieldsOK
<1>2. /\ IsFiniteSet(Running') /\ Cardinality(Running') = Cardinality(Running) - 1
      /\ Cardinality(Running') \in Nat
  BY <1>1, FS_RemoveElement, FS_CardinalityType DEF SlotsOK
<1> QED
  BY <1>2, ConcurrencyAssumption DEF SlotsOK

(* One that does not run has none to give.                                 *)
LEMMA SlotKept ==
  ASSUME SlotsOK, FieldsOK, NEW j \in Job, NEW to \in {"idle", "waiting", "finished"},
         at[j] # "running", at' = [at EXCEPT ![j] = to], sem' = sem
  PROVE  SlotsOK'
<1>1. Running' = Running
  BY DEF Running, FieldsOK
<1> QED
  BY <1>1 DEF SlotsOK

(* What a comparison is given.                                             *)
LEMMA GivenFacts ==
  ASSUME FieldsOK, NEW j \in Job, Given(j)
  PROVE  /\ kind' \in [Job -> Shadowed \cup Served] /\ synapse' \in [Job -> Replies]
         /\ ours' \in [Job -> Answers]
         /\ Input(kind'[j], synapse'[j], ours'[j])
         /\ \A i \in Job \ {j} : kind'[i] = kind[i] /\ synapse'[i] = synapse[i] /\ ours'[i] = ours[i]
<1>1. PICK k \in Shadowed \cup Served, s \in Replies, o \in Answers :
        /\ Input(k, s, o)
        /\ kind' = [kind EXCEPT ![j] = k]
        /\ synapse' = [synapse EXCEPT ![j] = s]
        /\ ours' = [ours EXCEPT ![j] = o]
  BY DEF Given
<1>2. kind'[j] = k /\ synapse'[j] = s /\ ours'[j] = o
  BY <1>1 DEF FieldsOK
<1>3. Input(kind'[j], synapse'[j], ours'[j])
  BY <1>1, <1>2
<1> QED
  BY <1>1, <1>3 DEF FieldsOK

(* A comparison starts, or waits for a slot.                               *)
LEMMA Starts ==
  ASSUME IInv, NEW j \in Job, TakeSlot(j) \/ WaitForSlot(j)
  PROVE  IInv'
<1> USE DEF IInv
<1>1. PICK to \in {"running", "waiting"} :
        at[j] = "idle" /\ at' = [at EXCEPT ![j] = to] /\ Given(j) /\ outcome' = outcome /\ authlog' = authlog
  BY DEF TakeSlot, WaitForSlot, Move
<1>2. FieldsOK'
  BY <1>1, GivenFacts DEF FieldsOK
<1>3. VerdictOK(j)'
  <2>1. at'[j] = to /\ outcome'[j] = "none"
    BY <1>1 DEF FieldsOK, VerdictOK
  <2>2. Input(kind'[j], synapse'[j], ours'[j])
    BY <1>1, GivenFacts
  <2> QED
    BY <2>1, <2>2 DEF VerdictOK
<1>4. SlotsOK'
  <2>1. CASE TakeSlot(j)
    BY <2>1, SlotTaken DEF TakeSlot, Move
  <2>2. CASE WaitForSlot(j)
    BY <2>2, SlotKept DEF WaitForSlot, Move
  <2> QED
    BY <2>1, <2>2
<1>5. \A i \in Job \ {j} :
        /\ at'[i] = at[i] /\ kind'[i] = kind[i] /\ synapse'[i] = synapse[i]
        /\ ours'[i] = ours[i] /\ outcome'[i] = outcome[i] /\ authlog'[i] = authlog[i]
  BY <1>1, GivenFacts DEF FieldsOK
<1> QED
  BY <1>2, <1>3, <1>4, <1>5, OthersKept

(* One is dropped for want of a slot.                                      *)
LEMMA Dropped ==
  ASSUME IInv, NEW j \in Job, DropBusy(j)
  PROVE  IInv'
<1> USE DEF IInv
<1>1. /\ at[j] = "idle" /\ at' = [at EXCEPT ![j] = "finished"] /\ Given(j)
      /\ outcome' = [outcome EXCEPT ![j] = "busy"] /\ authlog' = authlog /\ sem' = sem
  BY DEF DropBusy, Move
<1>2. FieldsOK'
  BY <1>1, GivenFacts DEF FieldsOK
<1>3. VerdictOK(j)'
  BY <1>1 DEF VerdictOK, FieldsOK
<1>4. SlotsOK'
  BY <1>1, SlotKept
<1>5. \A i \in Job \ {j} :
        /\ at'[i] = at[i] /\ kind'[i] = kind[i] /\ synapse'[i] = synapse[i]
        /\ ours'[i] = ours[i] /\ outcome'[i] = outcome[i] /\ authlog'[i] = authlog[i]
  BY <1>1, GivenFacts DEF FieldsOK
<1> QED
  BY <1>2, <1>3, <1>4, <1>5, OthersKept

(* One that waited gets a slot.                                            *)
LEMMA GetsSlot ==
  ASSUME IInv, NEW j \in Job, GetSlot(j)
  PROVE  IInv'
<1> USE DEF IInv
<1>1. /\ at[j] = "waiting" /\ at' = [at EXCEPT ![j] = "running"]
      /\ UNCHANGED <<kind, synapse, ours, outcome, authlog>>
  BY DEF GetSlot, Move
<1>2. FieldsOK'
  BY <1>1 DEF FieldsOK
<1>3. VerdictOK(j)'
  <2>1. at'[j] = "running" /\ VerdictOK(j)
    BY <1>1 DEF FieldsOK
  <2> QED
    BY <1>1, <2>1 DEF VerdictOK
<1>4. SlotsOK'
  BY <1>1, SlotTaken DEF GetSlot
<1>5. \A i \in Job \ {j} : at'[i] = at[i]
  BY <1>1 DEF FieldsOK
<1> QED
  BY <1>1, <1>2, <1>3, <1>4, <1>5, OthersKept

(* The verifier's timer, and a panic: no judgement is passed.              *)
LEMMA GivenUp ==
  ASSUME IInv, NEW j \in Job, TimeOut(j) \/ Panic(j)
  PROVE  IInv'
<1> USE DEF IInv
<1>1. PICK v \in {"busy_verify", "panic"} :
        /\ at[j] \in {"waiting", "running"} /\ at' = [at EXCEPT ![j] = "finished"]
        /\ outcome' = [outcome EXCEPT ![j] = v]
        /\ UNCHANGED <<kind, synapse, ours, authlog>>
  BY DEF TimeOut, Panic, Move
<1>2. FieldsOK'
  BY <1>1 DEF FieldsOK
<1>3. VerdictOK(j)'
  <2>1. at'[j] = "finished" /\ outcome'[j] = v
    BY <1>1 DEF FieldsOK
  <2> QED
    BY <2>1 DEF VerdictOK
<1>4. SlotsOK'
  <2>1. CASE TimeOut(j)
    BY <2>1, SlotKept DEF TimeOut, Move
  <2>2. CASE Panic(j)
    BY <2>2, SlotFreed DEF Panic, Move
  <2> QED
    BY <2>1, <2>2
<1>5. \A i \in Job \ {j} : at'[i] = at[i] /\ outcome'[i] = outcome[i]
  BY <1>1 DEF FieldsOK
<1> QED
  BY <1>1, <1>2, <1>3, <1>4, <1>5, OthersKept

(* The two answers are judged.                                             *)
LEMMA Compared ==
  ASSUME IInv, NEW j \in Job, Compare(j)
  PROVE  IInv'
<1> USE DEF IInv
<1>1. /\ at[j] = "running" /\ at' = [at EXCEPT ![j] = "finished"]
      /\ outcome' = [outcome EXCEPT ![j] = Judge(kind[j], synapse[j], ours[j])]
      /\ authlog' = [authlog EXCEPT ![j] = VerifyOrigin(kind[j], synapse[j], ours[j])]
      /\ sem' = sem - 1 /\ UNCHANGED <<kind, synapse, ours>>
  BY DEF Compare, Move
<1>2. FieldsOK'
  BY <1>1 DEF FieldsOK
<1>3. VerdictOK(j)'
  <2>1. Input(kind[j], synapse[j], ours[j])
    BY <1>1 DEF VerdictOK
  <2>2. /\ at'[j] = "finished" /\ outcome'[j] = Judge(kind[j], synapse[j], ours[j])
        /\ kind' = kind /\ synapse' = synapse /\ ours' = ours
    BY <1>1 DEF FieldsOK
  <2>3. authlog'[j] = VerifyOrigin(kind[j], synapse[j], ours[j])
    BY <1>1, Zenon DEF FieldsOK
  <2> QED
    BY <2>1, <2>2, <2>3 DEF VerdictOK
<1>4. SlotsOK'
  BY <1>1, SlotFreed
<1>5. \A i \in Job \ {j} : at'[i] = at[i] /\ outcome'[i] = outcome[i] /\ authlog'[i] = authlog[i]
  BY <1>1 DEF FieldsOK
<1> QED
  BY <1>1, <1>2, <1>3, <1>4, <1>5, OthersKept

(* A comparison is done with.                                              *)
LEMMA Retired ==
  ASSUME IInv, NEW j \in Job, Retire(j)
  PROVE  IInv'
<1> USE DEF IInv
<1>1. PICK s \in Replies, o \in Answers :
        /\ at[j] = "finished" /\ at' = [at EXCEPT ![j] = "idle"] /\ sem' = sem
        /\ kind' = [kind EXCEPT ![j] = "shadow"]
        /\ synapse' = [synapse EXCEPT ![j] = s] /\ ours' = [ours EXCEPT ![j] = o]
        /\ outcome' = [outcome EXCEPT ![j] = "none"]
        /\ authlog' = [authlog EXCEPT ![j] = FALSE]
  BY BlankAnswers DEF Retire, Move
<1>2. FieldsOK'
  BY <1>1 DEF FieldsOK, Shadowed
<1>3. VerdictOK(j)'
  BY <1>1 DEF VerdictOK, FieldsOK
<1>4. SlotsOK'
  BY <1>1, SlotKept
<1>5. \A i \in Job \ {j} :
        /\ at'[i] = at[i] /\ kind'[i] = kind[i] /\ synapse'[i] = synapse[i]
        /\ ours'[i] = ours[i] /\ outcome'[i] = outcome[i] /\ authlog'[i] = authlog[i]
  BY <1>1 DEF FieldsOK
<1> QED
  BY <1>2, <1>3, <1>4, <1>5, OthersKept

(* The invariant holds in every reachable state.                           *)
LEMMA Inductive == Spec => []IInv
<1>1. ASSUME IInv, [Next]_vars PROVE IInv'
  <2>1. CASE UNCHANGED vars
    <3>1. FieldsOK' /\ SlotsOK'
      BY <2>1, <1>1 DEF vars, IInv, FieldsOK, SlotsOK, Running
    <3>2. \A j \in Job : VerdictOK(j)'
      BY <2>1, <1>1 DEF vars, IInv, VerdictOK
    <3> QED
      BY <3>1, <3>2 DEF IInv
  <2>2. ASSUME NEW j \in Job,
               TakeSlot(j) \/ DropBusy(j) \/ WaitForSlot(j) \/ GetSlot(j) \/ TimeOut(j)
               \/ Compare(j) \/ Panic(j) \/ Retire(j)
        PROVE  IInv'
    BY <1>1, <2>2, Starts, Dropped, GetsSlot, GivenUp, Compared, Retired
  <2> QED
    BY <1>1, <2>1, <2>2 DEF Next
<1> QED
  BY InitIInv, <1>1, PTL DEF Spec

-----------------------------------------------------------------------------
(* "A failure to compare is recorded as a skip rather than as agreement":  *)
(* finish and the state comparisons count a match only where Synapse's     *)
(* answer and ours agree, if the digest does not collide.                  *)
THEOREM MatchesAgree == NoCollision => (Spec => []MatchMeansAgreement)
<1> SUFFICES ASSUME NoCollision PROVE Spec => []MatchMeansAgreement
  OBVIOUS
<1>1. IInv => MatchMeansAgreement
  <2> SUFFICES ASSUME IInv, NEW j \in Job, outcome[j] = "match"
               PROVE  Agreement(kind[j], synapse[j], ours[j])
    BY DEF MatchMeansAgreement
  <2>1. VerdictOK(j) /\ at[j] \in {"idle", "waiting", "running", "finished"}
    BY DEF IInv, FieldsOK
  <2>2. Input(kind[j], synapse[j], ours[j]) /\ Judge(kind[j], synapse[j], ours[j]) = "match"
    BY <2>1 DEF VerdictOK
  <2>3. kind[j] \in Shadowed \cup Served /\ synapse[j] \in Replies /\ ours[j] \in Answers
    BY DEF IInv, FieldsOK
  <2> QED
    BY <2>2, <2>3, JudgeMatch
<1> QED
  BY Inductive, <1>1, PTL

(* No rule of finish, run, compareState or CompareStateServed hides a      *)
(* disagreement: what Synapse said, when it was a verdict, could be read   *)
(* and was the only right answer, and ours is another, is a mismatch.      *)
THEOREM DisagreementsAreSeen == NoCollision => (Spec => []DisagreementIsRecorded)
<1> SUFFICES ASSUME NoCollision PROVE Spec => []DisagreementIsRecorded
  OBVIOUS
<1>1. IInv => DisagreementIsRecorded
  <2> SUFFICES ASSUME IInv, NEW j \in Job, Judged(j), ~Agreement(kind[j], synapse[j], ours[j]),
                      Verdict(synapse[j]), Readable(kind[j], synapse[j], ours[j]),
                      ~Ambiguous(kind[j], synapse[j], ours[j])
               PROVE  outcome[j] = "mismatch"
    BY DEF DisagreementIsRecorded
  <2>1. VerdictOK(j)
    BY DEF IInv
  <2>2. Input(kind[j], synapse[j], ours[j]) /\ outcome[j] = Judge(kind[j], synapse[j], ours[j])
    BY <2>1 DEF VerdictOK, Judged, Unverdicts
  <2>3. kind[j] \in Shadowed \cup Served /\ synapse[j] \in Replies /\ ours[j] \in Answers
    BY DEF IInv, FieldsOK
  <2> QED
    BY <2>2, <2>3, JudgeDisagreement
<1> QED
  BY Inductive, <1>1, PTL

(* "The dangerous direction and must block promotion": verifyOrigin logs   *)
(* every request whose signature we accept and Synapse rejects.            *)
THEOREM AcceptanceIsLogged == Spec => []DangerousIsLogged
<1>1. IInv => DangerousIsLogged
  <2> SUFFICES ASSUME IInv, NEW j \in Job, Judged(j), kind[j] \in Shadowed,
                      kind[j] = "state" => synapse[j].whole,
                      ours[j].auth = 200, synapse[j].status = 401, synapse[j].body = "signature"
               PROVE  authlog[j]
    BY DEF DangerousIsLogged
  <2>1. VerdictOK(j)
    BY DEF IInv
  <2>2. authlog[j] = VerifyOrigin(kind[j], synapse[j], ours[j])
    BY <2>1 DEF VerdictOK, Judged, Unverdicts
  <2>3. ~CouldNotFetchKeys(kind[j], synapse[j])
    BY DEF CouldNotFetchKeys
  <2>4. Verifies(kind[j], synapse[j])
    BY DEF Verifies, Shadowed, Undigestible, Unavailable
  <2>5. VerifyOrigin(kind[j], synapse[j], ours[j])
    BY <2>3, <2>4 DEF VerifyOrigin
  <2> QED
    BY <2>2, <2>5, Zenon
<1> QED
  BY Inductive, <1>1, PTL

(* finish: Synapse shedding load, or failing to fetch the origin's keys,   *)
(* is never held against an answer of ours.                                *)
THEOREM SheddingIsNoMismatch == Spec => []NoVerdictNotCounted
<1>1. IInv => NoVerdictNotCounted
  <2> SUFFICES ASSUME IInv, NEW j \in Job, Judged(j), kind[j] \notin ByDigest,
                      Ours(ours[j]).status # 0,
                      \/ synapse[j].status = 429
                      \/ synapse[j].status = 401 /\ synapse[j].body = "keys" /\ synapse[j].whole
               PROVE  outcome[j] # "mismatch"
    BY DEF NoVerdictNotCounted
  <2>1. VerdictOK(j)
    BY DEF IInv
  <2>2. Input(kind[j], synapse[j], ours[j]) /\ outcome[j] = Judge(kind[j], synapse[j], ours[j])
    BY <2>1 DEF VerdictOK, Judged, Unverdicts
  <2>3. kind[j] \in (Shadowed \cup Served) \ ByDigest /\ synapse[j] \in Replies /\ ours[j] \in Answers
    BY DEF IInv, FieldsOK
  <2> QED
    BY <2>2, <2>3, JudgeNoVerdict
<1> QED
  BY Inductive, <1>1, PTL

(* Go drops a comparison only while the semaphore's slots are all in use   *)
(* by comparisons that run: the deferred receive frees a slot after a      *)
(* panic too, and none is freed by one that never had it.                  *)
THEOREM BusyIsBusy == Spec => BusyMeansBusy
<1>1. ASSUME IInv, IInv', [Next]_vars
      PROVE  [/\ Cardinality(Running') <= Concurrency
              /\ (\E j \in Job : outcome'[j] = "busy" /\ outcome[j] # "busy")
                   => Cardinality(Running) = Concurrency]_vars
  <2>1. Cardinality(Running') <= Concurrency
    BY <1>1 DEF IInv, SlotsOK
  <2>2. ASSUME NEW j \in Job, outcome'[j] = "busy", outcome[j] # "busy", Next
        PROVE  Cardinality(Running) = Concurrency
    <3>1. PICK i \in Job : TakeSlot(i) \/ DropBusy(i) \/ WaitForSlot(i) \/ GetSlot(i) \/ TimeOut(i)
                           \/ Compare(i) \/ Panic(i) \/ Retire(i)
      BY <2>2 DEF Next
    <3>2. CASE DropBusy(i)
      BY <1>1, <3>2 DEF DropBusy, IInv, SlotsOK
    <3>3. CASE Compare(i)
      <4>1. outcome'[j] = Judge(kind[i], synapse[i], ours[i])
        BY <1>1, <2>2, <3>3 DEF Compare, IInv, FieldsOK
      <4>2. Judge(kind[i], synapse[i], ours[i]) # "busy"
        <5>1. at[i] = "running" /\ Input(kind[i], synapse[i], ours[i])
          BY <1>1, <3>3 DEF Compare, Move, IInv, VerdictOK
        <5> QED
          BY <5>1, <1>1, JudgeIsNotBusy DEF IInv, FieldsOK
      <4> QED
        BY <2>2, <4>1, <4>2
    <3>4. CASE TakeSlot(i) \/ WaitForSlot(i) \/ GetSlot(i)
      BY <2>2, <3>4 DEF TakeSlot, WaitForSlot, GetSlot
    <3>5. CASE TimeOut(i) \/ Panic(i) \/ Retire(i)
      BY <1>1, <2>2, <3>5 DEF TimeOut, Panic, Retire, IInv, FieldsOK
    <3> QED
      BY <3>1, <3>2, <3>3, <3>4, <3>5
  <2> QED
    BY <1>1, <2>1, <2>2
<1> QED
  BY Inductive, <1>1, PTL DEF BusyMeansBusy, Spec
=============================================================================
