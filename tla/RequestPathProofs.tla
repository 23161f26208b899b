------------------------- MODULE RequestPathProofs -------------------------
(***************************************************************************)
(* One answer per request, nobody forgotten, and the slot back before      *)
(* Synapse is asked, for any number of requests, origins, endpoints and    *)
(* limits: proofs checked by TLAPS.                                        *)
(***************************************************************************)
EXTENDS RequestPath, Sequences, SequencesExt, SequenceTheorems, TLAPS

(* The types of what the proofs speak of.                                  *)
OwnTypeOK ==
  /\ phase \in [Req -> Phases]
  /\ mode \in [Req -> Modes]
  /\ kind \in [Req -> Kinds]
  /\ wrote \in [Req -> Writes]
  /\ hungup \in [Req -> BOOLEAN]
  /\ asked \in [Req -> 0 .. 3]
  /\ compared \in [Req -> {"no", "shadow", "served"}]
  /\ passes \in [Req -> 0 .. 2]
  /\ digester \in [Req -> {"none", "reading", "draining", "done"}]

(* What of the limiter's state the handler's correctness rests on: a slot  *)
(* is handed to nobody but a request that waits for it.                    *)
LimiterOK ==
  /\ hosts \in [Host -> Inst \cup {NoInst}]
  /\ waiters \in [Inst -> Seq(Req)]
  /\ pc \in [Req -> RL!Place]
  /\ inst \in [Req -> Inst \cup {NoInst}]
  /\ gone \in [Req -> BOOLEAN]
  /\ \A r \in Req : pc[r] # "out" => inst[r] \in Inst
  /\ \A i \in Inst : \A k \in 1 .. Len(waiters[i]) :
       /\ pc[waiters[i][k]] \in RL!Waiting
       /\ inst[waiters[i][k]] = i
       /\ \A l \in 1 .. Len(waiters[i]) : waiters[i][l] = waiters[i][k] => k = l

(* Where the handler is and where the limiter has its goroutine.           *)
Coupled(r) ==
  /\ phase[r] = "limiter" => pc[r] \notin {"out", "running"}
  /\ phase[r] \in {"native", "committed", "served", "failed", "panicked"} => pc[r] = "running"
  /\ phase[r] \in {"idle", "proxy", "forward", "drain", "done"} => pc[r] = "out"
  /\ phase[r] = "aborted" => pc[r] \in {"out", "running"}

(* The limiter gives up on a client only if it has gone.                   *)
Departed(r) ==
  /\ gone[r] => hungup[r]
  /\ pc[r] \in {"leaving", "returning"} => gone[r]
  /\ pc[r] = "out" => ~gone[r]

(* What has been written, asked and compared, by where the handler is.     *)
Untouched(r) ==
  wrote[r] = "nothing" /\ asked[r] = 0 /\ compared[r] = "no" /\ digester[r] = "none"

(* An answer of ours: verified if it is to be, and for nothing otherwise.  *)
ServedOK(r) ==
  /\ wrote[r] \in {"native", "error"}
  /\ digester[r] = "none"
  /\ \/ compared[r] = "no" /\ asked[r] = 0
     \/ compared[r] = "served" /\ Verifies(r)
  /\ Verifies(r) /\ (wrote[r] = "native" \/ kind[r] = "buffered") => compared[r] = "served"

(* An answer of Synapse's, the digester's pipe having been closed.         *)
ForwardedOK(r) ==
  /\ wrote[r] \in {"upstream", "502", "nothing"}
  /\ wrote[r] = "nothing" => hungup[r]

Progress(r) ==
  /\ asked[r] <= 1 + passes[r]
  /\ passes[r] > 0 => kind[r] = "streamed" /\ compared[r] # "no"
  /\ phase[r] \in {"idle", "limiter", "native", "failed", "proxy", "panicked"} => Untouched(r)
  /\ phase[r] = "committed" =>
       kind[r] = "streamed" /\ wrote[r] = "part" /\ asked[r] = 0
       /\ compared[r] = "no" /\ digester[r] = "none"
  /\ phase[r] = "served" => ServedOK(r)
  /\ phase[r] = "forward" =>
       wrote[r] = "nothing" /\ compared[r] = "no"
       /\ digester[r] = IF HasSink(r) THEN "reading" ELSE "none"
  /\ phase[r] = "drain" =>
       ForwardedOK(r) /\ compared[r] = "no" /\ digester[r] \in {"draining", "done"}
  /\ phase[r] = "done" =>
       \/ wrote[r] = "nothing" /\ hungup[r] /\ Untouched(r)
       \/ wrote[r] \in {"429", "badbody"} /\ asked[r] = 0 /\ compared[r] = "no" /\ digester[r] = "none"
       \/ ServedOK(r)
       \/ /\ ForwardedOK(r) /\ digester[r] \in {"none", "done"}
          /\ compared[r] = "no" \/ (compared[r] = "shadow" /\ wrote[r] = "upstream")
  /\ phase[r] = "aborted" =>
       /\ compared[r] = "no"
       /\ \/ wrote[r] = "part" /\ asked[r] = 0 /\ digester[r] = "none"
          \/ wrote[r] = "upstreampart" /\ digester[r] \in {"none", "reading"}

(* The inductive invariant.                                                *)
IInv ==
  /\ OwnTypeOK
  /\ LimiterOK
  /\ \A r \in Req : Coupled(r) /\ Departed(r) /\ Progress(r)

-----------------------------------------------------------------------------
(* The limiter.                                                            *)

(* The handler uses the limiter as it is meant to be used: every step is   *)
(* one of RateLimit's, or does not touch it.                               *)
LEMMA LimiterStep == [Next]_vars => [RL!Next]_(RL!vars)
<1> SUFFICES ASSUME [Next]_vars PROVE [RL!Next]_(RL!vars)
  OBVIOUS
<1> USE DEF RL!vars, limiter
<1>1. CASE UNCHANGED vars
  BY <1>1 DEF vars
<1>2. CASE Housekeeping
  BY <1>2 DEF Housekeeping, RL!Next
<1>3. ASSUME NEW r \in Req, ServeHTTP(r) \/ RefuseBody(r) \/ HangUp(r) \/ Retire(r)
      PROVE  [RL!Next]_(RL!vars)
  BY <1>3 DEF ServeHTTP, RefuseBody, HangUp, Retire, RL!Next
<1>4. ASSUME NEW r \in Req, Limited(r) \/ LimiterCanceled(r) \/ Acquired(r) \/ InLimiter(r)
      PROVE  [RL!Next]_(RL!vars)
  BY <1>4 DEF Limited, LimiterCanceled, Acquired, InLimiter, RL!Next, RL!Acquire
<1>5. ASSUME NEW r \in Req, ReleaseServed(r) \/ ReleaseFailed(r)
      PROVE  [RL!Next]_(RL!vars)
  BY <1>5 DEF ReleaseServed, ReleaseFailed, RL!Next
<1>6. ASSUME NEW r \in Req,
             \/ NativeFails(r) \/ NativePanics(r)
             \/ NativeAnswers(r) \/ StreamRefuses(r) \/ StreamCommits(r)
             \/ StreamCompletes(r) \/ StreamAborts(r) \/ SkipUpstream(r) \/ Forward(r)
             \/ ForwardCompletes(r) \/ ForwardFails(r) \/ ForwardCanceled(r)
             \/ ForwardAborts(r) \/ DigesterEnds(r) \/ Digested(r) \/ Diagnose(r)
      PROVE  UNCHANGED RL!vars
  BY <1>6 DEF NativeFails, NativePanics, Diagnose, NativeAnswers, StreamRefuses, StreamCommits, StreamCompletes,
     StreamAborts, SkipUpstream, Forward, ForwardCompletes, ForwardFails, ForwardCanceled,
     ForwardAborts, DigesterEnds, Digested
<1> QED
  BY <1>1, <1>2, <1>3, <1>4, <1>5, <1>6 DEF Next, Serve

(* What a step of r's goroutine may do to the limiter's view of the others: *)
(* hand one of them the slot it waits for.                                 *)
OthersKeep(r) ==
  \A q \in Req \ {r} :
    /\ gone'[q] = gone[q]
    /\ \/ pc'[q] = pc[q]
       \/ pc[q] = "queued" /\ pc'[q] = "granted"
       \/ pc[q] = "leaving" /\ pc'[q] = "returning"

(* The waiting lists survive a step that leaves the waiting alone.         *)
LEMMA ListsKept ==
  ASSUME LimiterOK, NEW j \in Inst, waiters'[j] = waiters[j] \/ waiters'[j] = << >>,
         \A q \in Req : pc[q] \in RL!Waiting => pc'[q] \in RL!Waiting /\ inst'[q] = inst[q]
  PROVE  \A k \in 1 .. Len(waiters'[j]) :
           /\ pc'[waiters'[j][k]] \in RL!Waiting
           /\ inst'[waiters'[j][k]] = j
           /\ \A l \in 1 .. Len(waiters'[j]) : waiters'[j][l] = waiters'[j][k] => k = l
<1>1. CASE waiters'[j] = << >>
  BY <1>1
<1>2. CASE waiters'[j] = waiters[j]
  <2>1. \A k \in 1 .. Len(waiters[j]) : waiters[j][k] \in Req
    BY DEF LimiterOK
  <2> QED
    BY <1>2, <2>1 DEF LimiterOK
<1> QED
  BY <1>1, <1>2

(* The slot goes to a request that waits, or to nobody; no other moves.    *)
LEMMA PassSlotOnFacts ==
  ASSUME LimiterOK, NEW r \in Req, pc[r] \in RL!Holding, RL!PassSlotOn(r)
  PROVE  LimiterOK' /\ OthersKeep(r) /\ pc'[r] = "out" /\ gone'[r] = FALSE
<1>0. PICK i \in Inst : inst[r] = i
  BY DEF LimiterOK, RL!Holding
<1> USE DEF RL!Place, RL!Waiting, RL!Holding, RL!Closed
<1>1. CASE waiters[i] = << >>
  <2>1. /\ hosts' = hosts /\ waiters' = waiters
        /\ pc' = [pc EXCEPT ![r] = "out"]
        /\ inst' = [inst EXCEPT ![r] = NoInst]
        /\ gone' = [gone EXCEPT ![r] = FALSE]
    BY <1>0, <1>1 DEF RL!PassSlotOn, RL!Leave
  <2>2. \A q \in Req : pc[q] \in RL!Waiting => pc'[q] \in RL!Waiting /\ inst'[q] = inst[q]
    BY <2>1 DEF LimiterOK
  <2>3. \A j \in Inst : waiters'[j] = waiters[j]
    BY <2>1
  <2>4. LimiterOK'
    <3>1. \A j \in Inst : \A k \in 1 .. Len(waiters'[j]) :
           /\ pc'[waiters'[j][k]] \in RL!Waiting
           /\ inst'[waiters'[j][k]] = j
           /\ \A l \in 1 .. Len(waiters'[j]) : waiters'[j][l] = waiters'[j][k] => k = l
      BY <2>2, <2>3, ListsKept
    <3> QED
      BY <2>1, <3>1 DEF LimiterOK
  <2> QED
    BY <2>1, <2>4 DEF LimiterOK, OthersKeep
<1>2. CASE waiters[i] # << >>
  <2> DEFINE s == waiters[i]
             h == Head(s)
  <2>1. /\ s \in Seq(Req) /\ Len(s) \in Nat \ {0} /\ h = s[1] /\ h \in Req
        /\ Tail(s) \in Seq(Req) /\ Len(Tail(s)) = Len(s) - 1
        /\ \A k \in 1 .. Len(s) - 1 : Tail(s)[k] = s[k + 1]
    BY <1>2 DEF LimiterOK
  <2>2. pc[h] \in RL!Waiting /\ h # r
    BY <2>1 DEF LimiterOK
  <2>3. /\ waiters' = [waiters EXCEPT ![i] = Tail(s)]
        /\ pc' = [pc EXCEPT ![h] = RL!Closed(pc[h]), ![r] = "out"]
        /\ inst' = [inst EXCEPT ![r] = NoInst]
        /\ gone' = [gone EXCEPT ![r] = FALSE]
        /\ hosts' = hosts
    BY <1>0, <1>2, <2>2 DEF RL!PassSlotOn, RL!Leave, LimiterOK
  <2> HIDE DEF s, h
  <2>4. /\ pc'[r] = "out"
        /\ \A q \in Req \ {r} : pc'[q] = IF q = h THEN RL!Closed(pc[q]) ELSE pc[q]
    BY <2>1, <2>2, <2>3 DEF LimiterOK
  <2>5. LimiterOK'
    <3>1. /\ hosts' \in [Host -> Inst \cup {NoInst}] /\ waiters' \in [Inst -> Seq(Req)]
          /\ pc' \in [Req -> RL!Place] /\ inst' \in [Req -> Inst \cup {NoInst}]
          /\ gone' \in [Req -> BOOLEAN]
      BY <2>1, <2>2, <2>3 DEF LimiterOK
    <3>2. \A q \in Req : pc'[q] # "out" => inst'[q] \in Inst
      BY <2>1, <2>2, <2>3, <2>4 DEF LimiterOK
    <3>3. ASSUME NEW j \in Inst, NEW k \in 1 .. Len(waiters'[j])
          PROVE  /\ pc'[waiters'[j][k]] \in RL!Waiting
                 /\ inst'[waiters'[j][k]] = j
                 /\ \A l \in 1 .. Len(waiters'[j]) : waiters'[j][l] = waiters'[j][k] => k = l
      <4>1. CASE j # i
        <5>1. waiters'[j] = waiters[j] /\ waiters[j][k] \in Req
          BY <2>3, <3>3, <4>1 DEF LimiterOK
        <5>2. /\ pc[waiters[j][k]] \in RL!Waiting
              /\ inst[waiters[j][k]] = j
              /\ \A l \in 1 .. Len(waiters[j]) : waiters[j][l] = waiters[j][k] => k = l
          BY <5>1, <3>3 DEF LimiterOK
        <5>3. inst[h] = i
          BY <2>1 DEF LimiterOK, s
        <5> QED
          BY <2>3, <2>4, <4>1, <5>1, <5>2, <5>3 DEF LimiterOK
      <4>2. CASE j = i
        <5>1. /\ waiters'[j] = Tail(s) /\ k + 1 \in 1 .. Len(s) /\ waiters'[j][k] = s[k + 1]
              /\ s[k + 1] \in Req /\ s[k + 1] # h
          BY <2>1, <2>3, <3>3, <4>2 DEF LimiterOK, s
        <5>2. /\ pc[s[k + 1]] \in RL!Waiting /\ inst[s[k + 1]] = i
              /\ \A l \in 1 .. Len(s) : s[l] = s[k + 1] => k + 1 = l
          BY <5>1 DEF LimiterOK, s
        <5>3. \A l \in 1 .. Len(s) - 1 : Tail(s)[l] = s[k + 1] => k = l
          BY <2>1, <5>2
        <5> QED
          BY <2>1, <2>3, <2>4, <4>2, <5>1, <5>2, <5>3 DEF LimiterOK
      <4> QED
        BY <4>1, <4>2
    <3> QED
      BY <3>1, <3>2, <3>3 DEF LimiterOK
  <2>6. gone'[r] = FALSE /\ \A q \in Req \ {r} : gone'[q] = gone[q]
    BY <2>3 DEF LimiterOK
  <2>7. ASSUME NEW q \in Req \ {r}
        PROVE  \/ pc'[q] = pc[q]
               \/ pc[q] = "queued" /\ pc'[q] = "granted"
               \/ pc[q] = "leaving" /\ pc'[q] = "returning"
    BY <2>2, <2>4
  <2> QED
    BY <2>4, <2>5, <2>6, <2>7 DEF OthersKeep
<1> QED
  BY <1>1, <1>2

(* The limiter's other steps of one goroutine that touch no list.          *)
LEMMA MoveFacts ==
  ASSUME LimiterOK, NEW r \in Req,
         \/ RL!Reject(r) \/ RL!Admit(r) \/ RL!SleepEnds(r) \/ RL!SleepCanceled(r)
         \/ RL!TakeSlot(r) \/ RL!Wake(r) \/ RL!GiveUp(r) \/ RL!HangUp(r) \/ RL!Arrive(r)
  PROVE  LimiterOK' /\ OthersKeep(r)
<1> USE DEF RL!Place, RL!Waiting, RL!Holding
<1> DEFINE Kept ==
      /\ waiters' \in [Inst -> Seq(Req)] /\ hosts' \in [Host -> Inst \cup {NoInst}]
      /\ \A j \in Inst : waiters'[j] = waiters[j] \/ waiters'[j] = << >>
      /\ pc' \in [Req -> RL!Place] /\ inst' \in [Req -> Inst \cup {NoInst}]
      /\ gone' \in [Req -> BOOLEAN]
      /\ \A q \in Req \ {r} : pc'[q] = pc[q] /\ inst'[q] = inst[q] /\ gone'[q] = gone[q]
      /\ pc'[r] # "out" => inst'[r] \in Inst
      /\ pc[r] \in RL!Waiting => pc'[r] \in RL!Waiting /\ inst'[r] = inst[r]
<1>0. SUFFICES Kept
  <2>1. \A q \in Req : pc[q] \in RL!Waiting => pc'[q] \in RL!Waiting /\ inst'[q] = inst[q]
    BY <1>0
  <2>2. \A j \in Inst : \A k \in 1 .. Len(waiters'[j]) :
          /\ pc'[waiters'[j][k]] \in RL!Waiting
          /\ inst'[waiters'[j][k]] = j
          /\ \A l \in 1 .. Len(waiters'[j]) : waiters'[j][l] = waiters'[j][k] => k = l
    BY <1>0, <2>1, ListsKept
  <2>3. \A q \in Req : pc'[q] # "out" => inst'[q] \in Inst
    BY <1>0 DEF LimiterOK
  <2> QED
    BY <1>0, <2>2, <2>3 DEF LimiterOK, OthersKeep
<1>1. CASE RL!Reject(r) \/ RL!SleepCanceled(r)
  <2>1. /\ pc[r] \notin RL!Waiting /\ pc' = [pc EXCEPT ![r] = "out"]
        /\ waiters' = waiters /\ hosts' = hosts
        /\ gone' = [gone EXCEPT ![r] = FALSE]
        /\ inst' = [inst EXCEPT ![r] = NoInst]
    BY <1>1 DEF RL!Reject, RL!SleepCanceled, RL!Leave
  <2> QED
    BY <2>1 DEF LimiterOK
<1>2. CASE RL!Admit(r) \/ RL!SleepEnds(r) \/ RL!TakeSlot(r) \/ RL!Wake(r)
  <2>1. /\ pc[r] \notin RL!Waiting \cup {"out"}
        /\ \E place \in RL!Place : pc' = [pc EXCEPT ![r] = place]
        /\ waiters' = waiters /\ hosts' = hosts /\ gone' = gone /\ inst' = inst
    BY <1>2 DEF RL!Admit, RL!SleepEnds, RL!TakeSlot, RL!Wake, RL!counters
  <2>2. inst' = [inst EXCEPT ![r] = inst[r]] /\ inst[r] \in Inst
    BY <2>1 DEF LimiterOK
  <2> QED
    BY <2>1, <2>2 DEF LimiterOK
<1>3. CASE RL!GiveUp(r) \/ RL!HangUp(r)
  <2>1. /\ pc[r] # "out"
        /\ \E place \in RL!Place :
             /\ pc' = [pc EXCEPT ![r] = place]
             /\ pc[r] \in RL!Waiting => place \in RL!Waiting
        /\ waiters' = waiters /\ hosts' = hosts /\ inst' = inst
        /\ gone' = gone \/ gone' = [gone EXCEPT ![r] = TRUE]
    <3>1. CASE RL!GiveUp(r)
      BY <3>1 DEF RL!GiveUp, RL!counters
    <3>2. CASE RL!HangUp(r)
      <4>1. pc' = [pc EXCEPT ![r] = pc[r]] /\ pc[r] \in RL!Place
        BY <3>2 DEF RL!HangUp, LimiterOK
      <4> QED
        BY <3>2, <4>1 DEF RL!HangUp, RL!counters
    <3> QED
      BY <1>3, <3>1, <3>2
  <2>2. PICK place \in RL!Place :
          /\ pc' = [pc EXCEPT ![r] = place]
          /\ pc[r] \in RL!Waiting => place \in RL!Waiting
    BY <2>1
  <2>3. inst[r] \in Inst /\ inst' \in [Req -> Inst \cup {NoInst}]
    BY <2>1 DEF LimiterOK
  <2>4. gone' \in [Req -> BOOLEAN] /\ \A q \in Req \ {r} : gone'[q] = gone[q]
    <3>1. gone \in [Req -> BOOLEAN]
      BY DEF LimiterOK
    <3> QED
      BY <2>1, <3>1
  <2>5. /\ pc' \in [Req -> RL!Place] /\ \A q \in Req \ {r} : pc'[q] = pc[q]
        /\ pc[r] \in RL!Waiting => pc'[r] \in RL!Waiting
    BY <2>2 DEF LimiterOK
  <2> QED
    BY <2>1, <2>3, <2>4, <2>5 DEF LimiterOK
<1>4. CASE RL!Arrive(r)
  <2>1. PICK h \in Host : RL!FindHost(r, h) \/ \E i \in Inst : RL!MakeHost(r, h, i)
    BY <1>4 DEF RL!Arrive
  <2>2. CASE RL!FindHost(r, h)
    <3>1. /\ pc[r] = "out" /\ pc' = [pc EXCEPT ![r] = "found"]
          /\ hosts[h] \in Inst /\ inst' = [inst EXCEPT ![r] = hosts[h]]
          /\ waiters' = waiters /\ hosts' = hosts /\ gone' = gone
      BY <2>2 DEF RL!FindHost, RL!counters, LimiterOK
    <3> QED
      BY <3>1 DEF LimiterOK
  <2>3. ASSUME NEW i \in Inst, RL!MakeHost(r, h, i) PROVE Kept
    <3>1. /\ pc[r] = "out" /\ pc' = [pc EXCEPT ![r] = "found"]
          /\ inst' = [inst EXCEPT ![r] = i] /\ gone' = gone
          /\ waiters' = [waiters EXCEPT ![i] = << >>]
          /\ hosts' = [hosts EXCEPT ![h] = i]
      BY <2>3 DEF RL!MakeHost
    <3>2. << >> \in Seq(Req)
      OBVIOUS
    <3>3. /\ waiters' \in [Inst -> Seq(Req)]
          /\ \A j \in Inst : waiters'[j] = waiters[j] \/ waiters'[j] = << >>
      BY <3>1, <3>2 DEF LimiterOK
    <3>4. hosts' \in [Host -> Inst \cup {NoInst}]
      BY <3>1 DEF LimiterOK
    <3> QED
      BY <3>1, <3>3, <3>4 DEF LimiterOK
  <2> QED
    BY <2>1, <2>2, <2>3
<1> QED
  BY <1>1, <1>2, <1>3, <1>4

(* A request joins at the end of the list.                                 *)
LEMMA JoinQueueFacts ==
  ASSUME LimiterOK, NEW r \in Req, RL!JoinQueue(r)
  PROVE  LimiterOK' /\ OthersKeep(r)
<1> USE DEF RL!Place, RL!Waiting, RL!Holding
<1>0. PICK i \in Inst : inst[r] = i
  BY DEF LimiterOK, RL!JoinQueue
<1> DEFINE s == waiters[i]
<1>1. /\ pc[r] = "awake" /\ pc' = [pc EXCEPT ![r] = "queued"]
      /\ waiters' = [waiters EXCEPT ![i] = Append(s, r)]
      /\ hosts' = hosts /\ inst' = inst /\ gone' = gone
  BY <1>0 DEF RL!JoinQueue, LimiterOK
<1>2. /\ s \in Seq(Req) /\ Append(s, r) \in Seq(Req) /\ Len(Append(s, r)) = Len(s) + 1
      /\ Len(s) \in Nat
      /\ \A k \in 1 .. Len(s) : Append(s, r)[k] = s[k] /\ s[k] \in Req
      /\ Append(s, r)[Len(s) + 1] = r
  BY DEF LimiterOK
<1>3. /\ pc' \in [Req -> RL!Place] /\ waiters' \in [Inst -> Seq(Req)]
      /\ pc'[r] = "queued" /\ \A q \in Req \ {r} : pc'[q] = pc[q]
      /\ waiters'[i] = Append(s, r) /\ \A j \in Inst \ {i} : waiters'[j] = waiters[j]
  BY <1>1, <1>2 DEF LimiterOK
<1>4. ASSUME NEW j \in Inst
      PROVE  \A k \in 1 .. Len(waiters'[j]) :
               /\ pc'[waiters'[j][k]] \in RL!Waiting
               /\ inst'[waiters'[j][k]] = j
               /\ \A l \in 1 .. Len(waiters'[j]) : waiters'[j][l] = waiters'[j][k] => k = l
  <2>1. CASE j # i
    <3>1. \A q \in Req : pc[q] \in RL!Waiting => pc'[q] \in RL!Waiting /\ inst'[q] = inst[q]
      BY <1>1, <1>3
    <3> QED
      BY <1>3, <2>1, <3>1, ListsKept
  <2>2. CASE j = i
    <3>1. \A k \in 1 .. Len(s) :
            /\ pc[s[k]] \in RL!Waiting /\ inst[s[k]] = i /\ s[k] # r
            /\ \A l \in 1 .. Len(s) : s[l] = s[k] => k = l
      BY <1>1 DEF LimiterOK
    <3> HIDE DEF s
    <3>2. \A k \in 1 .. Len(s) : pc'[s[k]] \in RL!Waiting /\ inst'[s[k]] = i
      BY <1>1, <1>2, <1>3, <3>1
    <3>3. pc'[r] \in RL!Waiting /\ inst'[r] = i
      BY <1>0, <1>1, <1>3
    <3>4. waiters'[j] = Append(s, r)
      BY <1>3, <2>2
    <3>5. \A k \in 1 .. Len(s) + 1 : k \in 1 .. Len(s) \/ k = Len(s) + 1
      BY <1>2
    <3> QED
      BY <1>2, <2>2, <3>1, <3>2, <3>3, <3>4, <3>5
  <2> QED
    BY <2>1, <2>2
<1>5. \A q \in Req : pc'[q] # "out" => inst'[q] \in Inst
  BY <1>0, <1>1, <1>3 DEF LimiterOK
<1> QED
  BY <1>1, <1>3, <1>4, <1>5 DEF LimiterOK, OthersKeep

(* Taking an element out of a list moves those behind it up by one.        *)
LEMMA RemoveAtIndex ==
  ASSUME NEW S, NEW s \in Seq(S), NEW n \in 1 .. Len(s)
  PROVE  /\ RemoveAt(s, n) \in Seq(S)
         /\ Len(RemoveAt(s, n)) = Len(s) - 1
         /\ \A k \in 1 .. Len(s) - 1 :
              RemoveAt(s, n)[k] = IF k < n THEN s[k] ELSE s[k + 1]
<1> DEFINE a == SubSeq(s, 1, n - 1)
           b == SubSeq(s, n + 1, Len(s))
           t == RemoveAt(s, n)
<1>1. Len(s) \in Nat \ {0} /\ n \in Nat \ {0} /\ n <= Len(s)
  OBVIOUS
<1>2. a \in Seq(S) /\ Len(a) = n - 1 /\ \A k \in 1 .. n - 1 : a[k] = s[k]
  BY <1>1
<1>3. b \in Seq(S) /\ Len(b) = Len(s) - n
  BY <1>1
<1>4. \A k \in 1 .. Len(s) - n : b[k] = s[k + n]
  BY <1>1
<1>5. t = a \o b
  BY DEF RemoveAt
<1> HIDE DEF a, b, t
<1>6. t \in Seq(S) /\ Len(t) = Len(s) - 1
  <2>1. t \in Seq(S) /\ Len(t) = Len(a) + Len(b)
    BY <1>2, <1>3, <1>5, ConcatProperties
  <2> QED
    BY <1>1, <1>2, <1>3, <2>1
<1>7. ASSUME NEW k \in 1 .. Len(s) - 1
      PROVE  t[k] = IF k < n THEN s[k] ELSE s[k + 1]
  <2>1. CASE k < n
    <3>1. t[k] = a[k]
      BY <1>1, <1>2, <1>3, <1>5, <2>1
    <3> QED
      BY <1>1, <1>2, <2>1, <3>1
  <2>2. CASE ~(k < n)
    <3>1. k - (n - 1) \in 1 .. Len(s) - n
      BY <1>1, <2>2
    <3>2. t[k] = b[k - (n - 1)]
      BY <1>1, <1>2, <1>3, <1>5, <2>2, <3>1
    <3>3. b[k - (n - 1)] = s[(k - (n - 1)) + n]
      BY <1>4, <3>1
    <3>4. (k - (n - 1)) + n = k + 1
      BY <1>1
    <3> QED
      BY <2>2, <3>2, <3>3, <3>4
  <2> QED
    BY <2>1, <2>2
<1> QED
  BY <1>6, <1>7 DEF t

(* A request that gave up takes itself out of the list.                    *)
LEMMA AbandonQueueFacts ==
  ASSUME LimiterOK, NEW r \in Req, RL!AbandonQueue(r)
  PROVE  LimiterOK' /\ OthersKeep(r) /\ pc'[r] = "out" /\ gone'[r] = FALSE
<1> USE DEF RL!Place, RL!Waiting, RL!Holding
<1>0. PICK i \in Inst : inst[r] = i
  BY DEF LimiterOK, RL!AbandonQueue
<1> DEFINE s == waiters[i]
<1>1. /\ pc[r] = "leaving" /\ pc' = [pc EXCEPT ![r] = "out"]
      /\ hosts' = hosts
      /\ inst' = [inst EXCEPT ![r] = NoInst]
      /\ gone' = [gone EXCEPT ![r] = FALSE]
  BY DEF RL!AbandonQueue, RL!Leave
<1>2. PICK n \in DOMAIN s : s[n] = r /\ waiters' = [waiters EXCEPT ![i] = RemoveAt(s, n)]
  <2>1. PICK n \in DOMAIN waiters[inst[r]] :
          /\ waiters[inst[r]][n] = r
          /\ waiters' = [waiters EXCEPT ![inst[r]] = RemoveAt(waiters[inst[r]], n)]
    BY DEF RL!AbandonQueue, RL!RemoveAt, RemoveAt
  <2> QED
    BY <1>0, <2>1
<1>3. s \in Seq(Req) /\ n \in 1 .. Len(s) /\ Len(s) \in Nat
  BY <1>2 DEF LimiterOK
<1> DEFINE t == RemoveAt(s, n)
<1>4. /\ t \in Seq(Req) /\ Len(t) = Len(s) - 1
      /\ \A k \in 1 .. Len(s) - 1 : t[k] = IF k < n THEN s[k] ELSE s[k + 1]
  BY <1>3, RemoveAtIndex
<1> HIDE DEF t
<1>5. /\ waiters' \in [Inst -> Seq(Req)] /\ waiters'[i] = t
      /\ \A j \in Inst \ {i} : waiters'[j] = waiters[j]
  BY <1>2, <1>4 DEF LimiterOK, t
<1>6. /\ pc' \in [Req -> RL!Place] /\ inst' \in [Req -> Inst \cup {NoInst}]
      /\ gone' \in [Req -> BOOLEAN]
      /\ pc'[r] = "out" /\ gone'[r] = FALSE
      /\ \A q \in Req \ {r} : pc'[q] = pc[q] /\ inst'[q] = inst[q] /\ gone'[q] = gone[q]
  BY <1>1 DEF LimiterOK
<1>7. ASSUME NEW j \in Inst, NEW k \in 1 .. Len(waiters'[j])
      PROVE  /\ pc'[waiters'[j][k]] \in RL!Waiting
             /\ inst'[waiters'[j][k]] = j
             /\ \A l \in 1 .. Len(waiters'[j]) : waiters'[j][l] = waiters'[j][k] => k = l
  <2>1. CASE j # i
    <3>1. waiters'[j] = waiters[j] /\ waiters[j][k] \in Req
      BY <1>5, <1>7, <2>1 DEF LimiterOK
    <3>2. /\ pc[waiters[j][k]] \in RL!Waiting
          /\ inst[waiters[j][k]] = j
          /\ \A l \in 1 .. Len(waiters[j]) : waiters[j][l] = waiters[j][k] => k = l
      BY <1>7, <3>1 DEF LimiterOK
    <3> QED
      BY <1>0, <1>6, <2>1, <3>1, <3>2
  <2>2. CASE j = i
    <3>1. \A m \in 1 .. Len(s) :
            /\ s[m] \in Req /\ pc[s[m]] \in RL!Waiting /\ inst[s[m]] = i
            /\ \A l \in 1 .. Len(s) : s[l] = s[m] => m = l
      BY <1>3 DEF LimiterOK
    <3> DEFINE from(m) == IF m < n THEN m ELSE m + 1
    <3> HIDE DEF s
    <3>2. \A m \in 1 .. Len(s) - 1 :
            from(m) \in 1 .. Len(s) /\ from(m) # n /\ t[m] = s[from(m)]
      BY <1>3, <1>4
    <3>3. \A m, l \in 1 .. Len(s) - 1 : from(m) = from(l) => m = l
      BY <1>3
    <3> HIDE DEF from
    <3>4. k \in 1 .. Len(s) - 1 /\ waiters'[j] = t
      BY <1>4, <1>5, <1>7, <2>2
    <3>5. t[k] \in Req \ {r} /\ pc[t[k]] \in RL!Waiting /\ inst[t[k]] = i
      BY <1>2, <1>3, <3>1, <3>2, <3>4 DEF s
    <3>6. \A l \in 1 .. Len(t) : t[l] = t[k] => k = l
      BY <1>4, <3>1, <3>2, <3>3, <3>4
    <3> QED
      BY <1>6, <2>2, <3>4, <3>5, <3>6
  <2> QED
    BY <2>1, <2>2
<1>8. \A q \in Req : pc'[q] # "out" => inst'[q] \in Inst
  BY <1>6 DEF LimiterOK
<1> QED
  BY <1>1, <1>5, <1>6, <1>7, <1>8 DEF LimiterOK, OthersKeep

(* Housekeeping moves nobody.                                              *)
LEMMA HousekeepingFacts ==
  ASSUME LimiterOK, Housekeeping \/ UNCHANGED limiter
  PROVE  LimiterOK' /\ pc' = pc /\ gone' = gone
<1>1. /\ waiters' = waiters /\ pc' = pc /\ inst' = inst /\ gone' = gone
      /\ hosts' \in [Host -> Inst \cup {NoInst}]
  BY DEF Housekeeping, limiter, RL!Cleanup, RL!BecomeIdle, RL!counters, LimiterOK
<1> QED
  BY <1>1 DEF LimiterOK

-----------------------------------------------------------------------------
(* The handler.                                                            *)

(* A request's handler changes the state of its own request only.          *)
OwnKeep(r) ==
  \A q \in Req \ {r} :
    /\ phase'[q] = phase[q] /\ mode'[q] = mode[q] /\ kind'[q] = kind[q]
    /\ wrote'[q] = wrote[q] /\ hungup'[q] = hungup[q] /\ asked'[q] = asked[q]
    /\ compared'[q] = compared[q] /\ digester'[q] = digester[q] /\ passes'[q] = passes[q]

(* So a step of r needs looking at for r alone: a slot handed to another   *)
(* request leaves that one where its handler left it, inside Acquire.      *)
LEMMA StepIInv ==
  ASSUME IInv, NEW r \in Req, OwnTypeOK', LimiterOK', OwnKeep(r), OthersKeep(r),
         Coupled(r)', Departed(r)', Progress(r)'
  PROVE  IInv'
<1>1. ASSUME NEW q \in Req \ {r} PROVE Coupled(q)'
  BY <1>1 DEF IInv, Coupled, OwnKeep, OthersKeep, OwnTypeOK, Phases
<1>2. ASSUME NEW q \in Req \ {r} PROVE Departed(q)'
  BY <1>2 DEF IInv, Departed, OwnKeep, OthersKeep
<1>3. ASSUME NEW q \in Req \ {r} PROVE Progress(q)'
  <2>1. Progress(q)
    BY DEF IInv
  <2> QED
    BY <2>1 DEF Progress, Untouched, ServedOK, ForwardedOK, Verifies, HasSink, Shadowing, OwnKeep
<1> QED
  BY <1>1, <1>2, <1>3 DEF IInv

(* The invariant holds at the start.                                       *)
LEMMA InitIInv == Init => IInv
<1> SUFFICES ASSUME Init PROVE IInv
  OBVIOUS
<1> USE DEF Init
<1>1. OwnTypeOK
  BY DEF OwnTypeOK, Phases, Modes, Kinds, Writes
<1>2. LimiterOK
  BY DEF LimiterOK, RL!Init, RL!Place, RL!Waiting, RL!Holding
<1>3. ASSUME NEW r \in Req PROVE Coupled(r) /\ Departed(r) /\ Progress(r)
  BY DEF Coupled, Departed, Progress, Untouched, RL!Init
<1> QED
  BY <1>1, <1>2, <1>3 DEF IInv

(* A step of the handler that leaves the limiter alone.                    *)
LEMMA OutsideLimiter ==
  ASSUME IInv, NEW r \in Req, UNCHANGED limiter,
         OwnTypeOK', OwnKeep(r), Coupled(r)', hungup[r] => hungup'[r], Progress(r)'
  PROVE  IInv'
<1>1. LimiterOK' /\ pc' = pc /\ gone' = gone
  BY HousekeepingFacts DEF IInv
<1>2. OthersKeep(r)
  BY <1>1 DEF OthersKeep
<1>3. Departed(r)'
  BY <1>1 DEF IInv, Departed
<1> QED
  BY <1>1, <1>2, <1>3, StepIInv

(* serveNative.                                                            *)
LEMMA NativeIInv ==
  ASSUME IInv, NEW r \in Req,
         \/ NativeFails(r) \/ NativePanics(r) \/ NativeAnswers(r) \/ StreamRefuses(r)
         \/ StreamCommits(r) \/ StreamCompletes(r) \/ StreamAborts(r)
  PROVE  IInv'
<1> USE DEF Goto, Write, limiter
<1>0. OwnTypeOK /\ Progress(r) /\ Coupled(r)
  BY DEF IInv
<1>1. CASE NativeFails(r) \/ NativePanics(r)
  <2>1. UNCHANGED limiter /\ hungup' = hungup
    BY <1>1 DEF NativeFails, NativePanics
  <2>2. OwnTypeOK' /\ OwnKeep(r)
    BY <1>0, <1>1 DEF NativeFails, NativePanics, OwnTypeOK, OwnKeep, Phases
  <2>3. Coupled(r)'
    BY <1>0, <1>1 DEF NativeFails, NativePanics, Coupled, OwnTypeOK
  <2>4. Progress(r)'
    BY <1>0, <1>1 DEF NativeFails, NativePanics, Progress, Untouched, OwnTypeOK
  <2> QED
    BY <2>1, <2>2, <2>3, <2>4, OutsideLimiter
<1>2. CASE NativeAnswers(r)
  <2>1. UNCHANGED limiter /\ hungup' = hungup
    BY <1>2 DEF NativeAnswers
  <2>2. OwnTypeOK' /\ OwnKeep(r)
    BY <1>0, <1>2 DEF NativeAnswers, CompareServed, Progress, Untouched, OwnTypeOK, OwnKeep, Phases, Writes
  <2>3. Coupled(r)'
    BY <1>0, <1>2 DEF NativeAnswers, Coupled, OwnTypeOK
  <2>4. Progress(r)'
    BY <1>0, <1>2 DEF NativeAnswers, CompareServed, Verifies, Progress, Untouched, ServedOK, OwnTypeOK
  <2> QED
    BY <2>1, <2>2, <2>3, <2>4, OutsideLimiter
<1>3. CASE StreamRefuses(r)
  <2>1. UNCHANGED limiter /\ hungup' = hungup
    BY <1>3 DEF StreamRefuses
  <2>2. OwnTypeOK' /\ OwnKeep(r)
    BY <1>0, <1>3 DEF StreamRefuses, OwnTypeOK, OwnKeep, Phases, Writes
  <2>3. Coupled(r)'
    BY <1>0, <1>3 DEF StreamRefuses, Coupled, OwnTypeOK
  <2>4. Progress(r)'
    BY <1>0, <1>3 DEF StreamRefuses, Verifies, Progress, Untouched, ServedOK, OwnTypeOK
  <2> QED
    BY <2>1, <2>2, <2>3, <2>4, OutsideLimiter
<1>4. CASE StreamCommits(r)
  <2>1. UNCHANGED limiter /\ hungup' = hungup
    BY <1>4 DEF StreamCommits
  <2>2. OwnTypeOK' /\ OwnKeep(r)
    BY <1>0, <1>4 DEF StreamCommits, OwnTypeOK, OwnKeep, Phases, Writes
  <2>3. Coupled(r)'
    BY <1>0, <1>4 DEF StreamCommits, Coupled, OwnTypeOK
  <2>4. Progress(r)'
    BY <1>0, <1>4 DEF StreamCommits, Progress, Untouched, OwnTypeOK
  <2> QED
    BY <2>1, <2>2, <2>3, <2>4, OutsideLimiter
<1>5. CASE StreamCompletes(r)
  <2>1. UNCHANGED limiter /\ hungup' = hungup
    BY <1>5 DEF StreamCompletes
  <2>2. OwnTypeOK' /\ OwnKeep(r)
    BY <1>0, <1>5 DEF StreamCompletes, CompareServed, Progress, OwnTypeOK, OwnKeep, Phases, Writes
  <2>3. Coupled(r)'
    BY <1>0, <1>5 DEF StreamCompletes, Coupled, OwnTypeOK
  <2>4. Progress(r)'
    BY <1>0, <1>5 DEF StreamCompletes, CompareServed, Verifies, Progress, ServedOK, OwnTypeOK
  <2> QED
    BY <2>1, <2>2, <2>3, <2>4, OutsideLimiter
<1>6. CASE StreamAborts(r)
  <2>1. UNCHANGED limiter /\ hungup' = hungup
    BY <1>6 DEF StreamAborts
  <2>2. OwnTypeOK' /\ OwnKeep(r)
    BY <1>0, <1>6 DEF StreamAborts, OwnTypeOK, OwnKeep, Phases
  <2>3. Coupled(r)'
    BY <1>0, <1>6 DEF StreamAborts, Coupled, OwnTypeOK
  <2>4. Progress(r)'
    BY <1>0, <1>6 DEF StreamAborts, Progress, OwnTypeOK
  <2> QED
    BY <2>1, <2>2, <2>3, <2>4, OutsideLimiter
<1> QED
  BY <1>1, <1>2, <1>3, <1>4, <1>5, <1>6

(* The proxy path.                                                         *)
LEMMA ProxyIInv ==
  ASSUME IInv, NEW r \in Req,
         \/ SkipUpstream(r) \/ Forward(r) \/ ForwardCompletes(r) \/ ForwardFails(r)
         \/ ForwardCanceled(r) \/ ForwardAborts(r) \/ DigesterEnds(r) \/ Digested(r)
         \/ Diagnose(r)
  PROVE  IInv'
<1> USE DEF Goto, Write, limiter
<1>0. OwnTypeOK /\ Progress(r) /\ Coupled(r)
  BY DEF IInv
<1>1. CASE SkipUpstream(r)
  <2>1. UNCHANGED limiter /\ hungup' = hungup
    BY <1>1 DEF SkipUpstream
  <2>2. OwnTypeOK' /\ OwnKeep(r)
    BY <1>0, <1>1 DEF SkipUpstream, OwnTypeOK, OwnKeep, Phases
  <2>3. Coupled(r)'
    BY <1>0, <1>1 DEF SkipUpstream, Coupled, OwnTypeOK
  <2>4. Progress(r)'
    BY <1>0, <1>1 DEF SkipUpstream, Untouched, Progress, OwnTypeOK
  <2> QED
    BY <2>1, <2>2, <2>3, <2>4, OutsideLimiter
<1>2. CASE Forward(r)
  <2>1. UNCHANGED limiter /\ hungup' = hungup
    BY <1>2 DEF Forward
  <2>2. OwnTypeOK' /\ OwnKeep(r)
    BY <1>0, <1>2 DEF Forward, Progress, Untouched, OwnTypeOK, OwnKeep, Phases
  <2>3. Coupled(r)'
    BY <1>0, <1>2 DEF Forward, Coupled, OwnTypeOK
  <2>4. Progress(r)'
    BY <1>0, <1>2 DEF Forward, Untouched, HasSink, Shadowing, Progress, OwnTypeOK
  <2> QED
    BY <2>1, <2>2, <2>3, <2>4, OutsideLimiter
<1>3. CASE ForwardCompletes(r)
  <2>1. UNCHANGED limiter /\ hungup' = hungup
    BY <1>3 DEF ForwardCompletes
  <2>2. OwnTypeOK' /\ OwnKeep(r)
    BY <1>0, <1>3 DEF ForwardCompletes, Returned, Writes, OwnTypeOK, OwnKeep, Phases
  <2>3. Coupled(r)'
    BY <1>0, <1>3 DEF ForwardCompletes, Returned, Coupled, OwnTypeOK
  <2>4. Progress(r)'
    BY <1>0, <1>3 DEF ForwardCompletes, Returned, HasSink, Shadowing, ForwardedOK, Progress, OwnTypeOK
  <2> QED
    BY <2>1, <2>2, <2>3, <2>4, OutsideLimiter
<1>4. CASE ForwardFails(r)
  <2>1. UNCHANGED limiter /\ hungup' = hungup
    BY <1>4 DEF ForwardFails
  <2>2. OwnTypeOK' /\ OwnKeep(r)
    BY <1>0, <1>4 DEF ForwardFails, Returned, Writes, OwnTypeOK, OwnKeep, Phases
  <2>3. Coupled(r)'
    BY <1>0, <1>4 DEF ForwardFails, Returned, Coupled, OwnTypeOK
  <2>4. Progress(r)'
    BY <1>0, <1>4 DEF ForwardFails, Returned, HasSink, Shadowing, ForwardedOK, Progress, OwnTypeOK
  <2> QED
    BY <2>1, <2>2, <2>3, <2>4, OutsideLimiter
<1>5. CASE ForwardCanceled(r)
  <2>1. UNCHANGED limiter /\ hungup' = hungup
    BY <1>5 DEF ForwardCanceled
  <2>2. OwnTypeOK' /\ OwnKeep(r)
    BY <1>0, <1>5 DEF ForwardCanceled, Returned, Writes, OwnTypeOK, OwnKeep, Phases
  <2>3. Coupled(r)'
    BY <1>0, <1>5 DEF ForwardCanceled, Returned, Coupled, OwnTypeOK
  <2>4. Progress(r)'
    BY <1>0, <1>5 DEF ForwardCanceled, Returned, HasSink, Shadowing, ForwardedOK, Progress, OwnTypeOK
  <2> QED
    BY <2>1, <2>2, <2>3, <2>4, OutsideLimiter
<1>6. CASE ForwardAborts(r)
  <2>1. UNCHANGED limiter /\ hungup' = hungup
    BY <1>6 DEF ForwardAborts
  <2>2. OwnTypeOK' /\ OwnKeep(r)
    BY <1>0, <1>6 DEF ForwardAborts, Writes, OwnTypeOK, OwnKeep, Phases
  <2>3. Coupled(r)'
    BY <1>0, <1>6 DEF ForwardAborts, Coupled, OwnTypeOK
  <2>4. Progress(r)'
    BY <1>0, <1>6 DEF ForwardAborts, Progress, OwnTypeOK
  <2> QED
    BY <2>1, <2>2, <2>3, <2>4, OutsideLimiter
<1>7. CASE DigesterEnds(r)
  <2>1. UNCHANGED limiter /\ hungup' = hungup
    BY <1>7 DEF DigesterEnds
  <2>2. OwnTypeOK' /\ OwnKeep(r)
    BY <1>0, <1>7 DEF DigesterEnds, OwnTypeOK, OwnKeep, Phases
  <2>3. Coupled(r)'
    BY <1>0, <1>7 DEF DigesterEnds, Coupled, OwnTypeOK
  <2>4. Progress(r)'
    BY <1>0, <1>7 DEF DigesterEnds, Untouched, ForwardedOK, HasSink, Shadowing, ServedOK, Verifies, Progress, OwnTypeOK
  <2> QED
    BY <2>1, <2>2, <2>3, <2>4, OutsideLimiter
<1>8. CASE Digested(r)
  <2>1. UNCHANGED limiter /\ hungup' = hungup
    BY <1>8 DEF Digested
  <2>2. OwnTypeOK' /\ OwnKeep(r)
    BY <1>0, <1>8 DEF Digested, OwnTypeOK, OwnKeep, Phases
  <2>3. Coupled(r)'
    BY <1>0, <1>8 DEF Digested, Coupled, OwnTypeOK
  <2>4. Progress(r)'
    BY <1>0, <1>8 DEF Digested, ForwardedOK, Progress, OwnTypeOK
  <2> QED
    BY <2>1, <2>2, <2>3, <2>4, OutsideLimiter
<1>9. CASE Diagnose(r)
  <2>1. /\ UNCHANGED <<limiter, phase, mode, kind, wrote, hungup, compared, digester>>
        /\ asked' = [asked EXCEPT ![r] = @ + 1] /\ passes' = [passes EXCEPT ![r] = @ + 1]
        /\ compared[r] # "no" /\ kind[r] = "streamed" /\ passes[r] < 2
    BY <1>9 DEF Diagnose
  <2>2. /\ asked[r] \in 0 .. 3 /\ passes[r] \in 0 .. 1 /\ asked[r] + 1 \in 0 .. 3
        /\ asked'[r] = asked[r] + 1 /\ passes'[r] = passes[r] + 1
    BY <1>0, <2>1 DEF OwnTypeOK, Progress
  <2>3. OwnTypeOK' /\ OwnKeep(r)
    BY <1>0, <2>1, <2>2 DEF OwnTypeOK, OwnKeep
  <2>4. Coupled(r)'
    BY <1>0, <2>1 DEF Coupled
  <2>5. Progress(r)'
    BY <1>0, <2>1, <2>2 DEF Progress, Untouched, ServedOK, ForwardedOK, Verifies, HasSink, Shadowing
  <2> QED
    BY <2>1, <2>3, <2>4, <2>5, OutsideLimiter
<1> QED
  BY <1>1, <1>2, <1>3, <1>4, <1>5, <1>6, <1>7, <1>8, <1>9

(* Requests that come and go, and clients that hang up.                    *)
LEMMA ComeAndGoIInv ==
  ASSUME IInv, NEW r \in Req, ServeHTTP(r) \/ RefuseBody(r) \/ HangUp(r) \/ Retire(r)
  PROVE  IInv'
<1> USE DEF Goto, Write, limiter
<1>0. OwnTypeOK /\ Progress(r) /\ Coupled(r) /\ LimiterOK /\ Departed(r)
  BY DEF IInv
<1>1. ASSUME NEW ask \in Asks[r], New(r, ask[1], ask[2]), UNCHANGED wrote,
             Goto(r, "idle", "limiter") /\ RL!Arrive(r)
      PROVE  IInv'
  <2>1. ask[1] \in Modes /\ ask[2] \in Kinds
    BY AsksAssumption
  <2>2. OwnTypeOK' /\ OwnKeep(r)
    BY <1>0, <1>1, <2>1 DEF New, OwnTypeOK, OwnKeep, Phases
  <2>3. LimiterOK' /\ OthersKeep(r)
    BY <1>0, <1>1, MoveFacts
  <2>4. pc[r] = "out" /\ pc'[r] = "found" /\ gone' = gone
    BY <1>0, <1>1 DEF RL!Arrive, RL!FindHost, RL!MakeHost, LimiterOK
  <2>5. Coupled(r)' /\ Departed(r)'
    BY <1>0, <1>1, <2>4 DEF Coupled, Departed, OwnTypeOK
  <2>6. Progress(r)'
    BY <1>0, <1>1 DEF New, Progress, Untouched, OwnTypeOK
  <2> QED
    BY <2>2, <2>3, <2>5, <2>6, StepIInv
<1>2. ASSUME NEW ask \in Asks[r], New(r, ask[1], ask[2]), UNCHANGED <<limiter, wrote>>,
             Goto(r, "idle", "proxy")
      PROVE  IInv'
  <2>1. ask[1] \in Modes /\ ask[2] \in Kinds
    BY AsksAssumption
  <2>2. OwnTypeOK' /\ OwnKeep(r)
    BY <1>0, <1>2, <2>1 DEF New, OwnTypeOK, OwnKeep, Phases
  <2>3. Coupled(r)'
    BY <1>0, <1>2 DEF Coupled, OwnTypeOK
  <2>4. Progress(r)'
    BY <1>0, <1>2 DEF New, Progress, Untouched, OwnTypeOK
  <2>5. LimiterOK' /\ pc' = pc /\ gone' = gone
    BY <1>0, <1>2, HousekeepingFacts
  <2>6. OthersKeep(r) /\ Departed(r)'
    BY <1>0, <1>2, <2>5 DEF OthersKeep, Departed, Coupled
  <2> QED
    BY <2>2, <2>3, <2>4, <2>5, <2>6, StepIInv
<1>3. CASE ServeHTTP(r)
  BY <1>1, <1>2, <1>3 DEF ServeHTTP
<1>4. CASE RefuseBody(r)
  <2>1. PICK ask \in Asks[r] :
          /\ New(r, ask[1], ask[2]) /\ Goto(r, "idle", "done")
          /\ Write(r, "badbody") /\ UNCHANGED limiter
    BY <1>4 DEF RefuseBody
  <2>2. ask[1] \in Modes /\ ask[2] \in Kinds
    BY AsksAssumption
  <2>3. OwnTypeOK' /\ OwnKeep(r)
    BY <1>0, <2>1, <2>2 DEF New, OwnTypeOK, OwnKeep, Phases, Writes
  <2>4. Coupled(r)'
    BY <1>0, <2>1 DEF Coupled, OwnTypeOK
  <2>5. Progress(r)'
    BY <1>0, <2>1 DEF New, Progress, Untouched, OwnTypeOK
  <2>6. LimiterOK' /\ pc' = pc /\ gone' = gone
    BY <1>0, <2>1, HousekeepingFacts
  <2>7. OthersKeep(r) /\ Departed(r)'
    BY <1>0, <2>1, <2>6 DEF OthersKeep, Departed, Coupled
  <2> QED
    BY <2>3, <2>4, <2>5, <2>6, <2>7, StepIInv
<1>5. CASE HangUp(r)
  <2>1. OwnTypeOK' /\ OwnKeep(r) /\ hungup'[r]
    BY <1>0, <1>5 DEF HangUp, OwnTypeOK, OwnKeep
  <2>2. Progress(r)'
    BY <1>0, <1>5, <2>1 DEF HangUp, Progress, Untouched, ServedOK, ForwardedOK, Verifies, HasSink, Shadowing
  <2>3. LimiterOK' /\ OthersKeep(r) /\ pc' = pc
    <3>1. CASE phase[r] = "limiter"
      BY <1>0, <1>5, <3>1, MoveFacts DEF HangUp, RL!HangUp
    <3>2. CASE phase[r] # "limiter"
      BY <1>0, <1>5, <3>2, HousekeepingFacts DEF HangUp, OthersKeep
    <3> QED
      BY <3>1, <3>2
  <2>4. Coupled(r)'
    BY <1>0, <1>5, <2>3 DEF HangUp, Coupled
  <2>5. gone'[r] = gone[r] \/ (gone'[r] = TRUE /\ pc[r] # "out")
    BY <1>0, <1>5 DEF HangUp, RL!HangUp, LimiterOK
  <2>6. Departed(r)'
    BY <1>0, <2>1, <2>3, <2>5 DEF Departed
  <2> QED
    BY <2>1, <2>2, <2>3, <2>4, <2>6, StepIInv
<1>6. CASE Retire(r)
  <2>1. OwnTypeOK' /\ OwnKeep(r)
    BY <1>0, <1>6 DEF Retire, New, OwnTypeOK, OwnKeep, Phases, Writes, Modes, Kinds
  <2>2. Coupled(r)'
    BY <1>0, <1>6 DEF Retire, Coupled, OwnTypeOK
  <2>3. Progress(r)'
    BY <1>0, <1>6 DEF Retire, New, Progress, Untouched, OwnTypeOK
  <2>4. LimiterOK' /\ pc' = pc /\ gone' = gone
    BY <1>0, <1>6, HousekeepingFacts DEF Retire
  <2>5. OthersKeep(r) /\ Departed(r)'
    BY <1>0, <1>6, <2>4 DEF OthersKeep, Departed, Retire
  <2> QED
    BY <2>1, <2>2, <2>3, <2>4, <2>5, StepIInv
<1> QED
  BY <1>3, <1>4, <1>5, <1>6

(* limiter.Acquire and release().                                          *)
LEMMA LimiterIInv ==
  ASSUME IInv, NEW r \in Req,
         \/ Limited(r) \/ LimiterCanceled(r) \/ Acquired(r) \/ InLimiter(r)
         \/ ReleaseServed(r) \/ ReleaseFailed(r)
  PROVE  IInv'
<1> USE DEF Goto, Write
<1>0. OwnTypeOK /\ Progress(r) /\ Coupled(r) /\ LimiterOK /\ Departed(r)
  BY DEF IInv
<1>1. CASE Limited(r)
  <2>1. OwnTypeOK' /\ OwnKeep(r)
    BY <1>0, <1>1 DEF Limited, OwnTypeOK, OwnKeep, Phases, Writes
  <2>2. LimiterOK' /\ OthersKeep(r)
    BY <1>0, <1>1, MoveFacts DEF Limited
  <2>3. pc'[r] = "out" /\ gone'[r] = FALSE
    BY <1>0, <1>1 DEF Limited, RL!Reject, RL!Leave, LimiterOK
  <2>4. Coupled(r)' /\ Departed(r)'
    BY <1>0, <1>1, <2>3 DEF Limited, Coupled, Departed, OwnTypeOK
  <2>5. Progress(r)'
    BY <1>0, <1>1 DEF Limited, Progress, Untouched, OwnTypeOK
  <2> QED
    BY <2>1, <2>2, <2>4, <2>5, StepIInv
<1>2. CASE LimiterCanceled(r)
  <2>1. OwnTypeOK' /\ OwnKeep(r)
    BY <1>0, <1>2 DEF LimiterCanceled, OwnTypeOK, OwnKeep, Phases
  <2>2. gone[r] /\ LimiterOK' /\ OthersKeep(r) /\ pc'[r] = "out" /\ gone'[r] = FALSE
    <3>1. CASE RL!SleepCanceled(r)
      <4>1. gone[r] /\ pc'[r] = "out" /\ gone'[r] = FALSE
        BY <1>0, <3>1 DEF RL!SleepCanceled, RL!Leave, LimiterOK
      <4> QED
        BY <1>0, <3>1, <4>1, MoveFacts
    <3>2. CASE RL!AbandonQueue(r)
      BY <1>0, <3>2, AbandonQueueFacts DEF RL!AbandonQueue, Departed
    <3>3. CASE RL!AbandonSlot(r)
      BY <1>0, <3>3, PassSlotOnFacts DEF RL!AbandonSlot, RL!Holding, Departed
    <3> QED
      BY <1>2, <3>1, <3>2, <3>3 DEF LimiterCanceled
  <2>3. Coupled(r)' /\ Departed(r)'
    BY <1>0, <1>2, <2>2 DEF LimiterCanceled, Coupled, Departed, OwnTypeOK
  <2>4. Progress(r)'
    BY <1>0, <1>2, <2>2 DEF LimiterCanceled, Progress, Untouched, Departed, OwnTypeOK
  <2> QED
    BY <2>1, <2>2, <2>3, <2>4, StepIInv
<1>3. CASE Acquired(r)
  <2>1. OwnTypeOK' /\ OwnKeep(r)
    BY <1>0, <1>3 DEF Acquired, OwnTypeOK, OwnKeep, Phases
  <2>2. LimiterOK' /\ OthersKeep(r)
    BY <1>0, <1>3, MoveFacts DEF Acquired
  <2>3. pc'[r] = "running" /\ gone' = gone
    BY <1>0, <1>3 DEF Acquired, RL!TakeSlot, RL!Wake, RL!counters, LimiterOK
  <2>4. Coupled(r)' /\ Departed(r)'
    BY <1>0, <1>3, <2>3 DEF Acquired, Coupled, Departed, OwnTypeOK
  <2>5. Progress(r)'
    BY <1>0, <1>3 DEF Acquired, Progress, Untouched, OwnTypeOK
  <2> QED
    BY <2>1, <2>2, <2>4, <2>5, StepIInv
<1>4. CASE InLimiter(r)
  <2>1. OwnTypeOK' /\ OwnKeep(r) /\ Progress(r)' /\ UNCHANGED own
    BY <1>0, <1>4 DEF InLimiter, own, OwnTypeOK, OwnKeep, Progress, Untouched, ServedOK,
       ForwardedOK, Verifies, HasSink, Shadowing
  <2>2. LimiterOK' /\ OthersKeep(r)
    BY <1>0, <1>4, MoveFacts, JoinQueueFacts DEF InLimiter
  <2>3. /\ pc'[r] \in {"sleeping", "awake", "queued", "leaving", "returning"} /\ gone' = gone
        /\ pc'[r] \in {"leaving", "returning"} => gone[r]
    <3>1. CASE RL!Admit(r) \/ RL!SleepEnds(r)
      BY <1>0, <3>1 DEF RL!Admit, RL!SleepEnds, LimiterOK
    <3>2. CASE RL!JoinQueue(r) \/ RL!GiveUp(r)
      BY <1>0, <3>2 DEF RL!JoinQueue, RL!GiveUp, LimiterOK
    <3> QED
      BY <1>4, <3>1, <3>2 DEF InLimiter
  <2>4. Coupled(r)' /\ Departed(r)'
    BY <1>0, <1>4, <2>1, <2>3 DEF InLimiter, own, Coupled, Departed
  <2> QED
    BY <2>1, <2>2, <2>4, StepIInv
<1>5. CASE ReleaseServed(r) \/ ReleaseFailed(r)
  <2>1. OwnTypeOK' /\ OwnKeep(r)
    BY <1>0, <1>5 DEF ReleaseServed, ReleaseFailed, OwnTypeOK, OwnKeep, Phases
  <2>2. LimiterOK' /\ OthersKeep(r) /\ pc'[r] = "out" /\ gone'[r] = FALSE
    BY <1>0, <1>5, PassSlotOnFacts DEF ReleaseServed, ReleaseFailed, RL!Release, RL!Holding
  <2>3. Coupled(r)' /\ Departed(r)'
    BY <1>0, <1>5, <2>2 DEF ReleaseServed, ReleaseFailed, Coupled, Departed, OwnTypeOK
  <2>4. Progress(r)'
    BY <1>0, <1>5 DEF ReleaseServed, ReleaseFailed, Progress, Untouched, ServedOK, Verifies, OwnTypeOK
  <2> QED
    BY <2>1, <2>2, <2>3, <2>4, StepIInv
<1> QED
  BY <1>1, <1>2, <1>3, <1>4, <1>5

(* Every step keeps the invariant.                                         *)
LEMMA NextIInv == IInv /\ [Next]_vars => IInv'
<1> SUFFICES ASSUME IInv, [Next]_vars PROVE IInv'
  OBVIOUS
<1>1. CASE Housekeeping \/ UNCHANGED vars
  <2>1. LimiterOK' /\ pc' = pc /\ gone' = gone
    BY <1>1, HousekeepingFacts DEF IInv, vars
  <2>2. UNCHANGED own
    BY <1>1 DEF Housekeeping, vars
  <2>3. OwnTypeOK'
    BY <2>2 DEF IInv, OwnTypeOK, own
  <2>4. ASSUME NEW r \in Req PROVE Coupled(r)' /\ Departed(r)' /\ Progress(r)'
    BY <2>1, <2>2 DEF IInv, own, Coupled, Departed, Progress, Untouched, ServedOK,
       ForwardedOK, Verifies, HasSink, Shadowing
  <2> QED
    BY <2>1, <2>3, <2>4 DEF IInv
<1>2. ASSUME NEW r \in Req, ServeHTTP(r) \/ RefuseBody(r) \/ Serve(r) \/ HangUp(r) \/ Retire(r)
      PROVE  IInv'
  BY <1>2, ComeAndGoIInv, LimiterIInv, NativeIInv, ProxyIInv DEF Serve
<1> QED
  BY <1>1, <1>2 DEF Next

(* What the proofs carry along, in every reachable state.                  *)
LEMMA AlwaysIInv == Spec => []IInv
<1>1. Init => IInv
  BY InitIInv
<1>2. IInv /\ [Next]_vars => IInv'
  BY NextIInv
<1> QED
  BY <1>1, <1>2, PTL DEF Spec

-----------------------------------------------------------------------------
(* The theorems.                                                           *)

(* Every client that stays has a complete answer when ServeHTTP returns,   *)
(* or a connection that breaks off inside one when it aborts: no fallback, *)
(* cancellation or hand-over of a slot drops a request.  Panics that       *)
(* nothing recovers are steps of the specification, and the exception.     *)
THEOREM Answered == Spec => []NobodyForgotten
<1>1. IInv => NobodyForgotten
  BY DEF IInv, NobodyForgotten, Progress, Untouched, ServedOK, ForwardedOK, Complete
<1> QED
  BY <1>1, AlwaysIInv, PTL

(* ServeHTTP and compareServed between them ask Synapse at most once, and  *)
(* DiagnoseStateMismatch at most twice more, for a compared /state only.   *)
THEOREM CostBounded == Spec => []SynapseCost
<1>1. IInv => SynapseCost
  <2> SUFFICES ASSUME IInv, NEW r \in Req
      PROVE  /\ asked[r] <= IF kind[r] = "streamed" /\ compared[r] # "no" THEN 3 ELSE 1
             /\ mode[r] = "native" /\ wrote[r] \in {"part", "native", "error"} => asked[r] = 0
    BY DEF SynapseCost
  <2>1. OwnTypeOK /\ Progress(r)
    BY DEF IInv
  <2>2. /\ asked[r] \in 0 .. 3 /\ passes[r] \in 0 .. 2 /\ asked[r] <= 1 + passes[r]
        /\ passes[r] > 0 => kind[r] = "streamed" /\ compared[r] # "no"
    BY <2>1 DEF OwnTypeOK, Progress
  <2>3. phase[r] \in Phases
    BY <2>1 DEF OwnTypeOK
  <2>4. mode[r] = "native" /\ wrote[r] \in {"part", "native", "error"} => asked[r] = 0
    BY <2>1, <2>3 DEF Phases, Progress, Untouched, ServedOK, ForwardedOK, Verifies
  <2> QED
    BY <2>2, <2>4
<1> QED
  BY <1>1, AlwaysIInv, PTL

(* release() precedes the proxy path: no slot is held while Synapse works. *)
THEOREM SlotBackFirst == Spec => []NoSlotAfterNative
<1>1. IInv => NoSlotAfterNative
  BY DEF IInv, NoSlotAfterNative, Coupled
<1> QED
  BY <1>1, AlwaysIInv, PTL

(* compareServed and shadow.Go judge whole answers, and every answer the   *)
(* canary served that can be verified is.                                  *)
THEOREM ComparesWholeAnswers == Spec => []ComparedIsComplete
<1>1. IInv => ComparedIsComplete
  <2> SUFFICES ASSUME IInv, NEW r \in Req
      PROVE
        /\ compared[r] = "shadow" => wrote[r] = "upstream" /\ digester[r] \in {"none", "done"}
        /\ compared[r] = "served" => wrote[r] \in {"native", "error"}
        /\ (/\ Verifies(r)
            /\ phase[r] = "done"
            /\ \/ wrote[r] = "native"
               \/ wrote[r] = "error" /\ kind[r] = "buffered") => compared[r] = "served"
    BY DEF ComparedIsComplete
  <2>1. phase[r] \in Phases /\ Progress(r)
    BY DEF IInv, OwnTypeOK
  <2> QED
    BY <2>1 DEF Phases, Progress, Untouched, ServedOK, ForwardedOK
<1> QED
  BY <1>1, AlwaysIInv, PTL

(* sink.Wait() is reached by every handler that returns, so no digester is *)
(* left reading a pipe nobody closes except behind the proxy's panic.      *)
THEOREM DigesterDrained == Spec => []DigesterReleased
<1>1. IInv => DigesterReleased
  <2> SUFFICES ASSUME IInv, NEW r \in Req
      PROVE  /\ phase[r] = "done" => digester[r] \in {"none", "done"}
             /\ digester[r] = "reading" => phase[r] = "forward" \/ wrote[r] = "upstreampart"
    BY DEF DigesterReleased
  <2>1. phase[r] \in Phases /\ Progress(r)
    BY DEF IInv, OwnTypeOK
  <2> QED
    BY <2>1 DEF Phases, Progress, Untouched, ServedOK, ForwardedOK
<1> QED
  BY <1>1, AlwaysIInv, PTL

(* The first byte decides: after it neither the fallback to the proxy, nor *)
(* a timeout, nor another request's step writes a second answer.           *)
THEOREM OneAnswerOnly == Spec => OneAnswer
<1> DEFINE Same(r) ==
      wrote'[r] # wrote[r] =>
        \/ phase'[r] = "idle"
        \/ wrote[r] = "nothing"
        \/ wrote[r] = "part" /\ wrote'[r] = "native"
<1>1. IInv /\ [Next]_vars => [\A r \in Req : Same(r)]_vars
  <2> SUFFICES ASSUME IInv, Next, NEW q \in Req PROVE Same(q)
    OBVIOUS
  <2> USE DEF Goto, Write, own
  <2>0. OwnTypeOK
    BY DEF IInv
  <2>1. CASE Housekeeping
    BY <2>1 DEF Housekeeping
  <2>2. ASSUME NEW r \in Req, r # q,
               ServeHTTP(r) \/ RefuseBody(r) \/ Serve(r) \/ HangUp(r) \/ Retire(r)
        PROVE  wrote'[q] = wrote[q]
    BY <2>0, <2>2 DEF OwnTypeOK, ServeHTTP, RefuseBody, HangUp, Retire, Serve, Limited,
       LimiterCanceled, Acquired, InLimiter, NativeFails, NativePanics, NativeAnswers,
       StreamRefuses, Diagnose, StreamCommits, StreamCompletes, StreamAborts, ReleaseServed, ReleaseFailed,
       SkipUpstream, Forward, ForwardCompletes, ForwardFails, ForwardCanceled,
       ForwardAborts, DigesterEnds, Digested
  <2>3. ASSUME ServeHTTP(q) \/ HangUp(q) \/ LimiterCanceled(q) \/ Acquired(q) \/ InLimiter(q)
               \/ NativeFails(q) \/ NativePanics(q) \/ Diagnose(q) \/ StreamAborts(q) \/ ReleaseServed(q) \/ ReleaseFailed(q)
               \/ SkipUpstream(q) \/ Forward(q) \/ ForwardCanceled(q) \/ DigesterEnds(q)
               \/ Digested(q)
        PROVE  wrote' = wrote
    BY <2>3 DEF ServeHTTP, HangUp, LimiterCanceled, Acquired, InLimiter, NativeFails,
       NativePanics, Diagnose, StreamAborts, ReleaseServed, ReleaseFailed, SkipUpstream, Forward, ForwardCanceled,
       DigesterEnds, Digested
  <2>4. ASSUME RefuseBody(q) \/ Limited(q) \/ NativeAnswers(q) \/ StreamRefuses(q)
               \/ StreamCommits(q) \/ ForwardCompletes(q) \/ ForwardFails(q) \/ ForwardAborts(q)
        PROVE  wrote[q] = "nothing"
    <3>1. phase[q] \in {"idle", "limiter", "native", "forward"}
      BY <2>4 DEF RefuseBody, Limited, NativeAnswers, StreamRefuses, StreamCommits,
         ForwardCompletes, ForwardFails, ForwardAborts, Returned
    <3> QED
      BY <3>1 DEF IInv, Progress, Untouched
  <2>5. ASSUME StreamCompletes(q) PROVE wrote[q] = "part" /\ wrote'[q] = "native"
    BY <2>0, <2>5 DEF StreamCompletes, IInv, Progress, OwnTypeOK
  <2>6. ASSUME Retire(q) PROVE phase'[q] = "idle"
    BY <2>0, <2>6 DEF Retire, OwnTypeOK
  <2> QED
    BY <2>1, <2>2, <2>3, <2>4, <2>5, <2>6 DEF Next, Serve
<1>2. Spec => [][\A r \in Req : Same(r)]_vars
  BY <1>1, AlwaysIInv, PTL DEF Spec
<1> QED
  BY <1>2 DEF OneAnswer

(* The handler keeps the limiter's contract: a request enters Acquire at   *)
(* most once at a time, and calls release() only with a slot of its own.   *)
(* So what is proved of the limiter holds of it inside the worker.         *)
THEOREM UsesTheLimiter == Spec => RL!Spec
<1>1. Init => RL!Init
  BY DEF Init
<1>2. [Next]_vars => [RL!Next]_(RL!vars)
  BY LimiterStep
<1> QED
  BY <1>1, <1>2, PTL DEF Spec, RL!Spec
=============================================================================
