--------------------------- MODULE RateLimitProofs ---------------------------
(***************************************************************************)
(* The rate limiter's bookkeeping is correct for any number of requests,   *)
(* hosts and hostLimiter objects and any limits: proofs checked by TLAPS.  *)
(***************************************************************************)
EXTENDS RateLimit, FiniteSetTheorems, SequenceTheorems, TLAPS

(* A goroutine holds a hostLimiter exactly while it is in the limiter.     *)
PointerOK == \A r \in Req : inst[r] = NoInst <=> pc[r] = "out"

(* The inductive invariant: the slots cannot be accounted for without the  *)
(* queue, since a hand-over gives the slot to whoever heads it.            *)
IInv ==
  /\ TypeOK
  /\ PointerOK
  /\ SlotsAccountedFor
  /\ NoIdleSlotWhileQueued
  /\ WaitingAccountedFor

-----------------------------------------------------------------------------
(* withDefaults leaves at least one slot, so the first request of an       *)
(* unused host never has to queue.                                         *)
LEMMA Limits == SleepLimit \in Nat /\ RejectLimit \in Nat /\ Concurrent \in Nat \ {0}
BY ConfAssumption DEF SleepLimit, RejectLimit, Concurrent, withDefault

(* The list of a fresh hostLimiter.                                        *)
LEMMA EmptyFacts == ToSet(<<>>) = {} /\ IsInjective(<<>>) /\ Len(<<>>) = 0
BY DEF ToSet, IsInjective

(* Appending a newcomer to a list without repetitions.                     *)
LEMMA AppendFacts ==
  ASSUME NEW S, NEW s \in Seq(S), NEW x \in S, IsInjective(s), x \notin ToSet(s)
  PROVE  /\ Append(s, x) \in Seq(S) /\ Len(Append(s, x)) = Len(s) + 1
         /\ IsInjective(Append(s, x))
         /\ ToSet(Append(s, x)) = ToSet(s) \cup {x}
<1> DEFINE t == Append(s, x)
<1>1. /\ t \in Seq(S) /\ Len(t) = Len(s) + 1 /\ Len(s) \in Nat
      /\ \A k \in 1 .. Len(s) : t[k] = s[k]
      /\ t[Len(s) + 1] = x
      /\ DOMAIN t = 1 .. Len(s) + 1 /\ DOMAIN s = 1 .. Len(s)
  OBVIOUS
<1> HIDE DEF t
<1>2. IsInjective(t)
  BY <1>1 DEF IsInjective, ToSet
<1>3. ToSet(t) \subseteq ToSet(s) \cup {x}
  BY <1>1 DEF ToSet
<1>4. ToSet(s) \cup {x} \subseteq ToSet(t)
  <2>1. Len(s) + 1 \in DOMAIN t /\ \A k \in DOMAIN s : k \in DOMAIN t /\ s[k] = t[k]
    BY <1>1
  <2> QED
    BY <1>1, <2>1 DEF ToSet
<1> QED
  BY <1>1, <1>2, <1>3, <1>4 DEF t

(* Taking the head off a list without repetitions.                         *)
LEMMA TailFacts ==
  ASSUME NEW S, NEW s \in Seq(S), s # <<>>, IsInjective(s)
  PROVE  /\ Tail(s) \in Seq(S) /\ Len(Tail(s)) = Len(s) - 1
         /\ Head(s) \in ToSet(s)
         /\ IsInjective(Tail(s))
         /\ ToSet(Tail(s)) = ToSet(s) \ {Head(s)}
<1>1. /\ Tail(s) \in Seq(S) /\ Len(Tail(s)) = Len(s) - 1 /\ Len(s) \in Nat \ {0}
      /\ \A k \in 1 .. Len(s) - 1 : Tail(s)[k] = s[k + 1]
      /\ Head(s) = s[1] /\ DOMAIN Tail(s) = 1 .. Len(s) - 1 /\ DOMAIN s = 1 .. Len(s)
  OBVIOUS
<1>2. IsInjective(Tail(s))
  BY <1>1 DEF IsInjective
<1>3. ToSet(Tail(s)) \subseteq ToSet(s) \ {Head(s)}
  BY <1>1 DEF ToSet, IsInjective
<1>4. ASSUME NEW k \in DOMAIN s, s[k] # Head(s)
      PROVE  s[k] \in ToSet(Tail(s))
  <2>1. k - 1 \in DOMAIN Tail(s) /\ Tail(s)[k - 1] = s[k]
    BY <1>1, <1>4
  <2> QED
    BY <2>1 DEF ToSet
<1> QED
  BY <1>1, <1>2, <1>3, <1>4 DEF ToSet

(* Taking any element out of a list without repetitions.                   *)
LEMMA RemoveAtFacts ==
  ASSUME NEW S, NEW s \in Seq(S), NEW n \in DOMAIN s, IsInjective(s)
  PROVE  /\ RemoveAt(s, n) \in Seq(S) /\ Len(RemoveAt(s, n)) = Len(s) - 1
         /\ IsInjective(RemoveAt(s, n))
         /\ ToSet(RemoveAt(s, n)) = ToSet(s) \ {s[n]}
<1> DEFINE t == RemoveAt(s, n)
<1>1. /\ t \in Seq(S) /\ Len(t) = Len(s) - 1 /\ Len(s) \in Nat \ {0}
      /\ \A k \in 1 .. Len(s) - 1 : t[k] = IF k < n THEN s[k] ELSE s[k + 1]
      /\ DOMAIN t = 1 .. Len(s) - 1 /\ DOMAIN s = 1 .. Len(s) /\ n \in 1 .. Len(s)
  <2> DEFINE a == SubSeq(s, 1, n - 1)
             b == SubSeq(s, n + 1, Len(s))
  <2>1. Len(s) \in Nat \ {0} /\ DOMAIN s = 1 .. Len(s) /\ n \in 1 .. Len(s)
    OBVIOUS
  <2>2. /\ a \in Seq(S) /\ Len(a) = n - 1 /\ b \in Seq(S) /\ Len(b) = Len(s) - n
        /\ \A k \in 1 .. n - 1 : a[k] = s[k]
        /\ \A k \in 1 .. Len(s) - n : b[k] = s[k + n]
    <3>1. a \in Seq(S) /\ Len(a) = n - 1 /\ \A k \in 1 .. n - 1 : a[k] = s[k]
      BY <2>1
    <3>2. b \in Seq(S) /\ Len(b) = Len(s) - n
      BY <2>1
    <3>3. \A k \in 1 .. Len(s) - n : b[k] = s[k + n]
      BY <2>1
    <3> QED
      BY <3>1, <3>2, <3>3
  <2>3. t = a \o b
    BY DEF RemoveAt
  <2> HIDE DEF a, b, t
  <2>4. t \in Seq(S) /\ Len(t) = Len(s) - 1 /\ DOMAIN t = 1 .. Len(s) - 1
    <3>1. t \in Seq(S) /\ Len(t) = Len(a) + Len(b)
      BY <2>2, <2>3, ConcatProperties
    <3> QED
      BY <2>1, <2>2, <3>1
  <2>5. ASSUME NEW k \in 1 .. Len(s) - 1
        PROVE  t[k] = IF k < n THEN s[k] ELSE s[k + 1]
    <3>1. CASE k < n
      <4>1. k \in 1 .. Len(a) /\ t[k] = a[k]
        BY <2>1, <2>2, <2>3, <3>1
      <4> QED
        BY <2>2, <3>1, <4>1
    <3>2. CASE ~(k < n)
      <4>1. k - (n - 1) \in 1 .. Len(b) /\ t[k] = b[k - (n - 1)]
        BY <2>1, <2>2, <2>3, <3>2
      <4>2. k - (n - 1) \in 1 .. Len(s) - n /\ k - (n - 1) + n = k + 1
        BY <2>1, <3>2
      <4> QED
        BY <2>2, <3>2, <4>1, <4>2
    <3> QED
      BY <3>1, <3>2
  <2> QED
    BY <2>1, <2>4, <2>5
<1> HIDE DEF t
<1>2. IsInjective(t)
  BY <1>1 DEF IsInjective
<1>3. ToSet(t) \subseteq ToSet(s) \ {s[n]}
  BY <1>1 DEF ToSet, IsInjective
<1>4. ASSUME NEW k \in DOMAIN s, s[k] # s[n]
      PROVE  s[k] \in ToSet(t)
  <2>1. CASE k < n
    <3>1. k \in DOMAIN t /\ t[k] = s[k]
      BY <1>1, <2>1
    <3> QED
      BY <3>1 DEF ToSet
  <2>2. CASE k > n
    <3>1. k - 1 \in DOMAIN t /\ t[k - 1] = s[k]
      BY <1>1, <2>2
    <3> QED
      BY <3>1 DEF ToSet
  <2> QED
    BY <1>1, <1>4, <2>1, <2>2
<1>5. QED
  <2>1. ToSet(s) \ {s[n]} \subseteq ToSet(t)
    BY <1>4 DEF ToSet
  <2> QED
    BY <1>1, <1>2, <1>3, <2>1 DEF t

(* Sets of requests are finite, so their sizes move by one at a time.      *)
LEMMA CountOne ==
  ASSUME NEW A \in SUBSET Req, NEW r \in Req
  PROVE  /\ Cardinality(A) \in Nat
         /\ r \notin A => Cardinality(A \cup {r}) = Cardinality(A) + 1
         /\ r \in A => Cardinality(A \ {r}) = Cardinality(A) - 1 /\ Cardinality(A) > 0
<1>1. IsFiniteSet(A)
  BY SetAssumption, FS_Subset
<1>2. Cardinality(A) \in Nat
  BY <1>1, FS_CardinalityType
<1>3. r \in A => Cardinality(A) # 0
  BY <1>1, FS_EmptySet
<1>4. r \notin A => Cardinality(A \cup {r}) = Cardinality(A) + 1
  BY <1>1, FS_AddElement, Zenon
<1>5. r \in A => Cardinality(A \ {r}) = Cardinality(A) - 1
  BY <1>1, FS_RemoveElement, Zenon
<1> QED
  BY <1>2, <1>3, <1>4, <1>5

-----------------------------------------------------------------------------
(* The inductive invariant holds of an empty limiter.                      *)
LEMMA InitIInv == Init => IInv
<1> SUFFICES ASSUME Init PROVE IInv
  OBVIOUS
<1>1. TypeOK
  BY Limits, SetAssumption DEF Init, TypeOK, Place, Waiting, Holding
<1>2. PointerOK
  BY DEF Init, PointerOK
<1>3. \A i \in Inst : Holders(i) = {} /\ Waiters(i) = {} /\ Sleepers(i) = {}
  BY SetAssumption DEF Init, Holders, Waiters, Sleepers, Waiting, Holding
<1>4. SlotsAccountedFor /\ NoIdleSlotWhileQueued
  BY <1>3, FS_EmptySet DEF Init, SlotsAccountedFor, NoIdleSlotWhileQueued
<1>5. WaitingAccountedFor
  BY <1>3, EmptyFacts, FS_EmptySet DEF Init, WaitingAccountedFor
<1> QED
  BY <1>1, <1>2, <1>4, <1>5 DEF IInv

(* A goroutine that reaches or makes its hostLimiter occupies nothing yet. *)
LEMMA FindHostIInv ==
  ASSUME IInv, NEW r \in Req, NEW h \in Host, FindHost(r, h)
  PROVE  IInv'
<1>0. hosts[h] \in Inst
  BY DEF IInv, TypeOK, FindHost
<1>1. TypeOK'
  BY <1>0 DEF IInv, TypeOK, FindHost, counters, Place
<1>2. PointerOK'
  BY <1>0 DEF IInv, TypeOK, PointerOK, FindHost, counters
<1>3. \A i \in Inst : /\ Holders(i)' = Holders(i)
                      /\ Waiters(i)' = Waiters(i)
                      /\ Sleepers(i)' = Sleepers(i)
  BY SetAssumption DEF IInv, TypeOK, PointerOK, FindHost, Holders, Waiters, Sleepers, Waiting, Holding
<1>4. SlotsAccountedFor' /\ NoIdleSlotWhileQueued' /\ WaitingAccountedFor'
  BY <1>3 DEF IInv, FindHost, counters, SlotsAccountedFor, NoIdleSlotWhileQueued, WaitingAccountedFor
<1> QED
  BY <1>1, <1>2, <1>4 DEF IInv

(* A new hostLimiter starts with nothing, and nobody points to it yet.     *)
LEMMA MakeHostIInv ==
  ASSUME IInv, NEW r \in Req, NEW h \in Host, NEW n \in Inst, MakeHost(r, h, n)
  PROVE  IInv'
<1>1. TypeOK'
  BY Limits DEF IInv, TypeOK, MakeHost, Place
<1>2. PointerOK'
  BY SetAssumption DEF IInv, TypeOK, PointerOK, MakeHost
<1>3. \A i \in Inst \ {n} : /\ Holders(i)' = Holders(i)
                            /\ Waiters(i)' = Waiters(i)
                            /\ Sleepers(i)' = Sleepers(i)
  BY SetAssumption DEF IInv, TypeOK, PointerOK, MakeHost, Holders, Waiters, Sleepers, Waiting, Holding
<1>4. Holders(n)' = {} /\ Waiters(n)' = {} /\ Sleepers(n)' = {}
  BY DEF IInv, TypeOK, MakeHost, Free, Holders, Waiters, Sleepers, Waiting, Holding
<1>5. SlotsAccountedFor' /\ NoIdleSlotWhileQueued'
  BY <1>3, <1>4, FS_EmptySet DEF IInv, TypeOK, MakeHost, SlotsAccountedFor, NoIdleSlotWhileQueued
<1>6. WaitingAccountedFor'
  <2>1. ASSUME NEW i \in Inst \ {n}
        PROVE  waiters'[i] = waiters[i] /\ queued'[i] = queued[i] /\ sleeping'[i] = sleeping[i]
    BY DEF IInv, TypeOK, MakeHost
  <2>2. /\ waiters'[n] = <<>> /\ queued'[n] = 0 /\ sleeping'[n] = 0
    BY DEF IInv, TypeOK, MakeHost
  <2> QED
    BY <1>3, <1>4, <2>1, <2>2, EmptyFacts, FS_EmptySet DEF IInv, WaitingAccountedFor
<1> QED
  BY <1>1, <1>2, <1>5, <1>6 DEF IInv

(* Entering and leaving the sleep stage moves `sleeping' with the          *)
(* goroutine and touches no slot.                                          *)
LEMMA RejectIInv ==
  ASSUME IInv, NEW r \in Req, Reject(r)
  PROVE  IInv'
<1>0. inst[r] \in Inst
  BY SetAssumption DEF IInv, TypeOK, PointerOK, Reject
<1>1. TypeOK'
  <2>1. \A kept \in 0 .. recent[inst[r]] : kept \in 0 .. SleepLimit + 1
    BY <1>0, Limits DEF IInv, TypeOK
  <2> QED
    BY <1>0, <2>1 DEF IInv, TypeOK, Reject, Leave, Place
<1>2. PointerOK'
  BY DEF IInv, TypeOK, PointerOK, Reject, Leave
<1>3. \A i \in Inst : /\ Holders(i)' = Holders(i)
                      /\ Waiters(i)' = Waiters(i)
                      /\ Sleepers(i)' = Sleepers(i)
  BY SetAssumption DEF IInv, TypeOK, PointerOK, Reject, Leave, Holders, Waiters, Sleepers, Waiting, Holding
<1>4. SlotsAccountedFor' /\ NoIdleSlotWhileQueued' /\ WaitingAccountedFor'
  BY <1>3 DEF IInv, Reject, SlotsAccountedFor, NoIdleSlotWhileQueued, WaitingAccountedFor
<1> QED
  BY <1>1, <1>2, <1>4 DEF IInv

(* An admitted request goes on at once or is counted as a sleeper.         *)
LEMMA AdmitIInv ==
  ASSUME IInv, NEW r \in Req, Admit(r)
  PROVE  IInv'
<1>0. PICK i \in Inst : inst[r] = i
  BY SetAssumption DEF IInv, TypeOK, PointerOK, Admit
<1>1. PICK kept \in 0 .. recent[i] :
       IF kept + 1 > SleepLimit
       THEN /\ recent' = [recent EXCEPT ![i] = SleepLimit + 1]
            /\ sleeping' = [sleeping EXCEPT ![i] = @ + 1]
            /\ pc' = [pc EXCEPT ![r] = "sleeping"]
       ELSE /\ recent' = [recent EXCEPT ![i] = kept + 1]
            /\ pc' = [pc EXCEPT ![r] = "awake"]
            /\ UNCHANGED sleeping
  BY <1>0 DEF Admit
<1>2. kept \in Nat
  BY <1>0, Limits DEF IInv, TypeOK
<1>3. TypeOK'
  <2>1. kept + 1 > SleepLimit \/ kept + 1 \in 0 .. SleepLimit + 1
    BY <1>2, Limits
  <2>2. SleepLimit + 1 \in 0 .. SleepLimit + 1 /\ sleeping[i] + 1 \in Nat
    BY <1>0, Limits DEF IInv, TypeOK
  <2> QED
    BY <1>0, <1>1, <2>1, <2>2 DEF IInv, TypeOK, Admit, Place
<1>4. PointerOK'
  BY <1>1 DEF IInv, TypeOK, PointerOK, Admit
<1>5. \A j \in Inst : Holders(j)' = Holders(j) /\ Waiters(j)' = Waiters(j)
  BY <1>1 DEF IInv, TypeOK, Admit, Holders, Waiters, Waiting, Holding
<1>6. \A j \in Inst : sleeping'[j] = Cardinality(Sleepers(j)')
  <2>1. CASE kept + 1 > SleepLimit
    <3>1. Sleepers(i)' = Sleepers(i) \cup {r} /\ r \notin Sleepers(i)
      BY <1>0, <1>1, <2>1 DEF IInv, TypeOK, Admit, Sleepers
    <3>2. \A j \in Inst \ {i} : Sleepers(j)' = Sleepers(j)
      BY <1>0, <1>1, <2>1 DEF IInv, TypeOK, Admit, Sleepers
    <3>3. Cardinality(Sleepers(i)') = Cardinality(Sleepers(i)) + 1
      BY <3>1, CountOne DEF Sleepers
    <3>4. sleeping'[i] = sleeping[i] + 1 /\ \A j \in Inst \ {i} : sleeping'[j] = sleeping[j]
      BY <1>0, <1>1, <2>1 DEF IInv, TypeOK
    <3> QED
      BY <3>2, <3>3, <3>4 DEF IInv, WaitingAccountedFor
  <2>2. CASE ~(kept + 1 > SleepLimit)
    <3>1. \A j \in Inst : Sleepers(j)' = Sleepers(j)
      BY <1>1, <2>2 DEF IInv, TypeOK, Admit, Sleepers
    <3> QED
      BY <1>1, <2>2, <3>1 DEF IInv, WaitingAccountedFor
  <2> QED
    BY <2>1, <2>2
<1>7. SlotsAccountedFor' /\ NoIdleSlotWhileQueued'
  BY <1>5 DEF IInv, Admit, SlotsAccountedFor, NoIdleSlotWhileQueued
<1>8. WaitingAccountedFor'
  BY <1>5, <1>6 DEF IInv, Admit, WaitingAccountedFor
<1> QED
  BY <1>3, <1>4, <1>7, <1>8 DEF IInv

(* A sleeper that wakes or is cancelled is taken off the count.            *)
LEMMA SleepIInv ==
  ASSUME IInv, NEW r \in Req, SleepEnds(r) \/ SleepCanceled(r)
  PROVE  IInv'
<1>0. PICK i \in Inst : inst[r] = i
  BY SetAssumption DEF IInv, TypeOK, PointerOK, SleepEnds, SleepCanceled
<1>1. r \in Sleepers(i)
  BY <1>0 DEF SleepEnds, SleepCanceled, Sleepers
<1>2. sleeping[i] = Cardinality(Sleepers(i)) /\ sleeping[i] - 1 \in Nat
  <2>1. Sleepers(i) \in SUBSET Req
    BY DEF Sleepers
  <2>2. Cardinality(Sleepers(i)) \in Nat /\ Cardinality(Sleepers(i)) > 0
    BY <1>1, <2>1, CountOne
  <2>3. sleeping[i] = Cardinality(Sleepers(i))
    BY DEF IInv, WaitingAccountedFor
  <2> QED
    BY <2>2, <2>3
<1>3. TypeOK'
  <2>1. sleeping' = [sleeping EXCEPT ![i] = sleeping[i] - 1]
    BY <1>0 DEF SleepEnds, SleepCanceled
  <2>2. sleeping' \in [Inst -> Nat]
    BY <1>2, <2>1 DEF IInv, TypeOK
  <2> QED
    BY <2>2 DEF IInv, TypeOK, SleepEnds, SleepCanceled, Leave, Place
<1>4. PointerOK'
  <2>1. CASE SleepEnds(r)
    BY <2>1 DEF IInv, TypeOK, PointerOK, SleepEnds
  <2>2. CASE SleepCanceled(r)
    BY <2>2 DEF IInv, TypeOK, PointerOK, SleepCanceled, Leave
  <2> QED
    BY <2>1, <2>2
<1>5. \A j \in Inst : Holders(j)' = Holders(j) /\ Waiters(j)' = Waiters(j)
  <2>1. CASE SleepEnds(r)
    BY <2>1 DEF IInv, TypeOK, SleepEnds, Holders, Waiters, Waiting, Holding
  <2>2. CASE SleepCanceled(r)
    BY <2>2, SetAssumption DEF IInv, TypeOK, SleepCanceled, Leave, Holders, Waiters, Waiting, Holding
  <2> QED
    BY <2>1, <2>2
<1>6. \A j \in Inst : sleeping'[j] = Cardinality(Sleepers(j)')
  <2>1. Sleepers(i)' = Sleepers(i) \ {r}
    BY <1>0, SetAssumption DEF IInv, TypeOK, SleepEnds, SleepCanceled, Leave, Sleepers
  <2>2. \A j \in Inst \ {i} : Sleepers(j)' = Sleepers(j)
    BY <1>0, SetAssumption DEF IInv, TypeOK, SleepEnds, SleepCanceled, Leave, Sleepers
  <2>3. Cardinality(Sleepers(i)') = Cardinality(Sleepers(i)) - 1
    BY <1>1, <2>1, CountOne DEF Sleepers
  <2>4. sleeping'[i] = sleeping[i] - 1 /\ \A j \in Inst \ {i} : sleeping'[j] = sleeping[j]
    BY <1>0 DEF IInv, TypeOK, SleepEnds, SleepCanceled
  <2> QED
    BY <1>2, <2>2, <2>3, <2>4 DEF IInv, WaitingAccountedFor
<1>7. SlotsAccountedFor' /\ NoIdleSlotWhileQueued'
  BY <1>5 DEF IInv, SleepEnds, SleepCanceled, SlotsAccountedFor, NoIdleSlotWhileQueued
<1>8. WaitingAccountedFor'
  BY <1>5, <1>6 DEF IInv, SleepEnds, SleepCanceled, WaitingAccountedFor
<1> QED
  BY <1>3, <1>4, <1>7, <1>8 DEF IInv

(* A free slot is counted to the request that takes it.                    *)
LEMMA TakeSlotIInv ==
  ASSUME IInv, NEW r \in Req, TakeSlot(r)
  PROVE  IInv'
<1>0. PICK i \in Inst : inst[r] = i
  BY SetAssumption DEF IInv, TypeOK, PointerOK, TakeSlot
<1>1. processing[i] \in 0 .. Concurrent /\ processing[i] < Concurrent /\ waiters[i] = <<>>
  BY <1>0, Limits DEF IInv, TypeOK, TakeSlot, NoIdleSlotWhileQueued
<1>2. TypeOK'
  <2>1. processing' = [processing EXCEPT ![i] = processing[i] + 1]
    BY <1>0 DEF TakeSlot
  <2>2. processing[i] + 1 \in 0 .. Concurrent
    BY <1>1, Limits
  <2>3. processing' \in [Inst -> 0 .. Concurrent]
    BY <2>1, <2>2 DEF IInv, TypeOK
  <2> QED
    BY <2>3 DEF IInv, TypeOK, TakeSlot, Place, Holding
<1>3. PointerOK'
  BY DEF IInv, TypeOK, PointerOK, TakeSlot
<1>4. \A j \in Inst : Waiters(j)' = Waiters(j) /\ Sleepers(j)' = Sleepers(j)
  BY DEF IInv, TypeOK, TakeSlot, Waiters, Sleepers, Waiting
<1>5. SlotsAccountedFor'
  <2>1. Holders(i)' = Holders(i) \cup {r} /\ r \notin Holders(i)
    BY <1>0 DEF IInv, TypeOK, TakeSlot, Holders, Holding
  <2>2. \A j \in Inst \ {i} : Holders(j)' = Holders(j)
    BY <1>0 DEF IInv, TypeOK, TakeSlot, Holders, Holding
  <2>3. Cardinality(Holders(i)') = Cardinality(Holders(i)) + 1
    BY <2>1, CountOne DEF Holders
  <2>4. processing'[i] = processing[i] + 1 /\ \A j \in Inst \ {i} : processing'[j] = processing[j]
    BY <1>0 DEF IInv, TypeOK, TakeSlot
  <2> QED
    BY <2>2, <2>3, <2>4 DEF IInv, SlotsAccountedFor
<1>6. NoIdleSlotWhileQueued'
  <2>1. waiters' = waiters /\ \A j \in Inst \ {i} : processing'[j] = processing[j]
    BY <1>0 DEF IInv, TypeOK, TakeSlot
  <2> QED
    BY <1>1, <2>1 DEF IInv, NoIdleSlotWhileQueued
<1>7. WaitingAccountedFor'
  BY <1>4 DEF IInv, TakeSlot, WaitingAccountedFor
<1> QED
  BY <1>2, <1>3, <1>5, <1>6, <1>7 DEF IInv

(* A request joins the list at its end.                                    *)
LEMMA JoinQueueIInv ==
  ASSUME IInv, NEW r \in Req, JoinQueue(r)
  PROVE  IInv'
<1>0. PICK i \in Inst : inst[r] = i
  BY SetAssumption DEF IInv, TypeOK, PointerOK, JoinQueue
<1>1. waiters[i] \in Seq(Req) /\ IsInjective(waiters[i]) /\ r \notin ToSet(waiters[i])
  BY <1>0 DEF IInv, TypeOK, WaitingAccountedFor, JoinQueue, Waiters, Waiting
<1>2. /\ Append(waiters[i], r) \in Seq(Req)
      /\ Len(Append(waiters[i], r)) = Len(waiters[i]) + 1
      /\ IsInjective(Append(waiters[i], r))
      /\ ToSet(Append(waiters[i], r)) = ToSet(waiters[i]) \cup {r}
  BY <1>1, AppendFacts
<1>3. /\ waiters'[i] = Append(waiters[i], r) /\ queued'[i] = queued[i] + 1
      /\ \A j \in Inst \ {i} : waiters'[j] = waiters[j] /\ queued'[j] = queued[j]
  BY <1>0 DEF IInv, TypeOK, JoinQueue
<1>4. TypeOK'
  BY <1>0, <1>2 DEF IInv, TypeOK, JoinQueue, Place, Waiting
<1>5. PointerOK'
  BY DEF IInv, TypeOK, PointerOK, JoinQueue
<1>6. \A j \in Inst : Holders(j)' = Holders(j) /\ Sleepers(j)' = Sleepers(j)
  BY DEF IInv, TypeOK, JoinQueue, Holders, Sleepers, Holding
<1>7. SlotsAccountedFor'
  BY <1>6 DEF IInv, JoinQueue, SlotsAccountedFor
<1>8. NoIdleSlotWhileQueued'
  <2>1. processing[i] = Concurrent
    BY <1>0, Limits DEF IInv, TypeOK, JoinQueue
  <2> QED
    BY <1>3, <2>1 DEF IInv, JoinQueue, NoIdleSlotWhileQueued
<1>9. WaitingAccountedFor'
  <2>1. Waiters(i)' = Waiters(i) \cup {r} /\ \A j \in Inst \ {i} : Waiters(j)' = Waiters(j)
    BY <1>0 DEF IInv, TypeOK, JoinQueue, Waiters, Waiting
  <2>2. \A j \in Inst : sleeping'[j] = Cardinality(Sleepers(j)')
    BY <1>6 DEF IInv, JoinQueue, WaitingAccountedFor
  <2>3. ASSUME NEW j \in Inst
        PROVE  queued'[j] = Len(waiters'[j]) /\ ToSet(waiters'[j]) = Waiters(j)' /\ IsInjective(waiters'[j])
    BY <1>2, <1>3, <2>1 DEF IInv, WaitingAccountedFor
  <2> QED
    BY <2>2, <2>3 DEF WaitingAccountedFor
<1> QED
  BY <1>4, <1>5, <1>7, <1>8, <1>9 DEF IInv

(* The two branches of the select move no slot and no channel.             *)
LEMMA SelectIInv ==
  ASSUME IInv, NEW r \in Req, Wake(r) \/ GiveUp(r)
  PROVE  IInv'
<1>1. PICK p \in Place : /\ pc' = [pc EXCEPT ![r] = p]
                         /\ pc[r] # "out" /\ p # "out"
                         /\ pc[r] \in Holding <=> p \in Holding
                         /\ pc[r] \in Waiting <=> p \in Waiting
                         /\ pc[r] # "sleeping" /\ p # "sleeping"
  BY DEF Wake, GiveUp, Place, Holding, Waiting
<1>2. UNCHANGED <<hosts, counters, inst, origin, gone>>
  BY DEF Wake, GiveUp
<1>3. TypeOK'
  BY <1>1, <1>2 DEF IInv, TypeOK, counters
<1>4. PointerOK'
  BY <1>1, <1>2 DEF IInv, TypeOK, PointerOK
<1>5. \A i \in Inst : /\ Holders(i)' = Holders(i)
                      /\ Waiters(i)' = Waiters(i)
                      /\ Sleepers(i)' = Sleepers(i)
  BY <1>1, <1>2 DEF IInv, TypeOK, Holders, Waiters, Sleepers
<1>6. SlotsAccountedFor' /\ NoIdleSlotWhileQueued' /\ WaitingAccountedFor'
  BY <1>2, <1>5 DEF IInv, counters, SlotsAccountedFor, NoIdleSlotWhileQueued, WaitingAccountedFor
<1> QED
  BY <1>3, <1>4, <1>6 DEF IInv

(* The heart of the argument: a slot that is given back goes to the head   *)
(* of the list, which then leaves the list and becomes a holder, or is     *)
(* no longer counted.                                                      *)
LEMMA PassSlotOnIInv ==
  ASSUME IInv, NEW r \in Req, pc[r] \in Holding, PassSlotOn(r)
  PROVE  IInv'
<1>0. PICK i \in Inst : inst[r] = i
  BY SetAssumption DEF IInv, TypeOK, PointerOK, Holding
<1>1. r \in Holders(i) /\ processing[i] = Cardinality(Holders(i))
  BY <1>0 DEF IInv, SlotsAccountedFor, Holders
<1>2. /\ hosts' = hosts /\ recent' = recent /\ sleeping' = sleeping
      /\ idle' = idle /\ origin' = origin
      /\ inst' = [inst EXCEPT ![r] = NoInst] /\ gone' = [gone EXCEPT ![r] = FALSE]
  BY DEF PassSlotOn, Leave
<1>3. CASE waiters[i] # <<>>
  <2> DEFINE n == Head(waiters[i])
  <2>1. /\ waiters[i] \in Seq(Req) /\ IsInjective(waiters[i])
        /\ ToSet(waiters[i]) = Waiters(i) /\ queued[i] = Len(waiters[i])
    BY <1>0 DEF IInv, TypeOK, WaitingAccountedFor
  <2>2. /\ Tail(waiters[i]) \in Seq(Req) /\ Len(Tail(waiters[i])) = Len(waiters[i]) - 1
        /\ Len(waiters[i]) - 1 \in Nat
        /\ n \in ToSet(waiters[i])
        /\ IsInjective(Tail(waiters[i]))
        /\ ToSet(Tail(waiters[i])) = ToSet(waiters[i]) \ {n}
    BY <1>3, <2>1, TailFacts
  <2>3. n \in Req /\ inst[n] = i /\ pc[n] \in Waiting /\ n # r
    BY <2>1, <2>2 DEF Waiters, Waiting, Holding
  <2>4. PICK m \in Req : m = n
    BY <2>3
  <2> HIDE DEF n
  <2>5. PICK p \in {"granted", "returning"} : pc' = [pc EXCEPT ![m] = p, ![r] = "out"]
    BY <1>0, <1>3, <2>3, <2>4 DEF PassSlotOn, Closed, n, IInv, TypeOK
  <2>6. /\ waiters' = [waiters EXCEPT ![i] = Tail(waiters[i])]
        /\ queued' = [queued EXCEPT ![i] = queued[i] - 1]
        /\ processing' = processing
    BY <1>0, <1>3 DEF PassSlotOn
  <2>7. /\ pc'[m] = p /\ pc'[r] = "out" /\ \A q \in Req \ {m, r} : pc'[q] = pc[q]
        /\ inst'[m] = i /\ inst'[r] = NoInst /\ \A q \in Req \ {r} : inst'[q] = inst[q]
    BY <1>2, <2>3, <2>4, <2>5 DEF IInv, TypeOK
  <2>8. TypeOK'
    BY <1>2, <2>1, <2>2, <2>5, <2>6 DEF IInv, TypeOK, Place, Holding
  <2>9. PointerOK'
    BY <2>3, <2>4, <2>7 DEF IInv, PointerOK, Waiting
  <2>10. \A j \in Inst : Sleepers(j)' = Sleepers(j)
    BY <1>1, <2>3, <2>4, <2>7, SetAssumption DEF Sleepers, Holders, Waiting, Holding
  <2>11. /\ Holders(i)' = (Holders(i) \ {r}) \cup {m} /\ m \notin Holders(i)
         /\ \A j \in Inst \ {i} : Holders(j)' = Holders(j)
    BY <1>0, <2>3, <2>4, <2>7, SetAssumption DEF Holders, Waiting, Holding
  <2>12. /\ Waiters(i)' = Waiters(i) \ {m}
         /\ \A j \in Inst \ {i} : Waiters(j)' = Waiters(j)
    BY <1>0, <1>1, <2>3, <2>4, <2>7, SetAssumption DEF Waiters, Holders, Waiting, Holding
  <2>13. SlotsAccountedFor'
    <3>1. Cardinality(Holders(i) \ {r}) = Cardinality(Holders(i)) - 1 /\ Cardinality(Holders(i)) \in Nat
      BY <1>1, CountOne DEF Holders
    <3>2. Cardinality((Holders(i) \ {r}) \cup {m}) = Cardinality(Holders(i) \ {r}) + 1
      BY <2>11, CountOne DEF Holders
    <3>3. Cardinality(Holders(i)') = Cardinality(Holders(i))
      BY <2>11, <3>1, <3>2
    <3> QED
      BY <2>6, <2>11, <3>3 DEF IInv, SlotsAccountedFor
  <2>14. \A j \in Inst : waiters'[j] # <<>> => waiters[j] # <<>>
    BY <1>3, <2>6 DEF IInv, TypeOK
  <2>15. NoIdleSlotWhileQueued'
    BY <2>6, <2>14 DEF IInv, NoIdleSlotWhileQueued
  <2>16. WaitingAccountedFor'
    <3>1. /\ waiters'[i] = Tail(waiters[i]) /\ queued'[i] = queued[i] - 1
          /\ \A j \in Inst \ {i} : waiters'[j] = waiters[j] /\ queued'[j] = queued[j]
      BY <2>6 DEF IInv, TypeOK
    <3>2. ASSUME NEW j \in Inst
          PROVE  queued'[j] = Len(waiters'[j]) /\ ToSet(waiters'[j]) = Waiters(j)' /\ IsInjective(waiters'[j])
      BY <2>1, <2>2, <2>4, <2>12, <3>1 DEF IInv, WaitingAccountedFor
    <3>3. \A j \in Inst : sleeping'[j] = Cardinality(Sleepers(j)')
      BY <1>2, <2>10 DEF IInv, WaitingAccountedFor
    <3> QED
      BY <3>2, <3>3 DEF WaitingAccountedFor
  <2> QED
    BY <2>8, <2>9, <2>13, <2>15, <2>16 DEF IInv
<1>4. CASE waiters[i] = <<>>
  <2>1. /\ processing' = [processing EXCEPT ![i] = @ - 1]
        /\ pc' = [pc EXCEPT ![r] = "out"]
        /\ waiters' = waiters /\ queued' = queued
    BY <1>0, <1>4 DEF PassSlotOn
  <2>2. processing[i] - 1 \in 0 .. Concurrent
    <3>1. Holders(i) \in SUBSET Req
      BY DEF Holders
    <3>2. Cardinality(Holders(i)) > 0
      BY <1>1, <3>1, CountOne
    <3>3. processing[i] \in 0 .. Concurrent
      BY DEF IInv, TypeOK
    <3> QED
      BY <1>1, <3>2, <3>3, Limits
  <2>3. TypeOK'
    BY <1>2, <2>1, <2>2 DEF IInv, TypeOK, Place
  <2>4. PointerOK'
    BY <1>2, <2>1 DEF IInv, TypeOK, PointerOK
  <2>5. \A j \in Inst : Waiters(j)' = Waiters(j) /\ Sleepers(j)' = Sleepers(j)
    BY <1>2, <2>1, SetAssumption DEF IInv, TypeOK, Waiters, Sleepers, Waiting, Holding
  <2>6. Holders(i)' = Holders(i) \ {r} /\ \A j \in Inst \ {i} : Holders(j)' = Holders(j)
    BY <1>0, <1>2, <2>1, SetAssumption DEF IInv, TypeOK, Holders, Holding
  <2>7. SlotsAccountedFor'
    <3>1. Cardinality(Holders(i)') = Cardinality(Holders(i)) - 1
      BY <1>1, <2>6, CountOne DEF Holders
    <3>2. processing'[i] = processing[i] - 1 /\ \A j \in Inst \ {i} : processing'[j] = processing[j]
      BY <2>1 DEF IInv, TypeOK
    <3> QED
      BY <1>1, <2>6, <3>1, <3>2 DEF IInv, SlotsAccountedFor
  <2>8. NoIdleSlotWhileQueued'
    BY <1>4, <2>1 DEF IInv, TypeOK, NoIdleSlotWhileQueued
  <2>9. WaitingAccountedFor'
    BY <1>2, <2>1, <2>5 DEF IInv, WaitingAccountedFor
  <2> QED
    BY <2>3, <2>4, <2>7, <2>8, <2>9 DEF IInv
<1> QED
  BY <1>3, <1>4

(* A cancelled wait leaves the list from wherever it stands in it.         *)
LEMMA AbandonQueueIInv ==
  ASSUME IInv, NEW r \in Req, AbandonQueue(r)
  PROVE  IInv'
<1>0. PICK i \in Inst : inst[r] = i
  BY SetAssumption DEF IInv, TypeOK, PointerOK, AbandonQueue
<1>1. PICK k \in DOMAIN waiters[i] :
        waiters[i][k] = r /\ waiters' = [waiters EXCEPT ![i] = RemoveAt(waiters[i], k)]
  BY <1>0 DEF AbandonQueue
<1> DEFINE left == RemoveAt(waiters[i], k)
<1>2. waiters[i] \in Seq(Req) /\ IsInjective(waiters[i]) /\ queued[i] = Len(waiters[i])
  BY DEF IInv, TypeOK, WaitingAccountedFor
<1>3. /\ left \in Seq(Req) /\ Len(left) = Len(waiters[i]) - 1 /\ IsInjective(left)
      /\ ToSet(left) = ToSet(waiters[i]) \ {r}
      /\ Len(waiters[i]) - 1 \in Nat
  BY <1>1, <1>2, RemoveAtFacts
<1> HIDE DEF left
<1>4. /\ waiters' = [waiters EXCEPT ![i] = left]
      /\ queued' = [queued EXCEPT ![i] = queued[i] - 1]
      /\ pc' = [pc EXCEPT ![r] = "out"] /\ pc[r] = "leaving"
      /\ inst' = [inst EXCEPT ![r] = NoInst] /\ gone' = [gone EXCEPT ![r] = FALSE]
      /\ UNCHANGED <<hosts, recent, sleeping, processing, idle, origin>>
  BY <1>0, <1>1 DEF AbandonQueue, Leave, left
<1>5. /\ waiters'[i] = left /\ queued'[i] = queued[i] - 1
      /\ \A j \in Inst \ {i} : waiters'[j] = waiters[j] /\ queued'[j] = queued[j]
  BY <1>4 DEF IInv, TypeOK
<1>6. TypeOK'
  BY <1>2, <1>3, <1>4 DEF IInv, TypeOK, Place
<1>7. PointerOK'
  BY <1>4 DEF IInv, TypeOK, PointerOK
<1>8. \A j \in Inst : Holders(j)' = Holders(j) /\ Sleepers(j)' = Sleepers(j)
  BY <1>4, SetAssumption DEF IInv, TypeOK, Holders, Sleepers, Holding
<1>9. Waiters(i)' = Waiters(i) \ {r} /\ \A j \in Inst \ {i} : Waiters(j)' = Waiters(j)
  BY <1>0, <1>4, SetAssumption DEF IInv, TypeOK, Waiters, Waiting
<1>10. SlotsAccountedFor'
  BY <1>4, <1>8 DEF IInv, SlotsAccountedFor
<1>11. NoIdleSlotWhileQueued'
  <2>1. waiters[i] # <<>>
    BY <1>1, <1>2
  <2> QED
    BY <1>4, <1>5, <2>1 DEF IInv, NoIdleSlotWhileQueued
<1>12. WaitingAccountedFor'
  <2>1. ASSUME NEW j \in Inst
        PROVE  queued'[j] = Len(waiters'[j]) /\ ToSet(waiters'[j]) = Waiters(j)' /\ IsInjective(waiters'[j])
    BY <1>2, <1>3, <1>5, <1>9 DEF IInv, WaitingAccountedFor
  <2>2. \A j \in Inst : sleeping'[j] = Cardinality(Sleepers(j)')
    BY <1>4, <1>8 DEF IInv, WaitingAccountedFor
  <2> QED
    BY <2>1, <2>2 DEF WaitingAccountedFor
<1> QED
  BY <1>6, <1>7, <1>10, <1>11, <1>12 DEF IInv

(* Cleanup, idle time and a client hanging up touch no counter.            *)
LEMMA EnvironmentIInv ==
  ASSUME IInv,
         \/ \E h \in Host : Cleanup(h)
         \/ \E i \in Inst : BecomeIdle(i)
         \/ \E r \in Req : HangUp(r)
         \/ UNCHANGED vars
  PROVE  IInv'
<1>1. UNCHANGED <<recent, sleeping, queued, processing, waiters, pc, inst, origin>>
  BY DEF Cleanup, BecomeIdle, HangUp, vars, counters
<1>2. TypeOK'
  <2>1. CASE \E h \in Host : Cleanup(h)
    BY <2>1 DEF IInv, TypeOK, Cleanup, counters
  <2>2. CASE \E i \in Inst : BecomeIdle(i)
    BY <2>2 DEF IInv, TypeOK, BecomeIdle
  <2>3. CASE \E r \in Req : HangUp(r)
    BY <2>3 DEF IInv, TypeOK, HangUp, counters
  <2>4. CASE UNCHANGED vars
    BY <2>4 DEF IInv, TypeOK, vars
  <2> QED
    BY <2>1, <2>2, <2>3, <2>4
<1>3. PointerOK'
  BY <1>1 DEF IInv, PointerOK
<1>4. \A i \in Inst : /\ Holders(i)' = Holders(i)
                      /\ Waiters(i)' = Waiters(i)
                      /\ Sleepers(i)' = Sleepers(i)
  BY <1>1 DEF Holders, Waiters, Sleepers
<1>5. SlotsAccountedFor' /\ NoIdleSlotWhileQueued' /\ WaitingAccountedFor'
  BY <1>1, <1>4 DEF IInv, SlotsAccountedFor, NoIdleSlotWhileQueued, WaitingAccountedFor
<1> QED
  BY <1>2, <1>3, <1>5 DEF IInv

(* Every step of the limiter preserves the inductive invariant.            *)
LEMMA NextIInv == IInv /\ [Next]_vars => IInv'
<1> SUFFICES ASSUME IInv, [Next]_vars PROVE IInv'
  OBVIOUS
<1>1. ASSUME NEW r \in Req, Arrive(r) PROVE IInv'
  BY <1>1, FindHostIInv, MakeHostIInv DEF Arrive
<1>2. ASSUME NEW r \in Req, Acquire(r) PROVE IInv'
  <2>1. CASE AbandonSlot(r)
    BY <2>1, PassSlotOnIInv DEF AbandonSlot, Holding
  <2> QED
    BY <1>2, <2>1, RejectIInv, AdmitIInv, SleepIInv, TakeSlotIInv, JoinQueueIInv,
       SelectIInv, AbandonQueueIInv DEF Acquire
<1>3. ASSUME NEW r \in Req, Release(r) PROVE IInv'
  BY <1>3, PassSlotOnIInv DEF Release, Holding
<1> QED
  BY <1>1, <1>2, <1>3, EnvironmentIInv DEF Next

(* Everything the proof carries along, in every reachable state.           *)
LEMMA AlwaysIInv == Spec => []IInv
BY InitIInv, NextIInv, PTL DEF Spec

-----------------------------------------------------------------------------
(* The limiter's fields keep their types, for any limits: in particular no *)
(* sequence of arrivals, cancellations and releases drives a counter of    *)
(* limiter.go below zero or `processing' above `concurrent'.               *)
THEOREM TypeCorrect == Spec => []TypeOK
BY AlwaysIInv, PTL DEF IInv

(* No slot is lost or duplicated by release(), abandon() or their races.   *)
THEOREM SlotsConserved == Spec => []SlotsAccountedFor
BY AlwaysIInv, PTL DEF IInv

(* At most `concurrent' requests hold a slot of one hostLimiter.           *)
THEOREM Bounded == Spec => []ConcurrencyBound
<1>1. IInv => ConcurrencyBound
  BY Limits DEF IInv, TypeOK, SlotsAccountedFor, ConcurrencyBound
<1> QED
  BY <1>1, AlwaysIInv, PTL

(* A request is in the queue only while all slots are taken.               *)
THEOREM NoLostWakeUp == Spec => []NoIdleSlotWhileQueued
BY AlwaysIInv, PTL DEF IInv

(* The counters behind the 429 decision agree with who really waits.       *)
THEOREM WaitingConserved == Spec => []WaitingAccountedFor
BY AlwaysIInv, PTL DEF IInv

(* Slots are handed out in queue order: a newcomer finds a free slot only  *)
(* when the list is empty, and a returned slot goes to the list's head.    *)
THEOREM FirstComeFirstServed == Spec => NoOvertaking
<1>1. IInv /\ [Next]_vars => [InOrder]_vars
  <2> SUFFICES ASSUME IInv, Next,
                      NEW r \in Req, NEW s \in Req,
                      pc[r] \notin Holding, pc'[r] \in Holding,
                      pc[s] \in Waiting, pc'[s] \in Waiting,
                      inst[r] = inst[s]
               PROVE  \E j, k \in DOMAIN waiters[inst[r]] :
                        j < k /\ waiters[inst[r]][j] = r /\ waiters[inst[r]][k] = s
    BY DEF InOrder
  <2>0. PICK i \in Inst : inst[s] = i
    BY SetAssumption DEF IInv, TypeOK, PointerOK, Waiting
  <2>1. PICK k \in DOMAIN waiters[i] : waiters[i][k] = s
    BY <2>0 DEF IInv, WaitingAccountedFor, ToSet, Waiters
  <2>2. waiters[i] \in Seq(Req) /\ waiters[i] # <<>> /\ k \in 1 .. Len(waiters[i])
        /\ processing[i] = Concurrent
    BY <2>1 DEF IInv, TypeOK, NoIdleSlotWhileQueued
  <2>3. ASSUME NEW q \in Req, pc[q] \in Holding, PassSlotOn(q)
        PROVE  r = Head(waiters[i])
    <3>1. r # q
      BY <2>3
    <3>2. /\ waiters[inst[q]] # <<>>
          /\ pc' = [pc EXCEPT ![Head(waiters[inst[q]])] = Closed(@), ![q] = "out"]
      BY <2>3, <3>1 DEF PassSlotOn, IInv, TypeOK
    <3>3. r = Head(waiters[inst[q]])
      BY <3>1, <3>2 DEF IInv, TypeOK
    <3>4. inst[q] \in Inst
      BY <2>3, SetAssumption DEF IInv, TypeOK, PointerOK, Holding
    <3>5. r \in ToSet(waiters[inst[q]])
      BY <3>2, <3>3, <3>4, TailFacts DEF IInv, TypeOK, WaitingAccountedFor
    <3>6. inst[r] = inst[q]
      BY <3>4, <3>5 DEF IInv, WaitingAccountedFor, Waiters
    <3> QED
      BY <2>0, <3>3, <3>6
  <2>4. r = Head(waiters[i])
    <3>1. CASE \E q \in Req : Release(q) \/ AbandonSlot(q)
      BY <2>3, <3>1 DEF Release, AbandonSlot, Holding
    <3>2. CASE \E q \in Req : TakeSlot(q)
      <4>1. PICK q \in Req : TakeSlot(q)
        BY <3>2
      <4>2. q = r
        BY <4>1 DEF TakeSlot, IInv, TypeOK
      <4> QED
        BY <2>0, <2>2, <4>1, <4>2, Limits DEF TakeSlot
    <3>3. CASE \E q \in Req : Wake(q) \/ GiveUp(q)
      BY <3>3 DEF Wake, GiveUp, IInv, TypeOK, Holding
    <3>4. CASE \E q \in Req : \/ Reject(q) \/ Admit(q) \/ SleepEnds(q) \/ SleepCanceled(q)
                              \/ JoinQueue(q) \/ AbandonQueue(q) \/ Arrive(q)
      BY <3>4 DEF Reject, Admit, SleepEnds, SleepCanceled, JoinQueue, AbandonQueue, Arrive,
                  FindHost, MakeHost, IInv, TypeOK, Holding
    <3>5. CASE \/ \E q \in Req : HangUp(q)
               \/ \E h \in Host : Cleanup(h)
               \/ \E n \in Inst : BecomeIdle(n)
      BY <3>5 DEF HangUp, Cleanup, BecomeIdle
    <3> QED
      BY <3>1, <3>2, <3>3, <3>4, <3>5 DEF Next, Acquire
  <2>5. r # s
    BY DEF Holding, Waiting
  <2>6. 1 \in DOMAIN waiters[i] /\ waiters[i][1] = r /\ 1 < k
    BY <2>1, <2>2, <2>4, <2>5
  <2> QED
    BY <2>0, <2>1, <2>6
<1> QED
  BY <1>1, AlwaysIInv, PTL DEF Spec, NoOvertaking
=============================================================================
