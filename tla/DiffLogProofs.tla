---------------------------- MODULE DiffLogProofs ----------------------------
(***************************************************************************)
(* The diff log keeps its evidence, its counts and its bounds through      *)
(* crashes, failed writes and failed rotations, for any number of records, *)
(* files and restarts: proofs checked by TLAPS.                            *)
(***************************************************************************)
EXTENDS DiffLog, TLAPS, SequenceTheorems

(* A process that is not there has no goroutine half-way through anything. *)
DownIsQuiet ==
  proc = "down" => snapshot = NoStats /\ \A r \in Rec : stage[r] \in {"new", "over"}

(* A rotated file that is not there has no bytes.                          *)
AbsentIsEmpty == \A n \in 1 .. MaxFiles : ~history[n].there => history[n].bytes = << >>

(* What the files are made of.                                             *)
Bytes == Seq(Int \X Nat)

USE DEF files

Cumulative == {"compared", "mismatched", "logged", "rotations", "restarts"}

(* The counters in memory are never behind the checkpoint on disk, nor     *)
(* behind the clone that is about to replace it.                           *)
MemoryIsAhead ==
  \A c \in Cumulative :
    /\ proc # "down" => stats[c] >= Persisted(c)
    /\ snapshot # NoStats => snapshot[c] >= Persisted(c) /\ stats[c] >= snapshot[c]

(* The inductive invariant.                                                *)
IInv ==
  /\ TypeOK
  /\ DownIsQuiet
  /\ NoSendOnClosedQueue
  /\ DiskBounded
  /\ AbsentIsEmpty
  /\ AcceptedIsAccountedFor
  /\ MemoryIsAhead

-----------------------------------------------------------------------------
(* Lemmas about records, lists and files.                                  *)

(* Counters and the lack of them are told apart.                           *)
LEMMA NoStatsIsNone == NoStats \notin Counters
BY DEF NoStats, Counters

(* A process that found no checkpoint counts from zero.                    *)
LEMMA ZeroCounters == Zero \in Counters
BY DEF Zero, Counters

(* loadStats yields counters, whatever was saved.                          *)
LEMMA LoadedCounters ==
  ASSUME TypeOK
  PROVE  loadStats(saved) \in Counters
BY ZeroCounters DEF TypeOK, loadStats

(* Counting on never takes a counter back.                                 *)
NotBehind(t, s) ==
  t \in Counters /\ \A c \in Cumulative : s[c] \in Nat /\ t[c] \in Nat /\ t[c] >= s[c]

(* Counting never goes backwards.                                          *)
LEMMA CountingUp ==
  ASSUME NEW s \in Counters, NEW i \in Nat, NEW j \in Nat
  PROVE  /\ NotBehind([s EXCEPT !.compared = @ + i, !.mismatched = @ + j], s)
         /\ NotBehind([s EXCEPT !.compared = @ + i], s)
         /\ NotBehind([s EXCEPT !.logged = @ + i, !.rotations = @ + j], s)
         /\ NotBehind([s EXCEPT !.rotations = @ + i], s)
         /\ NotBehind([s EXCEPT !.restarts = @ + i], s)
         /\ NotBehind([s EXCEPT !.dropped = i, !.errors = j], s)
<1> USE DEF NotBehind, Counters, Cumulative
<1>1. NotBehind([s EXCEPT !.compared = @ + i, !.mismatched = @ + j], s)
  <2> DEFINE t == [s EXCEPT !.compared = @ + i]
             u == [t EXCEPT !.mismatched = @ + j]
  <2>1. NotBehind(t, s)
    OBVIOUS
  <2> HIDE DEF t
  <2>2. NotBehind(u, t)
    BY <2>1
  <2>3. u = [s EXCEPT !.compared = @ + i, !.mismatched = @ + j]
    BY DEF t
  <2> HIDE DEF u
  <2>4. NotBehind(u, s)
    BY <2>1, <2>2
  <2> QED
    BY <2>3, <2>4
<1>2. NotBehind([s EXCEPT !.compared = @ + i], s)
  OBVIOUS
<1>3. NotBehind([s EXCEPT !.logged = @ + i, !.rotations = @ + j], s)
  <2> DEFINE t == [s EXCEPT !.logged = @ + i]
             u == [t EXCEPT !.rotations = @ + j]
  <2>1. NotBehind(t, s)
    OBVIOUS
  <2> HIDE DEF t
  <2>2. NotBehind(u, t)
    BY <2>1
  <2>3. u = [s EXCEPT !.logged = @ + i, !.rotations = @ + j]
    BY DEF t
  <2> HIDE DEF u
  <2>4. NotBehind(u, s)
    BY <2>1, <2>2
  <2> QED
    BY <2>3, <2>4
<1>4. NotBehind([s EXCEPT !.rotations = @ + i], s)
  OBVIOUS
<1>5. NotBehind([s EXCEPT !.restarts = @ + i], s)
  OBVIOUS
<1>6. NotBehind([s EXCEPT !.dropped = i, !.errors = j], s)
  <2> DEFINE t == [s EXCEPT !.dropped = i]
             u == [t EXCEPT !.errors = j]
  <2>1. NotBehind(t, s)
    OBVIOUS
  <2> HIDE DEF t
  <2>2. NotBehind(u, t)
    BY <2>1
  <2>3. u = [s EXCEPT !.dropped = i, !.errors = j]
    BY DEF t
  <2> HIDE DEF u
  <2>4. NotBehind(u, s)
    BY <2>1, <2>2
  <2> QED
    BY <2>3, <2>4
<1> QED
  BY <1>1, <1>2, <1>3, <1>4, <1>5, <1>6

(* The cumulative counters are numbers.                                    *)
LEMMA CounterFields == \A s \in Counters : \A c \in Cumulative : s[c] \in Nat
BY DEF Counters, Cumulative

(* A part of a line is that many bytes, and fits wherever it is alone.     *)
LEMMA PartFacts ==
  ASSUME NEW r \in Rec, NEW k \in 0 .. Length[r]
  PROVE  /\ Part(r, k) \in Bytes /\ Len(Part(r, k)) = k /\ Fits(Part(r, k))
         /\ Length[r] \in Nat \ {0}
<1>1. Length[r] \in Nat \ {0} /\ r \in Int
  BY OptionsAssumption DEF Rec
<1>2. \A b \in 1 .. k : <<r, b>> \in Int \X Nat
  BY <1>1
<1>3. Part(r, k) \in Bytes /\ Len(Part(r, k)) = k
  BY <1>1, <1>2 DEF Part, Bytes
<1> QED
  BY <1>1, <1>3 DEF Fits

(* The invariant holds at the start.                                       *)
LEMMA InitIInv == Init => IInv
<1> SUFFICES ASSUME Init PROVE IInv
  OBVIOUS
<1> USE DEF Init
<1>1. /\ active \in Bytes /\ Fits(active)
      /\ history \in [1 .. MaxFiles -> [there : BOOLEAN, bytes : Bytes]]
      /\ \A n \in 1 .. MaxFiles : Fits(history[n].bytes)
      /\ \A n \in 1 .. MaxFiles : ~history[n].there => history[n].bytes = << >>
      /\ saved \in Counters \cup {NoStats}
  <2>1. CASE /\ active = << >> /\ history = [n \in 1 .. MaxFiles |-> Absent]
             /\ saved = NoStats
    <3>1. << >> \in Bytes /\ Fits(<< >>)
      BY OptionsAssumption DEF Bytes, Fits
    <3> QED
      BY <2>1, <3>1 DEF Absent
  <2>2. CASE /\ active = Older(0)
             /\ history = [n \in 1 .. MaxFiles |-> File(Older(n))]
             /\ saved = [EarlierRun EXCEPT !.rotations = MaxFiles, !.restarts = 1]
    <3>1. ASSUME NEW n \in Nat PROVE Older(n) \in Bytes /\ Fits(Older(n))
      <4>1. \A b \in 1 .. MaxFileBytes : <<-(n + 1), b>> \in Int \X Nat
        BY OptionsAssumption
      <4>2. MaxFileBytes \in Nat /\ Older(n) \in [1 .. MaxFileBytes -> Int \X Nat]
        BY <4>1, OptionsAssumption DEF Older
      <4>3. Older(n) \in Bytes /\ Len(Older(n)) = MaxFileBytes
        BY <4>2 DEF Bytes
      <4> QED
        BY <4>3, OptionsAssumption DEF Fits
    <3>2. \A n \in 1 .. MaxFiles : history[n] = File(Older(n)) /\ n \in Nat
      BY <2>2, OptionsAssumption
    <3>3. saved \in Counters
      <4>1. MaxFiles + 1 \in Nat
        BY OptionsAssumption
      <4> QED
        BY <2>2, <4>1, OptionsAssumption DEF EarlierRun, Zero, Counters
    <3>4. history \in [1 .. MaxFiles -> [there : BOOLEAN, bytes : Bytes]]
      BY <2>2, <3>1, OptionsAssumption DEF File
    <3>5. Older(0) \in Bytes /\ Fits(Older(0))
      BY <3>1
    <3> QED
      BY <2>2, <3>1, <3>2, <3>3, <3>4, <3>5, OptionsAssumption DEF File
  <2> QED
    BY <2>1, <2>2
<1>2. TypeOK
  <2>1. queue \in Seq(Rec) /\ Len(queue) <= QueueSize
    BY OptionsAssumption
  <2>2. /\ stage \in [Rec -> {"new", "ready", "sending", "over"}]
        /\ matches \in 0 .. MaxMatches /\ snapshot \in Counters \cup {NoStats}
        /\ stats \in Counters
    BY ZeroCounters, OptionsAssumption
  <2> QED
    BY <1>1, <2>1, <2>2 DEF TypeOK, Bytes
<1>3. DownIsQuiet /\ NoSendOnClosedQueue /\ AcceptedIsAccountedFor /\ MemoryIsAhead
  BY DEF DownIsQuiet, NoSendOnClosedQueue, AcceptedIsAccountedFor, MemoryIsAhead
<1> QED
  BY <1>1, <1>2, <1>3 DEF IInv, DiskBounded, AbsentIsEmpty

(* Memory stays ahead of the disk in a step that only counts on.           *)
LEMMA StaysAhead ==
  ASSUME IInv, UNCHANGED <<saved, snapshot>>, NotBehind(stats', stats),
         proc' # "down" => proc # "down"
  PROVE  MemoryIsAhead'
<1> SUFFICES ASSUME NEW c \in Cumulative
             PROVE  /\ proc' # "down" => stats'[c] >= Persisted(c)
                    /\ snapshot # NoStats => snapshot[c] >= Persisted(c) /\ stats'[c] >= snapshot[c]
  BY DEF MemoryIsAhead, Persisted
<1>1. stats'[c] >= stats[c] /\ stats'[c] \in Nat /\ stats[c] \in Nat
  BY DEF NotBehind
<1>2. Persisted(c) \in Nat
  BY LoadedCounters, CounterFields DEF IInv, Persisted
<1>3. snapshot # NoStats => snapshot[c] \in Nat
  BY CounterFields DEF IInv, TypeOK
<1> QED
  BY <1>1, <1>2, <1>3 DEF IInv, MemoryIsAhead

(* Counters are not behind themselves.                                     *)
LEMMA SameCounters == \A s \in Counters : NotBehind(s, s)
BY CounterFields DEF NotBehind

(* The process starts from the checkpoint.                                 *)
LEMMA OpenIInv == IInv /\ Open => IInv'
<1> SUFFICES ASSUME IInv, Open PROVE IInv'
  OBVIOUS
<1>0. TypeOK /\ DownIsQuiet /\ DiskBounded /\ AbsentIsEmpty
  BY DEF IInv
<1>1. loadStats(saved) \in Counters
  BY <1>0, LoadedCounters
<1>2. NotBehind(stats', loadStats(saved))
  BY <1>1, CountingUp DEF Open
<1>3. stats'.logged = loadStats(saved).logged /\ loadStats(saved).logged \in Nat
  BY <1>1 DEF Open, Counters
<1>4. TypeOK'
  <2>1. queue' \in Seq(Rec) /\ Len(queue') <= QueueSize
    BY OptionsAssumption DEF Open
  <2>2. stats' \in Counters
    BY <1>2 DEF NotBehind
  <2>3. accepted' \in Nat /\ dropped' \in Nat /\ errs' \in Nat /\ matches' \in 0 .. MaxMatches
    BY <1>3, OptionsAssumption DEF Open
  <2> QED
    BY <1>0, <2>1, <2>2, <2>3 DEF TypeOK, Open, disk
<1>5. DownIsQuiet' /\ NoSendOnClosedQueue'
  BY DEF Open, DownIsQuiet, NoSendOnClosedQueue
<1>6. DiskBounded' /\ AbsentIsEmpty'
  BY <1>0 DEF DiskBounded, AbsentIsEmpty, Open, disk
<1>7. AcceptedIsAccountedFor'
  <2>1. accepted' = loadStats(saved).logged /\ queue' = << >> /\ errs' = 0
    BY DEF Open
  <2>2. accepted' - stats'.logged - Len(queue') = 0
    BY <1>3, <2>1
  <2> QED
    BY <2>1, <2>2 DEF AcceptedIsAccountedFor
<1>8. MemoryIsAhead'
  BY <1>2 DEF MemoryIsAhead, NotBehind, Open, disk, Persisted
<1> QED
  BY <1>4, <1>5, <1>6, <1>7, <1>8 DEF IInv

(* The process goes, and leaves the disk as it is or with a newer          *)
(* checkpoint.                                                             *)
LEMMA StopIInv ==
  ASSUME IInv, Stop, errs' \in Nat, saved' \in Counters \cup {NoStats},
         UNCHANGED files
  PROVE  IInv'
<1>0. TypeOK /\ DiskBounded /\ AbsentIsEmpty
  BY DEF IInv
<1>1. TypeOK'
  <2>1. queue' \in Seq(Rec) /\ Len(queue') <= QueueSize
    BY OptionsAssumption DEF Stop
  <2>2. stage' \in [Rec -> {"new", "ready", "sending", "over"}]
    BY DEF Stop
  <2>3. matches' \in 0 .. MaxMatches
    BY OptionsAssumption DEF Stop
  <2> QED
    BY <1>0, <2>1, <2>2, <2>3, ZeroCounters DEF TypeOK, Stop
<1>2. DownIsQuiet' /\ NoSendOnClosedQueue' /\ AcceptedIsAccountedFor' /\ MemoryIsAhead'
  BY DEF Stop, DownIsQuiet, NoSendOnClosedQueue, AcceptedIsAccountedFor, MemoryIsAhead
<1>3. DiskBounded' /\ AbsentIsEmpty'
  BY <1>0 DEF DiskBounded, AbsentIsEmpty
<1> QED
  BY <1>1, <1>2, <1>3 DEF IInv

(* Close and the goroutines of comparisons.                                *)
LEMMA ComparisonIInv ==
  ASSUME IInv,
         \/ Close \/ Match
         \/ \E r \in Rec : Observe(r) \/ LogAuthMismatch(r) \/ LogChecks(r) \/ LogSends(r)
  PROVE  IInv'
<1>0. TypeOK /\ DownIsQuiet /\ NoSendOnClosedQueue /\ DiskBounded /\ AbsentIsEmpty
      /\ AcceptedIsAccountedFor
  BY DEF IInv
<1>1. CASE Close
  <2>1. NotBehind(stats', stats) /\ UNCHANGED <<saved, snapshot>> /\ proc # "down"
    BY <1>0, <1>1, SameCounters DEF Close, memory, disk, TypeOK
  <2>2. MemoryIsAhead'
    BY <2>1, StaysAhead
  <2>3. TypeOK'
    BY <1>0, <1>1 DEF Close, memory, disk, TypeOK
  <2>4. DownIsQuiet' /\ NoSendOnClosedQueue' /\ DiskBounded' /\ AbsentIsEmpty'
        /\ AcceptedIsAccountedFor'
    BY <1>0, <1>1 DEF Close, memory, disk, DownIsQuiet, NoSendOnClosedQueue, DiskBounded,
       AbsentIsEmpty, AcceptedIsAccountedFor
  <2> QED
    BY <2>2, <2>3, <2>4 DEF IInv
<1>2. CASE Match
  <2>1. NotBehind(stats', stats) /\ stats'.logged = stats.logged /\ proc # "down"
    BY <1>0, <1>2, CountingUp DEF Match, TypeOK, Counters
  <2>2. MemoryIsAhead'
    BY <1>2, <2>1, StaysAhead DEF Match, disk
  <2>3. TypeOK'
    BY <1>0, <1>2, <2>1, OptionsAssumption DEF Match, disk, TypeOK, NotBehind
  <2>4. DownIsQuiet' /\ NoSendOnClosedQueue' /\ DiskBounded' /\ AbsentIsEmpty'
        /\ AcceptedIsAccountedFor'
    BY <1>0, <1>2, <2>1 DEF Match, disk, DownIsQuiet, NoSendOnClosedQueue, DiskBounded,
       AbsentIsEmpty, AcceptedIsAccountedFor
  <2> QED
    BY <2>2, <2>3, <2>4 DEF IInv
<1>3. ASSUME NEW r \in Rec, Observe(r) \/ LogAuthMismatch(r)
      PROVE  IInv'
  <2>1. /\ proc' = proc /\ proc # "down" /\ stage' = [stage EXCEPT ![r] = "ready"]
        /\ UNCHANGED <<queue, file, dropped, errs, snapshot, last, matches, accepted, files, saved>>
    BY <1>3 DEF Observe, LogAuthMismatch, Meet, disk
  <2>2. NotBehind(stats', stats) /\ stats'.logged = stats.logged
    <3>1. stats \in Counters
      BY <1>0 DEF TypeOK
    <3>2. CASE Observe(r)
      <4>1. stats' = [stats EXCEPT !.compared = @ + 1, !.mismatched = @ + 1]
        BY <3>2 DEF Observe
      <4>2. stats'.logged = stats.logged
        BY <3>1, <4>1 DEF Counters
      <4> QED
        BY <3>1, <4>1, <4>2, CountingUp
    <3>3. CASE LogAuthMismatch(r)
      BY <3>1, <3>3, SameCounters DEF LogAuthMismatch
    <3> QED
      BY <1>3, <3>2, <3>3
  <2>3. MemoryIsAhead'
    BY <2>1, <2>2, StaysAhead
  <2>4. TypeOK'
    BY <1>0, <2>1, <2>2 DEF TypeOK, NotBehind
  <2>5. DownIsQuiet' /\ NoSendOnClosedQueue' /\ DiskBounded' /\ AbsentIsEmpty'
        /\ AcceptedIsAccountedFor'
    BY <1>0, <2>1, <2>2 DEF DownIsQuiet, NoSendOnClosedQueue, DiskBounded,
       AbsentIsEmpty, AcceptedIsAccountedFor, TypeOK
  <2> QED
    BY <2>3, <2>4, <2>5 DEF IInv
<1>4. ASSUME NEW r \in Rec, LogChecks(r)
      PROVE  IInv'
  <2>1. /\ proc' = proc /\ proc # "down"
        /\ stage' = [stage EXCEPT ![r] = IF proc = "closing" THEN "over" ELSE "sending"]
        /\ UNCHANGED <<queue, file, stats, dropped, errs, snapshot, last, matches, accepted, files, saved>>
    BY <1>4 DEF LogChecks, disk
  <2>2. MemoryIsAhead'
    BY <1>0, <2>1, SameCounters, StaysAhead DEF TypeOK
  <2>3. TypeOK'
    BY <1>0, <2>1 DEF TypeOK
  <2>4. DownIsQuiet' /\ NoSendOnClosedQueue' /\ DiskBounded' /\ AbsentIsEmpty'
        /\ AcceptedIsAccountedFor'
    BY <1>0, <2>1 DEF DownIsQuiet, NoSendOnClosedQueue, DiskBounded,
       AbsentIsEmpty, AcceptedIsAccountedFor, TypeOK
  <2> QED
    BY <2>2, <2>3, <2>4 DEF IInv
<1>5. ASSUME NEW r \in Rec, LogSends(r)
      PROVE  IInv'
  <2>1. /\ proc' = proc /\ stage[r] = "sending" /\ stage' = [stage EXCEPT ![r] = "over"]
        /\ UNCHANGED <<file, stats, errs, snapshot, last, matches, files, saved>>
    BY <1>5 DEF LogSends, disk
  <2>2. proc # "down" /\ proc # "closing"
    BY <1>0, <2>1 DEF DownIsQuiet, NoSendOnClosedQueue
  <2>3. MemoryIsAhead'
    BY <1>0, <2>1, <2>2, SameCounters, StaysAhead DEF TypeOK
  <2>4. \/ /\ queue' = Append(queue, r) /\ accepted' = accepted + 1 /\ dropped' = dropped
           /\ Len(queue) < QueueSize
        \/ queue' = queue /\ accepted' = accepted /\ dropped' = dropped + 1
    BY <1>5 DEF LogSends
  <2>5. TypeOK'
    <3>1. queue' \in Seq(Rec) /\ Len(queue') <= QueueSize
      <4>1. queue \in Seq(Rec) /\ Len(queue) <= QueueSize /\ QueueSize \in Nat
        BY <1>0, OptionsAssumption DEF TypeOK
      <4>2. Append(queue, r) \in Seq(Rec) /\ Len(Append(queue, r)) = Len(queue) + 1
        BY <4>1
      <4> QED
        BY <2>4, <4>1, <4>2
    <3>2. accepted' \in Nat /\ dropped' \in Nat
      BY <1>0, <2>4 DEF TypeOK
    <3>3. stage' \in [Rec -> {"new", "ready", "sending", "over"}]
      BY <1>0, <2>1 DEF TypeOK
    <3> QED
      BY <1>0, <2>1, <3>1, <3>2, <3>3 DEF TypeOK
  <2>6. AcceptedIsAccountedFor'
    <3>1. /\ accepted - stats.logged - Len(queue) \in 0 .. errs
          /\ accepted \in Nat /\ stats.logged \in Nat /\ Len(queue) \in Nat /\ errs \in Nat
      BY <1>0, <2>2 DEF AcceptedIsAccountedFor, TypeOK, Counters
    <3>2. accepted' - stats.logged - Len(queue') = accepted - stats.logged - Len(queue)
      <4>1. queue \in Seq(Rec) /\ Len(Append(queue, r)) = Len(queue) + 1
        BY <1>0 DEF TypeOK
      <4> QED
        BY <2>4, <3>1, <4>1
    <3> QED
      BY <2>1, <3>1, <3>2 DEF AcceptedIsAccountedFor
  <2>7. DownIsQuiet' /\ NoSendOnClosedQueue' /\ DiskBounded' /\ AbsentIsEmpty'
    BY <1>0, <2>1, <2>2 DEF DownIsQuiet, NoSendOnClosedQueue, DiskBounded, AbsentIsEmpty
  <2> QED
    BY <2>3, <2>5, <2>6, <2>7 DEF IInv
<1> QED
  BY <1>1, <1>2, <1>3, <1>4, <1>5

-----------------------------------------------------------------------------
(* The writer goroutine.                                                   *)

(* A file as the rotation may leave one.                                   *)
GoodFile(f) ==
  /\ f \in [there : BOOLEAN, bytes : Bytes]
  /\ Fits(f.bytes)
  /\ ~f.there => f.bytes = << >>

(* Every rotated file as it may be.                                        *)
GoodFiles(h) ==
  /\ h \in [1 .. MaxFiles -> [there : BOOLEAN, bytes : Bytes]]
  /\ \A n \in 1 .. MaxFiles : GoodFile(h[n])

(* The files as the invariant has them.                                    *)
LEMMA HistoryIsGood ==
  ASSUME TypeOK, DiskBounded, AbsentIsEmpty
  PROVE  GoodFiles(history)
BY DEF TypeOK, DiskBounded, AbsentIsEmpty, GoodFile, GoodFiles, Bytes

(* Every file moves up by one, but for the oldest and for those whose      *)
(* rename failed.                                                          *)
LEMMA ShiftedFacts ==
  ASSUME TypeOK, DiskBounded, AbsentIsEmpty, NEW u
  PROVE  /\ GoodFiles(Shifted(u))
         /\ \A n \in 1 .. MaxFiles - 1 :
              n \in u \/ history[n].bytes = << >> \/ Shifted(u)[n + 1] = history[n]
<1>1. GoodFiles(history)
  BY HistoryIsGood
<1>2. ASSUME NEW n \in 1 .. MaxFiles PROVE GoodFile(Shifted(u)[n])
  <2>1. CASE Moves(n - 1, u)
    <3>1. n - 1 \in 1 .. MaxFiles
      BY <2>1, OptionsAssumption DEF Moves
    <3>2. Shifted(u)[n] = history[n - 1]
      BY <2>1 DEF Shifted
    <3> QED
      BY <1>1, <3>1, <3>2 DEF GoodFiles
  <2>2. CASE ~Moves(n - 1, u) /\ Moves(n, u)
    <3>1. Shifted(u)[n] = Absent
      BY <2>2 DEF Shifted
    <3>2. << >> \in Bytes /\ Fits(<< >>)
      BY OptionsAssumption DEF Bytes, Fits
    <3> QED
      BY <3>1, <3>2 DEF Absent, GoodFile
  <2>3. CASE ~Moves(n - 1, u) /\ ~Moves(n, u)
    BY <1>1, <2>3 DEF Shifted, GoodFiles
  <2> QED
    BY <2>1, <2>2, <2>3
<1>3. Shifted(u) \in [1 .. MaxFiles -> [there : BOOLEAN, bytes : Bytes]]
  <2>1. Shifted(u) = [n \in 1 .. MaxFiles |-> Shifted(u)[n]]
    BY DEF Shifted
  <2> QED
    BY <1>2, <2>1 DEF GoodFile
<1>4. ASSUME NEW n \in 1 .. MaxFiles - 1, n \notin u, history[n].bytes # << >>
      PROVE  Shifted(u)[n + 1] = history[n]
  <2>1. n + 1 \in 1 .. MaxFiles /\ (n + 1) - 1 = n /\ n \in 1 .. MaxFiles
    BY OptionsAssumption
  <2>2. Moves(n, u)
    BY <1>4, <2>1 DEF AbsentIsEmpty, Moves
  <2> QED
    BY <2>1, <2>2 DEF Shifted
<1> QED
  BY <1>2, <1>3, <1>4 DEF GoodFiles

(* A file in the first place changes no other.                             *)
LEMMA FirstFacts ==
  ASSUME NEW h, GoodFiles(h), NEW f, GoodFile(f)
  PROVE  /\ GoodFiles([h EXCEPT ![1] = f])
         /\ [h EXCEPT ![1] = f][1] = f
         /\ \A n \in 1 .. MaxFiles - 1 : [h EXCEPT ![1] = f][n + 1] = h[n + 1]
<1>1. 1 \in 1 .. MaxFiles
  BY OptionsAssumption
<1>2. f \in [there : BOOLEAN, bytes : Bytes]
  BY DEF GoodFile
<1>3. \A n \in 1 .. MaxFiles - 1 : n + 1 \in 1 .. MaxFiles /\ n + 1 # 1
  BY OptionsAssumption
<1> QED
  BY <1>1, <1>2, <1>3 DEF GoodFiles

(* The record's line, or a part of it, follows what is in the file.        *)
Grows(before) ==
  \E k \in 0 .. Length[Head(queue)] : active' = before \o Part(Head(queue), k)

(* file.Write, failed or not.                                              *)
LEMMA LineGrows ==
  ASSUME TypeOK, queue # << >>, NEW before, NEW rotated, WriteLine(before, rotated)
  PROVE  Grows(before) /\ (Logged(rotated) \/ NotLogged(rotated))
<1>1. queue \in Seq(Rec)
  BY DEF TypeOK
<1>2. Head(queue) \in Rec
  BY <1>1
<1>3. Length[Head(queue)] \in Nat \ {0}
  BY <1>2, OptionsAssumption DEF Rec
<1>4. /\ Length[Head(queue)] \in 0 .. Length[Head(queue)]
      /\ \A k \in 0 .. (Length[Head(queue)] - 1) : k \in 0 .. Length[Head(queue)]
  BY <1>3
<1> QED
  BY <1>4 DEF WriteLine, Line, Grows

(* What a write does to the files: nothing, a line at the end, or a        *)
(* rotation, whole or broken off.                                          *)
DiskStep ==
  \/ UNCHANGED files
  \/ ~Full /\ Grows(active) /\ UNCHANGED <<history, unmoved>>
  \/ /\ unmoved' \subseteq 1 .. (MaxFiles - 1)
     /\ \/ history' = Shifted(unmoved') /\ active' = active
        \/ \E f \in [there : BOOLEAN, bytes : Bytes] :
             /\ GoodFile(f)
             /\ history' = [Shifted(unmoved') EXCEPT ![1] = f]
             /\ \/ active' = active
                \/ f.bytes = active /\ (Grows(<< >>) \/ active' = << >>)

(* What it does to the counts: the record is logged or an error counted.   *)
CountStep ==
  /\ NotBehind(stats', stats)
  /\ \/ stats'.logged = stats.logged + 1 /\ errs' \in {errs, errs + 1}
     \/ stats'.logged = stats.logged /\ errs' = errs + 1

(* The two ways a write ends count it.                                     *)
LEMMA CountFacts ==
  ASSUME TypeOK, NEW rotated \in {0, 1}, Logged(rotated) \/ NotLogged(rotated)
  PROVE  CountStep
<1>1. stats \in Counters /\ errs \in Nat
  BY DEF TypeOK
<1>2. CASE Logged(rotated)
  <2>1. stats' = [stats EXCEPT !.logged = @ + 1, !.rotations = @ + rotated]
    BY <1>2 DEF Logged
  <2>2. NotBehind(stats', stats)
    BY <1>1, <2>1, CountingUp
  <2>3. stats'.logged = stats.logged + 1
    BY <1>1, <2>1 DEF Counters
  <2>4. errs' \in {errs, errs + 1}
    BY <1>2 DEF Logged
  <2> QED
    BY <2>2, <2>3, <2>4 DEF CountStep
<1>3. CASE NotLogged(rotated)
  <2>1. stats' = [stats EXCEPT !.rotations = @ + rotated] /\ errs' = errs + 1
    BY <1>3 DEF NotLogged
  <2>2. NotBehind(stats', stats)
    BY <1>1, <2>1, CountingUp
  <2>3. stats'.logged = stats.logged
    BY <1>1, <2>1 DEF Counters
  <2> QED
    BY <2>1, <2>2, <2>3 DEF CountStep
<1> QED
  BY <1>2, <1>3

(* A copy that is broken off is no larger than the file.                   *)
LEMMA PrefixFits ==
  ASSUME NEW s \in Bytes, Fits(s), NEW n \in 0 .. Len(s)
  PROVE  SubSeq(s, 1, n) \in Bytes /\ Fits(SubSeq(s, 1, n))
<1>1. SubSeq(s, 1, n) \in Bytes /\ Len(SubSeq(s, 1, n)) = n
  BY DEF Bytes
<1>2. CASE Len(s) <= MaxFileBytes
  BY <1>1, <1>2, OptionsAssumption DEF Fits, Bytes
<1>3. ASSUME NEW r \in Rec, NEW k \in 0 .. Length[r], s = Part(r, k)
      PROVE  Fits(SubSeq(s, 1, n))
  <2>1. Len(s) = k /\ Length[r] \in Nat
    BY <1>3, PartFacts
  <2>2. n \in 0 .. Length[r] /\ n \in 0 .. k
    BY <2>1
  <2>3. SubSeq(s, 1, n) = Part(r, n)
    BY <1>3, <2>1, <2>2 DEF Part
  <2> QED
    BY <2>2, <2>3 DEF Fits
<1> QED
  BY <1>1, <1>2, <1>3 DEF Fits

(* What is written follows what was there.                                 *)
LEMMA JoinedFacts ==
  ASSUME NEW s \in Bytes, NEW t \in Bytes
  PROVE  /\ s \o t \in Bytes /\ Len(s \o t) = Len(s) + Len(t) /\ Len(s) \in Nat
         /\ ToSet(s) \subseteq ToSet(s \o t)
         /\ Len(s) = 0 => s \o t = t
<1>1. s \in Seq(Int \X Nat) /\ t \in Seq(Int \X Nat)
  BY DEF Bytes
<1>2. s \o t \in Bytes /\ Len(s \o t) = Len(s) + Len(t) /\ Len(s) \in Nat
  BY <1>1, ConcatProperties DEF Bytes
<1>3. ToSet(s) \subseteq ToSet(s \o t)
  <2>1. Range(s) \subseteq Range(s \o t)
    BY <1>1, RangeConcatenation
  <2>2. \A u : ToSet(u) = Range(u)
    BY DEF ToSet, Range
  <2> QED
    BY <2>1, <2>2
<1>4. Len(s) = 0 => s \o t = t
  <2>1. Len(s) = 0 => s = << >>
    BY <1>1
  <2> QED
    BY <1>1, <2>1, ConcatEmptySeq
<1> QED
  BY <1>2, <1>3, <1>4

(* A line goes where it fits, or into a file that holds nothing.           *)
LEMMA GrownFits ==
  ASSUME NEW r \in Rec, NEW k \in 0 .. Length[r], NEW s \in Bytes,
         Len(s) = 0 \/ Len(s) + Length[r] <= MaxFileBytes
  PROVE  s \o Part(r, k) \in Bytes /\ Fits(s \o Part(r, k))
<1>1. Part(r, k) \in Bytes /\ Len(Part(r, k)) = k /\ Fits(Part(r, k)) /\ Length[r] \in Nat
  BY PartFacts
<1>2. s \o Part(r, k) \in Bytes /\ Len(s \o Part(r, k)) = Len(s) + k /\ Len(s) \in Nat
  BY <1>1, JoinedFacts
<1>3. CASE Len(s) = 0
  <2>1. s \o Part(r, k) = Part(r, k)
    BY <1>1, <1>3, JoinedFacts
  <2> QED
    BY <1>1, <2>1
<1>4. CASE Len(s) + Length[r] <= MaxFileBytes
  BY <1>1, <1>2, <1>4, OptionsAssumption DEF Fits
<1> QED
  BY <1>2, <1>3, <1>4

(* What a write does to queue, counters and files, however it goes.        *)
LEMMA WriteFacts ==
  ASSUME IInv, Write
  PROVE  Dequeue /\ CountStep /\ DiskStep /\ file' \in {"open", "nil", "broken"}
<1>0. TypeOK /\ DiskBounded /\ AbsentIsEmpty
  BY DEF IInv
<1>1. active \in Bytes /\ Fits(active)
  BY <1>0 DEF TypeOK, DiskBounded, Bytes
<1>2. GoodFile(File(active)) /\ File(active).bytes = active
      /\ File(active) \in [there : BOOLEAN, bytes : Bytes]
  BY <1>1 DEF GoodFile, File
<1>3. CASE NotEncoded \/ NoFile
  <2>1. CountStep
    BY <1>0, <1>3, CountFacts DEF NotEncoded, NoFile
  <2> QED
    BY <1>0, <1>3, <2>1 DEF NotEncoded, NoFile, DiskStep, TypeOK
<1>4. CASE AppendLine
  <2>1. Grows(active) /\ (Logged(0) \/ NotLogged(0))
    BY <1>0, <1>4, LineGrows DEF AppendLine, Dequeue
  <2>2. CountStep
    BY <1>0, <2>1, CountFacts
  <2> QED
    BY <1>0, <1>4, <2>1, <2>2 DEF AppendLine, DiskStep, TypeOK
<1>5. CASE RotateAndAppend
  <2>1. Grows(<< >>) /\ (Logged(1) \/ NotLogged(1))
    BY <1>0, <1>5, LineGrows DEF RotateAndAppend, Dequeue
  <2>2. CountStep
    BY <1>0, <2>1, CountFacts
  <2>3. DiskStep
    BY <1>2, <1>5, <2>1 DEF RotateAndAppend, DiskStep, Renamable
  <2> QED
    BY <1>0, <1>5, <2>2, <2>3 DEF RotateAndAppend, TypeOK
<1>6. CASE RotateFails
  <2>1. CountStep
    BY <1>0, <1>6, CountFacts DEF RotateFails
  <2>2. ASSUME NEW k \in 0 .. Len(active)
        PROVE  GoodFile(File(SubSeq(active, 1, k)))
    BY <1>1, PrefixFits DEF File, GoodFile
  <2>3. DiskStep
    <3>1. \/ UNCHANGED files
          \/ /\ unmoved' \subseteq 1 .. (MaxFiles - 1)
             /\ \/ history' = Shifted(unmoved') /\ active' = active
                \/ /\ \E k \in 0 .. Len(active) :
                        history' = [Shifted(unmoved') EXCEPT ![1] = File(SubSeq(active, 1, k))]
                   /\ active' = active
                \/ history' = [Shifted(unmoved') EXCEPT ![1] = File(active)] /\ active' = << >>
      BY <1>6 DEF RotateFails, Renamable
    <3>2. ASSUME NEW k \in 0 .. Len(active), active' = active,
                 unmoved' \subseteq 1 .. (MaxFiles - 1),
                 history' = [Shifted(unmoved') EXCEPT ![1] = File(SubSeq(active, 1, k))]
          PROVE  DiskStep
      <4>1. File(SubSeq(active, 1, k)) \in [there : BOOLEAN, bytes : Bytes]
        BY <2>2 DEF GoodFile
      <4> QED
        BY <2>2, <3>2, <4>1 DEF DiskStep
    <3> QED
      BY <1>2, <3>1, <3>2 DEF DiskStep
  <2> QED
    BY <1>6, <2>1, <2>3 DEF RotateFails
<1> QED
  BY <1>3, <1>4, <1>5, <1>6 DEF Write

(* A write keeps the invariant.                                            *)
LEMMA WriteIInv == IInv /\ Write => IInv'
<1> SUFFICES ASSUME IInv, Write PROVE IInv'
  OBVIOUS
<1>0. TypeOK /\ DiskBounded /\ AbsentIsEmpty
  BY DEF IInv
<1>1. CountStep /\ DiskStep /\ file' \in {"open", "nil", "broken"}
  BY WriteFacts
<1>2. /\ proc # "down" /\ queue # << >> /\ queue' = Tail(queue)
      /\ UNCHANGED <<proc, stage, dropped, snapshot, last, matches, accepted, saved>>
  BY WriteFacts DEF Dequeue
<1>3. /\ queue \in Seq(Rec) /\ Head(queue) \in Rec /\ queue' \in Seq(Rec)
      /\ Len(queue') = Len(queue) - 1 /\ Len(queue) \in Nat
  <2>1. queue \in Seq(Rec)
    BY <1>0 DEF TypeOK
  <2>2. Head(queue) \in Rec
    BY <1>2, <2>1
  <2> QED
    BY <1>2, <2>1, <2>2
<1>4. active \in Bytes /\ Fits(active)
  BY <1>0 DEF TypeOK, DiskBounded, Bytes
<1>5. active' \in Bytes /\ Fits(active')
  <2>1. << >> \in Bytes /\ Len(<< >>) = 0 /\ Fits(<< >>)
    BY OptionsAssumption DEF Bytes, Fits
  <2>2. CASE active' = active \/ active' = << >>
    BY <1>4, <2>1, <2>2
  <2>3. CASE Grows(<< >>)
    BY <1>3, <2>1, <2>3, GrownFits DEF Grows
  <2>4. CASE ~Full /\ Grows(active)
    <3>1. Len(active) \in Nat /\ Length[Head(queue)] \in Nat
      BY <1>3, <1>4, OptionsAssumption DEF Bytes, Rec
    <3>2. Len(active) = 0 \/ Len(active) + Length[Head(queue)] <= MaxFileBytes
      BY <2>4, <3>1, OptionsAssumption DEF Full
    <3> QED
      BY <1>3, <1>4, <2>4, <3>2, GrownFits DEF Grows
  <2> QED
    BY <1>1, <2>2, <2>3, <2>4 DEF DiskStep, files
<1>6. GoodFiles(history') /\ unmoved' \subseteq 1 .. (MaxFiles - 1)
  <2>1. CASE UNCHANGED <<history, unmoved>>
    BY <1>0, <2>1, HistoryIsGood DEF TypeOK
  <2>2. CASE unmoved' \subseteq 1 .. (MaxFiles - 1) /\ history' = Shifted(unmoved')
    BY <1>0, <2>2, ShiftedFacts
  <2>3. ASSUME unmoved' \subseteq 1 .. (MaxFiles - 1), NEW f, GoodFile(f),
               history' = [Shifted(unmoved') EXCEPT ![1] = f]
        PROVE  GoodFiles(history')
    BY <1>0, <2>3, ShiftedFacts, FirstFacts
  <2> QED
    BY <1>1, <2>1, <2>2, <2>3 DEF DiskStep, files
<1>7. TypeOK'
  <2>1. stats' \in Counters /\ errs' \in Nat
    BY <1>0, <1>1 DEF CountStep, NotBehind, TypeOK
  <2>2. Len(queue') <= QueueSize
    BY <1>0, <1>3, OptionsAssumption DEF TypeOK
  <2> QED
    BY <1>0, <1>1, <1>2, <1>3, <1>5, <1>6, <2>1, <2>2 DEF TypeOK, GoodFiles, Bytes
<1>8. DownIsQuiet' /\ NoSendOnClosedQueue'
  BY <1>2 DEF IInv, DownIsQuiet, NoSendOnClosedQueue
<1>9. DiskBounded' /\ AbsentIsEmpty'
  BY <1>5, <1>6 DEF DiskBounded, AbsentIsEmpty, GoodFile, GoodFiles
<1>10. AcceptedIsAccountedFor'
  <2>1. /\ accepted - stats.logged - Len(queue) \in 0 .. errs
        /\ accepted \in Nat /\ stats.logged \in Nat /\ errs \in Nat
    BY <1>0, <1>2 DEF IInv, AcceptedIsAccountedFor, TypeOK, Counters
  <2>2. accepted - stats'.logged - (Len(queue) - 1) \in 0 .. errs'
    <3>1. CASE stats'.logged = stats.logged + 1 /\ errs' \in {errs, errs + 1}
      BY <1>3, <2>1, <3>1
    <3>2. CASE stats'.logged = stats.logged /\ errs' = errs + 1
      BY <1>3, <2>1, <3>2
    <3> QED
      BY <1>1, <3>1, <3>2 DEF CountStep
  <2> QED
    BY <1>2, <1>3, <2>2 DEF AcceptedIsAccountedFor
<1>11. MemoryIsAhead'
  BY <1>1, <1>2, StaysAhead DEF CountStep
<1> QED
  BY <1>7, <1>8, <1>9, <1>10, <1>11 DEF IInv

(* The checkpoint: the clone, and the save that uses it later.             *)
LEMMA CloneIInv == IInv /\ (Tick \/ Drained) => IInv'
<1> SUFFICES ASSUME IInv, Tick \/ Drained PROVE IInv'
  OBVIOUS
<1>0. TypeOK /\ DownIsQuiet /\ NoSendOnClosedQueue /\ DiskBounded /\ AbsentIsEmpty
      /\ AcceptedIsAccountedFor /\ MemoryIsAhead
  BY DEF IInv
<1>1. /\ proc # "down" /\ snapshot' = stats /\ last' \in BOOLEAN
      /\ UNCHANGED <<proc, stage, queue, file, stats, dropped, errs, matches, accepted, files, saved>>
  BY DEF Tick, Drained, Clone, disk
<1>2. TypeOK'
  BY <1>0, <1>1 DEF TypeOK
<1>3. DownIsQuiet' /\ NoSendOnClosedQueue' /\ DiskBounded' /\ AbsentIsEmpty'
      /\ AcceptedIsAccountedFor'
  BY <1>0, <1>1 DEF DownIsQuiet, NoSendOnClosedQueue, DiskBounded, AbsentIsEmpty,
     AcceptedIsAccountedFor
<1>4. \A c \in Cumulative : stats[c] \in Nat
  BY <1>0, CounterFields DEF TypeOK
<1>5. MemoryIsAhead'
  BY <1>0, <1>1, <1>4 DEF MemoryIsAhead, Persisted
<1> QED
  BY <1>2, <1>3, <1>5 DEF IInv

(* A save, failed or not, leaves a checkpoint between the last and memory. *)
LEMMA SaveFacts ==
  ASSUME IInv, snapshot # NoStats, Save
  PROVE  /\ saved' \in Counters \cup {NoStats} /\ errs' \in Nat /\ errs' >= errs
         /\ proc # "down"
         /\ \A c \in Cumulative :
              loadStats(saved')[c] >= Persisted(c) /\ stats[c] >= loadStats(saved')[c]
<1>0. TypeOK /\ MemoryIsAhead /\ proc # "down"
  BY DEF IInv, DownIsQuiet
<1>1. snapshot \in Counters /\ dropped \in Nat /\ errs \in Nat
  BY <1>0 DEF TypeOK
<1>2. CASE saved' = Snapshot /\ UNCHANGED errs
  <2>1. NotBehind(Snapshot, snapshot)
    BY <1>1, CountingUp DEF Snapshot
  <2>2. \A c \in Cumulative : Snapshot[c] = snapshot[c]
    BY <1>1 DEF Snapshot, Cumulative, Counters
  <2>3. loadStats(saved') = Snapshot
    BY <1>2, <2>1, NoStatsIsNone DEF loadStats, NotBehind
  <2> QED
    BY <1>0, <1>1, <1>2, <2>1, <2>2, <2>3 DEF MemoryIsAhead, NotBehind
<1>3. CASE errs' = errs + 1 /\ UNCHANGED saved
  <2>1. \A c \in Cumulative : Persisted(c) \in Nat
    BY <1>0, LoadedCounters, CounterFields DEF Persisted
  <2> QED
    BY <1>0, <1>1, <1>3, <2>1 DEF MemoryIsAhead, Persisted, TypeOK
<1> QED
  BY <1>2, <1>3 DEF Save

(* Saving a checkpoint keeps the invariant.                                *)
LEMMA SaveStatsIInv == IInv /\ SaveStats => IInv'
<1> SUFFICES ASSUME IInv, SaveStats PROVE IInv'
  OBVIOUS
<1>0. TypeOK /\ NoSendOnClosedQueue /\ DiskBounded /\ AbsentIsEmpty /\ AcceptedIsAccountedFor
  BY DEF IInv
<1>1. /\ snapshot # NoStats /\ Save /\ snapshot' = NoStats
      /\ UNCHANGED <<proc, stage, queue, file, stats, dropped, matches, accepted, last, files>>
  BY DEF SaveStats
<1>2. /\ saved' \in Counters \cup {NoStats} /\ errs' \in Nat /\ errs' >= errs /\ proc # "down"
      /\ \A c \in Cumulative : stats[c] >= loadStats(saved')[c]
  BY <1>1, SaveFacts
<1>3. TypeOK'
  BY <1>0, <1>1, <1>2 DEF TypeOK
<1>4. DownIsQuiet' /\ NoSendOnClosedQueue' /\ DiskBounded' /\ AbsentIsEmpty'
  BY <1>0, <1>1, <1>2 DEF DownIsQuiet, NoSendOnClosedQueue, DiskBounded, AbsentIsEmpty
<1>5. AcceptedIsAccountedFor'
  <2>1. accepted - stats.logged - Len(queue) \in 0 .. errs /\ errs \in Nat
    BY <1>0, <1>2 DEF AcceptedIsAccountedFor, TypeOK
  <2> QED
    BY <1>1, <1>2, <2>1 DEF AcceptedIsAccountedFor
<1>6. MemoryIsAhead'
  BY <1>1, <1>2 DEF MemoryIsAhead, Persisted
<1> QED
  BY <1>3, <1>4, <1>5, <1>6 DEF IInv

(* Every step keeps the invariant.                                         *)
LEMMA NextIInv == IInv /\ [Next]_vars => IInv'
<1> SUFFICES ASSUME IInv, [Next]_vars PROVE IInv'
  OBVIOUS
<1>1. CASE Crash
  <2>1. errs' \in Nat /\ saved' \in Counters \cup {NoStats} /\ UNCHANGED files
    BY <1>1 DEF Crash, disk, IInv, TypeOK
  <2> QED
    BY <1>1, <2>1, StopIInv DEF Crash
<1>2. CASE SaveAndStop
  <2>1. errs' \in Nat /\ saved' \in Counters \cup {NoStats} /\ UNCHANGED files
    BY <1>2, SaveFacts DEF SaveAndStop
  <2> QED
    BY <1>2, <2>1, StopIInv DEF SaveAndStop
<1>3. CASE UNCHANGED vars
  BY <1>3 DEF vars, memory, disk, IInv, TypeOK, DownIsQuiet, NoSendOnClosedQueue,
     DiskBounded, AbsentIsEmpty, AcceptedIsAccountedFor, MemoryIsAhead, Persisted
<1> QED
  BY <1>1, <1>2, <1>3, OpenIInv, ComparisonIInv, WriteIInv, CloneIInv, SaveStatsIInv
     DEF Next, Flush

(* What the proofs carry along, in every reachable state.                  *)
LEMMA AlwaysIInv == Spec => []IInv
<1>1. Init => IInv
  BY InitIInv
<1>2. IInv /\ [Next]_vars => IInv'
  BY NextIInv
<1> QED
  BY <1>1, <1>2, PTL DEF Spec

-----------------------------------------------------------------------------
(* The theorems.                                                           *)

(* Every counter, the queue and the files keep their types and capacities. *)
THEOREM TypeCorrect == Spec => []TypeOK
<1>1. IInv => TypeOK
  BY DEF IInv
<1> QED
  BY <1>1, AlwaysIInv, PTL

(* Log and Close: queueMu keeps any goroutine from sending on the queue    *)
(* that Close has closed.                                                  *)
THEOREM NoPanicOnClose == Spec => []NoSendOnClosedQueue
<1>1. IInv => NoSendOnClosedQueue
  BY DEF IInv
<1> QED
  BY <1>1, AlwaysIInv, PTL

(* write and rotateLocked: for records of any length, no file outgrows its *)
(* bound unless a single longer record is all it holds, whichever writes,  *)
(* renames and copies fail.                                                *)
THEOREM FilesStayBounded == Spec => []DiskBounded
<1>1. IInv => DiskBounded
  BY DEF IInv
<1> QED
  BY <1>1, AlwaysIInv, PTL

(* write: every record that the queue accepted is logged, waiting, or      *)
(* covered by an error that was counted.                                   *)
THEOREM NothingLostInSilence == Spec => []AcceptedIsAccountedFor
<1>1. IInv => AcceptedIsAccountedFor
  BY DEF IInv
<1> QED
  BY <1>1, AlwaysIInv, PTL

(* A step leaves stats.json alone, unless flushStats saves its clone.      *)
LEMMA SavedSteps ==
  ASSUME IInv, [Next]_vars
  PROVE  saved' = saved \/ (snapshot # NoStats /\ Save)
<1>1. CASE Write
  BY <1>1, WriteFacts DEF Dequeue
<1>2. CASE SaveStats \/ SaveAndStop
  BY <1>2 DEF SaveStats, SaveAndStop
<1>3. CASE Open \/ Crash \/ Close \/ Match \/ UNCHANGED vars \/ Tick \/ Drained
  BY <1>3 DEF Open, Crash, Close, Match, vars, disk, Tick, Drained, Clone
<1>4. ASSUME NEW r \in Rec, Observe(r) \/ LogAuthMismatch(r) \/ LogChecks(r) \/ LogSends(r)
      PROVE  saved' = saved
  BY <1>4 DEF Observe, LogAuthMismatch, LogChecks, LogSends, disk
<1> QED
  BY <1>1, <1>2, <1>3, <1>4 DEF Next, Flush

(* flushStats and loadStats: a checkpoint never takes back an earlier one, *)
(* across any crash, restart and failed save.                              *)
THEOREM CountersSurvive == Spec => CheckpointsGrow
<1> DEFINE Grow == \A c \in {"compared", "mismatched", "logged", "rotations", "restarts"} :
                     loadStats(saved')[c] >= Persisted(c)
<1>1. IInv /\ [Next]_vars => [Grow]_vars
  <2> SUFFICES ASSUME IInv, [Next]_vars PROVE Grow
    OBVIOUS
  <2>1. CASE saved' = saved
    <3>1. \A c \in Cumulative : Persisted(c) \in Nat
      BY LoadedCounters, CounterFields DEF IInv, Persisted
    <3> QED
      BY <2>1, <3>1 DEF Persisted, Cumulative
  <2>2. CASE snapshot # NoStats /\ Save
    BY <2>2, SaveFacts DEF Cumulative
  <2> QED
    BY <2>1, <2>2, SavedSteps
<1>2. Spec => [][Grow]_vars
  BY <1>1, AlwaysIInv, PTL DEF Spec
<1> QED
  BY <1>2 DEF CheckpointsGrow

(* A step leaves the files alone, unless it is a write.                    *)
LEMMA FileSteps ==
  ASSUME [Next]_vars
  PROVE  Write \/ UNCHANGED files
<1>1. ASSUME NEW r \in Rec, Observe(r) \/ LogAuthMismatch(r) \/ LogChecks(r) \/ LogSends(r)
      PROVE  UNCHANGED files
  BY <1>1 DEF Observe, LogAuthMismatch, LogChecks, LogSends, disk
<1>2. CASE Open \/ Crash \/ Close \/ Match \/ UNCHANGED vars \/ Flush
  BY <1>2 DEF Open, Crash, Close, Match, vars, disk, Flush, Tick, Drained, Clone, SaveStats,
     SaveAndStop
<1> QED
  BY <1>1, <1>2 DEF Next

(* write and rotateLocked: a byte on disk goes only with the oldest file   *)
(* or with a rotated file whose own rename failed, and the active file's   *)
(* never do, for any lengths of records and any number of files.           *)
THEOREM EvidenceSurvives == Spec => EvidenceKept
<1> DEFINE Kept == OnDisk \ Overwritten \subseteq OnDisk'
<1>1. IInv /\ [Next]_vars => [Kept]_vars
  <2> SUFFICES ASSUME IInv, [Next]_vars, NEW x \in OnDisk,
                      \A n \in {MaxFiles} \cup unmoved' : x \notin ToSet(history[n].bytes)
               PROVE  x \in OnDisk'
    BY DEF Overwritten
  <2>0. TypeOK /\ DiskBounded /\ AbsentIsEmpty
    BY DEF IInv
  <2>1. CASE UNCHANGED files
    BY <2>1 DEF OnDisk, files
  <2>2. CASE Write
    <3>1. DiskStep /\ Dequeue
      BY <2>2, WriteFacts
    <3>2. CASE Grows(active) /\ UNCHANGED <<history, unmoved>>
      <4>1. PICK k \in 0 .. Length[Head(queue)] : active' = active \o Part(Head(queue), k)
        BY <3>2 DEF Grows
      <4>2. queue \in Seq(Rec) /\ queue # << >>
        BY <2>0, <3>1 DEF TypeOK, Dequeue
      <4>3. Head(queue) \in Rec
        BY <4>2
      <4>4. active \in Bytes /\ Part(Head(queue), k) \in Bytes
        BY <2>0, <4>3, PartFacts DEF TypeOK, Bytes
      <4>5. ToSet(active) \subseteq ToSet(active')
        BY <4>1, <4>4, JoinedFacts
      <4> QED
        BY <3>2, <4>5 DEF OnDisk
    <3>3. ASSUME NEW n \in 1 .. MaxFiles, x \in ToSet(history[n].bytes),
                 \A m \in 1 .. MaxFiles - 1 : history'[m + 1] = Shifted(unmoved')[m + 1]
          PROVE  x \in OnDisk'
      <4>1. n \in 1 .. MaxFiles - 1 /\ n + 1 \in 1 .. MaxFiles /\ n \notin unmoved'
        BY <3>3, OptionsAssumption
      <4>2. history[n].bytes # << >>
        BY <3>3 DEF ToSet
      <4>3. history'[n + 1] = history[n]
        BY <2>0, <3>3, <4>1, <4>2, ShiftedFacts
      <4> QED
        BY <3>3, <4>1, <4>3 DEF OnDisk
    <3>4. CASE history' = Shifted(unmoved') /\ active' = active
      BY <3>3, <3>4 DEF OnDisk
    <3>5. ASSUME NEW f, GoodFile(f), history' = [Shifted(unmoved') EXCEPT ![1] = f],
                 active' = active \/ f.bytes = active
          PROVE  x \in OnDisk'
      <4>1. /\ history'[1] = f /\ 1 \in 1 .. MaxFiles
            /\ \A m \in 1 .. MaxFiles - 1 : history'[m + 1] = Shifted(unmoved')[m + 1]
        BY <2>0, <3>5, ShiftedFacts, FirstFacts, OptionsAssumption
      <4>2. CASE x \in ToSet(active)
        BY <3>5, <4>1, <4>2 DEF OnDisk
      <4> QED
        BY <3>3, <4>1, <4>2 DEF OnDisk
    <3> QED
      BY <2>1, <3>1, <3>2, <3>4, <3>5 DEF DiskStep
  <2> QED
    BY <2>1, <2>2, FileSteps
<1>2. Spec => [][Kept]_vars
  BY <1>1, AlwaysIInv, PTL DEF Spec
<1> QED
  BY <1>2 DEF EvidenceKept
=============================================================================
