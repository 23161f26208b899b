------------------------------- MODULE DiffLog -------------------------------
(***************************************************************************)
(* The shadow diff log: internal/difflog/writer.go and stats.go, with the  *)
(* comparison goroutines that feed it (shadow.Runner.match and record).    *)
(*                                                                         *)
(* A comparison that disagrees is observed (the in-memory counters), then  *)
(* logged: handed to the writer goroutine through a bounded queue.  The    *)
(* writer appends it to diffs.jsonl, rotating the file when it is full,    *)
(* and checkpoints the counters to stats.json.  The process may crash at   *)
(* any point and starts again from what is on disk.                        *)
(*                                                                         *)
(* A record is a number, a file the sequence of its bytes, each byte named *)
(* by its record and its place in the line; a compressed file stands for   *)
(* its content.  The totals per endpoint, which move with the overall      *)
(* ones, are left out.                                                     *)
(*                                                                         *)
(* A definition named X_Y is X with a fault, for showing that a property   *)
(* notices it; nothing uses it.                                            *)
(***************************************************************************)
EXTENDS Integers, Sequences, FiniteSets, SequencesExt

CONSTANTS
  Records,      \* bound: disagreements, numbered in the order they are met
  Length,       \* the bytes of each one's line; no bound keeps it below MaxFileBytes
  QueueSize, MaxFileBytes, MaxFiles,   \* Options
  MaxMatches,   \* bound: comparisons that agree, per process
  MaxErrors,    \* bound: failures beyond which Sync and the checkpoints work
  MaxRestarts   \* bound: starts of the process that a checkpoint records

ASSUME OptionsAssumption ==
  /\ QueueSize \in Nat \ {0} /\ MaxFileBytes \in Nat \ {0} /\ MaxFiles \in Nat \ {0}
  /\ MaxMatches \in Nat /\ MaxErrors \in Nat /\ MaxRestarts \in Nat
  /\ Records \in Nat
  /\ Length \in [1 .. Records -> Nat \ {0}]

Rec == 1 .. Records

VARIABLES
  proc,       \* "up", "closing" (Close has closed the queue), "down"
  stage,      \* where a disagreement's own goroutine is
  queue,      \* Writer.queue
  file,       \* Writer.file: "open", "nil", or "broken": closed and not replaced
  stats,      \* Writer.stats
  dropped,    \* Writer.dropped
  errs,       \* Writer.errs
  snapshot,   \* flushStats between the clone and the save, or NoStats
  last,       \* that flushStats is the one after which the loop returns
  matches,    \* agreeing comparisons of this process (bound)
  accepted,   \* history: records this process's queue accepted, and those
              \* the checkpoint it started from calls logged
  active,     \* diffs.jsonl
  history,    \* diffs.jsonl.1 .. diffs.jsonl.MaxFiles
  unmoved,    \* history: the rotated files that the latest rotation did not
              \* manage to rename
  saved       \* stats.json, or NoStats

memory == <<stage, queue, file, stats, dropped, errs, snapshot, last, matches, accepted>>
files  == <<active, history, unmoved>>
disk   == <<files, saved>>
vars   == <<proc, memory, disk>>

Zero == [compared |-> 0, mismatched |-> 0, logged |-> 0, rotations |-> 0, restarts |-> 0,
         dropped |-> 0, errors |-> 0]
NoStats == [restarts |-> 0]

(* One rotated file, and none.                                             *)
File(bytes) == [there |-> TRUE, bytes |-> bytes]
Absent      == [there |-> FALSE, bytes |-> << >>]

(* The first k bytes of a record's line, and all of it.                    *)
Part(r, k) == [b \in 1 .. k |-> <<r, b>>]
Line(r)    == Part(r, Length[r])

(* loadStats: nothing saved yet starts from zero.                          *)
loadStats(s) == IF s = NoStats THEN Zero ELSE s

(* What an earlier run has left: every file full, with one line.           *)
Older(n) == [b \in 1 .. MaxFileBytes |-> <<-(n + 1), b>>]
EarlierRun ==
  LET lines == MaxFiles + 1
  IN [Zero EXCEPT !.compared = lines, !.mismatched = lines, !.logged = lines]

(* The first start ever, or the first after such a run.                    *)
Init ==
  /\ proc = "down"
  /\ stage = [r \in Rec |-> "new"]
  /\ queue = << >>
  /\ file = "nil"
  /\ stats = Zero
  /\ dropped = 0 /\ errs = 0
  /\ snapshot = NoStats /\ last = FALSE
  /\ matches = 0 /\ accepted = 0
  /\ unmoved = {}
  /\ \/ /\ active = << >>
        /\ history = [n \in 1 .. MaxFiles |-> Absent]
        /\ saved = NoStats
     \/ /\ active = Older(0)
        /\ history = [n \in 1 .. MaxFiles |-> File(Older(n))]
        /\ saved = [EarlierRun EXCEPT !.rotations = MaxFiles, !.restarts = 1]

-----------------------------------------------------------------------------
(* The process.                                                            *)

Open_FromZero ==
  /\ proc = "down"
  /\ loadStats(saved).restarts < MaxRestarts
  /\ proc' = "up"
  /\ stats' = [Zero EXCEPT !.restarts = 1]
  /\ file' = "open"
  /\ queue' = << >>
  /\ dropped' = 0 /\ errs' = 0
  /\ snapshot' = NoStats /\ last' = FALSE
  /\ matches' = 0
  /\ accepted' = 0
  /\ UNCHANGED <<stage, disk>>

Open ==
  /\ proc = "down"
  /\ loadStats(saved).restarts < MaxRestarts
  /\ proc' = "up"
  /\ stats' = [loadStats(saved) EXCEPT !.restarts = @ + 1]
  /\ file' = "open"
  /\ queue' = << >>
  /\ dropped' = 0 /\ errs' = 0
  /\ snapshot' = NoStats /\ last' = FALSE
  /\ matches' = 0
  /\ accepted' = loadStats(saved).logged
  /\ UNCHANGED <<stage, disk>>

(* Every goroutine and all of memory goes; the files stay as they are.     *)
Stop ==
  /\ proc' = "down"
  /\ stage' = [r \in Rec |-> IF stage[r] = "new" THEN "new" ELSE "over"]
  /\ queue' = << >>
  /\ file' = "nil"
  /\ stats' = Zero /\ dropped' = 0
  /\ snapshot' = NoStats /\ last' = FALSE
  /\ matches' = 0 /\ accepted' = 0

Crash == proc # "down" /\ Stop /\ errs' = 0 /\ UNCHANGED disk

Close_WithoutTheLock ==
  /\ proc = "up"
  /\ proc' = "closing"
  /\ UNCHANGED <<memory, disk>>

(* Close takes queueMu, so it waits for a Log that holds it shared.        *)
Close ==
  /\ proc = "up"
  /\ \A r \in Rec : stage[r] # "sending"
  /\ proc' = "closing"
  /\ UNCHANGED <<memory, disk>>

-----------------------------------------------------------------------------
(* Comparison goroutines.  Nobody waits for them: they go on while Close   *)
(* drains the queue.                                                       *)

Match ==
  /\ proc # "down"
  /\ matches < MaxMatches
  /\ matches' = matches + 1
  /\ stats' = [stats EXCEPT !.compared = @ + 1]
  /\ UNCHANGED <<proc, stage, queue, file, dropped, errs, snapshot, last, accepted, disk>>

(* A comparison finds a disagreement.                                      *)
Meet(r) ==
  /\ proc # "down"
  /\ stage[r] = "new" /\ \A q \in 1 .. (r - 1) : stage[q] # "new"
  /\ stage' = [stage EXCEPT ![r] = "ready"]

(* record: Observe(false), then Log.                                       *)
Observe(r) ==
  /\ Meet(r)
  /\ stats' = [stats EXCEPT !.compared = @ + 1, !.mismatched = @ + 1]
  /\ UNCHANGED <<proc, queue, file, dropped, errs, snapshot, last, matches, accepted, disk>>

(* logAuthMismatch: logged for inspection, and not observed.               *)
LogAuthMismatch(r) ==
  /\ Meet(r)
  /\ UNCHANGED <<proc, queue, file, stats, dropped, errs, snapshot, last, matches, accepted, disk>>

(* Log: queueMu.RLock and the closed flag, then the send.                  *)
LogChecks(r) ==
  /\ proc # "down"
  /\ stage[r] = "ready"
  /\ stage' = [stage EXCEPT ![r] = IF proc = "closing" THEN "over" ELSE "sending"]
  /\ UNCHANGED <<proc, queue, file, stats, dropped, errs, snapshot, last, matches, accepted, disk>>

LogSends(r) ==
  /\ stage[r] = "sending"
  /\ IF Len(queue) < QueueSize
     THEN /\ queue' = Append(queue, r) /\ accepted' = accepted + 1
          /\ UNCHANGED dropped
     ELSE /\ dropped' = dropped + 1
          /\ UNCHANGED <<queue, accepted>>
  /\ stage' = [stage EXCEPT ![r] = "over"]
  /\ UNCHANGED <<proc, file, stats, errs, snapshot, last, matches, disk>>

-----------------------------------------------------------------------------
(* The writer goroutine: write(rec), under mu.                             *)

Dequeue ==
  /\ proc # "down" /\ snapshot = NoStats /\ queue # << >>
  /\ queue' = Tail(queue)
  /\ UNCHANGED <<proc, stage, dropped, snapshot, last, matches, accepted, saved>>

(* A record that is longer than the bound does not fill an empty file.     *)
Full_BeforeTheLine == Len(active) > MaxFileBytes
Full == Len(active) + Length[Head(queue)] > MaxFileBytes /\ Len(active) > 0

(* Shift n to n+1 from the oldest down, each rename replacing what is      *)
(* there.  The renames in `stuck' fail, and nothing looks at their errors. *)
Moves(n, stuck) == n \in 1 .. (MaxFiles - 1) /\ n \notin stuck /\ history[n].there
Shifted(stuck) ==
  [n \in 1 .. MaxFiles |->
     IF Moves(n - 1, stuck) THEN history[n - 1]
     ELSE IF Moves(n, stuck) THEN Absent
     ELSE history[n]]

Renamable == {n \in 1 .. (MaxFiles - 1) : history[n].there}

(* The line is in the file; a failing Sync is counted, and so is the line. *)
Logged(rotated) ==
  /\ stats' = [stats EXCEPT !.logged = @ + 1, !.rotations = @ + rotated]
  /\ errs' \in {errs} \cup IF errs < MaxErrors THEN {errs + 1} ELSE {}

NotLogged(rotated) ==
  /\ stats' = [stats EXCEPT !.rotations = @ + rotated]
  /\ errs' = errs + 1

(* file.Write puts the line after what the file holds, or fails, perhaps   *)
(* with a part of it written, which stays.                                 *)
WriteLine(before, rotated) ==
  LET r == Head(queue)
  IN \/ active' = before \o Line(r) /\ Logged(rotated)
     \/ /\ \E k \in 0 .. (Length[r] - 1) : active' = before \o Part(r, k)
        /\ NotLogged(rotated)

(* json.Marshal fails before anything else is looked at: a body that was   *)
(* kept whole and is not JSON.                                             *)
NotEncoded ==
  /\ Dequeue
  /\ NotLogged(0)
  /\ UNCHANGED <<file, files>>

AppendLine ==
  /\ Dequeue
  /\ file = "open" /\ ~Full
  /\ WriteLine(active, 0)
  /\ UNCHANGED <<file, history, unmoved>>

RotateAndAppend_NoShift ==
  /\ Dequeue
  /\ file = "open" /\ Full
  /\ unmoved' = {}
  /\ history' = [history EXCEPT ![1] = File(active)]
  /\ WriteLine(<< >>, 1)
  /\ UNCHANGED file

RotateAndAppend ==
  /\ Dequeue
  /\ file = "open" /\ Full
  /\ unmoved' \in SUBSET Renamable
  /\ history' = [Shifted(unmoved') EXCEPT ![1] = File(active)]
  /\ WriteLine(<< >>, 1)
  /\ UNCHANGED file

NoFile_Uncounted ==
  /\ Dequeue
  /\ file # "open"
  /\ UNCHANGED <<file, stats, errs, files>>

(* A file that an earlier failure closed: nothing opens it again.          *)
NoFile ==
  /\ Dequeue
  /\ file # "open"
  /\ NotLogged(0)
  /\ UNCHANGED <<file, files>>

(* rotateLocked fails: at Close of the file, which leaves w.file set; at   *)
(* the rename of the active file or before its copy, the history having    *)
(* been shifted already; within the copy, or at removing what was copied;  *)
(* at opening the successor.  A crash inside a rotation leaves the disk as *)
(* one of these and Crash do.                                              *)
RotateFails ==
  /\ Dequeue
  /\ file = "open" /\ Full
  /\ \/ file' = "broken" /\ NotLogged(0) /\ UNCHANGED files
     \/ /\ file' = "nil"
        /\ unmoved' \in SUBSET Renamable
        /\ \/ /\ \/ history' = Shifted(unmoved')
                 \/ \E k \in 0 .. Len(active) :
                      history' = [Shifted(unmoved') EXCEPT ![1] = File(SubSeq(active, 1, k))]
              /\ NotLogged(0)
              /\ UNCHANGED active
           \/ /\ history' = [Shifted(unmoved') EXCEPT ![1] = File(active)]
              /\ active' = << >>
              /\ NotLogged(1)

(* flushStats: the clone under statMu, then the two atomics and the save,  *)
(* which replaces the file by rename or fails.  It runs on the ticker, and *)
(* once more when the closed queue is drained.                             *)
Clone ==
  /\ proc # "down" /\ snapshot = NoStats
  /\ snapshot' = stats
  /\ UNCHANGED <<proc, stage, queue, file, stats, dropped, errs, matches, accepted, disk>>

Tick == Clone /\ last' = FALSE

Drained_LoopsOn == Clone /\ proc = "closing" /\ queue = << >> /\ last' = FALSE

Drained == Clone /\ proc = "closing" /\ queue = << >> /\ last' = TRUE

Snapshot == [snapshot EXCEPT !.dropped = dropped, !.errors = errs]

Save ==
  \/ saved' = Snapshot /\ UNCHANGED errs
  \/ errs < MaxErrors /\ errs' = errs + 1 /\ UNCHANGED saved

SaveStats ==
  /\ snapshot # NoStats /\ ~last
  /\ Save
  /\ snapshot' = NoStats
  /\ UNCHANGED <<proc, stage, queue, file, stats, dropped, matches, accepted, last, files>>

(* The loop returns, Close closes the file and the process exits.          *)
SaveAndStop ==
  /\ snapshot # NoStats /\ last
  /\ Save
  /\ Stop
  /\ UNCHANGED files

-----------------------------------------------------------------------------
Write == NotEncoded \/ AppendLine \/ RotateAndAppend \/ NoFile \/ RotateFails
Flush == Tick \/ Drained \/ SaveStats \/ SaveAndStop

Next ==
  \/ Open \/ Crash \/ Close
  \/ Match
  \/ \E r \in Rec : Observe(r) \/ LogAuthMismatch(r) \/ LogChecks(r) \/ LogSends(r)
  \/ Write \/ Flush

Spec == Init /\ [][Next]_vars

(* Goroutines that can run do.  The loop's select picks among its ready    *)
(* cases at random, so a ticker that is always ready does not keep it from *)
(* the queue for ever.                                                     *)
FairSpec ==
  /\ Spec
  /\ \A r \in Rec : WF_vars(LogSends(r))
  /\ SF_vars(Write) /\ SF_vars(Drained)
  /\ WF_vars(SaveStats) /\ WF_vars(SaveAndStop)

-----------------------------------------------------------------------------
(* Type invariant: the queue keeps its capacity and no counter goes        *)
(* negative.                                                               *)
Counters == [compared : Nat, mismatched : Nat, logged : Nat, rotations : Nat,
             restarts : Nat, dropped : Nat, errors : Nat]

TypeOK ==
  /\ proc \in {"up", "closing", "down"}
  /\ stage \in [Rec -> {"new", "ready", "sending", "over"}]
  /\ queue \in Seq(Rec) /\ Len(queue) <= QueueSize
  /\ file \in {"open", "nil", "broken"}
  /\ stats \in Counters
  /\ dropped \in Nat /\ errs \in Nat /\ matches \in 0 .. MaxMatches /\ accepted \in Nat
  /\ snapshot \in Counters \cup {NoStats} /\ last \in BOOLEAN
  /\ active \in Seq(Int \X Nat)
  /\ history \in [1 .. MaxFiles -> [there : BOOLEAN, bytes : Seq(Int \X Nat)]]
  /\ unmoved \subseteq 1 .. (MaxFiles - 1)
  /\ saved \in Counters \cup {NoStats}

(* "a send on a closed channel panics": no interleaving of Log and Close   *)
(* leaves a goroutine sending once the queue is closed.                    *)
NoSendOnClosedQueue ==
  proc = "closing" => \A r \in Rec : stage[r] # "sending"

(* "Bounded disk": neither failed writes and rotations nor restarts let a  *)
(* file grow past MaxFileBytes, except that a single record longer than    *)
(* that is written whole, into a file that holds nothing else.             *)
Fits(bytes) ==
  \/ Len(bytes) <= MaxFileBytes
  \/ \E r \in Rec : \E k \in 0 .. Length[r] : bytes = Part(r, k)

DiskBounded == Fits(active) /\ \A n \in 1 .. MaxFiles : Fits(history[n].bytes)

OnDisk == ToSet(active) \cup UNION {ToSet(history[n].bytes) : n \in 1 .. MaxFiles}

Overwritten == UNION {ToSet(history[n].bytes) : n \in {MaxFiles} \cup unmoved'}

(* "a crash never loses the evidence that prompted it": a byte that has    *)
(* reached the disk leaves it only with the oldest file, or with a rotated *)
(* file whose own rename failed, which the next rename or the new          *)
(* diffs.jsonl.1 then overwrites.  The active file is never lost,          *)
(* whichever step of a rotation fails and wherever the process dies.       *)
EvidenceKept ==
  [][OnDisk \ Overwritten \subseteq OnDisk']_vars

(* No record is lost in silence: what the queue accepted waits there, is   *)
(* counted as logged, or is covered by the count of errors, whichever step *)
(* of a write or of a rotation fails.                                      *)
AcceptedIsAccountedFor ==
  proc # "down" => accepted - stats.logged - Len(queue) \in 0 .. errs

Persisted(c) == loadStats(saved)[c]

(* "cumulative counters that survive restarts": a checkpoint never takes   *)
(* back an earlier one, whatever crash lies between them.  The counts of   *)
(* dropped records and of errors are left out: they start again from zero  *)
(* with every process.                                                     *)
CheckpointsGrow ==
  [][\A c \in {"compared", "mismatched", "logged", "rotations", "restarts"} :
       loadStats(saved')[c] >= Persisted(c)]_vars

(* Close returns: the loop drains what was queued and leaves, although the *)
(* ticker keeps firing, late comparisons keep calling Log and any write,   *)
(* rotation or save may fail.                                              *)
CloseReturns == proc = "closing" ~> proc = "down"
=============================================================================
