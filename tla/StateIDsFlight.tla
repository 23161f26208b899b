--------------------------- MODULE StateIDsFlight ---------------------------
(***************************************************************************)
(* Shared /state_ids computations: StateIDs and checkAccess of             *)
(* internal/matrixstate/stateids.go, and coalesce.go.                      *)
(*                                                                         *)
(* Each caller is checked for access, then joins the computation that runs *)
(* for its event or starts one.  The computation belongs to nobody: it     *)
(* runs on a context of its own and every caller waits under its own.      *)
(*                                                                         *)
(* A caller's origin is in the room or not, as of the moment it is asked;  *)
(* what is computed is only whether it succeeds.                           *)
(*                                                                         *)
(* A definition named X_Y is X with a fault, for showing that a property   *)
(* notices it; nothing uses it.                                            *)
(***************************************************************************)
EXTENDS Integers, FiniteSets

CONSTANTS
  Caller,    \* requests; one that has returned comes back as another
  Key        \* room and event

VARIABLES
  at,        \* "idle", "checking", "admitted", "waiting", "over"
  key,       \* what a caller asks for
  gone,      \* its context is done: hung up, or its serving budget spent
  allowed,   \* the database would let its origin read the room
  passed,    \* history: it was let in, by its own check
  got,       \* "nothing", "answer", "failure", "canceled", "refused"
  member,    \* singleflight: the channels of each running call
  running,   \* singleflight.Group.m: the key has a call
  leader     \* the caller whose request started it, or None

flightVars == <<at, key, gone, allowed, passed, got, member, running, leader>>
flight == <<member, running, leader>>

None == "none"

FlightInit ==
  /\ at = [c \in Caller |-> "idle"]
  /\ key \in [Caller -> Key]
  /\ gone = [c \in Caller |-> FALSE]
  /\ allowed \in [Caller -> BOOLEAN]
  /\ passed = [c \in Caller |-> FALSE]
  /\ got = [c \in Caller |-> "nothing"]
  /\ member = [k \in Key |-> {}]
  /\ running = [k \in Key |-> FALSE]
  /\ leader = [k \in Key |-> None]

Move(c, from, to) == at[c] = from /\ at' = [at EXCEPT ![c] = to]

Return(c, from, what) == Move(c, from, "over") /\ got' = [got EXCEPT ![c] = what]

-----------------------------------------------------------------------------
(* A caller.                                                               *)

Ask(c) ==
  /\ Move(c, "idle", "checking")
  /\ \E k \in Key : key' = [key EXCEPT ![c] = k]
  /\ UNCHANGED <<gone, allowed, passed, got, flight>>

(* checkAccess: partial state, membership, the server ACL.                 *)
Admit_Joiners(c) ==
  /\ Move(c, "checking", "admitted")
  /\ running[key[c]] \/ allowed[c]
  /\ passed' = [passed EXCEPT ![c] = allowed[c]]
  /\ UNCHANGED <<key, gone, allowed, got, flight>>

Admit(c) ==
  /\ Move(c, "checking", "admitted")
  /\ allowed[c]
  /\ passed' = [passed EXCEPT ![c] = TRUE]
  /\ UNCHANGED <<key, gone, allowed, got, flight>>

Refuse(c) ==
  /\ Return(c, "checking", "refused")
  /\ ~allowed[c]
  /\ UNCHANGED <<key, gone, allowed, passed, flight>>

CheckFails(c) ==
  /\ Return(c, "checking", "failure")
  /\ UNCHANGED <<key, gone, allowed, passed, flight>>

(* DoChan: join the key's call, or make one and run it.                    *)
Join(c) ==
  LET k == key[c] IN
  /\ Move(c, "admitted", "waiting")
  /\ member' = [member EXCEPT ![k] = @ \cup {c}]
  /\ running' = [running EXCEPT ![k] = TRUE]
  /\ leader' = [leader EXCEPT ![k] = IF running[k] THEN @ ELSE c]
  /\ UNCHANGED <<key, gone, allowed, passed, got>>

(* The ctx.Done branch: the caller leaves, its channel stays with the call.*)
Abandon(c) ==
  /\ Return(c, "waiting", "canceled")
  /\ gone[c]
  /\ UNCHANGED <<key, gone, allowed, passed, flight>>

-----------------------------------------------------------------------------
(* The computation ends: the key is free for another, and every channel    *)
(* gets the result.  A caller that has left does not look at it.           *)
Deliver_ToItsLeader(k, what) ==
  /\ running[k]
  /\ running' = [running EXCEPT ![k] = FALSE]
  /\ member' = [member EXCEPT ![k] = {}]
  /\ leader' = [leader EXCEPT ![k] = None]
  /\ at' = [c \in Caller |-> IF c = leader[k] THEN "over" ELSE at[c]]
  /\ got' = [c \in Caller |-> IF c = leader[k] THEN what ELSE got[c]]
  /\ UNCHANGED <<key, gone, allowed, passed>>

Deliver(k, what) ==
  LET here == {c \in member[k] : at[c] = "waiting" /\ key[c] = k} IN
  /\ running[k]
  /\ running' = [running EXCEPT ![k] = FALSE]
  /\ member' = [member EXCEPT ![k] = {}]
  /\ leader' = [leader EXCEPT ![k] = None]
  /\ at' = [c \in Caller |-> IF c \in here THEN "over" ELSE at[c]]
  /\ got' = [c \in Caller |-> IF c \in here THEN what ELSE got[c]]
  /\ UNCHANGED <<key, gone, allowed, passed>>

Computes(k) == Deliver(k, "answer")

(* An error, or stateIDsComputeTimeout.                                    *)
ComputeFails_WithItsLeader(k) ==
  \/ leader[k] \in Caller /\ gone[leader[k]] /\ Deliver(k, "canceled")
  \/ Deliver(k, "failure")

ComputeFails(k) == Deliver(k, "failure")

(* A panic is turned into an error before singleflight sees it.            *)
ComputePanics(k) == Deliver(k, "failure")

-----------------------------------------------------------------------------
(* The environment: a client hangs up or its budget runs out; a room's     *)
(* membership or ACL changes.                                              *)
HangUp(c) ==
  /\ at[c] \in {"checking", "admitted", "waiting"}
  /\ ~gone[c]
  /\ gone' = [gone EXCEPT ![c] = TRUE]
  /\ UNCHANGED <<at, key, allowed, passed, got, flight>>

Ban(c) ==
  /\ at[c] \in {"idle", "checking"}
  /\ allowed' = [allowed EXCEPT ![c] = ~@]
  /\ UNCHANGED <<at, key, gone, passed, got, flight>>

Retire(c) ==
  /\ at[c] = "over"
  /\ \A k \in Key : c \notin member[k]
  /\ Move(c, "over", "idle")
  /\ gone' = [gone EXCEPT ![c] = FALSE]
  /\ passed' = [passed EXCEPT ![c] = FALSE]
  /\ got' = [got EXCEPT ![c] = "nothing"]
  /\ UNCHANGED <<key, allowed, flight>>

Step(c) == Admit(c) \/ Refuse(c) \/ CheckFails(c) \/ Join(c) \/ Abandon(c)
Computation(k) == Computes(k) \/ ComputeFails(k) \/ ComputePanics(k)

FlightNext ==
  \/ \E c \in Caller : Ask(c) \/ Step(c) \/ HangUp(c) \/ Ban(c) \/ Retire(c)
  \/ \E k \in Key : Computation(k)

FlightSpec == FlightInit /\ [][FlightNext]_flightVars

(* Goroutines run, and a computation is bounded by its own timeout.        *)
FairFlightSpec ==
  /\ FlightSpec
  /\ \A c \in Caller : WF_flightVars(Step(c))
  /\ \A k \in Key : WF_flightVars(Computation(k))

-----------------------------------------------------------------------------
(* Type invariant.                                                         *)
FlightTypeOK ==
  /\ at \in [Caller -> {"idle", "checking", "admitted", "waiting", "over"}]
  /\ key \in [Caller -> Key]
  /\ gone \in [Caller -> BOOLEAN] /\ allowed \in [Caller -> BOOLEAN]
  /\ passed \in [Caller -> BOOLEAN]
  /\ got \in [Caller -> {"nothing", "answer", "failure", "canceled", "refused"}]
  /\ member \in [Key -> SUBSET Caller]
  /\ running \in [Key -> BOOLEAN]
  /\ leader \in [Key -> Caller \cup {None}]

(* "the first server to hang up would cancel the work everyone else is     *)
(* waiting on": a caller is cancelled only by its own context.             *)
HangUpIsPrivate == \A c \in Caller : got[c] = "canceled" => gone[c]

(* "The access check depends on who is asking and runs per request, before *)
(* joining": sharing an answer lets nobody in who was not let in himself.  *)
NoFreeRide == \A c \in Caller : got[c] = "answer" => passed[c]

(* Every caller is answered, fails or leaves.                              *)
EveryCallerReturns == \A c \in Caller : at[c] = "checking" ~> at[c] = "over"
=============================================================================
