----------------------------- MODULE RequestPath -----------------------------
(***************************************************************************)
(* One federation request through the worker: internal/fedapi/handler.go,  *)
(* canary.go and stream.go, composed with the rate limiter and with the    *)
(* forwarding half of internal/proxy.                                      *)
(*                                                                         *)
(* The limiter is RateLimit itself: a request enters it with Arrive, moves *)
(* through it with Acquire and gives its slot back with Release, and the   *)
(* handler's own state is phase[r] and what the client and Synapse have    *)
(* seen of the request.                                                    *)
(*                                                                         *)
(* A definition named X_Y is X with a fault, for showing that a property   *)
(* notices it; nothing uses it.                                            *)
(***************************************************************************)
EXTENDS Integers, FiniteSets

CONSTANTS
  Req, Host, Inst, NoInst,
  ConfSleepLimit, ConfRejectLimit, ConfConcurrent, Prompt,
  Asks,         \* Asks[r]: modes and kinds of the endpoints r may be for
  HasShadow     \* Handler.shadow is set

VARIABLES
  hosts, recent, sleeping, queued, processing, waiters, idle, pc, inst, origin, gone

VARIABLES
  phase,     \* where ServeHTTP is with the request
  mode,      \* config.Mode.Kind of its endpoint
  kind,      \* its endpoint streams its answer, or builds it first
  wrote,     \* what has been written to the client
  hungup,    \* r.Context() is done
  asked,     \* how often Synapse has been asked to compute an answer for it
  compared,  \* how a comparison was started: by Go, by CompareServed, or not
  passes,    \* passes over Synapse's answer that its diagnosis has made
  digester   \* StateSink's goroutine: reading the pipe, which Wait closes

RL == INSTANCE RateLimit

limiter == <<hosts, recent, sleeping, queued, processing, waiters, idle, pc, inst, origin, gone>>
own == <<phase, mode, kind, wrote, hungup, asked, compared, passes, digester>>
vars == <<limiter, own>>

(***************************************************************************)
(* idle       no request                                                   *)
(* limiter    inside limiter.Acquire                                       *)
(* native     serveNative runs, a slot is held                             *)
(* committed  serveStreamed has written the first bytes                    *)
(* served     serveNative returned Served, release() not yet called        *)
(* failed     serveNative returned a fallback reason, likewise             *)
(* proxy      past the native path, before the client check                *)
(* forward    proxy.Forward or ForwardStreaming runs                       *)
(* drain      in sink.Wait()                                               *)
(* done       ServeHTTP returned                                           *)
(* aborted    http.ErrAbortHandler unwound ServeHTTP                       *)
(* panicked   another panic, which nothing recovers, unwound ServeHTTP     *)
(***************************************************************************)
Phases == {"idle", "limiter", "native", "committed", "served", "failed",
           "proxy", "forward", "drain", "done", "aborted", "panicked"}
Ended == {"done", "aborted", "panicked"}

(* Written: part of our stream, our answer, our Matrix error, a 429, a     *)
(* refused body, part of Synapse's answer, all of it, the proxy's 502.     *)
Writes == {"nothing", "part", "native", "error", "429", "badbody",
           "upstreampart", "upstream", "502"}
Complete == {"native", "error", "429", "badbody", "upstream", "502"}

(* config.Mode.Kind, and whether the answer is streamed (Endpoint.Streams) *)
(* or built first.                                                         *)
Modes == {"proxy", "shadow", "canary", "native"}
Kinds == {"buffered", "streamed"}

ASSUME AsksAssumption ==
  /\ Asks \in [Req -> SUBSET (Modes \X Kinds)]
  /\ HasShadow \in BOOLEAN

Init ==
  /\ RL!Init
  /\ phase = [r \in Req |-> "idle"]
  /\ mode = [r \in Req |-> "proxy"]
  /\ kind = [r \in Req |-> "buffered"]
  /\ wrote = [r \in Req |-> "nothing"]
  /\ hungup = [r \in Req |-> FALSE]
  /\ asked = [r \in Req |-> 0]
  /\ compared = [r \in Req |-> "no"]
  /\ passes = [r \in Req |-> 0]
  /\ digester = [r \in Req |-> "none"]

Goto(r, from, to) == phase[r] = from /\ phase' = [phase EXCEPT ![r] = to]

Write(r, what) == wrote' = [wrote EXCEPT ![r] = what]

-----------------------------------------------------------------------------
(* A request comes in: routed, its mode looked up, its body buffered when  *)
(* the endpoint has one, and the canary's hash drawn.                      *)

(* sampled(): native serves everything, canary the share its hash selects  *)
(* (both outcomes happen), the other modes nothing.                        *)
Sampled(m) == CASE m = "native" -> {TRUE}
                [] m = "canary" -> {TRUE, FALSE}
                [] OTHER -> {FALSE}

New(r, m, k) ==
  /\ mode' = [mode EXCEPT ![r] = m]
  /\ kind' = [kind EXCEPT ![r] = k]
  /\ hungup' = [hungup EXCEPT ![r] = FALSE]
  /\ asked' = [asked EXCEPT ![r] = 0]
  /\ compared' = [compared EXCEPT ![r] = "no"]
  /\ passes' = [passes EXCEPT ![r] = 0]
  /\ digester' = [digester EXCEPT ![r] = "none"]

ServeHTTP(r) ==
  \E ask \in Asks[r] :
    /\ New(r, ask[1], ask[2])
    /\ UNCHANGED wrote
    /\ \E natively \in Sampled(ask[1]) :
         IF natively
         THEN Goto(r, "idle", "limiter") /\ RL!Arrive(r)
         ELSE Goto(r, "idle", "proxy") /\ UNCHANGED limiter

(* The body could not be read (400) or is over maxRequestBody (413).       *)
RefuseBody(r) ==
  \E ask \in Asks[r] :
    /\ ask[2] = "buffered"
    /\ New(r, ask[1], ask[2])
    /\ Goto(r, "idle", "done")
    /\ Write(r, "badbody")
    /\ UNCHANGED limiter

-----------------------------------------------------------------------------
(* limiter.Acquire and what ServeHTTP makes of its result.                 *)

Limited_GoesOn(r) ==
  /\ Goto(r, "limiter", "proxy")
  /\ RL!Reject(r)
  /\ Write(r, "429")
  /\ UNCHANGED <<mode, kind, hungup, asked, compared, digester, passes>>

Limited(r) ==
  /\ Goto(r, "limiter", "done")
  /\ RL!Reject(r)
  /\ Write(r, "429")
  /\ UNCHANGED <<mode, kind, hungup, asked, compared, digester, passes>>

LimiterCanceled(r) ==
  /\ Goto(r, "limiter", "done")
  /\ RL!SleepCanceled(r) \/ RL!AbandonQueue(r) \/ RL!AbandonSlot(r)
  /\ UNCHANGED <<mode, kind, wrote, hungup, asked, compared, digester, passes>>

Acquired(r) ==
  /\ Goto(r, "limiter", "native")
  /\ RL!TakeSlot(r) \/ RL!Wake(r)
  /\ UNCHANGED <<mode, kind, wrote, hungup, asked, compared, digester, passes>>

InLimiter(r) ==
  /\ phase[r] = "limiter"
  /\ RL!Admit(r) \/ RL!SleepEnds(r) \/ RL!JoinQueue(r) \/ RL!GiveUp(r)
  /\ UNCHANGED own

-----------------------------------------------------------------------------
(* serveNative.                                                            *)

(* No resolver, a rejected signature, an error, a timeout, or a panic      *)
(* while the answer is built, which answer() recovers: a reason to fall    *)
(* back, with nothing written.                                             *)
NativeFails(r) ==
  /\ Goto(r, "native", "failed")
  /\ UNCHANGED <<limiter, mode, kind, wrote, hungup, asked, compared, digester, passes>>

(* A panic where nothing recovers, in verifier.Verify or, before its first *)
(* byte, in the State that serveStreamed calls: it unwinds ServeHTTP past  *)
(* release() and the proxy, and net/http closes the connection.            *)
NativePanics(r) ==
  /\ Goto(r, "native", "panicked")
  /\ UNCHANGED <<limiter, mode, kind, wrote, hungup, asked, compared, digester, passes>>

(* compareServed / compareStateServed: a detached goroutine replays the    *)
(* request to Synapse and compares.                                        *)
Verifies(r) == mode[r] = "canary" /\ HasShadow

CompareServed_InEveryMode(r) ==
  /\ compared' = [compared EXCEPT ![r] = "served"]
  /\ asked' = [asked EXCEPT ![r] = @ + 1]

CompareServed(r) ==
  IF Verifies(r)
  THEN /\ compared' = [compared EXCEPT ![r] = "served"]
       /\ asked' = [asked EXCEPT ![r] = @ + 1]
  ELSE UNCHANGED <<compared, asked>>

(* A built answer, Matrix errors included, is written in one piece.        *)
NativeAnswers(r) ==
  /\ kind[r] = "buffered"
  /\ Goto(r, "native", "served")
  /\ \E what \in {"native", "error"} : Write(r, what)
  /\ CompareServed(r)
  /\ UNCHANGED <<limiter, mode, kind, hungup, digester, passes>>

(* serveStreamed: a MatrixError before the first byte is served, with no   *)
(* StateResult and so no comparison.                                       *)
StreamRefuses(r) ==
  /\ kind[r] = "streamed"
  /\ Goto(r, "native", "served")
  /\ Write(r, "error")
  /\ UNCHANGED <<limiter, mode, kind, hungup, asked, compared, digester, passes>>

(* lazyResponse.Write: the first byte commits the response.                *)
StreamCommits(r) ==
  /\ kind[r] = "streamed"
  /\ Goto(r, "native", "committed")
  /\ Write(r, "part")
  /\ UNCHANGED <<limiter, mode, kind, hungup, asked, compared, digester, passes>>

StreamCompletes(r) ==
  /\ Goto(r, "committed", "served")
  /\ Write(r, "native")
  /\ CompareServed(r)
  /\ UNCHANGED <<limiter, mode, kind, hungup, digester, passes>>

(* The client hung up or stalled, the absolute budget ran out, or our walk *)
(* failed: panic(http.ErrAbortHandler) unwinds serveNative and ServeHTTP,  *)
(* past the call of release().  A panic of the walk itself does the same.  *)
StreamAborts(r) ==
  /\ Goto(r, "committed", "aborted")
  /\ UNCHANGED <<limiter, mode, kind, wrote, hungup, asked, compared, digester, passes>>

(* release(), directly after serveNative.                                  *)
ReleaseServed(r) ==
  /\ Goto(r, "served", "done")
  /\ RL!Release(r)
  /\ UNCHANGED <<mode, kind, wrote, hungup, asked, compared, digester, passes>>

ReleaseFailed_AtTheEnd(r) ==
  /\ Goto(r, "failed", "proxy")
  /\ UNCHANGED <<limiter, mode, kind, wrote, hungup, asked, compared, digester, passes>>

ReleaseFailed_NoFallback(r) ==
  /\ Goto(r, "failed", "done")
  /\ RL!Release(r)
  /\ UNCHANGED <<mode, kind, wrote, hungup, asked, compared, digester, passes>>

ReleaseFailed(r) ==
  /\ Goto(r, "failed", "proxy")
  /\ RL!Release(r)
  /\ UNCHANGED <<mode, kind, wrote, hungup, asked, compared, digester, passes>>

-----------------------------------------------------------------------------
(* The proxy path.                                                         *)

(* r.Context().Err(): a client that has gone needs no answer.              *)
SkipUpstream(r) ==
  /\ hungup[r]
  /\ Goto(r, "proxy", "done")
  /\ UNCHANGED <<limiter, mode, kind, wrote, hungup, asked, compared, digester, passes>>

Shadowing(r) == mode[r] \in {"shadow", "canary"} /\ HasShadow

(* A streamed answer to be compared is digested on its way to the client,  *)
(* by a goroutine at the other end of a pipe.                              *)
HasSink(r) == Shadowing(r) /\ kind[r] = "streamed"

Forward(r) ==
  /\ ~hungup[r]
  /\ Goto(r, "proxy", "forward")
  /\ asked' = [asked EXCEPT ![r] = @ + 1]
  /\ digester' = [digester EXCEPT ![r] = IF HasSink(r) THEN "reading" ELSE @]
  /\ UNCHANGED <<limiter, mode, kind, wrote, hungup, compared, passes>>

(* The proxy has returned.  A digester is told, by closing the pipe, and   *)
(* waited for, whether or not there will be a comparison.                  *)
Returned(r) ==
  /\ Goto(r, "forward", IF HasSink(r) THEN "drain" ELSE "done")
  /\ digester' = [digester EXCEPT ![r] = IF HasSink(r) THEN "draining" ELSE @]

(* The whole answer reached the client; shadow.Go is called.               *)
ForwardCompletes(r) ==
  /\ Returned(r)
  /\ Write(r, "upstream")
  /\ compared' = [compared EXCEPT ![r] = IF Shadowing(r) /\ ~HasSink(r) THEN "shadow" ELSE @]
  /\ UNCHANGED <<limiter, mode, kind, hungup, asked, passes>>

(* Synapse unreachable or too slow: ErrorHandler writes 502, Result.Err.   *)
ForwardFails(r) ==
  /\ Returned(r)
  /\ Write(r, "502")
  /\ UNCHANGED <<limiter, mode, kind, hungup, asked, compared, passes>>

ForwardCanceled_Compared(r) ==
  /\ hungup[r]
  /\ Goto(r, "forward", "done")
  /\ compared' = [compared EXCEPT ![r] = IF Shadowing(r) THEN "shadow" ELSE @]
  /\ UNCHANGED <<limiter, mode, kind, wrote, hungup, asked, digester, passes>>

ForwardCanceled_NoWait(r) ==
  /\ hungup[r]
  /\ Goto(r, "forward", "done")
  /\ UNCHANGED <<limiter, mode, kind, wrote, hungup, asked, compared, digester, passes>>

(* The client hung up before Synapse answered: Result.Canceled.            *)
ForwardCanceled(r) ==
  /\ hungup[r]
  /\ Returned(r)
  /\ UNCHANGED <<limiter, mode, kind, wrote, hungup, asked, compared, passes>>

(* Copying the body failed part-way: ReverseProxy panics ErrAbortHandler,  *)
(* past sink.Wait() too.                                                   *)
ForwardAborts(r) ==
  /\ Goto(r, "forward", "aborted")
  /\ Write(r, "upstreampart")
  /\ UNCHANGED <<limiter, mode, kind, hungup, asked, compared, digester, passes>>

(* Parsed or not, the pipe is read to its end, which only Wait brings.     *)
DigesterEnds(r) ==
  /\ digester[r] = "draining"
  /\ digester' = [digester EXCEPT ![r] = "done"]
  /\ UNCHANGED <<limiter, phase, mode, kind, wrote, hungup, asked, compared, passes>>

(* Wait returns; GoState is called unless the answer was none.             *)
Digested(r) ==
  /\ digester[r] = "done"
  /\ Goto(r, "drain", "done")
  /\ compared' = [compared EXCEPT ![r] = IF wrote[r] = "upstream" THEN "shadow" ELSE @]
  /\ UNCHANGED <<limiter, mode, kind, wrote, hungup, asked, digester, passes>>

-----------------------------------------------------------------------------
(* A comparison of /state that finds a disagreement has it diagnosed by a  *)
(* goroutine of its own: DiagnoseStateMismatch replays the request to both *)
(* sides, and once more to name the events unless the first pass agrees or *)
(* a replay fails.                                                         *)
Diagnose(r) ==
  /\ compared[r] # "no" /\ kind[r] = "streamed"
  /\ passes[r] < 2
  /\ passes' = [passes EXCEPT ![r] = @ + 1]
  /\ asked' = [asked EXCEPT ![r] = @ + 1]
  /\ UNCHANGED <<limiter, phase, mode, kind, wrote, hungup, compared, digester>>

-----------------------------------------------------------------------------
(* The client hangs up at any time; the limiter sees the same context.     *)
HangUp(r) ==
  /\ phase[r] \notin Ended \cup {"idle"}
  /\ ~hungup[r]
  /\ hungup' = [hungup EXCEPT ![r] = TRUE]
  /\ IF phase[r] = "limiter" THEN RL!HangUp(r) ELSE UNCHANGED limiter
  /\ UNCHANGED <<phase, mode, kind, wrote, asked, compared, digester, passes>>

(* The goroutine is free for another request.  One whose slot was never    *)
(* given back still occupies it, so it does not come back.                 *)
Retire(r) ==
  /\ phase[r] \in Ended
  /\ pc[r] = "out"
  /\ phase' = [phase EXCEPT ![r] = "idle"]
  /\ New(r, "proxy", "buffered")
  /\ Write(r, "nothing")
  /\ UNCHANGED limiter

Housekeeping ==
  /\ \/ \E h \in Host : RL!Cleanup(h)
     \/ \E i \in Inst : RL!BecomeIdle(i)
  /\ UNCHANGED own

Serve(r) ==
  \/ Limited(r) \/ LimiterCanceled(r) \/ Acquired(r) \/ InLimiter(r)
  \/ NativeFails(r) \/ NativePanics(r) \/ NativeAnswers(r)
  \/ StreamRefuses(r) \/ StreamCommits(r) \/ StreamCompletes(r) \/ StreamAborts(r)
  \/ ReleaseServed(r) \/ ReleaseFailed(r)
  \/ SkipUpstream(r) \/ Forward(r)
  \/ ForwardCompletes(r) \/ ForwardFails(r) \/ ForwardCanceled(r) \/ ForwardAborts(r)
  \/ DigesterEnds(r) \/ Digested(r) \/ Diagnose(r)

Next ==
  \/ \E r \in Req : ServeHTTP(r) \/ RefuseBody(r) \/ Serve(r) \/ HangUp(r) \/ Retire(r)
  \/ Housekeeping

Spec == Init /\ [][Next]_vars

-----------------------------------------------------------------------------
(* Type invariant.                                                         *)
TypeOK ==
  /\ RL!TypeOK
  /\ phase \in [Req -> Phases]
  /\ mode \in [Req -> Modes]
  /\ kind \in [Req -> Kinds]
  /\ wrote \in [Req -> Writes]
  /\ hungup \in [Req -> BOOLEAN]
  /\ asked \in [Req -> 0 .. 3]
  /\ compared \in [Req -> {"no", "shadow", "served"}]
  /\ passes \in [Req -> 0 .. 2]
  /\ digester \in [Req -> {"none", "reading", "draining", "done"}]

(* "When it returns false nothing has been written": once a byte of one    *)
(* answer is out, only the rest of that same answer may follow, until the  *)
(* goroutine takes another request.                                        *)
OneAnswer ==
  [][\A r \in Req :
       wrote'[r] # wrote[r] =>
         \/ phase'[r] = "idle"
         \/ wrote[r] = "nothing"
         \/ wrote[r] = "part" /\ wrote'[r] = "native"]_vars

(* A client that is still there when its handler returns has a complete    *)
(* answer from somebody: every native failure that serveNative returns     *)
(* reached the proxy.  One whose handler gave up part-way has a connection *)
(* that breaks off inside an answer, and so can tell.  A panic that nobody *)
(* recovers (NativePanics) is the one way to be left with nothing.         *)
NobodyForgotten ==
  \A r \in Req :
    phase[r] \in {"done", "aborted"} /\ ~hungup[r] =>
      \/ wrote[r] \in Complete
      \/ phase[r] = "aborted" /\ wrote[r] \in {"part", "upstreampart"}

(* Each request costs Synapse at most one computation, or three where an   *)
(* answer to /state was compared, for the two passes of a diagnosis; and   *)
(* one answered natively in native mode costs none ("Synapse still does    *)
(* the work: no").                                                         *)
SynapseCost ==
  \A r \in Req :
    /\ asked[r] <= IF kind[r] = "streamed" /\ compared[r] # "no" THEN 3 ELSE 1
    /\ mode[r] = "native" /\ wrote[r] \in {"part", "native", "error"} => asked[r] = 0

(* The slot is given back before Synapse is asked in our stead, so a slow  *)
(* upstream never counts against the origin's native concurrency and the   *)
(* proxied share is never limited; and a handler that returns, rather than *)
(* unwinds, has given it back.                                             *)
NoSlotAfterNative ==
  \A r \in Req : phase[r] \in {"proxy", "forward", "drain", "done"} => pc[r] = "out"

(* "A canary verifies what it served" (README), and nothing is compared    *)
(* unless the client got the whole answer the comparison judges.  The one  *)
(* served answer that is not verified is a Matrix error of a streamed      *)
(* endpoint, which StreamRefuses has no StateResult for.                   *)
ComparedIsComplete ==
  \A r \in Req :
    /\ compared[r] = "shadow" => wrote[r] = "upstream" /\ digester[r] \in {"none", "done"}
    /\ compared[r] = "served" => wrote[r] \in {"native", "error"}
    /\ (/\ Verifies(r)
        /\ phase[r] = "done"
        /\ \/ wrote[r] = "native"
           \/ wrote[r] = "error" /\ kind[r] = "buffered") => compared[r] = "served"

(* "Always drained, even when the comparison is abandoned": a handler that *)
(* returns leaves no digester "blocked on a pipe that nobody closes".  One *)
(* that the proxy's panic unwinds does (ForwardAborts), for ever.          *)
DigesterReleased ==
  \A r \in Req :
    /\ phase[r] = "done" => digester[r] \in {"none", "done"}
    /\ digester[r] = "reading" => phase[r] = "forward" \/ wrote[r] = "upstreampart"

(* limiter.go: Acquire "returns a release function that must be called     *)
(* when the request finishes", be it by the abort it means to make.        *)
SlotReturned == \A r \in Req : phase[r] \in {"done", "aborted"} => pc[r] = "out"
=============================================================================
