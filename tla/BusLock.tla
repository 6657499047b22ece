------------------------------ MODULE BusLock ------------------------------
(***************************************************************************)
(* The process-wide bus guard of inv-driver (internal/buslock) and the     *)
(* three kinds of goroutine that share it:                                 *)
(*                                                                         *)
(*  - the telemetry poller (internal/telemetrypoll), which acquires        *)
(*    politely, walks the fleet and gives way when its yield channel is    *)
(*    closed;                                                              *)
(*  - pairing requests (internal/pairing startOp), which acquire with      *)
(*    priority while holding runMu and then hand the lock to an operation  *)
(*    goroutine;                                                           *)
(*  - grid-profile broadcast jobs (internal/gridprofile                    *)
(*    runBroadcastFleet), which try once and give up.                      *)
(*                                                                         *)
(* Every step that takes l.mu once is one action; what a goroutine does    *)
(* between two such steps may interleave with everything else.  A request  *)
(* and a broadcast job run once each, so a context, a done channel and a   *)
(* cancel function are named by the request that made them.                *)
(***************************************************************************)
EXTENDS Integers

CONSTANTS
    Requests,      \* pairing start requests (IPC handler goroutines)
    Casts,         \* broadcast jobs (one goroutine each)
    MaxInverters,  \* bound on the inventory a poll round lists
    NoRequest      \* "nil" for runMu, m.cancel and the abort handler

ASSUME BusLockAssumption ==
    /\ NoRequest \notin Requests
    /\ MaxInverters \in Nat

VARIABLES
    held, owner, waiting, yield,        \* buslock.Lock, all guarded by mu
    ppc, todo, revoked,                 \* Poller.poll: place, inverters left, its yield channel closed?
    rpc, runMu,                         \* startOp: place of each request, holder of runMu
    current, opc, cancelled,            \* Manager.cancel/done, the op goroutines, their contexts
    aborting,                           \* abort handler: the cancel function it read
    cpc,                                \* runBroadcastFleet: place of each job
    ctxDone,                            \* the process context is cancelled
    sentWhileWaiting                    \* history: telemetry frames sent since the pending pause request

lockVars == <<held, owner, waiting, yield>>
pollVars == <<ppc, todo, revoked>>
reqVars  == <<rpc, runMu>>
opVars   == <<current, opc, cancelled>>
vars == <<held, owner, waiting, yield, ppc, todo, revoked, rpc, runMu,
          current, opc, cancelled, aborting, cpc, ctxDone, sentWhileWaiting>>

Owners == {"none", "telemetry-poll", "pairing", "gridprofile-broadcast"}

TypeOK ==
    /\ held \in BOOLEAN
    /\ owner \in Owners
    /\ waiting \in Nat
    /\ yield \in BOOLEAN
    /\ ppc \in {"idle", "list", "check", "send", "wait", "release", "stopped"}
    /\ todo \in 0..MaxInverters
    /\ revoked \in BOOLEAN
    /\ rpc \in [Requests -> {"new", "start", "acquire", "waiting", "claimed",
                             "timedout", "launch", "started", "refused"}]
    /\ runMu \in Requests \cup {NoRequest}
    /\ current \in Requests \cup {NoRequest}
    /\ opc \in [Requests -> {"none", "run", "release", "close", "ended"}]
    /\ cancelled \in [Requests -> BOOLEAN]
    /\ aborting \in Requests \cup {NoRequest}
    /\ cpc \in [Casts -> {"new", "push", "follow", "release", "ended"}]
    /\ ctxDone \in BOOLEAN
    /\ sentWhileWaiting \in Nat

Init ==
    /\ held = FALSE /\ owner = "none" /\ waiting = 0 /\ yield = FALSE
    /\ ppc = "idle" /\ todo = 0 /\ revoked = FALSE
    /\ rpc = [r \in Requests |-> "new"] /\ runMu = NoRequest
    /\ current = NoRequest
    /\ opc = [r \in Requests |-> "none"]
    /\ cancelled = [r \in Requests |-> FALSE]
    /\ aborting = NoRequest
    /\ cpc = [c \in Casts |-> "new"]
    /\ ctxDone = FALSE
    /\ sentWhileWaiting = 0

-----------------------------------------------------------------------------
(* The lock's own operations, each one critical section of l.mu.           *)

\* TryAcquire, on the branch that gets the lock.
TryAcquire(o) ==
    /\ ~held
    /\ held' = TRUE /\ owner' = o
    /\ UNCHANGED <<waiting, yield>>

\* Release frees the lock whoever holds it; it forgets the yield channel
\* and does not close it.
Release ==
    /\ held' = FALSE /\ owner' = "none" /\ yield' = FALSE
    /\ UNCHANGED waiting

\* Faulty variant: the polite acquire forgets the waiting operator.
AcquirePoliteBarging(o) ==
    /\ ~held
    /\ held' = TRUE /\ owner' = o /\ yield' = TRUE
    /\ UNCHANGED waiting

\* AcquirePolite, on the branch that gets the lock: a fresh, open channel.
AcquirePolite(o) ==
    /\ ~held /\ waiting = 0
    /\ held' = TRUE /\ owner' = o /\ yield' = TRUE
    /\ UNCHANGED waiting

\* Faulty variant: the pause request is not counted.
RaisePauseUncounted ==
    /\ revoked' = (revoked \/ yield)
    /\ yield' = FALSE
    /\ UNCHANGED <<held, owner, waiting>>

\* The entry of AcquirePriority: raise the pause and revoke a polite holder.
\* The channel is forgotten as it is closed, so it is closed once.
RaisePause ==
    /\ waiting' = waiting + 1
    /\ revoked' = (revoked \/ yield)
    /\ yield' = FALSE
    /\ UNCHANGED <<held, owner>>

\* One turn of AcquirePriority's loop that finds the lock free.
PriorityClaim(o) ==
    /\ ~held
    /\ held' = TRUE /\ owner' = o
    /\ UNCHANGED <<waiting, yield>>

\* Faulty variant: the pause request is never taken back.
ClearPauseForgotten == UNCHANGED lockVars

\* The deferred exit of AcquirePriority: it runs after the claim or the
\* timeout, in a critical section of its own.
ClearPause ==
    /\ waiting' = waiting - 1
    /\ UNCHANGED <<held, owner, yield>>

-----------------------------------------------------------------------------
(* The poller.                                                             *)

\* A tick of Run that wins the lock.  A tick that does not is a stutter.
PollTick ==
    /\ ppc = "idle"
    /\ AcquirePolite("telemetry-poll")
    /\ ppc' = "list" /\ revoked' = FALSE
    /\ UNCHANGED <<todo, reqVars, opVars, aborting, cpc, ctxDone, sentWhileWaiting>>

\* ListInvertersForPoll: an error or an empty inventory ends the round.
PollList ==
    /\ ppc = "list"
    /\ \E n \in 0..MaxInverters :
          /\ todo' = n
          /\ ppc' = IF n = 0 THEN "release" ELSE "check"
    /\ UNCHANGED <<lockVars, revoked, reqVars, opVars, aborting, cpc, ctxDone, sentWhileWaiting>>

\* The non-blocking select at the head of the per-inverter loop.
PollCheck ==
    /\ ppc = "check"
    /\ ppc' = IF revoked \/ ctxDone THEN "release" ELSE "send"
    /\ UNCHANGED <<lockVars, todo, revoked, reqVars, opVars, aborting, cpc, ctxDone, sentWhileWaiting>>

\* SendToBackend: refused (no backend, queue full) ends the round, and so
\* does the last inverter.
PollSend ==
    /\ ppc = "send"
    /\ \/ /\ ppc' = "release"
          /\ UNCHANGED <<todo, sentWhileWaiting>>
       \/ /\ todo' = todo - 1
          /\ ppc' = IF todo = 1 THEN "release" ELSE "wait"
          /\ sentWhileWaiting' = sentWhileWaiting + (IF waiting > 0 THEN 1 ELSE 0)
    /\ UNCHANGED <<lockVars, revoked, reqVars, opVars, aborting, cpc, ctxDone>>

\* The blocking select between two sends.  When the timer and the yield
\* channel are both ready the runtime may pick either.
PollWait ==
    /\ ppc = "wait"
    /\ \/ ppc' = "check"
       \/ (revoked \/ ctxDone) /\ ppc' = "release"
    /\ UNCHANGED <<lockVars, todo, revoked, reqVars, opVars, aborting, cpc, ctxDone, sentWhileWaiting>>

\* The deferred Release of the round.
PollRelease ==
    /\ ppc = "release"
    /\ Release
    /\ ppc' = "idle"
    /\ UNCHANGED <<todo, revoked, reqVars, opVars, aborting, cpc, ctxDone, sentWhileWaiting>>

\* Run returns when its context is cancelled.
PollStop ==
    /\ ppc = "idle" /\ ctxDone
    /\ ppc' = "stopped"
    /\ UNCHANGED <<lockVars, todo, revoked, reqVars, opVars, aborting, cpc, ctxDone, sentWhileWaiting>>

-----------------------------------------------------------------------------
(* Pairing requests: startOp.                                              *)

\* A start request arrives and asks for runMu.
Arrive(r) ==
    /\ rpc[r] = "new"
    /\ rpc' = [rpc EXCEPT ![r] = "start"]
    /\ UNCHANGED <<lockVars, pollVars, runMu, opVars, aborting, cpc, ctxDone, sentWhileWaiting>>

\* Faulty variant: only the bus lock, not the done channel, is asked.
PreviousDoneUnchecked == TRUE

\* The previous op's done channel is nil or closed.
PreviousDone == current = NoRequest \/ opc[current] = "ended"

\* runMu is taken; a previous op whose done channel is still open refuses
\* the request at once, and runMu is given back.
LockRun(r) ==
    /\ rpc[r] = "start" /\ runMu = NoRequest
    /\ IF PreviousDone
       THEN rpc' = [rpc EXCEPT ![r] = "acquire"] /\ runMu' = r
       ELSE rpc' = [rpc EXCEPT ![r] = "refused"] /\ UNCHANGED runMu
    /\ UNCHANGED <<lockVars, pollVars, opVars, aborting, cpc, ctxDone, sentWhileWaiting>>

AcquireStart(r) ==
    /\ rpc[r] = "acquire"
    /\ RaisePause
    /\ rpc' = [rpc EXCEPT ![r] = "waiting"]
    /\ UNCHANGED <<ppc, todo, runMu, opVars, aborting, cpc, ctxDone, sentWhileWaiting>>

AcquireClaim(r) ==
    /\ rpc[r] = "waiting"
    /\ PriorityClaim("pairing")
    /\ rpc' = [rpc EXCEPT ![r] = "claimed"]
    /\ UNCHANGED <<pollVars, runMu, opVars, aborting, cpc, ctxDone, sentWhileWaiting>>

\* busAcquireTimeout passes on a turn that finds the lock held.
AcquireTimeout(r) ==
    /\ rpc[r] = "waiting" /\ held
    /\ rpc' = [rpc EXCEPT ![r] = "timedout"]
    /\ UNCHANGED <<lockVars, pollVars, runMu, opVars, aborting, cpc, ctxDone, sentWhileWaiting>>

\* Faulty variant: the timeout path returns without giving runMu back.
AcquireReturnKeepsRunMu(r) ==
    /\ rpc[r] \in {"claimed", "timedout"}
    /\ ClearPause
    /\ rpc' = [rpc EXCEPT ![r] = IF rpc[r] = "claimed" THEN "launch" ELSE "refused"]
    /\ sentWhileWaiting' = 0
    /\ UNCHANGED <<runMu, pollVars, opVars, aborting, cpc, ctxDone>>

\* AcquirePriority returns: with the lock to the rest of startOp, without it
\* to the error response, which gives runMu back.
AcquireReturn(r) ==
    /\ rpc[r] \in {"claimed", "timedout"}
    /\ ClearPause
    /\ IF rpc[r] = "claimed"
       THEN rpc' = [rpc EXCEPT ![r] = "launch"] /\ UNCHANGED runMu
       ELSE rpc' = [rpc EXCEPT ![r] = "refused"] /\ runMu' = NoRequest
    /\ sentWhileWaiting' = 0
    /\ UNCHANGED <<pollVars, opVars, aborting, cpc, ctxDone>>

\* The op's context and done channel are published and its goroutine starts.
Launch(r) ==
    /\ rpc[r] = "launch"
    /\ current' = r
    /\ opc' = [opc EXCEPT ![r] = "run"]
    /\ rpc' = [rpc EXCEPT ![r] = "started"]
    /\ runMu' = NoRequest
    /\ UNCHANGED <<lockVars, pollVars, cancelled, aborting, cpc, ctxDone, sentWhileWaiting>>

\* fn returns: on its own, on a failure or because its context is cancelled.
OpReturn(r) ==
    /\ opc[r] = "run"
    /\ opc' = [opc EXCEPT ![r] = "release"]
    /\ UNCHANGED <<lockVars, pollVars, reqVars, current, cancelled, aborting, cpc, ctxDone, sentWhileWaiting>>

\* The deferred function: Release first ...
OpRelease(r) ==
    /\ opc[r] = "release"
    /\ Release
    /\ opc' = [opc EXCEPT ![r] = "close"]
    /\ UNCHANGED <<pollVars, reqVars, current, cancelled, aborting, cpc, ctxDone, sentWhileWaiting>>

\* ... then cancel() and close(done).
OpClose(r) ==
    /\ opc[r] = "close"
    /\ opc' = [opc EXCEPT ![r] = "ended"]
    /\ cancelled' = [cancelled EXCEPT ![r] = TRUE]
    /\ UNCHANGED <<lockVars, pollVars, reqVars, current, aborting, cpc, ctxDone, sentWhileWaiting>>

\* abort reads m.cancel under runMu ...
AbortRead ==
    /\ aborting = NoRequest /\ runMu = NoRequest /\ current # NoRequest
    /\ aborting' = current
    /\ UNCHANGED <<lockVars, pollVars, reqVars, opVars, cpc, ctxDone, sentWhileWaiting>>

\* ... and calls it after runMu is released.
AbortCancel ==
    /\ aborting # NoRequest
    /\ cancelled' = [cancelled EXCEPT ![aborting] = TRUE]
    /\ aborting' = NoRequest
    /\ UNCHANGED <<lockVars, pollVars, reqVars, current, opc, cpc, ctxDone, sentWhileWaiting>>

-----------------------------------------------------------------------------
(* Broadcast jobs: runBroadcastFleet.                                      *)

\* Faulty variant: the release is deferred before TryAcquire is looked at.
CastStartDeferredEarly(c) ==
    /\ cpc[c] = "new"
    /\ \/ /\ TryAcquire("gridprofile-broadcast")
          /\ cpc' = [cpc EXCEPT ![c] = "push"]
       \/ /\ held
          /\ cpc' = [cpc EXCEPT ![c] = "release"]
          /\ UNCHANGED lockVars
    /\ UNCHANGED <<pollVars, reqVars, opVars, aborting, ctxDone, sentWhileWaiting>>

\* TryAcquire: a busy bus ends the job with a "bus busy" row.
CastStart(c) ==
    /\ cpc[c] = "new"
    /\ \/ /\ TryAcquire("gridprofile-broadcast")
          /\ cpc' = [cpc EXCEPT ![c] = "push"]
       \/ /\ held
          /\ cpc' = [cpc EXCEPT ![c] = "ended"]
          /\ UNCHANGED lockVars
    /\ UNCHANGED <<pollVars, reqVars, opVars, aborting, ctxDone, sentWhileWaiting>>

\* ApplyBaseBroadcast and the fleet enumeration; an error ends the job.
CastPush(c) ==
    /\ cpc[c] = "push"
    /\ \E to \in {"follow", "release"} : cpc' = [cpc EXCEPT ![c] = to]
    /\ UNCHANGED <<lockVars, pollVars, reqVars, opVars, aborting, ctxDone, sentWhileWaiting>>

\* The unicast follow-up ends, or the process context is cancelled.
CastFollow(c) ==
    /\ cpc[c] = "follow"
    /\ cpc' = [cpc EXCEPT ![c] = "release"]
    /\ UNCHANGED <<lockVars, pollVars, reqVars, opVars, aborting, ctxDone, sentWhileWaiting>>

CastRelease(c) ==
    /\ cpc[c] = "release"
    /\ Release
    /\ cpc' = [cpc EXCEPT ![c] = "ended"]
    /\ UNCHANGED <<pollVars, reqVars, opVars, aborting, ctxDone, sentWhileWaiting>>

\* The process is told to stop.
Shutdown ==
    /\ ~ctxDone
    /\ ctxDone' = TRUE
    /\ UNCHANGED <<lockVars, pollVars, reqVars, opVars, aborting, cpc, sentWhileWaiting>>

-----------------------------------------------------------------------------

Poll == PollTick \/ PollList \/ PollCheck \/ PollSend \/ PollWait \/ PollRelease \/ PollStop

Request(r) == \/ LockRun(r) \/ AcquireStart(r) \/ AcquireClaim(r)
              \/ AcquireTimeout(r) \/ AcquireReturn(r) \/ Launch(r)

Op(r) == OpReturn(r) \/ OpRelease(r) \/ OpClose(r)

Cast(c) == CastPush(c) \/ CastFollow(c) \/ CastRelease(c)

Next ==
    \/ Poll
    \/ \E r \in Requests : Arrive(r) \/ Request(r) \/ Op(r)
    \/ AbortRead \/ AbortCancel
    \/ \E c \in Casts : CastStart(c) \/ Cast(c)
    \/ Shutdown

Spec == Init /\ [][Next]_vars

(***************************************************************************)
(* Fairness: goroutines that can run do run.  Nothing obliges a request or *)
(* a broadcast to be made, an abort to be asked for, or the process to be  *)
(* stopped.  fn of an op and the broadcast push are bounded by their own   *)
(* timeouts, so they return.                                               *)
(***************************************************************************)
Fairness ==
    /\ WF_vars(Poll)
    /\ \A r \in Requests : WF_vars(Request(r)) /\ WF_vars(Op(r))
    /\ WF_vars(AbortCancel)
    /\ \A c \in Casts : WF_vars(Cast(c))

FairSpec == Spec /\ Fairness

-----------------------------------------------------------------------------
(* Properties.                                                             *)

PollHolds    == ppc \in {"list", "check", "send", "wait", "release"}
RequestHolds(r) == rpc[r] \in {"claimed", "launch"} \/ opc[r] \in {"run", "release"}
CastHolds(c) == cpc[c] \in {"push", "follow", "release"}

(* Release checks no owner, so the lock is only as good as the discipline  *)
(* of its users (buslock.go:77).  At any time at most one of the poller,   *)
(* the pairing requests with their op goroutines, and the broadcast jobs   *)
(* works on the bus, and held/owner name exactly that one.                 *)
MutualExclusion ==
    /\ PollHolds => held /\ owner = "telemetry-poll"
    /\ \A r \in Requests : RequestHolds(r) => held /\ owner = "pairing"
    /\ \A c \in Casts : CastHolds(c) => held /\ owner = "gridprofile-broadcast"
    /\ \A r, s \in Requests : RequestHolds(r) /\ RequestHolds(s) => r = s
    /\ \A c, d \in Casts : CastHolds(c) /\ CastHolds(d) => c = d
    /\ held => PollHolds \/ (\E r \in Requests : RequestHolds(r)) \/ (\E c \in Casts : CastHolds(c))

(* Preemption (poller.go:160-193, buslock.go:101-138): from the moment a   *)
(* pairing request raises its pause until it has claimed the bus or given  *)
(* up, the poller puts at most one more telemetry frame on the bus, the    *)
(* one it had already decided to send.                                     *)
PreemptedWithinOneSend == sentWhileWaiting <= 1

(* runMu makes pairing requests queue (pairing.go:226-274): the pause      *)
(* count is 0 or 1, is raised exactly while the request inside             *)
(* AcquirePriority is counted, and never drops below zero.                 *)
InAcquire(r) == rpc[r] \in {"waiting", "claimed", "timedout"}
PauseAccounting ==
    waiting = IF \E r \in Requests : InAcquire(r) THEN 1 ELSE 0

(* A pairing op that works on the bus is the one abort reaches             *)
(* (pairing.go:210-274): m.cancel belongs to it from launch until its done *)
(* channel is closed, although the bus is released before that.            *)
AbortReachesRunningOp ==
    \A r \in Requests : opc[r] \in {"run", "release", "close"} => current = r

(* Every pairing request that arrives is answered, whatever the poller and *)
(* the broadcast jobs do.                                                  *)
RequestsAnswered ==
    \A r \in Requests : rpc[r] = "start" ~> rpc[r] \in {"started", "refused"}

(* A finite number of operator ops never silences telemetry: until         *)
(* shutdown the poller starts rounds again and again (buslock.go:98-100,   *)
(* "a timeout never permanently starves the poller").                      *)
PollerNotStarved == []<>(ppc = "list" \/ ctxDone)
=============================================================================
