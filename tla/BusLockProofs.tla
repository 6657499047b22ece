--------------------------- MODULE BusLockProofs ---------------------------
(***************************************************************************)
(* The safety properties of BusLock for every set of requests and          *)
(* broadcast jobs and every inventory size.                                *)
(***************************************************************************)
EXTENDS BusLock, TLAPS

-----------------------------------------------------------------------------
(* The inductive invariant.                                                 *)

\* A round that still has something to send knows of an inverter.
RoundInv == ppc \in {"check", "send", "wait"} => todo > 0

\* runMu is held exactly by the request that is between taking it and
\* launching, and then the previous op has ended.
RunMuInv ==
    /\ \A r \in Requests :
          rpc[r] \in {"acquire", "waiting", "claimed", "timedout", "launch"} <=> runMu = r
    /\ runMu # NoRequest => PreviousDone

\* Only a started request has an op goroutine.
OpInv == \A r \in Requests : opc[r] # "none" => rpc[r] = "started"

\* A polite holder has an open channel or knows it is revoked; while a pause
\* is pending it is revoked, and it has sent no frame yet if it is about to.
RevokeInv ==
    /\ PollHolds => yield \/ revoked
    /\ PollHolds /\ waiting > 0 => revoked
    /\ waiting = 0 \/ ppc = "send" => sentWhileWaiting = 0
    /\ sentWhileWaiting <= 1

IInv ==
    /\ TypeOK
    /\ MutualExclusion
    /\ RoundInv
    /\ RunMuInv
    /\ OpInv
    /\ PauseAccounting
    /\ AbortReachesRunningOp
    /\ RevokeInv

-----------------------------------------------------------------------------

LEMMA InitIInv == Init => IInv
  <1> SUFFICES ASSUME Init PROVE IInv
    OBVIOUS
  <1> USE BusLockAssumption DEF BusLockAssumption
  <1>0. cancelled \in [Requests -> BOOLEAN] /\ held \in BOOLEAN /\ yield \in BOOLEAN
          /\ revoked \in BOOLEAN /\ ctxDone \in BOOLEAN
    BY Zenon DEF Init
  <1>1. TypeOK
    BY <1>0 DEF Init, TypeOK, Owners
  <1>2. MutualExclusion /\ OpInv /\ AbortReachesRunningOp
    BY DEF Init, MutualExclusion, OpInv, AbortReachesRunningOp, PollHolds, RequestHolds, CastHolds
  <1>3. RoundInv /\ RunMuInv /\ RevokeInv
    BY DEF Init, RoundInv, RunMuInv, RevokeInv, PollHolds, PreviousDone
  <1>4. PauseAccounting
    BY DEF Init, PauseAccounting, InAcquire
  <1> QED
    BY <1>1, <1>2, <1>3, <1>4 DEF IInv

LEMMA PollStep == IInv /\ Poll => IInv'
  <1> SUFFICES ASSUME IInv, Poll PROVE IInv'
    OBVIOUS
  <1> USE BusLockAssumption DEF BusLockAssumption, lockVars, reqVars, opVars
  <1>1. CASE PollTick
    <2> USE <1>1 DEF PollTick, AcquirePolite
    <2>1. TypeOK'
      BY DEF IInv, TypeOK, Owners
    <2>2. MutualExclusion'
      BY DEF IInv, MutualExclusion, PollHolds, RequestHolds, CastHolds
    <2>3. (RoundInv /\ RunMuInv /\ OpInv /\ PauseAccounting /\ AbortReachesRunningOp)'
      BY DEF IInv, RoundInv, RunMuInv, OpInv, PauseAccounting, InAcquire, AbortReachesRunningOp, PreviousDone
    <2>4. RevokeInv'
      BY DEF IInv, RevokeInv, PollHolds
    <2> QED
      BY <2>1, <2>2, <2>3, <2>4 DEF IInv
  <1>2. CASE PollRelease
    <2> USE <1>2 DEF PollRelease, Release
    <2>1. TypeOK'
      BY DEF IInv, TypeOK, Owners
    <2>2. MutualExclusion'
      BY DEF IInv, MutualExclusion, PollHolds, RequestHolds, CastHolds
    <2>3. (RoundInv /\ RunMuInv /\ OpInv /\ PauseAccounting /\ AbortReachesRunningOp)'
      BY DEF IInv, RoundInv, RunMuInv, OpInv, PauseAccounting, InAcquire, AbortReachesRunningOp, PreviousDone
    <2>4. RevokeInv'
      BY DEF IInv, RevokeInv, PollHolds
    <2> QED
      BY <2>1, <2>2, <2>3, <2>4 DEF IInv
  <1>3. CASE PollList \/ PollCheck \/ PollSend \/ PollWait \/ PollStop
    <2> USE <1>3 DEF PollList, PollCheck, PollSend, PollWait, PollStop
    <2>1. TypeOK'
      BY DEF IInv, TypeOK, RoundInv
    <2>2. MutualExclusion'
      BY DEF IInv, MutualExclusion, PollHolds, RequestHolds, CastHolds
    <2>3. RoundInv'
      BY DEF IInv, RoundInv, TypeOK
    <2>4. (RunMuInv /\ OpInv /\ PauseAccounting /\ AbortReachesRunningOp)'
      BY DEF IInv, RunMuInv, OpInv, PauseAccounting, InAcquire, AbortReachesRunningOp, PreviousDone
    <2>5. RevokeInv'
      BY DEF IInv, RevokeInv, PollHolds, TypeOK
    <2> QED
      BY <2>1, <2>2, <2>3, <2>4, <2>5 DEF IInv
  <1> QED
    BY <1>1, <1>2, <1>3 DEF Poll

LEMMA RequestStep ==
    ASSUME IInv, NEW r \in Requests, Arrive(r) \/ Request(r)
    PROVE  IInv'
  <1> USE BusLockAssumption DEF BusLockAssumption, lockVars, pollVars, opVars
  <1>1. CASE Arrive(r)
    <2> USE <1>1 DEF Arrive
    <2>1. TypeOK'
      BY DEF IInv, TypeOK
    <2>2. MutualExclusion'
      BY DEF IInv, TypeOK, MutualExclusion, PollHolds, RequestHolds, CastHolds
    <2>3. (RoundInv /\ RunMuInv /\ OpInv /\ AbortReachesRunningOp /\ RevokeInv)'
      BY DEF IInv, TypeOK, RoundInv, RunMuInv, OpInv, AbortReachesRunningOp, PreviousDone, RevokeInv, PollHolds
    <2>4. PauseAccounting'
      BY DEF IInv, TypeOK, PauseAccounting, InAcquire
    <2> QED
      BY <2>1, <2>2, <2>3, <2>4 DEF IInv
  <1>2. CASE LockRun(r)
    <2> USE <1>2 DEF LockRun
    <2>1. TypeOK'
      BY DEF IInv, TypeOK
    <2>2. MutualExclusion'
      BY DEF IInv, TypeOK, MutualExclusion, PollHolds, RequestHolds, CastHolds
    <2>3. (RoundInv /\ RunMuInv /\ OpInv /\ AbortReachesRunningOp /\ RevokeInv)'
      BY DEF IInv, TypeOK, RoundInv, RunMuInv, OpInv, AbortReachesRunningOp, PreviousDone, RevokeInv, PollHolds
    <2>4. PauseAccounting'
      BY DEF IInv, TypeOK, PauseAccounting, InAcquire
    <2> QED
      BY <2>1, <2>2, <2>3, <2>4 DEF IInv
  <1>3. CASE AcquireStart(r)
    <2> USE <1>3 DEF AcquireStart, RaisePause
    <2>0. revoked' \in BOOLEAN /\ yield' \in BOOLEAN
      BY Zenon
    <2>1. TypeOK'
      BY <2>0 DEF IInv, TypeOK
    <2>2. MutualExclusion'
      BY DEF IInv, TypeOK, MutualExclusion, PollHolds, RequestHolds, CastHolds
    <2>3. (RoundInv /\ RunMuInv /\ OpInv /\ AbortReachesRunningOp)'
      BY DEF IInv, TypeOK, RoundInv, RunMuInv, OpInv, AbortReachesRunningOp, PreviousDone
    <2>4. waiting = 0 /\ PauseAccounting'
      \* No other request is inside AcquirePriority: r holds runMu.
      BY DEF IInv, TypeOK, RunMuInv, PauseAccounting, InAcquire
    <2>5. RevokeInv'
      BY <2>4 DEF IInv, TypeOK, RevokeInv, PollHolds
    <2> QED
      BY <2>1, <2>2, <2>3, <2>4, <2>5 DEF IInv
  <1>4. CASE AcquireClaim(r)
    <2> USE <1>4 DEF AcquireClaim, PriorityClaim
    <2>1. TypeOK'
      BY DEF IInv, TypeOK, Owners
    <2>2. MutualExclusion'
      BY DEF IInv, TypeOK, MutualExclusion, PollHolds, RequestHolds, CastHolds
    <2>3. (RoundInv /\ RunMuInv /\ OpInv /\ AbortReachesRunningOp /\ RevokeInv)'
      BY DEF IInv, TypeOK, RoundInv, RunMuInv, OpInv, AbortReachesRunningOp, PreviousDone, RevokeInv, PollHolds
    <2>4. PauseAccounting'
      BY DEF IInv, TypeOK, PauseAccounting, InAcquire
    <2> QED
      BY <2>1, <2>2, <2>3, <2>4 DEF IInv
  <1>5. CASE AcquireTimeout(r)
    <2> USE <1>5 DEF AcquireTimeout
    <2>1. TypeOK'
      BY DEF IInv, TypeOK
    <2>2. MutualExclusion'
      BY DEF IInv, TypeOK, MutualExclusion, PollHolds, RequestHolds, CastHolds
    <2>3. (RoundInv /\ RunMuInv /\ OpInv /\ AbortReachesRunningOp /\ RevokeInv)'
      BY DEF IInv, TypeOK, RoundInv, RunMuInv, OpInv, AbortReachesRunningOp, PreviousDone, RevokeInv, PollHolds
    <2>4. PauseAccounting'
      BY DEF IInv, TypeOK, PauseAccounting, InAcquire
    <2> QED
      BY <2>1, <2>2, <2>3, <2>4 DEF IInv
  <1>6. CASE AcquireReturn(r)
    <2> USE <1>6 DEF AcquireReturn, ClearPause
    <2>1. waiting = 1
      BY DEF IInv, PauseAccounting, InAcquire
    <2>2. TypeOK'
      BY <2>1 DEF IInv, TypeOK
    <2>3. MutualExclusion'
      BY DEF IInv, TypeOK, MutualExclusion, PollHolds, RequestHolds, CastHolds
    <2>4. (RoundInv /\ RunMuInv /\ OpInv /\ AbortReachesRunningOp /\ RevokeInv)'
      BY <2>1 DEF IInv, TypeOK, RoundInv, RunMuInv, OpInv, AbortReachesRunningOp, PreviousDone, RevokeInv, PollHolds
    <2>5. PauseAccounting'
      BY <2>1 DEF IInv, TypeOK, RunMuInv, PauseAccounting, InAcquire
    <2> QED
      BY <2>2, <2>3, <2>4, <2>5 DEF IInv
  <1>7. CASE Launch(r)
    <2> USE <1>7 DEF Launch
    <2>1. TypeOK'
      BY DEF IInv, TypeOK
    <2>2. MutualExclusion'
      BY DEF IInv, TypeOK, MutualExclusion, PollHolds, RequestHolds, CastHolds
    <2>3. (RoundInv /\ RunMuInv /\ OpInv /\ RevokeInv)'
      BY DEF IInv, TypeOK, RoundInv, RunMuInv, OpInv, PreviousDone, RevokeInv, PollHolds
    <2>4. AbortReachesRunningOp'
      \* The previous op ended before r took runMu.
      BY DEF IInv, TypeOK, RunMuInv, AbortReachesRunningOp, PreviousDone
    <2>5. PauseAccounting'
      BY DEF IInv, TypeOK, PauseAccounting, InAcquire
    <2> QED
      BY <2>1, <2>2, <2>3, <2>4, <2>5 DEF IInv
  <1> QED
    BY <1>1, <1>2, <1>3, <1>4, <1>5, <1>6, <1>7 DEF Request

LEMMA OpStep ==
    ASSUME IInv, NEW r \in Requests, Op(r)
    PROVE  IInv'
  <1> USE BusLockAssumption DEF BusLockAssumption, lockVars, pollVars, reqVars
  <1>1. CASE OpReturn(r) \/ OpClose(r)
    <2> USE <1>1 DEF OpReturn, OpClose
    <2>1. TypeOK'
      BY DEF IInv, TypeOK
    <2>2. MutualExclusion'
      BY DEF IInv, TypeOK, MutualExclusion, PollHolds, RequestHolds, CastHolds
    <2>3. (RoundInv /\ RunMuInv /\ OpInv /\ AbortReachesRunningOp /\ RevokeInv)'
      BY DEF IInv, TypeOK, RoundInv, RunMuInv, OpInv, AbortReachesRunningOp, PreviousDone, RevokeInv, PollHolds
    <2>4. PauseAccounting'
      BY DEF IInv, PauseAccounting, InAcquire
    <2> QED
      BY <2>1, <2>2, <2>3, <2>4 DEF IInv
  <1>2. CASE OpRelease(r)
    <2> USE <1>2 DEF OpRelease, Release
    <2>1. TypeOK'
      BY DEF IInv, TypeOK, Owners
    <2>2. MutualExclusion'
      <3>1. RequestHolds(r) /\ ~PollHolds /\ \A c \in Casts : ~CastHolds(c)
        BY DEF IInv, MutualExclusion, RequestHolds
      <3>2. \A q \in Requests : ~RequestHolds(q)'
        BY <3>1 DEF IInv, TypeOK, MutualExclusion, RequestHolds, OpInv
      <3> QED
        BY <3>1, <3>2 DEF MutualExclusion, PollHolds, CastHolds
    <2>3. (RoundInv /\ RunMuInv /\ OpInv /\ AbortReachesRunningOp)'
      BY DEF IInv, TypeOK, RoundInv, RunMuInv, OpInv, AbortReachesRunningOp, PreviousDone
    <2>4. RevokeInv'
      \* r holds the bus, so no polite holder loses its channel here.
      BY DEF IInv, TypeOK, MutualExclusion, RequestHolds, RevokeInv, PollHolds
    <2>5. PauseAccounting'
      BY DEF IInv, PauseAccounting, InAcquire
    <2> QED
      BY <2>1, <2>2, <2>3, <2>4, <2>5 DEF IInv
  <1> QED
    BY <1>1, <1>2 DEF Op

LEMMA AbortStep == IInv /\ (AbortRead \/ AbortCancel \/ Shutdown) => IInv'
  <1> SUFFICES ASSUME IInv, AbortRead \/ AbortCancel \/ Shutdown PROVE IInv'
    OBVIOUS
  <1> USE BusLockAssumption
      DEF BusLockAssumption, lockVars, pollVars, reqVars, opVars, AbortRead, AbortCancel, Shutdown
  <1>1. TypeOK'
    BY DEF IInv, TypeOK
  <1>2. MutualExclusion'
    BY DEF IInv, MutualExclusion, PollHolds, RequestHolds, CastHolds
  <1>3. (RoundInv /\ RunMuInv /\ OpInv /\ AbortReachesRunningOp /\ RevokeInv)'
    BY DEF IInv, RoundInv, RunMuInv, OpInv, AbortReachesRunningOp, PreviousDone, RevokeInv, PollHolds
  <1>4. PauseAccounting'
    BY DEF IInv, PauseAccounting, InAcquire
  <1> QED
    BY <1>1, <1>2, <1>3, <1>4 DEF IInv

LEMMA CastStep ==
    ASSUME IInv, NEW c \in Casts, CastStart(c) \/ Cast(c)
    PROVE  IInv'
  <1> USE BusLockAssumption DEF BusLockAssumption, lockVars, pollVars, reqVars, opVars
  <1>1. CASE CastRelease(c)
    <2> USE <1>1 DEF CastRelease, Release
    <2>1. TypeOK'
      BY DEF IInv, TypeOK, Owners
    <2>2. MutualExclusion'
      BY DEF IInv, TypeOK, MutualExclusion, PollHolds, RequestHolds, CastHolds
    <2>3. (RoundInv /\ RunMuInv /\ OpInv /\ AbortReachesRunningOp)'
      BY DEF IInv, RoundInv, RunMuInv, OpInv, AbortReachesRunningOp, PreviousDone
    <2>4. RevokeInv'
      BY DEF IInv, TypeOK, MutualExclusion, CastHolds, RevokeInv, PollHolds
    <2>5. PauseAccounting'
      BY DEF IInv, PauseAccounting, InAcquire
    <2> QED
      BY <2>1, <2>2, <2>3, <2>4, <2>5 DEF IInv
  <1>2. CASE CastStart(c) \/ CastPush(c) \/ CastFollow(c)
    <2> USE <1>2 DEF CastStart, TryAcquire, CastPush, CastFollow
    <2>1. TypeOK'
      <3>1. CASE CastStart(c)
        <4>1. held' \in BOOLEAN /\ owner' \in Owners
          BY <3>1 DEF IInv, TypeOK, Owners
        <4>2. cpc' \in [Casts -> {"new", "push", "follow", "release", "ended"}]
          BY <3>1 DEF IInv, TypeOK
        <4> QED
          BY <3>1, <4>1, <4>2 DEF IInv, TypeOK
      <3>2. CASE CastPush(c) \/ CastFollow(c)
        BY <3>2 DEF IInv, TypeOK
      <3> QED
        BY <3>1, <3>2
    <2>2. MutualExclusion'
      BY DEF IInv, TypeOK, MutualExclusion, PollHolds, RequestHolds, CastHolds
    <2>3. (RoundInv /\ RunMuInv /\ OpInv /\ AbortReachesRunningOp /\ RevokeInv)'
      BY DEF IInv, RoundInv, RunMuInv, OpInv, AbortReachesRunningOp, PreviousDone, RevokeInv, PollHolds
    <2>4. PauseAccounting'
      BY DEF IInv, PauseAccounting, InAcquire
    <2> QED
      BY <2>1, <2>2, <2>3, <2>4 DEF IInv
  <1> QED
    BY <1>1, <1>2 DEF Cast

LEMMA StutterStep == IInv /\ UNCHANGED vars => IInv'
  <1> SUFFICES ASSUME IInv, UNCHANGED vars PROVE IInv'
    OBVIOUS
  <1> USE DEF vars, IInv
  <1>1. TypeOK'
    BY DEF TypeOK
  <1>2. MutualExclusion'
    BY DEF MutualExclusion, PollHolds, RequestHolds, CastHolds
  <1>3. (RoundInv /\ RunMuInv /\ OpInv /\ AbortReachesRunningOp /\ RevokeInv)'
    BY DEF RoundInv, RunMuInv, OpInv, AbortReachesRunningOp, PreviousDone, RevokeInv, PollHolds
  <1>4. PauseAccounting'
    BY DEF PauseAccounting, InAcquire
  <1> QED
    BY <1>1, <1>2, <1>3, <1>4

LEMMA NextIInv == IInv /\ [Next]_vars => IInv'
  BY PollStep, RequestStep, OpStep, AbortStep, CastStep, StutterStep DEF Next

\* The inductive invariant holds in every reachable state.
THEOREM Inductive == Spec => []IInv
  BY InitIInv, NextIInv, PTL DEF Spec

-----------------------------------------------------------------------------

\* Every variable of the bus guard and of its users keeps its type; in
\* particular the pause count of AcquirePriority never becomes negative.
THEOREM TypeCorrect == Spec => []TypeOK
  BY Inductive, PTL DEF IInv

\* For any number of pairing requests and broadcast jobs, at most one party
\* works on the bus, although Release checks no owner.
THEOREM BusExclusive == Spec => []MutualExclusion
  BY Inductive, PTL DEF IInv

\* The poller sends at most one frame into a pending pause, however large
\* the fleet and however many requests have come before.
THEOREM Preemption == Spec => []PreemptedWithinOneSend
  <1>1. IInv => PreemptedWithinOneSend
    BY DEF IInv, RevokeInv, PreemptedWithinOneSend
  <1> QED
    BY <1>1, Inductive, PTL

\* The pause count equals the number of requests inside AcquirePriority,
\* which is never more than one.
THEOREM PauseBalanced == Spec => []PauseAccounting
  BY Inductive, PTL DEF IInv

\* m.cancel belongs to the op that runs, for any number of requests.
THEOREM AbortTargets == Spec => []AbortReachesRunningOp
  BY Inductive, PTL DEF IInv
=============================================================================
