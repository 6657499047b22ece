---------------------------- MODULE GridProfile ----------------------------
(***************************************************************************)
(* internal/gridprofile: the manager's requests, the asynchronous applier  *)
(* and the reconciler, over the store of active base and overlays.         *)
(* Which points a reconcile finds drifted is left open: it depends on the  *)
(* inverters' read-back, which may be anything.                            *)
(*                                                                         *)
(* A request h (an IPC handler or the first-seen hook) runs once.  What it *)
(* enqueues for inverter u is the job <<h, u>>: one goroutine of           *)
(* applier.run with its own context.  Fleet requests (selectBase) stay     *)
(* alive to wait for their jobs (runFleet).                                *)
(***************************************************************************)
EXTENDS EffectiveProfile, FiniteSets

CONSTANTS
    Handlers,        \* requests that reach the manager, one goroutine each
    Uids,            \* the inverters of the fleet
    Bases,           \* id -> points of the stored base profiles
    Overlays,        \* id -> points of the overlays operators may set
    NoBase, NoOverlay, NoJob,
    MaxConcurrent    \* asyncMaxConcurrentUIDs

ASSUME GridProfileAssumption ==
    /\ IsFiniteSet(Handlers) /\ IsFiniteSet(Uids)
    /\ MaxConcurrent \in Nat \ {0}
    /\ NoBase \notin DOMAIN Bases
    /\ NoOverlay \notin DOMAIN Overlays
    /\ NoJob \notin Handlers \X Uids

\* Documents pass ValidateProfile or ValidateOverlay before they are stored,
\* and the forward map's own ranges are not empty.
ASSUME StoredAssumption ==
    /\ \A p \in {Bases[b] : b \in DOMAIN Bases} \cup {Overlays[o] : o \in DOMAIN Overlays} :
          \A c \in DOMAIN p : p[c] \in Points /\ ValidRange(p[c].range)
    /\ \A c \in Codes : ValidRange(DefaultRange[c])

Jobs == Handlers \X Uids

VARIABLES
    activeBase, overlay,            \* gp_active_base, gp_overlays
    hpc, newOverlay, left,          \* request: place, overlay it sets, uids it has still to enqueue
    jobs, sema,                     \* applier.jobs, the slots taken of applier.sema
    jpc, cause,                     \* job: place, why its context is cancelled
    desired, todo,                  \* ReconcileUID: the desired points, the codes left
    rows,                           \* terminal rows that reached the events table
    ctxDone,                        \* the daemon's context (ApplyParent)
    built                           \* history: what the last buildDesired of each uid read

storeVars == <<activeBase, overlay>>
handlerVars == <<hpc, newOverlay, left>>
reconcileVars == <<desired, todo>>
vars == <<activeBase, overlay, hpc, newOverlay, left, jobs, sema, jpc, cause, desired,
          todo, rows, ctxDone, built>>

NoPoints == [c \in {} |-> 0]
BasePoints == IF activeBase = NoBase THEN NoPoints ELSE Bases[activeBase]
OverlayPoints(u) == IF overlay[u] = NoOverlay THEN NoPoints ELSE Overlays[overlay[u]]

\* Places of a job between its semaphore slot and the return of ReconcileUID,
\* and all places in which it has a slot.
Reconciling == {"build", "points", "settle"}
HoldsSlot == Reconciling \cup {"report", "emit", "release"}
Live == {"queued", "clear"} \cup HoldsSlot

TypeOK ==
    /\ activeBase \in DOMAIN Bases \cup {NoBase}
    /\ overlay \in [Uids -> DOMAIN Overlays \cup {NoOverlay}]
    /\ hpc \in [Handlers -> {"new", "checked", "enqueue", "fleet", "wait", "ended"}]
    /\ newOverlay \in [Handlers -> DOMAIN Overlays \cup {NoOverlay}]
    /\ left \in [Handlers -> SUBSET Uids]
    /\ jobs \in [Uids -> Jobs \cup {NoJob}]
    /\ sema \in 0..MaxConcurrent
    /\ jpc \in [Jobs -> {"new", "ended"} \cup Live]
    /\ cause \in [Jobs -> {"none", "superseded", "shutdown"}]
    /\ \A j \in Jobs : DOMAIN desired[j] \subseteq Codes /\ todo[j] \subseteq DOMAIN desired[j]
    /\ rows \subseteq (Jobs \X {"complete"}) \cup (Handlers \X {"profile_complete", "profile_aborted", "profile_failed"})
    /\ ctxDone \in BOOLEAN

Init ==
    /\ activeBase \in DOMAIN Bases \cup {NoBase}
    /\ overlay = [u \in Uids |-> NoOverlay]
    /\ hpc = [h \in Handlers |-> "new"]
    /\ newOverlay = [h \in Handlers |-> NoOverlay]
    /\ left = [h \in Handlers |-> {}]
    /\ jobs = [u \in Uids |-> NoJob]
    /\ sema = 0
    /\ jpc = [j \in Jobs |-> "new"]
    /\ cause = [j \in Jobs |-> "none"]
    /\ desired = [j \in Jobs |-> NoPoints]
    /\ todo = [j \in Jobs |-> {}]
    /\ rows = {}
    /\ ctxDone = FALSE
    /\ built = [u \in Uids |-> <<activeBase, NoOverlay>>]

-----------------------------------------------------------------------------
(* Requests.                                                               *)

\* setOverlay up to the conflict check; a conflict is answered with an error.
CheckOverlay(h, u, o) ==
    /\ hpc[h] = "new"
    /\ CandidateConflicts(BasePoints, Overlays[o]) = {}
    /\ newOverlay' = [newOverlay EXCEPT ![h] = o]
    /\ left' = [left EXCEPT ![h] = {u}]
    /\ hpc' = [hpc EXCEPT ![h] = "checked"]
    /\ UNCHANGED <<storeVars, jobs, sema, jpc, cause, reconcileVars, rows, ctxDone, built>>

\* UpsertOverlay.
UpsertOverlay(h) ==
    /\ hpc[h] = "checked"
    /\ overlay' = [u \in Uids |-> IF u \in left[h] THEN newOverlay[h] ELSE overlay[u]]
    /\ newOverlay' = [newOverlay EXCEPT ![h] = NoOverlay]
    /\ hpc' = [hpc EXCEPT ![h] = "enqueue"]
    /\ UNCHANGED <<activeBase, left, jobs, sema, jpc, cause, reconcileVars, rows, ctxDone, built>>

\* clearOverlay up to the enqueue.
ClearOverlay(h, u) ==
    /\ hpc[h] = "new"
    /\ overlay' = [overlay EXCEPT ![u] = NoOverlay]
    /\ left' = [left EXCEPT ![h] = {u}]
    /\ hpc' = [hpc EXCEPT ![h] = "enqueue"]
    /\ UNCHANGED <<activeBase, newOverlay, jobs, sema, jpc, cause, reconcileVars, rows, ctxDone, built>>

\* selectBase: the base is persisted and runFleet started for the fleet.
SelectBase(h, b) ==
    /\ hpc[h] = "new"
    /\ activeBase' = b
    /\ left' = [left EXCEPT ![h] = Uids]
    /\ hpc' = [hpc EXCEPT ![h] = "fleet"]
    /\ UNCHANGED <<overlay, newOverlay, jobs, sema, jpc, cause, reconcileVars, rows, ctxDone, built>>

\* ReconcileOverlaysForUID, from the first-seen hook: only with an overlay.
FirstSeen(h, u) ==
    /\ hpc[h] = "new" /\ overlay[u] # NoOverlay
    /\ left' = [left EXCEPT ![h] = {u}]
    /\ hpc' = [hpc EXCEPT ![h] = "enqueue"]
    /\ UNCHANGED <<storeVars, newOverlay, jobs, sema, jpc, cause, reconcileVars, rows, ctxDone, built>>

\* Faulty variant: an apply already in flight for the inverter is left to do
\* the work.
EnqueueInternalJoining(h, u) ==
    /\ hpc[h] \in {"enqueue", "fleet"} /\ u \in left[h]
    /\ IF jobs[u] # NoJob
       THEN UNCHANGED <<jobs, jpc, cause>>
       ELSE /\ jobs' = [jobs EXCEPT ![u] = <<h, u>>]
            /\ jpc' = [jpc EXCEPT ![<<h, u>>] = "queued"]
            /\ cause' = [cause EXCEPT ![<<h, u>>] = IF ctxDone THEN "shutdown" ELSE "none"]
    /\ left' = [left EXCEPT ![h] = @ \ {u}]
    /\ hpc' = [hpc EXCEPT ![h] = IF left[h] # {u} THEN @
                                 ELSE IF @ = "fleet" THEN "wait" ELSE "ended"]
    /\ UNCHANGED <<storeVars, newOverlay, sema, reconcileVars, rows, ctxDone, built>>

\* Faulty variant: the older job is replaced in the map but not cancelled.
EnqueueInternalNoCancel(h, u) ==
    /\ hpc[h] \in {"enqueue", "fleet"} /\ u \in left[h]
    /\ jobs' = [jobs EXCEPT ![u] = <<h, u>>]
    /\ jpc' = [jpc EXCEPT ![<<h, u>>] = "queued"]
    /\ cause' = [cause EXCEPT ![<<h, u>>] = IF ctxDone THEN "shutdown" ELSE "none"]
    /\ left' = [left EXCEPT ![h] = @ \ {u}]
    /\ hpc' = [hpc EXCEPT ![h] = IF left[h] # {u} THEN @
                                 ELSE IF @ = "fleet" THEN "wait" ELSE "ended"]
    /\ UNCHANGED <<storeVars, newOverlay, sema, reconcileVars, rows, ctxDone, built>>

\* enqueueInternal: supersede the job in the map, publish the new one, start
\* its goroutine.  A context keeps the first cause it is cancelled with.
EnqueueInternal(h, u) ==
    /\ hpc[h] \in {"enqueue", "fleet"} /\ u \in left[h]
    /\ jobs' = [jobs EXCEPT ![u] = <<h, u>>]
    /\ jpc' = [jpc EXCEPT ![<<h, u>>] = "queued"]
    /\ cause' = [j \in Jobs |->
                   IF j = <<h, u>> THEN IF ctxDone THEN "shutdown" ELSE "none"
                   ELSE IF j = jobs[u] /\ cause[j] = "none" THEN "superseded"
                   ELSE cause[j]]
    /\ left' = [left EXCEPT ![h] = @ \ {u}]
    /\ hpc' = [hpc EXCEPT ![h] = IF left[h] # {u} THEN @
                                 ELSE IF @ = "fleet" THEN "wait" ELSE "ended"]
    /\ UNCHANGED <<storeVars, newOverlay, sema, reconcileVars, rows, ctxDone, built>>

\* runFleet cannot list the fleet: nothing is enqueued.
FleetListFails(h) ==
    /\ hpc[h] = "fleet" /\ left[h] = Uids
    /\ rows' = rows \cup {<<h, "profile_failed">>}
    /\ left' = [left EXCEPT ![h] = {}]
    /\ hpc' = [hpc EXCEPT ![h] = "ended"]
    /\ UNCHANGED <<storeVars, newOverlay, jobs, sema, jpc, cause, reconcileVars, ctxDone, built>>

\* Faulty variant: runFleet reports without waiting for its jobs.
FleetDoneNoWait(h) ==
    /\ hpc[h] = "wait"
    /\ rows' = rows \cup (IF ctxDone THEN {} ELSE {<<h, "profile_complete">>})
    /\ hpc' = [hpc EXCEPT ![h] = "ended"]
    /\ UNCHANGED <<storeVars, newOverlay, left, jobs, sema, jpc, cause, reconcileVars, ctxDone, built>>

\* runFleet has seen every done channel closed; the row is written with the
\* daemon's context.
FleetDone(h) ==
    /\ hpc[h] = "wait"
    /\ \A u \in Uids : jpc[<<h, u>>] = "ended"
    /\ rows' = rows \cup (IF ctxDone THEN {} ELSE {<<h, "profile_complete">>})
    /\ hpc' = [hpc EXCEPT ![h] = "ended"]
    /\ UNCHANGED <<storeVars, newOverlay, left, jobs, sema, jpc, cause, reconcileVars, ctxDone, built>>

\* runFleet is interrupted by shutdown and says so.
FleetAbort(h) ==
    /\ hpc[h] = "wait" /\ ctxDone
    /\ rows' = rows \cup {<<h, "profile_aborted">>}
    /\ hpc' = [hpc EXCEPT ![h] = "ended"]
    /\ UNCHANGED <<storeVars, newOverlay, left, jobs, sema, jpc, cause, reconcileVars, ctxDone, built>>

-----------------------------------------------------------------------------
(* A job: applier.run and, inside it, ReconcileUID.                        *)

Uid(j) == j[2]

\* What a cancelled job leaves in the audit log: nothing when it was
\* superseded, a terminal row (written with a background context) otherwise.
CancelledRow(j) == IF cause[j] = "superseded" THEN {} ELSE {<<j, "complete">>}

\* Faulty variant: the early return after the semaphore leaks the slot.
TakeSlotLeaking(j) ==
    /\ jpc[j] = "queued" /\ sema < MaxConcurrent
    /\ sema' = sema + 1
    /\ IF cause[j] = "none"
       THEN jpc' = [jpc EXCEPT ![j] = "build"] /\ UNCHANGED rows
       ELSE /\ jpc' = [jpc EXCEPT ![j] = "clear"]
            /\ rows' = rows \cup CancelledRow(j)
    /\ UNCHANGED <<storeVars, handlerVars, jobs, cause, reconcileVars, ctxDone, built>>

\* The select on the semaphore finds a free slot; the context is looked at
\* once more before the reconcile starts.
TakeSlot(j) ==
    /\ jpc[j] = "queued" /\ sema < MaxConcurrent
    /\ sema' = sema + 1
    /\ IF cause[j] = "none"
       THEN jpc' = [jpc EXCEPT ![j] = "build"] /\ UNCHANGED rows
       ELSE /\ jpc' = [jpc EXCEPT ![j] = "release"]
            /\ rows' = rows \cup CancelledRow(j)
    /\ UNCHANGED <<storeVars, handlerVars, jobs, cause, reconcileVars, ctxDone, built>>

\* Faulty variant: the cancelled wait also gives back a slot.
CancelledQueuedReleasing(j) ==
    /\ jpc[j] = "queued" /\ cause[j] # "none"
    /\ rows' = rows \cup CancelledRow(j)
    /\ jpc' = [jpc EXCEPT ![j] = "release"]
    /\ UNCHANGED <<storeVars, handlerVars, jobs, sema, cause, reconcileVars, ctxDone, built>>

\* The select sees the cancelled context instead.
CancelledQueued(j) ==
    /\ jpc[j] = "queued" /\ cause[j] # "none"
    /\ rows' = rows \cup CancelledRow(j)
    /\ jpc' = [jpc EXCEPT ![j] = "clear"]
    /\ UNCHANGED <<storeVars, handlerVars, jobs, sema, cause, reconcileVars, ctxDone, built>>

Unread == <<NoOverlay, NoOverlay>>

\* buildDesired.  No active base, a conflict or a failed query ends the
\* reconcile with nothing sent.
Build(j) ==
    LET want == BuildDesired(BasePoints, OverlayPoints(Uid(j)))
    IN  /\ jpc[j] = "build"
        /\ \/ /\ activeBase # NoBase /\ want.ok
              /\ desired' = [desired EXCEPT ![j] = want.points]
              /\ todo' = [todo EXCEPT ![j] = DOMAIN want.points]
              /\ built' = [built EXCEPT ![Uid(j)] = <<activeBase, overlay[Uid(j)]>>]
              /\ jpc' = [jpc EXCEPT ![j] = "points"]
           \/ /\ activeBase = NoBase \/ ~want.ok
              /\ built' = [built EXCEPT ![Uid(j)] = <<activeBase, overlay[Uid(j)]>>]
              /\ jpc' = [jpc EXCEPT ![j] = "report"]
              /\ UNCHANGED <<desired, todo>>
           \/ /\ built' = IF cause[j] # "none" THEN built ELSE [built EXCEPT ![Uid(j)] = Unread]
              /\ jpc' = [jpc EXCEPT ![j] = "report"]
              /\ UNCHANGED <<desired, todo>>
        /\ UNCHANGED <<storeVars, handlerVars, jobs, sema, cause, rows, ctxDone>>

\* A point that the read-back shows drifted: its frame is sent, whatever the
\* state of the context.
SendPoint(j, c) ==
    /\ jpc[j] = "points" /\ c \in todo[j]
    /\ todo' = [todo EXCEPT ![j] = @ \ {c}]
    /\ jpc' = [jpc EXCEPT ![j] = "settle"]
    /\ UNCHANGED <<storeVars, handlerVars, jobs, sema, cause, desired, rows, ctxDone, built>>

\* Points that need no frame (no read-back, in sync, not encodable) and points
\* whose send is refused (no backend, queue full).
SkipPoint(j, c) ==
    /\ jpc[j] = "points" /\ c \in todo[j]
    /\ todo' = [todo EXCEPT ![j] = @ \ {c}]
    /\ UNCHANGED <<storeVars, handlerVars, jobs, sema, jpc, cause, desired, rows, ctxDone, built>>

\* The two ReadSettle waits around TriggerRead: either can see the cancelled
\* context; otherwise the point is confirmed or not and the loop goes on.
Settle(j) ==
    /\ jpc[j] = "settle"
    /\ \/ jpc' = [jpc EXCEPT ![j] = "points"]
       \/ cause[j] # "none" /\ jpc' = [jpc EXCEPT ![j] = "report"]
    /\ UNCHANGED <<storeVars, handlerVars, jobs, sema, cause, reconcileVars, rows, ctxDone, built>>

\* The context checks after ReconcileUID and before each per-point row.
Report(j) ==
    /\ jpc[j] = "report" \/ (jpc[j] = "points" /\ todo[j] = {})
    /\ IF cause[j] = "none"
       THEN jpc' = [jpc EXCEPT ![j] = "emit"] /\ UNCHANGED rows
       ELSE /\ rows' = rows \cup CancelledRow(j)
            /\ jpc' = [jpc EXCEPT ![j] = "release"]
    /\ desired' = [desired EXCEPT ![j] = NoPoints]
    /\ todo' = [todo EXCEPT ![j] = {}]
    /\ UNCHANGED <<storeVars, handlerVars, jobs, sema, cause, ctxDone, built>>

\* Faulty variant: no row when there was nothing to send.
EmitNothing(j) ==
    /\ jpc[j] = "emit"
    /\ jpc' = [jpc EXCEPT ![j] = "release"]
    /\ UNCHANGED <<storeVars, handlerVars, jobs, sema, cause, reconcileVars, rows, ctxDone, built>>

\* The final row is written with the job's own context: a context cancelled
\* after the last check loses it.
Emit(j) ==
    /\ jpc[j] = "emit"
    /\ rows' = rows \cup (IF cause[j] = "none" THEN {<<j, "complete">>} ELSE {})
    /\ jpc' = [jpc EXCEPT ![j] = "release"]
    /\ UNCHANGED <<storeVars, handlerVars, jobs, sema, cause, reconcileVars, ctxDone, built>>

\* The deferred slot release.
ReleaseSlot(j) ==
    /\ jpc[j] = "release"
    /\ sema' = sema - 1
    /\ jpc' = [jpc EXCEPT ![j] = "clear"]
    /\ UNCHANGED <<storeVars, handlerVars, jobs, cause, reconcileVars, rows, ctxDone, built>>

\* Faulty variant: the map entry is deleted whoever it belongs to.
ClearJobUnconditional(j) ==
    /\ jpc[j] = "clear"
    /\ jobs' = [jobs EXCEPT ![Uid(j)] = NoJob]
    /\ jpc' = [jpc EXCEPT ![j] = "ended"]
    /\ UNCHANGED <<storeVars, handlerVars, sema, cause, reconcileVars, rows, ctxDone, built>>

\* clearJob and close(done).
ClearJob(j) ==
    /\ jpc[j] = "clear"
    /\ jobs' = [jobs EXCEPT ![Uid(j)] = IF @ = j THEN NoJob ELSE @]
    /\ jpc' = [jpc EXCEPT ![j] = "ended"]
    /\ UNCHANGED <<storeVars, handlerVars, sema, cause, reconcileVars, rows, ctxDone, built>>

-----------------------------------------------------------------------------

\* The daemon's context is cancelled, and with it every job's.
Shutdown ==
    /\ ~ctxDone
    /\ ctxDone' = TRUE
    /\ cause' = [j \in Jobs |->
                   IF jpc[j] \in Live /\ cause[j] = "none" THEN "shutdown" ELSE cause[j]]
    /\ UNCHANGED <<storeVars, handlerVars, jobs, sema, jpc, reconcileVars, rows, built>>

Ask(h) == \/ \E u \in Uids : ClearOverlay(h, u) \/ FirstSeen(h, u)
          \/ \E u \in Uids, o \in DOMAIN Overlays : CheckOverlay(h, u, o)
          \/ \E b \in DOMAIN Bases : SelectBase(h, b)

Serve(h) == \/ UpsertOverlay(h) \/ FleetListFails(h) \/ FleetDone(h) \/ FleetAbort(h)
            \/ \E u \in Uids : EnqueueInternal(h, u)

Run(j) == \/ TakeSlot(j) \/ CancelledQueued(j) \/ Build(j)
          \/ \E c \in Codes : SendPoint(j, c) \/ SkipPoint(j, c)
          \/ Settle(j) \/ Report(j) \/ Emit(j)
          \/ ReleaseSlot(j) \/ ClearJob(j)

Next ==
    \/ \E h \in Handlers : Ask(h) \/ Serve(h)
    \/ \E j \in Jobs : Run(j)
    \/ Shutdown

Spec == Init /\ [][Next]_vars

-----------------------------------------------------------------------------
(* Properties.                                                             *)

(* Whatever is sent to an inverter obeys every ordering rule (conflicts.go *)
(* 16-22): the desired points of a reconcile, clamped as they are sent,    *)
(* have no conflict even when the stored base and overlay do.              *)
DesiredCoherent == \A j \in Jobs : CheckConflicts(desired[j]) = {}

(* An overlay never takes a value out of the base's certified range        *)
(* (reconcile.go:193-215), provided that the physical, the base and the    *)
(* overlay range have a common point.                                      *)
EnvelopeKept ==
    \A u \in Uids : \A c \in Codes :
        LET want == BuildDesired(BasePoints, OverlayPoints(u)).points
            meet == /\ Overlap(DefaultRange[c], BasePoints[c].range)
                    /\ c \in DOMAIN OverlayPoints(u) =>
                          /\ Overlap(DefaultRange[c], OverlayPoints(u)[c].range)
                          /\ Overlap(BasePoints[c].range, OverlayPoints(u)[c].range)
        IN  c \in DOMAIN BasePoints \cap DOMAIN want /\ meet
              => Within(want[c], BasePoints[c].range)

(* reconcile.go:194-195 without that proviso: "so an overlay can never     *)
(* widen the certified base envelope".  Checked on what reconciles that    *)
(* have read the present store are sending.                                *)
OverlayNeverWidensBase ==
    \A j \in Jobs :
        jpc[j] \in {"points", "settle"} /\ built[Uid(j)] = <<activeBase, overlay[Uid(j)]>>
          => \A c \in DOMAIN BasePoints \cap DOMAIN desired[j] :
                Within(desired[j][c], BasePoints[c].range)

(* No persisted change is lost between overlapping requests, superseded    *)
(* jobs and full semaphores (manager.go:171-420, overlay_async.go:101-258):*)
(* when nothing is pending for an inverter, the last buildDesired for it   *)
(* has read the base and the overlay that are stored now, or reported that *)
(* it could not read the store.                                            *)
Pending(u) ==
    \/ \E h \in Handlers : hpc[h] \in {"enqueue", "fleet"} /\ u \in left[h]
    \/ \E h \in Handlers : jpc[<<h, u>>] \in Live
StoredIsReconciled ==
    \A u \in Uids :
        \/ ctxDone \/ Pending(u)
        \/ \E h \in Handlers : <<h, "profile_failed">> \in rows
        \/ built[u] \in {Unread, <<activeBase, overlay[u]>>}

(* Only the newest job of an inverter runs with a live context, and it is  *)
(* the one the applier's map knows, so the next request can supersede it   *)
(* (overlay_async.go:101-122, 281-287).                                    *)
OneUncancelledJob ==
    \A j \in Jobs : jpc[j] \in Live /\ cause[j] = "none" => jobs[Uid(j)] = j

(* The fleet-level complete row marks the end of the fleet apply           *)
(* (base_async.go:93-94): every per-inverter job of it has returned.       *)
FleetRowIsLast ==
    \A h \in Handlers : <<h, "profile_complete">> \in rows
        => \A u \in Uids : jpc[<<h, u>>] = "ended"

(* A job that has ended without a terminal row was cancelled: nobody       *)
(* watching the audit log waits for an apply that silently stopped         *)
(* (overlay_async.go:124-131).                                             *)
SilentOnlyIfCancelled ==
    \A j \in Jobs : jpc[j] = "ended" /\ <<j, "complete">> \notin rows => cause[j] # "none"

(* base_async.go:55-57: "so a base-select reconcile never races an         *)
(* overlapping overlay apply for the same inverter".                       *)
NeverRaces ==
    \A i, j \in Jobs : /\ i # j /\ Uid(i) = Uid(j)
                       /\ jpc[i] \in {"points", "settle"}
                       => jpc[j] \notin {"points", "settle"}

(* Queued jobs never wait for a slot nobody will give back                 *)
(* (overlay_async.go:132-170): while a job is alive, some job can take its *)
(* next step.  Requests and jobs take finitely many steps, so every job    *)
(* ends if the scheduler keeps running goroutines that can run.            *)
NoJobStarves ==
    (\E j \in Jobs : jpc[j] \in Live) => \E j \in Jobs : ENABLED Run(j)
=============================================================================
