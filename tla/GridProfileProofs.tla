-------------------------- MODULE GridProfileProofs --------------------------
(***************************************************************************)
(* The computation of the desired values and the supersede rule of the     *)
(* applier, for every fleet, every set of requests, all stored documents   *)
(* and every set of ordering rules; and the codec that carries a parameter *)
(* to an inverter and back (ProtectionCodec), for every native value, code *)
(* and family and any number of commands and pages.                        *)
(***************************************************************************)
EXTENDS GridProfile, ProtectionCodec, FiniteSetTheorems, TLAPS

-----------------------------------------------------------------------------
(* The operators of EffectiveProfile.                                       *)

(* The clamp of reconcile.go lands in every range that is not empty.        *)
LEMMA ClampWithin ==
    ASSUME NEW v \in Int, NEW r \in Ranges \cup {NoRange}, ValidRange(r)
    PROVE  Within(Clamp(v, r), r)
  BY DEF Ranges, ValidRange, Within, Clamp

(* intersectRanges yields a valid range, and what lies in it lies in both  *)
(* of its arguments if they overlap (reconcile.go:193-215).                *)
LEMMA IntersectWithin ==
    ASSUME NEW a \in Ranges \cup {NoRange}, NEW b \in Ranges \cup {NoRange},
           ValidRange(a), ValidRange(b), NoRange \notin Ranges
    PROVE  /\ IntersectRanges(a, b) \in Ranges \cup {NoRange}
           /\ ValidRange(IntersectRanges(a, b))
           /\ Overlap(a, b) => \A v \in Int :
                 Within(v, IntersectRanges(a, b)) => Within(v, a) /\ Within(v, b)
  BY DEF Ranges, ValidRange, Within, IntersectRanges, Overlap

(* Three ranges that overlap pairwise still overlap after two of them have *)
(* been intersected.                                                       *)
LEMMA IntersectOverlap ==
    ASSUME NEW a \in Ranges \cup {NoRange}, NEW b \in Ranges \cup {NoRange},
           NEW d \in Ranges \cup {NoRange}, NoRange \notin Ranges,
           ValidRange(a), ValidRange(b), ValidRange(d),
           Overlap(a, b), Overlap(a, d), Overlap(b, d)
    PROVE  Overlap(IntersectRanges(a, b), d)
  BY DEF Ranges, ValidRange, IntersectRanges, Overlap

(* A clamped value is an integer.                                          *)
LEMMA ClampInt ==
    ASSUME NEW v \in Int, NEW r \in Ranges \cup {NoRange}
    PROVE  Clamp(v, r) \in Int
  BY DEF Ranges, Clamp

(* Fail-closed: when buildDesired accepts a merged profile, the points it  *)
(* returns obey every ordering rule, whatever the capability filter has    *)
(* taken out (reconcile.go, conflicts.go:16-22).                           *)
LEMMA DesiredHasNoConflict ==
    ASSUME NEW base, NEW ov, BuildDesired(base, ov).ok
    PROVE  CheckConflicts(BuildDesired(base, ov).points) = {}
  <1> DEFINE m == Merged(base, ov)
             pts == [c \in DOMAIN m \cap Writeable |-> Clamp(m[c].val, m[c].range)]
  <1>1. BuildDesired(base, ov).points = pts /\ Conflicts(m) = {}
    BY DEF BuildDesired
  <1>2. SUFFICES ASSUME NEW rule \in Rules, rule \in CheckConflicts(pts) PROVE FALSE
    BY <1>1 DEF CheckConflicts
  <1>3. /\ rule[1] \in DOMAIN m /\ rule[2] \in DOMAIN m
        /\ pts[rule[1]] = EffectiveValues(m)[rule[1]]
        /\ pts[rule[2]] = EffectiveValues(m)[rule[2]]
        /\ ~(pts[rule[1]] < pts[rule[2]])
    BY <1>2 DEF CheckConflicts, EffectiveValues
  <1>4. DOMAIN EffectiveValues(m) = DOMAIN m
    BY DEF EffectiveValues
  <1>5. rule \in Conflicts(m)
    BY <1>3, <1>4 DEF Conflicts, CheckConflicts
  <1> QED
    BY <1>1, <1>5

(* Nothing to send, nothing in conflict.                                   *)
LEMMA NoPointsNoConflict == CheckConflicts(NoPoints) = {}
  BY DEF CheckConflicts, NoPoints

-----------------------------------------------------------------------------
(* The inductive invariant.                                                 *)

\* TypeOK with the count of slots left open, and with the domains TypeOK
\* leaves implicit.
Types ==
    /\ activeBase \in DOMAIN Bases \cup {NoBase}
    /\ overlay \in [Uids -> DOMAIN Overlays \cup {NoOverlay}]
    /\ hpc \in [Handlers -> {"new", "checked", "enqueue", "fleet", "wait", "ended"}]
    /\ newOverlay \in [Handlers -> DOMAIN Overlays \cup {NoOverlay}]
    /\ left \in [Handlers -> SUBSET Uids]
    /\ jobs \in [Uids -> Jobs \cup {NoJob}]
    /\ \A u \in Uids : jobs[u] = NoJob \/ Uid(jobs[u]) = u
    /\ jpc \in [Jobs -> {"new", "ended"} \cup Live]
    /\ cause \in [Jobs -> {"none", "superseded", "shutdown"}]
    /\ DOMAIN desired = Jobs /\ DOMAIN todo = Jobs /\ DOMAIN built = Uids
    /\ rows \subseteq (Jobs \X {"complete"})
                       \cup (Handlers \X {"profile_complete", "profile_aborted", "profile_failed"})

Holders == {j \in Jobs : jpc[j] \in HoldsSlot}

\* The semaphore counts the jobs that will give a slot back.
SlotInv == sema = Cardinality(Holders) /\ sema \in 0..MaxConcurrent

\* The codes a reconcile has left to do are codes it wants.
TodoInv == \A j \in Jobs : DOMAIN desired[j] \subseteq Codes /\ todo[j] \subseteq DOMAIN desired[j]

\* A request that has reported its fleet apply does nothing any more.
FleetInv ==
    \A h \in Handlers : <<h, "profile_complete">> \in rows
        => hpc[h] = "ended" /\ \A u \in Uids : jpc[<<h, u>>] = "ended"

\* A job past its last report has a row or a reason not to have one.
SilentInv ==
    \A j \in Jobs : jpc[j] \in {"release", "clear", "ended"} /\ <<j, "complete">> \notin rows
        => cause[j] # "none"

\* A job is enqueued once: until its request gets to it, it does not exist.
NewInv ==
    \A h \in Handlers, u \in Uids :
        hpc[h] \in {"new", "checked"} \/ (hpc[h] \in {"enqueue", "fleet"} /\ u \in left[h])
            => jpc[<<h, u>>] = "new"

\* A change that is not yet enqueued, or one whose newest job has yet to read
\* the store, is what stands between the store and the last reconcile.
WillBeRead(u) ==
    \/ \E h \in Handlers : hpc[h] \in {"enqueue", "fleet"} /\ u \in left[h]
    \/ \E h \in Handlers : jpc[<<h, u>>] \in {"queued", "build"} /\ cause[<<h, u>>] = "none"
ReadOrPending(u) ==
    \/ ctxDone \/ WillBeRead(u)
    \/ \E h \in Handlers : <<h, "profile_failed">> \in rows
    \/ built[u] \in {Unread, <<activeBase, overlay[u]>>}
ReconcileInv == \A u \in Uids : ReadOrPending(u)

(* A job is a request and an inverter.                                      *)
LEMMA JobShape ==
    /\ \A j \in Jobs : j[1] \in Handlers /\ j[2] \in Uids /\ j = <<j[1], j[2]>>
    /\ \A h \in Handlers, u \in Uids : <<h, u>> \in Jobs /\ <<h, u>>[2] = u
  BY DEF Jobs

(* Every step keeps the types of the variables. *)
LEMMA TypesStep == Types /\ [Next]_vars => Types'
  <1> SUFFICES ASSUME Types, [Next]_vars PROVE Types'
    OBVIOUS
  <1> USE DEF Types, Uid, Live, HoldsSlot, Reconciling, CancelledRow, storeVars, handlerVars, reconcileVars
  <1>1. ASSUME NEW h \in Handlers, Ask(h) PROVE Types'
    <2>1. ASSUME NEW u \in Uids, ClearOverlay(h, u) PROVE Types'
      BY <2>1, JobShape DEF ClearOverlay
    <2>2. ASSUME NEW u \in Uids, FirstSeen(h, u) PROVE Types'
      BY <2>2, JobShape DEF FirstSeen
    <2>3. ASSUME NEW u \in Uids, NEW o \in DOMAIN Overlays, CheckOverlay(h, u, o) PROVE Types'
      BY <2>3, JobShape DEF CheckOverlay
    <2>4. ASSUME NEW b \in DOMAIN Bases, SelectBase(h, b) PROVE Types'
      BY <2>4, JobShape DEF SelectBase
    <2> QED
      BY <1>1, <2>1, <2>2, <2>3, <2>4 DEF Ask
  <1>2. ASSUME NEW h \in Handlers, Serve(h) PROVE Types'
    <2>1. CASE UpsertOverlay(h)
      BY <2>1, JobShape DEF UpsertOverlay
    <2>2. CASE FleetListFails(h)
      BY <2>2, JobShape DEF FleetListFails
    <2>3. CASE FleetDone(h)
      BY <2>3, JobShape DEF FleetDone
    <2>4. CASE FleetAbort(h)
      BY <2>4, JobShape DEF FleetAbort
    <2>5. ASSUME NEW u \in Uids, EnqueueInternal(h, u) PROVE Types'
      BY <2>5, JobShape DEF EnqueueInternal
    <2> QED
      BY <1>2, <2>1, <2>2, <2>3, <2>4, <2>5 DEF Serve
  <1>3. ASSUME NEW j \in Jobs, Run(j) PROVE Types'
    <2>1. CASE TakeSlot(j)
      <3>1. rows' \subseteq (Jobs \X {"complete"})
                       \cup (Handlers \X {"profile_complete", "profile_aborted", "profile_failed"})
        BY <2>1 DEF TakeSlot
      <3> QED
        BY ZenonT(60), <2>1, <3>1, JobShape DEF TakeSlot
    <2>2. CASE CancelledQueued(j)
      BY <2>2, JobShape DEF CancelledQueued
    <2>3. CASE Build(j)
      BY <2>3, JobShape DEF Build
    <2>4. ASSUME NEW c \in Codes, SendPoint(j, c) PROVE Types'
      BY <2>4, JobShape DEF SendPoint
    <2>5. ASSUME NEW c \in Codes, SkipPoint(j, c) PROVE Types'
      BY <2>5, JobShape DEF SkipPoint
    <2>6. CASE Settle(j)
      BY <2>6, JobShape DEF Settle
    <2>7. CASE Report(j)
      BY <2>7, JobShape DEF Report
    <2>8. CASE Emit(j)
      BY <2>8, JobShape DEF Emit
    <2>9. CASE ReleaseSlot(j)
      BY <2>9, JobShape DEF ReleaseSlot
    <2>10. CASE ClearJob(j)
      BY <2>10, JobShape DEF ClearJob
    <2> QED
      BY <1>3, <2>1, <2>2, <2>3, <2>4, <2>5, <2>6, <2>7, <2>8, <2>9, <2>10 DEF Run
  <1>4. CASE Shutdown
    BY <1>4, JobShape DEF Shutdown
  <1>5. CASE UNCHANGED vars
    BY <1>5 DEF vars
  <1> QED
    BY <1>1, <1>2, <1>3, <1>4, <1>5 DEF Next

(* Every step keeps the applier's map pointing at the job that is not cancelled. *)
LEMMA SupersedeStep == Types /\ OneUncancelledJob /\ [Next]_vars => OneUncancelledJob'
  <1> SUFFICES ASSUME Types, OneUncancelledJob, [Next]_vars PROVE OneUncancelledJob'
    OBVIOUS
  <1> USE DEF Types, OneUncancelledJob, Uid, Live, HoldsSlot, Reconciling, storeVars, handlerVars, reconcileVars
  <1>1. ASSUME NEW h \in Handlers, Ask(h) PROVE OneUncancelledJob'
    BY <1>1, JobShape DEF Ask, ClearOverlay, FirstSeen, CheckOverlay, SelectBase
  <1>2. ASSUME NEW h \in Handlers, Serve(h) PROVE OneUncancelledJob'
    <2>1. CASE UpsertOverlay(h)
      BY <2>1, JobShape DEF UpsertOverlay
    <2>2. CASE FleetListFails(h)
      BY <2>2, JobShape DEF FleetListFails
    <2>3. CASE FleetDone(h)
      BY <2>3, JobShape DEF FleetDone
    <2>4. CASE FleetAbort(h)
      BY <2>4, JobShape DEF FleetAbort
    <2>5. ASSUME NEW u \in Uids, EnqueueInternal(h, u) PROVE OneUncancelledJob'
      BY <2>5, JobShape DEF EnqueueInternal
    <2> QED
      BY <1>2, <2>1, <2>2, <2>3, <2>4, <2>5 DEF Serve
  <1>3. ASSUME NEW j \in Jobs, Run(j) PROVE OneUncancelledJob'
    BY <1>3, JobShape DEF Run, TakeSlot, CancelledQueued, Build, SendPoint, SkipPoint, Settle, Report, Emit,
       ReleaseSlot, ClearJob
  <1>4. CASE Shutdown
    BY <1>4, JobShape DEF Shutdown
  <1>5. CASE UNCHANGED vars
    BY <1>5 DEF vars
  <1> QED
    BY <1>1, <1>2, <1>3, <1>4, <1>5 DEF Next

(* Every step keeps SilentInv: a job that leaves without a row is cancelled. *)
LEMMA SilentStep == Types /\ SilentInv /\ [Next]_vars => SilentInv'
  <1> SUFFICES ASSUME Types, SilentInv, [Next]_vars PROVE SilentInv'
    OBVIOUS
  <1> USE DEF Types, SilentInv, CancelledRow, storeVars, handlerVars, reconcileVars
  <1>1. ASSUME NEW h \in Handlers, Ask(h) PROVE SilentInv'
    BY <1>1, JobShape DEF Ask, ClearOverlay, FirstSeen, CheckOverlay, SelectBase
  <1>2. ASSUME NEW h \in Handlers, Serve(h) PROVE SilentInv'
    <2>1. CASE UpsertOverlay(h)
      BY <2>1, JobShape DEF UpsertOverlay
    <2>2. CASE FleetListFails(h)
      BY <2>2, JobShape DEF FleetListFails
    <2>3. CASE FleetDone(h)
      BY <2>3, JobShape DEF FleetDone
    <2>4. CASE FleetAbort(h)
      BY <2>4, JobShape DEF FleetAbort
    <2>5. ASSUME NEW u \in Uids, EnqueueInternal(h, u) PROVE SilentInv'
      BY <2>5, JobShape DEF EnqueueInternal
    <2> QED
      BY <1>2, <2>1, <2>2, <2>3, <2>4, <2>5 DEF Serve
  <1>3. ASSUME NEW j \in Jobs, Run(j) PROVE SilentInv'
    BY <1>3, JobShape DEF Run, TakeSlot, CancelledQueued, Build, SendPoint, SkipPoint, Settle, Report, Emit,
       ReleaseSlot, ClearJob
  <1>4. CASE Shutdown
    BY <1>4, JobShape DEF Shutdown
  <1>5. CASE UNCHANGED vars
    BY <1>5 DEF vars
  <1> QED
    BY <1>1, <1>2, <1>3, <1>4, <1>5 DEF Next

(* Every step keeps FleetInv: ended jobs and ended requests stay ended. *)
LEMMA FleetStep == Types /\ FleetInv /\ [Next]_vars => FleetInv'
  <1> SUFFICES ASSUME Types, FleetInv, [Next]_vars PROVE FleetInv'
    OBVIOUS
  <1> USE DEF Types, FleetInv, CancelledRow, storeVars, handlerVars, reconcileVars
  <1>1. ASSUME NEW h \in Handlers, Ask(h) PROVE FleetInv'
    BY <1>1, JobShape DEF Ask, ClearOverlay, FirstSeen, CheckOverlay, SelectBase
  <1>2. ASSUME NEW h \in Handlers, Serve(h) PROVE FleetInv'
    <2>1. CASE UpsertOverlay(h)
      BY <2>1, JobShape DEF UpsertOverlay
    <2>2. CASE FleetListFails(h)
      BY <2>2, JobShape DEF FleetListFails
    <2>3. CASE FleetDone(h)
      BY <2>3, JobShape DEF FleetDone
    <2>4. CASE FleetAbort(h)
      BY <2>4, JobShape DEF FleetAbort
    <2>5. ASSUME NEW u \in Uids, EnqueueInternal(h, u) PROVE FleetInv'
      BY <2>5, JobShape DEF EnqueueInternal
    <2> QED
      BY <1>2, <2>1, <2>2, <2>3, <2>4, <2>5 DEF Serve
  <1>3. ASSUME NEW j \in Jobs, Run(j) PROVE FleetInv'
    BY <1>3, JobShape DEF Run, TakeSlot, CancelledQueued, Build, SendPoint, SkipPoint, Settle, Report, Emit,
       ReleaseSlot, ClearJob
  <1>4. CASE Shutdown
    BY <1>4, JobShape DEF Shutdown
  <1>5. CASE UNCHANGED vars
    BY <1>5 DEF vars
  <1> QED
    BY <1>1, <1>2, <1>3, <1>4, <1>5 DEF Next

(* A step that keeps the store, the requests and the causes, and takes no  *)
(* job of v from before its read to after it, loses nothing for v.         *)
LEMMA NothingLost ==
    ASSUME NEW v \in Uids, ReadOrPending(v), UNCHANGED <<storeVars, ctxDone, hpc, left, cause>>,
           rows \subseteq rows', built'[v] = built[v],
           \A h \in Handlers : jpc[<<h, v>>] \in {"queued", "build"} /\ cause[<<h, v>>] = "none"
              => jpc'[<<h, v>>] \in {"queued", "build"}
    PROVE  ReadOrPending(v)'
  BY DEF ReadOrPending, WillBeRead, storeVars

(* Every step keeps ReconcileInv: no persisted change is forgotten. *)
LEMMA ReconcileStep == Types /\ ReconcileInv /\ [Next]_vars => ReconcileInv'
  <1> SUFFICES ASSUME Types, ReconcileInv, [Next]_vars PROVE ReconcileInv'
    OBVIOUS
  <1> USE DEF ReconcileInv, storeVars, handlerVars, reconcileVars
  <1>1. ASSUME NEW h \in Handlers, Ask(h) PROVE ReconcileInv'
    <2>1. ASSUME NEW u \in Uids, ClearOverlay(h, u) PROVE ReconcileInv'
      <3> SUFFICES ASSUME NEW v \in Uids PROVE ReadOrPending(v)'
        OBVIOUS
      <3> QED
        BY <2>1 DEF ClearOverlay, ReadOrPending, WillBeRead, Types
    <2>2. ASSUME NEW u \in Uids, FirstSeen(h, u) PROVE ReconcileInv'
      <3> SUFFICES ASSUME NEW v \in Uids PROVE ReadOrPending(v)'
        OBVIOUS
      <3> QED
        BY <2>2 DEF FirstSeen, ReadOrPending, WillBeRead, Types
    <2>3. ASSUME NEW u \in Uids, NEW o \in DOMAIN Overlays, CheckOverlay(h, u, o) PROVE ReconcileInv'
      <3> SUFFICES ASSUME NEW v \in Uids PROVE ReadOrPending(v)'
        OBVIOUS
      <3> QED
        BY <2>3 DEF CheckOverlay, ReadOrPending, WillBeRead, Types
    <2>4. ASSUME NEW b \in DOMAIN Bases, SelectBase(h, b) PROVE ReconcileInv'
      <3> SUFFICES ASSUME NEW v \in Uids PROVE ReadOrPending(v)'
        OBVIOUS
      <3> QED
        BY <2>4 DEF SelectBase, ReadOrPending, WillBeRead, Types
    <2> QED
      BY <1>1, <2>1, <2>2, <2>3, <2>4 DEF Ask
  <1>2. ASSUME NEW h \in Handlers, Serve(h) PROVE ReconcileInv'
    <2>1. CASE UpsertOverlay(h)
      <3> SUFFICES ASSUME NEW v \in Uids PROVE ReadOrPending(v)'
        OBVIOUS
      <3> QED
        BY <2>1 DEF UpsertOverlay, ReadOrPending, WillBeRead, Types
    <2>2. CASE FleetListFails(h)
      <3> SUFFICES ASSUME NEW v \in Uids PROVE ReadOrPending(v)'
        OBVIOUS
      <3> QED
        BY <2>2 DEF FleetListFails, ReadOrPending, WillBeRead, Types
    <2>3. CASE FleetDone(h)
      <3> SUFFICES ASSUME NEW v \in Uids PROVE ReadOrPending(v)'
        OBVIOUS
      <3> QED
        BY <2>3 DEF FleetDone, ReadOrPending, WillBeRead, Types
    <2>4. CASE FleetAbort(h)
      <3> SUFFICES ASSUME NEW v \in Uids PROVE ReadOrPending(v)'
        OBVIOUS
      <3> QED
        BY <2>4 DEF FleetAbort, ReadOrPending, WillBeRead, Types
    <2>5. ASSUME NEW u \in Uids, EnqueueInternal(h, u) PROVE ReconcileInv'
      <3> SUFFICES ASSUME NEW v \in Uids PROVE ReadOrPending(v)'
        OBVIOUS
      <3> USE <2>5 DEF EnqueueInternal
      <3>1. CASE v = u /\ ~ctxDone
        <4>1. jpc'[<<h, v>>] = "queued" /\ cause'[<<h, v>>] = "none"
          BY <3>1, JobShape DEF Types
        <4> QED
          BY <4>1 DEF ReadOrPending, WillBeRead
      <3>2. CASE v # u
        <4>1. \A g \in Handlers : /\ jpc'[<<g, v>>] = jpc[<<g, v>>]
                                  /\ cause'[<<g, v>>] = cause[<<g, v>>]
          <5> TAKE g \in Handlers
          <5>1. <<g, v>> \in Jobs /\ <<g, v>> # <<h, u>> /\ Uid(<<g, v>>) = v
            BY <3>2, JobShape DEF Uid
          <5>2. <<g, v>> # jobs[u]
            BY <5>1, <3>2, GridProfileAssumption DEF Types, Jobs, GridProfileAssumption
          <5> QED
            BY <5>1, <5>2 DEF Types
        <4>2. \A g \in Handlers : hpc[g] \in {"enqueue", "fleet"} /\ v \in left[g]
                 => hpc'[g] \in {"enqueue", "fleet"} /\ v \in left'[g]
          BY <3>2 DEF Types
        <4>3. UNCHANGED <<storeVars, rows, ctxDone, built>>
          OBVIOUS
        <4>4. WillBeRead(v) => WillBeRead(v)'
          BY <4>1, <4>2 DEF WillBeRead
        <4> QED
          BY <4>3, <4>4 DEF ReadOrPending
      <3>3. CASE ctxDone
        BY <3>3 DEF ReadOrPending
      <3> QED
        BY <3>1, <3>2, <3>3
    <2> QED
      BY <1>2, <2>1, <2>2, <2>3, <2>4, <2>5 DEF Serve
  <1>3. ASSUME NEW j \in Jobs, Run(j) PROVE ReconcileInv'
    <2>1. CASE TakeSlot(j)
      <3> SUFFICES ASSUME NEW v \in Uids PROVE ReadOrPending(v)'
        OBVIOUS
      <3>1. \A k \in Jobs : jpc[k] \in {"queued", "build"} /\ cause[k] = "none"
              => jpc'[k] \in {"queued", "build"}
        BY <2>1 DEF TakeSlot, Types
      <3> QED
        BY <2>1, <3>1, NothingLost, JobShape DEF TakeSlot, CancelledRow
    <2>2. CASE CancelledQueued(j)
      <3> SUFFICES ASSUME NEW v \in Uids PROVE ReadOrPending(v)'
        OBVIOUS
      <3>1. \A k \in Jobs : jpc[k] \in {"queued", "build"} /\ cause[k] = "none"
              => jpc'[k] \in {"queued", "build"}
        BY <2>2 DEF CancelledQueued, Types
      <3> QED
        BY <2>2, <3>1, NothingLost, JobShape DEF CancelledQueued, CancelledRow
    <2>3. CASE Build(j)
      <3> SUFFICES ASSUME NEW v \in Uids PROVE ReadOrPending(v)'
        OBVIOUS
      <3> USE <2>3 DEF Build
      <3>1. CASE v # Uid(j)
        <4>1. built'[v] = built[v] /\ \A h \in Handlers : jpc'[<<h, v>>] = jpc[<<h, v>>]
          BY <3>1, JobShape DEF Types, Uid
        <4> QED
          BY <4>1, NothingLost
      <3>2. CASE v = Uid(j) /\ built' # built
        BY <3>2 DEF ReadOrPending, Types, Unread
      <3>3. CASE v = Uid(j) /\ built' = built
        <4>1. CASE built[v] = <<activeBase, overlay[v]>>
          BY <4>1, <3>3 DEF ReadOrPending
        <4>2. CASE built[v] = Unread
          BY <4>2, <3>3 DEF ReadOrPending, Unread
        <4>3. CASE cause[j] # "none"
          <5>1. \A k \in Jobs : jpc[k] \in {"queued", "build"} /\ cause[k] = "none"
                  => jpc'[k] \in {"queued", "build"}
            BY <4>3 DEF Types
          <5> QED
            BY <5>1, <3>3, NothingLost, JobShape
        <4>4. \/ built' = [built EXCEPT ![v] = <<activeBase, overlay[v]>>]
              \/ built' = [built EXCEPT ![v] = Unread]
              \/ cause[j] # "none"
          BY <3>3
        <4> QED
          BY <4>1, <4>2, <4>3, <4>4, <3>3 DEF Types
      <3> QED
        BY <3>1, <3>2, <3>3
    <2>4. ASSUME NEW c \in Codes, SendPoint(j, c) PROVE ReconcileInv'
      <3> SUFFICES ASSUME NEW v \in Uids PROVE ReadOrPending(v)'
        OBVIOUS
      <3>1. \A k \in Jobs : jpc[k] \in {"queued", "build"} /\ cause[k] = "none"
              => jpc'[k] \in {"queued", "build"}
        BY <2>4 DEF SendPoint, Types
      <3> QED
        BY <2>4, <3>1, NothingLost, JobShape DEF SendPoint, CancelledRow
    <2>5. ASSUME NEW c \in Codes, SkipPoint(j, c) PROVE ReconcileInv'
      <3> SUFFICES ASSUME NEW v \in Uids PROVE ReadOrPending(v)'
        OBVIOUS
      <3>1. \A k \in Jobs : jpc[k] \in {"queued", "build"} /\ cause[k] = "none"
              => jpc'[k] \in {"queued", "build"}
        BY <2>5 DEF SkipPoint, Types
      <3> QED
        BY <2>5, <3>1, NothingLost, JobShape DEF SkipPoint, CancelledRow
    <2>6. CASE Settle(j)
      <3> SUFFICES ASSUME NEW v \in Uids PROVE ReadOrPending(v)'
        OBVIOUS
      <3>1. \A k \in Jobs : jpc[k] \in {"queued", "build"} /\ cause[k] = "none"
              => jpc'[k] \in {"queued", "build"}
        BY <2>6 DEF Settle, Types
      <3> QED
        BY <2>6, <3>1, NothingLost, JobShape DEF Settle, CancelledRow
    <2>7. CASE Report(j)
      <3> SUFFICES ASSUME NEW v \in Uids PROVE ReadOrPending(v)'
        OBVIOUS
      <3>1. \A k \in Jobs : jpc[k] \in {"queued", "build"} /\ cause[k] = "none"
              => jpc'[k] \in {"queued", "build"}
        BY <2>7 DEF Report, Types
      <3> QED
        BY <2>7, <3>1, NothingLost, JobShape DEF Report, CancelledRow
    <2>8. CASE Emit(j)
      <3> SUFFICES ASSUME NEW v \in Uids PROVE ReadOrPending(v)'
        OBVIOUS
      <3>1. \A k \in Jobs : jpc[k] \in {"queued", "build"} /\ cause[k] = "none"
              => jpc'[k] \in {"queued", "build"}
        BY <2>8 DEF Emit, Types
      <3> QED
        BY <2>8, <3>1, NothingLost, JobShape DEF Emit, CancelledRow
    <2>9. CASE ReleaseSlot(j)
      <3> SUFFICES ASSUME NEW v \in Uids PROVE ReadOrPending(v)'
        OBVIOUS
      <3>1. \A k \in Jobs : jpc[k] \in {"queued", "build"} /\ cause[k] = "none"
              => jpc'[k] \in {"queued", "build"}
        BY <2>9 DEF ReleaseSlot, Types
      <3> QED
        BY <2>9, <3>1, NothingLost, JobShape DEF ReleaseSlot, CancelledRow
    <2>10. CASE ClearJob(j)
      <3> SUFFICES ASSUME NEW v \in Uids PROVE ReadOrPending(v)'
        OBVIOUS
      <3>1. \A k \in Jobs : jpc[k] \in {"queued", "build"} /\ cause[k] = "none"
              => jpc'[k] \in {"queued", "build"}
        BY <2>10 DEF ClearJob, Types
      <3> QED
        BY <2>10, <3>1, NothingLost, JobShape DEF ClearJob, CancelledRow
    <2> QED
      BY <1>3, <2>1, <2>2, <2>3, <2>4, <2>5, <2>6, <2>7, <2>8, <2>9, <2>10 DEF Run
  <1>4. CASE Shutdown
    BY <1>4 DEF Shutdown, ReadOrPending
  <1>5. CASE UNCHANGED vars
    BY <1>5 DEF vars, ReadOrPending, WillBeRead
  <1> QED
    BY <1>1, <1>2, <1>3, <1>4, <1>5 DEF Next

(* Every step keeps NewInv: no job of a request exists before it is enqueued. *)
LEMMA NewStep == Types /\ NewInv /\ [Next]_vars => NewInv'
  <1> SUFFICES ASSUME Types, NewInv, [Next]_vars PROVE NewInv'
    OBVIOUS
  <1> USE DEF Types, NewInv, storeVars, handlerVars, reconcileVars
  <1>1. ASSUME NEW h \in Handlers, Ask(h) PROVE NewInv'
    BY <1>1, JobShape DEF Ask, ClearOverlay, FirstSeen, CheckOverlay, SelectBase
  <1>2. ASSUME NEW h \in Handlers, Serve(h) PROVE NewInv'
    <2>1. CASE UpsertOverlay(h)
      BY <2>1, JobShape DEF UpsertOverlay
    <2>2. CASE FleetListFails(h)
      BY <2>2, JobShape DEF FleetListFails
    <2>3. CASE FleetDone(h)
      BY <2>3, JobShape DEF FleetDone
    <2>4. CASE FleetAbort(h)
      BY <2>4, JobShape DEF FleetAbort
    <2>5. ASSUME NEW u \in Uids, EnqueueInternal(h, u) PROVE NewInv'
      BY <2>5, JobShape DEF EnqueueInternal
    <2> QED
      BY <1>2, <2>1, <2>2, <2>3, <2>4, <2>5 DEF Serve
  <1>3. ASSUME NEW j \in Jobs, Run(j) PROVE NewInv'
    BY <1>3, JobShape DEF Run, TakeSlot, CancelledQueued, Build, SendPoint, SkipPoint, Settle, Report, Emit,
       ReleaseSlot, ClearJob
  <1>4. CASE Shutdown
    BY <1>4, JobShape DEF Shutdown
  <1>5. CASE UNCHANGED vars
    BY <1>5 DEF vars
  <1> QED
    BY <1>1, <1>2, <1>3, <1>4, <1>5 DEF Next

(* There are finitely many jobs, so the slots taken can be counted.         *)
LEMMA HoldersFinite == IsFiniteSet(Holders)
  <1>1. IsFiniteSet(Jobs)
    BY GridProfileAssumption, FS_Product DEF GridProfileAssumption, Jobs
  <1> QED
    BY <1>1, FS_Subset DEF Holders

(* Every step keeps SlotInv: a slot is taken and given back once per job. *)
LEMMA SlotStep == Types /\ NewInv /\ SlotInv /\ [Next]_vars => SlotInv'
  <1> SUFFICES ASSUME Types, NewInv, SlotInv, [Next]_vars PROVE SlotInv'
    OBVIOUS
  <1> USE DEF SlotInv, storeVars, handlerVars, reconcileVars
  <1>1. ASSUME NEW h \in Handlers, Ask(h) PROVE SlotInv'
    BY <1>1 DEF Holders, Ask, ClearOverlay, FirstSeen, CheckOverlay, SelectBase
  <1>2. ASSUME NEW h \in Handlers, Serve(h) PROVE SlotInv'
    <2>1. CASE UpsertOverlay(h)
      BY <2>1 DEF UpsertOverlay, Holders
    <2>2. CASE FleetListFails(h)
      BY <2>2 DEF FleetListFails, Holders
    <2>3. CASE FleetDone(h)
      BY <2>3 DEF FleetDone, Holders
    <2>4. CASE FleetAbort(h)
      BY <2>4 DEF FleetAbort, Holders
    <2>5. ASSUME NEW u \in Uids, EnqueueInternal(h, u) PROVE SlotInv'
      <3>1. <<h, u>> \in Jobs /\ jpc[<<h, u>>] = "new"
        BY <2>5, JobShape DEF EnqueueInternal, NewInv
      <3>2. Holders' = Holders
        BY <2>5, <3>1 DEF EnqueueInternal, Holders, HoldsSlot, Reconciling, Types
      <3> QED
        BY <2>5, <3>2 DEF EnqueueInternal
    <2> QED
      BY <1>2, <2>1, <2>2, <2>3, <2>4, <2>5 DEF Serve
  <1>3. ASSUME NEW j \in Jobs, Run(j) PROVE SlotInv'
    <2>1. CASE TakeSlot(j)
      <3>1. j \notin Holders /\ Holders' = Holders \cup {j}
        BY <2>1 DEF TakeSlot, Holders, HoldsSlot, Reconciling, Types
      <3>2. Cardinality(Holders') = Cardinality(Holders) + 1
        BY <3>1, HoldersFinite, FS_AddElement
      <3> QED
        BY <2>1, <3>2, GridProfileAssumption DEF TakeSlot, GridProfileAssumption
    <2>2. CASE CancelledQueued(j)
      <3>1. Holders' = Holders
        BY <2>2, JobShape DEF CancelledQueued, Holders, HoldsSlot, Reconciling, Types
      <3> QED
        BY <2>2, <3>1 DEF CancelledQueued
    <2>3. CASE Build(j)
      <3>1. Holders' = Holders
        BY <2>3, JobShape DEF Build, Holders, HoldsSlot, Reconciling, Types
      <3> QED
        BY <2>3, <3>1 DEF Build
    <2>4. ASSUME NEW c \in Codes, SendPoint(j, c) PROVE SlotInv'
      <3>1. Holders' = Holders
        BY <2>4, JobShape DEF SendPoint, Holders, HoldsSlot, Reconciling, Types
      <3> QED
        BY <2>4, <3>1 DEF SendPoint
    <2>5. ASSUME NEW c \in Codes, SkipPoint(j, c) PROVE SlotInv'
      <3>1. Holders' = Holders
        BY <2>5, JobShape DEF SkipPoint, Holders, HoldsSlot, Reconciling, Types
      <3> QED
        BY <2>5, <3>1 DEF SkipPoint
    <2>6. CASE Settle(j)
      <3>1. Holders' = Holders
        BY <2>6, JobShape DEF Settle, Holders, HoldsSlot, Reconciling, Types
      <3> QED
        BY <2>6, <3>1 DEF Settle
    <2>7. CASE Report(j)
      <3>1. Holders' = Holders
        BY <2>7, JobShape DEF Report, Holders, HoldsSlot, Reconciling, Types
      <3> QED
        BY <2>7, <3>1 DEF Report
    <2>8. CASE Emit(j)
      <3>1. Holders' = Holders
        BY <2>8, JobShape DEF Emit, Holders, HoldsSlot, Reconciling, Types
      <3> QED
        BY <2>8, <3>1 DEF Emit
    <2>9. CASE ReleaseSlot(j)
      <3>1. j \in Holders /\ Holders' = Holders \ {j}
        BY <2>9 DEF ReleaseSlot, Holders, HoldsSlot, Reconciling, Types
      <3>2. Cardinality(Holders') = Cardinality(Holders) - 1 /\ Cardinality(Holders') \in Nat
        BY <3>1, HoldersFinite, FS_RemoveElement, FS_CardinalityType, FS_Subset
      <3> QED
        BY <2>9, <3>2, GridProfileAssumption DEF ReleaseSlot, GridProfileAssumption
    <2>10. CASE ClearJob(j)
      <3>1. Holders' = Holders
        BY <2>10, JobShape DEF ClearJob, Holders, HoldsSlot, Reconciling, Types
      <3> QED
        BY <2>10, <3>1 DEF ClearJob
    <2> QED
      BY <1>3, <2>1, <2>2, <2>3, <2>4, <2>5, <2>6, <2>7, <2>8, <2>9, <2>10 DEF Run
  <1>4. CASE Shutdown
    BY <1>4 DEF Shutdown, Holders
  <1>5. CASE UNCHANGED vars
    BY <1>5 DEF vars, Holders
  <1> QED
    BY <1>1, <1>2, <1>3, <1>4, <1>5 DEF Next

(* Every step keeps TodoInv. *)
LEMMA TodoStep == Types /\ TodoInv /\ [Next]_vars => TodoInv'
  <1> SUFFICES ASSUME Types, TodoInv, [Next]_vars PROVE TodoInv'
    OBVIOUS
  <1> USE DEF Types, TodoInv, storeVars, handlerVars, reconcileVars
  <1>1. ASSUME NEW h \in Handlers, Ask(h) PROVE TodoInv'
    BY <1>1 DEF Ask, ClearOverlay, FirstSeen, CheckOverlay, SelectBase
  <1>2. ASSUME NEW h \in Handlers, Serve(h) PROVE TodoInv'
    BY <1>2 DEF Serve, UpsertOverlay, FleetListFails, FleetDone, FleetAbort, EnqueueInternal
  <1>3. ASSUME NEW j \in Jobs, Run(j) PROVE TodoInv'
    <2>1. CASE TakeSlot(j)
      BY <2>1 DEF TakeSlot
    <2>2. CASE CancelledQueued(j)
      BY <2>2 DEF CancelledQueued
    <2>3. CASE Build(j)
      <3> DEFINE want == BuildDesired(BasePoints, OverlayPoints(Uid(j)))
      <3>1. DOMAIN want.points \subseteq Codes
        BY ProfileAssumption DEF BuildDesired, ProfileAssumption
      <3> HIDE DEF want
      <3>2. \/ UNCHANGED <<desired, todo>>
            \/ /\ desired' = [desired EXCEPT ![j] = want.points]
               /\ todo' = [todo EXCEPT ![j] = DOMAIN want.points]
        BY <2>3 DEF Build, want
      <3> QED
        BY <3>1, <3>2
    <2>4. ASSUME NEW c \in Codes, SendPoint(j, c) PROVE TodoInv'
      BY <2>4 DEF SendPoint
    <2>5. ASSUME NEW c \in Codes, SkipPoint(j, c) PROVE TodoInv'
      BY <2>5 DEF SkipPoint
    <2>6. CASE Settle(j)
      BY <2>6 DEF Settle
    <2>7. CASE Report(j)
      BY <2>7 DEF Report, NoPoints
    <2>8. CASE Emit(j)
      BY <2>8 DEF Emit
    <2>9. CASE ReleaseSlot(j)
      BY <2>9 DEF ReleaseSlot
    <2>10. CASE ClearJob(j)
      BY <2>10 DEF ClearJob
    <2> QED
      BY <1>3, <2>1, <2>2, <2>3, <2>4, <2>5, <2>6, <2>7, <2>8, <2>9, <2>10 DEF Run
  <1>4. CASE Shutdown
    BY <1>4 DEF Shutdown
  <1>5. CASE UNCHANGED vars
    BY <1>5 DEF vars
  <1> QED
    BY <1>1, <1>2, <1>3, <1>4, <1>5 DEF Next

(* Every step keeps DesiredCoherent: buildDesired fails closed. *)
LEMMA CoherentStep == Types /\ DesiredCoherent /\ [Next]_vars => DesiredCoherent'
  <1> SUFFICES ASSUME Types, DesiredCoherent, [Next]_vars PROVE DesiredCoherent'
    OBVIOUS
  <1> USE DEF Types, DesiredCoherent, storeVars, handlerVars, reconcileVars
  <1>1. ASSUME NEW h \in Handlers, Ask(h) PROVE DesiredCoherent'
    BY <1>1 DEF Ask, ClearOverlay, FirstSeen, CheckOverlay, SelectBase
  <1>2. ASSUME NEW h \in Handlers, Serve(h) PROVE DesiredCoherent'
    BY <1>2 DEF Serve, UpsertOverlay, FleetListFails, FleetDone, FleetAbort, EnqueueInternal
  <1>3. ASSUME NEW j \in Jobs, Run(j) PROVE DesiredCoherent'
    <2>1. CASE TakeSlot(j)
      BY <2>1 DEF TakeSlot
    <2>2. CASE CancelledQueued(j)
      BY <2>2 DEF CancelledQueued
    <2>3. CASE Build(j)
      <3> DEFINE want == BuildDesired(BasePoints, OverlayPoints(Uid(j)))
      <3>1. want.ok => CheckConflicts(want.points) = {}
        BY DesiredHasNoConflict
      <3> HIDE DEF want
      <3>2. \/ UNCHANGED desired
            \/ want.ok /\ desired' = [desired EXCEPT ![j] = want.points]
        BY <2>3 DEF Build, want
      <3> QED
        BY <3>1, <3>2
    <2>4. ASSUME NEW c \in Codes, SendPoint(j, c) PROVE DesiredCoherent'
      BY <2>4 DEF SendPoint
    <2>5. ASSUME NEW c \in Codes, SkipPoint(j, c) PROVE DesiredCoherent'
      BY <2>5 DEF SkipPoint
    <2>6. CASE Settle(j)
      BY <2>6 DEF Settle
    <2>7. CASE Report(j)
      BY <2>7, NoPointsNoConflict DEF Report
    <2>8. CASE Emit(j)
      BY <2>8 DEF Emit
    <2>9. CASE ReleaseSlot(j)
      BY <2>9 DEF ReleaseSlot
    <2>10. CASE ClearJob(j)
      BY <2>10 DEF ClearJob
    <2> QED
      BY <1>3, <2>1, <2>2, <2>3, <2>4, <2>5, <2>6, <2>7, <2>8, <2>9, <2>10 DEF Run
  <1>4. CASE Shutdown
    BY <1>4 DEF Shutdown
  <1>5. CASE UNCHANGED vars
    BY <1>5 DEF vars
  <1> QED
    BY <1>1, <1>2, <1>3, <1>4, <1>5 DEF Next

-----------------------------------------------------------------------------
(* The theorems.                                                            *)

IInv ==
    /\ Types /\ SlotInv /\ TodoInv /\ NewInv
    /\ DesiredCoherent /\ OneUncancelledJob
    /\ FleetInv /\ SilentInv /\ ReconcileInv

LEMMA InitIInv == Init => IInv
  <1> SUFFICES ASSUME Init PROVE IInv
    OBVIOUS
  <1>1. Types
    BY DEF Init, Types
  <1>2. NewInv /\ FleetInv /\ SilentInv /\ OneUncancelledJob
    BY JobShape DEF Init, NewInv, FleetInv, SilentInv, OneUncancelledJob, Live, HoldsSlot, Reconciling
  <1>3. SlotInv
    <2>1. Holders = {}
      BY DEF Init, Holders, HoldsSlot, Reconciling
    <2> QED
      BY <2>1, FS_EmptySet, GridProfileAssumption DEF Init, SlotInv, GridProfileAssumption
  <1>4. TodoInv
    BY DEF Init, TodoInv, NoPoints
  <1>5. DesiredCoherent
    BY NoPointsNoConflict DEF Init, DesiredCoherent
  <1>6. ReconcileInv
    BY DEF Init, ReconcileInv, ReadOrPending
  <1> QED
    BY <1>1, <1>2, <1>3, <1>4, <1>5, <1>6 DEF IInv

(* The inductive invariant of requests, jobs and store.                    *)
THEOREM Inductive == Spec => []IInv
  <1>1. IInv /\ [Next]_vars => IInv'
    BY TypesStep, SlotStep, TodoStep, NewStep, CoherentStep, SupersedeStep, FleetStep, SilentStep,
       ReconcileStep DEF IInv
  <1> QED
    BY InitIInv, <1>1, PTL DEF Spec

(* The semaphore never exceeds asyncMaxConcurrentUIDs nor drops below zero *)
(* on any early return of applier.run (overlay_async.go:132-170): sema is  *)
(* the number of jobs that still have a slot to give back.                 *)
THEOREM SlotsCounted == Spec => []SlotInv
  <1>1. IInv => SlotInv
    BY DEF IInv
  <1> QED
    BY Inductive, <1>1, PTL

(* Whatever a reconcile sends obeys the ordering rules (conflicts.go:16-22),*)
(* for every base, overlay, capability set and set of rules.               *)
THEOREM SentIsCoherent == Spec => []DesiredCoherent
  <1>1. IInv => DesiredCoherent
    BY DEF IInv
  <1> QED
    BY Inductive, <1>1, PTL

(* A new request always finds the one uncancelled job of the inverter in   *)
(* the applier's map (overlay_async.go:101-122, 281-287).                  *)
THEOREM Supersede == Spec => []OneUncancelledJob
  <1>1. IInv => OneUncancelledJob
    BY DEF IInv
  <1> QED
    BY Inductive, <1>1, PTL

(* The fleet's complete row comes after all its jobs (base_async.go:93-94).*)
THEOREM FleetRow == Spec => []FleetRowIsLast
  <1>1. IInv => FleetRowIsLast
    BY DEF IInv, FleetInv, FleetRowIsLast
  <1> QED
    BY Inductive, <1>1, PTL

(* Only a cancelled job ends without a row (overlay_async.go:124-131).     *)
THEOREM Silence == Spec => []SilentOnlyIfCancelled
  <1>1. IInv => SilentOnlyIfCancelled
    BY DEF IInv, SilentInv, SilentOnlyIfCancelled
  <1> QED
    BY Inductive, <1>1, PTL

(* No persisted base or overlay stays unreconciled, however requests and   *)
(* superseded jobs overlap (manager.go:171-420, overlay_async.go:101-258). *)
THEOREM NothingForgotten == Spec => []StoredIsReconciled
  <1>1. ASSUME NEW u \in Uids, WillBeRead(u) PROVE Pending(u)
    BY <1>1 DEF WillBeRead, Pending, Live, HoldsSlot, Reconciling
  <1>2. IInv => StoredIsReconciled
    BY <1>1 DEF IInv, ReconcileInv, ReadOrPending, StoredIsReconciled
  <1> QED
    BY Inductive, <1>2, PTL

(* No overlay whose range meets the physical and the certified range takes *)
(* a value out of the certified range (reconcile.go:193-215).              *)
THEOREM Envelope == Spec => []EnvelopeKept
  <1>1. Types => EnvelopeKept
    <2> SUFFICES ASSUME Types, NEW u \in Uids, NEW c \in Codes PROVE
          LET want == BuildDesired(BasePoints, OverlayPoints(u)).points
              meet == /\ Overlap(DefaultRange[c], BasePoints[c].range)
                      /\ c \in DOMAIN OverlayPoints(u) =>
                            /\ Overlap(DefaultRange[c], OverlayPoints(u)[c].range)
                            /\ Overlap(BasePoints[c].range, OverlayPoints(u)[c].range)
          IN  c \in DOMAIN BasePoints \cap DOMAIN want /\ meet
                => Within(want[c], BasePoints[c].range)
      BY DEF EnvelopeKept
    <2> DEFINE base == BasePoints
               ov == OverlayPoints(u)
               phys == DefaultRange[c]
    <2>1. c \in DOMAIN base => base[c] \in Points /\ ValidRange(base[c].range)
      BY StoredAssumption DEF StoredAssumption, BasePoints, NoPoints, Types
    <2>2. c \in DOMAIN ov => ov[c] \in Points /\ ValidRange(ov[c].range)
      BY StoredAssumption DEF StoredAssumption, OverlayPoints, NoPoints, Types
    <2>3. phys \in Ranges \cup {NoRange} /\ ValidRange(phys) /\ NoRange \notin Ranges
      BY StoredAssumption, ProfileAssumption DEF StoredAssumption, ProfileAssumption
    <2> HIDE DEF base, ov, phys
    <2>4. ASSUME c \in DOMAIN base, c \in Writeable, Overlap(phys, base[c].range),
                 c \in DOMAIN ov => /\ Overlap(phys, ov[c].range)
                                    /\ Overlap(base[c].range, ov[c].range)
          PROVE  Within(Clamp(Merged(base, ov)[c].val, Merged(base, ov)[c].range), base[c].range)
      <3>1. CASE c \notin DOMAIN ov
        <4>1. Merged(base, ov)[c] = base[c]
          BY <2>4, <3>1 DEF Merged
        <4> QED
          BY <2>1, <2>4, <4>1, ClampWithin DEF Points
      <3>2. CASE c \in DOMAIN ov
        <4> DEFINE cert == IntersectRanges(phys, base[c].range)
                   eff == IntersectRanges(cert, ov[c].range)
        <4>1. Merged(base, ov)[c] = [val |-> ov[c].val, range |-> eff]
          BY <2>4, <3>2 DEF Merged, EffectiveRange, phys
        <4>2. base[c].range \in Ranges \cup {NoRange} /\ ov[c].range \in Ranges \cup {NoRange}
                /\ ov[c].val \in Int
          BY <2>1, <2>2, <2>4, <3>2 DEF Points
        <4>3. /\ cert \in Ranges \cup {NoRange} /\ ValidRange(cert)
              /\ \A v \in Int : Within(v, cert) => Within(v, base[c].range)
          BY <2>1, <2>3, <2>4, <4>2, IntersectWithin
        <4>4. Overlap(cert, ov[c].range)
          BY <2>1, <2>2, <2>3, <2>4, <3>2, <4>2, IntersectOverlap
        <4> HIDE DEF cert
        <4>5. /\ eff \in Ranges \cup {NoRange} /\ ValidRange(eff)
              /\ \A v \in Int : Within(v, eff) => Within(v, cert)
          BY <2>2, <2>3, <3>2, <4>2, <4>3, <4>4, IntersectWithin
        <4> HIDE DEF eff
        <4>6. Clamp(ov[c].val, eff) \in Int /\ Within(Clamp(ov[c].val, eff), eff)
          BY <4>2, <4>5, ClampWithin, ClampInt
        <4> QED
          BY <4>1, <4>3, <4>5, <4>6
      <3> QED
        BY <3>1, <3>2
    <2>5. ASSUME c \in DOMAIN BuildDesired(base, ov).points
          PROVE  /\ c \in Writeable
                 /\ BuildDesired(base, ov).points[c]
                      = Clamp(Merged(base, ov)[c].val, Merged(base, ov)[c].range)
      BY <2>5 DEF BuildDesired
    <2> QED
      BY <2>4, <2>5 DEF base, ov, phys
  <1>2. IInv => Types
    BY DEF IInv
  <1> QED
    BY Inductive, <1>1, <1>2, PTL

CtxInv == ctxDone \in BOOLEAN

(* Type correctness of the model, the bound on the slots included.         *)
THEOREM TypeCorrect == Spec => []TypeOK
  <1>1. Init => CtxInv
    BY Zenon DEF Init, CtxInv
  <1>2. CtxInv /\ [Next]_vars => CtxInv'
    <2>1. Next => ctxDone' = ctxDone \/ ctxDone' = TRUE
      BY DEF Next, Ask, ClearOverlay, FirstSeen, CheckOverlay, SelectBase,
             Serve, UpsertOverlay, FleetListFails, FleetDone, FleetAbort, EnqueueInternal,
             Run, TakeSlot, CancelledQueued, Build, SendPoint, SkipPoint, Settle, Report, Emit,
             ReleaseSlot, ClearJob, Shutdown
    <2>2. UNCHANGED vars => ctxDone' = ctxDone
      BY DEF vars
    <2> QED
      BY <2>1, <2>2, Zenon DEF CtxInv
  <1>3. Spec => []CtxInv
    BY <1>1, <1>2, PTL DEF Spec
  <1>4. IInv /\ CtxInv => TypeOK
    BY DEF IInv, Types, SlotInv, TodoInv, TypeOK, CtxInv
  <1> QED
    BY Inductive, <1>3, <1>4, PTL

-----------------------------------------------------------------------------
(* The codec: numbers.  Registers of both families, for every native value.*)

\* Scaling loses at most one unit of the register (Trunc).
LEMMA Truncated ==
    ASSUME NEW n \in Nat, NEW d \in Nat, d > 0, NEW w \in Trunc(n, d)
    PROVE  w \in Nat /\ d * w <= n /\ n <= d * w + d
  <1>1. PICK q \in Nat, r \in Nat : q = n \div d /\ r = n % d /\ n = d * q + r /\ r < d
    OBVIOUS
  <1>2. w = q \/ (r = 0 /\ q > 0 /\ w = q - 1)
    BY <1>1 DEF Trunc
  <1>3. d * (q - 1) = d * q - d
    OBVIOUS
  <1>4. QED
    BY <1>1, <1>2, <1>3

\* What a division by a constant bounds.
LEMMA Quotient ==
    ASSUME NEW n \in Int, NEW d \in Nat, d > 0
    PROVE  n \div d \in Int /\ d * (n \div d) <= n /\ n < d * (n \div d) + d
  OBVIOUS

\* Volts of a DS3: w is the register, q the volts read back.
LEMMA VoltsDS3 ==
    ASSUME NEW v \in Nat, 10000 <= v, v <= 60000, NEW w \in Nat, 268 * w <= 10 * v, 10 * v <= 268 * w + 268,
           NEW q \in Int, 1000 * q <= 268 * w + 500, 268 * w + 500 < 1000 * q + 1000
    PROVE  w <= 32767 /\ -126 <= 100 * q - v /\ 100 * q - v <= 50 /\ (v % 100 = 0 => v = 100 * q)
  <1>1. w <= 32767 /\ -126 <= 100 * q - v /\ 100 * q - v <= 50
    BY SMT
  <1>2. ASSUME v % 100 = 0
        PROVE  v = 100 * q
    <2>1. PICK k \in Nat : v = 100 * k
      BY <1>2
    <2>2. k - 1 < q /\ q < k + 1
      BY <2>1, SMT
    <2>3. QED
      BY <2>1, <2>2
  <1>3. QED
    BY <1>1, <1>2

\* The average of a DS3, which is read rounded down (ds3.go:166).
LEMMA AverageDS3 ==
    ASSUME NEW v \in Nat, 10000 <= v, v <= 60000, NEW w \in Nat, 268 * w <= 10 * v, 10 * v <= 268 * w + 268,
           NEW q \in Int, 1000 * q <= 268 * w, 268 * w < 1000 * q + 1000
    PROVE  w <= 32767 /\ -126 <= 100 * q - v /\ 100 * q - v <= 50
  BY SMT

\* Volts of a QS1.
LEMMA VoltsQS1 ==
    ASSUME NEW v \in Nat, 10000 <= v, v <= 60000, NEW w \in Nat, 6250 * w <= 333 * v, 333 * v <= 6250 * w + 6250,
           NEW q \in Int, 1332 * q <= 250 * w + 666, 250 * w + 666 < 1332 * q + 1332
    PROVE  w <= 32767 /\ -126 <= 100 * q - v /\ 100 * q - v <= 50 /\ (v % 100 = 0 => v = 100 * q)
  <1>1. w <= 32767 /\ -126 <= 100 * q - v /\ 100 * q - v <= 50
    BY SMT
  <1>2. ASSUME v % 100 = 0
        PROVE  v = 100 * q
    <2>1. PICK k \in Nat : v = 100 * k
      BY <1>2
    <2>2. k - 1 < q /\ q < k + 1
      BY <2>1, SMT
    <2>3. QED
      BY <2>1, <2>2
  <1>3. QED
    BY <1>1, <1>2

\* The average of a QS1: written with 1.332, divided by 600 as integers, read with 1.3315 (qs1a.go:66,166-177).
LEMMA AverageQS1 ==
    ASSUME NEW v \in Nat, 10000 <= v, v <= 60000, NEW w \in Nat, 125 * w <= 3996 * v, 3996 * v <= 125 * w + 125,
           NEW u \in Int, 600 * u <= w, w < 600 * u + 600,
           NEW q \in Int, 106520 * q <= 20000 * u + 53260, 20000 * u + 53260 < 106520 * q + 106520
    PROVE  w <= 16777215 /\ -126 <= 100 * q - v /\ 100 * q - v <= 72 /\ (v % 100 = 0 => v = 100 * q)
  <1>1. w <= 16777215 /\ -126 <= 100 * q - v /\ 100 * q - v <= 72
    BY SMT
  <1>2. ASSUME v % 100 = 0
        PROVE  v = 100 * q
    <2>1. PICK k \in Nat : v = 100 * k
      BY <1>2
    <2>2. k - 1 < q /\ q < k + 1
      BY <2>1, SMT
    <2>3. QED
      BY <2>1, <2>2
  <1>3. QED
    BY <1>1, <1>2

\* The power cap of a DS3.
LEMMA PowerDS3 ==
    ASSUME NEW v \in Nat, 2000 <= v, v <= 50000,
           NEW w \in Int, 12054 * w <= 2000 * v + 6027, 2000 * v + 6027 < 12054 * w + 12054,
           NEW q \in Int, 1000 * q <= w * 6027, w * 6027 < 1000 * q + 1000
    PROVE  0 <= w /\ w <= 32767 /\ -200 <= q - v /\ q - v <= 200
  BY SMT

\* The power cap of a QS1, of whole watts.
LEMMA PowerQS1 ==
    ASSUME NEW v \in Nat, 2000 <= v, v <= 50000, NEW k \in Int, 100 * k <= v, v < 100 * k + 100,
           NEW w \in Int, 256 * w <= k * 7395, k * 7395 < 256 * w + 256,
           NEW q \in Int, 7395 * q <= w * 25600, w * 25600 < 7395 * q + 7395
    PROVE  0 <= w /\ w <= 32767 /\ -200 <= q - v /\ q - v <= 200
  BY SMT

\* The bytes of a register of two.
LEMMA Bytes2 ==
    ASSUME NEW w
    PROVE  Bytes(w, 2) = << (w \div 256) % 256, w % 256 >>
  BY SMT DEF Bytes

\* The bytes of a register of three.
LEMMA Bytes3 ==
    ASSUME NEW w
    PROVE  Bytes(w, 3) = << (w \div 65536) % 256, (w \div 256) % 256, w % 256 >>
  BY SMT DEF Bytes

\* The two bytes of what fits two make it up.
LEMMA Low ==
    ASSUME NEW w \in Nat, w <= 65535
    PROVE  /\ (w \div 256) % 256 \in Nat /\ w % 256 \in Nat
           /\ ((w \div 256) % 256) * 256 + (w % 256) = w
  <1>1. PICK x \in Nat : x = w \div 256 /\ 256 * x <= w /\ w < 256 * x + 256
    BY Quotient, SMT
  <1>2. x % 256 = x
    BY <1>1, SMT
  <1>3. PICK r \in Nat : r = w % 256 /\ w = 256 * (w \div 256) + r
    BY SMT
  <1>4. QED
    BY <1>1, <1>2, <1>3, SMT

\* The three bytes of what fits three make it up.
LEMMA Low3 ==
    ASSUME NEW w \in Nat, w <= 16777215
    PROVE  /\ (w \div 65536) % 256 \in Nat /\ (w \div 256) % 256 \in Nat /\ w % 256 \in Nat
           /\ ((w \div 65536) % 256) * 65536 + ((w \div 256) % 256) * 256 + (w % 256) = w
  <1>1. PICK x \in Nat : x = w \div 65536 /\ 65536 * x <= w /\ w < 65536 * x + 65536
    BY Quotient, SMT
  <1>2. x % 256 = x
    BY <1>1, SMT
  <1>3. PICK y \in Nat : y = w \div 256 /\ 256 * y <= w /\ w < 256 * y + 256
    BY Quotient, SMT
  <1>4. PICK r \in Nat : r = w % 256 /\ w = 256 * y + r
    BY <1>3, SMT
  <1>5. PICK s \in Nat : s = y % 256 /\ s < 256 /\ y = 256 * (y \div 256) + s
    BY SMT
  <1>6. PICK z \in Nat : z = y \div 256 /\ 256 * z <= y /\ y < 256 * z + 256
    BY Quotient, SMT
  <1>7. z = x
    <2>1. 65536 * z <= w /\ w < 65536 * z + 65536
      BY <1>3, <1>6, SMT
    <2>2. QED
      BY <1>1, <2>1, SMT
  <1>8. 65536 * x + 256 * s + r = w
    BY <1>3, <1>4, <1>5, <1>6, <1>7, SMT
  <1>9. QED
    BY <1>1, <1>2, <1>3, <1>4, <1>5, <1>8, SMT

\* Two bytes, the high one first (readBE).
LEMMA BE2 ==
    ASSUME NEW x, NEW y PROVE BigEndian(<<x, y>>) = x * 256 + y
  BY SMT DEF BigEndian

\* Three bytes, the high one first (readBE).
LEMMA BE3 ==
    ASSUME NEW x, NEW y, NEW z PROVE BigEndian(<<x, y, z>>) = x * 65536 + y * 256 + z
  BY SMT DEF BigEndian

\* Two bytes are read signed.
LEMMA Read2 ==
    ASSUME NEW w \in Nat, w <= 65535
    PROVE  readBE(Bytes(w, 2)) = IF w >= 32768 THEN w - 65536 ELSE w
  <1>1. PICK a \in Nat, b \in Nat : a = (w \div 256) % 256 /\ b = w % 256 /\ a * 256 + b = w
    BY Low, SMT
  <1>2. Bytes(w, 2) = <<a, b>>
    BY <1>1, Bytes2, SMT
  <1>3. BigEndian(<<a, b>>) = w /\ Len(<<a, b>>) = 2
    BY <1>1, BE2, SMT
  <1>4. QED
    BY <1>1, <1>2, <1>3, SMT DEF readBE

\* Three bytes are read as they were written.
LEMMA Read3 ==
    ASSUME NEW w \in Nat, w <= 16777215
    PROVE  readBE(Bytes(w, 3)) = w
  <1>1. PICK h \in Nat, a \in Nat, b \in Nat :
           h = (w \div 65536) % 256 /\ a = (w \div 256) % 256 /\ b = w % 256 /\ h * 65536 + a * 256 + b = w
    BY Low3, SMT
  <1>2. Bytes(w, 3) = <<h, a, b>>
    BY <1>1, Bytes3, SMT
  <1>3. BigEndian(<<h, a, b>>) = h * 65536 + a * 256 + b
    BY BE3
  <1>4. Len(<<h, a, b>>) = 3
    BY SMT
  <1>5. BigEndian(<<h, a, b>>) = w
    BY <1>1, <1>3, SMT
  <1>6. readBE(<<h, a, b>>) = w
    BY <1>4, <1>5, SMT DEF readBE
  <1>7. QED
    BY <1>2, <1>6

\* Multiplication by a natural number is monotonic.
LEMMA Multiples ==
    ASSUME NEW k \in Nat, NEW a \in Int, NEW b \in Int, a <= b
    PROVE  k * a \in Int /\ k * b \in Int /\ k * a <= k * b /\ a * k <= b * k
  BY SMT

\* A number lies between the multiples of one factor only.
LEMMA Between ==
    ASSUME NEW w \in Nat, NEW d \in Int, NEW e \in Int, NEW g \in Int,
           w * e <= g, g < w * e + w, w * d <= g, g < w * d + w
    PROVE  e = d
  <1>1. CASE e + 1 <= d
    <2>1. w * (e + 1) <= w * d
      BY <1>1, Multiples, SMT
    <2>2. QED
      BY <2>1, SMT
  <1>2. CASE d + 1 <= e
    <2>1. w * (d + 1) <= w * e
      BY <1>2, Multiples, SMT
    <2>2. QED
      BY <2>1, SMT
  <1>3. QED
    BY <1>1, <1>2, SMT

\* The division of 5 g by d in two steps, as Period does it.
LEMMA LongDivision ==
    ASSUME NEW g \in Nat, NEW d \in Nat, d > 0
    PROVE  /\ 5 * (g \div d) + (5 * (g % d)) \div d \in Nat
           /\ d * (5 * (g \div d) + (5 * (g % d)) \div d) <= 5 * g
           /\ 5 * g < d * (5 * (g \div d) + (5 * (g % d)) \div d) + d
  <1>1. PICK q \in Nat, r \in Nat : q = g \div d /\ r = (g % d) /\ g = d * q + r
    BY SMT
  <1>2. PICK s \in Nat, t \in Nat : s = (5 * r) \div d /\ 5 * r = d * s + t /\ t < d
    BY SMT
  <1>3. d * (5 * q + s) = 5 * (d * q) + d * s
    BY SMT
  <1>4. QED
    BY <1>1, <1>2, <1>3, SMT

\* Period divides 5 * Giga.
Giga == 1000000000

\* Period is the integer part of the quotient.
LEMMA Periods ==
    ASSUME NEW d \in Nat, d > 0
    PROVE  Period(d) \in Nat /\ d * Period(d) <= 5 * Giga /\ 5 * Giga < d * Period(d) + d
  <1>1. Period(d) = 5 * (Giga \div d) + (5 * (Giga % d)) \div d
    BY SMT DEF Period, Giga
  <1>2. PICK g \in Nat : g = Giga
    BY SMT DEF Giga
  <1>3. QED
    BY <1>1, <1>2, LongDivision, SMT

\* The period of a period: both divisions lose less than a unit.
LEMMA PeriodTwice ==
    ASSUME NEW g \in Nat, 98021000 < g, g < 5000004000,
           NEW d \in Nat, 4000 <= d, d <= 7000, NEW p \in Nat, d * p <= g, g < d * p + d,
           NEW w \in Nat, w = p \/ w = p - 1, NEW e \in Nat, w > 0 => w * e <= g /\ g < w * e + w
    PROVE  e = d /\ 0 < w /\ w <= 1250000
  <1>1. 14001 < p
    <2>1. p <= 14001 => d * p <= d * 14001
      BY Multiples, SMT
    <2>2. QED
      BY <2>1, SMT
  <1>2. p <= 1250000
    <2>1. p >= 1250001 => d * 1250001 <= d * p
      BY Multiples, SMT
    <2>2. QED
      BY <2>1, SMT
  <1>3. w > 0 /\ w > 7000 /\ w <= 1250000
    BY <1>1, <1>2, SMT
  <1>4. d * w <= d * p /\ d * p <= d * w + d /\ w * d = d * w
    BY SMT
  <1>5. w * d <= g /\ g < w * d + w
    BY <1>3, <1>4, SMT
  <1>6. QED
    BY <1>3, <1>5, Between, SMT

\* A frequency in hundredths of a hertz survives the period it is written as, and the period less one
\* that floating point may yield (hzInv).
LEMMA PeriodOfPeriod ==
    ASSUME NEW d \in Nat, 4000 <= d, d <= 7000, NEW w \in {Period(d), Period(d) - 1}
    PROVE  w \in Nat /\ 0 < w /\ w <= 1250000 /\ Period(w) = d
  <1>1. PICK g \in Nat : g = 5 * Giga /\ 98021000 < g /\ g < 5000004000
    BY SMT DEF Giga
  <1>2. Period(d) \in Nat /\ d * Period(d) <= 5 * Giga /\ 5 * Giga < d * Period(d) + d
    BY Periods, SMT
  <1>3. PICK p \in Nat : p = Period(d) /\ d * p <= g /\ g < d * p + d
    BY <1>2, <1>1, SMT
  <1>4. p > 0
    BY <1>1, <1>3, SMT
  <1>5. w \in Nat /\ (w = p \/ w = p - 1)
    BY <1>3, <1>4, SMT
  <1>6. w > 0 => Period(w) \in Nat /\ w * Period(w) <= g /\ g < w * Period(w) + w
    BY <1>1, <1>5, Periods, SMT
  <1>7. w > 0
    <2>1. w = 0 => p = 1
      BY <1>4, <1>5, SMT
    <2>2. p # 1
      BY <1>1, <1>3, SMT
    <2>3. QED
      BY <1>5, <2>1, <2>2, SMT
  <1>8. PICK e \in Nat : e = Period(w) /\ w * e <= g /\ g < w * e + w
    BY <1>6, <1>7, SMT
  <1>9. QED
    BY <1>1, <1>3, <1>5, <1>8, PeriodTwice, SMT

-----------------------------------------------------------------------------
(* The codec: what each class of codes reads back as.                      *)

\* What a register is read back as.
Back(f, c, w) == FromWire(f, ReadTable(f)[c].scale, readBE(Bytes(w, ReadTable(f)[c].width)))

\* Readable, of given values.
Legible(f, c, v, w) ==
    /\ UnitOf(c) = "V" => v % 100 = 0 /\ ~(f = "DS3" /\ c = "AB")
    /\ ReadTable(f)[c].width = 2 => w < 32768

\* What WriteReadsBack asks of a value and the register it was written to.
Kept(f, c, v, w) ==
    /\ Back(f, c, w) \in Int
    /\ Legible(f, c, v, w) => /\ 0 <= Back(f, c, w) /\ Back(f, c, w) <= ReadSaneMax
                              /\ -CodeTolerance(c) <= Back(f, c, w) - v /\ Back(f, c, w) - v <= CodeTolerance(c)
    /\ UnitOf(c) = "V" => /\ 0 <= Back(f, c, w) /\ Back(f, c, w) <= ReadSaneMax
                          /\ -126 <= Back(f, c, w) - v /\ Back(f, c, w) - v <= IF c = "AB" THEN 72 ELSE 50

\* The codes by how they are written and read.
Volts == {"AI", "AH", "AD", "AQ", "AY", "AC"}
Hertz == {"CB", "CC", "DH", "DI", "AK", "AJ", "AF", "AE", "BQ", "BP"}
Shorts == {"BC", "BB", "BE", "BD"}
Longs == {"BI", "BH", "BK", "BJ"}
Averages == {"AB"}
Cycles == {"AG"}
Powers == {"DA"}
Slopes == {"DD"}
Modes == {"CV"}
Seconds == {"BC", "BB", "BE", "BD", "BI", "BH", "BK", "BJ", "AG"}

\* The tolerances of the reconciler.
LEMMA Tolerated ==
    ASSUME NEW c
    PROVE  CodeTolerance(c) \in Nat /\ 6 <= CodeTolerance(c) /\ (c = "DA" => CodeTolerance(c) = 200)
  BY SMT DEF CodeTolerance, UnitOf

\* A range is bounded by its ends.
LEMMA InRange ==
    ASSUME NEW S, NEW v \in S, NEW lo \in Int, NEW hi \in Int, S = lo .. hi
    PROVE  v \in Int /\ lo <= v /\ v <= hi
  <1>1. v \in lo .. hi
    BY Zenon
  <1>2. QED
    BY <1>1, SMT

\* The envelopes of validateProtectionEnvelope, by unit.
LEMMA VoltRange ==
    ASSUME NEW v \in NativeEnvelope("V")
    PROVE  v \in Nat /\ 10000 <= v /\ v <= 60000
  <1>1. PICK lo \in Int, hi \in Int : lo = 10000 /\ hi = 60000
    BY SMT
  <1>2. NativeEnvelope("V") = lo .. hi
    BY <1>1, SMT DEF NativeEnvelope
  <1>3. v \in Int /\ lo <= v /\ v <= hi
    BY <1>2, InRange
  <1>4. QED
    BY <1>1, <1>3, SMT

\* Hertz.
LEMMA HertzRange ==
    ASSUME NEW v \in NativeEnvelope("Hz")
    PROVE  v \in Nat /\ 4000 <= v /\ v <= 7000
  <1>1. PICK lo \in Int, hi \in Int : lo = 4000 /\ hi = 7000
    BY SMT
  <1>2. NativeEnvelope("Hz") = lo .. hi
    BY <1>1, SMT DEF NativeEnvelope
  <1>3. v \in Int /\ lo <= v /\ v <= hi
    BY <1>2, InRange
  <1>4. QED
    BY <1>1, <1>3, SMT

\* The limits of a time.
SecondLimits(lo, hi) == lo = 1 /\ hi = 100000

\* Seconds, by those limits.
LEMMA SecondEnvelope ==
    ASSUME NEW lo \in Int, NEW hi \in Int, SecondLimits(lo, hi)
    PROVE  NativeEnvelope("s") = lo .. hi
  BY SMT DEF NativeEnvelope, SecondLimits

\* Seconds.
LEMMA SecondRange ==
    ASSUME NEW v \in NativeEnvelope("s")
    PROVE  v \in Nat /\ 1 <= v /\ v <= 100000
  <1>1. PICK lo \in Int, hi \in Int : SecondLimits(lo, hi)
    BY SMT DEF SecondLimits
  <1>2. NativeEnvelope("s") = lo .. hi
    BY <1>1, SecondEnvelope
  <1>3. v \in Int /\ lo <= v /\ v <= hi
    BY <1>2, InRange
  <1>4. QED
    BY <1>1, <1>3, SMT DEF SecondLimits

\* The limits of a power.
WattLimits(lo, hi) == lo = 2000 /\ hi = 50000

\* Watts, by those limits.
LEMMA WattEnvelope ==
    ASSUME NEW lo \in Int, NEW hi \in Int, WattLimits(lo, hi)
    PROVE  NativeEnvelope("W") = lo .. hi
  BY SMT DEF NativeEnvelope, WattLimits

\* Watts.
LEMMA WattRange ==
    ASSUME NEW v \in NativeEnvelope("W")
    PROVE  v \in Nat /\ 2000 <= v /\ v <= 50000
  <1>1. PICK lo \in Int, hi \in Int : WattLimits(lo, hi)
    BY SMT DEF WattLimits
  <1>2. NativeEnvelope("W") = lo .. hi
    BY <1>1, WattEnvelope
  <1>3. v \in Int /\ lo <= v /\ v <= hi
    BY <1>2, InRange
  <1>4. QED
    BY <1>1, <1>3, SMT DEF WattLimits

\* Every voltage of a DS3 is read back as it was written, but for the rounding.
LEMMA VoltsKeptDS3 ==
    ASSUME NEW c \in Volts, NEW v \in NativeEnvelope(UnitOf(c)), NEW w \in ToWire(ds3ProtParams[c].scale, v)
    PROVE  Kept("DS3", c, v, w)
  <1>1. /\ UnitOf(c) = "V" /\ ds3ProtParams[c].scale = "v268" /\ c # "AB"
        /\ ds3ReadPages[c].scale = "volt" /\ ds3ReadPages[c].width = 2
    BY DEF Volts, UnitOf, ds3ProtParams, ds3ReadPages, WField, RField
  <1>2. v \in NativeEnvelope("V")
    BY <1>1
  <1>3. v \in Nat /\ 10000 <= v /\ v <= 60000
    BY <1>2, VoltRange
  <1>4. ToWire("v268", v) = Trunc(v * 10, 268)
    BY SMT DEF ToWire
  <1>5. w \in Nat /\ 268 * w <= 10 * v /\ 10 * v <= 268 * w + 268
    BY <1>1, <1>3, <1>4, Truncated, SMT
  <1>6. PICK q \in Int : q = (w * 268 + 500) \div 1000 /\ 1000 * q <= 268 * w + 500 /\ 268 * w + 500 < 1000 * q + 1000
    BY <1>5, SMT
  <1>7. w <= 32767 /\ -126 <= 100 * q - v /\ 100 * q - v <= 50 /\ (v % 100 = 0 => v = 100 * q)
    BY <1>3, <1>5, <1>6, VoltsDS3, SMT
  <1>8. PICK d \in Nat : d = w /\ readBE(Bytes(w, 2)) = d
    BY <1>5, <1>7, Read2, SMT
  <1>9. Back("DS3", c, w) = 100 * q
    <2>1. readBE(Bytes(w, ds3ReadPages[c].width)) = d
      BY <1>1, <1>8
    <2>2. FromWire("DS3", "volt", d) = 100 * q
      BY <1>8, <1>6, SMT DEF FromWire
    <2>3. QED
      BY <1>1, <2>1, <2>2 DEF Back, ReadTable
  <1>10. CodeTolerance(c) \in Nat /\ 6 <= CodeTolerance(c) /\ (c = "DA" => CodeTolerance(c) = 200)
    BY <1>1, Tolerated
  <1>11. ds3ReadPages[c] = ReadTable("DS3")[c]
    BY DEF ReadTable
  <1>12. QED
    BY <1>1, <1>3, <1>5, <1>6, <1>8, <1>7, <1>9, <1>10, <1>11, SMT DEF Kept, Legible, ReadSaneMax

\* So is its average, which is not legible within the tolerance.
LEMMA AverageKeptDS3 ==
    ASSUME NEW c \in Averages, NEW v \in NativeEnvelope(UnitOf(c)), NEW w \in ToWire(ds3ProtParams[c].scale, v)
    PROVE  Kept("DS3", c, v, w)
  <1>1. /\ UnitOf(c) = "V" /\ ds3ProtParams[c].scale = "v268" /\ c = "AB"
        /\ ds3ReadPages[c].scale = "voltAvg" /\ ds3ReadPages[c].width = 2
    BY DEF Averages, UnitOf, ds3ProtParams, ds3ReadPages, WField, RField
  <1>2. v \in NativeEnvelope("V")
    BY <1>1
  <1>3. v \in Nat /\ 10000 <= v /\ v <= 60000
    BY <1>2, VoltRange
  <1>4. ToWire("v268", v) = Trunc(v * 10, 268)
    BY SMT DEF ToWire
  <1>5. w \in Nat /\ 268 * w <= 10 * v /\ 10 * v <= 268 * w + 268
    BY <1>1, <1>3, <1>4, Truncated, SMT
  <1>6. PICK q \in Int : q = (w * 268) \div 1000 /\ 1000 * q <= 268 * w /\ 268 * w < 1000 * q + 1000
    BY <1>5, SMT
  <1>7. w <= 32767 /\ -126 <= 100 * q - v /\ 100 * q - v <= 50
    BY <1>3, <1>5, <1>6, AverageDS3, SMT
  <1>8. PICK d \in Nat : d = w /\ readBE(Bytes(w, 2)) = d
    BY <1>5, <1>7, Read2, SMT
  <1>9. Back("DS3", c, w) = 100 * q
    <2>1. readBE(Bytes(w, ds3ReadPages[c].width)) = d
      BY <1>1, <1>8
    <2>2. FromWire("DS3", "voltAvg", d) = 100 * q
      BY <1>8, <1>6, SMT DEF FromWire
    <2>3. QED
      BY <1>1, <2>1, <2>2 DEF Back, ReadTable
  <1>10. CodeTolerance(c) \in Nat /\ 6 <= CodeTolerance(c) /\ (c = "DA" => CodeTolerance(c) = 200)
    BY <1>1, Tolerated
  <1>11. ds3ReadPages[c] = ReadTable("DS3")[c]
    BY DEF ReadTable
  <1>12. QED
    BY <1>1, <1>3, <1>5, <1>6, <1>8, <1>7, <1>9, <1>10, <1>11, SMT DEF Kept, Legible, ReadSaneMax

\* Every voltage of a QS1.
LEMMA VoltsKeptQS1 ==
    ASSUME NEW c \in Volts, NEW v \in NativeEnvelope(UnitOf(c)), NEW w \in ToWire(qs1Params[c].scale, v)
    PROVE  Kept("QS1", c, v, w)
  <1>1. /\ UnitOf(c) = "V" /\ qs1Params[c].scale = "v5328" /\ c # "AB"
        /\ qs1ReadPages[c].scale = "volt" /\ qs1ReadPages[c].width = 2
    BY DEF Volts, UnitOf, qs1Params, qs1ReadPages, WField, RField
  <1>2. v \in NativeEnvelope("V")
    BY <1>1
  <1>3. v \in Nat /\ 10000 <= v /\ v <= 60000
    BY <1>2, VoltRange
  <1>4. ToWire("v5328", v) = Trunc(v * 333, 6250)
    BY SMT DEF ToWire
  <1>5. w \in Nat /\ 6250 * w <= 333 * v /\ 333 * v <= 6250 * w + 6250
    BY <1>1, <1>3, <1>4, Truncated, SMT
  <1>6. PICK q \in Int : q = (w * 250 + 666) \div 1332 /\ 1332 * q <= 250 * w + 666 /\ 250 * w + 666 < 1332 * q + 1332
    BY <1>5, SMT
  <1>7. w <= 32767 /\ -126 <= 100 * q - v /\ 100 * q - v <= 50 /\ (v % 100 = 0 => v = 100 * q)
    BY <1>3, <1>5, <1>6, VoltsQS1, SMT
  <1>8. PICK d \in Nat : d = w /\ readBE(Bytes(w, 2)) = d
    BY <1>5, <1>7, Read2, SMT
  <1>9. Back("QS1", c, w) = 100 * q
    <2>1. readBE(Bytes(w, qs1ReadPages[c].width)) = d
      BY <1>1, <1>8
    <2>2. FromWire("QS1", "volt", d) = 100 * q
      BY <1>8, <1>6, SMT DEF FromWire
    <2>3. QED
      BY <1>1, <2>1, <2>2 DEF Back, ReadTable
  <1>10. CodeTolerance(c) \in Nat /\ 6 <= CodeTolerance(c) /\ (c = "DA" => CodeTolerance(c) = 200)
    BY <1>1, Tolerated
  <1>11. qs1ReadPages[c] = ReadTable("QS1")[c]
    BY DEF ReadTable
  <1>12. QED
    BY <1>1, <1>3, <1>5, <1>6, <1>8, <1>7, <1>9, <1>10, <1>11, SMT DEF Kept, Legible, ReadSaneMax

\* The average of a QS1.
LEMMA AverageKeptQS1 ==
    ASSUME NEW c \in Averages, NEW v \in NativeEnvelope(UnitOf(c)), NEW w \in ToWire(qs1Params[c].scale, v)
    PROVE  Kept("QS1", c, v, w)
  <1>1. /\ UnitOf(c) = "V" /\ qs1Params[c].scale = "v31968" /\ c = "AB"
        /\ qs1ReadPages[c].scale = "voltAvg" /\ qs1ReadPages[c].width = 3
    BY DEF Averages, UnitOf, qs1Params, qs1ReadPages, WField, RField
  <1>2. v \in NativeEnvelope("V")
    BY <1>1
  <1>3. v \in Nat /\ 10000 <= v /\ v <= 60000
    BY <1>2, VoltRange
  <1>4. ToWire("v31968", v) = Trunc(v * 3996, 125)
    BY SMT DEF ToWire
  <1>5. w \in Nat /\ 125 * w <= 3996 * v /\ 3996 * v <= 125 * w + 125
    BY <1>1, <1>3, <1>4, Truncated, SMT
  <1>6. PICK u \in Int : u = w \div 600 /\ 600 * u <= w /\ w < 600 * u + 600
    BY <1>5, SMT
  <1>7. PICK q \in Int : /\ q = ((w \div 600) * 20000 + 53260) \div 106520
                         /\ 106520 * q <= 20000 * u + 53260 /\ 20000 * u + 53260 < 106520 * q + 106520
    BY <1>5, <1>6, SMT
  <1>8. w <= 16777215 /\ -126 <= 100 * q - v /\ 100 * q - v <= 72 /\ (v % 100 = 0 => v = 100 * q)
    BY <1>3, <1>5, <1>6, <1>7, AverageQS1, SMT
  <1>9. PICK d \in Nat : d = w /\ readBE(Bytes(w, 3)) = d
    BY <1>5, <1>8, Read3, SMT
  <1>10. Back("QS1", c, w) = 100 * q
    <2>1. readBE(Bytes(w, qs1ReadPages[c].width)) = d
      BY <1>1, <1>9
    <2>2. FromWire("QS1", "voltAvg", d) = 100 * q
      BY <1>9, <1>7, SMT DEF FromWire
    <2>3. QED
      BY <1>1, <2>1, <2>2 DEF Back, ReadTable
  <1>11. CodeTolerance(c) \in Nat /\ 6 <= CodeTolerance(c) /\ (c = "DA" => CodeTolerance(c) = 200)
    BY <1>1, Tolerated
  <1>12. qs1ReadPages[c] = ReadTable("QS1")[c]
    BY DEF ReadTable
  <1>13. QED
    BY <1>1, <1>3, <1>5, <1>7, <1>9, <1>8, <1>10, <1>11, <1>12, SMT DEF Kept, Legible, ReadSaneMax

\* Every frequency of a DS3.
LEMMA HertzKeptDS3 ==
    ASSUME NEW c \in Hertz, NEW v \in NativeEnvelope(UnitOf(c)), NEW w \in ToWire(ds3ProtParams[c].scale, v)
    PROVE  Kept("DS3", c, v, w)
  <1>1. /\ UnitOf(c) = "Hz" /\ ds3ProtParams[c].scale = "hz100"
        /\ ds3ReadPages[c].scale = "freq" /\ ds3ReadPages[c].width = 2
    BY DEF Hertz, UnitOf, ds3ProtParams, ds3ReadPages, WField, RField
  <1>2. v \in NativeEnvelope("Hz")
    BY <1>1
  <1>3. v \in Nat /\ 4000 <= v /\ v <= 7000
    BY <1>2, HertzRange
  <1>4. ToWire("hz100", v) = Trunc(v, 1)
    BY SMT DEF ToWire
  <1>5. w \in Nat /\ w <= v /\ v <= w + 1
    BY <1>1, <1>3, <1>4, Truncated, SMT
  <1>6. PICK q \in Int : q = w
    BY <1>5
  <1>7. w <= 7000
    BY <1>3, <1>5, SMT
  <1>8. PICK d \in Int : d = w /\ readBE(Bytes(w, 2)) = d
    BY <1>5, <1>7, Read2, SMT
  <1>9. Back("DS3", c, w) = q
    <2>1. readBE(Bytes(w, ds3ReadPages[c].width)) = d
      BY <1>1, <1>8
    <2>2. FromWire("DS3", "freq", d) = q
      BY <1>8, <1>6, SMT DEF FromWire, Frequency
    <2>3. QED
      BY <1>1, <2>1, <2>2 DEF Back, ReadTable
  <1>10. CodeTolerance(c) \in Nat /\ 6 <= CodeTolerance(c) /\ (c = "DA" => CodeTolerance(c) = 200)
    BY <1>1, Tolerated
  <1>11. ds3ReadPages[c] = ReadTable("DS3")[c]
    BY DEF ReadTable
  <1>12. QED
    BY <1>1, <1>3, <1>5, <1>6, <1>8, <1>7, <1>9, <1>10, <1>11, SMT DEF Kept, Legible, ReadSaneMax

\* Times of a DS3 that are read as two bytes, and signed.
LEMMA ShortsKeptDS3 ==
    ASSUME NEW c \in Shorts, NEW v \in NativeEnvelope(UnitOf(c)), NEW w \in ToWire(ds3ProtParams[c].scale, v),
           FitsWidth(w, Width(ds3ProtParams[c].via))
    PROVE  Kept("DS3", c, v, w)
  <1>1. /\ UnitOf(c) = "s" /\ ds3ProtParams[c].scale = "s100" /\ Width(ds3ProtParams[c].via) = 2
        /\ ds3ReadPages[c].scale = "sec" /\ ds3ReadPages[c].width = 2
    BY DEF Shorts, UnitOf, ds3ProtParams, ds3ReadPages, WField, RField, Width
  <1>2. v \in NativeEnvelope("s")
    BY <1>1
  <1>3. v \in Nat /\ 1 <= v /\ v <= 100000
    BY <1>2, SecondRange
  <1>4. w <= 65535
    BY <1>1, SMT DEF FitsWidth
  <1>5. ToWire("s100", v) = Trunc(v, 1)
    BY SMT DEF ToWire
  <1>6. w \in Nat /\ 1 * w <= v /\ v <= 1 * w + 1
    BY <1>1, <1>3, <1>5, Truncated, SMT
  <1>7. PICK d \in Int : d = (IF w >= 32768 THEN w - 65536 ELSE w) /\ readBE(Bytes(w, 2)) = d
    BY <1>4, <1>6, Read2, SMT
  <1>8. PICK q \in Int : q = d
    BY <1>7
  <1>9. w <= 65535
    BY <1>4
  <1>10. Back("DS3", c, w) = q
    <2>1. readBE(Bytes(w, ds3ReadPages[c].width)) = d
      BY <1>1, <1>7
    <2>2. FromWire("DS3", "sec", d) = q
      BY <1>7, <1>8, SMT DEF FromWire
    <2>3. QED
      BY <1>1, <2>1, <2>2 DEF Back, ReadTable
  <1>11. CodeTolerance(c) \in Nat /\ 6 <= CodeTolerance(c) /\ (c = "DA" => CodeTolerance(c) = 200)
    BY <1>1, Tolerated
  <1>12. ds3ReadPages[c] = ReadTable("DS3")[c]
    BY DEF ReadTable
  <1>13. QED
    BY <1>1, <1>3, <1>6, <1>8, <1>7, <1>9, <1>10, <1>11, <1>12, SMT DEF Kept, Legible, ReadSaneMax

\* Times of a DS3 that are written as two bytes and read as three.
LEMMA LongsKeptDS3 ==
    ASSUME NEW c \in Longs, NEW v \in NativeEnvelope(UnitOf(c)), NEW w \in ToWire(ds3ProtParams[c].scale, v),
           FitsWidth(w, Width(ds3ProtParams[c].via))
    PROVE  Kept("DS3", c, v, w)
  <1>1. /\ UnitOf(c) = "s" /\ ds3ProtParams[c].scale = "s100" /\ Width(ds3ProtParams[c].via) = 2
        /\ ds3ReadPages[c].scale = "sec" /\ ds3ReadPages[c].width = 3
    BY DEF Longs, UnitOf, ds3ProtParams, ds3ReadPages, WField, RField, Width
  <1>2. v \in NativeEnvelope("s")
    BY <1>1
  <1>3. v \in Nat /\ 1 <= v /\ v <= 100000
    BY <1>2, SecondRange
  <1>4. w <= 65535
    BY <1>1, SMT DEF FitsWidth
  <1>5. ToWire("s100", v) = Trunc(v, 1)
    BY SMT DEF ToWire
  <1>6. w \in Nat /\ 1 * w <= v /\ v <= 1 * w + 1
    BY <1>1, <1>3, <1>5, Truncated, SMT
  <1>7. PICK d \in Int : d = w /\ readBE(Bytes(w, 3)) = d
    BY <1>4, <1>6, Read3, SMT
  <1>8. PICK q \in Int : q = d
    BY <1>7
  <1>9. w <= 65535
    BY <1>4
  <1>10. Back("DS3", c, w) = q
    <2>1. readBE(Bytes(w, ds3ReadPages[c].width)) = d
      BY <1>1, <1>7
    <2>2. FromWire("DS3", "sec", d) = q
      BY <1>7, <1>8, SMT DEF FromWire
    <2>3. QED
      BY <1>1, <2>1, <2>2 DEF Back, ReadTable
  <1>11. CodeTolerance(c) \in Nat /\ 6 <= CodeTolerance(c) /\ (c = "DA" => CodeTolerance(c) = 200)
    BY <1>1, Tolerated
  <1>12. ds3ReadPages[c] = ReadTable("DS3")[c]
    BY DEF ReadTable
  <1>13. QED
    BY <1>1, <1>3, <1>6, <1>8, <1>7, <1>9, <1>10, <1>11, <1>12, SMT DEF Kept, Legible, ReadSaneMax

\* The reconnect time of a DS3, in cycles of the grid.
LEMMA CyclesKeptDS3 ==
    ASSUME NEW c \in Cycles, NEW v \in NativeEnvelope(UnitOf(c)), NEW w \in ToWire(ds3ProtParams[c].scale, v),
           FitsWidth(w, Width(ds3ProtParams[c].via))
    PROVE  Kept("DS3", c, v, w)
  <1>1. /\ UnitOf(c) = "s" /\ ds3ProtParams[c].scale = "s50" /\ Width(ds3ProtParams[c].via) = 2
        /\ c = "AG"
        /\ ds3ReadPages[c].scale = "cycles" /\ ds3ReadPages[c].width = 2
    BY DEF Cycles, UnitOf, ds3ProtParams, ds3ReadPages, WField, RField, Width
  <1>2. v \in NativeEnvelope("s")
    BY <1>1
  <1>3. v \in Nat /\ 1 <= v /\ v <= 100000
    BY <1>2, SecondRange
  <1>4. w <= 65535
    BY <1>1, SMT DEF FitsWidth
  <1>5. ToWire("s50", v) = Trunc(v, 2)
    BY SMT DEF ToWire
  <1>6. w \in Nat /\ 2 * w <= v /\ v <= 2 * w + 2
    BY <1>1, <1>3, <1>5, Truncated, SMT
  <1>7. PICK d \in Int : d = (IF w >= 32768 THEN w - 65536 ELSE w) /\ readBE(Bytes(w, 2)) = d
    BY <1>4, <1>6, Read2, SMT
  <1>8. PICK q \in Int : q = d * 2
    BY <1>7
  <1>9. w <= 65535
    BY <1>4
  <1>10. Back("DS3", c, w) = q
    <2>1. readBE(Bytes(w, ds3ReadPages[c].width)) = d
      BY <1>1, <1>7
    <2>2. FromWire("DS3", "cycles", d) = q
      BY <1>7, <1>8, SMT DEF FromWire
    <2>3. QED
      BY <1>1, <2>1, <2>2 DEF Back, ReadTable
  <1>11. CodeTolerance(c) \in Nat /\ 6 <= CodeTolerance(c) /\ (c = "DA" => CodeTolerance(c) = 200)
    BY <1>1, Tolerated
  <1>12. ds3ReadPages[c] = ReadTable("DS3")[c]
    BY DEF ReadTable
  <1>13. QED
    BY <1>1, <1>3, <1>6, <1>8, <1>7, <1>9, <1>10, <1>11, <1>12, SMT DEF Kept, Legible, ReadSaneMax

\* Times of a QS1.
LEMMA SecondsKeptQS1 ==
    ASSUME NEW c \in Seconds, NEW v \in NativeEnvelope(UnitOf(c)), NEW w \in ToWire(qs1Params[c].scale, v),
           FitsWidth(w, Width(qs1Params[c].via))
    PROVE  Kept("QS1", c, v, w)
  <1>1. /\ UnitOf(c) = "s" /\ qs1Params[c].scale = "s100" /\ Width(qs1Params[c].via) = 2
        /\ qs1ReadPages[c].scale = "sec" /\ qs1ReadPages[c].width = 2
    BY DEF Seconds, UnitOf, qs1Params, qs1ReadPages, WField, RField, Width
  <1>2. v \in NativeEnvelope("s")
    BY <1>1
  <1>3. v \in Nat /\ 1 <= v /\ v <= 100000
    BY <1>2, SecondRange
  <1>4. w <= 65535
    BY <1>1, SMT DEF FitsWidth
  <1>5. ToWire("s100", v) = Trunc(v, 1)
    BY SMT DEF ToWire
  <1>6. w \in Nat /\ 1 * w <= v /\ v <= 1 * w + 1
    BY <1>1, <1>3, <1>5, Truncated, SMT
  <1>7. PICK d \in Int : d = (IF w >= 32768 THEN w - 65536 ELSE w) /\ readBE(Bytes(w, 2)) = d
    BY <1>4, <1>6, Read2, SMT
  <1>8. PICK q \in Int : q = d
    BY <1>7
  <1>9. w <= 65535
    BY <1>4
  <1>10. Back("QS1", c, w) = q
    <2>1. readBE(Bytes(w, qs1ReadPages[c].width)) = d
      BY <1>1, <1>7
    <2>2. FromWire("QS1", "sec", d) = q
      BY <1>7, <1>8, SMT DEF FromWire
    <2>3. QED
      BY <1>1, <2>1, <2>2 DEF Back, ReadTable
  <1>11. CodeTolerance(c) \in Nat /\ 6 <= CodeTolerance(c) /\ (c = "DA" => CodeTolerance(c) = 200)
    BY <1>1, Tolerated
  <1>12. qs1ReadPages[c] = ReadTable("QS1")[c]
    BY DEF ReadTable
  <1>13. QED
    BY <1>1, <1>3, <1>6, <1>8, <1>7, <1>9, <1>10, <1>11, <1>12, SMT DEF Kept, Legible, ReadSaneMax

\* The power cap of a DS3.
LEMMA WattsKeptDS3 ==
    ASSUME NEW c \in Powers, NEW v \in NativeEnvelope(UnitOf(c)), NEW w \in ToWire(ds3ProtParams[c].scale, v)
    PROVE  Kept("DS3", c, v, w)
  <1>1. /\ UnitOf(c) = "W" /\ ds3ProtParams[c].scale = "w6027" /\ c = "DA"
        /\ ds3ReadPages[c].scale = "watt" /\ ds3ReadPages[c].width = 2
    BY DEF Powers, UnitOf, ds3ProtParams, ds3ReadPages, WField, RField
  <1>2. v \in NativeEnvelope("W")
    BY <1>1
  <1>3. v \in Nat /\ 2000 <= v /\ v <= 50000
    BY <1>2, WattRange
  <1>4. ToWire("w6027", v) = {(v * 2000 + 6027) \div 12054}
    BY SMT DEF ToWire
  <1>5. w \in Int /\ 12054 * w <= 2000 * v + 6027 /\ 2000 * v + 6027 < 12054 * w + 12054
    BY <1>1, <1>3, <1>4, SMT
  <1>6. PICK q \in Int : q = (w * 6027) \div 1000 /\ 1000 * q <= w * 6027 /\ w * 6027 < 1000 * q + 1000
    BY <1>5, SMT
  <1>7. 0 <= w /\ w <= 32767 /\ -200 <= q - v /\ q - v <= 200
    BY <1>3, <1>5, <1>6, PowerDS3, SMT
  <1>8. PICK d \in Nat : d = w /\ readBE(Bytes(w, 2)) = d
    BY <1>5, <1>7, Read2, SMT
  <1>9. Back("DS3", c, w) = q
    <2>1. readBE(Bytes(w, ds3ReadPages[c].width)) = d
      BY <1>1, <1>8
    <2>2. FromWire("DS3", "watt", d) = q
      BY <1>8, <1>6, SMT DEF FromWire, MaxPower
    <2>3. QED
      BY <1>1, <2>1, <2>2 DEF Back, ReadTable
  <1>10. CodeTolerance(c) \in Nat /\ 6 <= CodeTolerance(c) /\ (c = "DA" => CodeTolerance(c) = 200)
    BY <1>1, Tolerated
  <1>11. ds3ReadPages[c] = ReadTable("DS3")[c]
    BY DEF ReadTable
  <1>12. QED
    BY <1>1, <1>3, <1>5, <1>6, <1>8, <1>7, <1>9, <1>10, <1>11, SMT DEF Kept, Legible, ReadSaneMax

\* The power cap of a QS1.
LEMMA WattsKeptQS1 ==
    ASSUME NEW c \in Powers, NEW v \in NativeEnvelope(UnitOf(c)), NEW w \in ToWire(qs1Params[c].scale, v)
    PROVE  Kept("QS1", c, v, w)
  <1>1. /\ UnitOf(c) = "W" /\ qs1Params[c].scale = "w7395" /\ c = "DA"
        /\ qs1ReadPages[c].scale = "watt" /\ qs1ReadPages[c].width = 2
    BY DEF Powers, UnitOf, qs1Params, qs1ReadPages, WField, RField
  <1>2. v \in NativeEnvelope("W")
    BY <1>1
  <1>3. v \in Nat /\ 2000 <= v /\ v <= 50000
    BY <1>2, WattRange
  <1>4. ToWire("w7395", v) = {((v \div 100) * 7395) \div 256}
    BY SMT DEF ToWire
  <1>5. PICK k \in Int : k = v \div 100 /\ 100 * k <= v /\ v < 100 * k + 100
    BY <1>3, SMT
  <1>6. w \in Int /\ 256 * w <= k * 7395 /\ k * 7395 < 256 * w + 256
    BY <1>1, <1>3, <1>4, <1>5, SMT
  <1>7. PICK q \in Int : q = (w * 25600) \div 7395 /\ 7395 * q <= w * 25600 /\ w * 25600 < 7395 * q + 7395
    BY <1>6, SMT
  <1>8. 0 <= w /\ w <= 32767 /\ -200 <= q - v /\ q - v <= 200
    BY <1>3, <1>5, <1>6, <1>7, PowerQS1, SMT
  <1>9. PICK d \in Nat : d = w /\ readBE(Bytes(w, 2)) = d
    BY <1>6, <1>8, Read2, SMT
  <1>10. Back("QS1", c, w) = q
    <2>1. readBE(Bytes(w, qs1ReadPages[c].width)) = d
      BY <1>1, <1>9
    <2>2. FromWire("QS1", "watt", d) = q
      BY <1>9, <1>7, SMT DEF FromWire, MaxPower
    <2>3. QED
      BY <1>1, <2>1, <2>2 DEF Back, ReadTable
  <1>11. CodeTolerance(c) \in Nat /\ 6 <= CodeTolerance(c) /\ (c = "DA" => CodeTolerance(c) = 200)
    BY <1>1, Tolerated
  <1>12. qs1ReadPages[c] = ReadTable("QS1")[c]
    BY DEF ReadTable
  <1>13. QED
    BY <1>1, <1>3, <1>6, <1>7, <1>9, <1>8, <1>10, <1>11, <1>12, SMT DEF Kept, Legible, ReadSaneMax

\* Frequencies of a QS1, which are written and read as periods.
LEMMA HertzKeptQS1 ==
    ASSUME NEW c \in Hertz, NEW v \in NativeEnvelope(UnitOf(c)), NEW w \in ToWire(qs1Params[c].scale, v)
    PROVE  Kept("QS1", c, v, w)
  <1>1. /\ UnitOf(c) = "Hz" /\ qs1Params[c].scale = "hzInv"
        /\ qs1ReadPages[c].scale = "freq" /\ qs1ReadPages[c].width = 3
    BY DEF Hertz, UnitOf, qs1Params, qs1ReadPages, WField, RField
  <1>2. v \in NativeEnvelope("Hz")
    BY <1>1
  <1>3. v \in Nat /\ 4000 <= v /\ v <= 7000
    BY <1>2, HertzRange
  <1>4. ToWire("hzInv", v) = {Period(v), Period(v) - 1}
    BY SMT DEF ToWire
  <1>5. w \in Nat /\ 0 < w /\ w <= 1250000 /\ Period(w) = v
    BY <1>1, <1>3, <1>4, PeriodOfPeriod, SMT
  <1>6. PICK q \in Int : q = v
    BY <1>3
  <1>7. w <= 1250000
    BY <1>5
  <1>8. PICK d \in Int : d = w /\ readBE(Bytes(w, 3)) = d /\ d # 0 /\ Period(d) = q
    BY <1>5, <1>6, Read3, SMT
  <1>9. Back("QS1", c, w) = q
    <2>1. readBE(Bytes(w, qs1ReadPages[c].width)) = d
      BY <1>1, <1>8
    <2>2. FromWire("QS1", "freq", d) = q
      BY <1>8, <1>6, SMT DEF FromWire, Frequency
    <2>3. QED
      BY <1>1, <2>1, <2>2 DEF Back, ReadTable
  <1>10. CodeTolerance(c) \in Nat /\ 6 <= CodeTolerance(c) /\ (c = "DA" => CodeTolerance(c) = 200)
    BY <1>1, Tolerated
  <1>11. qs1ReadPages[c] = ReadTable("QS1")[c]
    BY DEF ReadTable
  <1>12. QED
    BY <1>1, <1>3, <1>5, <1>6, <1>8, <1>7, <1>9, <1>10, <1>11, SMT DEF Kept, Legible, ReadSaneMax


-----------------------------------------------------------------------------
(* The codec: slopes and modes.                                            *)

\* Slopes.
LEMMA SlopeRange ==
    ASSUME NEW v \in NativeEnvelope("slope")
    PROVE  v \in Nat /\ 1 <= v /\ v <= 20000
  <1>1. PICK lo \in Int, hi \in Int : lo = 1 /\ hi = 20000
    BY SMT
  <1>2. NativeEnvelope("slope") = lo .. hi
    BY <1>1, SMT DEF NativeEnvelope
  <1>3. v \in Int /\ lo <= v /\ v <= hi
    BY <1>2, InRange
  <1>4. QED
    BY <1>1, <1>3, SMT

\* Modes.
LEMMA ModeRange ==
    ASSUME NEW v \in NativeEnvelope("mode")
    PROVE  v \in Nat /\ v > 0 /\ ModeOf(v) \in Nat
  <1>1. NativeEnvelope("mode") = Nat \ {0}
    BY SMT DEF NativeEnvelope
  <1>2. v \in Nat /\ v > 0
    BY <1>1, SMT
  <1>3. QED
    BY <1>2, SMT DEF ModeOf

\* A slope, what it is written as (w), what a DS3 keeps of that (k, or one more), and what is read of it.
LEMMA SlopeUnits ==
    ASSUME NEW v \in Nat, 1 <= v, v <= 20000, NEW w \in Nat, 625 * w <= 1023 * v, 1023 * v <= 625 * w + 625,
           NEW k \in Int, 2223 * k <= 50 * w, 50 * w < 2223 * k + 2223, NEW r \in Int, r = k \/ r = k + 1,
           NEW q \in Int, 1104449 * q <= 179877 * r, 179877 * r < 1104449 * q + 1104449
    PROVE  /\ 0 <= k /\ 0 <= r /\ r <= 32767
           /\ 0 <= 27 * r + q /\ 27 * r + q <= 200000 /\ -28 <= 27 * r + q - v /\ 27 * r + q - v <= 27
  <1>1. 0 <= k /\ 0 <= r /\ r <= 32767
    BY SMT
  <1>2. -28 <= 27 * r + q - v /\ 27 * r + q - v <= 27
    BY SMT
  <1>3. 0 <= 27 * r + q
    BY <1>1, SMT
  <1>4. QED
    BY <1>1, <1>2, <1>3, SMT

\* What a DS3 shows of its slope is off by up to a unit of its own (SlopeRegisters).
SlopeHeld(f, c, v, r) ==
    /\ Back(f, c, r) \in Int /\ 0 <= Back(f, c, r) /\ Back(f, c, r) <= ReadSaneMax
    /\ -28 <= Back(f, c, r) - v /\ Back(f, c, r) - v <= 27

\* Every slope of a DS3.
LEMMA SlopesHeldDS3 ==
    ASSUME NEW c \in Slopes, NEW v \in NativeEnvelope(UnitOf(c)), NEW w \in ToWire(ds3ProtParams[c].scale, v),
           NEW r \in SlopeRegisters(w)
    PROVE  SlopeHeld("DS3", c, v, r) /\ r \in Nat /\ r <= 32767
  <1>1. /\ UnitOf(c) = "slope" /\ ds3ProtParams[c].scale = "slope"
        /\ ds3ReadPages[c].scale = "droop" /\ ds3ReadPages[c].width = 2
    BY DEF Slopes, UnitOf, ds3ProtParams, ds3ReadPages, WField, RField
  <1>2. v \in NativeEnvelope("slope")
    BY <1>1
  <1>3. v \in Nat /\ 1 <= v /\ v <= 20000
    BY <1>2, SlopeRange
  <1>4. ToWire("slope", v) = Trunc(v * 1023, 625)
    BY SMT DEF ToWire
  <1>5. w \in Nat /\ 625 * w <= 1023 * v /\ 1023 * v <= 625 * w + 625
    BY <1>1, <1>3, <1>4, Truncated, SMT
  <1>6. PICK k \in Int : k = (w * 50) \div 2223 /\ 2223 * k <= 50 * w /\ 50 * w < 2223 * k + 2223
    BY <1>5, SMT
  <1>7. r \in Int /\ (r = k \/ r = k + 1)
    BY <1>6 DEF SlopeRegisters
  <1>8. PICK q \in Int : q = (r * 179877) \div 1104449 /\ 1104449 * q <= 179877 * r /\ 179877 * r < 1104449 * q + 1104449
    BY <1>7, SMT
  <1>9. /\ 0 <= k /\ 0 <= r /\ r <= 32767
        /\ 0 <= 27 * r + q /\ 27 * r + q <= 200000 /\ -28 <= 27 * r + q - v /\ 27 * r + q - v <= 27
    BY <1>3, <1>5, <1>6, <1>7, <1>8, SlopeUnits
  <1>10. PICK d \in Nat : d = r /\ readBE(Bytes(r, 2)) = d
    BY <1>7, <1>9, Read2, SMT
  <1>11. Back("DS3", c, r) = 27 * r + q
    <2>1. readBE(Bytes(r, ds3ReadPages[c].width)) = d
      BY <1>1, <1>10
    <2>2. FromWire("DS3", "droop", d) = 27 * r + q
      BY <1>10, <1>8, SMT DEF FromWire, Droop
    <2>3. QED
      BY <1>1, <2>1, <2>2 DEF Back, ReadTable
  <1>12. QED
    BY <1>3, <1>7, <1>8, <1>9, <1>11, SMT DEF SlopeHeld, ReadSaneMax

\* One byte is read as it was written.
LEMMA Read1 ==
    ASSUME NEW w \in Nat, w <= 255
    PROVE  readBE(Bytes(w, 1)) = w
  <1>1. w % 256 = w
    BY SMT
  <1>2. Bytes(w, 1) = <<w>>
    BY <1>1, SMT DEF Bytes
  <1>3. BigEndian(<<w>>) = w /\ Len(<<w>>) = 1
    BY SMT DEF BigEndian
  <1>4. QED
    BY <1>2, <1>3, SMT DEF readBE

\* Every mode of a DS3 is read as its curve.
LEMMA ModesHeldDS3 ==
    ASSUME NEW c \in Modes, NEW v \in NativeEnvelope(UnitOf(c)), NEW w \in ToWire(ds3ProtParams[c].scale, v)
    PROVE  Back("DS3", c, w) = 100 * ModeClass(ModeOf(v)) /\ w \in Nat
  <1>1. /\ UnitOf(c) = "mode" /\ ds3ProtParams[c].scale = "mode"
        /\ ds3ReadPages[c].scale = "mode" /\ ds3ReadPages[c].width = 1
    BY DEF Modes, UnitOf, ds3ProtParams, ds3ReadPages, WField, RField
  <1>2. PICK m : m = ModeOf(v) /\ m \in Nat
    BY <1>1, ModeRange
  <1>3. ToWire("mode", v) = {ds3ModeEnum(m)}
    BY <1>2, SMT DEF ToWire
  <1>4. w = ds3ModeEnum(m)
    BY <1>1, <1>3
  <1>5. w \in Nat /\ w <= 255 /\ dsMode(w) = 100 * ModeClass(m)
    BY <1>2, <1>4, SMT DEF ds3ModeEnum, dsMode, ModeClass
  <1>6. readBE(Bytes(w, ds3ReadPages[c].width)) = w
    BY <1>1, <1>5, Read1
  <1>7. FromWire("DS3", "mode", w) = dsMode(w)
    BY SMT DEF FromWire
  <1>8. QED
    BY <1>1, <1>2, <1>5, <1>6, <1>7 DEF Back, ReadTable

\* The numbers of the modes a profile and SunSpec use.
KnownModes == {3, 4, 13, 14, 15}

\* What a QS1 keeps of a mode (qs1ModeFrames, qsModeFromPageB): its curve above, its number below.
ModeHeld(v, b) ==
    /\ b \in Nat /\ b <= 255 /\ ((b \div 16) % 4) + 12 = ModeClass(ModeOf(v))
    /\ ModeOf(v) \in KnownModes => b % 16 = ModeNumber(ModeOf(v))

\* The frames of a mode, by their commands and values.
LEMMA FramesOfModes ==
    ASSUME NEW m \in Nat, m <= 255
    PROVE  \E n \in {2, 3}, x \in Nat, y \in Nat :
              /\ DOMAIN qs1ModeFrames(m) = 1 .. n
              /\ qs1ModeFrames(m)[1] = ModeFrame(95, x) /\ qs1ModeFrames(m)[2] = ModeFrame(95, y)
              /\ n = 3 => \E z \in {0, 1} : qs1ModeFrames(m)[3] = ModeFrame(153, z)
              /\ x \in {16, 32, 48} /\ (x \div 16) + 12 = ModeClass(m) /\ y <= 255
              /\ m \in KnownModes => y = ModeNumber(m)
  <1>1. CASE m = 15
    <2>1. qs1ModeFrames(m) = << ModeFrame(95, 48), ModeFrame(95, 15), ModeFrame(153, 0) >>
      BY <1>1, SMT DEF qs1ModeFrames
    <2>2. /\ DOMAIN qs1ModeFrames(m) = 1 .. 3
          /\ qs1ModeFrames(m)[1] = ModeFrame(95, 48) /\ qs1ModeFrames(m)[2] = ModeFrame(95, 15)
          /\ qs1ModeFrames(m)[3] = ModeFrame(153, 0)
      BY <2>1
    <2>3. (48 \div 16) + 12 = ModeClass(m) /\ (m \in KnownModes => 15 = ModeNumber(m))
      BY <1>1, SMT DEF ModeClass, ModeNumber
    <2>4. QED
      BY <2>2, <2>3
  <1>2. CASE m \in {3, 4, 13}
    <2>1. PICK y \in Nat : y = IF m = 13 THEN 4 ELSE m
      OBVIOUS
    <2>2. qs1ModeFrames(m) = << ModeFrame(95, 16), ModeFrame(95, y), ModeFrame(153, 1) >>
      BY <1>2, <2>1, SMT DEF qs1ModeFrames
    <2>3. /\ DOMAIN qs1ModeFrames(m) = 1 .. 3
          /\ qs1ModeFrames(m)[1] = ModeFrame(95, 16) /\ qs1ModeFrames(m)[2] = ModeFrame(95, y)
          /\ qs1ModeFrames(m)[3] = ModeFrame(153, 1)
      BY <2>2
    <2>4. (16 \div 16) + 12 = ModeClass(m) /\ y = ModeNumber(m) /\ y <= 255
      BY <1>2, <2>1, SMT DEF ModeClass, ModeNumber
    <2>5. QED
      BY <2>1, <2>3, <2>4
  <1>3. CASE m # 15 /\ m \notin {3, 4, 13}
    <2>1. PICK y \in Nat : y = IF m = 14 THEN 1 ELSE m
      OBVIOUS
    <2>2. qs1ModeFrames(m) = << ModeFrame(95, 32), ModeFrame(95, y) >>
      BY <1>3, <2>1, SMT DEF qs1ModeFrames
    <2>3. /\ DOMAIN qs1ModeFrames(m) = 1 .. 2
          /\ qs1ModeFrames(m)[1] = ModeFrame(95, 32) /\ qs1ModeFrames(m)[2] = ModeFrame(95, y)
      BY <2>2
    <2>4. (32 \div 16) + 12 = ModeClass(m) /\ (m \in KnownModes => y = ModeNumber(m)) /\ y <= 255
      BY <1>3, <2>1, SMT DEF ModeClass, ModeNumber, KnownModes
    <2>5. 2 \in {2, 3} /\ 2 # 3 /\ 32 \in Nat /\ 32 \in {16, 32, 48}
      BY SMT
    <2>6. QED
      BY <2>1, <2>3, <2>4, <2>5
  <1>4. QED
    BY <1>1, <1>2, <1>3

\* A QS1 that took some of the frames shows a byte, and one that took all of them the mode.
LEMMA ModesHeldQS1 ==
    ASSUME NEW v \in NativeEnvelope("mode"), ModeOf(v) <= 255, NEW old \in Nat, old <= 255,
           NEW frames, frames = qs1ModeFrames(ModeOf(v)), NEW taken \in SUBSET DOMAIN frames
    PROVE  LET b == ModeByte(old, frames, taken)
           IN  b \in Nat /\ b <= 255 /\ (taken = DOMAIN frames => ModeHeld(v, b))
  <1>1. PICK m \in Nat : m = ModeOf(v) /\ m <= 255 /\ frames = qs1ModeFrames(m)
    BY ModeRange
  <1>2. PICK n \in {2, 3}, x \in Nat, y \in Nat :
              /\ DOMAIN frames = 1 .. n /\ frames[1] = ModeFrame(95, x) /\ frames[2] = ModeFrame(95, y)
              /\ x \in {16, 32, 48} /\ (x \div 16) + 12 = ModeClass(m) /\ y <= 255
              /\ m \in KnownModes => y = ModeNumber(m)
    BY <1>1, FramesOfModes
  <1>3. frames[1][4] = x /\ frames[2][4] = y
    BY <1>2, SMT DEF ModeFrame
  <1>4. PICK h \in Nat, l \in Nat :
           /\ h = (IF 1 \in taken THEN x ELSE 16 * (old \div 16)) /\ l = IF 2 \in taken THEN y % 16 ELSE old % 16
           /\ h <= 240 /\ l <= 15
    BY <1>2, SMT
  <1>5. ModeByte(old, frames, taken) = h + l
    BY <1>3, <1>4 DEF ModeByte
  <1>6. ASSUME taken = DOMAIN frames
        PROVE  ModeHeld(v, h + l)
    <2>1. 1 \in taken /\ 2 \in taken
      BY <1>2, <1>6, SMT
    <2>2. h = x /\ l = y % 16
      BY <1>4, <2>1
    <2>3. (h + l) \div 16 = x \div 16 /\ (h + l) % 16 = l /\ (x \div 16) % 4 = x \div 16
      BY <1>2, <1>4, <2>2, SMT
    <2>4. ASSUME m \in KnownModes
          PROVE  l = ModeNumber(m)
      <3>1. ModeNumber(m) \in 0 .. 15
        BY <2>4, SMT DEF KnownModes, ModeNumber
      <3>2. y = ModeNumber(m) /\ y \in 0 .. 15
        BY <1>2, <2>4, <3>1
      <3>3. y % 16 = y
        BY <3>2, SMT
      <3>4. QED
        BY <2>2, <3>2, <3>3
    <2>5. h + l \in Nat /\ h + l <= 255
      BY <1>4, SMT
    <2>6. QED
      BY <1>1, <1>2, <2>3, <2>4, <2>5 DEF ModeHeld
  <1>7. h + l \in Nat /\ h + l <= 255
    BY <1>4, SMT
  <1>8. QED
    BY <1>5, <1>6, <1>7
-----------------------------------------------------------------------------
(* The codec: frames.                                                      *)

\* What FrameRecognised asks of a frame.
Recognised(fr, c, cast) ==
    /\ ~cast => /\ IsSetPower(fr) = (c = "DA")
                /\ IsProtectionWrite(fr) = (c # "DA")
    /\ DispatchFrame(fr, cast)

\* The codes of a QS1 by the builder of their frame.
Wides == {"CB", "CC", "DH", "DI", "BQ", "BP", "AB", "CA"}
Narrows == {"AI", "AH", "BB", "BC", "BD", "BE", "BH", "BI", "BJ", "BK"}
OldNarrows == {"AQ", "AD", "AC", "AY", "AG"}
OldWides == {"AJ", "AK", "AE", "AF"}

\* The codes both families write and read, by one scale each.
Scaled == Powers \cup Averages \cup Volts \cup Hertz \cup Seconds

\* The codes of every table.
LEMMA CodesSorted ==
    /\ Seconds = Shorts \cup Longs \cup Cycles
    /\ DOMAIN ds3ProtParams = Scaled \cup {"DD", "CG", "CV"}
    /\ DOMAIN qs1Params = Scaled \cup {"CA", "CV"}
    /\ DOMAIN qs1Params = Powers \cup Wides \cup Narrows \cup OldNarrows \cup OldWides \cup Modes
    /\ DOMAIN ds3ReadPages = Scaled \cup {"CV", "DC", "DD"}
    /\ DOMAIN qs1ReadPages = Scaled \cup {"CV", "DC", "DD"}
  <1>1. Seconds = Shorts \cup Longs \cup Cycles
    BY DEF Seconds, Shorts, Longs, Cycles
  <1>2. DOMAIN ds3ProtParams = Scaled \cup {"DD", "CG", "CV"}
    BY DEF ds3ProtParams, Scaled, Powers, Averages, Volts, Hertz, Seconds
  <1>3. DOMAIN qs1Params = Scaled \cup {"CA", "CV"}
    BY DEF qs1Params, Scaled, Powers, Averages, Volts, Hertz, Seconds
  <1>4. DOMAIN qs1Params = Powers \cup Wides \cup Narrows \cup OldNarrows \cup OldWides \cup Modes
    BY DEF qs1Params, Powers, Wides, Narrows, OldNarrows, OldWides, Modes
  <1>5. DOMAIN ds3ReadPages = Scaled \cup {"CV", "DC", "DD"}
    BY DEF ds3ReadPages, Scaled, Powers, Averages, Volts, Hertz, Seconds
  <1>6. DOMAIN qs1ReadPages = Scaled \cup {"CV", "DC", "DD"}
    BY DEF qs1ReadPages, Scaled, Powers, Averages, Volts, Hertz, Seconds
  <1>7. QED
    BY <1>1, <1>2, <1>3, <1>4, <1>5, <1>6

\* What fits three bytes.
LEMMA Fits3 ==
    ASSUME NEW x, FitsWidth(x, 3)
    PROVE  x \in Nat /\ x <= 16777215
  BY SMT DEF FitsWidth

\* What fits two.
LEMMA Fits2 ==
    ASSUME NEW x, FitsWidth(x, 2)
    PROVE  x \in Nat /\ x <= 65535
  BY SMT DEF FitsWidth

\* The inverter takes from two bytes what was put into them.
LEMMA OneRegister ==
    ASSUME NEW x, FitsWidth(x, 2), NEW a, NEW b, <<a, b>> = Bytes(x, 2)
    PROVE  BigEndian(<<a, b>>) = x
  <1>1. x \in Nat /\ x <= 65535
    BY Fits2, SMT
  <1>2. PICK p \in Nat, q \in Nat : p = (x \div 256) % 256 /\ q = x % 256 /\ p * 256 + q = x
    BY <1>1, Low, SMT
  <1>3. Bytes(x, 2) = <<p, q>>
    BY <1>2, Bytes2, SMT
  <1>4. BigEndian(<<p, q>>) = x
    BY <1>2, BE2, SMT
  <1>5. QED
    BY <1>3, <1>4

\* And from three.
LEMMA WideRegister ==
    ASSUME NEW x, FitsWidth(x, 3), NEW a, NEW b, NEW d, <<a, b, d>> = Bytes(x, 3)
    PROVE  BigEndian(<<a, b, d>>) = x
  <1>1. x \in Nat /\ x <= 16777215
    BY Fits3, SMT
  <1>2. PICK h \in Nat, p \in Nat, q \in Nat :
           h = (x \div 65536) % 256 /\ p = (x \div 256) % 256 /\ q = x % 256 /\ h * 65536 + p * 256 + q = x
    BY <1>1, Low3, SMT
  <1>3. Bytes(x, 3) = <<h, p, q>>
    BY <1>2, Bytes3, SMT
  <1>4. BigEndian(<<h, p, q>>) = h * 65536 + p * 256 + q
    BY BE3
  <1>5. BigEndian(<<h, p, q>>) = x
    BY <1>2, <1>4, SMT
  <1>6. QED
    BY <1>3, <1>5

\* There are two bytes.
LEMMA TwoBytes ==
    ASSUME NEW x
    PROVE  \E a, b : Bytes(x, 2) = <<a, b>>
  BY Bytes2

\* There are three bytes.
LEMMA ThreeBytes ==
    ASSUME NEW x
    PROVE  \E a, b, d : Bytes(x, 3) = <<a, b, d>>
  BY Bytes3

\* The commands of a broadcast (EncodeSetProtectionBroadcast).
Broadcasts == {171, 44}

\* A frame to one DS3 is a power setting by its second byte, and a protection write otherwise.
LEMMA RecognisedByHead ==
    ASSUME NEW fr, NEW c, NEW cast, ~cast, fr[1] = 170, fr[2] = 39 <=> c = "DA"
    PROVE  Recognised(fr, c, cast)
  <1>1. IsSetPower(fr) <=> fr[2] = 39
    BY SMT DEF IsSetPower
  <1>2. IsProtectionWrite(fr) <=> fr[2] # 39
    BY SMT DEF IsProtectionWrite, QS1YC600ProtCmds
  <1>3. DispatchFrame(fr, cast)
    BY SMT DEF DispatchFrame, allowedL2Cmds
  <1>4. IsSetPower(fr) = (c = "DA")
    BY <1>1, Zenon DEF IsSetPower
  <1>5. IsProtectionWrite(fr) = (c # "DA")
    BY <1>2, Zenon DEF IsProtectionWrite
  <1>6. QED
    BY <1>3, <1>4, <1>5, Zenon DEF Recognised

\* So is one of the shared opcode to a QS1.
LEMMA RecognisedByQS1Head ==
    ASSUME NEW fr, NEW c, NEW cast, ~cast, fr[1] = 28, fr[2] = 140 <=> c = "DA"
    PROVE  Recognised(fr, c, cast)
  <1>1. IsSetPower(fr) <=> fr[2] = 140
    BY SMT DEF IsSetPower
  <1>2. IsProtectionWrite(fr) <=> fr[2] # 140
    BY SMT DEF IsProtectionWrite, QS1YC600ProtCmds
  <1>3. DispatchFrame(fr, cast)
    BY SMT DEF DispatchFrame, allowedL2Cmds
  <1>4. IsSetPower(fr) = (c = "DA")
    BY <1>1, Zenon DEF IsSetPower
  <1>5. IsProtectionWrite(fr) = (c # "DA")
    BY <1>2, Zenon DEF IsProtectionWrite
  <1>6. QED
    BY <1>3, <1>4, <1>5, Zenon DEF Recognised

\* A broadcast is let through to the radio.
LEMMA BroadcastRecognised ==
    ASSUME NEW fr, NEW c, NEW cast, cast = TRUE, fr[1] \in Broadcasts
    PROVE  Recognised(fr, c, cast)
  BY SMT DEF Broadcasts, Recognised, DispatchFrame, QS1YC600ProtCmds, allowedL2Cmds

\* A frame that carries the parameter as its command is a protection write.
LEMMA RecognisedByCommand ==
    ASSUME NEW fr, NEW c, NEW cast, ~cast, fr[1] \in QS1YC600ProtCmds, c # "DA"
    PROVE  Recognised(fr, c, cast)
  <1>1. ~IsSetPower(fr)
    BY SMT DEF IsSetPower, QS1YC600ProtCmds
  <1>2. IsProtectionWrite(fr)
    BY DEF IsProtectionWrite
  <1>3. DispatchFrame(fr, cast)
    BY SMT DEF DispatchFrame, QS1YC600ProtCmds, allowedL2Cmds
  <1>4. IsSetPower(fr) = (c = "DA")
    BY <1>1, Zenon DEF IsSetPower
  <1>5. IsProtectionWrite(fr) = (c # "DA")
    BY <1>2, Zenon DEF IsProtectionWrite
  <1>6. QED
    BY <1>3, <1>4, <1>5, Zenon DEF Recognised

\* Every frame for a DS3: its length, the register in it, and what it is recognised as.
LEMMA FramesOfDS3 ==
    ASSUME NEW c \in DOMAIN ds3ProtParams, NEW x, FitsWidth(x, 2), NEW cast \in BOOLEAN
    PROVE  LET fr == L2Frame("DS3", c, x, cast)
           IN  /\ Len(fr) = 6 /\ Register("DS3", c, fr) = x /\ Recognised(fr, c, cast)
  <1>1. PICK a, b : Bytes(x, 2) = <<a, b>>
    BY TwoBytes
  <1>2. /\ ds3ProtParams[c].via = "ds3" \/ ds3ProtParams[c].via = "power"
        /\ Width(ds3ProtParams[c].via) = 2
        /\ (ds3ProtParams[c].sub = 39 <=> c = "DA")
    BY DEF ds3ProtParams, WField, Width
  <1>3. PICK s : s = ds3ProtParams[c].sub
    OBVIOUS
  <1>4. L2Frame("DS3", c, x, cast) = <<IF cast THEN 171 ELSE 170, s, 0, 0, a, b>>
    BY <1>1, <1>2, <1>3, SMT DEF L2Frame, WriteTable
  <1>5. PICK op : op = IF cast THEN 171 ELSE 170
    OBVIOUS
  <1>6. DEFINE fr == <<op, s, 0, 0, a, b>>
  <1>7. Len(fr) = 6 /\ fr[1] = op /\ fr[2] = s /\ fr[5] = a /\ fr[6] = b
    BY SMT
  <1>8. fr = L2Frame("DS3", c, x, cast)
    BY <1>4, <1>5
  <1> HIDE DEF fr
  <1>9. Register("DS3", c, fr) = BigEndian(<<a, b>>)
    BY <1>2, <1>7, SMT DEF Register, WriteTable
  <1>10. BigEndian(<<a, b>>) = x
    BY <1>1, OneRegister
  <1>11. Recognised(fr, c, cast)
    <2>1. CASE cast
      <3>1. fr[1] \in Broadcasts
        BY <1>5, <1>7, <2>1, SMT DEF Broadcasts
      <3>2. cast = TRUE
        BY <2>1
      <3>3. QED
        BY <3>1, <3>2, BroadcastRecognised, Zenon
    <2>2. CASE ~cast
      <3>1. fr[1] = 170
        BY <1>5, <1>7, <2>2, SMT
      <3>2. fr[2] = 39 <=> c = "DA"
        BY <1>2, <1>3, <1>7
      <3>3. QED
        BY <2>2, <3>1, <3>2, RecognisedByHead
    <2>3. QED
      BY <2>1, <2>2
  <1>12. QED
    BY <1>7, <1>9, <1>10, <1>11, <1>8

\* Frames of qs1NewOneBody with two bytes, and the power setting.
LEMMA NarrowFrames ==
    ASSUME NEW c \in Narrows \cup Powers, NEW x, FitsWidth(x, 2), NEW cast \in BOOLEAN
    PROVE  LET fr == L2Frame("QS1", c, x, cast)
           IN  /\ Len(fr) = 6 /\ Register("QS1", c, fr) = x /\ Recognised(fr, c, cast)
  <1>1. PICK a, b : Bytes(x, 2) = <<a, b>>
    BY TwoBytes
  <1>2. /\ qs1Params[c].via = "new2" \/ qs1Params[c].via = "power"
        /\ Width(qs1Params[c].via) = 2
        /\ (qs1Params[c].sub = 140 <=> c = "DA")
    BY DEF Narrows, Powers, qs1Params, WField, Width
  <1>3. PICK s : s = qs1Params[c].sub
    OBVIOUS
  <1>4. L2Frame("QS1", c, x, cast) = <<IF cast THEN 44 ELSE 28, s, 2, a, b, 0>>
    BY <1>1, <1>2, <1>3, SMT DEF L2Frame, WriteTable
  <1>5. PICK op : op = IF cast THEN 44 ELSE 28
    OBVIOUS
  <1>6. DEFINE fr == <<op, s, 2, a, b, 0>>
  <1>7. Len(fr) = 6 /\ fr[1] = op /\ fr[2] = s /\ fr[4] = a /\ fr[5] = b
    BY SMT
  <1>8. fr = L2Frame("QS1", c, x, cast)
    BY <1>4, <1>5
  <1> HIDE DEF fr
  <1>9. Register("QS1", c, fr) = BigEndian(<<a, b>>)
    BY <1>2, <1>7, SMT DEF Register, WriteTable
  <1>10. BigEndian(<<a, b>>) = x
    BY <1>1, OneRegister
  <1>11. Recognised(fr, c, cast)
    <2>1. CASE cast
      <3>1. fr[1] \in Broadcasts
        BY <1>5, <1>7, <2>1, SMT DEF Broadcasts
      <3>2. cast = TRUE
        BY <2>1
      <3>3. QED
        BY <3>1, <3>2, BroadcastRecognised, Zenon
    <2>2. CASE ~cast
      <3>1. fr[1] = 28
        BY <1>5, <1>7, <2>2, SMT
      <3>2. fr[2] = 140 <=> c = "DA"
        BY <1>2, <1>3, <1>7
      <3>3. QED
        BY <2>2, <3>1, <3>2, RecognisedByQS1Head
    <2>3. QED
      BY <2>1, <2>2
  <1>12. QED
    BY <1>7, <1>9, <1>10, <1>11, <1>8

\* Frames of qs1NewOneBody with three bytes.
LEMMA WideFrames ==
    ASSUME NEW c \in Wides, NEW x, FitsWidth(x, 3), NEW cast \in BOOLEAN
    PROVE  LET fr == L2Frame("QS1", c, x, cast)
           IN  /\ Len(fr) = 6 /\ Register("QS1", c, fr) = x /\ Recognised(fr, c, cast)
  <1>1. PICK a, b, d : Bytes(x, 3) = <<a, b, d>>
    BY ThreeBytes
  <1>2. /\ qs1Params[c].via = "new3"
        /\ Width(qs1Params[c].via) = 3
        /\ (qs1Params[c].sub = 140 <=> c = "DA")
    BY DEF Wides, qs1Params, WField, Width
  <1>3. PICK s : s = qs1Params[c].sub
    OBVIOUS
  <1>4. L2Frame("QS1", c, x, cast) = <<IF cast THEN 44 ELSE 28, s, 3, a, b, d>>
    BY <1>1, <1>2, <1>3, SMT DEF L2Frame, WriteTable
  <1>5. PICK op : op = IF cast THEN 44 ELSE 28
    OBVIOUS
  <1>6. DEFINE fr == <<op, s, 3, a, b, d>>
  <1>7. Len(fr) = 6 /\ fr[1] = op /\ fr[2] = s /\ fr[4] = a /\ fr[5] = b /\ fr[6] = d
    BY SMT
  <1>8. fr = L2Frame("QS1", c, x, cast)
    BY <1>4, <1>5
  <1> HIDE DEF fr
  <1>9. Register("QS1", c, fr) = BigEndian(<<a, b, d>>)
    BY <1>2, <1>7, SMT DEF Register, WriteTable
  <1>10. BigEndian(<<a, b, d>>) = x
    BY <1>1, WideRegister
  <1>11. Recognised(fr, c, cast)
    <2>1. CASE cast
      <3>1. fr[1] \in Broadcasts
        BY <1>5, <1>7, <2>1, SMT DEF Broadcasts
      <3>2. cast = TRUE
        BY <2>1
      <3>3. QED
        BY <3>1, <3>2, BroadcastRecognised, Zenon
    <2>2. CASE ~cast
      <3>1. fr[1] = 28
        BY <1>5, <1>7, <2>2, SMT
      <3>2. fr[2] = 140 <=> c = "DA"
        BY <1>2, <1>3, <1>7
      <3>3. QED
        BY <2>2, <3>1, <3>2, RecognisedByQS1Head
    <2>3. QED
      BY <2>1, <2>2
  <1>12. QED
    BY <1>7, <1>9, <1>10, <1>11, <1>8

\* Frames of qs1YC600Frame with two bytes, never broadcast.
LEMMA OldNarrowFrames ==
    ASSUME NEW c \in OldNarrows, NEW x, FitsWidth(x, 2), NEW cast, ~cast
    PROVE  LET fr == L2Frame("QS1", c, x, cast)
           IN  /\ Len(fr) = 6 /\ Register("QS1", c, fr) = x /\ Recognised(fr, c, cast)
  <1>1. PICK a, b : Bytes(x, 2) = <<a, b>>
    BY TwoBytes
  <1>2. /\ qs1Params[c].via = "yc2"
        /\ Width(qs1Params[c].via) = 2
        /\ qs1Params[c].sub \in QS1YC600ProtCmds /\ c # "DA"
    BY DEF OldNarrows, qs1Params, WField, Width, QS1YC600ProtCmds
  <1>3. PICK s : s = qs1Params[c].sub
    OBVIOUS
  <1>4. L2Frame("QS1", c, x, cast) = <<s, a, b, 0, 0, 0>>
    BY <1>1, <1>2, <1>3, SMT DEF L2Frame, WriteTable
  <1>5. DEFINE fr == <<s, a, b, 0, 0, 0>>
  <1>6. Len(fr) = 6 /\ fr[1] = s /\ fr[2] = a /\ fr[3] = b
    BY SMT
  <1>7. fr = L2Frame("QS1", c, x, cast)
    BY <1>4
  <1> HIDE DEF fr
  <1>8. Register("QS1", c, fr) = BigEndian(<<a, b>>)
    BY <1>2, <1>6, SMT DEF Register, WriteTable
  <1>9. BigEndian(<<a, b>>) = x
    BY <1>1, OneRegister
  <1>10. Recognised(fr, c, cast)
    <2>1. fr[1] \in QS1YC600ProtCmds /\ c # "DA"
      BY <1>2, <1>3, <1>6
    <2>2. QED
      BY <2>1, RecognisedByCommand
  <1>11. QED
    BY <1>6, <1>8, <1>9, <1>10, <1>7

\* Frames of qs1YC600Frame with three bytes, never broadcast.
LEMMA OldWideFrames ==
    ASSUME NEW c \in OldWides, NEW x, FitsWidth(x, 3), NEW cast, ~cast
    PROVE  LET fr == L2Frame("QS1", c, x, cast)
           IN  /\ Len(fr) = 6 /\ Register("QS1", c, fr) = x /\ Recognised(fr, c, cast)
  <1>1. PICK a, b, d : Bytes(x, 3) = <<a, b, d>>
    BY ThreeBytes
  <1>2. /\ qs1Params[c].via = "yc3"
        /\ Width(qs1Params[c].via) = 3
        /\ qs1Params[c].sub \in QS1YC600ProtCmds /\ c # "DA"
    BY DEF OldWides, qs1Params, WField, Width, QS1YC600ProtCmds
  <1>3. PICK s : s = qs1Params[c].sub
    OBVIOUS
  <1>4. L2Frame("QS1", c, x, cast) = <<s, a, b, d, 0, 0>>
    BY <1>1, <1>2, <1>3, SMT DEF L2Frame, WriteTable
  <1>5. DEFINE fr == <<s, a, b, d, 0, 0>>
  <1>6. Len(fr) = 6 /\ fr[1] = s /\ fr[2] = a /\ fr[3] = b /\ fr[4] = d
    BY SMT
  <1>7. fr = L2Frame("QS1", c, x, cast)
    BY <1>4
  <1> HIDE DEF fr
  <1>8. Register("QS1", c, fr) = BigEndian(<<a, b, d>>)
    BY <1>2, <1>6, SMT DEF Register, WriteTable
  <1>9. BigEndian(<<a, b, d>>) = x
    BY <1>1, WideRegister
  <1>10. Recognised(fr, c, cast)
    <2>1. fr[1] \in QS1YC600ProtCmds /\ c # "DA"
      BY <1>2, <1>3, <1>6
    <2>2. QED
      BY <2>1, RecognisedByCommand
  <1>11. QED
    BY <1>6, <1>8, <1>9, <1>10, <1>7

\* Every frame of a mode is a protection write (qs1ModeFrames).
LEMMA ModeFramesRecognised ==
    ASSUME NEW m \in Nat, m <= 255, NEW i \in DOMAIN qs1ModeFrames(m), NEW cast, ~cast
    PROVE  Len(qs1ModeFrames(m)[i]) = 6 /\ Recognised(qs1ModeFrames(m)[i], "CV", cast)
  <1>1. PICK n \in {2, 3}, x \in Nat, y \in Nat :
              /\ DOMAIN qs1ModeFrames(m) = 1 .. n
              /\ qs1ModeFrames(m)[1] = ModeFrame(95, x) /\ qs1ModeFrames(m)[2] = ModeFrame(95, y)
              /\ n = 3 => \E z \in {0, 1} : qs1ModeFrames(m)[3] = ModeFrame(153, z)
    BY FramesOfModes
  <1>2. \E sub \in {95, 153} : \E v : qs1ModeFrames(m)[i] = ModeFrame(sub, v)
    <2>1. i = 1 \/ i = 2 \/ (i = 3 /\ n = 3)
      BY <1>1, SMT
    <2>2. QED
      BY <1>1, <2>1
  <1>3. PICK sub, v : sub \in {95, 153} /\ qs1ModeFrames(m)[i] = ModeFrame(sub, v)
    BY <1>2
  <1>4. PICK fr : fr = ModeFrame(sub, v)
    OBVIOUS
  <1>5. Len(fr) = 6 /\ fr[1] = 28 /\ fr[2] = sub
    BY <1>4, SMT DEF ModeFrame
  <1>6. fr[2] = 140 <=> "CV" = "DA"
    <2>1. 95 # 140 /\ 153 # 140
      BY SMT
    <2>2. QED
      BY <1>3, <1>5, <2>1
  <1>7. Recognised(fr, "CV", cast)
    BY <1>5, <1>6, RecognisedByQS1Head
  <1>8. QED
    BY <1>3, <1>4, <1>5, <1>7

-----------------------------------------------------------------------------
(* The codec: every code of both families.                                 *)

\* Every code a QS1 writes with one frame has a builder, and so has every code of a DS3.
LEMMA Builders ==
    /\ \A c \in DOMAIN qs1Params : \/ c \in (Narrows \cup Powers) \/ c \in Wides \/ c \in OldNarrows \/ c \in OldWides
                                   \/ c \in Modes
    /\ \A c \in DOMAIN ds3ProtParams : Width(ds3ProtParams[c].via) = 2 /\ ds3ProtParams[c].via # "modes"
    /\ \A c \in DOMAIN qs1Params : qs1Params[c].via = "modes" <=> c = "CV"
  <1>1. \A c \in DOMAIN qs1Params : \/ c \in (Narrows \cup Powers) \/ c \in Wides \/ c \in OldNarrows \/ c \in OldWides
                                    \/ c \in Modes
    BY CodesSorted
  <1>2. \A c \in DOMAIN ds3ProtParams : Width(ds3ProtParams[c].via) = 2 /\ ds3ProtParams[c].via # "modes"
    BY DEF ds3ProtParams, WField, Width
  <1>3. \A c \in DOMAIN qs1Params : qs1Params[c].via = "modes" <=> c = "CV"
    BY DEF qs1Params, WField
  <1>4. QED
    BY <1>1, <1>2, <1>3

\* The units of the codes, and the codes of two units.
LEMMA Units4 ==
    ASSUME NEW c
    PROVE  /\ c \in Scaled => UnitOf(c) \notin {"slope", "mode"}
           /\ UnitOf(c) = "slope" <=> c = "DD"
           /\ UnitOf(c) = "mode" <=> c = "CV"
           /\ c \in {"CA", "CG", "DC"} => UnitOf(c) \notin {"slope", "mode"}
           /\ UnitOf(c) \in {"V", "Hz", "s", "W", "slope", "mode"}
  BY DEF UnitOf, Scaled, Powers, Averages, Volts, Hertz, Seconds

\* Only the slope of a DS3 is kept in other units.
LEMMA SlopeScale ==
    /\ \A c \in DOMAIN ds3ProtParams : ds3ProtParams[c].scale = "slope" <=> c = "DD"
    /\ \A c \in DOMAIN qs1Params : qs1Params[c].scale # "slope"
  <1>1. \A c \in DOMAIN ds3ProtParams : ds3ProtParams[c].scale = "slope" <=> c = "DD"
    BY DEF ds3ProtParams, WField
  <1>2. \A c \in DOMAIN qs1Params : qs1Params[c].scale # "slope"
    BY DEF qs1Params, WField
  <1>3. QED
    BY <1>1, <1>2

\* What is written to any family under a scaled code, in the envelope and fitting its width, is read back.
LEMMA EveryValueKept ==
    ASSUME NEW f \in Families, NEW c \in Scaled, NEW v \in NativeEnvelope(UnitOf(c)),
           NEW w \in ToWire(WriteTable(f)[c].scale, v), FitsWidth(w, Width(WriteTable(f)[c].via))
    PROVE  Kept(f, c, v, w)
  <1>1. CASE f = "DS3"
    <2>1. WriteTable(f)[c] = ds3ProtParams[c]
      BY <1>1 DEF WriteTable
    <2>2. \/ c \in Powers \/ c \in Averages \/ c \in Volts \/ c \in Hertz \/ c \in Shorts \/ c \in Longs \/ c \in Cycles
      BY CodesSorted DEF Scaled
    <2>3. QED
      BY <1>1, <2>1, <2>2, VoltsKeptDS3, AverageKeptDS3, HertzKeptDS3, ShortsKeptDS3, LongsKeptDS3, CyclesKeptDS3,
         WattsKeptDS3
  <1>2. CASE f = "QS1"
    <2>1. WriteTable(f)[c] = qs1Params[c]
      BY <1>2 DEF WriteTable
    <2>2. c \in Powers \/ c \in Averages \/ c \in Volts \/ c \in Hertz \/ c \in Seconds
      BY DEF Scaled
    <2>3. QED
      BY <1>2, <2>1, <2>2, VoltsKeptQS1, AverageKeptQS1, HertzKeptQS1, SecondsKeptQS1, WattsKeptQS1
  <1>3. QED
    BY <1>1, <1>2 DEF Families

\* What WriteReadsBack asks of a value and the register it was written to, of any code.
Held(f, c, v, r) ==
    /\ UnitOf(c) \notin {"slope", "mode"} => Kept(f, c, v, r)
    /\ UnitOf(c) = "slope" => SlopeHeld(f, c, v, r)
    /\ UnitOf(c) = "mode" => IF f = "DS3" THEN Back(f, c, r) = 100 * ModeClass(ModeOf(v)) ELSE ModeHeld(v, r)

\* What fits a width is a register.
LEMMA RegisterRange ==
    ASSUME NEW x, NEW n \in {2, 3}, FitsWidth(x, n)
    PROVE  x \in RegisterValues
  <1>1. x \in Nat /\ x <= MaxRegister /\ MaxRegister \in Nat
    <2>1. CASE n = 2
      BY <2>1, Fits2, SMT DEF MaxRegister
    <2>2. CASE n = 3
      BY <2>2, Fits3, SMT DEF MaxRegister
    <2>3. QED
      BY <2>1, <2>2
  <1>2. QED
    BY <1>1, SMT DEF RegisterValues

\* A register is a natural number.
LEMMA RegisterNat ==
    ASSUME NEW x \in RegisterValues
    PROVE  x \in Nat
  <1>1. MaxRegister \in Int
    BY SMT DEF MaxRegister
  <1>2. QED
    BY <1>1, SMT DEF RegisterValues

\* A small number is a register.
LEMMA SmallRegister ==
    ASSUME NEW x \in Nat, x <= 32767
    PROVE  x \in RegisterValues
  <1>1. x <= MaxRegister /\ MaxRegister \in Nat
    BY SMT DEF MaxRegister
  <1>2. QED
    BY <1>1, SMT DEF RegisterValues

\* A value takes two bytes or three.
LEMMA WidthRange ==
    ASSUME NEW via
    PROVE  Width(via) \in {2, 3}
  BY DEF Width

\* What an inverter keeps of a command of one frame is read back, if its pages have it.
LEMMA EveryValueHeld ==
    ASSUME NEW f \in Families, NEW c \in DOMAIN WriteTable(f), WriteTable(f)[c].via # "modes",
           NEW v \in NativeEnvelope(UnitOf(c)),
           NEW w \in ToWire(WriteTable(f)[c].scale, v), FitsWidth(w, Width(WriteTable(f)[c].via)),
           NEW r \in (IF WriteTable(f)[c].scale = "slope" THEN SlopeRegisters(w) ELSE {w})
    PROVE  r \in RegisterValues /\ (c \in DOMAIN ReadTable(f) => Held(f, c, v, r))
  <1>1. w \in RegisterValues
    BY WidthRange, RegisterRange
  <1>2. CASE c \in Scaled
    <2>1. WriteTable(f)[c].scale # "slope"
      <3>1. "DD" \notin Scaled
        BY DEF Scaled, Powers, Averages, Volts, Hertz, Seconds
      <3>2. QED
        BY <1>2, <3>1, SlopeScale DEF WriteTable
    <2>2. r = w /\ Kept(f, c, v, w)
      BY <1>2, <2>1, EveryValueKept
    <2>3. UnitOf(c) \notin {"slope", "mode"}
      BY <1>2, Units4
    <2>4. QED
      BY <1>1, <2>2, <2>3 DEF Held
  <1>3. CASE f = "DS3" /\ c = "DD"
    <2>1. WriteTable(f)[c] = ds3ProtParams[c] /\ c \in DOMAIN ds3ProtParams /\ c \in Slopes
      BY <1>3 DEF WriteTable, Slopes
    <2>2. ds3ProtParams[c].scale = "slope"
      BY <1>3, <2>1, SlopeScale
    <2>3. r \in SlopeRegisters(w) /\ w \in ToWire(ds3ProtParams[c].scale, v)
      BY <2>1, <2>2
    <2>4. SlopeHeld("DS3", c, v, r) /\ r \in Nat /\ r <= 32767
      BY <2>1, <2>3, SlopesHeldDS3
    <2>5. QED
      BY <1>3, <2>4, Units4, SmallRegister DEF Held
  <1>4. CASE f = "DS3" /\ c = "CV"
    <2>1. WriteTable(f)[c] = ds3ProtParams[c] /\ c \in DOMAIN ds3ProtParams /\ c \in Modes
      BY <1>4 DEF WriteTable, Modes
    <2>2. r = w
      BY <1>4, <2>1, SlopeScale
    <2>3. Back("DS3", c, w) = 100 * ModeClass(ModeOf(v))
      BY <2>1, ModesHeldDS3
    <2>4. QED
      BY <1>1, <1>4, <2>2, <2>3, Units4 DEF Held
  <1>5. CASE c \in {"CG", "CA"}
    <2>1. c \notin DOMAIN ReadTable(f)
      <3>1. c \notin Scaled /\ c \notin {"CV", "DC", "DD"}
        BY <1>5 DEF Scaled, Powers, Averages, Volts, Hertz, Seconds
      <3>2. QED
        BY <3>1, CodesSorted DEF ReadTable
    <2>2. r = w
      BY <1>5, SlopeScale DEF WriteTable
    <2>3. QED
      BY <1>1, <2>1, <2>2
  <1>6. c \in Scaled \/ (f = "DS3" /\ c = "DD") \/ (f = "DS3" /\ c = "CV") \/ c \in {"CG", "CA"}
    <2>1. CASE f = "DS3"
      BY <2>1, CodesSorted DEF WriteTable
    <2>2. CASE f = "QS1"
      <3>1. DOMAIN WriteTable(f) = DOMAIN qs1Params /\ WriteTable(f)[c] = qs1Params[c]
        BY <2>2 DEF WriteTable
      <3>2. c # "CV"
        BY <3>1, Builders
      <3>3. QED
        BY <3>1, <3>2, CodesSorted
    <2>3. QED
      BY <2>1, <2>2 DEF Families
  <1>7. QED
    BY <1>2, <1>3, <1>4, <1>5, <1>6

\* The widths of the builders.
LEMMA WidthsQS1 ==
    /\ \A c \in Narrows \cup Powers : Width(qs1Params[c].via) = 2
    /\ \A c \in Wides : Width(qs1Params[c].via) = 3
    /\ \A c \in OldNarrows : Width(qs1Params[c].via) = 2 /\ qs1Params[c].via = "yc2"
    /\ \A c \in OldWides : Width(qs1Params[c].via) = 3 /\ qs1Params[c].via = "yc3"
  <1>1. \A c \in Narrows \cup Powers : Width(qs1Params[c].via) = 2
    BY DEF Narrows, Powers, qs1Params, WField, Width
  <1>2. \A c \in Wides : Width(qs1Params[c].via) = 3
    BY DEF Wides, qs1Params, WField, Width
  <1>3. \A c \in OldNarrows : Width(qs1Params[c].via) = 2 /\ qs1Params[c].via = "yc2"
    BY DEF OldNarrows, qs1Params, WField, Width
  <1>4. \A c \in OldWides : Width(qs1Params[c].via) = 3 /\ qs1Params[c].via = "yc3"
    BY DEF OldWides, qs1Params, WField, Width
  <1>5. QED
    BY <1>1, <1>2, <1>3, <1>4

\* Every frame that can be encoded carries its register and is recognised.
LEMMA EveryFrameRecognised ==
    ASSUME NEW f \in Families, NEW c \in DOMAIN WriteTable(f), WriteTable(f)[c].via # "modes",
           NEW x, FitsWidth(x, Width(WriteTable(f)[c].via)), NEW cast \in BOOLEAN, cast => Castable(f, c)
    PROVE  LET fr == L2Frame(f, c, x, cast)
           IN  /\ Len(fr) = 6 /\ Register(f, c, fr) = x /\ Recognised(fr, c, cast)
  <1>1. CASE f = "DS3"
    <2>1. FitsWidth(x, 2) /\ c \in DOMAIN ds3ProtParams
      BY <1>1, Builders DEF WriteTable
    <2>2. QED
      BY <1>1, <2>1, FramesOfDS3
  <1>2. CASE f = "QS1"
    <2>1. WriteTable(f)[c] = qs1Params[c] /\ c \in DOMAIN qs1Params
      BY <1>2 DEF WriteTable
    <2>2. CASE c \in Narrows \cup Powers
      <3>1. FitsWidth(x, 2)
        BY <2>1, <2>2, WidthsQS1
      <3>2. QED
        BY <1>2, <2>2, <3>1, NarrowFrames
    <2>3. CASE c \in Wides
      <3>1. FitsWidth(x, 3)
        BY <2>1, <2>3, WidthsQS1
      <3>2. QED
        BY <1>2, <2>3, <3>1, WideFrames
    <2>4. CASE c \in OldNarrows
      <3>1. FitsWidth(x, 2) /\ ~cast
        BY <2>1, <2>4, WidthsQS1 DEF Castable
      <3>2. QED
        BY <1>2, <2>4, <3>1, OldNarrowFrames
    <2>5. CASE c \in OldWides
      <3>1. FitsWidth(x, 3) /\ ~cast
        BY <2>1, <2>5, WidthsQS1 DEF Castable
      <3>2. QED
        BY <1>2, <2>5, <3>1, OldWideFrames
    <2>6. c # "CV"
      BY <2>1, Builders
    <2>7. QED
      BY <2>1, <2>2, <2>3, <2>4, <2>5, <2>6, Builders DEF Modes
  <1>3. QED
    BY <1>1, <1>2 DEF Families


-----------------------------------------------------------------------------
(* The codec: what a field decodes to.                                     *)

\* One byte is a natural number.
LEMMA ReadSome1 ==
    ASSUME NEW r \in Nat
    PROVE  readBE(Bytes(r, 1)) \in Nat
  <1>1. PICK a \in Nat : a = r % 256
    BY SMT
  <1>2. Bytes(r, 1) = <<a>>
    BY <1>1, SMT DEF Bytes
  <1>3. BigEndian(<<a>>) = a /\ Len(<<a>>) = 1
    BY SMT DEF BigEndian
  <1>4. readBE(<<a>>) = a
    BY <1>3, SMT DEF readBE
  <1>5. QED
    BY <1>1, <1>2, <1>4

\* Any two bytes are an integer.
LEMMA ReadSome2 ==
    ASSUME NEW r \in Nat
    PROVE  readBE(Bytes(r, 2)) \in Int
  <1>1. PICK a \in Nat, b \in Nat : a = (r \div 256) % 256 /\ b = r % 256
    BY SMT
  <1>2. Bytes(r, 2) = <<a, b>>
    BY <1>1, Bytes2, SMT
  <1>3. BigEndian(<<a, b>>) = a * 256 + b
    BY BE2
  <1>4. BigEndian(<<a, b>>) \in Int
    BY <1>1, <1>3, SMT
  <1>5. readBE(<<a, b>>) \in Int
    BY <1>4, SMT DEF readBE
  <1>6. QED
    BY <1>2, <1>5

\* Any three are a natural number.
LEMMA ReadSome3 ==
    ASSUME NEW r \in Nat
    PROVE  readBE(Bytes(r, 3)) \in Nat
  <1>1. PICK h \in Nat, a \in Nat, b \in Nat : h = (r \div 65536) % 256 /\ a = (r \div 256) % 256 /\ b = r % 256
    BY SMT
  <1>2. Bytes(r, 3) = <<h, a, b>>
    BY <1>1, Bytes3, SMT
  <1>3. BigEndian(<<h, a, b>>) = h * 65536 + a * 256 + b
    BY BE3
  <1>4. BigEndian(<<h, a, b>>) \in Nat
    BY <1>1, <1>3, SMT
  <1>5. Len(<<h, a, b>>) = 3
    BY SMT
  <1>6. readBE(<<h, a, b>>) \in Nat
    BY <1>4, <1>5, SMT DEF readBE
  <1>7. QED
    BY <1>2, <1>6

\* The scales of the read tables, but for a QS1's mode.
ReadScales == {"freq", "sec", "cycles", "volt", "voltAvg", "watt", "droop", "mode"}

\* A reading is an integer at every scale.
LEMMA Unscaled ==
    ASSUME NEW f \in Families, NEW s \in ReadScales, NEW d \in Int, s = "freq" /\ f = "QS1" => d \in Nat
    PROVE  FromWire(f, s, d) \in Int
  <1>1. CASE s = "freq"
    <2>1. d \in Nat /\ d # 0 => Period(d) \in Int
      BY Periods, SMT
    <2>2. Frequency(f, d) \in Int
      BY <1>1, <2>1, SMT DEF Frequency, Families
    <2>3. QED
      BY <1>1, <2>2, SMT DEF FromWire
  <1>2. CASE s = "sec"
    BY <1>2, SMT DEF FromWire
  <1>3. CASE s = "cycles"
    BY <1>3, SMT DEF FromWire
  <1>4. CASE s = "volt"
    <2>1. (d * 268 + 500) \div 1000 \in Int /\ (d * 250 + 666) \div 1332 \in Int
      BY SMT
    <2>2. QED
      BY <1>4, <2>1, SMT DEF FromWire
  <1>5. CASE s = "voltAvg"
    <2>1. (d * 268) \div 1000 \in Int /\ ((d \div 600) * 20000 + 53260) \div 106520 \in Int
      BY SMT
    <2>2. QED
      BY <1>5, <2>1, SMT DEF FromWire
  <1>6. CASE s = "watt"
    <2>1. MaxPower(f, d) \in Int
      BY SMT DEF MaxPower
    <2>2. QED
      BY <1>6, <2>1, SMT DEF FromWire
  <1>7. CASE s = "droop"
    <2>1. Droop(f, d) \in Int
      BY SMT DEF Droop
    <2>2. QED
      BY <1>7, <2>1, SMT DEF FromWire
  <1>8. CASE s = "mode"
    <2>1. dsMode(d) \in Int
      BY SMT DEF dsMode
    <2>2. QED
      BY <1>8, <2>1, SMT DEF FromWire
  <1>9. QED
    BY <1>1, <1>2, <1>3, <1>4, <1>5, <1>6, <1>7, <1>8 DEF ReadScales

\* The read tables are well formed; no QS1 reads a period, which it divides by, as a signed number.
LEMMA ReadTables ==
    ASSUME NEW f \in Families, NEW c \in DOMAIN ReadTable(f)
    PROVE  /\ c \in ProtCodes /\ ReadTable(f)[c].page \in PageNames
           /\ \/ ReadTable(f)[c].scale \in ReadScales
              \/ ReadTable(f)[c].scale = "nibble" /\ f = "QS1" /\ c = "CV" /\ ReadTable(f)[c].page = "B"
           /\ f = "QS1" /\ c = "CV" => ReadTable(f)[c].scale = "nibble"
           /\ ReadTable(f)[c].width \in {1, 2, 3}
           /\ f = "QS1" /\ ReadTable(f)[c].scale = "freq" => ReadTable(f)[c].width = 3
  <1>1. CASE f = "DS3"
    <2>1. \A d \in DOMAIN ds3ReadPages :
             /\ ds3ReadPages[d].scale \in ReadScales /\ ds3ReadPages[d].page \in PageNames
             /\ ds3ReadPages[d].width \in {1, 2, 3}
      BY DEF ds3ReadPages, RField, ReadScales, PageNames
    <2>2. c \in ProtCodes
      BY <1>1 DEF ProtCodes, ReadTable
    <2>3. QED
      BY <1>1, <2>1, <2>2 DEF ReadTable
  <1>2. CASE f = "QS1"
    <2>1. \A d \in DOMAIN qs1ReadPages :
             /\ \/ qs1ReadPages[d].scale \in ReadScales
                \/ qs1ReadPages[d].scale = "nibble" /\ d = "CV" /\ qs1ReadPages[d].page = "B"
             /\ qs1ReadPages[d].page \in PageNames
             /\ d = "CV" => qs1ReadPages[d].scale = "nibble"
             /\ qs1ReadPages[d].width \in {1, 2, 3}
             /\ qs1ReadPages[d].scale = "freq" => qs1ReadPages[d].width = 3
      BY DEF qs1ReadPages, RField, ReadScales, PageNames
    <2>2. c \in ProtCodes
      BY <1>2 DEF ProtCodes, ReadTable
    <2>3. QED
      BY <1>2, <2>1, <2>2 DEF ReadTable
  <1>3. QED
    BY <1>1, <1>2 DEF Families

\* Whatever the register holds, its field decodes to an integer.
LEMMA BackIsInt ==
    ASSUME NEW f \in Families, NEW c \in DOMAIN ReadTable(f), ReadTable(f)[c].scale \in ReadScales, NEW r \in Nat
    PROVE  Back(f, c, r) \in Int
  <1>1. CASE ReadTable(f)[c].width = 2
    <2>1. readBE(Bytes(r, ReadTable(f)[c].width)) \in Int
      BY <1>1, ReadSome2
    <2>2. ~(f = "QS1" /\ ReadTable(f)[c].scale = "freq")
      <3>1. 2 # 3
        BY SMT
      <3>2. QED
        BY <1>1, <3>1, ReadTables
    <2>3. QED
      BY <2>1, <2>2, Unscaled DEF Back
  <1>2. CASE ReadTable(f)[c].width \in {1, 3}
    <2>1. readBE(Bytes(r, ReadTable(f)[c].width)) \in Nat
      BY <1>2, ReadSome1, ReadSome3
    <2>2. readBE(Bytes(r, ReadTable(f)[c].width)) \in Int
      BY <2>1, SMT
    <2>3. QED
      BY <2>1, <2>2, Unscaled DEF Back
  <1>3. QED
    BY <1>1, <1>2, ReadTables

\* The bytes a reply has for a field and a register.
Shown(f, c, r, g) == FieldBytes(ReadTable(f)[c], r, g)

\* What the decoder publishes (protReadSaneMax).
Sane(d) == 0 <= d /\ d <= ReadSaneMax

\* Only a sane value is published.
LEMMA DecodedSane ==
    ASSUME NEW d \in Int
    PROVE  Sane(d) <=> ~(d < 0 \/ d > ReadSaneMax)
  BY SMT DEF Sane, ReadSaneMax

\* A sane value is in range.
LEMMA SaneValues ==
    ASSUME NEW d \in Int, Sane(d)
    PROVE  d \in 0 .. ReadSaneMax
  <1>1. ReadSaneMax \in Int
    BY SMT DEF ReadSaneMax
  <1>2. QED
    BY <1>1, SMT DEF Sane

\* A field of one scale decodes to its reading, if that is sane.
LEMMA FieldBack ==
    ASSUME NEW f \in Families, NEW c \in DOMAIN ReadTable(f), ReadTable(f)[c].scale \in ReadScales,
           NEW r \in Nat, NEW g
    PROVE  DecodedField(f, ReadTable(f)[c], Shown(f, c, r, g)) = IF Sane(Back(f, c, r)) THEN Back(f, c, r) ELSE Unset
  <1>1. ReadTable(f)[c].scale # "nibble"
    BY DEF ReadScales
  <1>2. Shown(f, c, r, g) = Bytes(r, ReadTable(f)[c].width)
    BY <1>1 DEF Shown, FieldBytes
  <1>3. DecodedField(f, ReadTable(f)[c], Shown(f, c, r, g))
            = IF Back(f, c, r) < 0 \/ Back(f, c, r) > ReadSaneMax THEN Unset ELSE Back(f, c, r)
    BY <1>1, <1>2 DEF DecodedField, Back
  <1>4. QED
    BY <1>3, BackIsInt, DecodedSane

\* The mode of a QS1 is a nibble of its byte, or not published.
LEMMA NibbleDecodes ==
    ASSUME NEW r \in Nat, NEW g
    PROVE  qsModeFromPageB(<<r, g>>) \in (0 .. ReadSaneMax) \cup {Unset}
  <1>1. PICK h \in Nat, l \in Nat : h = (r \div 16) % 4 /\ l = r % 16 /\ h <= 3 /\ l <= 15
    BY SMT
  <1>2. 100 * (h + 12) \in 0 .. ReadSaneMax /\ 100 * l \in 0 .. ReadSaneMax
    <2>1. Sane(100 * (h + 12)) /\ 100 * (h + 12) \in Int
      BY <1>1, SMT DEF Sane, ReadSaneMax
    <2>2. Sane(100 * l) /\ 100 * l \in Int
      BY <1>1, SMT DEF Sane, ReadSaneMax
    <2>3. QED
      BY <2>1, <2>2, SaneValues
  <1>3. qsModeFromPageB(<<r, g>>) = CASE g = 102 -> 100 * (h + 12) [] g = 0 -> 100 * l [] OTHER -> Unset
    BY <1>1, SMT DEF qsModeFromPageB
  <1>4. QED
    BY <1>2, <1>3

\* A field decodes to a sane value or to none.
LEMMA FieldDecodes ==
    ASSUME NEW f \in Families, NEW c \in DOMAIN ReadTable(f), NEW r \in Nat, NEW g
    PROVE  DecodedField(f, ReadTable(f)[c], Shown(f, c, r, g)) \in (0 .. ReadSaneMax) \cup {Unset}
  <1>1. CASE ReadTable(f)[c].scale \in ReadScales
    <2>1. Back(f, c, r) \in Int
      BY <1>1, BackIsInt
    <2>2. QED
      BY <1>1, <2>1, FieldBack, SaneValues
  <1>2. CASE ReadTable(f)[c].scale = "nibble"
    BY <1>2, NibbleDecodes DEF DecodedField, Shown, FieldBytes
  <1>3. QED
    BY <1>1, <1>2, ReadTables

\* The frames a command can become (EncodeSetProtection).
LEMMA Encodes ==
    ASSUME NEW f, NEW c, NEW v, NEW cast, NEW frames \in EncodeSetProtection(f, c, v, cast)
    PROVE  /\ v \in NativeEnvelope(UnitOf(c)) /\ (cast => Castable(f, c))
           /\ IF WriteTable(f)[c].via = "modes" THEN ModeOf(v) <= 255 /\ frames = qs1ModeFrames(ModeOf(v))
              ELSE \E x \in ToWire(WriteTable(f)[c].scale, v) :
                      FitsWidth(x, Width(WriteTable(f)[c].via)) /\ frames = <<L2Frame(f, c, x, cast)>>
  <1>1. v \in NativeEnvelope(UnitOf(c)) /\ (cast => Castable(f, c))
    BY DEF EncodeSetProtection
  <1>2. CASE WriteTable(f)[c].via = "modes"
    BY <1>1, <1>2 DEF EncodeSetProtection
  <1>3. CASE WriteTable(f)[c].via # "modes"
    BY <1>1, <1>3 DEF EncodeSetProtection
  <1>4. QED
    BY <1>1, <1>2, <1>3

-----------------------------------------------------------------------------
(* The codec: the inductive invariant of its pages and values.             *)

\* The native values a command can ask for.
Natives == UNION {NativeEnvelope(UnitOf(c)) : c \in ProtCodes}

\* The types of the codec.
CodecShape ==
    /\ fam \in Families /\ writes \in 0 .. MaxWrites /\ fresh \subseteq DOMAIN ReadTable(fam)
    /\ regs \in [ProtCodes -> RegisterValues]
    /\ asked \in [ProtCodes -> Natives \cup {Unset}]
    /\ protValues \in [ProtCodes -> (0 .. ReadSaneMax) \cup {Unset}]
    /\ DOMAIN pages \subseteq PageNames

\* The mode of a QS1 is a byte.
ByteKept == fam = "QS1" => regs["CV"] <= 255

\* What was asked and taken is what the register gives back, if a page has it.
AskedKept ==
    \A c \in ProtCodes :
        asked[c] = Unset \/ /\ asked[c] \in NativeEnvelope(UnitOf(c))
                            /\ c \in DOMAIN ReadTable(fam) => Held(fam, c, asked[c], regs[c])

\* Buffered bytes are those of a register.
PagesHold ==
    \A q \in DOMAIN pages : \A c \in InPage(fam, q) : \E r \in Nat : \E g : pages[q][c] = Shown(fam, c, r, g)

\* Nothing is published of what no page has.
UnreadUnset == \A c \in ProtCodes \ DOMAIN ReadTable(fam) : protValues[c] = Unset

\* A buffered field holds the register, and its value is the one published.
Published(f, c, r, buffer, value) ==
    /\ ReadTable(f)[c].page \in DOMAIN buffer
    /\ \E g : buffer[ReadTable(f)[c].page][c] = Shown(f, c, r, g)
    /\ Decoded(f, c, buffer) # Unset => value = Decoded(f, c, buffer)

\* A page that was read after the last write shows that write, whatever pages were buffered around it.
FreshPublished == \A c \in fresh : Published(fam, c, regs[c], pages, protValues[c])

\* The last frames are recognised.
FrameGood ==
    \A i \in DOMAIN sentFrame.frames :
        Len(sentFrame.frames[i]) = 6 /\ Recognised(sentFrame.frames[i], sentFrame.code, sentFrame.cast)

\* The inductive invariant of the codec.
CodecInv == CodecShape /\ ByteKept /\ AskedKept /\ PagesHold /\ UnreadUnset /\ FreshPublished /\ FrameGood

\* Both families have a mode.
LEMMA ModeIsACode == "CV" \in ProtCodes
  <1>1. "CV" \in DOMAIN qs1Params
    BY CodesSorted
  <1>2. QED
    BY <1>1 DEF ProtCodes

\* Nothing is asked, buffered or published at first.
LEMMA CodecInitially == CodecInit => CodecInv
  <1> SUFFICES ASSUME CodecInit PROVE CodecInv
    OBVIOUS
  <1>1. CodecShape
    <2>1. 0 \in RegisterValues /\ 0 \in 0 .. MaxWrites
      <3>1. MaxRegister \in Nat
        BY SMT DEF MaxRegister
      <3>2. QED
        BY <3>1, CodecAssumption, SMT DEF RegisterValues
    <2>2. pages = <<>> /\ DOMAIN pages \subseteq PageNames
      BY SMT DEF CodecInit
    <2>3. regs \in [ProtCodes -> RegisterValues]
      BY <2>1, Zenon DEF CodecInit
    <2>4. asked \in [ProtCodes -> Natives \cup {Unset}]
      BY Zenon DEF CodecInit
    <2>5. protValues \in [ProtCodes -> (0 .. ReadSaneMax) \cup {Unset}]
      BY Zenon DEF CodecInit
    <2>6. fam \in Families /\ writes \in 0 .. MaxWrites /\ fresh = {}
      BY <2>1 DEF CodecInit
    <2>7. QED
      BY <2>2, <2>3, <2>4, <2>5, <2>6 DEF CodecShape
  <1>2. AskedKept /\ UnreadUnset
    BY DEF AskedKept, UnreadUnset, CodecInit
  <1>3. PagesHold
    <2>1. DOMAIN pages = {}
      BY SMT DEF CodecInit
    <2>2. QED
      BY <2>1 DEF PagesHold
  <1>4. FreshPublished
    BY DEF CodecInit, FreshPublished
  <1>5. FrameGood
    <2>1. sentFrame.frames = <<>>
      BY DEF CodecInit, NoFrame
    <2>2. DOMAIN <<>> = {}
      BY SMT
    <2>3. QED
      BY <2>1, <2>2 DEF FrameGood
  <1>6. ByteKept
    <2>1. regs["CV"] = 0
      BY ModeIsACode DEF CodecInit
    <2>2. QED
      BY <2>1, SMT DEF ByteKept
  <1>7. QED
    BY <1>1, <1>2, <1>3, <1>4, <1>5, <1>6 DEF CodecInv

\* Every frame of a command is recognised.
LEMMA CommandRecognised ==
    ASSUME NEW f \in Families, NEW c \in DOMAIN WriteTable(f), NEW v, NEW cast \in BOOLEAN,
           NEW frames \in EncodeSetProtection(f, c, v, cast), NEW i \in DOMAIN frames
    PROVE  Len(frames[i]) = 6 /\ Recognised(frames[i], c, cast)
  <1>1. v \in NativeEnvelope(UnitOf(c)) /\ (cast => Castable(f, c))
    BY Encodes
  <1>2. CASE WriteTable(f)[c].via = "modes"
    <2>1. f = "QS1" /\ c = "CV" /\ ~cast
      BY <1>1, <1>2, Builders DEF WriteTable, Castable, Families
    <2>2. v \in NativeEnvelope("mode")
      BY <1>1, <2>1, Units4
    <2>3. PICK m \in Nat : m = ModeOf(v) /\ m <= 255 /\ frames = qs1ModeFrames(m)
      BY <1>2, <2>2, Encodes, ModeRange
    <2>4. QED
      BY <2>1, <2>3, ModeFramesRecognised
  <1>3. CASE WriteTable(f)[c].via # "modes"
    <2>1. PICK x \in ToWire(WriteTable(f)[c].scale, v) :
             FitsWidth(x, Width(WriteTable(f)[c].via)) /\ frames = <<L2Frame(f, c, x, cast)>>
      BY <1>3, Encodes
    <2>2. PICK fr : fr = L2Frame(f, c, x, cast)
      OBVIOUS
    <2>3. frames[i] = fr
      <3>1. frames = <<fr>>
        BY <2>1, <2>2
      <3>2. i = 1 /\ frames[1] = fr
        BY <3>1, SMT
      <3>3. QED
        BY <3>2
    <2>4. QED
      BY <1>1, <1>3, <2>1, <2>2, <2>3, EveryFrameRecognised
  <1>4. QED
    BY <1>2, <1>3

\* What an inverter keeps of the frames it took is a register, and gives back what was asked if it took them all.
LEMMA RegisterTaken ==
    ASSUME NEW f \in Families, NEW c \in DOMAIN WriteTable(f), NEW v, NEW cast \in BOOLEAN,
           NEW frames \in EncodeSetProtection(f, c, v, cast), NEW taken \in SUBSET DOMAIN frames, taken # {},
           NEW old \in Nat, f = "QS1" /\ c = "CV" => old <= 255, NEW r \in RegistersTaken(f, c, old, frames, taken)
    PROVE  /\ r \in RegisterValues
           /\ f = "QS1" /\ c = "CV" => r <= 255
           /\ taken = DOMAIN frames /\ c \in DOMAIN ReadTable(f) => Held(f, c, v, r)
  <1>1. v \in NativeEnvelope(UnitOf(c)) /\ (cast => Castable(f, c))
    BY Encodes
  <1>2. CASE WriteTable(f)[c].via = "modes"
    <2>1. f = "QS1" /\ c = "CV"
      BY <1>2, Builders DEF WriteTable, Families
    <2>2. v \in NativeEnvelope("mode") /\ UnitOf(c) = "mode"
      BY <1>1, <2>1, Units4
    <2>3. ModeOf(v) <= 255 /\ frames = qs1ModeFrames(ModeOf(v))
      BY <1>2, Encodes
    <2>4. r = ModeByte(old, frames, taken)
      BY <1>2 DEF RegistersTaken
    <2>5. r \in Nat /\ r <= 255 /\ (taken = DOMAIN frames => ModeHeld(v, r))
      BY <2>1, <2>2, <2>3, <2>4, ModesHeldQS1
    <2>6. r \in RegisterValues
      <3>1. r <= 32767
        BY <2>5, SMT
      <3>2. QED
        BY <2>5, <3>1, SmallRegister
    <2>7. f # "DS3"
      BY <2>1
    <2>8. QED
      BY <2>2, <2>5, <2>6, <2>7 DEF Held
  <1>3. CASE WriteTable(f)[c].via # "modes"
    <2>1. PICK x \in ToWire(WriteTable(f)[c].scale, v) :
             FitsWidth(x, Width(WriteTable(f)[c].via)) /\ frames = <<L2Frame(f, c, x, cast)>>
      BY <1>3, Encodes
    <2>2. PICK fr : fr = L2Frame(f, c, x, cast)
      OBVIOUS
    <2>3. frames[1] = fr
      <3>1. frames = <<fr>>
        BY <2>1, <2>2
      <3>2. QED
        BY <3>1, SMT
    <2>4. Register(f, c, frames[1]) = x
      BY <1>1, <1>3, <2>1, <2>2, <2>3, EveryFrameRecognised
    <2>5. r \in (IF WriteTable(f)[c].scale = "slope" THEN SlopeRegisters(x) ELSE {x})
      BY <1>3, <2>4 DEF RegistersTaken
    <2>6. r \in RegisterValues /\ (c \in DOMAIN ReadTable(f) => Held(f, c, v, r))
      BY <1>1, <1>3, <2>1, <2>5, EveryValueHeld
    <2>7. ~(f = "QS1" /\ c = "CV")
      BY <1>3, Builders DEF WriteTable
    <2>8. QED
      BY <2>6, <2>7
  <1>4. QED
    BY <1>2, <1>3

\* A command, taken by the inverter whole, in part or not at all, keeps the invariant.
LEMMA WriteParamKeeps ==
    ASSUME CodecInv, writes < MaxWrites, NEW c \in ProtCodes, NEW v, NEW cast \in BOOLEAN, WriteParam(c, v, cast)
    PROVE  CodecInv'
  <1>1. /\ fam \in Families /\ fam' = fam /\ pages' = pages /\ protValues' = protValues
        /\ writes' = writes + 1 /\ c \in DOMAIN WriteTable(fam)
    BY DEF WriteParam, CodecInv, CodecShape
  <1>2. PICK frames \in EncodeSetProtection(fam, c, v, cast) : \E taken \in SUBSET DOMAIN frames :
          /\ sentFrame' = [frames |-> frames, code |-> c, cast |-> cast]
          /\ \/ taken = {} /\ UNCHANGED <<regs, asked, fresh>>
             \/ /\ taken # {}
                /\ \E r \in RegistersTaken(fam, c, regs[c], frames, taken) : regs' = [regs EXCEPT ![c] = r]
                /\ asked' = [asked EXCEPT ![c] = IF taken = DOMAIN frames THEN v ELSE Unset]
                /\ fresh' = fresh \ {c}
    BY DEF WriteParam
  <1>3. FrameGood'
    <2>1. \A i \in DOMAIN frames : Len(frames[i]) = 6 /\ Recognised(frames[i], c, cast)
      BY <1>1, CommandRecognised
    <2>2. QED
      BY <1>2, <2>1 DEF FrameGood
  <1>4. writes' \in 0 .. MaxWrites
    <2>1. writes \in 0 .. MaxWrites
      BY DEF CodecInv, CodecShape
    <2>2. QED
      BY <1>1, <2>1, CodecAssumption, SMT
  <1>5. PagesHold' /\ UnreadUnset'
    BY <1>1 DEF CodecInv, PagesHold, UnreadUnset
  <1>6. CASE UNCHANGED <<regs, asked, fresh>>
    <2>1. CodecShape'
      BY <1>1, <1>4, <1>6 DEF CodecInv, CodecShape
    <2>2. ByteKept' /\ AskedKept' /\ FreshPublished'
      BY <1>1, <1>6 DEF CodecInv, ByteKept, AskedKept, FreshPublished
    <2>3. QED
      BY <1>3, <1>5, <2>1, <2>2 DEF CodecInv
  <1>7. ASSUME NEW taken \in SUBSET DOMAIN frames, taken # {}, NEW r \in RegistersTaken(fam, c, regs[c], frames, taken),
               regs' = [regs EXCEPT ![c] = r], fresh' = fresh \ {c},
               asked' = [asked EXCEPT ![c] = IF taken = DOMAIN frames THEN v ELSE Unset]
        PROVE  CodecInv'
    <2>1. PICK old \in Nat : old = regs[c] /\ (fam = "QS1" /\ c = "CV" => old <= 255)
      <3>1. regs[c] \in Nat
        <4>1. regs[c] \in RegisterValues
          BY DEF CodecInv, CodecShape
        <4>2. QED
          BY <4>1, RegisterNat
      <3>2. fam = "QS1" /\ c = "CV" => regs[c] <= 255
        BY DEF CodecInv, ByteKept
      <3>3. QED
        BY <3>1, <3>2
    <2>2. /\ r \in RegisterValues
          /\ fam = "QS1" /\ c = "CV" => r <= 255
          /\ taken = DOMAIN frames /\ c \in DOMAIN ReadTable(fam) => Held(fam, c, v, r)
      BY <1>1, <1>7, <2>1, RegisterTaken
    <2>3. v \in NativeEnvelope(UnitOf(c))
      BY Encodes
    <2>4. CodecShape'
      <3>1. regs' \in [ProtCodes -> RegisterValues]
        BY <1>7, <2>2, Zenon DEF CodecInv, CodecShape
      <3>2. asked' \in [ProtCodes -> Natives \cup {Unset}]
        <4>1. v \in Natives \cup {Unset}
          BY <2>3 DEF Natives
        <4>2. QED
          BY <1>7, <4>1 DEF CodecInv, CodecShape
      <3>3. fresh' \subseteq DOMAIN ReadTable(fam)
        BY <1>7 DEF CodecInv, CodecShape
      <3>4. QED
        BY <1>1, <1>4, <3>1, <3>2, <3>3 DEF CodecInv, CodecShape
    <2>5. ByteKept'
      <3>1. DOMAIN regs = ProtCodes
        BY DEF CodecInv, CodecShape
      <3>2. c = "CV" \/ regs'["CV"] = regs["CV"]
        BY <1>7, <3>1
      <3>3. c = "CV" => regs'["CV"] = r
        BY <1>7, <3>1
      <3>4. QED
        BY <1>1, <2>2, <3>2, <3>3 DEF CodecInv, ByteKept
    <2>6. AskedKept'
      <3> SUFFICES ASSUME NEW k \in ProtCodes
                   PROVE  (asked[k] = Unset \/ /\ asked[k] \in NativeEnvelope(UnitOf(k))
                                               /\ k \in DOMAIN ReadTable(fam) => Held(fam, k, asked[k], regs[k]))'
        BY DEF AskedKept
      <3>1. asked \in [ProtCodes -> Natives \cup {Unset}] /\ DOMAIN regs = ProtCodes
        BY DEF CodecInv, CodecShape
      <3>2. asked[k] = Unset \/ /\ asked[k] \in NativeEnvelope(UnitOf(k))
                                /\ k \in DOMAIN ReadTable(fam) => Held(fam, k, asked[k], regs[k])
        BY DEF CodecInv, AskedKept
      <3>3. \/ k = c /\ asked'[k] = Unset
            \/ k = c /\ asked'[k] = v /\ regs'[k] = r /\ taken = DOMAIN frames
            \/ asked'[k] = asked[k] /\ regs'[k] = regs[k]
        BY <1>7, <3>1
      <3>4. QED
        BY <1>1, <2>2, <2>3, <3>2, <3>3
    <2>7. FreshPublished'
      <3>1. ASSUME NEW k \in fresh'
            PROVE  Published(fam, k, regs'[k], pages, protValues[k])
        <4>1. k \in fresh /\ regs'[k] = regs[k]
          <5>1. DOMAIN regs = ProtCodes /\ k # c
            BY <1>7, <3>1 DEF CodecInv, CodecShape
          <5>2. QED
            BY <1>7, <3>1, <5>1
        <4>2. QED
          BY <4>1 DEF CodecInv, FreshPublished
      <3>2. QED
        BY <1>1, <3>1 DEF FreshPublished
    <2>8. QED
      BY <1>3, <1>5, <2>4, <2>5, <2>6, <2>7 DEF CodecInv
  <1>8. QED
    BY <1>2, <1>6, <1>7

\* What a buffered field decodes to (Decoded).
LEMMA DecodedFrom ==
    ASSUME NEW f \in Families, NEW c \in DOMAIN ReadTable(f), NEW buffer, NEW r \in Nat, NEW g,
           ReadTable(f)[c].page \in DOMAIN buffer, buffer[ReadTable(f)[c].page][c] = Shown(f, c, r, g)
    PROVE  /\ Decoded(f, c, buffer) = DecodedField(f, ReadTable(f)[c], Shown(f, c, r, g))
           /\ Decoded(f, c, buffer) \in (0 .. ReadSaneMax) \cup {Unset}
  <1>1. Decoded(f, c, buffer) = DecodedField(f, ReadTable(f)[c], Shown(f, c, r, g))
    BY DEF Decoded
  <1>2. QED
    BY <1>1, FieldDecodes

\* The fields of a page, as the read table has them.
LEMMA InPageIs ==
    ASSUME NEW f \in Families, NEW p \in PageNames
    PROVE  InPage(f, p) = {c \in DOMAIN ReadTable(f) : ReadTable(f)[c].page = p}
  BY DEF InPage, PageFields

\* A page joins the buffer and everything buffered is decoded again: fields of other pages keep their bytes,
\* those of this page are the registers.
LEMMA HandleProtectionPageKeeps ==
    ASSUME CodecInv, NEW p \in PageNames, NEW variant, HandleProtectionPage(p, variant)
    PROVE  CodecInv'
  <1>1. /\ fam' = fam /\ regs' = regs /\ asked' = asked /\ sentFrame' = sentFrame /\ writes' = writes
        /\ fresh' = fresh \cup InPage(fam, p)
    BY DEF HandleProtectionPage
  <1>2. fam \in Families /\ fresh \subseteq DOMAIN ReadTable(fam) /\ DOMAIN pages \subseteq PageNames
    BY DEF CodecInv, CodecShape
  <1>3. PICK buffer : buffer = pages'
    OBVIOUS
  <1>4. /\ DOMAIN buffer = DOMAIN pages \cup {p}
        /\ buffer[p] = PageReply(fam, p, variant)
        /\ \A q \in DOMAIN pages : q # p => buffer[q] = pages[q]
    BY <1>3 DEF HandleProtectionPage
  <1>5. \A c \in InPage(fam, p) : c \in DOMAIN ReadTable(fam) /\ ReadTable(fam)[c].page = p
                                 /\ buffer[p][c] = Shown(fam, c, regs[c], variant)
    BY <1>2, <1>4, InPageIs DEF PageReply, Shown
  <1>6. \A c \in DOMAIN ReadTable(fam) : c \in ProtCodes /\ regs[c] \in Nat
    <2> SUFFICES ASSUME NEW c \in DOMAIN ReadTable(fam)
                 PROVE  c \in ProtCodes /\ regs[c] \in Nat
      OBVIOUS
    <2>1. c \in ProtCodes
      BY <1>2, ReadTables
    <2>2. regs[c] \in RegisterValues
      BY <2>1 DEF CodecInv, CodecShape
    <2>3. QED
      BY <2>1, <2>2, RegisterNat
  <1>7. \A q \in DOMAIN buffer : \A c \in InPage(fam, q) : \E r \in Nat : \E g : buffer[q][c] = Shown(fam, c, r, g)
    <2> SUFFICES ASSUME NEW q \in DOMAIN buffer, NEW c \in InPage(fam, q)
                 PROVE  \E r \in Nat : \E g : buffer[q][c] = Shown(fam, c, r, g)
      OBVIOUS
    <2>1. CASE q = p
      BY <1>5, <1>6, <2>1
    <2>2. CASE q # p
      <3>1. q \in DOMAIN pages /\ buffer[q] = pages[q]
        BY <1>4, <2>2
      <3>2. \E r \in Nat : \E g : pages[q][c] = Shown(fam, c, r, g)
        BY <3>1 DEF CodecInv, PagesHold
      <3>3. QED
        BY <3>1, <3>2
    <2>3. QED
      BY <2>1, <2>2
  <1>8. protValues' = [c \in ProtCodes |->
                         IF Decoded(fam, c, buffer) = Unset THEN protValues[c] ELSE Decoded(fam, c, buffer)]
    BY <1>3 DEF HandleProtectionPage
  <1>9. ASSUME NEW c
        PROVE  Decoded(fam, c, buffer) \in (0 .. ReadSaneMax) \cup {Unset}
    <2>1. CASE c \notin DOMAIN ReadTable(fam)
      BY <2>1 DEF Decoded
    <2>2. CASE c \in DOMAIN ReadTable(fam) /\ ReadTable(fam)[c].page \notin DOMAIN buffer
      BY <2>2 DEF Decoded
    <2>3. CASE c \in DOMAIN ReadTable(fam) /\ ReadTable(fam)[c].page \in DOMAIN buffer
      <3>1. c \in InPage(fam, ReadTable(fam)[c].page)
        BY <1>2, <2>3, InPageIs, ReadTables
      <3>2. PICK r, g : r \in Nat /\ buffer[ReadTable(fam)[c].page][c] = Shown(fam, c, r, g)
        BY <1>7, <2>3, <3>1
      <3>3. QED
        BY <1>2, <2>3, <3>2, DecodedFrom
    <2>4. QED
      BY <2>1, <2>2, <2>3
  <1>10. CodecShape'
    <2>1. protValues' \in [ProtCodes -> (0 .. ReadSaneMax) \cup {Unset}]
      <3>1. protValues \in [ProtCodes -> (0 .. ReadSaneMax) \cup {Unset}]
        BY DEF CodecInv, CodecShape
      <3>2. ASSUME NEW c \in ProtCodes
            PROVE  (IF Decoded(fam, c, buffer) = Unset THEN protValues[c] ELSE Decoded(fam, c, buffer))
                       \in (0 .. ReadSaneMax) \cup {Unset}
        BY <1>9, <3>1
      <3>3. QED
        BY <1>8, <3>2, Zenon
    <2>2. DOMAIN pages' \subseteq PageNames
      BY <1>2, <1>3, <1>4
    <2>3. fresh' \subseteq DOMAIN ReadTable(fam)
      BY <1>1, <1>2, InPageIs
    <2>4. QED
      BY <1>1, <2>1, <2>2, <2>3 DEF CodecInv, CodecShape
  <1>11. ByteKept' /\ AskedKept' /\ FrameGood'
    BY <1>1 DEF CodecInv, ByteKept, AskedKept, FrameGood
  <1>12. PagesHold'
    BY <1>1, <1>3, <1>7 DEF PagesHold
  <1>13. UnreadUnset'
    <2> SUFFICES ASSUME NEW c \in ProtCodes \ DOMAIN ReadTable(fam)
                 PROVE  protValues'[c] = Unset
      BY <1>1 DEF UnreadUnset
    <2>1. Decoded(fam, c, buffer) = Unset
      BY DEF Decoded
    <2>2. protValues[c] = Unset
      BY DEF CodecInv, UnreadUnset
    <2>3. QED
      BY <1>8, <2>1, <2>2
  <1>14. ASSUME NEW c \in fresh'
         PROVE  Published(fam, c, regs[c], buffer, protValues'[c])
    <2>1. c \in DOMAIN ReadTable(fam) /\ c \in ProtCodes
      BY <1>1, <1>2, <1>6, InPageIs
    <2>2. /\ ReadTable(fam)[c].page \in DOMAIN buffer
          /\ \E g : buffer[ReadTable(fam)[c].page][c] = Shown(fam, c, regs[c], g)
      <3>1. CASE c \in InPage(fam, p)
        BY <1>4, <1>5, <3>1
      <3>2. CASE c \notin InPage(fam, p)
        <4>1. c \in fresh /\ ReadTable(fam)[c].page # p
          BY <1>1, <1>2, <2>1, <3>2, InPageIs
        <4>2. Published(fam, c, regs[c], pages, protValues[c])
          BY <4>1 DEF CodecInv, FreshPublished
        <4>3. QED
          BY <1>4, <4>1, <4>2 DEF Published
      <3>3. QED
        BY <3>1, <3>2
    <2>3. Decoded(fam, c, buffer) # Unset => protValues'[c] = Decoded(fam, c, buffer)
      BY <1>8, <2>1
    <2>4. QED
      BY <2>2, <2>3 DEF Published
  <1>15. FreshPublished'
    BY <1>1, <1>3, <1>14 DEF FreshPublished
  <1>16. QED
    BY <1>10, <1>11, <1>12, <1>13, <1>15 DEF CodecInv

\* The invariant holds in every behaviour.
LEMMA CodecInductive == CodecSpec => []CodecInv
  <1>1. CodecInv /\ [CodecNext]_codecVars => CodecInv'
    <2> SUFFICES ASSUME CodecInv, [CodecNext]_codecVars
                 PROVE  CodecInv'
      OBVIOUS
    <2>1. ASSUME writes < MaxWrites, NEW c \in ProtCodes, NEW cast \in BOOLEAN, NEW v \in Samples[UnitOf(c)],
                 WriteParam(c, v, cast)
          PROVE  CodecInv'
      BY <2>1, WriteParamKeeps
    <2>2. ASSUME NEW p \in PageNames, NEW variant \in VariantsOf(fam, p), HandleProtectionPage(p, variant)
          PROVE  CodecInv'
      BY <2>2, HandleProtectionPageKeeps
    <2>3. CASE UNCHANGED codecVars
      BY <2>3 DEF codecVars, CodecInv, CodecShape, ByteKept, AskedKept, PagesHold, UnreadUnset, FreshPublished,
                  FrameGood
    <2>4. QED
      BY <2>1, <2>2, <2>3 DEF CodecNext
  <1>2. QED
    BY <1>1, CodecInitially, PTL DEF CodecSpec

\* Native values are integers.
LEMMA EnvelopeInts ==
    ASSUME NEW c \in ProtCodes, NEW v \in NativeEnvelope(UnitOf(c))
    PROVE  v \in Int
  <1>1. UnitOf(c) \in {"V", "Hz", "s", "W", "slope", "mode"}
    BY Units4
  <1>2. v \in Nat
    BY <1>1, VoltRange, HertzRange, SecondRange, WattRange, SlopeRange, ModeRange
  <1>3. QED
    BY <1>2, SMT

\* What is published of a field read by one scale.
LEMMA PublishedBack ==
    ASSUME NEW f \in Families, NEW c \in DOMAIN ReadTable(f), ReadTable(f)[c].scale \in ReadScales, NEW r \in Nat,
           NEW buffer, NEW value, Published(f, c, r, buffer, value), Sane(Back(f, c, r))
    PROVE  value = Back(f, c, r) /\ value # Unset
  <1>1. PICK g : buffer[ReadTable(f)[c].page][c] = Shown(f, c, r, g)
    BY DEF Published
  <1>2. ReadTable(f)[c].page \in DOMAIN buffer
    BY DEF Published
  <1>3. Decoded(f, c, buffer) = Back(f, c, r)
    BY <1>1, <1>2, DecodedFrom, FieldBack
  <1>4. Back(f, c, r) # Unset
    <2>1. Back(f, c, r) \in Int
      BY BackIsInt
    <2>2. QED
      BY <2>1, CodecAssumption
  <1>5. QED
    BY <1>3, <1>4 DEF Published

\* What is published of the mode of a QS1.
LEMMA PublishedMode ==
    ASSUME NEW r \in Nat, NEW v \in NativeEnvelope("mode"), ModeHeld(v, r), NEW buffer, NEW value,
           Published("QS1", "CV", r, buffer, value), NEW m \in Nat, m = ModeOf(v)
    PROVE  /\ buffer["B"]["CV"][2] = 102 => value = 100 * ModeClass(m)
           /\ buffer["B"]["CV"][2] = 0 /\ m \in KnownModes => value = 100 * ModeNumber(m)
  <1>1. "CV" \in DOMAIN ReadTable("QS1") /\ ReadTable("QS1")["CV"].page = "B" /\ ReadTable("QS1")["CV"].scale = "nibble"
    <2>1. "CV" \in DOMAIN qs1ReadPages /\ qs1ReadPages["CV"].page = "B" /\ qs1ReadPages["CV"].scale = "nibble"
      BY DEF qs1ReadPages, RField
    <2>2. QED
      BY <2>1 DEF ReadTable
  <1>2. PICK g : buffer["B"]["CV"] = <<r, g>>
    BY <1>1 DEF Published, Shown, FieldBytes
  <1>3. Decoded("QS1", "CV", buffer) = qsModeFromPageB(<<r, g>>)
    BY <1>1, <1>2 DEF Decoded, DecodedField, Published
  <1>4. buffer["B"]["CV"][2] = g
    BY <1>2, SMT
  <1>5. PICK h \in Int, l \in Int : h = (r \div 16) % 4 /\ l = r % 16
    BY SMT
  <1>6. qsModeFromPageB(<<r, g>>) = CASE g = 102 -> 100 * (h + 12) [] g = 0 -> 100 * l [] OTHER -> Unset
    BY <1>5, SMT DEF qsModeFromPageB
  <1>7. 100 * (h + 12) # Unset /\ 100 * l # Unset
    <2>1. 100 * (h + 12) \in Int /\ 100 * l \in Int
      BY SMT
    <2>2. QED
      BY <2>1, CodecAssumption
  <1>8. g = 102 => value = 100 * (h + 12)
    BY <1>3, <1>6, <1>7 DEF Published
  <1>9. g = 0 => value = 100 * l
    <2>1. 0 # 102
      BY SMT
    <2>2. QED
      BY <1>3, <1>6, <1>7, <2>1 DEF Published
  <1>10. h + 12 = ModeClass(m) /\ (m \in KnownModes => l = ModeNumber(m))
    BY <1>5 DEF ModeHeld
  <1>11. QED
    BY <1>4, <1>8, <1>9, <1>10

\* The invariant gives WriteReadsBack for each fresh code.
LEMMA KeptReadsBack ==
    ASSUME CodecInv, NEW c \in fresh, asked[c] # Unset
    PROVE  /\ Readable(c) => /\ protValues[c] # Unset
                             /\ protValues[c] - asked[c] \in -CodeTolerance(c) .. CodeTolerance(c)
           /\ UnitOf(c) = "V" => /\ protValues[c] # Unset
                                 /\ protValues[c] - asked[c] \in -126 .. (IF c = "AB" THEN 72 ELSE 50)
           /\ UnitOf(c) = "slope" => protValues[c] # Unset /\ protValues[c] - asked[c] \in -28 .. 27
           /\ UnitOf(c) = "mode" => ModeReadsBack(c)
  <1>1. fam \in Families /\ c \in DOMAIN ReadTable(fam) /\ c \in ProtCodes
    BY ReadTables DEF CodecInv, CodecShape
  <1>2. Published(fam, c, regs[c], pages, protValues[c])
    BY DEF CodecInv, FreshPublished
  <1>3. asked[c] \in NativeEnvelope(UnitOf(c)) /\ Held(fam, c, asked[c], regs[c])
    BY <1>1 DEF CodecInv, AskedKept
  <1>4. regs[c] \in Nat
    <2>1. regs[c] \in RegisterValues
      BY <1>1 DEF CodecInv, CodecShape
    <2>2. QED
      BY <2>1, RegisterNat
  <1>5. PICK d : d = Back(fam, c, regs[c])
    OBVIOUS
  <1>6. ReadTable(fam)[c].scale \in ReadScales /\ Sane(d) => protValues[c] = d /\ protValues[c] # Unset
    BY <1>1, <1>2, <1>4, <1>5, PublishedBack
  <1>7. UnitOf(c) # "mode" => ReadTable(fam)[c].scale \in ReadScales
    BY <1>1, ReadTables, Units4
  <1>8. PICK t \in Nat : t = CodeTolerance(c)
    BY Tolerated
  <1>9. PICK a \in Int : a = asked[c]
    BY <1>1, <1>3, EnvelopeInts
  <1>10. ASSUME Readable(c)
        PROVE  protValues[c] # Unset /\ protValues[c] - asked[c] \in -CodeTolerance(c) .. CodeTolerance(c)
    <2>1. Legible(fam, c, asked[c], regs[c]) /\ UnitOf(c) \notin {"slope", "mode"}
      BY <1>10 DEF Readable, Legible
    <2>2. d \in Int /\ Sane(d) /\ -t <= d - a /\ d - a <= t
      BY <1>3, <1>5, <1>8, <1>9, <2>1 DEF Held, Kept, Sane
    <2>3. d - a \in -t .. t
      BY <2>2, SMT
    <2>4. QED
      BY <1>6, <1>7, <1>8, <1>9, <2>1, <2>2, <2>3
  <1>11. ASSUME UnitOf(c) = "V"
        PROVE  protValues[c] # Unset /\ protValues[c] - asked[c] \in -126 .. (IF c = "AB" THEN 72 ELSE 50)
    <2>1. PICK n \in Int : n = IF c = "AB" THEN 72 ELSE 50
      BY SMT
    <2>2. d \in Int /\ Sane(d) /\ -126 <= d - a /\ d - a <= n
      BY <1>3, <1>5, <1>9, <1>11, <2>1 DEF Held, Kept, Sane
    <2>3. d - a \in -126 .. n
      BY <2>2, SMT
    <2>4. QED
      BY <1>6, <1>7, <1>9, <1>11, <2>1, <2>2, <2>3
  <1>12. ASSUME UnitOf(c) = "slope"
        PROVE  protValues[c] # Unset /\ protValues[c] - asked[c] \in -28 .. 27
    <2>1. d \in Int /\ Sane(d) /\ -28 <= d - a /\ d - a <= 27
      BY <1>3, <1>5, <1>9, <1>12 DEF Held, SlopeHeld, Sane
    <2>2. d - a \in -28 .. 27
      BY <2>1, SMT
    <2>3. QED
      BY <1>6, <1>7, <1>9, <1>12, <2>1, <2>2
  <1>13. ASSUME UnitOf(c) = "mode"
        PROVE  ModeReadsBack(c)
    <2>1. c = "CV" /\ asked[c] \in NativeEnvelope("mode")
      BY <1>3, <1>13, Units4
    <2>2. PICK m \in Nat : m = ModeOf(asked[c])
      BY <2>1, ModeRange
    <2>3. CASE fam = "DS3"
      <3>1. d = 100 * ModeClass(m)
        BY <1>3, <1>5, <1>13, <2>2, <2>3 DEF Held
      <3>2. Sane(d)
        BY <3>1, SMT DEF Sane, ReadSaneMax, ModeClass
      <3>3. ReadTable(fam)[c].scale \in ReadScales
        BY <1>1, <2>3, ReadTables
      <3>4. protValues[c] = 100 * ModeClass(m)
        BY <1>6, <3>1, <3>2, <3>3
      <3>5. 102 # 0
        BY SMT
      <3>6. QED
        BY <2>2, <2>3, <3>4, <3>5 DEF ModeReadsBack
    <2>4. CASE fam = "QS1"
      <3>1. ModeHeld(asked[c], regs[c])
        BY <1>3, <1>13, <2>4 DEF Held
      <3>2. Published("QS1", "CV", regs[c], pages, protValues[c])
        BY <1>2, <2>1, <2>4
      <3>3. /\ pages["B"]["CV"][2] = 102 => protValues[c] = 100 * ModeClass(m)
            /\ pages["B"]["CV"][2] = 0 /\ m \in KnownModes => protValues[c] = 100 * ModeNumber(m)
        BY <1>4, <2>1, <2>2, <3>1, <3>2, PublishedMode
      <3>4. fam # "DS3"
        BY <2>4
      <3>5. QED
        BY <2>1, <2>2, <3>3, <3>4 DEF ModeReadsBack, KnownModes
    <2>5. QED
      BY <1>1, <2>3, <2>4 DEF Families
  <1>14. QED
    BY <1>10, <1>11, <1>12, <1>13

\* Over any number of commands and pages in any order, for every value the envelope admits and every code the
\* encoders accept.  A code of one linear scale or a period, which both families write and read, is read back
\* within the tolerance the reconciler compares with; the slope of a DS3 within one of the inverter's own units
\* (which is more than the tolerance), if it keeps slopes in the units SlopeRegisters takes from a capture; a mode
\* as its curve or its number, by the family and the page's variant, when every frame of it was taken; and of a
\* code no page has, CG of a DS3 and CA of a QS1, nothing is ever published (EncodeSetProtection,
\* DecodeProtectionReply, handleProtectionPage).
THEOREM WritesReadBack == CodecSpec => []WriteReadsBack
  <1>1. CodecInv => WriteReadsBack
    <2> SUFFICES ASSUME CodecInv
                 PROVE  WriteReadsBack
      OBVIOUS
    <2>1. CodecTypeOK
      <3>1. \A c \in ProtCodes : asked[c] = Unset \/ asked[c] \in NativeEnvelope(UnitOf(c))
        BY DEF CodecInv, AskedKept
      <3>2. \A c \in ProtCodes : protValues[c] = Unset \/ protValues[c] \in 0 .. ReadSaneMax
        BY DEF CodecInv, CodecShape
      <3>3. \A i \in DOMAIN sentFrame.frames : Len(sentFrame.frames[i]) = 6
        BY DEF CodecInv, FrameGood
      <3>4. fresh \subseteq ProtCodes
        BY ReadTables DEF CodecInv, CodecShape
      <3>5. QED
        BY <3>1, <3>2, <3>3, <3>4 DEF CodecInv, CodecShape, CodecTypeOK
    <2>2. \A c \in ProtCodes \ DOMAIN ReadTable(fam) : protValues[c] = Unset
      BY DEF CodecInv, UnreadUnset
    <2>3. QED
      BY <2>1, <2>2, KeptReadsBack DEF WriteReadsBack
  <1>2. QED
    BY <1>1, CodecInductive, PTL

\* Every frame the encoders make, each one of the several of a QS1's mode too, is recognised for what it is by
\* the router and passes the radio's list of commands (maybeReadAfterWrite, DispatchFrame).
THEOREM FramesAreRecognised == CodecSpec => []FrameRecognised
  <1>1. CodecInv => FrameRecognised
    BY DEF CodecInv, FrameGood, FrameRecognised, Recognised
  <1>2. QED
    BY <1>1, CodecInductive, PTL
=============================================================================
