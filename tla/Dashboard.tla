------------------------------ MODULE Dashboard ------------------------------
(***************************************************************************)
(* What a browser shows of the fleet (cmd/ecu-web: internal/uds, snapshot, *)
(* httpserver/sse.go).  The session to inv-driver folds envelopes into the *)
(* snapshot and marks the hub dirty; the hub renders at most once per      *)
(* interval and queues the frame for every browser; a browser starts with  *)
(* a frame of its own.  Whether an inverter is online is decided when a    *)
(* frame is rendered.                                                      *)
(***************************************************************************)
EXTENDS Naturals, Sequences, SequencesExt

CONSTANTS
    Shown,         \* inverters
    Browsers,
    OnlineWindow,  \* in time steps
    QueueCap,      \* frames queued for a browser: 8
    MaxEnvelopes,  \* bound on the envelopes received
    Unknown        \* no entry, no frame

ASSUME DashboardAssumption == {OnlineWindow, QueueCap, MaxEnvelopes} \subseteq Nat \ {0}

VARIABLES
    link,      \* the session with inv-driver: "down", "up" or "notify" between an update and onChange
    received,  \* envelopes received
    snap,      \* per inverter: [watts, age, told], or Unknown
    dirty,     \* the hub's channel of one
    owed,      \* run: pending
    outgoing,  \* the frame run has rendered and not yet broadcast
    page,      \* each browser: "gone", "added", "primed" or "live"
    queue,     \* its channel
    view,      \* the frame it shows
    missed     \* history: the last frame broadcast to it found its channel full

dashVars == <<link, received, snap, dirty, owed, outgoing, page, queue, view, missed>>

\* An entry made by an InverterInfo alone has no telemetry yet.
Entry == [watts : {"none", "low", "high"}, age : 0 .. OnlineWindow + 1, told : BOOLEAN]
\* What a frame tells of each inverter.
Frames == [Shown -> [watts : {"none", "low", "high"}, told : BOOLEAN, online : BOOLEAN] \cup {Unknown}]

ASSUME UnknownAssumption ==
    /\ Unknown \notin Entry /\ Unknown \notin Frames
    /\ Unknown \notin [watts : {"none", "low", "high"}, told : BOOLEAN, online : BOOLEAN]

\* The types, a part of DashboardCurrent.
DashTypeOK ==
    /\ link \in {"down", "up", "notify"} /\ received \in 0 .. MaxEnvelopes
    /\ snap \in [Shown -> Entry \cup {Unknown}] /\ {dirty, owed} \subseteq BOOLEAN
    /\ page \in [Browsers -> {"gone", "added", "primed", "live"}]
    /\ \A b \in Browsers : Len(queue[b]) <= QueueCap
    /\ missed \in [Browsers -> BOOLEAN]

DashInit ==
    /\ link = "down" /\ received = 0 /\ snap = [u \in Shown |-> Unknown]
    /\ dirty = FALSE /\ owed = FALSE /\ outgoing = Unknown
    /\ page = [b \in Browsers |-> "gone"] /\ queue = [b \in Browsers |-> <<>>]
    /\ view = [b \in Browsers |-> Unknown] /\ missed = [b \in Browsers |-> FALSE]

-----------------------------------------------------------------------------
(* The session, the only writer of the snapshot.                           *)

(* DialLoop: the session comes and goes; the snapshot stays.               *)
LinkTurns ==
    /\ link # "notify" /\ link' = (IF link = "down" THEN "up" ELSE "down")
    /\ UNCHANGED <<received, snap, dirty, owed, outgoing, page, queue, view, missed>>

Known(u) == IF snap[u] = Unknown THEN [watts |-> "none", age |-> OnlineWindow + 1, told |-> FALSE] ELSE snap[u]

Fold(u, entry) ==
    /\ link = "up" /\ received < MaxEnvelopes /\ received' = received + 1
    /\ snap' = [snap EXCEPT ![u] = entry]
    /\ UNCHANGED <<dirty, owed, outgoing, page, queue, view, missed>>

(* A reading, with the time inv-driver put into it.                        *)
ApplyTelemetry(u) ==
    \E w \in {"low", "high"} : Fold(u, [watts |-> w, age |-> 0, told |-> Known(u).told]) /\ link' = "notify"

(* Identity: lastSeen only moves forward, the reading stays.               *)
ApplyInfo(u) == Fold(u, [watts |-> Known(u).watts, age |-> 0, told |-> TRUE]) /\ link' = "notify"

(* Nothing to tell if nobody knew it.                                      *)
RemoveInverter(u) == Fold(u, Unknown) /\ link' = (IF snap[u] = Unknown THEN "up" ELSE "notify")

(* onChange, after the lock is released: MarkDirty never blocks.           *)
MarkDirty ==
    /\ link = "notify" /\ link' = "up" /\ dirty' = TRUE
    /\ UNCHANGED <<received, snap, owed, outgoing, page, queue, view, missed>>

-----------------------------------------------------------------------------
(* Fleet and toDTO.                                                        *)

Online(entry) == entry.watts # "none" /\ entry.age <= OnlineWindow
Render ==
    [u \in Shown |-> IF snap[u] = Unknown THEN Unknown
                     ELSE [watts |-> snap[u].watts, told |-> snap[u].told, online |-> Online(snap[u])]]

(* run: the news is noted ...                                              *)
HubNotes ==
    /\ dirty /\ outgoing = Unknown /\ dirty' = FALSE /\ owed' = TRUE
    /\ UNCHANGED <<link, received, snap, outgoing, page, queue, view, missed>>

(* ... and rendered at the next tick ...                                   *)
HubRenders ==
    /\ owed /\ outgoing = Unknown /\ owed' = FALSE /\ outgoing' = Render
    /\ UNCHANGED <<link, received, snap, dirty, page, queue, view, missed>>

\* Faulty variant: a browser is added once its first frame is written.
RegisteredLive(b) == page[b] = "live"

Registered(b) == page[b] # "gone"

(* ... and broadcast; a full channel misses it.                            *)
BroadcastFrame ==
    /\ outgoing # Unknown /\ outgoing' = Unknown
    /\ queue' = [b \in Browsers |-> IF Registered(b) /\ Len(queue[b]) < QueueCap
                                    THEN Append(queue[b], outgoing) ELSE queue[b]]
    /\ missed' = [b \in Browsers |-> IF Registered(b) THEN Len(queue[b]) = QueueCap ELSE missed[b]]
    /\ UNCHANGED <<link, received, snap, dirty, owed, page, view>>

-----------------------------------------------------------------------------
(* ServeHTTP.                                                              *)

StreamOpens(b) ==
    /\ page[b] = "gone" /\ page' = [page EXCEPT ![b] = "added"]
    /\ UNCHANGED <<link, received, snap, dirty, owed, outgoing, queue, view, missed>>

StreamPrimes(b) ==
    /\ page[b] = "added" /\ page' = [page EXCEPT ![b] = "primed"] /\ view' = [view EXCEPT ![b] = Render]
    /\ UNCHANGED <<link, received, snap, dirty, owed, outgoing, queue, missed>>
StreamLoops(b) ==
    /\ page[b] = "primed" /\ page' = [page EXCEPT ![b] = "live"]
    /\ UNCHANGED <<link, received, snap, dirty, owed, outgoing, queue, view, missed>>

StreamWrites(b) ==
    /\ page[b] = "live" /\ queue[b] # <<>>
    /\ view' = [view EXCEPT ![b] = Head(queue[b])] /\ queue' = [queue EXCEPT ![b] = Tail(@)]
    /\ UNCHANGED <<link, received, snap, dirty, owed, outgoing, page, missed>>

(* The request ends, or a write fails.                                     *)
StreamEnds(b) ==
    /\ page[b] # "gone" /\ page' = [page EXCEPT ![b] = "gone"]
    /\ queue' = [queue EXCEPT ![b] = <<>>] /\ view' = [view EXCEPT ![b] = Unknown]
    /\ missed' = [missed EXCEPT ![b] = FALSE]
    /\ UNCHANGED <<link, received, snap, dirty, owed, outgoing>>

(* Time passes; nobody is told.                                            *)
Ageing ==
    /\ snap' = [u \in Shown |->
           IF snap[u] = Unknown \/ snap[u].age > OnlineWindow THEN snap[u] ELSE [snap[u] EXCEPT !.age = @ + 1]]
    /\ UNCHANGED <<link, received, dirty, owed, outgoing, page, queue, view, missed>>

DashNext ==
    \/ LinkTurns \/ MarkDirty \/ HubNotes \/ HubRenders \/ BroadcastFrame \/ Ageing
    \/ \E u \in Shown : ApplyTelemetry(u) \/ ApplyInfo(u) \/ RemoveInverter(u)
    \/ \E b \in Browsers :
          StreamOpens(b) \/ StreamPrimes(b) \/ StreamLoops(b) \/ StreamWrites(b) \/ StreamEnds(b)

DashSpec == DashInit /\ [][DashNext]_dashVars

-----------------------------------------------------------------------------
(* Properties.                                                             *)

\* Everything that was received has been delivered to b.
AtRest(b) ==
    /\ link # "notify" /\ ~dirty /\ ~owed /\ outgoing = Unknown
    /\ page[b] = "live" /\ queue[b] = <<>> /\ ~missed[b]

\* The frame tells of u what the snapshot does; it may call an inverter
\* online that has fallen silent since, but not the other way round.
SameAs(u, frame) ==
    IF frame[u] = Unknown \/ snap[u] = Unknown THEN frame[u] = snap[u]
    ELSE /\ frame[u].watts = snap[u].watts /\ frame[u].told = snap[u].told
         /\ Online(snap[u]) => frame[u].online

(* The dashboard ends up current (sse.go:16-20,41-43,106-108): however     *)
(* updates, renderings, broadcasts and new browsers fall together, once    *)
(* nothing is under way a browser shows the snapshot, unless the last      *)
(* frame found its channel full.                                           *)
DashboardCurrent ==
    DashTypeOK /\ \A b \in Browsers : AtRest(b) => \A u \in Shown : SameAs(u, view[b])
=============================================================================
