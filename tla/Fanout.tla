------------------------------- MODULE Fanout -------------------------------
(***************************************************************************)
(* What a subscriber of inv-driver believes about the inventory            *)
(* (internal/events, internal/ipc subscriber side, wire DialLoop, and the  *)
(* subscriber client of ecu-sunspec).  Writers change a row first and      *)
(* publish afterwards; a subscriber gets a replay of the rows, then the    *)
(* queue that has filled meanwhile; one that reads too slowly is evicted,  *)
(* reconnects and starts over with what it has.                            *)
(***************************************************************************)
EXTENDS Integers, Sequences, FiniteSets

CONSTANTS
    Fleet,      \* inverters
    Setters,    \* connections in handleSetInverterPhaseReq
    Legs,       \* grid legs an inverter can be assigned to
    ChanCap,    \* the subscriber's buffer
    Absent      \* no row, no entry

ASSUME FanoutAssumption ==
    /\ ChanCap \in Nat \ {0} /\ Legs \subseteq Nat \ {0}
    /\ Absent \notin Nat /\ Absent \notin Fleet /\ {"remover", "frames"} \cap Setters = {}

(* Everyone who publishes: the setters, the deletion of an inverter and    *)
(* the frame handler of the radio backend.                                 *)
Writers == Setters \cup {"remover", "frames"}

VARIABLES
    inventory,  \* the rows: leg of the inverter, 0 when it is NULL
    writer,     \* each writer: what it has written and not yet published
    slow,       \* each writer's reference to a subscriber it found full
    subscribed, \* the subscriber of this session is in subs
    closes,     \* how often its channel was closed
    ch,         \* its channel
    conn,       \* the handler of the connection
    replayRows, \* rows of the replay still to be written
    latest,     \* the client's latest, kept over sessions
    excused     \* inverters whose entry may be off; not in the program

fanVars == <<inventory, writer, slow, subscribed, closes, ch, conn, replayRows, latest, excused>>

Rest == [pc |-> "idle", uid |-> Absent, leg |-> 0]
Entries == Legs \cup {0, Absent}
Envelope == [kind : {"info", "telemetry", "removed"}, uid : Fleet, leg : Legs \cup {0}]
Env(kind, u, leg) == [kind |-> kind, uid |-> u, leg |-> leg]

\* The types, a part of SubscriberCurrent.
FanTypeOK ==
    /\ inventory \in [Fleet -> Entries] /\ latest \in [Fleet -> Entries]
    /\ writer \in [Writers -> [pc : {"idle", "looked", "written", "sent"}, uid : Fleet \cup {Absent}, leg : Legs \cup {0}]]
    /\ slow \in [Writers -> {"none", "this", "old"}]
    /\ subscribed \in BOOLEAN /\ closes \in Nat
    /\ Len(ch) <= ChanCap /\ \A k \in 1 .. Len(ch) : ch[k] \in Envelope
    /\ conn \in {"down", "replay", "rows", "live"}
    /\ replayRows \in [Fleet -> Entries] /\ excused \subseteq Fleet

FanInit ==
    /\ inventory = [u \in Fleet |-> Absent] /\ latest = inventory /\ replayRows = inventory
    /\ writer = [w \in Writers |-> Rest] /\ slow = [w \in Writers |-> "none"]
    /\ subscribed = FALSE /\ closes = 0 /\ ch = <<>>
    /\ conn = "down" /\ excused = {}

-----------------------------------------------------------------------------
(* Writers.  Two that overlap on one inverter may publish in the other     *)
(* order; a removal nobody listens to is never repeated.                   *)

Overlaps(w, u) == \E v \in Writers \ {w} : writer[v].pc = "written" /\ writer[v].uid = u

Wrote(w, u, leg, also) ==
    /\ writer' = [writer EXCEPT ![w] = [pc |-> "written", uid |-> u, leg |-> leg]]
    /\ excused' = excused \cup (IF Overlaps(w, u) \/ also THEN {u} ELSE {})
    /\ UNCHANGED <<slow, subscribed, closes, ch, conn, replayRows, latest>>

(* handleSetInverterPhaseReq: the row must exist when it is looked up; the *)
(* upsert brings it back if it was deleted since.                          *)
SetLookup(s) ==
    /\ writer[s] = Rest
    /\ \E u \in Fleet, leg \in Legs :
          /\ inventory[u] # Absent
          /\ writer' = [writer EXCEPT ![s] = [pc |-> "looked", uid |-> u, leg |-> leg]]
    /\ UNCHANGED <<inventory, slow, subscribed, closes, ch, conn, replayRows, latest, excused>>

SetPersist(s) ==
    /\ writer[s].pc = "looked"
    /\ inventory' = [inventory EXCEPT ![writer[s].uid] = writer[s].leg]
    /\ Wrote(s, writer[s].uid, writer[s].leg, FALSE)

(* A telemetry frame: the row is created with no leg, or keeps its own.    *)
FrameStored(u) ==
    /\ writer["frames"] = Rest
    /\ inventory' = [inventory EXCEPT ![u] = IF @ = Absent THEN 0 ELSE @]
    /\ Wrote("frames", u, 0, FALSE)

(* DeleteInverter, called with the inverter's frames still coming in.      *)
RowDeleted(u) ==
    /\ writer["remover"] = Rest /\ inventory[u] # Absent
    /\ inventory' = [inventory EXCEPT ![u] = Absent]
    /\ Wrote("remover", u, 0, ~subscribed)

-----------------------------------------------------------------------------
(* Publish: under the read lock into every channel with room, then, under  *)
(* the write lock, out with those that had none.                           *)

KindOf(w) == IF w = "remover" THEN "removed" ELSE IF w = "frames" THEN "telemetry" ELSE "info"

Publish(w) ==
    /\ writer[w].pc = "written"
    /\ LET fits == subscribed /\ Len(ch) < ChanCap IN
       /\ ch' = IF fits THEN Append(ch, Env(KindOf(w), writer[w].uid, writer[w].leg)) ELSE ch
       /\ slow' = IF subscribed /\ ~fits THEN [slow EXCEPT ![w] = "this"] ELSE slow
       /\ writer' = [writer EXCEPT ![w] = IF subscribed /\ ~fits THEN [@ EXCEPT !.pc = "sent"] ELSE Rest]
    \* What an evicted subscriber misses is a removal it will not hear of.
    /\ excused' = IF w = "remover" /\ ~(subscribed /\ Len(ch) < ChanCap)
                  THEN excused \cup {writer[w].uid} ELSE excused
    /\ UNCHANGED <<inventory, subscribed, closes, conn, replayRows, latest>>

(* Faulty variant: without looking whether someone else evicted it.        *)
EvictUnchecked(w) ==
    /\ writer[w].pc = "sent" /\ writer' = [writer EXCEPT ![w] = Rest]
    /\ slow' = [slow EXCEPT ![w] = "none"]
    /\ subscribed' = FALSE /\ closes' = closes + 1
    /\ UNCHANGED <<inventory, ch, conn, replayRows, latest, excused>>

Evict(w) ==
    /\ writer[w].pc = "sent" /\ writer' = [writer EXCEPT ![w] = Rest]
    /\ slow' = [slow EXCEPT ![w] = "none"]
    /\ LET live == slow[w] = "this" /\ subscribed IN
       /\ subscribed' = (subscribed /\ ~live)
       /\ closes' = IF live THEN closes + 1 ELSE closes
    /\ UNCHANGED <<inventory, ch, conn, replayRows, latest, excused>>

-----------------------------------------------------------------------------
(* handleSubscriber: subscribe, replay, then the queue.  What it writes is *)
(* applied by the client in the order written; the connection can be lost  *)
(* at any time, and the client dials again.                                *)

Subscribe ==
    /\ conn = "down" /\ conn' = "replay"
    /\ subscribed' = TRUE /\ closes' = 0 /\ ch' = <<>>
    /\ slow' = [w \in Writers |-> IF slow[w] = "this" THEN "old" ELSE slow[w]]
    /\ UNCHANGED <<inventory, writer, replayRows, latest, excused>>

ReplayQuery ==
    /\ conn = "replay" /\ conn' = "rows"
    /\ replayRows' = inventory
    /\ UNCHANGED <<inventory, writer, slow, subscribed, closes, ch, latest, excused>>

(* applyInfo of a replayed row: a NULL leg leaves the cached one.          *)
Replayed(old, row) == IF row # 0 THEN row ELSE IF old = Absent THEN 0 ELSE old

(* Faulty variant: subscribed only when the replay has been written.       *)
ReplayRowThenSubscribe ==
    /\ conn = "rows"
    /\ \/ \E u \in Fleet : /\ replayRows[u] # Absent
                         /\ latest' = [latest EXCEPT ![u] = Replayed(@, replayRows[u])]
                         /\ replayRows' = [replayRows EXCEPT ![u] = Absent]
                         /\ UNCHANGED <<conn, ch>>
       \/ /\ \A u \in Fleet : replayRows[u] = Absent
          /\ conn' = "live" /\ ch' = <<>> /\ UNCHANGED <<latest, replayRows>>
    /\ UNCHANGED <<inventory, writer, slow, subscribed, closes, excused>>

ReplayRow ==
    /\ conn = "rows"
    /\ \/ \E u \in Fleet : /\ replayRows[u] # Absent
                         /\ latest' = [latest EXCEPT ![u] = Replayed(@, replayRows[u])]
                         /\ replayRows' = [replayRows EXCEPT ![u] = Absent]
                         /\ conn' = conn
       \/ (\A u \in Fleet : replayRows[u] = Absent) /\ conn' = "live" /\ UNCHANGED <<latest, replayRows>>
    /\ UNCHANGED <<inventory, writer, slow, subscribed, closes, ch, excused>>

(* session: applyInfo merges, applyTelemetry keeps the identity fields,    *)
(* removeInverter forgets.                                                 *)
AppliedTo(old, e) ==
    IF e.kind = "removed" THEN Absent
    ELSE IF e.kind = "info" THEN e.leg
    ELSE IF old = Absent THEN 0 ELSE old

Deliver ==
    /\ conn = "live" /\ ch # <<>> /\ ch' = Tail(ch)
    /\ latest' = [latest EXCEPT ![Head(ch).uid] = AppliedTo(@, Head(ch))]
    /\ UNCHANGED <<inventory, writer, slow, subscribed, closes, conn, replayRows, excused>>

(* An evicted channel is drained, then its connection is closed; a write   *)
(* error or a hang-up ends it earlier.  The queue is lost with it: a       *)
(* removal in it is not repeated.                                          *)
Unsubscribe ==
    /\ conn # "down" /\ conn' = "down"
    /\ subscribed' = FALSE /\ closes' = IF subscribed THEN closes + 1 ELSE closes
    /\ excused' = excused \cup {ch[k].uid : k \in {k \in 1 .. Len(ch) : ch[k].kind = "removed"}}
    /\ ch' = <<>> /\ replayRows' = [u \in Fleet |-> Absent]
    /\ UNCHANGED <<inventory, writer, slow, latest>>

(* A new process starts with an empty map.                                 *)
ClientRestart ==
    /\ conn = "down" /\ latest' = [u \in Fleet |-> Absent]
    /\ excused' = {u \in excused : \E w \in Writers : writer[w].uid = u}
    /\ UNCHANGED <<inventory, writer, slow, subscribed, closes, ch, conn, replayRows>>

FanNext ==
    \/ \E s \in Setters : SetLookup(s) \/ SetPersist(s)
    \/ \E u \in Fleet : FrameStored(u) \/ RowDeleted(u)
    \/ \E w \in Writers : Publish(w) \/ Evict(w)
    \/ Subscribe \/ ReplayQuery \/ ReplayRow \/ Deliver \/ Unsubscribe \/ ClientRestart

FanSpec == FanInit /\ [][FanNext]_fanVars

-----------------------------------------------------------------------------
(* A channel is closed once and never sent to after that, whoever evicts   *)
(* the subscriber or hangs up on it (publisher.go:56-98): anything else    *)
(* panics the daemon.                                                      *)
ClosedOnce == closes <= 1 /\ (subscribed => closes = 0)

(* A subscriber that has been served everything knows the inventory: what  *)
(* was written before, during or after its replay, and whatever happened   *)
(* to its earlier sessions.  Excused are inverters with two overlapping    *)
(* writers and those deleted while it was not listening.                   *)
Settled == conn = "live" /\ subscribed /\ ch = <<>> /\ \A w \in Writers : writer[w].pc \in {"idle", "looked"}
SubscriberCurrent == FanTypeOK /\ (Settled => \A u \in Fleet \ excused : latest[u] = inventory[u])
=============================================================================
