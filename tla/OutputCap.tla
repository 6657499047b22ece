----------------------------- MODULE OutputCap -----------------------------
(***************************************************************************)
(* The output cap an inverter is meant to hold (internal/ingest/powercap,  *)
(* protection; internal/store/power_cap; cmd/inv-driver/setpower).  A      *)
(* controller's set-power frame is routed to the radio backend first and   *)
(* recorded as the intent afterwards; read-backs are queued for a single   *)
(* worker; each page that comes back is compared with the intent, and a    *)
(* cap that drifted is sent again, at most once per interval.              *)
(***************************************************************************)
EXTENDS Integers, Sequences

CONSTANTS
    Capped,         \* inverters of one family, so a broadcast addresses them all
    Watts,          \* what DA can read: in range or not
    MinCapW, MaxCapW,  \* MinPanelLimitW, MaxPanelLimitW
    Tolerance,      \* capDriftToleranceW
    ReadQueueCap,   \* protReadQueueCap
    DownCap,        \* the backend's queue (publisherOutCap)
    MaxMoves,       \* bound on commands, drifts, link losses and restarts together
    Nobody          \* no inverter, no recorded cap

ASSUME WattsAssumption == Watts \subseteq Nat /\ MinCapW \in Nat /\ MaxCapW \in Nat
ASSUME NobodyAssumption == Nobody \notin Capped /\ Nobody \notin Watts

InRange(w) == MinCapW <= w /\ w <= MaxCapW
Caps == {w \in Watts : InRange(w)}

VARIABLES
    holds,      \* the cap each inverter really applies
    intent,     \* the table power_cap_intent
    known,      \* the DA in protValues
    hot,        \* capReassertAt younger than the interval
    route,      \* the controller's handler between routing and recording
    toBackend,  \* frames queued for the backend
    fromAir,    \* pages on their way back
    page,       \* the page in the handler
    afterWrite, \* inverters with a read-back waiting out its delay
    readQueue,  \* protReadQueue
    attached,   \* the backend is connected
    moves       \* what MaxMoves bounds

capVars == <<holds, intent, known, hot, route, toBackend, fromAir, page, afterWrite, readQueue, attached, moves>>

NoPage == [inv |-> Nobody, da |-> 0, want |-> 0, pc |-> "idle"]
NoRoute == [to |-> {}, w |-> 0]
Set(to, w) == [kind |-> "set", to |-> to, w |-> w]
Read(i) == [kind |-> "read", to |-> {i}, w |-> 0]

\* The types, a part of CapConverges.
CapTypeOK ==
    /\ holds \in [Capped -> Watts]
    /\ intent \in [Capped -> Caps \cup {Nobody}] /\ known \in [Capped -> Watts \cup {Nobody}]
    /\ hot \in [Capped -> BOOLEAN] /\ attached \in BOOLEAN /\ moves \in 0 .. MaxMoves
    /\ route \in [to : SUBSET Capped, w : Watts \cup {0}]
    /\ Len(toBackend) <= DownCap /\ Len(readQueue) <= ReadQueueCap
    /\ afterWrite \subseteq Capped
    /\ page.pc \in {"idle", "check", "assert", "cache"}

CapInit ==
    /\ holds \in [Capped -> Watts]
    /\ intent = [i \in Capped |-> Nobody] /\ known = [i \in Capped |-> Nobody]
    /\ hot = [i \in Capped |-> FALSE]
    /\ route = NoRoute /\ page = NoPage
    /\ toBackend = <<>> /\ fromAir = <<>> /\ readQueue = <<>>
    /\ afterWrite = {} /\ attached = TRUE /\ moves = 0

-----------------------------------------------------------------------------
(* SendToBackend: refused without a backend or with its queue full.        *)
CanSend == attached /\ Len(toBackend) < DownCap

(* triggerProtectionRead: a full queue drops the request.                  *)
Queued(i) == IF Len(readQueue) < ReadQueueCap THEN Append(readQueue, i) ELSE readQueue

(* routeDownstream: the frame goes out first; a unicast also schedules a   *)
(* read-back.  A refused frame leaves no intent.                           *)
RouteDownstream ==
    /\ route = NoRoute /\ moves < MaxMoves /\ CanSend
    /\ \E w \in Caps, to \in {{i} : i \in Capped} \cup {Capped}, unicast \in BOOLEAN :
          /\ unicast => \E i \in to : to = {i}
          /\ ~unicast => to = Capped
          /\ toBackend' = Append(toBackend, Set(to, w))
          /\ afterWrite' = IF unicast THEN afterWrite \cup to ELSE afterWrite
          /\ route' = [to |-> to, w |-> w]
    /\ moves' = moves + 1
    /\ UNCHANGED <<holds, intent, known, hot, fromAir, page, readQueue, attached>>

(* recordCapIntent, after the audit row: it may fail, which is only logged.*)
RecordCapIntent ==
    /\ route # NoRoute /\ route' = NoRoute
    /\ \/ intent' = [i \in Capped |-> IF i \in route.to THEN route.w ELSE intent[i]]
       \/ intent' = intent
    /\ UNCHANGED <<holds, known, hot, toBackend, fromAir, page, afterWrite, readQueue, attached, moves>>

-----------------------------------------------------------------------------
(* Reads: first-seen (the inverter comes back after a gap) and after a     *)
(* write; one worker sends the page queries, whether or not they are taken.*)

(* The gap that makes an inverter first-seen again outlasts any queue.     *)
ReadOnFirstSeen(i) ==
    /\ i \notin afterWrite /\ \A q \in 1 .. Len(readQueue) : readQueue[q] # i
    /\ \A q \in 1 .. Len(toBackend) : i \notin toBackend[q].to
    /\ readQueue' = Queued(i)
    /\ UNCHANGED <<holds, intent, known, hot, route, toBackend, fromAir, page, afterWrite, attached, moves>>

ReadAfterWrite(i) ==
    /\ i \in afterWrite /\ afterWrite' = afterWrite \ {i}
    /\ readQueue' = Queued(i)
    /\ UNCHANGED <<holds, intent, known, hot, route, toBackend, fromAir, page, attached, moves>>

ProtReadWorker ==
    /\ readQueue # <<>> /\ readQueue' = Tail(readQueue)
    /\ toBackend' = IF CanSend THEN Append(toBackend, Read(Head(readQueue))) ELSE toBackend
    /\ UNCHANGED <<holds, intent, known, hot, route, fromAir, page, afterWrite, attached, moves>>

-----------------------------------------------------------------------------
(* Outside inv-driver: the backend and the inverters.  A frame can be lost *)
(* on the air; an inverter can forget its cap; the link can drop.          *)

RadioTakes(lost) ==
    /\ attached /\ toBackend # <<>> /\ toBackend' = Tail(toBackend)
    /\ LET f == Head(toBackend) IN
       /\ f.kind = "set" => fromAir' = fromAir /\
             holds' = [i \in Capped |-> IF i \in f.to \ lost THEN f.w ELSE holds[i]]
       /\ f.kind = "read" => holds' = holds /\
             fromAir' = IF f.to \cap lost = {} /\ fromAir = <<>>
                        THEN <<[inv |-> CHOOSE i \in f.to : TRUE, da |-> holds[CHOOSE i \in f.to : TRUE]]>>
                        ELSE fromAir
    /\ UNCHANGED <<intent, known, hot, route, page, afterWrite, readQueue, attached, moves>>

SetLands(i) == toBackend # <<>> /\ Head(toBackend).kind = "set" /\ i \in Head(toBackend).to /\ RadioTakes({})
ReadLands(i) == toBackend # <<>> /\ Head(toBackend) = Read(i) /\ fromAir = <<>> /\ RadioTakes({})

Disturb ==
    /\ moves < MaxMoves /\ moves' = moves + 1
    /\ \/ \E i \in Capped, w \in Watts :
             holds' = [holds EXCEPT ![i] = w] /\ UNCHANGED <<toBackend, attached>>
       \/ attached /\ attached' = FALSE /\ toBackend' = <<>> /\ UNCHANGED holds
    /\ UNCHANGED <<intent, known, hot, route, fromAir, page, afterWrite, readQueue>>

Attach ==
    /\ ~attached /\ attached' = TRUE
    /\ UNCHANGED <<holds, intent, known, hot, route, toBackend, fromAir, page, afterWrite, readQueue, moves>>

-----------------------------------------------------------------------------
(* handleProtectionPage: the reply of another family is dropped, the drift *)
(* is checked on this page alone, then the values are merged and published.*)

PageArrives ==
    /\ page = NoPage /\ fromAir # <<>> /\ fromAir' = Tail(fromAir)
    /\ \/ page' = [inv |-> Head(fromAir).inv, da |-> Head(fromAir).da, want |-> 0, pc |-> "check"]
       \/ page' = NoPage
    /\ UNCHANGED <<holds, intent, known, hot, route, toBackend, afterWrite, readQueue, attached, moves>>

(* Faulty variant: only a cap above the intent counts as drifted.          *)
DriftedAbove(da, want) == da > want + Tolerance

Drifted(da, want) == da > want + Tolerance \/ want > da + Tolerance

(* checkCapDrift up to the decision: without an intent the first in-range  *)
(* read-back becomes the intent.                                           *)
CheckCapDrift ==
    /\ page.pc = "check"
    /\ LET i == page.inv IN
       /\ intent' = IF intent[i] = Nobody /\ InRange(page.da) THEN [intent EXCEPT ![i] = page.da] ELSE intent
       /\ page' = IF intent[i] # Nobody /\ Drifted(page.da, intent[i])
                  THEN [page EXCEPT !.want = intent[i], !.pc = "assert"]
                  ELSE [page EXCEPT !.pc = "cache"]
    /\ UNCHANGED <<holds, known, hot, route, toBackend, fromAir, afterWrite, readQueue, attached, moves>>

(* ... and from there: the interval is charged before the frame is routed, *)
(* even if the backend then refuses it.                                    *)
Reassert ==
    /\ page.pc = "assert" /\ page' = [page EXCEPT !.pc = "cache"]
    /\ LET i == page.inv IN
       /\ hot' = [hot EXCEPT ![i] = TRUE]
       /\ toBackend' = IF ~hot[i] /\ CanSend THEN Append(toBackend, Set({i}, page.want)) ELSE toBackend
       /\ afterWrite' = IF ~hot[i] /\ CanSend THEN afterWrite \cup {i} ELSE afterWrite
    /\ UNCHANGED <<holds, intent, known, route, fromAir, readQueue, attached, moves>>

CachePage ==
    /\ page.pc = "cache" /\ page' = NoPage
    /\ known' = [known EXCEPT ![page.inv] = page.da]
    /\ UNCHANGED <<holds, intent, hot, route, toBackend, fromAir, afterWrite, readQueue, attached, moves>>

(* The interval runs out.                                                  *)
CoolDown(i) ==
    /\ hot[i] /\ hot' = [hot EXCEPT ![i] = FALSE]
    /\ UNCHANGED <<holds, intent, known, route, toBackend, fromAir, page, afterWrite, readQueue, attached, moves>>

(* A restart keeps the table and forgets the rest.                         *)
CapRestart ==
    /\ moves < MaxMoves /\ moves' = moves + 1
    /\ known' = [i \in Capped |-> Nobody] /\ hot' = [i \in Capped |-> FALSE]
    /\ route' = NoRoute /\ page' = NoPage
    /\ toBackend' = <<>> /\ fromAir' = <<>> /\ readQueue' = <<>>
    /\ afterWrite' = {} /\ attached' = FALSE
    /\ UNCHANGED <<holds, intent>>

CapNext ==
    \/ RouteDownstream \/ RecordCapIntent \/ ProtReadWorker \/ Disturb \/ Attach
    \/ PageArrives \/ CheckCapDrift \/ Reassert \/ CachePage \/ CapRestart
    \/ \E lost \in SUBSET Capped : RadioTakes(lost)
    \/ \E i \in Capped : ReadOnFirstSeen(i) \/ ReadAfterWrite(i) \/ CoolDown(i)

(* Every goroutine goes on; an inverter comes back again and again (it     *)
(* sleeps every night); the air does not lose every frame of one kind.     *)
CapFairness ==
    /\ WF_capVars(RecordCapIntent) /\ WF_capVars(ProtReadWorker) /\ WF_capVars(Attach)
    /\ WF_capVars(CheckCapDrift) /\ WF_capVars(Reassert) /\ WF_capVars(CachePage)
    /\ SF_capVars(PageArrives /\ page' # NoPage)
    /\ \A i \in Capped :
          /\ WF_capVars(ReadAfterWrite(i)) /\ WF_capVars(CoolDown(i)) /\ WF_capVars(ReadOnFirstSeen(i))
          /\ SF_capVars(SetLands(i)) /\ SF_capVars(ReadLands(i))

CapSpec == CapInit /\ [][CapNext]_capVars /\ CapFairness

-----------------------------------------------------------------------------
(* Once nobody commands and nothing is disturbed any more, every inverter  *)
(* ends up with the cap recorded for it and keeps it: whatever was lost,   *)
(* raced or restarted on the way, drift is noticed and repaired.           *)
CapConverges ==
    /\ []CapTypeOK
    /\ \A i \in Capped : <>[](intent[i] # Nobody => holds[i] - intent[i] \in -Tolerance .. Tolerance)
=============================================================================
