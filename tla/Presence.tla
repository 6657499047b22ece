------------------------------ MODULE Presence ------------------------------
(***************************************************************************)
(* Who is on the air, as inv-driver sees it (internal/ingest): every frame *)
(* of an inverter passes the first-seen gate (which re-arms the start-up   *)
(* read and the reconcile), the online tracker and, once its rows are      *)
(* stored, the fault tracker.  A sweeper turns silence into events, an     *)
(* operator can delete an inverter, the daemon can restart.                *)
(*                                                                         *)
(* Time is kept as ages: how many units ago something happened, counted no *)
(* further than the largest threshold.                                     *)
(***************************************************************************)
EXTENDS Integers, FiniteSets

CONSTANTS
    Inv,            \* inverters
    OnlineWindow,   \* silence that makes an inverter raw offline
    OfflineDebounce,\* how long it must stay so before the event is logged
    ReseenGap,      \* silence after which a return is treated as first seen
    CoalesceWindow, \* re-raises this soon after a clear are swallowed
    SweepEvery,     \* period of the sweep
    MaxLate,        \* how old a frame's time stamp may be on arrival
    Never           \* the age of what has not happened

(* What the constants 60 s, 5 min, 5 min, 60 s and 30 s of the source      *)
(* satisfy for frames at most 30 s old.                                    *)
ASSUME ThresholdAssumption ==
    /\ {OnlineWindow, OfflineDebounce, ReseenGap, CoalesceWindow, SweepEvery} \subseteq Nat \ {0}
    /\ MaxLate \in Nat
    /\ OnlineWindow + OfflineDebounce > ReseenGap + MaxLate
    /\ SweepEvery + MaxLate <= OnlineWindow
ASSUME NeverAssumption == Never \notin Nat

Top == OnlineWindow + OfflineDebounce + 1
Ages == 0 .. Top \cup {Never}

VARIABLES
    seen,       \* age of online.lastSeen, by the frame's own time stamp
    armed,      \* age of protLastSeen, by the wall clock; protSeen is armed # Never
    online,     \* the last state the sweep emitted
    offSince,   \* age of offlineSinceMs; Never is its zero
    fleetOnline,\* whether any inverter was online at the last sweep
    fault,      \* the fault tracker: one bit per inverter stands for each
    row,        \* inverters with a row in the inventory
    frame,      \* the frame in the connection's handler
    removal,    \* a deletion in progress
    sweepAge,   \* since the last sweep
    raiseAge    \* since the last fault_raised event of this run; not in the program

presenceVars == <<seen, armed, online, offSince, fleetOnline, fault, row, frame, removal, sweepAge, raiseAge>>

NoFrame == [inv |-> Never, late |-> 0, bit |-> "unclassified", hooked |-> FALSE, pc |-> "idle"]
Unseeded == [seeded |-> FALSE, raised |-> FALSE, cleared |-> Never]

\* The types, a part of OfflineMeansRearm.
PresenceTypeOK ==
    /\ seen \in [Inv -> Ages] /\ armed \in [Inv -> Ages] /\ offSince \in [Inv -> Ages]
    /\ online \in [Inv -> BOOLEAN] /\ fleetOnline \in BOOLEAN
    /\ fault \in [Inv -> [seeded : BOOLEAN, raised : BOOLEAN, cleared : 0 .. CoalesceWindow \cup {Never}]]
    /\ row \in [Inv -> BOOLEAN]
    /\ frame \in [inv : Inv \cup {Never}, late : 0 .. MaxLate,
                  bit : {"set", "clear", "unclassified"}, hooked : BOOLEAN,
                  pc : {"idle", "first", "mark", "store", "faults"}]
    /\ removal \in [inv : Inv \cup {Never}, pc : {"idle", "prot", "online", "faults"}]
    /\ sweepAge \in 0 .. SweepEvery /\ raiseAge \in [Inv -> 0 .. CoalesceWindow \cup {Never}]

NoRemoval == [inv |-> Never, pc |-> "idle"]
AllNever == [i \in Inv |-> Never]

PresenceInit ==
    /\ seen = AllNever /\ armed = AllNever /\ offSince = AllNever /\ raiseAge = AllNever
    /\ online = [i \in Inv |-> FALSE] /\ fleetOnline = FALSE
    /\ fault = [i \in Inv |-> Unseeded] /\ row = [i \in Inv |-> FALSE]
    /\ frame = NoFrame /\ removal = NoRemoval /\ sweepAge = 0

-----------------------------------------------------------------------------
(* One unit passes.  The handler's and the deletion's steps between two    *)
(* locks take no time worth counting, and the ticker of the sweep is late  *)
(* by less than a unit.                                                    *)

OlderUpTo(a, most) == IF a = Never THEN Never ELSE IF a < most THEN a + 1 ELSE most
Older(a) == OlderUpTo(a, Top)

PassTime ==
    /\ frame = NoFrame /\ removal.pc = "idle" /\ sweepAge < SweepEvery
    /\ seen' = [i \in Inv |-> Older(seen[i])]
    /\ armed' = [i \in Inv |-> Older(armed[i])]
    /\ offSince' = [i \in Inv |-> Older(offSince[i])]
    /\ fault' = [i \in Inv |-> [fault[i] EXCEPT !.cleared = OlderUpTo(@, CoalesceWindow)]]
    /\ raiseAge' = [i \in Inv |-> OlderUpTo(raiseAge[i], CoalesceWindow)]
    /\ sweepAge' = sweepAge + 1
    /\ UNCHANGED <<online, fleetOnline, row, frame, removal>>

-----------------------------------------------------------------------------
(* handleTelemetry, in the order its locks and its writes happen.          *)

Receive(i) ==
    /\ frame = NoFrame
    /\ \E late \in 0 .. MaxLate, bit \in {"set", "clear", "unclassified"} :
          \* The connection delivers the frames of an inverter in order.
          /\ seen[i] # Never => late <= seen[i]
          /\ frame' = [inv |-> i, late |-> late, bit |-> bit, hooked |-> FALSE, pc |-> "first"]
    /\ UNCHANGED <<seen, armed, online, offSince, fleetOnline, fault, row, removal, sweepAge, raiseAge>>

(* protReadOnFirstSeen: the read and the OnFirstSeen hook run for a new    *)
(* inverter and for one that comes back after the gap.                     *)
IsFirstSeen(i) == armed[i] = Never \/ armed[i] > ReseenGap

(* Faulty variant: the hook runs once per inverter and process.            *)
ProtReadOnFirstSeenOnce ==
    /\ frame.pc = "first"
    /\ frame' = [frame EXCEPT !.hooked = armed[frame.inv] = Never, !.pc = "mark"]
    /\ armed' = [armed EXCEPT ![frame.inv] = 0]
    /\ UNCHANGED <<seen, online, offSince, fleetOnline, fault, row, removal, sweepAge, raiseAge>>

ProtReadOnFirstSeen ==
    /\ frame.pc = "first"
    /\ frame' = [frame EXCEPT !.hooked = IsFirstSeen(frame.inv), !.pc = "mark"]
    /\ armed' = [armed EXCEPT ![frame.inv] = 0]
    /\ UNCHANGED <<seen, online, offSince, fleetOnline, fault, row, removal, sweepAge, raiseAge>>

MarkSeen ==
    /\ frame.pc = "mark"
    /\ frame' = [frame EXCEPT !.pc = "store"]
    /\ seen' = [seen EXCEPT ![frame.inv] = frame.late]
    /\ UNCHANGED <<armed, online, offSince, fleetOnline, fault, row, removal, sweepAge, raiseAge>>

(* The caps on rows, the address check and every write of the store can    *)
(* end the handler early; the inventory row is the first write.            *)
StoreTelemetry ==
    /\ frame.pc = "store"
    /\ \/ frame' = NoFrame /\ row' = row                                       \* refused, or the upsert failed
       \/ frame' = NoFrame /\ row' = [row EXCEPT ![frame.inv] = TRUE]          \* a later write failed
       \/ frame' = [frame EXCEPT !.pc = "faults"] /\ row' = [row EXCEPT ![frame.inv] = TRUE]
    /\ UNCHANGED <<seen, armed, online, offSince, fleetOnline, fault, removal, sweepAge, raiseAge>>

(* markFaults: the first classified frame seeds silently; a raise soon     *)
(* after a clear is swallowed; a clear is always emitted.                  *)
Swallowed(f) == f.cleared # Never /\ f.cleared < CoalesceWindow

MarkFaults ==
    LET i == frame.inv
        f == fault[i]
        raises == f.seeded /\ ~f.raised /\ frame.bit = "set"
        clears == f.seeded /\ f.raised /\ frame.bit = "clear"
    IN  /\ frame.pc = "faults" /\ frame' = NoFrame
        /\ fault' = CASE frame.bit # "unclassified" /\ ~f.seeded ->
                           [fault EXCEPT ![i] = [seeded |-> TRUE, raised |-> frame.bit = "set", cleared |-> Never]]
                      [] raises -> [fault EXCEPT ![i].raised = TRUE]
                      [] clears -> [fault EXCEPT ![i] = [seeded |-> TRUE, raised |-> FALSE, cleared |-> 0]]
                      [] OTHER -> fault
        /\ raiseAge' = IF raises /\ ~Swallowed(f) THEN [raiseAge EXCEPT ![i] = 0] ELSE raiseAge
        /\ UNCHANGED <<seen, armed, online, offSince, fleetOnline, row, removal, sweepAge>>

-----------------------------------------------------------------------------
(* onlineSweep: an inverter comes online at once and goes offline after    *)
(* the debounce, which runs from the moment its telemetry stopped.         *)

RawOnline(i) == seen[i] # Never /\ seen[i] <= OnlineWindow

DarkFor(i) ==
    LET start == seen[i] - OnlineWindow
    IN  IF offSince[i] = Never \/ start > offSince[i] THEN start ELSE offSince[i]

(* Faulty variant: without the debounce.                                   *)
GoesOfflineAtOnce(i) == seen[i] # Never /\ ~RawOnline(i) /\ online[i]

GoesOffline(i) == seen[i] # Never /\ ~RawOnline(i) /\ online[i] /\ DarkFor(i) >= OfflineDebounce

(* Faulty variant: a sweep that never looks at an inverter without a       *)
(* recent first-seen.                                                      *)
OnlineSweepOfRecent ==
    /\ sweepAge' = 0
    /\ online' = [i \in Inv |-> IF RawOnline(i) THEN TRUE ELSE online[i]]
    /\ fleetOnline' = \E i \in Inv : online'[i]
    /\ UNCHANGED <<seen, armed, offSince, fault, row, frame, removal, raiseAge>>

OnlineSweep ==
    /\ sweepAge' = 0
    /\ online' = [i \in Inv |-> IF RawOnline(i) THEN TRUE ELSE online[i] /\ ~GoesOffline(i)]
    /\ offSince' = [i \in Inv |->
          IF seen[i] = Never THEN offSince[i]
          ELSE IF RawOnline(i) THEN Never
          ELSE IF online[i] THEN DarkFor(i) ELSE offSince[i]]
    /\ fleetOnline' = \E i \in Inv : online'[i] /\ seen[i] # Never
    /\ UNCHANGED <<seen, armed, fault, row, frame, removal, raiseAge>>

-----------------------------------------------------------------------------
(* DeleteInverter and InverterRemoved: the rows, then each tracker under   *)
(* its own lock.                                                           *)

DeleteInverter(i) ==
    /\ removal.pc = "idle" /\ row[i]
    /\ row' = [row EXCEPT ![i] = FALSE]
    /\ removal' = [inv |-> i, pc |-> "prot"]
    /\ UNCHANGED <<seen, armed, online, offSince, fleetOnline, fault, frame, sweepAge, raiseAge>>

ForgetProtection ==
    /\ removal.pc = "prot"
    /\ armed' = [armed EXCEPT ![removal.inv] = Never]
    /\ removal' = [removal EXCEPT !.pc = "online"]
    /\ UNCHANGED <<seen, online, offSince, fleetOnline, fault, row, frame, sweepAge, raiseAge>>

ForgetOnline ==
    /\ removal.pc = "online"
    /\ seen' = [seen EXCEPT ![removal.inv] = Never]
    /\ online' = [online EXCEPT ![removal.inv] = FALSE]
    /\ offSince' = [offSince EXCEPT ![removal.inv] = Never]
    /\ removal' = [removal EXCEPT !.pc = "faults"]
    /\ UNCHANGED <<armed, fleetOnline, fault, row, frame, sweepAge, raiseAge>>

ForgetFaults ==
    /\ removal.pc = "faults"
    /\ fault' = [fault EXCEPT ![removal.inv] = Unseeded]
    /\ removal' = NoRemoval
    /\ raiseAge' = [raiseAge EXCEPT ![removal.inv] = Never]
    /\ UNCHANGED <<seen, armed, online, offSince, fleetOnline, row, frame, sweepAge>>

(* The trackers live in memory only.                                       *)
DaemonRestart ==
    /\ seen' = AllNever /\ armed' = AllNever /\ offSince' = AllNever
    /\ online' = [i \in Inv |-> FALSE] /\ fleetOnline' = FALSE
    /\ fault' = [i \in Inv |-> Unseeded]
    /\ frame' = NoFrame /\ removal' = NoRemoval /\ sweepAge' = 0 /\ raiseAge' = AllNever
    /\ UNCHANGED row

FrameStep == ProtReadOnFirstSeen \/ MarkSeen \/ StoreTelemetry \/ MarkFaults
RemovalStep == ForgetProtection \/ ForgetOnline \/ ForgetFaults

PresenceNext ==
    \/ PassTime \/ FrameStep \/ OnlineSweep \/ RemovalStep \/ DaemonRestart
    \/ \E i \in Inv : Receive(i) \/ DeleteInverter(i)

(* The clock, the goroutines and the ticker go on.                         *)
PresenceFairness ==
    /\ WF_presenceVars(PassTime) /\ WF_presenceVars(FrameStep)
    /\ WF_presenceVars(RemovalStep) /\ WF_presenceVars(OnlineSweep)

PresenceSpec == PresenceInit /\ [][PresenceNext]_presenceVars /\ PresenceFairness

-----------------------------------------------------------------------------
(* An inverter logged as offline is re-armed when it comes back: it has    *)
(* been silent for longer than the first-seen gap by the other tracker's   *)
(* clock, or the frame that ends its silence has already run the hook.     *)
(* Otherwise a setting made while it was dark is never pushed to it.       *)
OfflineMeansRearm ==
    /\ []PresenceTypeOK
    /\ [][\A i \in Inv : online[i] /\ ~online'[i] /\ seen'[i] # Never =>
              IsFirstSeen(i) \/ (frame.inv = i /\ frame.hooked)]_presenceVars

\* A fault that flaps logs at most one raise per coalesce window of one run
\* of the daemon.  Nothing bounds its clears (fault_events.go:37).
FlapIsQuiet ==
    [][\A i \in Inv : raiseAge[i] # 0 /\ raiseAge'[i] = 0 =>
          raiseAge[i] = Never \/ raiseAge[i] >= CoalesceWindow]_presenceVars

(* What the event log shows (online_events.go and fault_events.go).  An    *)
(* inverter that was logged as online and whose telemetry stops for good is*)
(* logged as offline, whatever happens to the others, unless it is deleted *)
(* or the daemon restarts first: the tracker is in memory only, so after a *)
(* restart in the silence no event is logged.  And the raises of a fault   *)
(* that comes and goes are coalesced; its clears never are.                *)
SilenceIsLogged ==
    /\ \A i \in Inv : seen[i] = Top ~> (seen[i] # Top \/ ~online[i])
    /\ FlapIsQuiet
=============================================================================
