----------------------------- MODULE PowerLimit -----------------------------
(***************************************************************************)
(* internal/sunspec/server: Modbus writes to SunSpec Model 123 (power cap  *)
(* and on/off), the reversion timers, and the cache of commanded caps.     *)
(*                                                                         *)
(* A client is a Modbus connection; its handler serves one write at a      *)
(* time.  Write w = <<client, n>> also names the timer it may schedule.    *)
(* Modbus unit 1 stands for all inverters of the snapshot, unit u >= 2 for *)
(* the inverter at index u - 2.                                            *)
(***************************************************************************)
EXTENDS Integers, Sequences, SequencesExt

CONSTANTS
    Clients,
    Speaks,          \* client -> the unit ids it writes to
    MaxWrites,       \* bound: client -> number of writes
    MaxFaults,       \* bound: failed sends and restarts together
    Inverters,
    Fleets,          \* the sequences (sorted by UID) a snapshot can hold
    Requests,        \* register writes: [ena, pct, rvrt, conn], each maybe NotWritten
    PerPanelW,       \* inverter -> nameplate watts per panel, 0 if unknown
    MinPanelLimitW, MaxPanelLimitW,
    RawFull,         \* WMaxLimPctRawFull
    NotImplemented,  \* 0xFFFF
    NotWritten, NoWrite

ASSUME PowerLimitAssumption ==
    /\ Speaks \in [Clients -> SUBSET (Nat \ {0})]
    /\ MaxWrites \in [Clients -> Nat] /\ MaxFaults \in Nat /\ RawFull \in Nat \ {0}
    /\ Fleets \subseteq Seq(Inverters)
    /\ PerPanelW \in [Inverters -> Nat]
    /\ MinPanelLimitW \in Nat \ {0} /\ MaxPanelLimitW \in Nat /\ MinPanelLimitW <= MaxPanelLimitW

Writes == UNION {{c} \X (1..MaxWrites[c]) : c \in Clients}
ASSUME RequestAssumption == \A r \in Requests : r.pct \in Nat \cup {NotWritten}
ASSUME NoWriteAssumption == NoWrite \notin Writes /\ NoWrite \notin Requests

Units == UNION {Speaks[c] : c \in Clients}

VARIABLES
    fleet,                       \* Server.snap
    wpc, unit, regs, targets,    \* a write: place in Apply, unit, registers, targetUIDs
    rest,                        \* targets its current loop has left
    timers,                      \* Reverter.timers
    tpc, trest,                  \* a timer and the targets fire has left
    limits,                      \* PowerLimitCache.w, 0 without an entry
    sent, on,                    \* inverters: cap and on/off last commanded
    leaseOf,                     \* history: the write with a lease whose cap is in force
    stranded,                    \* history: inverters whose lease a failure lost
    faults

reqVars == <<unit, regs, targets>>
timerVars == <<timers, tpc, trest>>
deviceVars == <<sent, leaseOf, stranded>>
vars == <<fleet, wpc, reqVars, rest, timerVars, limits, deviceVars, on, faults>>

Ended == {"done", "failed"}
Firing == {"fired", "send", "set"}

\* The types, a part of LeaseCovered.
TypeOK ==
    /\ fleet \in Fleets \cup {<<>>}
    /\ wpc \in [Writes -> {"new", "cancel", "send", "set", "arm", "conn"} \cup Ended]
    /\ unit \in [Writes -> Units \cup {0}]
    /\ regs \in [Writes -> Requests \cup {NoWrite}]
    /\ \A w \in Writes : targets[w] \in Seq(Inverters) /\ rest[w] \in Seq(Inverters)
    /\ \A w \in Writes : wpc[w] \in {"send", "set", "conn"} => rest[w] # <<>>
    /\ timers \in [Units -> Writes \cup {NoWrite}]
    /\ tpc \in [Writes -> {"none", "armed", "stopped", "ended"} \cup Firing]
    /\ \A w \in Writes : trest[w] \in Seq(Inverters)
    /\ \A w \in Writes : tpc[w] \in {"send", "set"} => trest[w] # <<>>
    /\ limits \in [Inverters -> 0..MaxPanelLimitW]
    /\ sent \in [Inverters -> 0..MaxPanelLimitW]
    /\ on \in [Inverters -> {0, 1}]
    /\ leaseOf \in [Inverters -> Writes \cup {NoWrite}]
    /\ stranded \subseteq Inverters
    /\ faults \in 0..MaxFaults

\* The process comes up: nothing is served before the first snapshot, no
\* timer is set and no cap recorded.
Init ==
    /\ fleet = <<>>
    /\ wpc = [w \in Writes |-> "new"]
    /\ unit = [w \in Writes |-> 0]
    /\ regs = [w \in Writes |-> NoWrite]
    /\ targets = [w \in Writes |-> <<>>]
    /\ rest = [w \in Writes |-> <<>>]
    /\ timers = [u \in Units |-> NoWrite]
    /\ tpc = [w \in Writes |-> "none"]
    /\ trest = [w \in Writes |-> <<>>]
    /\ limits = [i \in Inverters |-> 0]
    /\ sent = [i \in Inverters |-> MaxPanelLimitW]
    /\ on = [i \in Inverters |-> 1]
    /\ leaseOf = [i \in Inverters |-> NoWrite]
    /\ stranded = {}
    /\ faults = 0

-----------------------------------------------------------------------------
(* Pure parts of ControlsWriter.                                           *)

\* targetUIDs.
TargetUIDs(u, f) == IF u <= 1 THEN f
                    ELSE IF u - 1 <= Len(f) THEN <<f[u - 1]>> ELSE <<>>

\* Faulty variant: the floor is not applied.
PanelWattsUnclamped(i, r) ==
    IF r.ena = 0 THEN MaxPanelLimitW
    ELSE LET pct == IF r.pct > RawFull THEN RawFull ELSE r.pct
             w == (pct * PerPanelW[i]) \div RawFull
         IN  IF w > MaxPanelLimitW THEN MaxPanelLimitW ELSE w

\* The watts one write commands: full power for WMaxLim_Ena=0, otherwise the
\* percentage of the nameplate between floor and maximum.
PanelWatts(i, r) ==
    IF r.ena = 0 THEN MaxPanelLimitW
    ELSE LET pct == IF r.pct > RawFull THEN RawFull ELSE r.pct
             w == (pct * PerPanelW[i]) \div RawFull
         IN  IF w < MinPanelLimitW THEN MinPanelLimitW
             ELSE IF w > MaxPanelLimitW THEN MaxPanelLimitW ELSE w

\* applyCap refuses an inverter whose nameplate is unknown.
Encodable(i, r) == r.ena = 0 \/ PerPanelW[i] > 0

\* Does this write end with Reverter.Schedule?
Leases(r) == r.ena # 0 /\ r.pct # NotWritten /\ r.rvrt \notin {NotWritten, 0, NotImplemented}

\* Where Apply goes on after the power cap: the on/off field or the end.
AfterCap(r) == IF r.conn # NotWritten THEN "conn" ELSE "done"

-----------------------------------------------------------------------------
(* The reverter, under its mutex.                                          *)

\* Timer.Stop of the entry for u: a timer that already runs goes on.
Stopped(u) == [t \in Writes |-> IF t = timers[u] /\ tpc[t] = "armed" THEN "stopped" ELSE tpc[t]]

\* Reverter.Cancel.
CancelReversion(u) ==
    /\ tpc' = Stopped(u)
    /\ timers' = [timers EXCEPT ![u] = NoWrite]
    /\ UNCHANGED trest

\* Reverter.Schedule.
Schedule(w) ==
    /\ tpc' = [Stopped(unit[w]) EXCEPT ![w] = "armed"]
    /\ timers' = [timers EXCEPT ![unit[w]] = w]
    /\ trest' = [trest EXCEPT ![w] = targets[w]]

-----------------------------------------------------------------------------
(* A write: handleWrite and ControlsWriter.Apply.                          *)

\* The handler loads the snapshot once and resolves the targets.
Begin(w, u, r) ==
    LET ts == TargetUIDs(u, fleet)
    IN  /\ wpc[w] = "new" /\ u \in Speaks[w[1]]
        /\ \A n \in 1..(w[2] - 1) : wpc[<<w[1], n>>] \in Ended
        /\ unit' = [unit EXCEPT ![w] = u]
        /\ regs' = [regs EXCEPT ![w] = r]
        /\ targets' = [targets EXCEPT ![w] = ts]
        /\ rest' = [rest EXCEPT ![w] = ts]
        /\ wpc' = [wpc EXCEPT ![w] = IF ts = <<>> THEN "failed"
                                     ELSE IF r.ena = 0 THEN "cancel"
                                     ELSE IF r.pct # NotWritten THEN "send"
                                     ELSE AfterCap(r)]
        /\ UNCHANGED <<fleet, timerVars, limits, deviceVars, on, faults>>

\* WMaxLim_Ena=0 cancels the reversion before full power is restored.
CancelFirst(w) ==
    /\ wpc[w] = "cancel"
    /\ CancelReversion(unit[w])
    /\ wpc' = [wpc EXCEPT ![w] = "send"]
    /\ UNCHANGED <<fleet, reqVars, rest, limits, deviceVars, on, faults>>

\* The next inverter of restoreFull or applyCap gets its frame.
SendLimit(w) ==
    LET i == Head(rest[w])
    IN  /\ wpc[w] = "send" /\ Encodable(i, regs[w])
        /\ sent' = [sent EXCEPT ![i] = PanelWatts(i, regs[w])]
        /\ leaseOf' = [leaseOf EXCEPT ![i] = IF Leases(regs[w]) THEN w ELSE NoWrite]
        /\ stranded' = stranded \ {i}
        /\ wpc' = [wpc EXCEPT ![w] = "set"]
        /\ UNCHANGED <<fleet, reqVars, rest, timerVars, limits, on, faults>>

\* limits.Set, and on to the next inverter.
SetLimit(w) ==
    LET left == Tail(rest[w])
        r == regs[w]
    IN  /\ wpc[w] = "set"
        /\ limits' = [limits EXCEPT ![Head(rest[w])] = PanelWatts(Head(rest[w]), r)]
        /\ wpc' = [wpc EXCEPT ![w] = IF left # <<>> THEN "send"
                                     ELSE IF r.ena # 0 /\ r.rvrt # NotWritten THEN "arm"
                                     ELSE AfterCap(r)]
        /\ rest' = [rest EXCEPT ![w] = IF left = <<>> /\ r.conn # NotWritten THEN targets[w] ELSE left]
        /\ UNCHANGED <<fleet, reqVars, timerVars, deviceVars, on, faults>>

\* armOrCancelReversion: RvrtTms of zero or not-implemented means no revert.
ArmOrCancelReversion(w) ==
    /\ wpc[w] = "arm"
    /\ IF Leases(regs[w]) THEN Schedule(w) ELSE CancelReversion(unit[w])
    /\ wpc' = [wpc EXCEPT ![w] = AfterCap(regs[w])]
    /\ UNCHANGED <<fleet, reqVars, rest, limits, deviceVars, on, faults>>

\* applyConn, one inverter at a time.
SendConn(w) ==
    LET left == Tail(rest[w])
    IN  /\ wpc[w] = "conn"
        /\ on' = [on EXCEPT ![Head(rest[w])] = IF regs[w].conn = 0 THEN 0 ELSE 1]
        /\ rest' = [rest EXCEPT ![w] = left]
        /\ wpc' = [wpc EXCEPT ![w] = IF left = <<>> THEN "done" ELSE "conn"]
        /\ UNCHANGED <<fleet, reqVars, timerVars, limits, deviceVars, faults>>

\* Inverters still to be served by w, whose leases a failure of w loses: those
\* w has leased without a timer yet, and those it was about to restore.
LosesOn(w) ==
    {i \in Inverters : \/ leaseOf[i] = w /\ wpc[w] \in {"send", "set", "arm"}
                       \/ /\ leaseOf[i] # NoWrite /\ wpc[w] = "send"
                          /\ regs[w].ena = 0 /\ i \in ToSet(rest[w])}

\* Apply returns the first error: the rest of the targets, the timer and the
\* on/off field are not reached.  An unknown nameplate needs no fault.
WriteFails(w) ==
    /\ wpc[w] \in {"send", "conn"}
    /\ IF wpc[w] = "send" /\ ~Encodable(Head(rest[w]), regs[w])
       THEN UNCHANGED faults
       ELSE faults < MaxFaults /\ faults' = faults + 1
    /\ stranded' = stranded \cup LosesOn(w)
    /\ wpc' = [wpc EXCEPT ![w] = "failed"]
    /\ UNCHANGED <<fleet, reqVars, rest, timerVars, limits, sent, leaseOf, on>>

-----------------------------------------------------------------------------
(* Reverter.fire.                                                          *)

\* The duration has passed: the runtime starts the goroutine.
Fire(t) ==
    /\ tpc[t] = "armed"
    /\ tpc' = [tpc EXCEPT ![t] = "fired"]
    /\ UNCHANGED <<fleet, wpc, reqVars, rest, timers, trest, limits, deviceVars, on, faults>>

\* The map entry of the unit goes, whichever timer it holds.
Forget(t) ==
    /\ tpc[t] = "fired"
    /\ timers' = [timers EXCEPT ![unit[t]] = NoWrite]
    /\ tpc' = [tpc EXCEPT ![t] = "send"]
    /\ UNCHANGED <<fleet, wpc, reqVars, rest, trest, limits, deviceVars, on, faults>>

\* Full power is sent to the next target.
Restore(t) ==
    LET i == Head(trest[t])
    IN  /\ tpc[t] = "send"
        /\ sent' = [sent EXCEPT ![i] = MaxPanelLimitW]
        /\ leaseOf' = [leaseOf EXCEPT ![i] = NoWrite]
        /\ stranded' = stranded \ {i}
        /\ tpc' = [tpc EXCEPT ![t] = "set"]
        /\ UNCHANGED <<fleet, wpc, reqVars, rest, timers, trest, limits, on, faults>>

Later(t) == [trest EXCEPT ![t] = Tail(@)]
NextTarget(t) == [tpc EXCEPT ![t] = IF Len(trest[t]) = 1 THEN "ended" ELSE "send"]

SetRestored(t) ==
    /\ tpc[t] = "set"
    /\ limits' = [limits EXCEPT ![Head(trest[t])] = MaxPanelLimitW]
    /\ trest' = Later(t) /\ tpc' = NextTarget(t)
    /\ UNCHANGED <<fleet, wpc, reqVars, rest, timers, deviceVars, on, faults>>

\* Faulty variant: fire returns on the first error.
RestoreFailsReturning(t) ==
    /\ tpc[t] = "send"
    /\ faults < MaxFaults /\ faults' = faults + 1
    /\ stranded' = stranded \cup {i \in {Head(trest[t])} : leaseOf[i] # NoWrite}
    /\ trest' = [trest EXCEPT ![t] = <<>>] /\ tpc' = [tpc EXCEPT ![t] = "ended"]
    /\ UNCHANGED <<fleet, wpc, reqVars, rest, timers, limits, sent, leaseOf, on>>

\* A failed restore is logged and not retried; the next target is served.
RestoreFails(t) ==
    /\ tpc[t] = "send"
    /\ faults < MaxFaults /\ faults' = faults + 1
    /\ stranded' = stranded \cup {i \in {Head(trest[t])} : leaseOf[i] # NoWrite}
    /\ trest' = Later(t) /\ tpc' = NextTarget(t)
    /\ UNCHANGED <<fleet, wpc, reqVars, rest, timers, limits, sent, leaseOf, on>>

-----------------------------------------------------------------------------

\* The refresh loop publishes a snapshot.
Refresh ==
    /\ fleet' \in Fleets \ {fleet}
    /\ UNCHANGED <<wpc, reqVars, rest, timerVars, limits, deviceVars, on, faults>>

\* The process is restarted: writes, timers and cache are gone, the inverters
\* keep what they were sent.
Restart ==
    /\ faults < MaxFaults /\ faults' = faults + 1
    /\ fleet' = <<>>
    /\ wpc' = [w \in Writes |-> IF wpc[w] = "new" THEN "new" ELSE IF wpc[w] = "done" THEN "done" ELSE "failed"]
    /\ timers' = [u \in Units |-> NoWrite]
    /\ tpc' = [t \in Writes |-> IF tpc[t] \in {"none", "ended"} THEN tpc[t] ELSE "stopped"]
    /\ limits' = [i \in Inverters |-> 0]
    /\ trest' = [t \in Writes |-> <<>>]
    /\ rest' = [w \in Writes |-> <<>>]
    /\ stranded' = {i \in Inverters : leaseOf[i] # NoWrite}
    /\ UNCHANGED <<reqVars, sent, leaseOf, on>>

Apply(w) == \/ CancelFirst(w) \/ SendLimit(w) \/ SetLimit(w)
            \/ ArmOrCancelReversion(w) \/ SendConn(w) \/ WriteFails(w)

Revert(t) == Forget(t) \/ Restore(t) \/ SetRestored(t) \/ RestoreFails(t)

Next ==
    \/ \E w \in Writes, r \in Requests : \E u \in Speaks[w[1]] : Begin(w, u, r)
    \/ \E w \in Writes : Apply(w) \/ Fire(w) \/ Revert(w)
    \/ Refresh \/ Restart

\* A write and a restore that have started go on, and an armed timer fires.
\* Nobody has to write.
Fairness == \A w \in Writes : WF_vars(Apply(w)) /\ WF_vars(Fire(w)) /\ WF_vars(Revert(w))

Spec == Init /\ [][Next]_vars /\ Fairness

-----------------------------------------------------------------------------
(* Properties.                                                             *)

\* What fire has left to restore, and what a write has left to serve.
ToRestore(t) == CASE tpc[t] \in {"armed", "fired", "send"} -> ToSet(trest[t])
                  [] tpc[t] = "set" -> ToSet(Tail(trest[t]))
                  [] OTHER -> {}
ToSend(w) == CASE wpc[w] \in {"cancel", "send"} -> ToSet(rest[w])
               [] wpc[w] = "set" -> ToSet(Tail(rest[w]))
               [] OTHER -> {}

\* The reverter's map holds no timer that is stopped, over, or of another
\* unit, so a Cancel never answers for one that does not exist.
MapLive ==
    \A u \in Units : timers[u] # NoWrite => /\ unit[timers[u]] = u
                                            /\ tpc[timers[u]] \in {"armed", "fired"}

(* "If the controller fails to refresh within that window, the cap is      *)
(* lifted" (controls_writer.go:62-65, reverter.go:66-109): while a leased  *)
(* cap is in force and no failure has lost it, a timer that has not        *)
(* stopped still has to restore this inverter, or the write in progress is *)
(* about to schedule it or to restore the inverter itself; and the timers  *)
(* the map holds are live ones.                                            *)
LeaseCovered ==
    /\ TypeOK
    /\ \A i \in Inverters : leaseOf[i] # NoWrite /\ i \notin stranded =>
          \/ \E t \in Writes : i \in ToRestore(t)
          \/ wpc[leaseOf[i]] \in {"send", "set", "arm"}
          \/ \E w \in Writes : regs[w] # NoWrite /\ regs[w].ena = 0 /\ i \in ToSend(w)
    /\ MapLive

(* The write path implements the lease: floor and end included.            *)
Lease == INSTANCE PowerLease WITH
    cap <- sent,
    lease <- [i \in Inverters |-> IF leaseOf[i] = NoWrite THEN "none"
                                  ELSE IF i \in stranded THEN "lost" ELSE "running"]
LeaseSpec == Lease!Spec

(* reverter.go:85: "Cancel stops any pending reversion timer for uid": a   *)
(* pending timer is one Cancel can find.                                   *)
CancelFindsPending == \A t \in Writes : tpc[t] = "armed" => timers[unit[t]] = t

(* power_limit_cache.go:5-8: "ecu-sunspec's own last write is the          *)
(* authoritative current cap": between writes and restores the read-back   *)
(* is what the inverter was last sent.                                     *)
ReadBack(i) == IF limits[i] = 0 THEN MaxPanelLimitW ELSE limits[i]
Quiet == \A w \in Writes : wpc[w] \in {"new"} \cup Ended /\ tpc[w] \notin {"send", "set"}
CacheAuthoritative == Quiet => \A i \in Inverters : ReadBack(i) = sent[i]
=============================================================================
