------------------------------ MODULE Watchdog ------------------------------
(***************************************************************************)
(* The radio watchdog (internal/zigbee/modem/watchdog.go): after a silence *)
(* it probes the module, which may be wedged or only have sleeping         *)
(* inverters to report, and resets it if it does not answer; a quiet       *)
(* window follows each recovery and doubles while recoveries fail.  Probes *)
(* and recoveries take seconds, the windows minutes: they take no time     *)
(* here.                                                                   *)
(***************************************************************************)
EXTENDS Naturals

CONSTANTS
    Silence, Interval, Cooldown,   \* in time steps, as the next
    MaxRecoverBackoff

ASSUME WatchdogAssumption ==
    {Silence, Interval, Cooldown, MaxRecoverBackoff} \subseteq Nat \ {0} /\ Cooldown <= MaxRecoverBackoff

Long == Silence + Interval + MaxRecoverBackoff + 1   \* ages are counted up to here

VARIABLES
    silent,        \* time since lastInbound
    rested,        \* time since lastRecover, Long if there was none
    recoverFails,  \* counted up to MaxRecoverBackoff
    untilTick,     \* the ticker
    doing,         \* Run: "wait", "probe", "recover" or "ended"
    stopping,      \* its context is cancelled
    wedged,        \* the module does not answer
    unattended,    \* history: how long it has been wedged with no recovery tried and no probe in vain
    pause          \* history: the pause due since the last recovery failed, 0 once the module has been seen well

watchdogVars == <<silent, rested, recoverFails, untilTick, doing, stopping, wedged, unattended, pause>>

\* The types, a part of WatchdogPaced.
WatchdogTypeOK ==
    /\ {silent, rested, unattended, pause} \subseteq 0 .. Long
    /\ untilTick \in 0 .. Interval /\ recoverFails \in 0 .. MaxRecoverBackoff
    /\ doing \in {"wait", "probe", "recover", "ended"} /\ {wedged, stopping} \subseteq BOOLEAN

(* Run stamps an inbound before its first tick.                            *)
WatchdogInit ==
    /\ silent = 0 /\ rested = Long /\ recoverFails = 0 /\ untilTick = Interval /\ doing = "wait"
    /\ stopping = FALSE /\ wedged = FALSE /\ unattended = 0 /\ pause = 0

AtMost(n, top) == IF n < top THEN n ELSE top
AtLeast(n, low) == IF n > low THEN n ELSE low

(* cooldownLocked, after n failures in a row: its loop stops at the cap.   *)
CooldownAfter[n \in Nat] ==
    IF n <= 1 THEN Cooldown ELSE AtMost(2 * CooldownAfter[n - 1], MaxRecoverBackoff)
CooldownNow == CooldownAfter[recoverFails]

(* tickDecision: not in the cooldown, and not while the bus is active.     *)
ProbeIsDue == rested >= CooldownNow /\ silent >= Silence

Elapse ==
    /\ doing = "wait" /\ untilTick > 0 /\ untilTick' = untilTick - 1
    /\ silent' = AtMost(silent + 1, Long) /\ rested' = AtMost(rested + 1, Long)
    /\ unattended' = IF wedged THEN AtMost(unattended + 1, Long) ELSE 0
    /\ UNCHANGED <<recoverFails, doing, stopping, wedged, pause>>

(* Run: the end, or a tick.                                                *)
WatchdogTick ==
    /\ doing = "wait"
    /\ \/ stopping /\ doing' = "ended" /\ UNCHANGED untilTick
       \/ untilTick = 0 /\ untilTick' = Interval
          /\ doing' = IF ProbeIsDue /\ ~stopping THEN "probe" ELSE "wait"
    /\ UNCHANGED <<silent, rested, recoverFails, stopping, wedged, unattended, pause>>

(* runProbe: an error shows nothing ...                                    *)
ProbeFails ==
    /\ doing = "probe" /\ doing' = "wait" /\ unattended' = 0
    /\ UNCHANGED <<silent, rested, recoverFails, untilTick, stopping, wedged, pause>>

\* Faulty variant: the streak of failures goes on.
ProbeAliveKeeps ==
    /\ doing = "probe" /\ ~wedged /\ doing' = "wait"
    /\ pause' = 0
    /\ UNCHANGED <<silent, rested, recoverFails, untilTick, stopping, wedged, unattended>>

(* ... an ack shows that the module is well ...                            *)
ProbeAlive ==
    /\ doing = "probe" /\ ~wedged /\ doing' = "wait"
    /\ recoverFails' = 0 /\ pause' = 0
    /\ UNCHANGED <<silent, rested, untilTick, stopping, wedged, unattended>>

(* ... and no ack leads to a recovery, but not in a shutdown.              *)
ProbeDead ==
    /\ doing = "probe" /\ wedged /\ doing' = IF stopping THEN "wait" ELSE "recover"
    /\ UNCHANGED <<silent, rested, recoverFails, untilTick, stopping, wedged, unattended, pause>>

(* Recover helps, or it does not.                                          *)
Recovered ==
    /\ doing = "recover" /\ doing' = "wait" /\ wedged' = FALSE
    /\ rested' = 0 /\ silent' = 0 /\ recoverFails' = 0 /\ unattended' = 0 /\ pause' = 0
    /\ UNCHANGED <<untilTick, stopping>>
RecoverFails ==
    /\ doing = "recover" /\ doing' = "wait"
    /\ rested' = 0 /\ recoverFails' = AtMost(recoverFails + 1, MaxRecoverBackoff) /\ unattended' = 0
    /\ pause' = IF pause = 0 THEN Cooldown ELSE AtMost(2 * pause, MaxRecoverBackoff)
    /\ UNCHANGED <<silent, untilTick, stopping, wedged>>

(* NoteInbound: a reply has been reassembled.                              *)
NoteInbound ==
    /\ ~wedged /\ doing # "ended" /\ silent' = 0
    /\ UNCHANGED <<rested, recoverFails, untilTick, doing, stopping, wedged, unattended, pause>>

(* The module wedges, or comes back by itself; the process shuts down.     *)
ModuleTurns ==
    /\ doing = "wait" /\ wedged' = ~wedged /\ unattended' = 0
    /\ UNCHANGED <<silent, rested, recoverFails, untilTick, doing, stopping, pause>>
WatchdogCancel ==
    /\ ~stopping /\ stopping' = TRUE
    /\ UNCHANGED <<silent, rested, recoverFails, untilTick, doing, wedged, unattended, pause>>

WatchdogNext ==
    \/ Elapse \/ WatchdogTick \/ ProbeFails \/ ProbeAlive \/ ProbeDead \/ Recovered \/ RecoverFails
    \/ NoteInbound \/ ModuleTurns \/ WatchdogCancel

WatchdogSpec == WatchdogInit /\ [][WatchdogNext]_watchdogVars

-----------------------------------------------------------------------------
(* Properties.                                                             *)

Due == AtLeast(pause, Cooldown)

(* The watchdog neither sleeps nor storms (watchdog.go:10-27,138-145): a   *)
(* module that wedges is reset within the silence or the pause that is     *)
(* due, and one tick, unless the probe itself fails; between two resets    *)
(* lies the pause, which doubles with each failure up to the cap and is    *)
(* forgotten once the module has answered or a reset has helped.           *)
WatchdogPaced ==
    /\ WatchdogTypeOK
    /\ ~stopping => unattended <= AtLeast(Silence, Due) + Interval
    /\ doing = "recover" => rested >= Due /\ silent >= Silence
=============================================================================
