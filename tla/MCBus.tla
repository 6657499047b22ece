------------------------------- MODULE MCBus -------------------------------
(***************************************************************************)
(* Five parts of the system, each on its own: who may use the bus          *)
(* (BusLock), the threads that share the radio's tty (Splice), whose reply *)
(* it is (BusTracker), the radio watchdog (Watchdog) and the link between  *)
(* ecu-zb and inv-driver (BackendLink).  A behaviour is one of a single    *)
(* part, and the others rest; the poller of a bus lock that rests would    *)
(* count as starved, so it is shut down first.                             *)
(***************************************************************************)
EXTENDS BusLock, Splice, BusTracker, Watchdog, BackendLink

VARIABLE part

partsVars == <<part, vars, spliceVars, trackerVars, watchdogVars, linkVars>>

PartsInit ==
    /\ part = "lock" /\ Init /\ SpliceInit /\ TrackerInit /\ WatchdogInit /\ LinkInit

(* Another part begins.                                                    *)
Begin ==
    /\ part = "lock" /\ Init /\ Shutdown /\ part' \in {"splice", "tracker", "watchdog", "link"}
    /\ UNCHANGED <<spliceVars, trackerVars, watchdogVars, linkVars>>

PartsNext ==
    \/ Begin
    \/ part = "lock" /\ Next /\ UNCHANGED <<part, spliceVars, trackerVars, watchdogVars, linkVars>>
    \/ part = "splice" /\ SpliceNext /\ UNCHANGED <<part, vars, trackerVars, watchdogVars, linkVars>>
    \/ part = "tracker" /\ TrackerNext /\ UNCHANGED <<part, vars, spliceVars, watchdogVars, linkVars>>
    \/ part = "watchdog" /\ WatchdogNext /\ UNCHANGED <<part, vars, spliceVars, trackerVars, linkVars>>
    \/ part = "link" /\ LinkNext /\ UNCHANGED <<part, vars, spliceVars, trackerVars, watchdogVars>>

(* Fairness of the bus lock, for its part.                                 *)
PartsFairness ==
    /\ WF_vars(part = "lock" /\ Poll)
    /\ \A r \in Requests : WF_vars(part = "lock" /\ Request(r)) /\ WF_vars(part = "lock" /\ Op(r))
    /\ WF_vars(part = "lock" /\ AbortCancel)
    /\ \A c \in Casts : WF_vars(part = "lock" /\ Cast(c))

PartsSpec == PartsInit /\ [][PartsNext]_partsVars /\ PartsFairness
=============================================================================
