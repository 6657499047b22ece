----------------------------- MODULE PowerLease -----------------------------
(***************************************************************************)
(* What the SunSpec Model 123 write path promises: a power cap commanded   *)
(* with a reversion timeout (WMaxLimPct_RvrtTms) is a lease.  It runs      *)
(* until another command replaces it or full power is restored, unless a   *)
(* failure loses it.  No cap is below the floor at which an inverter       *)
(* switches off.                                                           *)
(***************************************************************************)
EXTENDS Integers

CONSTANTS Inverters, MinPanelLimitW, MaxPanelLimitW

VARIABLES cap,    \* watts per panel last commanded
          lease   \* "none", "running", or "lost" by a failure

leaseVars == <<cap, lease>>

Init == /\ cap = [i \in Inverters |-> MaxPanelLimitW]
        /\ lease = [i \in Inverters |-> "none"]

\* A command to one inverter, with or without a lease.
Limit(i) ==
    \E w \in MinPanelLimitW..MaxPanelLimitW, l \in {"none", "running"} :
        /\ cap' = [cap EXCEPT ![i] = w]
        /\ lease' = [lease EXCEPT ![i] = l]

\* The lease of one inverter ends.
Expire(i) ==
    /\ lease[i] = "running"
    /\ cap' = [cap EXCEPT ![i] = MaxPanelLimitW]
    /\ lease' = [lease EXCEPT ![i] = "none"]

\* A failed send or a restart of the process loses running leases.
Lose(S) ==
    /\ S # {} /\ \A i \in S : lease[i] = "running"
    /\ lease' = [i \in Inverters |-> IF i \in S THEN "lost" ELSE lease[i]]
    /\ UNCHANGED cap

Next == \/ \E i \in Inverters : Limit(i) \/ Expire(i)
        \/ \E S \in SUBSET Inverters : Lose(S)

\* A running lease does not run for ever without being renewed.
Ends(i) == Expire(i) \/ (lease[i] = "running" /\ (Limit(i) \/ \E S \in SUBSET Inverters : i \in S /\ Lose(S)))

Spec == Init /\ [][Next]_leaseVars /\ \A i \in Inverters : WF_leaseVars(Ends(i))
=============================================================================
