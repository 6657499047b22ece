------------------------------ MODULE MCPower ------------------------------
(***************************************************************************)
(* Two parts of the system, each on its own: the power limits SunSpec      *)
(* clients set (PowerLimit) and the cap an inverter ends up with           *)
(* (OutputCap).  A behaviour is one of a single part; the other rests in   *)
(* an initial state.                                                       *)
(***************************************************************************)
EXTENDS MCPowerLimit, OutputCap

VARIABLE part

partsVars == <<part, vars, capVars>>

PartsInit ==
    /\ part \in {"limit", "cap"} /\ Init /\ CapInit
    /\ holds = [i \in Capped |-> 200]      \* Disturb brings the others

PartsNext ==
    \/ part = "limit" /\ Next /\ UNCHANGED <<part, capVars>>
    \/ part = "cap" /\ CapNext /\ UNCHANGED <<part, vars>>

(* Fairness and CapFairness, each for its own part.                        *)
PartsFairness ==
    /\ \A w \in Writes :
          /\ WF_vars(part = "limit" /\ Apply(w)) /\ WF_vars(part = "limit" /\ Fire(w))
          /\ WF_vars(part = "limit" /\ Revert(w))
    /\ WF_capVars(part = "cap" /\ RecordCapIntent) /\ WF_capVars(part = "cap" /\ ProtReadWorker)
    /\ WF_capVars(part = "cap" /\ Attach) /\ WF_capVars(part = "cap" /\ CheckCapDrift)
    /\ WF_capVars(part = "cap" /\ Reassert) /\ WF_capVars(part = "cap" /\ CachePage)
    /\ SF_capVars(part = "cap" /\ PageArrives /\ page' # NoPage)
    /\ \A i \in Capped :
          /\ WF_capVars(part = "cap" /\ ReadAfterWrite(i)) /\ WF_capVars(part = "cap" /\ CoolDown(i))
          /\ WF_capVars(part = "cap" /\ ReadOnFirstSeen(i)) /\ SF_capVars(part = "cap" /\ SetLands(i))
          /\ SF_capVars(part = "cap" /\ ReadLands(i))

PartsSpec == PartsInit /\ [][PartsNext]_partsVars /\ PartsFairness
=============================================================================
