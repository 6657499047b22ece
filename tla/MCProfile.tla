----------------------------- MODULE MCProfile -----------------------------
(***************************************************************************)
(* Four parts of the system, each on its own: grid profiles (GridProfile), *)
(* what the inverters end up with (ProfilePush), what subscribers are told *)
(* (Fanout) and what a browser shows (Dashboard).  A behaviour is one of a *)
(* single part; the others rest in an initial state.                       *)
(***************************************************************************)
EXTENDS MCGridProfile, ProfilePush, Fanout, Dashboard

CONSTANTS f1, p1

MCFamily == [u \in {"e1", "e2"} |-> IF u = "e1" THEN "DS3" ELSE "QS1A"]

VARIABLE part

partsVars == <<part, vars, pushVars, fanVars, dashVars>>

PartsInit ==
    /\ part \in {"profile", "push", "fanout", "dashboard"}
    /\ activeBase \in IF part = "profile" THEN DOMAIN Bases \cup {NoBase} ELSE {NoBase}
    /\ PushInit /\ base = 1 /\ \A u \in Inverters : over[u] # NoValue => part = "push" /\ u = "e1"
    /\ Init /\ FanInit /\ DashInit

PartsNext ==
    \/ part = "profile" /\ Next /\ UNCHANGED <<part, pushVars, fanVars, dashVars>>
    \/ part = "push" /\ PushNext /\ UNCHANGED <<part, vars, fanVars, dashVars>>
    \/ part = "fanout" /\ FanNext /\ UNCHANGED <<part, vars, pushVars, dashVars>>
    \/ part = "dashboard" /\ DashNext /\ UNCHANGED <<part, vars, pushVars, fanVars>>

PartsSpec == PartsInit /\ [][PartsNext]_partsVars
=============================================================================
