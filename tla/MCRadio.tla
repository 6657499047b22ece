------------------------------ MODULE MCRadio ------------------------------
(***************************************************************************)
(* Two parts of the system, each on its own: a pairing operation (Pairing) *)
(* and who is on the air (Presence).  A behaviour is one of a single part; *)
(* the other rests in an initial state.                                    *)
(***************************************************************************)
EXTENDS MCPairing, Presence

VARIABLE part

partsVars == <<part, vars, presenceVars>>

PartsInit ==
    /\ part \in {"pairing", "presence"} /\ Init /\ PresenceInit
    /\ part = "presence" => inventory = Units

PartsNext ==
    \/ part = "pairing" /\ Next /\ UNCHANGED <<part, presenceVars>>
    \/ part = "presence" /\ PresenceNext /\ UNCHANGED <<part, vars>>

(* The fairness of FairSpec and PresenceFairness, each for its own part.   *)
PartsFairness ==
    /\ WF_vars(part = "pairing" /\ Issue) /\ WF_vars(part = "pairing" /\ GiveUp)
    /\ WF_vars(part = "pairing" /\ OpStep)
    /\ WF_presenceVars(part = "presence" /\ PassTime) /\ WF_presenceVars(part = "presence" /\ FrameStep)
    /\ WF_presenceVars(part = "presence" /\ RemovalStep) /\ WF_presenceVars(part = "presence" /\ OnlineSweep)

PartsSpec == PartsInit /\ [][PartsNext]_partsVars /\ PartsFairness
=============================================================================
