----------------------------- MODULE FaultBits -----------------------------
(***************************************************************************)
(* One alarm bit of an inverter on its way through the system: the status  *)
(* bytes of a reply (codec), the typed faults on the wire and the event    *)
(* log (internal/ingest), the event registers of SunSpec.  A status is the *)
(* set of <<byte, bit>> that are 1.                                        *)
(***************************************************************************)
EXTENDS Integers, FiniteSets

(* DS3Status.Faults and QS1AStatus.Faults; faultsFromReply, ds3BitSet and  *)
(* qs1aBitSet carry the names on one to one.                               *)
DS3Faults ==
    [ GridRelayFault |-> <<12, 1>>, DCContactorFault |-> <<13, 7>>, DCBusFault |-> <<13, 4>>,
      DCGroundFault |-> <<13, 3>>, IsoFaultA |-> <<14, 4>>, IsoFaultB |-> <<14, 6>>,
      ACOverVoltStage1 |-> <<14, 0>>, ACOverVoltStage2 |-> <<14, 2>>,
      ACUnderVoltStage1 |-> <<14, 1>>, ACUnderVoltStage2 |-> <<14, 3>>,
      OverFreqStage1 |-> <<15, 2>>, OverFreqStage2 |-> <<15, 4>>, OverFreqAux |-> <<15, 6>>,
      OverFreqExtra |-> <<15, 0>>, UnderFreqStage1 |-> <<15, 3>>, UnderFreqStage2 |-> <<15, 5>>,
      UnderFreqAux |-> <<15, 7>>, UnderFreqExtra |-> <<15, 1>> ]

QS1AFaults ==
    [ GridRelayFault |-> <<23, 2>>, DCContactorFault |-> <<23, 1>>, DCGroundFault |-> <<23, 3>>,
      DCBusFault |-> <<24, 4>>, CommFault |-> <<23, 4>>, OverTemperature |-> <<24, 2>>,
      IsoFaultA |-> <<25, 2>>, IsoFaultB |-> <<25, 4>>, IsoFaultC |-> <<24, 0>>, IsoFaultD |-> <<25, 6>>,
      ACOverVoltFast |-> <<26, 2>>, ACOverVoltSlow |-> <<26, 0>>,
      ACUnderVoltFast |-> <<26, 3>>, ACUnderVoltSlow |-> <<26, 1>>,
      OverFreqFast |-> <<26, 6>>, OverFreqSlow |-> <<26, 4>>, OverFreqExtra |-> <<25, 0>>,
      OverFreqRMS |-> <<23, 5>>, UnderFreqFast |-> <<26, 7>>, UnderFreqSlow |-> <<26, 5>>,
      UnderFreqExtra |-> <<25, 1>>, UnderFreqRMS |-> <<23, 6>>,
      ZBLinkA |-> <<57, 0>>, ZBLinkB |-> <<57, 1>> ]

(* A QT2 reply carries no status: it is never classified.                  *)
Classified == {"DS3", "QS1A"}
FaultTable(model) == IF model = "DS3" THEN DS3Faults ELSE QS1AFaults

(* The active faults of a reply; a QS1A body that ends before its status   *)
(* decodes as no fault at all.                                             *)
FaultsFromReply(model, bits) ==
    IF model \notin Classified THEN {}
    ELSE {f \in DOMAIN FaultTable(model) : FaultTable(model)[f] \in bits}

OverVolt == {"ACOverVoltStage1", "ACOverVoltStage2", "ACOverVoltFast", "ACOverVoltSlow"}
UnderVolt == {"ACUnderVoltStage1", "ACUnderVoltStage2", "ACUnderVoltFast", "ACUnderVoltSlow"}
OverFreq == {"OverFreqStage1", "OverFreqStage2", "OverFreqAux", "OverFreqFast", "OverFreqSlow",
             "OverFreqExtra", "OverFreqRMS"}
UnderFreq == {"UnderFreqStage1", "UnderFreqStage2", "UnderFreqAux", "UnderFreqFast", "UnderFreqSlow",
              "UnderFreqExtra", "UnderFreqRMS"}
Iso == {"IsoFaultA", "IsoFaultB", "IsoFaultC", "IsoFaultD"}

(* InverterStatus: the five signals that travel in Reply.Status.           *)
InverterStatus(active) ==
    [DCBusFault |-> "DCBusFault" \in active,
     FaultA |-> active \cap OverFreq # {}, FaultB |-> active \cap UnderFreq # {},
     WarningA |-> active \cap OverVolt # {}, WarningB |-> active \cap UnderVolt # {}]

(* faultSeverity of the fault_raised event.                                *)
ErrorBits == {"GridRelayFault", "DCContactorFault", "DCBusFault", "DCGroundFault"} \cup Iso
FaultSeverity(f) == IF f \in ErrorBits THEN "error" ELSE "warn"

(* FaultsToSunSpecEvt1: bit numbers of the standard register.              *)
FaultsToSunSpecEvt1(active) ==
    (IF active \cap (Iso \cup {"DCGroundFault"}) # {} THEN {0} ELSE {})
      \cup (IF "OverTemperature" \in active THEN {7} ELSE {})
      \cup (IF active \cap OverFreq # {} THEN {8} ELSE {})
      \cup (IF active \cap UnderFreq # {} THEN {9} ELSE {})
      \cup (IF active \cap OverVolt # {} THEN {10} ELSE {})
      \cup (IF active \cap UnderVolt # {} THEN {11} ELSE {})

(* The vendor register: stage1/fast is primary, stage2/slow secondary.     *)
EvtVnd1Bit ==
    [ GridRelayFault |-> 0, DCContactorFault |-> 1, DCBusFault |-> 2, DCGroundFault |-> 3,
      CommFault |-> 4, OverTemperature |-> 5, IsoFaultA |-> 6, IsoFaultB |-> 7, IsoFaultC |-> 8,
      IsoFaultD |-> 9, ACOverVoltStage1 |-> 10, ACOverVoltFast |-> 10, ACOverVoltStage2 |-> 11,
      ACOverVoltSlow |-> 11, ACUnderVoltStage1 |-> 12, ACUnderVoltFast |-> 12,
      ACUnderVoltStage2 |-> 13, ACUnderVoltSlow |-> 13, OverFreqStage1 |-> 14, OverFreqFast |-> 14,
      OverFreqStage2 |-> 15, OverFreqSlow |-> 15, OverFreqAux |-> 16, OverFreqExtra |-> 17,
      OverFreqRMS |-> 18, UnderFreqStage1 |-> 19, UnderFreqFast |-> 19, UnderFreqStage2 |-> 20,
      UnderFreqSlow |-> 20, UnderFreqAux |-> 21, UnderFreqExtra |-> 22, UnderFreqRMS |-> 23,
      ZBLinkA |-> 24, ZBLinkB |-> 25 ]
FaultsToEvtVnd1(active) == {EvtVnd1Bit[f] : f \in active}
=============================================================================
