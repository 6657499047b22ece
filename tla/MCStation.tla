----------------------------- MODULE MCStation -----------------------------
(***************************************************************************)
(* Parts of the system, each on its own: pairing operations in a row       *)
(* (Pairing), accumulated energy (Energy), the protection parameters on    *)
(* the wire (ProtectionCodec), the register banks of every small fleet and *)
(* writes into them (SunSpecServer), and the settings and the interface    *)
(* they configure (Settings).  A behaviour is one of a single part; the    *)
(* others rest in an initial state.                                        *)
(***************************************************************************)
EXTENDS MCPairing, Energy, ProtectionCodec, SunSpecServer, Settings

CONSTANTS h1, h2, e1, e2

\* Of Energy's inverters; the other parts name none of them.
StationSymmetry == Permutations(Meters)

\* In hundredths: in and out of range, on and off the scales' steps (59329 is where AB of a QS1 is furthest off), at the
\* width of the fields and of a signed register.
MCSamples == [V |-> {10000, 25373, 59329, 60000}, Hz |-> {4000, 5003, 7000}, s |-> {2, 32768, 65535, 70000},
              W |-> {2000, 17700, 50000}, slope |-> {1, 1670, 1672, 20000, 20001},
              mode |-> {300, 1300, 1350, 1400, 1500, 3200, 25600}]

MCReading(model, online, watts, volts, leg, cap, panels, bits, wire) ==
    [model |-> model, listed |-> TRUE, online |-> online, watts |-> watts, volts |-> volts, leg |-> leg,
     cap |-> cap, panels |-> panels, status |-> bits, wire |-> wire]

\* Read-backs: a full one, a partial one, what a write test starts from.
MCProt1 == [AK |-> 5200, BI |-> 10, AF |-> 9000, BK |-> 20, AB |-> 25300, AC |-> 18400, BB |-> 100,
            CV |-> 1300, DC |-> 5020, DD |-> 1670, AG |-> 6000]
MCProt2 == [AK |-> 5150, BI |-> 10, AJ |-> 4750, BH |-> 10]
MCProt3 == [AK |-> 5200, CV |-> 1400, DC |-> 5020]

\* Producing, offline with its last watts, without a phase or panels, three
\* phases, a model without a panel count, and protection before telemetry.
MCFleetReadings ==
    { MCReading("DS3", TRUE, 300, 230, 1, 500, <<150, 150>>, {<<14, 0>>, <<15, 2>>}, MCProt1),
      MCReading("DS3", FALSE, 600, 231, 2, 100, <<300, 300>>, {<<13, 7>>}, MCProt2),
      MCReading("DS3", TRUE, 0, 0, 0, 20, <<>>, {}, <<>>),
      MCReading("DS3", TRUE, 603, 240, 3, 300, <<303>>, {<<12, 1>>}, <<>>),
      MCReading("QS1A", TRUE, 1200, 235, 2, 240, <<300, 300, 300, 300>>, {<<26, 2>>, <<26, 3>>, <<24, 0>>}, MCProt2),
      MCReading("QS1A", TRUE, 900, 228, 3, 500, <<300, 300, 300>>, {<<26, 6>>, <<57, 1>>}, <<>>),
      MCReading("QT2", TRUE, 1500, 232, 0, 500, <<500, 500, 500>>, {}, MCProt1),
      [NotListed EXCEPT !.wire = MCProt1] }
MCWriteReadings ==
    { MCReading("DS3", TRUE, 0, 0, 0, 500, <<>>, {}, MCProt3),
      MCReading("QS1A", TRUE, 0, 0, 0, 500, <<>>, {}, MCProt2), NotListed }
MCReadings == MCFleetReadings \cup MCWriteReadings

MCUidOrder == <<"a", "b", "c">>
MCFleets == [{"a", "b", "c"} -> MCFleetReadings \cup {NotListed}]
MCWriteFleets == {f \in [{"a", "b", "c"} -> MCWriteReadings] : f["c"] = NotListed}
MCFirstFleets == MCFleets \cup MCWriteFleets

MCAsk(model, field, vals) == [model |-> model, field |-> field, vals |-> vals]
MCAsks == { MCAsk(123, "WMaxLimPct", <<5000>>), MCAsk(703, "ESDlyTms", <<0, 300>>),
            MCAsk(711, "Ena", <<1, 1>>), MCAsk(711, "DbOf", <<0, 20>>), MCAsk(711, "DbOf", <<0, 140>>),
            MCAsk(711, "KOf", <<400>>), MCAsk(711, "RspTms", <<0, 30>>),
            MCAsk(134, "Hz1", <<4800>>), MCAsk(134, "Hz4", <<5180>>) }

VARIABLE part

partsVars == <<part, vars, energyVars, codecVars, sunVars, settingsVars>>

PartsInit ==
    /\ part \in {"pairing", "energy", "codec", "registers", "writes", "settings", "applies"}
    /\ fam \in IF part = "codec" THEN Families ELSE {"DS3"}
    /\ inventory \in IF part = "pairing" THEN SUBSET Units ELSE {Units}
    /\ cache \in CASE part = "registers" -> MCFleets
                   [] part = "writes" -> MCWriteFleets
                   [] OTHER -> {[u \in SunUids |-> NotListed]}
    /\ Init /\ EnergyInit /\ CodecInit /\ SunInit /\ SettingsInit
    /\ part # "settings" => kept = NoDoc
    /\ part = "settings" => kept # NoDoc

PartsNext ==
    \/ part = "pairing" /\ Next /\ UNCHANGED <<part, energyVars, codecVars, sunVars, settingsVars>>
    \/ part = "energy" /\ EnergyNext /\ UNCHANGED <<part, vars, codecVars, sunVars, settingsVars>>
    \/ part = "codec" /\ CodecNext /\ UNCHANGED <<part, vars, energyVars, sunVars, settingsVars>>
    \/ part = "registers" /\ (RefreshBuild \/ RefreshStoreBanks \/ RefreshStoreSnap)
       /\ UNCHANGED <<part, vars, energyVars, codecVars, settingsVars>>
    \/ part = "writes" /\ SunNext /\ cache' \in MCWriteFleets
       /\ UNCHANGED <<part, vars, energyVars, codecVars, settingsVars>>
    \* Three operations of one handler and pairing, or any two.
    \/ part = "settings" /\ SettingsNext /\ work'[h2] = AtRest
       /\ UNCHANGED <<part, vars, energyVars, codecVars, sunVars>>
    \/ part = "applies" /\ SettingsNext /\ count'["op"] < MaxSets
       /\ UNCHANGED <<part, vars, energyVars, codecVars, sunVars>>

PartsSpec == PartsInit /\ [][PartsNext]_partsVars
=============================================================================
