---------------------------- MODULE SunSpecBank ----------------------------
(***************************************************************************)
(* internal/sunspec/source and internal/sunspec/sunspec: a snapshot of the *)
(* fleet and the SunSpec register images made of it, one for the whole     *)
(* fleet (Modbus unit 1) and one per inverter (units 2..N+1).              *)
(*                                                                         *)
(* A reading is what the client of inv-driver knows of one inverter: model,*)
(* listed (telemetry was seen), online (and recently), watts, volts, leg,  *)
(* cap (PowerLimitCache), panels (decoded panel watts), status bits and    *)
(* wire, the protection values read back (code -> hundredths; slopes too). *)
(* A layout lists the fields of a model body with their widths in          *)
(* registers; "" stands for registers that hold constants, sentinels,      *)
(* scale factors, labels, or measurements no property looks at.            *)
(***************************************************************************)
EXTENDS FaultBits, Sequences, SequencesExt, FiniteSetsExt

\* The sentinels 0xFFFF and 0x8000 and NaN: no value of a register.
NotImpl == -1

-----------------------------------------------------------------------------
(* source.Inverter and Snapshot.                                           *)

PanelCount(model) == CASE model = "DS3" -> 2 [] model = "QS1A" -> 4 [] OTHER -> 0
NameplateW(model) == CASE model = "DS3" -> 880 [] model = "QS1A" -> 1500 [] OTHER -> 2000
ThreePhase(model) == model = "QT2"
FullCapW == 500

\* PanelPowers: nothing offline, padded or cut to the number of inputs.
PanelPowers(inv) ==
    IF ~inv.online \/ inv.panels = <<>> THEN <<>>
    ELSE [k \in 1..PanelCount(inv.model) |-> IF k <= Len(inv.panels) THEN inv.panels[k] ELSE 0]

Volts == {"AC", "AD", "AQ", "AY", "AB", "AH", "AI", "BN", "BO"}
Hertz == {"AE", "AF", "AJ", "AK", "BP", "BQ", "DC", "CC", "DH", "DI", "CB"}
Secs == {"AG", "AS", "BB", "BC", "BD", "BE", "BH", "BI", "BJ", "BK"}

Plausible(c, v) ==
    /\ c \in Volts => v \in 10000..60000
    /\ c \in Hertz => v \in 4000..7000
    /\ c \in Secs => v \in 0..1000000

\* protectionFromWire, then SanitizeProtection of a listed inverter: a value
\* that is not plausible loses its Has mark and stays in its field.
SanitizeProtection(inv) ==
    [has |-> {c \in DOMAIN inv.wire : inv.listed => Plausible(c, inv.wire[c])}, val |-> inv.wire]

Value(p, c) == IF c \in DOMAIN p.val THEN p.val[c] ELSE 0
Has(p, cs) == cs \subseteq p.has
NoProt == [has |-> {}, val |-> <<>>]

\* The UIDs that stand for units.
ListedOf(order, fleet) ==
    LET upto[n \in 0 .. Len(order)] ==
            IF n = 0 THEN <<>>
            ELSE IF fleet[order[n]].listed THEN Append(upto[n - 1], order[n]) ELSE upto[n - 1]
    IN  upto[Len(order)]

\* Builder.Build of what the client holds, in the order of the UIDs; rated is
\* the nameplate of the last FleetSummary, 0 before the first.
BuildSnapshot(order, fleet, rated) ==
    LET listed == ListedOf(order, fleet)
    IN  [uids |-> listed, invs |-> [k \in 1..Len(listed) |-> fleet[listed[k]]],
         orphans |-> {u \in ToSet(order) : ~fleet[u].listed /\ fleet[u].wire # <<>>},
         prots |-> [u \in ToSet(order) |-> SanitizeProtection(fleet[u])],
         rated |-> rated]

Online(s) == SelectSeq(s.invs, LAMBDA inv : inv.online)
Total(seq, Of(_)) == MapThenSumSet(LAMBDA k : Of(seq[k]), DOMAIN seq)

\* Faulty variant: what an offline inverter last reported still counts.
SystemPowerOfAll(s) == Total(s.invs, LAMBDA inv : inv.watts)

SystemPowerW(s) == Total(Online(s), LAMBDA inv : inv.watts)

\* GridVoltageV as a fraction <<sum, count>> over the online inverters.
GridVoltage(s) ==
    LET with == SelectSeq(Online(s), LAMBDA inv : inv.volts > 0)
    IN  <<Total(with, LAMBDA inv : inv.volts), Len(with)>>

TotalNameplateW(s) == Total(s.invs, LAMBDA inv : NameplateW(inv.model))
LimitedW(inv) ==
    LET dc == inv.cap * PanelCount(inv.model)
    IN  IF NameplateW(inv.model) < dc THEN NameplateW(inv.model) ELSE dc
TotalLimitedW(s) == Total(s.invs, LimitedW)

-----------------------------------------------------------------------------
(* Phases.                                                                 *)

Leg(inv) == IF inv.leg \in 1..3 THEN inv.leg ELSE 1
LegsOf(inv) == IF ThreePhase(inv.model) THEN 1..3 ELSE {Leg(inv)}

\* detectPhase: the number of phases is the number of legs in use.
DetectPhase(s) ==
    LET legs == UNION {LegsOf(inv) : inv \in ToSet(Online(s))}
    IN  IF legs = {} THEN 1 ELSE Cardinality(legs)

\* phaseBuckets: three times the watts on a leg, and the voltage of the leg
\* as <<sum, count>>; the grid voltage stands in for a leg nobody measures.
LegPower3(s, l) ==
    Total(SelectSeq(Online(s), LAMBDA inv : l \in LegsOf(inv)),
          LAMBDA inv : IF ThreePhase(inv.model) THEN inv.watts ELSE 3 * inv.watts)
LegVoltage(s, l) ==
    LET with == SelectSeq(Online(s), LAMBDA inv : l \in LegsOf(inv) /\ inv.volts > 0)
    IN  IF with = <<>> THEN GridVoltage(s) ELSE <<Total(with, LAMBDA inv : inv.volts), Len(with)>>

\* Amperes of a leg in ten-thousandths.
LegCurrent(s, l) ==
    LET v == LegVoltage(s, l)
    IN  IF v[1] = 0 THEN 0 ELSE (10000 * LegPower3(s, l) * v[2]) \div (3 * v[1])
Rounded(x, unit) == (x + unit \div 2) \div unit

\* derivePhaseCurrents, in 0.1 A, and derivePhaseVoltages.
DerivePhaseCurrents(s) ==
    [total |-> Rounded(LegCurrent(s, 1) + LegCurrent(s, 2) + LegCurrent(s, 3), 1000),
     leg |-> [l \in 1..3 |-> Rounded(LegCurrent(s, l), 1000)]]
DerivePhaseVoltages(s) ==
    [l \in 1..3 |-> LET v == LegVoltage(s, l) IN IF v[1] = 0 THEN 0 ELSE Rounded(v[1], v[2])]

\* phaseValueU16: legs beyond the phases in use are not implemented.
PhaseValues(f, phases) == [l \in 1..3 |-> IF l <= phases THEN f[l] ELSE NotImpl]

OperatingState(online, watts) ==
    IF ~online THEN "sleep" ELSE IF watts > 0 THEN "mppt" ELSE "standby"

Deciamps(w, v) == IF v > 0 THEN (20 * w + v) \div (2 * v) ELSE 0

-----------------------------------------------------------------------------
(* Layouts of the model bodies.                                            *)

RegisterWidth(layout) == Total(layout, LAMBDA f : f[2])

\* Registers of a layout that hold the named field.
Registers(layout, name) ==
    LET k == SelectInSeq(layout, LAMBDA f : f[1] = name)
        before == [i \in DOMAIN layout |-> IF i < k THEN layout[i][2] ELSE 0]
        from == Total(before, LAMBDA w : w)
    IN  from..(from + layout[k][2] - 1)

CommonLayout == << <<"Mn", 16>>, <<"Md", 16>>, <<"Opt", 8>>, <<"Vr", 8>>, <<"SN", 16>>, <<"DA", 1>>, <<"", 1>> >>

InverterLayout ==
    << <<"A", 1>>, <<"Aph", 3>>, <<"", 1>>, <<"", 3>>, <<"PhV", 3>>, <<"", 1>>, <<"W", 1>>, <<"", 1>>,
       <<"Hz", 1>>, <<"", 1>>, <<"", 6>>, <<"WH", 2>>, <<"", 1>>, <<"", 6>>, <<"TmpCab", 1>>, <<"", 4>>,
       <<"St", 1>>, <<"", 1>>, <<"Evt1", 2>>, <<"", 2>>, <<"EvtVnd1", 2>>, <<"", 6>> >>

FloatLayout ==
    << <<"A", 2>>, <<"Aph", 6>>, <<"", 6>>, <<"PhV", 6>>, <<"W", 2>>, <<"Hz", 2>>, <<"", 6>>, <<"WH", 2>>,
       <<"", 6>>, <<"TmpCab", 2>>, <<"", 6>>, <<"St", 1>>, <<"", 1>>, <<"Evt1", 2>>, <<"", 2>>,
       <<"EvtVnd1", 2>>, <<"", 6>> >>

DCChannels == 8
DCDataLayout == << <<"DCV", 2 * DCChannels>>, <<"DCA", 2 * DCChannels>>, <<"DCW", 2 * DCChannels>> >>

NameplateLayout ==
    << <<"DERTyp", 1>>, <<"WRtg", 1>>, <<"", 1>>, <<"VARtg", 1>>, <<"", 1>>, <<"", 5>>, <<"ARtg", 1>>, <<"", 1>>,
       <<"PFRtg", 4>>, <<"", 1>>, <<"", 8>>, <<"", 1>> >>

SettingsLayout == << <<"WMax", 1>>, <<"VRef", 1>>, <<"", 18>>, <<"", 9>>, <<"", 1>> >>

ControlsLayout ==
    << <<"", 2>>, <<"Conn", 1>>, <<"WMaxLimPct", 1>>, <<"", 1>>, <<"RvrtTms", 1>>, <<"", 1>>, <<"Ena", 1>>,
       <<"", 13>>, <<"", 3>> >>

TripHeader == << <<"Ena", 1>>, <<"", 6>>, <<"ReadOnly", 1>> >>
VPoint == << <<"V", 1>>, <<"Tms", 2>> >>
HzPoint == << <<"Hz", 2>>, <<"Tms", 2>> >>
\* Three tiers, each a count and three points.
TripLayout(pt) ==
    LET tier == << <<"ActPt", 1>> >> \o pt \o pt \o pt IN TripHeader \o tier \o tier \o tier

EnterServiceLayout ==
    << <<"ES", 1>>, <<"ESVHi", 1>>, <<"ESVLo", 1>>, <<"ESHzHi", 2>>, <<"ESHzLo", 2>>, <<"ESDlyTms", 2>>,
       <<"", 6>>, <<"", 2>> >>

FreqDroopLayout ==
    << <<"Ena", 1>>, <<"AdptCtlReq", 1>>, <<"AdptCtlRslt", 1>>, <<"NCtl", 1>>, <<"", 2>>, <<"", 2>>, <<"", 1>>,
       <<"", 3>>, <<"DbOf", 2>>, <<"DbUf", 2>>, <<"KOf", 1>>, <<"KUf", 1>>, <<"RspTms", 2>>, <<"PMin", 1>>,
       <<"ReadOnly", 1>> >>

FreqWattLayout ==
    << <<"ActCrv", 1>>, <<"ModEna", 1>>, <<"", 3>>, <<"NCrv", 1>>, <<"NPt", 1>>, <<"", 3>>, <<"ActPt", 1>>,
       <<"Hz1", 1>>, <<"W1", 1>>, <<"Hz2", 1>>, <<"W2", 1>>, <<"Hz3", 1>>, <<"W3", 1>>, <<"Hz4", 1>>, <<"W4", 1>>,
       <<"", 32>>, <<"CrvNam", 8>>, <<"", 8>>, <<"ReadOnly", 1>> >>

MPPTHeader == << <<"", 6>>, <<"N", 1>>, <<"", 1>> >>
MPPTModule == << <<"ID", 1>>, <<"IDStr", 8>>, <<"DCA", 1>>, <<"DCV", 1>>, <<"DCW", 1>>, <<"", 2>>, <<"", 2>>,
                 <<"Tmp", 1>>, <<"DCSt", 1>>, <<"", 2>> >>

VendorHeader == << <<"", 1>>, <<"", 8>>, <<"", 6>>, <<"N", 1>> >>
VendorRow == << <<"Index", 1>>, <<"Signal", 1>>, <<"Limit", 1>>, <<"Phase", 1>>, <<"Model", 1>>, <<"Sw", 1>>,
                <<"Panels", 1>>, <<"Rated", 1>>, <<"Online", 1>>, <<"", 1>> >>

-----------------------------------------------------------------------------
(* Sections: model id, declared length, registers written, values.         *)

Section(id, len, layout, reg) == [id |-> id, len |-> len, width |-> RegisterWidth(layout), reg |-> reg]
Listing(id, len, header, n, row, reg) ==
    [id |-> id, len |-> len, width |-> RegisterWidth(header) + n * RegisterWidth(row), reg |-> reg]

EmitCommon(sn, da) == Section(1, 66, CommonLayout, [SN |-> sn, DA |-> da])

\* eventOutputForInverter and eventOutputForAggregate: the union over the fleet.
FaultsOf(inv) == FaultsFromReply(inv.model, inv.status)
EventOutput(invs) ==
    [evt1 |-> UNION {FaultsToSunSpecEvt1(FaultsOf(inv)) : inv \in ToSet(invs)},
     vnd1 |-> UNION {FaultsToEvtVnd1(FaultsOf(inv)) : inv \in ToSet(invs)}]

AggregateValues(s) ==
    LET amps == DerivePhaseCurrents(s)
        phases == DetectPhase(s)
        events == EventOutput(s.invs)
    IN  [A |-> amps.total, Aph |-> PhaseValues(amps.leg, phases),
         PhV |-> PhaseValues(DerivePhaseVoltages(s), phases), W |-> SystemPowerW(s),
         St |-> OperatingState(Online(s) # <<>>, SystemPowerW(s)), Evt1 |-> events.evt1, EvtVnd1 |-> events.vnd1]

PerInverterValues(inv) ==
    LET a == Deciamps(inv.watts, inv.volts)
        events == EventOutput(<<inv>>)
    IN  [A |-> a, Aph |-> PhaseValues(<<a>>, 1), PhV |-> PhaseValues(<<inv.volts>>, 1), W |-> inv.watts,
         St |-> OperatingState(inv.online, inv.watts), Evt1 |-> events.evt1, EvtVnd1 |-> events.vnd1]

\* Models 101/102/103 and their float twins 111/112/113.
EmitInverter(phases, values) == Section(100 + phases, 50, InverterLayout, values)
EmitInverterFloat(phases, values) == Section(110 + phases, 60, FloatLayout, values)

\* Model 114: the first eight panels.
EmitDCDataFloat(invs) ==
    LET powers == FlattenSeq([k \in 1..Len(invs) |-> PanelPowers(invs[k])])
    IN  Section(114, 48, DCDataLayout,
                [DCW |-> SubSeq(powers, 1, IF Len(powers) < DCChannels THEN Len(powers) ELSE DCChannels)])

EmitNameplate(w) == Section(120, 26, NameplateLayout, [WRtg |-> w, VARtg |-> w])

EmitBasicSettings(s) ==
    LET w == TotalLimitedW(s)
    IN  Section(121, 30, SettingsLayout, [WMax |-> IF w <= 0 \/ w > 65535 THEN NotImpl ELSE w])

\* invCapPct, AggregateControlsState and PerInverterControlsState.
InvCapPct(inv) == (LimitedW(inv) * 10000) \div NameplateW(inv.model)
ControlsState(invs) ==
    IF invs = <<>> THEN [WMaxLimPct |-> 10000, Ena |-> 0, Conn |-> 0]
    ELSE [WMaxLimPct |-> Total(invs, InvCapPct) \div Len(invs),
          Ena |-> IF \E inv \in ToSet(invs) : inv.cap < FullCapW THEN 1 ELSE 0,
          Conn |-> IF \E inv \in ToSet(invs) : inv.online THEN 1 ELSE 0]
EmitControls(invs) == Section(123, 24, ControlsLayout, ControlsState(invs))

\* tripPointsFromProtection: <<threshold, clearing time>> pairs whose codes
\* were both read back; the ten-minute average has no clearing code.
Point(p, v, t) ==
    IF Has(p, {v, t}) THEN << [code |-> v, val |-> Value(p, v), tms |-> Value(p, t)] >> ELSE <<>>
TripPoints(p) ==
    [LV |-> Point(p, "AC", "BB") \o Point(p, "AQ", "BD"),
     HV |-> Point(p, "AY", "BE") \o Point(p, "AD", "BC")
              \o (IF Has(p, {"AB"}) THEN << [code |-> "AB", val |-> Value(p, "AB"), tms |-> 60000] >> ELSE <<>>),
     LF |-> Point(p, "AE", "BJ") \o Point(p, "AJ", "BH"),
     HF |-> Point(p, "AF", "BK") \o Point(p, "AK", "BI")]
TripValues(points) == [Ena |-> IF points # <<>> THEN 1 ELSE 0, Points |-> points]
EmitDERTripModels(p) ==
    LET t == TripPoints(p)
    IN  << Section(707, 38, TripLayout(VPoint), TripValues(t.LV)), Section(708, 38, TripLayout(VPoint), TripValues(t.HV)),
           Section(709, 47, TripLayout(HzPoint), TripValues(t.LF)), Section(710, 47, TripLayout(HzPoint), TripValues(t.HF)) >>

\* Enter Service looks at Has for ES only, not for the values it shows.
EmitEnterService(p) ==
    Section(703, 17, EnterServiceLayout,
            [ES |-> IF Has(p, {"AG"}) THEN 1 ELSE 0, ESDlyTms |-> Rounded(Value(p, "AG"), 100),
             ESHzHi |-> Value(p, "BQ"), ESHzLo |-> Value(p, "BP")])

DroopOn(p) == Value(p, "CV") \in {1300, 1400}
EmitFreqDroop(p, rslt, req) ==
    Section(711, 22, FreqDroopLayout,
            [Ena |-> IF DroopOn(p) THEN 1 ELSE 0, AdptCtlReq |-> req, AdptCtlRslt |-> rslt,
             DbOf |-> IF Has(p, {"DC"}) /\ Value(p, "DC") > 5000 THEN Value(p, "DC") - 5000 ELSE 0,
             KOf |-> IF Has(p, {"DD"}) /\ Value(p, "DD") > 0 THEN Rounded(Value(p, "DD"), 10) ELSE 0])

EmitFreqWattCurve(p) ==
    LET all == Has(p, {"DH", "DI", "CB", "CC"})
    IN  Section(134, 10 + 58, FreqWattLayout,
                [ModEna |-> IF all /\ DroopOn(p) THEN 1 ELSE 0, ActPt |-> IF all THEN 4 ELSE 0,
                 Hz1 |-> Value(p, "DH"), Hz2 |-> Value(p, "DI"), Hz3 |-> Value(p, "CB"), Hz4 |-> Value(p, "CC")])

\* Model 160: one module per panel, no section without panels.
EmitMultiMPPT(invs) ==
    LET Of(inv) == [k \in 1..Len(PanelPowers(inv)) |->
                      [dca |-> IF inv.volts > 0 THEN Deciamps(PanelPowers(inv)[k], inv.volts) ELSE NotImpl,
                       dcv |-> IF inv.volts > 0 THEN inv.volts ELSE NotImpl,
                       dcw |-> PanelPowers(inv)[k],
                       st |-> IF PanelPowers(inv)[k] > 0 THEN "mppt" ELSE "off"]]
        modules == FlattenSeq([k \in 1..Len(invs) |-> Of(invs[k])])
        n == Len(modules)
    IN  IF n = 0 THEN <<>>
        ELSE << Listing(160, 8 + 20 * n, MPPTHeader, n, MPPTModule, [N |-> n, Modules |-> modules]) >>

EmitVendor(s) ==
    LET n == Len(s.invs)
    IN  IF n = 0 THEN <<>>
        ELSE << Listing(64202, 16 + 10 * n, VendorHeader, n, VendorRow,
                        [N |-> n, Limit |-> [k \in 1..n |-> s.invs[k].cap],
                         Online |-> [k \in 1..n |-> s.invs[k].online]]) >>

EndMarker == Section(65535, 0, <<>>, <<>>)

\* aggregateProtection: that of the first inverter that has one, otherwise of
\* any UID the client has protection but no telemetry for.
AggregateProtections(s) ==
    LET own == SelectInSeq(s.uids, LAMBDA u : s.prots[u].val # <<>>)
    IN  IF own # 0 THEN {s.prots[s.uids[own]]}
        ELSE IF s.orphans # {} THEN {s.prots[u] : u \in s.orphans} ELSE {NoProt}

\* Encode: the bank of the fleet; rslt maps <<unit, model>> to the result and
\* request counter of Model 711.
Encode(s, p, rslt) ==
    LET phases == DetectPhase(s)
        values == AggregateValues(s)
    IN  << EmitCommon("fleet", 1), EmitInverter(phases, values), EmitInverterFloat(phases, values),
           EmitDCDataFloat(s.invs), EmitNameplate(IF s.rated > 0 THEN s.rated ELSE TotalNameplateW(s)),
           EmitBasicSettings(s), EmitControls(s.invs) >>
        \o EmitDERTripModels(p)
        \o << EmitEnterService(p), EmitFreqDroop(p, rslt[1], rslt[2]), EmitFreqWattCurve(p) >>
        \o EmitMultiMPPT(s.invs) \o EmitVendor(s) \o << EndMarker >>

\* EncodePerInverterWithProtection.
EncodePerInverter(s, k, rslt) ==
    LET inv == s.invs[k]
        p == s.prots[s.uids[k]]
        values == PerInverterValues(inv)
    IN  << EmitCommon(s.uids[k], k + 1), EmitInverter(1, values), EmitInverterFloat(1, values),
           EmitDCDataFloat(<<inv>>), EmitNameplate(NameplateW(inv.model)), EmitControls(<<inv>>) >>
        \o EmitDERTripModels(p)
        \o << EmitEnterService(p), EmitFreqDroop(p, rslt[1], rslt[2]), EmitFreqWattCurve(p) >>
        \o EmitMultiMPPT(<<inv>>) \o << EndMarker >>

-----------------------------------------------------------------------------
(* Addresses, counted from the base register.                              *)

\* Where section k starts, by the registers that were written.
Start(bank, k) == 2 + Total(SubSeq(bank, 1, k - 1), LAMBDA sec : 2 + sec.width)
Size(bank) == Start(bank, Len(bank) + 1)

\* Bank.Contains.
BankContains(bank, addr, count) == count > 0 /\ addr >= 0 /\ addr + count <= Size(bank)

\* findModelInBank: the address of a model by the lengths that are declared,
\* 0 when the walk ends without it.
FindModelInBank(bank, id) ==
    LET k == SelectInSeq(bank, LAMBDA sec : sec.id = id)
    IN  IF k = 0 THEN 0
        ELSE 2 + Total(SubSeq(bank, 1, k - 1), LAMBDA sec : 2 + sec.len)

Reg(bank, id) == bank[SelectInSeq(bank, LAMBDA sec : sec.id = id)].reg
Emits(bank, id) == SelectInSeq(bank, LAMBDA sec : sec.id = id) # 0
=============================================================================
