--------------------------- MODULE SunSpecServer ---------------------------
(***************************************************************************)
(* internal/sunspec/server: the refresh loop that publishes the register   *)
(* banks and the snapshot, a Modbus client that learns addresses from a    *)
(* bank and writes to them later, and the tracker of writes whose effect   *)
(* is seen when the inverter is read back.  Banks and snapshot are two     *)
(* atomic pointers: a handler loads one after the other.  The effect of    *)
(* Model 123 writes is the subject of PowerLimit.                          *)
(***************************************************************************)
EXTENDS SunSpecBank

CONSTANTS
    UidOrder,       \* all UIDs the client of inv-driver may hold, sorted
    Readings,       \* readings of one inverter; see SunSpecBank
    FirstFleets,    \* what the client holds at the start
    UnitIds,        \* Modbus units the client talks to
    Asks,           \* writes: [model, field, vals]
    RatedW,         \* nameplate of the FleetSummary, 0 before the first
    MaxChanges,     \* bound: changes of the fleet
    MaxWriteOps,    \* bound: writes
    NoBanks, NoLoad, NoEntry

SunUids == ToSet(UidOrder)
NotListed == [model |-> "DS3", listed |-> FALSE, online |-> FALSE, watts |-> 0, volts |-> 0, leg |-> 0,
              cap |-> FullCapW, panels |-> <<>>, status |-> {}, wire |-> <<>>]

\* The fields a client writes: those the writers know.
WritableFields(m) ==
    CASE m = 123 -> {"Conn", "WMaxLimPct", "Ena"} [] m = 703 -> {"ESDlyTms"}
      [] m = 711 -> {"Ena", "DbOf", "KOf", "RspTms"} [] m = 134 -> {"Hz1", "Hz2", "Hz3", "Hz4"}

\* A write starts at a field; in Model 123, where a longer one may hold several
\* controls, it is one register.
ASSUME SunAssumption ==
    /\ UidOrder \in Seq(SunUids) /\ "fleet" \notin SunUids /\ UnitIds \subseteq Nat
    /\ {MaxChanges, MaxWriteOps} \subseteq Nat
    /\ FirstFleets \subseteq [SunUids -> Readings \cup {NotListed}]
    /\ \A r \in Readings : \A c \in DOMAIN r.wire : r.wire[c] \in Int
    /\ \A wr \in Asks :
          /\ wr.model \in {123, 703, 711, 134} /\ wr.field \in WritableFields(wr.model)
          /\ wr.vals \in Seq(Nat) \ {<<>>} /\ (wr.model = 123 => Len(wr.vals) = 1)

VARIABLES
    cache,      \* invdriver.Client: uid -> reading
    building,   \* the snapshot of the refresh in progress
    stored,     \* and whether its banks are stored
    banks,      \* Server.banks: the snapshot they show and the write results in them
    snap,       \* Server.snap
    tracker,    \* WriteTracker.entries by <<unit, model>>
    learned,    \* the unit the client has read: SN and addresses of the models
    moved,      \* history: whether the unit was given to another inverter since
    request,    \* the write being served
    landed,     \* history: the last write that reached inverters
    changes, writeOps

sunVars == <<cache, building, stored, banks, snap, tracker, learned, moved, request, landed, changes, writeOps>>

Tracked == {711, 134}
Keys == UnitIds \X Tracked

SunInit ==
    /\ cache \in FirstFleets
    /\ building = NoBanks /\ stored = FALSE /\ banks = NoBanks /\ snap = NoBanks
    /\ tracker = [k \in Keys |-> NoEntry]
    /\ learned = NoBanks
    /\ moved = FALSE
    /\ request = NoLoad /\ landed = NoLoad
    /\ changes = 0 /\ writeOps = 0

-----------------------------------------------------------------------------
(* The refresh loop.                                                       *)

\* Telemetry, protection, removal: the client's view of one inverter changes.
CacheChanges(u, r) ==
    /\ changes < MaxChanges /\ changes' = changes + 1
    /\ r # cache[u] /\ cache' = [cache EXCEPT ![u] = r]
    /\ UNCHANGED <<building, stored, banks, snap, tracker, learned, moved, request, landed, writeOps>>

\* provider.Build.
RefreshBuild ==
    /\ building = NoBanks
    /\ building' = BuildSnapshot(UidOrder, cache, RatedW)
    /\ UNCHANGED <<cache, stored, banks, snap, tracker, learned, moved, request, landed, changes, writeOps>>

\* unitIDToInverterUID: the index of a unit in a snapshot, 0 for none.
UnitIndex(s, u) == IF u >= 2 /\ u - 1 <= Len(s.uids) THEN u - 1 ELSE 0

\* protGet knows no field for DH, DI and CB.
ProtGet(p, c) == Has(p, {c}) /\ c \notin {"DH", "DI", "CB"}
MatchesAll(p, want) ==
    \A c \in DOMAIN want : ProtGet(p, c) /\ Value(p, c) - want[c] \in -5..5

\* WriteTracker.Reconcile of one entry, then PruneSettled.  age is 1 past the
\* deadline, 2 past the deadline and the grace.
Reconciled(e, s, u) ==
    LET k == UnitIndex(s, u)
    IN  IF e.rslt # "in progress" THEN e
        ELSE IF k # 0 /\ MatchesAll(s.prots[s.uids[k]], e.want) THEN [e EXCEPT !.rslt = "completed"]
        ELSE IF e.age > 0 THEN [e EXCEPT !.rslt = "failed"] ELSE e
PruneSettled(e) == IF e.rslt # "in progress" /\ e.age = 2 THEN NoEntry ELSE e

\* WriteTracker.Get.
Get(t, u, m) == IF <<u, m>> \notin Keys \/ t[<<u, m>>] = NoEntry THEN <<"completed", 0>>
                ELSE <<t[<<u, m>>].rslt, t[<<u, m>>].req>>

Writable == <<123, 703, 711, 134>>

Addresses(bank) == [m \in ToSet(Writable) |-> FindModelInBank(bank, m)]
Quietly == <<"completed", 0>>

\* Models 123, 703, 711 and 134 stand before the ones whose length varies, so
\* their addresses depend on the kind of bank alone (LayoutWalks says so).
StartsFrom(first) == [m \in ToSet(Writable) |->
    CASE m = 123 -> first [] m = 703 -> first + 204 [] m = 711 -> first + 223 [] m = 134 -> first + 247]
FleetAt == StartsFrom(294)
InverterAt == StartsFrom(262)

\* buildBanks and bankFor, as far as a client sees it that looks for a model:
\* an unknown unit is shown the bank of the fleet.
BankFor(s, u) ==
    IF UnitIndex(s, u) # 0 THEN [sn |-> s.uids[UnitIndex(s, u)], at |-> InverterAt]
    ELSE [sn |-> "fleet", at |-> FleetAt]

\* Reconcile, PruneSettled, buildBanks and banks.Store.
RefreshStoreBanks ==
    /\ building # NoBanks /\ ~stored /\ stored' = TRUE
    /\ tracker' = [k \in Keys |-> IF tracker[k] = NoEntry THEN NoEntry
                                  ELSE PruneSettled(Reconciled(tracker[k], building, k[1]))]
    /\ banks' = [of |-> building, rslt |-> [u \in UnitIds |-> Get(tracker', u, 711)]]
    /\ UNCHANGED <<cache, building, snap, learned, moved, request, landed, changes, writeOps>>

\* The inverter a unit stands for.
Whose(s, u) == IF UnitIndex(s, u) # 0 THEN s.uids[UnitIndex(s, u)] ELSE "fleet"

\* snap.Store.
RefreshStoreSnap ==
    /\ stored /\ stored' = FALSE
    /\ snap' = building /\ building' = NoBanks
    /\ moved' = (moved \/ (learned # NoBanks /\ Whose(building, learned.unit) # learned.sn))
    /\ UNCHANGED <<cache, banks, tracker, learned, request, landed, changes, writeOps>>

\* Time passes a deadline or the grace after it.
Expire(k) ==
    /\ tracker[k] # NoEntry /\ tracker[k].age < 2
    /\ tracker' = [tracker EXCEPT ![k].age = @ + 1]
    /\ UNCHANGED <<cache, building, stored, banks, snap, learned, moved, request, landed, changes, writeOps>>

-----------------------------------------------------------------------------
(* Banks and the writers.                                                  *)

LayoutOf(m) == CASE m = 123 -> ControlsLayout [] m = 703 -> EnterServiceLayout
                 [] m = 711 -> FreqDroopLayout [] OTHER -> FreqWattLayout
BodyLen(m) == CASE m = 123 -> 24 [] m = 703 -> 17 [] m = 711 -> 22 [] OTHER -> 68

Refused == [ok |-> FALSE]
NoOp == [ok |-> TRUE, param |-> "none"]
Sets(param, val, want) == [ok |-> TRUE, param |-> param, val |-> val, want |-> want]

Long(vals) == 65536 * vals[1] + vals[2]
Touched(off, vals) == off..(off + Len(vals) - 1)
Field(m, name) == Registers(LayoutOf(m), name)
ValueAt(m, name, off, vals) == vals[Min(Field(m, name)) - off + 1]

\* routeFor: what the firmware of a family takes.
Routed(model, param) == ~(model = "QS1A" /\ param \in {"CF", "CG", "DC"})

\* Faulty variant: the register is not looked at.
EnterServiceWriterAnywhere(inv, p, off, vals) ==
    IF Len(vals) = 2 /\ Long(vals) \in 10..610 THEN Sets("AG", Long(vals), <<>>) ELSE Refused

EnterServiceWriter(inv, p, off, vals) ==
    IF off = 7 /\ Len(vals) = 2 /\ Long(vals) \in 10..610 THEN Sets("AG", Long(vals), <<>>) ELSE Refused

\* A contiguous write that touches writable registers only holds one field.
FreqDroopWriter(inv, p, off, vals) ==
    LET touched == Touched(off, vals)
        Wants(name) == Field(711, name) \subseteq touched
        Start50 == 5000 + Long(vals)
        Mode == IF ValueAt(711, "Ena", off, vals) = 0 THEN 1500 ELSE IF Value(p, "CV") = 1300 THEN 1300 ELSE 1400
    IN  IF ~(touched \subseteq UNION {Field(711, f) : f \in {"Ena", "AdptCtlReq", "DbOf", "KOf", "RspTms"}})
        THEN Refused
        ELSE IF touched = Field(711, "AdptCtlReq") THEN NoOp
        ELSE IF ~Has(p, {"AK"}) THEN Refused
        ELSE IF Wants("DbOf") THEN (IF Start50 > 5000 /\ Start50 <= Value(p, "AK") - 50
                                    THEN Sets("CA", Start50, [DC |-> Start50]) ELSE Refused)
        ELSE IF Wants("KOf") THEN (IF vals[1] \in 100..1500
                                   THEN Sets("CF", 10 * vals[1], [DD |-> 10 * vals[1]]) ELSE Refused)
        ELSE IF Wants("RspTms") THEN Sets("CG", 100 * Long(vals), <<>>)
        ELSE IF Wants("Ena") THEN Sets("CV", Mode, [CV |-> Mode]) ELSE Refused

CurveCode == [Hz1 |-> "DH", Hz2 |-> "DI", Hz3 |-> "CB", Hz4 |-> "CC"]
FreqWattCurveWriter(inv, p, off, vals) ==
    LET hits == {f \in DOMAIN CurveCode : Field(134, f) = Touched(off, vals)}
    IN  IF hits = {} \/ vals[1] <= 0 THEN Refused
        ELSE LET c == CurveCode[CHOOSE f \in hits : TRUE] IN Sets(c, vals[1], [x \in {c} |-> vals[1]])

\* ControlsWriter, as far as this module needs it: which register is meant.
ControlsWriter(off, vals) ==
    LET hits == {f \in {"Conn", "WMaxLimPct", "Ena"} : Field(123, f) \cap Touched(off, vals) # {}}
    IN  IF hits = {} THEN NoOp ELSE Sets(CHOOSE f \in hits : TRUE, vals[1], <<>>)

\* The writers of the protection models refuse unit 1 and units without an
\* inverter; ControlsWriter takes unit 1 for the fleet.
ApplyWrite(m, s, u, off, vals) ==
    LET k == UnitIndex(s, u)
        inv == s.invs[k]
        p == s.prots[s.uids[k]]
    IN  IF m = 123 THEN (IF k = 0 /\ (u > 1 \/ s.uids = <<>>) THEN Refused ELSE ControlsWriter(off, vals))
        ELSE IF k = 0 THEN Refused
        ELSE CASE m = 703 -> EnterServiceWriter(inv, p, off, vals)
               [] m = 711 -> FreqDroopWriter(inv, p, off, vals)
               [] OTHER -> FreqWattCurveWriter(inv, p, off, vals)

\* handleWrite: the first writable model whose body holds the whole write, 0
\* for none, and what its writer makes of it.
WrittenModel(starts, addr, vals) ==
    LET Holds(m) == LET first == starts[m]
                    IN  first # 0 /\ addr >= first + 2 /\ addr + Len(vals) <= first + 2 + BodyLen(m)
        k == SelectInSeq(Writable, Holds)
    IN  IF k = 0 THEN 0 ELSE Writable[k]
HandleWrite(starts, s, u, addr, vals) ==
    LET m == WrittenModel(starts, addr, vals)
    IN  IF m = 0 THEN Refused ELSE ApplyWrite(m, s, u, addr - starts[m] - 2, vals)

-----------------------------------------------------------------------------
(* A Modbus client and the handler of its write.                           *)

\* The client walks the bank of a unit.
Learn(u) ==
    /\ banks # NoBanks /\ request = NoLoad
    /\ LET shown == BankFor(banks.of, u)
       IN  /\ learned' = [unit |-> u, sn |-> shown.sn, at |-> shown.at]
           /\ moved' = (snap = NoBanks \/ Whose(snap, u) # shown.sn)
    /\ UNCHANGED <<cache, building, stored, banks, snap, tracker, request, landed, changes, writeOps>>

\* The handler of a write loads the banks.
LoadBank(wr) ==
    /\ request = NoLoad /\ learned # NoBanks
    /\ writeOps < MaxWriteOps /\ writeOps' = writeOps + 1
    /\ request' = [ask |-> wr, at |-> BankFor(banks.of, learned.unit).at,
                   addr |-> learned.at[wr.model] + 2 + Min(Field(wr.model, wr.field))]
    /\ UNCHANGED <<cache, building, stored, banks, snap, tracker, learned, moved, landed, changes>>

\* Then the snapshot, and dispatches; Track follows when all frames were sent.
LoadSnap ==
    LET u == learned.unit
        m == WrittenModel(request.at, request.addr, request.ask.vals)
        r == HandleWrite(request.at, snap, u, request.addr, request.ask.vals)
        k == UnitIndex(snap, u)
        goes == r.ok /\ r.param # "none" /\ (m = 123 \/ Routed(snap.invs[k].model, r.param))
    IN  /\ request # NoLoad
        /\ request' = NoLoad
        /\ IF snap # NoBanks /\ goes
           THEN \/ /\ landed' = [ask |-> request.ask, model |-> m, param |-> r.param,
                                 to |-> IF k # 0 THEN {snap.uids[k]} ELSE ToSet(snap.uids),
                                 meant |-> learned.sn, stale |-> moved,
                                 room |-> IF r.param = "CA" THEN Value(snap.prots[snap.uids[k]], "AK") - r.val ELSE 0]
                   /\ tracker' = IF r.want = <<>> THEN tracker
                                 ELSE [tracker EXCEPT ![<<u, m>>] =
                                         [rslt |-> "in progress", want |-> r.want, age |-> 0,
                                          req |-> IF @ = NoEntry THEN 1 ELSE @.req + 1]]
                \/ UNCHANGED <<landed, tracker>>     \* the encoder or Send fails
           ELSE UNCHANGED <<landed, tracker>>
        /\ UNCHANGED <<cache, building, stored, banks, snap, learned, moved, changes, writeOps>>

SunNext ==
    \/ \E u \in SunUids, r \in Readings : CacheChanges(u, r)
    \/ RefreshBuild \/ RefreshStoreBanks \/ RefreshStoreSnap
    \/ \E k \in Keys : Expire(k)
    \/ (\E u \in UnitIds : Learn(u)) \/ (\E wr \in Asks : LoadBank(wr))
    \/ LoadSnap

SunSpec == SunInit /\ [][SunNext]_sunVars

\* The types, a part of NoStrayWrite.
SunTypeOK ==
    /\ cache \in [SunUids -> Readings \cup {NotListed}]
    /\ stored \in BOOLEAN /\ (stored => building # NoBanks)
    /\ \A k \in Keys : tracker[k] # NoEntry => /\ tracker[k].rslt \in {"in progress", "completed", "failed"}
                                               /\ tracker[k].req \in 1..MaxWriteOps /\ tracker[k].age \in 0..2
    /\ learned # NoBanks => learned.unit \in UnitIds /\ learned.sn \in SunUids \cup {"fleet"}
    /\ moved \in BOOLEAN
    /\ changes \in 0..MaxChanges /\ writeOps \in 0..MaxWriteOps

-----------------------------------------------------------------------------
(* Properties.                                                             *)

UnitBanks(s) == [k \in 1..Len(s.invs) |-> EncodePerInverter(s, k, Quietly)]
Near(a, b, d) == a - b \in (-d)..d

\* The W register of the fleet is the sum over the units that are not asleep,
\* and the float model says the same as the integer one.
PowerAgrees(agg, units, phases) ==
    LET awake == SelectSeq(units, LAMBDA b : Reg(b, 101).St # "sleep")
    IN  /\ Reg(agg, 100 + phases).W = Total(awake, LAMBDA b : Reg(b, 101).W)
        /\ (Reg(agg, 100 + phases).St = "sleep") = (awake = <<>>)
        /\ Reg(agg, 110 + phases) = Reg(agg, 100 + phases)

\* The currents of the legs shown add up to the current of the fleet, when the
\* legs in use are the first ones.
LegsAccounted(s, agg, phases) ==
    LET legs == UNION {LegsOf(inv) : inv \in ToSet(Online(s))}
        r == Reg(agg, 100 + phases)
    IN  legs = 1..phases =>
            Near(r.A, Total([l \in 1..phases |-> r.Aph[l]], LAMBDA a : a), phases)

\* Cap and connection of the fleet are those of its units, and the watts of
\* Model 121 are the percentages of Model 123 of the ratings of Model 120.
ControlsAgree(s, agg, units) ==
    LET all == ToSet(units)
        n == Len(units)
        rated == Total(units, LAMBDA b : Reg(b, 120).WRtg)
    IN  n > 0 =>
        /\ Near(n * Reg(agg, 123).WMaxLimPct, Total(units, LAMBDA b : Reg(b, 123).WMaxLimPct), n)
        /\ (Reg(agg, 123).Ena = 1) = (\E b \in all : Reg(b, 123).Ena = 1)
        /\ (Reg(agg, 123).Conn = 1) = (\E b \in all : Reg(b, 101).St # "sleep")
        /\ s.rated = 0 => Reg(agg, 120).WRtg = rated
        /\ \/ Reg(agg, 121).WMax = NotImpl
           \/ /\ Reg(agg, 121).WMax <= rated
              /\ Near(Reg(agg, 121).WMax * 100,
                      Total(units, LAMBDA b : (Reg(b, 123).WMaxLimPct * Reg(b, 120).WRtg) \div 100), 20 * n)

\* An alarm of any inverter is one of the fleet and the other way round, two
\* alarms of one inverter never share a vendor bit, and what Reply.Status says
\* of frequency and voltage is what the standard register says.
AlarmsAgree(s, agg, units, phases) ==
    LET fleet == Reg(agg, 100 + phases)
        all == ToSet(units)
    IN  /\ fleet.Evt1 = UNION {Reg(b, 101).Evt1 : b \in all}
        /\ fleet.EvtVnd1 = UNION {Reg(b, 101).EvtVnd1 : b \in all}
        /\ \A k \in 1..Len(units) :
              LET active == FaultsOf(s.invs[k])
                  r == Reg(units[k], 101)
                  st == InverterStatus(active)
              IN  /\ Cardinality(r.EvtVnd1) = Cardinality(active)
                  /\ (8 \in r.Evt1) = st.FaultA /\ (9 \in r.Evt1) = st.FaultB
                  /\ (10 \in r.Evt1) = st.WarningA /\ (11 \in r.Evt1) = st.WarningB
                  /\ (\E f \in active : FaultSeverity(f) = "error") = (r.EvtVnd1 \cap (0..3 \cup 6..9) # {})

\* The panels of the fleet are the panels of its units, in their order, and
\* Model 114 shows the first of them.
PanelsAgree(agg, units) ==
    LET Mods(b) == IF Emits(b, 160) THEN Reg(b, 160).Modules ELSE <<>>
        all == FlattenSeq([k \in 1..Len(units) |-> Mods(units[k])])
    IN  /\ Mods(agg) = all
        /\ Reg(agg, 114).DCW = [k \in 1..(IF Len(all) < DCChannels THEN Len(all) ELSE DCChannels) |-> all[k].dcw]

\* Every trip point shown was read back and is plausible; the frequency trips
\* of the fleet are those of one of its units, if any unit has some.
TripsAreReadBack(s, agg, units) ==
    /\ \A b \in ToSet(units), m \in {707, 708, 709, 710} :
          \A pt \in ToSet(Reg(b, m).Points) : Plausible(pt.code, pt.val)
    /\ s.orphans = {} => \A m \in {709, 710} :
          \/ Reg(agg, m).Points = <<>>
          \/ \E b \in ToSet(units) : Reg(b, m) = Reg(agg, m)

\* Declared lengths are the registers written, so the walk finds every model,
\* and the writable ones are at the same place whatever the fleet.
LayoutWalks(bank, starts) ==
    /\ Addresses(bank) = starts
    /\ \A k \in 1..Len(bank) : bank[k].len = bank[k].width /\ FindModelInBank(bank, bank[k].id) = Start(bank, k)
    /\ BankContains(bank, 0, Size(bank)) /\ ~BankContains(bank, 1, Size(bank))
    /\ bank[Len(bank)].id = 65535

(* What the fleet bank says is what the unit banks say: power, phases,     *)
(* controls, ratings, alarms, panels, protection (sunspec/encoder.go and   *)
(* sunspec/per_inverter.go compute each of them twice), and both can be    *)
(* walked by their declared lengths.  Banks follow from the snapshot alone,*)
(* so they are compared when they are stored and no client has come yet.   *)
BanksAgree ==
    stored /\ learned = NoBanks /\ writeOps = 0 =>
        \A s \in {banks.of} : \A units \in {UnitBanks(s)}, phases \in {DetectPhase(s)} :
            /\ \A p \in AggregateProtections(s) : \A agg \in {Encode(s, p, Quietly)} :
                  /\ PowerAgrees(agg, units, phases) /\ LegsAccounted(s, agg, phases)
                  /\ ControlsAgree(s, agg, units) /\ AlarmsAgree(s, agg, units, phases)
                  /\ PanelsAgree(agg, units) /\ TripsAreReadBack(s, agg, units)
                  /\ LayoutWalks(agg, FleetAt)
            /\ \A b \in ToSet(units) : LayoutWalks(b, InverterAt)

\* The parameter each field stands for.
Meant(wr) ==
    CASE wr.model = 123 -> wr.field
      [] wr.model = 703 -> "AG"
      [] wr.model = 134 -> CurveCode[wr.field]
      [] wr.field = "DbOf" -> "CA" [] wr.field = "KOf" -> "CF" [] wr.field = "RspTms" -> "CG" [] OTHER -> "CV"

(* A write that is applied changes the parameter it was meant for, even if *)
(* banks or snapshot changed since the client learned the address or       *)
(* between the two loads of handleWrite; it reaches another inverter than  *)
(* the one the client read only if the unit has been given to another one  *)
(* since; a protection write reaches one inverter (server.go:258-342).     *)
NoStrayWrite ==
    /\ SunTypeOK
    /\ landed # NoLoad =>
          /\ landed.model = landed.ask.model /\ landed.param = Meant(landed.ask)
          /\ ~landed.stale => IF landed.meant = "fleet" THEN landed.model = 123 ELSE landed.to = {landed.meant}
          /\ landed.model # 123 => Cardinality(landed.to) = 1
          /\ landed.param = "CA" => landed.room >= 50
=============================================================================
