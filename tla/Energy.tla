------------------------------- MODULE Energy -------------------------------
(***************************************************************************)
(* Energy accounting (internal/store, internal/ingest BuildFleetSummary).  *)
(* An inverter's raw counter wraps, is reset when it wakes, and is now and *)
(* then read as garbage.  The store adds up the differences it believes    *)
(* and keeps an anchor per period; summaries are built by two goroutines   *)
(* (the frame handler and the replay to a new subscriber) that share the   *)
(* tables and no lock.                                                     *)
(***************************************************************************)
EXTENDS Integers, FiniteSets, FiniteSetsExt

CONSTANTS
    Meters,         \* inverters, one channel each
    Wrap,           \* the raw counter counts modulo this
    Rated,          \* the most a channel produces per unit of time
    SafetyFactor,   \* energyAnomalySafetyFactor
    MaxProduced,    \* bound on what the inverters produce
    MaxTime,        \* bound on the age of a row
    MaxBad,         \* bound on resets, garbage reads, failures and deletions
    NoRow           \* an absent row

ASSUME EnergyAssumption ==
    /\ {Wrap, Rated, SafetyFactor} \subseteq Nat \ {0}
    /\ {MaxProduced, MaxTime, MaxBad} \subseteq Nat
    /\ NoRow \notin Nat /\ NoRow \notin [cum : Nat, prev : Nat, age : Nat] /\ IsFiniteSet(Meters)

Builders == {"handler", "replay"}

VARIABLES
    raw,        \* the counter of each inverter
    lifetime,   \* energy_lifetime: cum, prev and the age of the row, or NoRow
    anchor,     \* energy_period_anchor for "day" and the current key, or NoRow
    builder,    \* each goroutine in BuildFleetSummary: the lifetime it has read
    bad,        \* what MaxBad bounds
    made,       \* really produced so far; not in the program, as the next five
    base,       \* ... of that, before the row was first written
    early,      \* produced before the current day
    slack,      \* what garbage reads may have added
    blind,      \* a read of the lifetime failed since the anchor was seeded
    clean       \* no wrap, reset, garbage or deletion since the first row

energyVars == <<raw, lifetime, anchor, builder, bad, made, base, early, slack, blind, clean>>

Row(cum, prev, age) == [cum |-> cum, prev |-> prev, age |-> age]
Cum(i) == IF lifetime[i] = NoRow THEN 0 ELSE lifetime[i].cum

SumOver(f) == MapThenSumSet(LAMBDA i : f[i], Meters)

(* FleetLifetimeWh: the sum over the rows there are.                       *)
FleetLifetimeWh == SumOver([i \in Meters |-> Cum(i)])

\* The types, a part of EnergyAccounted.
EnergyTypeOK ==
    /\ raw \in [Meters -> 0 .. Wrap - 1] /\ made \in [Meters -> 0 .. MaxProduced]
    /\ \A i \in Meters : lifetime[i] # NoRow =>
          lifetime[i].cum \in Nat /\ lifetime[i].prev \in 0 .. Wrap - 1 /\ lifetime[i].age \in 0 .. MaxTime
    /\ anchor = NoRow \/ anchor \in Nat
    /\ builder \in [Builders -> Nat \cup {NoRow}] /\ bad \in 0 .. MaxBad
    /\ base \in [Meters -> Nat] /\ early \in Nat /\ slack \in [Meters -> Nat] /\ blind \in BOOLEAN /\ clean \in [Meters -> BOOLEAN]

EnergyInit ==
    /\ raw = [i \in Meters |-> 0] /\ made = raw /\ base = raw /\ slack = raw
    /\ lifetime = [i \in Meters |-> NoRow] /\ anchor = NoRow
    /\ builder = [b \in Builders |-> NoRow]
    /\ bad = 0 /\ early = 0 /\ blind = FALSE /\ clean = [i \in Meters |-> TRUE]

-----------------------------------------------------------------------------
(* The inverter, outside the program: it produces no more than its rating, *)
(* and it starts from zero when it wakes.                                  *)

Produce(i, n) ==
    /\ n <= Rated /\ SumOver(made) + n <= MaxProduced
    /\ lifetime[i] # NoRow => lifetime[i].age < MaxTime
    /\ made' = [made EXCEPT ![i] = @ + n]
    /\ raw' = [raw EXCEPT ![i] = (@ + n) % Wrap]
    /\ clean' = [clean EXCEPT ![i] = @ /\ raw[i] + n < Wrap]
    /\ lifetime' = IF lifetime[i] = NoRow THEN lifetime ELSE [lifetime EXCEPT ![i].age = @ + 1]
    /\ UNCHANGED <<anchor, builder, bad, base, early, slack, blind>>

ResetCounter(i) ==
    /\ bad < MaxBad /\ bad' = bad + 1 /\ raw[i] # 0
    /\ raw' = [raw EXCEPT ![i] = 0] /\ clean' = [clean EXCEPT ![i] = FALSE]
    /\ UNCHANGED <<lifetime, anchor, builder, made, base, early, slack, blind>>

-----------------------------------------------------------------------------
(* isAnomalousDelta: more than the rating allows over the time since the   *)
(* last row, with a floor on that time.                                    *)
Ceiling(age) == Rated * SafetyFactor * (IF age < 1 THEN 1 ELSE age)
isAnomalousDelta(delta, age) == delta > Ceiling(age)

(* Faulty variant: a counter that went down is taken for one that wrapped. *)
AppliedAsWrap(row, new) ==
    LET delta == (new - row.prev) % Wrap
    IN  Row(row.cum + IF isAnomalousDelta(delta, row.age) THEN 0 ELSE delta, new, 0)

(* WriteEnergyLifetime for one channel, one transaction.                   *)
Applied(row, new) ==
    LET delta == new - row.prev
        counts == new >= row.prev /\ ~isAnomalousDelta(delta, row.age)
    IN  Row(row.cum + IF counts THEN delta ELSE 0, new, 0)

WriteEnergyLifetime(i, new) ==
    lifetime' = [lifetime EXCEPT ![i] = IF lifetime[i] = NoRow THEN Row(0, new, 0) ELSE Applied(@, new)]

StoreFrame(i) ==
    /\ WriteEnergyLifetime(i, raw[i])
    /\ base' = IF lifetime[i] = NoRow THEN [base EXCEPT ![i] = made[i]] ELSE base
    /\ UNCHANGED <<raw, anchor, builder, bad, made, early, slack, blind, clean>>

(* A mis-framed read, and what it can add: now, and when a good read       *)
(* follows it.                                                             *)
StoreGarbage(i) ==
    /\ bad < MaxBad /\ bad' = bad + 1
    /\ \E g \in 0 .. Wrap - 1 : g # raw[i] /\ WriteEnergyLifetime(i, g)
    /\ base' = IF lifetime[i] = NoRow THEN [base EXCEPT ![i] = made[i]] ELSE base
    /\ slack' = [slack EXCEPT ![i] = @ + (IF lifetime[i] = NoRow THEN 0 ELSE Ceiling(lifetime[i].age)) + Ceiling(MaxTime)]
    /\ clean' = [clean EXCEPT ![i] = FALSE]
    /\ UNCHANGED <<raw, anchor, builder, made, early, blind>>

-----------------------------------------------------------------------------
(* BuildFleetSummary: the lifetime is read first, then                     *)
(* PeriodEnergyWh compares it with the anchor of the day; month and year   *)
(* only differ in the key.                                                 *)

ReadLifetime(b) ==
    /\ builder[b] = NoRow
    /\ builder' = [builder EXCEPT ![b] = FleetLifetimeWh]
    /\ UNCHANGED <<raw, lifetime, anchor, bad, made, base, early, slack, blind, clean>>

(* Faulty variant: the anchor of yesterday is kept and the first summary   *)
(* of a period counts from nothing.                                        *)
AnchoredAtZero(now) == IF anchor = NoRow THEN 0 ELSE IF now < anchor THEN now ELSE anchor

(* Seeded at the first observation, lowered when the lifetime fell below.  *)
Anchored(now) == IF anchor = NoRow \/ now < anchor THEN now ELSE anchor

PeriodEnergyWh(b) ==
    /\ builder[b] # NoRow
    /\ anchor' = Anchored(builder[b])
    /\ builder' = [builder EXCEPT ![b] = NoRow]
    /\ UNCHANGED <<raw, lifetime, bad, made, base, early, slack, blind, clean>>

(* A failed read of the lifetime counts as 0.                              *)
ReadLifetimeFails(b) ==
    /\ bad < MaxBad /\ bad' = bad + 1
    /\ builder[b] = NoRow /\ builder' = [builder EXCEPT ![b] = 0]
    /\ blind' = TRUE
    /\ UNCHANGED <<raw, lifetime, anchor, made, base, early, slack, clean>>

(* The key changes at midnight, when nothing is produced or being counted. *)
NewDay ==
    /\ \A b \in Builders : builder[b] = NoRow
    /\ \A i \in Meters : lifetime[i] # NoRow => lifetime[i].prev = raw[i]
    /\ anchor # NoRow /\ anchor' = NoRow
    /\ early' = FleetLifetimeWh /\ blind' = FALSE
    /\ UNCHANGED <<raw, lifetime, builder, bad, made, base, slack, clean>>

(* DeleteInverter takes the row along.                                     *)
DeleteEnergy(i) ==
    /\ bad < MaxBad /\ bad' = bad + 1
    /\ lifetime[i] # NoRow /\ lifetime' = [lifetime EXCEPT ![i] = NoRow]
    /\ base' = [base EXCEPT ![i] = 0] /\ slack' = [slack EXCEPT ![i] = 0]
    /\ early' = IF early < Cum(i) THEN 0 ELSE early - Cum(i)
    /\ UNCHANGED <<raw, anchor, builder, made, blind, clean>>

EnergyNext ==
    \/ \E i \in Meters, n \in 0 .. Rated : Produce(i, n)
    \/ \E i \in Meters : ResetCounter(i) \/ StoreFrame(i) \/ StoreGarbage(i) \/ DeleteEnergy(i)
    \/ \E b \in Builders : ReadLifetime(b) \/ ReadLifetimeFails(b) \/ PeriodEnergyWh(b)
    \/ NewDay

EnergySpec == EnergyInit /\ [][EnergyNext]_energyVars

-----------------------------------------------------------------------------
(* The accumulated energy (store.go, WriteEnergyLifetime) never exceeds    *)
(* what was produced since the row exists, except by what garbage reads    *)
(* can add within the rate ceiling; and as long as nothing wrapped, reset  *)
(* or misread it misses only what the next frame will bring.  A summary    *)
(* built now would not count energy of an earlier day as today's           *)
(* (PeriodEnergyWh), whatever the two builders did to the anchor, unless a *)
(* read of the lifetime failed: it re-anchors the period at 0.             *)
EnergyAccounted ==
    /\ EnergyTypeOK
    /\ \A i \in Meters : lifetime[i] # NoRow =>
          /\ Cum(i) <= made[i] - base[i] + slack[i]
          /\ clean[i] => Cum(i) + (raw[i] - lifetime[i].prev) = made[i] - base[i]
    /\ anchor # NoRow /\ ~blind => anchor >= early
=============================================================================
