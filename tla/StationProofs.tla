---------------------------- MODULE StationProofs ----------------------------
(***************************************************************************)
(* What the station's store accounts for (Energy), for any inverters,      *)
(* register width, rating and number of garbage reads, what its settings   *)
(* file and interface promise (Settings), for any handlers, MACs and       *)
(* numbers of failures, where the models stand in the banks it shows its   *)
(* Modbus clients (SunSpecBank) and where their writes land                *)
(* (SunSpecServer), for any fleet and any number of changes of it.  Sums   *)
(* are reasoned about with the lemmas of NatInduct.                        *)
(***************************************************************************)
EXTENDS Energy, Settings, SunSpecServer, NatInduct, FiniteSetTheorems, SequenceTheorems

-----------------------------------------------------------------------------
(* The inductive invariant of the energy accounts.                         *)

\* What the next frame may add.
Ahead(i) == IF raw[i] >= lifetime[i].prev THEN raw[i] - lifetime[i].prev ELSE 0

Rows == [cum : Nat, prev : 0 .. Wrap - 1, age : 0 .. MaxTime]

EnergyTypes ==
    /\ raw \in [Meters -> 0 .. Wrap - 1]
    /\ made \in [Meters -> Nat] /\ SumOver(made) <= MaxProduced
    /\ lifetime \in [Meters -> Rows \cup {NoRow}]
    /\ anchor \in Nat \cup {NoRow} /\ builder \in [Builders -> Nat \cup {NoRow}] /\ bad \in 0 .. MaxBad
    /\ base \in [Meters -> Nat] /\ slack \in [Meters -> Nat] /\ early \in Nat
EnergyFlags == blind \in BOOLEAN /\ clean \in [Meters -> BOOLEAN]

\* What is accumulated is covered with what the next frame adds, by what was
\* produced or by what a garbage read has set aside.
Covered(i) ==
    \/ Cum(i) + Ahead(i) <= made[i] - base[i] + slack[i]
    \/ Cum(i) + Ceiling(MaxTime) <= made[i] - base[i] + slack[i]
NothingTooMuch == \A i \in Meters : lifetime[i] # NoRow => Covered(i)

\* A clean counter lags by what the rating allows, so that the next frame is
\* believed.
NothingMissed ==
    \A i \in Meters : lifetime[i] # NoRow /\ clean[i] =>
        /\ Cum(i) + (raw[i] - lifetime[i].prev) = made[i] - base[i]
        /\ raw[i] >= lifetime[i].prev /\ raw[i] - lifetime[i].prev <= Rated * lifetime[i].age

\* The lifetime never falls below that of the day's start, nor does what a
\* builder has read of it.
DayKept ==
    /\ FleetLifetimeWh >= early
    /\ ~blind => /\ anchor # NoRow => anchor >= early
                 /\ \A b \in Builders : builder[b] # NoRow => builder[b] >= early

EnergyInv == EnergyTypes /\ EnergyFlags /\ NothingTooMuch /\ NothingMissed /\ DayKept

LEMMA EnergyBounds ==
    /\ Wrap \in Nat \ {0} /\ Rated \in Nat \ {0} /\ SafetyFactor \in Nat \ {0}
    /\ MaxProduced \in Nat /\ MaxTime \in Nat /\ MaxBad \in Nat
    /\ NoRow \notin Nat /\ NoRow \notin Rows /\ IsFiniteSet(Meters)
  BY EnergyAssumption DEF Rows

-----------------------------------------------------------------------------
(* Rates.                                                                  *)

LEMMA Products ==
    ASSUME NEW k \in Nat, NEW a \in Nat, NEW b \in Nat, a <= b
    PROVE  k * a \in Nat /\ k * a <= k * b
  OBVIOUS

(* The ceiling grows with the time, and covers the rating.                 *)
LEMMA CeilingGrows ==
    ASSUME NEW a \in 0 .. MaxTime
    PROVE  /\ Ceiling(a) \in Nat /\ Ceiling(MaxTime) \in Nat /\ Ceiling(a) <= Ceiling(MaxTime)
           /\ Rated * a \in Nat /\ Rated * a <= Ceiling(a)
  <1>1. PICK k : k = Rated * SafetyFactor
    OBVIOUS
  <1>2. k \in Nat /\ Rated <= k
    <2>1. Rated * 1 <= Rated * SafetyFactor /\ Rated * SafetyFactor \in Nat
      BY EnergyBounds, Products
    <2>2. QED
      BY <1>1, <2>1, EnergyBounds
  <1> DEFINE time(x) == IF x < 1 THEN 1 ELSE x
  <1>3. /\ time(a) \in Nat /\ time(MaxTime) \in Nat /\ a \in Nat
        /\ a <= time(a) /\ time(a) <= time(MaxTime)
    BY EnergyBounds
  <1>4. Ceiling(a) = k * time(a) /\ Ceiling(MaxTime) = k * time(MaxTime)
    BY <1>1 DEF Ceiling
  <1> HIDE DEF time
  <1>5. k * time(a) \in Nat /\ k * time(a) <= k * time(MaxTime) /\ k * time(MaxTime) \in Nat
    BY <1>2, <1>3, Products
  <1>6. Rated * a \in Nat /\ Rated * a <= Rated * time(a) /\ Rated * time(a) \in Nat
    BY <1>3, EnergyBounds, Products
  <1>7. Rated * time(a) <= k * time(a)
    <2>1. time(a) * Rated <= time(a) * k
      BY <1>2, <1>3, EnergyBounds, Products
    <2>2. QED
      BY <1>2, <1>3, <2>1, EnergyBounds
  <1>8. QED
    BY <1>4, <1>5, <1>6, <1>7

(* One more unit of time.                                                  *)
LEMMA RatedMore ==
    ASSUME NEW a \in Nat
    PROVE  Rated * (a + 1) = Rated * a + Rated
  BY EnergyBounds

-----------------------------------------------------------------------------
(* The fleet's lifetime.                                                   *)

LEMMA SumOfMeters ==
    ASSUME NEW f \in [Meters -> Nat], NEW h \in [Meters -> Nat], NEW i \in Meters,
           \A j \in Meters \ {i} : h[j] = f[j]
    PROVE  /\ SumOver(h) = SumOver(f) + h[i] - f[i]
           /\ SumOver(f) \in Nat /\ SumOver(h) \in Nat /\ f[i] <= SumOver(f)
  <1>1. SumOver(f) = Sum(f, Meters) /\ SumOver(h) = Sum(h, Meters)
    BY DEF SumOver, Sum
  <1>2. IsFiniteSet(Meters) /\ f \in [Meters -> Int] /\ h \in [Meters -> Int]
    BY EnergyBounds
  <1>3. Sum(h, Meters) = Sum(f, Meters) + h[i] - f[i]
    BY <1>2, SumChange
  <1>4. Sum(f, Meters) \in Nat /\ Sum(h, Meters) \in Nat /\ f[i] <= Sum(f, Meters)
    BY <1>2, SumNat
  <1>5. QED
    BY <1>1, <1>3, <1>4

LEMMA CumTyped ==
    ASSUME EnergyTypes
    PROVE  [j \in Meters |-> Cum(j)] \in [Meters -> Nat] /\ FleetLifetimeWh \in Nat
  <1>1. [j \in Meters |-> Cum(j)] \in [Meters -> Nat]
    BY DEF EnergyTypes, Cum, Rows
  <1>2. FleetLifetimeWh = Sum([j \in Meters |-> Cum(j)], Meters)
    BY DEF FleetLifetimeWh, SumOver, Sum
  <1>3. Sum([j \in Meters |-> Cum(j)], Meters) \in Nat
    BY <1>1, EnergyBounds, SumNat
  <1>4. QED
    BY <1>1, <1>2, <1>3

(* One row changes: so much does the fleet's lifetime.                     *)
LEMMA FleetMoves ==
    ASSUME EnergyTypes, EnergyTypes', NEW i \in Meters, \A j \in Meters \ {i} : lifetime'[j] = lifetime[j]
    PROVE  /\ FleetLifetimeWh' = FleetLifetimeWh + Cum(i)' - Cum(i)
           /\ FleetLifetimeWh \in Nat /\ FleetLifetimeWh' \in Nat /\ Cum(i) \in Nat /\ Cum(i)' \in Nat
  <1>1. PICK f : f = [j \in Meters |-> Cum(j)]
    OBVIOUS
  <1>2. PICK h : h = [j \in Meters |-> Cum(j)']
    OBVIOUS
  <1>3. f \in [Meters -> Nat] /\ FleetLifetimeWh = SumOver(f)
    BY <1>1, CumTyped DEF FleetLifetimeWh
  <1>4. h \in [Meters -> Nat]
    BY <1>2 DEF EnergyTypes, Cum, Rows
  <1>5. FleetLifetimeWh' = SumOver(h)
    <2>1. FleetLifetimeWh' = SumOver([j \in Meters |-> Cum(j)'])
      BY DEF FleetLifetimeWh
    <2>2. QED
      BY <1>2, <2>1
  <1>6. \A j \in Meters \ {i} : h[j] = f[j]
    BY <1>1, <1>2 DEF Cum
  <1>7. SumOver(h) = SumOver(f) + h[i] - f[i] /\ SumOver(f) \in Nat /\ SumOver(h) \in Nat
    BY <1>3, <1>4, <1>6, SumOfMeters
  <1>8. f[i] = Cum(i) /\ h[i] = Cum(i)' /\ f[i] \in Nat /\ h[i] \in Nat
    BY <1>1, <1>2, <1>3, <1>4
  <1>9. QED
    BY <1>3, <1>5, <1>7, <1>8

LEMMA FleetSame ==
    ASSUME \A j \in Meters : Cum(j)' = Cum(j)
    PROVE  FleetLifetimeWh' = FleetLifetimeWh
  <1>1. FleetLifetimeWh' = SumOver([j \in Meters |-> Cum(j)'])
    BY DEF FleetLifetimeWh
  <1>2. [j \in Meters |-> Cum(j)'] = [j \in Meters |-> Cum(j)]
    OBVIOUS
  <1>3. QED
    BY <1>1, <1>2 DEF FleetLifetimeWh

-----------------------------------------------------------------------------
(* The steps.                                                              *)

LEMMA EnergyStart == EnergyInit => EnergyInv
  <1> SUFFICES ASSUME EnergyInit PROVE EnergyInv
    OBVIOUS
  <1> USE EnergyBounds DEF EnergyInit
  <1>1. EnergyTypes
    <2>1. made \in [Meters -> Nat] /\ made = [j \in Meters |-> 0]
      OBVIOUS
    <2>2. Sum(made, Meters) = 0
      BY <2>1, SumZero
    <2>3. SumOver(made) = 0
      BY <2>2 DEF SumOver, Sum
    <2>4. QED
      BY <2>1, <2>3 DEF EnergyTypes
  <1>2. EnergyFlags
    BY DEF EnergyFlags
  <1>3. NothingTooMuch /\ NothingMissed
    BY DEF NothingTooMuch, NothingMissed
  <1>4. DayKept
    <2>1. FleetLifetimeWh \in Nat
      BY <1>1, CumTyped
    <2>2. QED
      BY <2>1 DEF DayKept
  <1>5. QED
    BY <1>1, <1>2, <1>3, <1>4 DEF EnergyInv

\* What is produced, alone.
LEMMA ProduceMade ==
    ASSUME EnergyTypes, NEW i \in Meters, NEW n \in 0 .. Rated, Produce(i, n)
    PROVE  made' \in [Meters -> Nat] /\ SumOver(made') <= MaxProduced
  <1>1. made' \in [Meters -> Nat] /\ made'[i] = made[i] + n /\ \A j \in Meters \ {i} : made'[j] = made[j]
    BY EnergyBounds DEF EnergyTypes, Produce
  <1>2. SumOver(made') = SumOver(made) + made'[i] - made[i] /\ SumOver(made) \in Nat
    BY <1>1, SumOfMeters DEF EnergyTypes
  <1>3. SumOver(made) + n <= MaxProduced
    BY DEF Produce
  <1>4. QED
    BY <1>1, <1>2, <1>3 DEF EnergyTypes

LEMMA Remainder ==
    ASSUME NEW a \in Nat
    PROVE  a % Wrap \in 0 .. Wrap - 1 /\ a % Wrap <= a /\ (a < Wrap => a % Wrap = a)
  <1>1. a % Wrap \in 0 .. Wrap - 1
    BY EnergyBounds
  <1>2. a < Wrap => a % Wrap = a
    BY EnergyBounds
  <1>3. QED
    BY <1>1, <1>2, EnergyBounds

LEMMA ProduceKeeps ==
    ASSUME EnergyInv, NEW i \in Meters, NEW n \in 0 .. Rated, Produce(i, n)
    PROVE  EnergyInv'
  <1> USE EnergyBounds DEF EnergyInv
  <1>1. EnergyTypes'
    <2>1. lifetime' \in [Meters -> Rows \cup {NoRow}]
      <3>1. CASE lifetime[i] = NoRow
        BY <3>1 DEF EnergyTypes, Produce
      <3>2. CASE lifetime[i] # NoRow
        <4>1. lifetime[i] \in Rows /\ lifetime[i].age + 1 \in 0 .. MaxTime
          BY <3>2 DEF EnergyTypes, Rows, Produce
        <4>2. [lifetime[i] EXCEPT !.age = @ + 1] \in Rows
          BY <4>1 DEF Rows
        <4>3. lifetime' = [lifetime EXCEPT ![i] = [lifetime[i] EXCEPT !.age = @ + 1]]
          BY <3>2 DEF Produce
        <4>4. QED
          BY <4>2, <4>3 DEF EnergyTypes
      <3>3. QED
        BY <3>1, <3>2
    <2>2. raw' \in [Meters -> 0 .. Wrap - 1]
      BY DEF EnergyTypes, Produce
    <2>3. made' \in [Meters -> Nat] /\ SumOver(made') <= MaxProduced
      BY ProduceMade
    <2>4. UNCHANGED <<anchor, builder, bad, base, early, slack>>
      BY DEF Produce
    <2>5. QED
      BY <2>1, <2>2, <2>3, <2>4 DEF EnergyTypes
  <1>2. EnergyFlags'
    BY DEF EnergyFlags, EnergyTypes, Produce
  <1>3. ASSUME NEW j \in Meters, j # i, lifetime'[j] # NoRow
        PROVE  /\ Covered(j) => Covered(j)'
               /\ UNCHANGED <<lifetime[j], raw[j], clean[j], made[j], base[j], slack[j]>> /\ Cum(j)' = Cum(j)
    <2>1. UNCHANGED <<lifetime[j], raw[j], clean[j], made[j], base[j], slack[j]>>
      BY <1>3 DEF Produce, EnergyTypes, EnergyFlags
    <2>2. Cum(j)' = Cum(j) /\ Ahead(j)' = Ahead(j)
      BY <2>1 DEF Cum, Ahead
    <2>3. QED
      BY <2>1, <2>2 DEF Covered
  <1>4. ASSUME lifetime'[i] # NoRow
        PROVE  /\ lifetime[i] \in Rows /\ lifetime'[i] = [lifetime[i] EXCEPT !.age = lifetime[i].age + 1]
               /\ Cum(i)' = Cum(i) /\ Cum(i) \in Nat /\ lifetime'[i].prev = lifetime[i].prev
               /\ lifetime'[i].age = lifetime[i].age + 1
    <2>1. lifetime[i] # NoRow
      BY <1>4 DEF Produce
    <2>2. lifetime[i] \in Rows
      BY <2>1 DEF EnergyTypes
    <2>3. lifetime'[i] = [lifetime[i] EXCEPT !.age = lifetime[i].age + 1]
      BY <2>1 DEF Produce, EnergyTypes
    <2>4. lifetime'[i].cum = lifetime[i].cum /\ lifetime'[i].prev = lifetime[i].prev
          /\ lifetime'[i].age = lifetime[i].age + 1 /\ lifetime[i].cum \in Nat
      BY <2>2, <2>3 DEF Rows
    <2>5. QED
      BY <1>4, <2>1, <2>2, <2>3, <2>4 DEF Cum
  <1>5. /\ raw[i] \in Nat /\ raw'[i] = (raw[i] + n) % Wrap /\ made'[i] = made[i] + n /\ n \in Nat
        /\ base'[i] = base[i] /\ slack'[i] = slack[i] /\ clean'[i] = (clean[i] /\ raw[i] + n < Wrap) /\ n <= Rated
        /\ made[i] \in Nat /\ base[i] \in Nat /\ slack[i] \in Nat
    BY DEF Produce, EnergyTypes, EnergyFlags
  <1>6. raw'[i] \in Nat /\ raw'[i] <= raw[i] + n /\ (raw[i] + n < Wrap => raw'[i] = raw[i] + n)
    BY <1>5, Remainder
  <1>7. NothingTooMuch'
    <2>1. ASSUME lifetime'[i] # NoRow PROVE Covered(i)'
      <3>1. Covered(i) /\ lifetime[i].prev \in Nat
        BY <1>4, <2>1 DEF NothingTooMuch, Rows
      <3>2. Ahead(i)' <= Ahead(i) + n /\ Ahead(i) \in Nat /\ Ahead(i)' \in Nat
        BY <1>4, <1>5, <1>6, <2>1, <3>1 DEF Ahead
      <3>3. Ceiling(MaxTime) \in Nat
        BY CeilingGrows
      <3>4. QED
        BY <1>4, <1>5, <2>1, <3>1, <3>2, <3>3 DEF Covered
    <2>2. ASSUME NEW j \in Meters, lifetime'[j] # NoRow PROVE Covered(j)'
      BY <1>3, <2>1, <2>2 DEF NothingTooMuch
    <2>3. QED
      BY <2>2 DEF NothingTooMuch
  <1>8. NothingMissed'
    <2>1. ASSUME lifetime'[i] # NoRow, clean'[i]
          PROVE  /\ Cum(i)' + (raw'[i] - lifetime'[i].prev) = made'[i] - base'[i]
                 /\ raw'[i] >= lifetime'[i].prev /\ raw'[i] - lifetime'[i].prev <= Rated * lifetime'[i].age
      <3>1. clean[i] /\ raw[i] + n < Wrap /\ lifetime[i] # NoRow
        BY <1>4, <1>5, <2>1
      <3>2. /\ Cum(i) + (raw[i] - lifetime[i].prev) = made[i] - base[i]
            /\ raw[i] >= lifetime[i].prev /\ raw[i] - lifetime[i].prev <= Rated * lifetime[i].age
        BY <3>1 DEF NothingMissed
      <3>3. lifetime[i].prev \in Nat /\ lifetime[i].age \in Nat
        BY <1>4, <2>1 DEF Rows
      <3>4. Rated * (lifetime[i].age + 1) = Rated * lifetime[i].age + Rated /\ Rated * lifetime[i].age \in Nat
        BY <3>3, RatedMore, Products
      <3>5. raw'[i] = raw[i] + n
        BY <1>6, <3>1
      <3>6. /\ Cum(i)' = Cum(i) /\ lifetime'[i].prev = lifetime[i].prev /\ Cum(i) \in Nat
            /\ Rated * lifetime'[i].age = Rated * lifetime[i].age + Rated
        BY <1>4, <2>1, <3>4
      <3>7. Cum(i)' + (raw'[i] - lifetime'[i].prev) = made'[i] - base'[i] /\ raw'[i] >= lifetime'[i].prev
        <4>1. Cum(i) + (raw[i] - lifetime[i].prev) = made[i] - base[i] /\ raw[i] >= lifetime[i].prev
          BY <3>2
        <4>2. Cum(i)' = Cum(i) /\ lifetime'[i].prev = lifetime[i].prev /\ Cum(i) \in Nat
          BY <3>6
        <4> HIDE DEF EnergyInv
        <4>3. QED
          BY ONLY <1>5, <3>3, <3>5, <4>1, <4>2
      <3>8. PICK a \in Nat : a = Rated * lifetime[i].age
        BY <3>4
      <3>9. PICK c : c = Rated * lifetime'[i].age
        OBVIOUS
      <3>10. raw[i] - lifetime[i].prev <= a /\ c = a + Rated
        BY <3>2, <3>6, <3>8, <3>9
      <3>11. raw'[i] - lifetime'[i].prev <= c
        BY <1>5, <3>3, <3>5, <3>6, <3>10
      <3>12. QED
        BY <3>7, <3>9, <3>11
    <2>2. ASSUME NEW j \in Meters, lifetime'[j] # NoRow, clean'[j]
          PROVE  /\ Cum(j)' + (raw'[j] - lifetime'[j].prev) = made'[j] - base'[j]
                 /\ raw'[j] >= lifetime'[j].prev /\ raw'[j] - lifetime'[j].prev <= Rated * lifetime'[j].age
      BY <1>3, <2>1, <2>2 DEF NothingMissed
    <2>3. QED
      BY <2>2 DEF NothingMissed
  <1>9. DayKept'
    <2>1. \A j \in Meters : Cum(j)' = Cum(j)
      <3>1. CASE lifetime[i] = NoRow
        BY <3>1 DEF Produce, Cum
      <3>2. CASE lifetime[i] # NoRow
        <4>1. lifetime'[i] \in Rows /\ lifetime'[i].cum = lifetime[i].cum
          BY <3>2 DEF Produce, EnergyTypes, Rows
        <4>2. ASSUME NEW j \in Meters PROVE Cum(j)' = Cum(j)
          <5>1. CASE j = i
            BY <3>2, <4>1, <5>1 DEF Cum
          <5>2. CASE j # i
            BY <5>2 DEF Cum, Produce, EnergyTypes
          <5>3. QED
            BY <5>1, <5>2
        <4>3. QED
          BY <4>2
      <3>3. QED
        BY <3>1, <3>2
    <2>2. FleetLifetimeWh' = FleetLifetimeWh
      BY <2>1, FleetSame
    <2>3. QED
      BY <2>2 DEF DayKept, Produce
  <1>10. QED
    BY <1>1, <1>2, <1>7, <1>8, <1>9

(* WriteEnergyLifetime, whatever the reading.                              *)
LEMMA RowWritten ==
    ASSUME EnergyTypes, NEW i \in Meters, NEW new \in 0 .. Wrap - 1, WriteEnergyLifetime(i, new)
    PROVE  /\ lifetime' \in [Meters -> Rows \cup {NoRow}] /\ lifetime'[i] # NoRow
           /\ lifetime'[i].prev = new /\ lifetime'[i].age = 0
           /\ \A j \in Meters \ {i} : lifetime'[j] = lifetime[j]
           /\ lifetime[i] = NoRow => Cum(i)' = 0
           /\ lifetime[i] # NoRow =>
                 \/ Cum(i)' = Cum(i) /\ ~(new >= lifetime[i].prev /\ new - lifetime[i].prev <= Ceiling(lifetime[i].age))
                 \/ /\ Cum(i)' = Cum(i) + (new - lifetime[i].prev)
                    /\ new >= lifetime[i].prev /\ new - lifetime[i].prev <= Ceiling(lifetime[i].age)
           /\ Cum(i) \in Nat /\ Cum(i)' \in Nat /\ Cum(i) <= Cum(i)'
  <1>1. PICK r : r = IF lifetime[i] = NoRow THEN Row(0, new, 0) ELSE Applied(lifetime[i], new)
    OBVIOUS
  <1>2. lifetime' = [lifetime EXCEPT ![i] = r]
    BY <1>1 DEF WriteEnergyLifetime, EnergyTypes
  <1>3. new \in Nat /\ 0 \in 0 .. MaxTime
    BY EnergyBounds
  <1>4. CASE lifetime[i] = NoRow
    <2>1. r \in Rows /\ r.cum = 0 /\ r.prev = new /\ r.age = 0 /\ r # NoRow
      BY <1>1, <1>3, <1>4, EnergyBounds DEF Row, Rows
    <2>2. lifetime'[i] = r /\ lifetime' \in [Meters -> Rows \cup {NoRow}]
      BY <1>2, <2>1 DEF EnergyTypes
    <2>3. Cum(i) = 0 /\ Cum(i)' = 0
      BY <1>4, <2>1, <2>2 DEF Cum
    <2>4. \A j \in Meters \ {i} : lifetime'[j] = lifetime[j]
      BY <1>2 DEF EnergyTypes
    <2>5. QED
      BY <1>4, <2>1, <2>2, <2>3, <2>4
  <1>5. CASE lifetime[i] # NoRow
    <2>1. PICK c : c = Ceiling(lifetime[i].age)
      OBVIOUS
    <2>2. /\ lifetime[i] \in Rows /\ lifetime[i].cum \in Nat /\ lifetime[i].prev \in Nat
          /\ lifetime[i].age \in 0 .. MaxTime
      BY <1>5, EnergyBounds DEF EnergyTypes, Rows
    <2>3. c \in Nat
      BY <2>1, <2>2, CeilingGrows
    <2> DEFINE counts == new >= lifetime[i].prev /\ new - lifetime[i].prev <= c
    <2>4. r = Row(lifetime[i].cum + IF counts THEN new - lifetime[i].prev ELSE 0, new, 0)
      <3>1. (new >= lifetime[i].prev /\ ~isAnomalousDelta(new - lifetime[i].prev, lifetime[i].age)) <=> counts
        BY <1>3, <2>1, <2>2, <2>3 DEF isAnomalousDelta
      <3>2. QED
        BY <1>1, <1>5, <3>1 DEF Applied
    <2>5. PICK k : k = lifetime[i].cum + IF counts THEN new - lifetime[i].prev ELSE 0
      OBVIOUS
    <2>6. k \in Nat /\ lifetime[i].cum <= k
      BY <1>3, <2>2, <2>5
    <2>7. r \in Rows /\ r.cum = k /\ r.prev = new /\ r.age = 0 /\ r # NoRow
      BY <1>3, <2>4, <2>5, <2>6, EnergyBounds DEF Row, Rows
    <2>8. lifetime'[i] = r /\ lifetime' \in [Meters -> Rows \cup {NoRow}]
      BY <1>2, <2>7 DEF EnergyTypes
    <2>9. Cum(i) = lifetime[i].cum /\ Cum(i)' = k
      BY <1>5, <2>7, <2>8 DEF Cum
    <2>10. \A j \in Meters \ {i} : lifetime'[j] = lifetime[j]
      BY <1>2 DEF EnergyTypes
    <2>11. \/ k = lifetime[i].cum /\ ~counts
           \/ k = lifetime[i].cum + (new - lifetime[i].prev) /\ counts
      BY <2>2, <2>5
    <2>12. QED
      BY <1>5, <2>1, <2>2, <2>6, <2>7, <2>8, <2>9, <2>10, <2>11
  <1>6. QED
    BY <1>4, <1>5

(* Another inverter's account stays what it was.                           *)
LEMMA OthersKept ==
    ASSUME NEW j \in Meters, UNCHANGED <<lifetime[j], raw[j], clean[j], made[j], base[j], slack[j]>>
    PROVE  /\ Cum(j)' = Cum(j)
           /\ lifetime'[j] # NoRow /\ NothingTooMuch => Covered(j)'
           /\ lifetime'[j] # NoRow /\ clean'[j] /\ NothingMissed =>
                /\ Cum(j)' + (raw'[j] - lifetime'[j].prev) = made'[j] - base'[j]
                /\ raw'[j] >= lifetime'[j].prev /\ raw'[j] - lifetime'[j].prev <= Rated * lifetime'[j].age
  <1>1. Cum(j)' = Cum(j) /\ Ahead(j)' = Ahead(j)
    BY DEF Cum, Ahead
  <1>2. lifetime'[j] # NoRow /\ NothingTooMuch => Covered(j)'
    BY <1>1 DEF NothingTooMuch, Covered
  <1>3. ASSUME lifetime'[j] # NoRow, clean'[j], NothingMissed
        PROVE  /\ Cum(j)' + (raw'[j] - lifetime'[j].prev) = made'[j] - base'[j]
               /\ raw'[j] >= lifetime'[j].prev /\ raw'[j] - lifetime'[j].prev <= Rated * lifetime'[j].age
    BY <1>1, <1>3 DEF NothingMissed
  <1>4. QED
    BY <1>1, <1>2, <1>3

(* The day's books, when the lifetime does not fall.                       *)
LEMMA DayGrows ==
    ASSUME DayKept, FleetLifetimeWh' >= FleetLifetimeWh, UNCHANGED <<anchor, builder, early, blind>>,
           FleetLifetimeWh \in Nat, FleetLifetimeWh' \in Nat, early \in Nat
    PROVE  DayKept'
  BY DEF DayKept

LEMMA ResetKeeps ==
    ASSUME EnergyInv, NEW i \in Meters, ResetCounter(i)
    PROVE  EnergyInv'
  <1> USE EnergyBounds DEF EnergyInv, ResetCounter
  <1>1. EnergyTypes'
    BY DEF EnergyTypes
  <1>2. EnergyFlags'
    BY DEF EnergyFlags
  <1>3. ASSUME NEW j \in Meters, j # i PROVE UNCHANGED <<lifetime[j], raw[j], clean[j], made[j], base[j], slack[j]>>
    BY <1>3 DEF EnergyTypes, EnergyFlags
  <1>4. NothingTooMuch'
    <2>1. ASSUME lifetime'[i] # NoRow PROVE Covered(i)'
      <3>1. Covered(i) /\ lifetime[i] \in Rows /\ lifetime[i].prev \in Nat /\ raw[i] \in Nat
        BY <2>1 DEF NothingTooMuch, EnergyTypes, Rows
      <3>2. Ahead(i)' <= Ahead(i) /\ Ahead(i) \in Nat /\ Ahead(i)' \in Nat
        BY <3>1 DEF Ahead, EnergyTypes
      <3>3. Cum(i)' = Cum(i) /\ Cum(i) \in Nat
        BY <2>1, <3>1 DEF Cum, Rows
      <3>4. made[i] \in Nat /\ base[i] \in Nat /\ slack[i] \in Nat
        BY DEF EnergyTypes
      <3>5. QED
        BY <3>1, <3>2, <3>3, <3>4 DEF Covered
    <2>2. ASSUME NEW j \in Meters, lifetime'[j] # NoRow PROVE Covered(j)'
      BY <1>3, <2>1, <2>2, OthersKept
    <2>3. QED
      BY <2>2 DEF NothingTooMuch
  <1>5. NothingMissed'
    <2>1. clean'[i] = FALSE
      BY DEF EnergyFlags
    <2>2. QED
      BY <1>3, <2>1, OthersKept DEF NothingMissed
  <1>6. DayKept'
    <2>1. FleetLifetimeWh' = FleetLifetimeWh
      BY FleetSame DEF Cum
    <2>2. QED
      BY <2>1 DEF DayKept
  <1>7. QED
    BY <1>1, <1>2, <1>4, <1>5, <1>6

LEMMA StoreFrameKeeps ==
    ASSUME EnergyInv, NEW i \in Meters, StoreFrame(i)
    PROVE  EnergyInv'
  <1> USE EnergyBounds DEF EnergyInv
  <1>1. /\ raw[i] \in 0 .. Wrap - 1 /\ WriteEnergyLifetime(i, raw[i])
        /\ UNCHANGED <<raw, anchor, builder, bad, made, early, slack, blind, clean>>
    BY DEF EnergyTypes, StoreFrame
  <1>2. /\ lifetime' \in [Meters -> Rows \cup {NoRow}] /\ lifetime'[i] # NoRow
        /\ lifetime'[i].prev = raw[i] /\ lifetime'[i].age = 0
        /\ \A j \in Meters \ {i} : lifetime'[j] = lifetime[j]
        /\ lifetime[i] = NoRow => Cum(i)' = 0
        /\ lifetime[i] # NoRow =>
              \/ /\ Cum(i)' = Cum(i)
                 /\ ~(raw[i] >= lifetime[i].prev /\ raw[i] - lifetime[i].prev <= Ceiling(lifetime[i].age))
              \/ /\ Cum(i)' = Cum(i) + (raw[i] - lifetime[i].prev)
                 /\ raw[i] >= lifetime[i].prev /\ raw[i] - lifetime[i].prev <= Ceiling(lifetime[i].age)
        /\ Cum(i) \in Nat /\ Cum(i)' \in Nat /\ Cum(i) <= Cum(i)'
    BY <1>1, RowWritten
  <1>3. base' \in [Meters -> Nat] /\ base'[i] = (IF lifetime[i] = NoRow THEN made[i] ELSE base[i])
        /\ \A j \in Meters \ {i} : base'[j] = base[j]
    BY DEF EnergyTypes, StoreFrame
  <1>4. EnergyTypes'
    BY <1>1, <1>2, <1>3 DEF EnergyTypes
  <1>5. EnergyFlags'
    BY <1>1 DEF EnergyFlags
  <1>6. ASSUME NEW j \in Meters, j # i PROVE UNCHANGED <<lifetime[j], raw[j], clean[j], made[j], base[j], slack[j]>>
    BY <1>1, <1>2, <1>3, <1>6
  <1>7. /\ made[i] \in Nat /\ base[i] \in Nat /\ slack[i] \in Nat /\ raw[i] \in Nat /\ made'[i] = made[i]
        /\ slack'[i] = slack[i] /\ raw'[i] = raw[i] /\ clean'[i] = clean[i]
    BY <1>1 DEF EnergyTypes
  <1>8. lifetime[i] # NoRow => /\ lifetime[i].prev \in Nat /\ lifetime[i].age \in Nat
                               /\ Ceiling(lifetime[i].age) \in Nat /\ Ceiling(MaxTime) \in Nat
                               /\ Ceiling(lifetime[i].age) <= Ceiling(MaxTime)
                               /\ Rated * lifetime[i].age \in Nat /\ Rated * lifetime[i].age <= Ceiling(lifetime[i].age)
    <2>1. lifetime[i] # NoRow => lifetime[i].prev \in Nat /\ lifetime[i].age \in 0 .. MaxTime
      BY DEF EnergyTypes, Rows
    <2>2. QED
      BY <2>1, CeilingGrows
  <1>9. NothingTooMuch'
    <2>1. Covered(i)'
      <3>1. Ahead(i)' = 0
        BY <1>2, <1>7 DEF Ahead
      <3>2. Cum(i)' <= made[i] - base'[i] + slack[i]
        <4>1. CASE lifetime[i] = NoRow
          BY <1>2, <1>3, <1>7, <4>1
        <4>2. CASE lifetime[i] # NoRow
          <5>1. Covered(i) /\ base'[i] = base[i]
            BY <1>3, <4>2 DEF NothingTooMuch
          <5>2. Ahead(i) \in Nat /\ (raw[i] >= lifetime[i].prev => Ahead(i) = raw[i] - lifetime[i].prev)
            BY <1>7, <1>8, <4>2 DEF Ahead
          <5>3. PICK c \in Nat : c = Ceiling(MaxTime) /\ Ceiling(lifetime[i].age) <= c
            BY <1>8, <4>2
          <5>4. Cum(i) + Ahead(i) <= made[i] - base[i] + slack[i] \/ Cum(i) + c <= made[i] - base[i] + slack[i]
            BY <5>1, <5>3 DEF Covered
          <5>5. PICK d \in Nat : d = Ceiling(lifetime[i].age)
            BY <1>8, <4>2
          <5>6. QED
            BY <1>2, <1>7, <1>8, <4>2, <5>1, <5>2, <5>3, <5>4, <5>5
        <4>3. QED
          BY <4>1, <4>2
      <3>3. QED
        BY <1>2, <1>7, <3>1, <3>2 DEF Covered
    <2>2. ASSUME NEW j \in Meters, lifetime'[j] # NoRow PROVE Covered(j)'
      BY <1>6, <2>1, <2>2, OthersKept
    <2>3. QED
      BY <2>2 DEF NothingTooMuch
  <1>10. NothingMissed'
    <2>1. ASSUME clean'[i]
          PROVE  /\ Cum(i)' + (raw'[i] - lifetime'[i].prev) = made'[i] - base'[i]
                 /\ raw'[i] >= lifetime'[i].prev /\ raw'[i] - lifetime'[i].prev <= Rated * lifetime'[i].age
      <3>1. Cum(i)' = made[i] - base'[i]
        <4>1. CASE lifetime[i] = NoRow
          BY <1>2, <1>3, <1>7, <4>1
        <4>2. CASE lifetime[i] # NoRow
          <5>1. /\ Cum(i) + (raw[i] - lifetime[i].prev) = made[i] - base[i] /\ base'[i] = base[i]
                /\ raw[i] >= lifetime[i].prev /\ raw[i] - lifetime[i].prev <= Rated * lifetime[i].age
            BY <1>3, <1>7, <2>1, <4>2 DEF NothingMissed
          <5>2. PICK a \in Nat : a = Rated * lifetime[i].age
            BY <1>8, <4>2
          <5>3. PICK d \in Nat : d = Ceiling(lifetime[i].age)
            BY <1>8, <4>2
          <5>4. raw[i] - lifetime[i].prev <= d
            BY <1>7, <1>8, <4>2, <5>1, <5>2, <5>3
          <5>5. Cum(i)' = Cum(i) + (raw[i] - lifetime[i].prev)
            BY <1>2, <4>2, <5>1, <5>3, <5>4
          <5>6. QED
            BY <1>2, <1>7, <1>8, <4>2, <5>1, <5>5
        <4>3. QED
          BY <4>1, <4>2
      <3>2. Rated * lifetime'[i].age = 0
        BY <1>2
      <3>3. QED
        BY <1>2, <1>7, <3>1, <3>2
    <2>2. ASSUME NEW j \in Meters, lifetime'[j] # NoRow, clean'[j]
          PROVE  /\ Cum(j)' + (raw'[j] - lifetime'[j].prev) = made'[j] - base'[j]
                 /\ raw'[j] >= lifetime'[j].prev /\ raw'[j] - lifetime'[j].prev <= Rated * lifetime'[j].age
      <3>1. CASE j = i
        BY <2>1, <2>2, <3>1
      <3>2. CASE j # i
        BY <1>6, <2>2, <3>2, OthersKept
      <3>3. QED
        BY <3>1, <3>2
    <2>3. QED
      BY <2>2 DEF NothingMissed
  <1>11. DayKept'
    <2>1. FleetLifetimeWh' = FleetLifetimeWh + Cum(i)' - Cum(i) /\ FleetLifetimeWh \in Nat /\ FleetLifetimeWh' \in Nat
      BY <1>2, <1>4, FleetMoves
    <2>2. early \in Nat /\ FleetLifetimeWh' >= FleetLifetimeWh /\ UNCHANGED <<anchor, builder, early, blind>>
      BY <1>1, <1>2, <2>1 DEF EnergyTypes
    <2>3. QED
      BY <2>1, <2>2, DayGrows
  <1>12. QED
    BY <1>4, <1>5, <1>9, <1>10, <1>11

LEMMA StoreGarbageKeeps ==
    ASSUME EnergyInv, NEW i \in Meters, StoreGarbage(i)
    PROVE  EnergyInv'
  <1> USE EnergyBounds DEF EnergyInv
  <1>1. /\ UNCHANGED <<raw, anchor, builder, made, early, blind>> /\ bad' \in 0 .. MaxBad
        /\ clean' = [clean EXCEPT ![i] = FALSE]
    BY DEF EnergyTypes, StoreGarbage
  <1>2. PICK g \in 0 .. Wrap - 1 : WriteEnergyLifetime(i, g)
    BY DEF StoreGarbage
  <1>3. /\ lifetime' \in [Meters -> Rows \cup {NoRow}]
        /\ \A j \in Meters \ {i} : lifetime'[j] = lifetime[j]
        /\ lifetime[i] = NoRow => Cum(i)' = 0
        /\ lifetime[i] # NoRow =>
              \/ Cum(i)' = Cum(i) /\ ~(g >= lifetime[i].prev /\ g - lifetime[i].prev <= Ceiling(lifetime[i].age))
              \/ /\ Cum(i)' = Cum(i) + (g - lifetime[i].prev)
                 /\ g >= lifetime[i].prev /\ g - lifetime[i].prev <= Ceiling(lifetime[i].age)
        /\ Cum(i) \in Nat /\ Cum(i)' \in Nat /\ Cum(i) <= Cum(i)'
    BY <1>2, RowWritten
  <1>4. base' \in [Meters -> Nat] /\ base'[i] = (IF lifetime[i] = NoRow THEN made[i] ELSE base[i])
        /\ \A j \in Meters \ {i} : base'[j] = base[j]
    BY DEF EnergyTypes, StoreGarbage
  <1>5. PICK d : d = IF lifetime[i] = NoRow THEN 0 ELSE Ceiling(lifetime[i].age)
    OBVIOUS
  <1>6. PICK c \in Nat : c = Ceiling(MaxTime)
    BY CeilingGrows
  <1>7. d \in Nat /\ (lifetime[i] # NoRow => d = Ceiling(lifetime[i].age) /\ lifetime[i].prev \in Nat)
    <2>1. lifetime[i] # NoRow => lifetime[i].age \in 0 .. MaxTime /\ lifetime[i].prev \in Nat
      BY DEF EnergyTypes, Rows
    <2>2. lifetime[i] # NoRow => Ceiling(lifetime[i].age) \in Nat
      BY <2>1, CeilingGrows
    <2>3. QED
      BY <1>5, <2>1, <2>2
  <1>8. slack' \in [Meters -> Nat] /\ slack'[i] = slack[i] + (d + c) /\ \A j \in Meters \ {i} : slack'[j] = slack[j]
    <2>1. slack' = [slack EXCEPT ![i] = slack[i] + d + c]
      BY <1>5, <1>6 DEF StoreGarbage
    <2>2. QED
      BY <1>6, <1>7, <2>1 DEF EnergyTypes
  <1>9. EnergyTypes'
    BY <1>1, <1>3, <1>4, <1>8 DEF EnergyTypes
  <1>10. EnergyFlags' /\ clean'[i] = FALSE
    BY <1>1 DEF EnergyFlags
  <1>11. ASSUME NEW j \in Meters, j # i PROVE UNCHANGED <<lifetime[j], raw[j], clean[j], made[j], base[j], slack[j]>>
    BY <1>1, <1>3, <1>4, <1>8, <1>11 DEF EnergyFlags
  <1>12. NothingTooMuch'
    <2>1. Covered(i)'
      <3>1. made[i] \in Nat /\ base[i] \in Nat /\ slack[i] \in Nat /\ made'[i] = made[i] /\ g \in Nat
        BY <1>1 DEF EnergyTypes
      <3>2. Cum(i)' + c <= made[i] - base'[i] + slack'[i]
        <4>1. CASE lifetime[i] = NoRow
          BY <1>3, <1>4, <1>6, <1>7, <1>8, <3>1, <4>1
        <4>2. CASE lifetime[i] # NoRow
          <5>1. Covered(i) /\ base'[i] = base[i]
            BY <1>4, <4>2 DEF NothingTooMuch
          <5>2. Ahead(i) \in Nat
            BY <1>7, <4>2 DEF Ahead, EnergyTypes
          <5>3. Cum(i) <= made[i] - base[i] + slack[i]
            BY <1>3, <1>6, <3>1, <5>1, <5>2 DEF Covered
          <5>4. Cum(i)' <= Cum(i) + d
            BY <1>3, <1>7, <3>1, <4>2
          <5>5. QED
            BY <1>3, <1>6, <1>7, <1>8, <3>1, <5>1, <5>3, <5>4
        <4>3. QED
          BY <4>1, <4>2
      <3>3. QED
        BY <1>6, <3>1, <3>2 DEF Covered, Ceiling
    <2>2. ASSUME NEW j \in Meters, lifetime'[j] # NoRow PROVE Covered(j)'
      BY <1>11, <2>1, <2>2, OthersKept
    <2>3. QED
      BY <2>2 DEF NothingTooMuch
  <1>13. NothingMissed'
    BY <1>10, <1>11, OthersKept DEF NothingMissed
  <1>14. DayKept'
    <2>1. FleetLifetimeWh' = FleetLifetimeWh + Cum(i)' - Cum(i) /\ FleetLifetimeWh \in Nat /\ FleetLifetimeWh' \in Nat
      BY <1>3, <1>9, FleetMoves
    <2>2. early \in Nat /\ FleetLifetimeWh' >= FleetLifetimeWh /\ UNCHANGED <<anchor, builder, early, blind>>
      BY <1>1, <1>3, <2>1 DEF EnergyTypes, StoreGarbage
    <2>3. QED
      BY <2>1, <2>2, DayGrows
  <1>15. QED
    BY <1>9, <1>10, <1>12, <1>13, <1>14

LEMMA DeleteKeeps ==
    ASSUME EnergyInv, NEW i \in Meters, DeleteEnergy(i)
    PROVE  EnergyInv'
  <1> USE EnergyBounds DEF EnergyInv
  <1>1. /\ UNCHANGED <<raw, anchor, builder, made, blind, clean>> /\ bad' \in 0 .. MaxBad
        /\ lifetime' = [lifetime EXCEPT ![i] = NoRow] /\ lifetime'[i] = NoRow
        /\ base' \in [Meters -> Nat] /\ slack' \in [Meters -> Nat]
        /\ \A j \in Meters \ {i} : lifetime'[j] = lifetime[j] /\ base'[j] = base[j] /\ slack'[j] = slack[j]
    BY DEF EnergyTypes, DeleteEnergy
  <1>2. Cum(i) \in Nat /\ Cum(i)' = 0
    BY <1>1 DEF EnergyTypes, Cum, Rows
  <1>3. early' \in Nat /\ early' <= early /\ (early' = 0 \/ early' = early - Cum(i))
    BY <1>2 DEF EnergyTypes, DeleteEnergy
  <1>4. EnergyTypes'
    BY <1>1, <1>3 DEF EnergyTypes
  <1>5. EnergyFlags'
    BY <1>1 DEF EnergyFlags
  <1>6. ASSUME NEW j \in Meters, j # i PROVE UNCHANGED <<lifetime[j], raw[j], clean[j], made[j], base[j], slack[j]>>
    BY <1>1, <1>6
  <1>7. NothingTooMuch'
    BY <1>1, <1>6, OthersKept DEF NothingTooMuch
  <1>8. NothingMissed'
    BY <1>1, <1>6, OthersKept DEF NothingMissed
  <1>9. DayKept'
    <2>1. FleetLifetimeWh' = FleetLifetimeWh + Cum(i)' - Cum(i) /\ FleetLifetimeWh \in Nat /\ FleetLifetimeWh' \in Nat
      BY <1>1, <1>4, FleetMoves
    <2>2. early \in Nat /\ FleetLifetimeWh >= early
      BY DEF DayKept, EnergyTypes
    <2>3. FleetLifetimeWh' >= early'
      BY <1>2, <1>3, <2>1, <2>2
    <2>4. ASSUME ~blind', anchor' # NoRow PROVE anchor' >= early'
      <3>1. anchor' = anchor /\ anchor \in Nat /\ anchor >= early
        BY <1>1, <2>4 DEF DayKept, EnergyTypes
      <3>2. QED
        BY <1>3, <2>2, <3>1
    <2>5. ASSUME ~blind', NEW b \in Builders, builder'[b] # NoRow PROVE builder'[b] >= early'
      <3>1. builder' = builder /\ builder[b] \in Nat /\ builder[b] >= early
        BY <1>1, <2>5 DEF DayKept, EnergyTypes
      <3>2. QED
        BY <1>3, <2>2, <3>1
    <2>6. QED
      BY <2>3, <2>4, <2>5 DEF DayKept
  <1>10. QED
    BY <1>4, <1>5, <1>7, <1>8, <1>9

\* The accounts do not move while the tables are read and anchors written.
LEMMA AccountsStay ==
    ASSUME EnergyInv, UNCHANGED <<raw, lifetime, made, base, slack, clean>>
    PROVE  /\ NothingTooMuch' /\ NothingMissed' /\ FleetLifetimeWh' = FleetLifetimeWh
           /\ FleetLifetimeWh \in Nat /\ FleetLifetimeWh >= early
  <1>1. NothingTooMuch'
    BY DEF EnergyInv, NothingTooMuch, Covered, Cum, Ahead
  <1>2. NothingMissed'
    BY DEF EnergyInv, NothingMissed, Cum
  <1>3. \A j \in Meters : Cum(j)' = Cum(j)
    BY DEF Cum
  <1>4. FleetLifetimeWh' = FleetLifetimeWh /\ FleetLifetimeWh \in Nat
    BY <1>3, FleetSame, CumTyped DEF EnergyInv
  <1>5. QED
    BY <1>1, <1>2, <1>4 DEF EnergyInv, DayKept

LEMMA BuilderKeeps ==
    ASSUME EnergyInv, NEW b \in Builders, ReadLifetime(b) \/ ReadLifetimeFails(b) \/ PeriodEnergyWh(b)
    PROVE  EnergyInv'
  <1> USE EnergyBounds DEF EnergyInv
  <1>1. UNCHANGED <<raw, lifetime, made, base, early, slack, clean>>
    BY DEF ReadLifetime, ReadLifetimeFails, PeriodEnergyWh
  <1>2. /\ NothingTooMuch' /\ NothingMissed' /\ FleetLifetimeWh' = FleetLifetimeWh
        /\ FleetLifetimeWh \in Nat /\ FleetLifetimeWh >= early
    BY <1>1, AccountsStay
  <1>3. CASE ReadLifetime(b)
    <2>1. EnergyTypes' /\ EnergyFlags'
      BY <1>2, <1>3 DEF EnergyTypes, EnergyFlags, ReadLifetime
    <2>2. DayKept'
      BY <1>1, <1>2, <1>3 DEF DayKept, ReadLifetime, EnergyTypes
    <2>3. QED
      BY <1>2, <2>1, <2>2
  <1>4. CASE ReadLifetimeFails(b)
    <2>1. EnergyTypes' /\ EnergyFlags'
      BY <1>4 DEF EnergyTypes, EnergyFlags, ReadLifetimeFails
    <2>2. DayKept'
      BY <1>1, <1>2, <1>4 DEF DayKept, ReadLifetimeFails
    <2>3. QED
      BY <1>2, <2>1, <2>2
  <1>5. CASE PeriodEnergyWh(b)
    <2>1. builder[b] \in Nat /\ anchor' \in Nat /\ (anchor' = builder[b] \/ (anchor' = anchor /\ anchor # NoRow))
      <3>1. builder[b] \in Nat
        BY <1>5 DEF EnergyTypes, PeriodEnergyWh
      <3>2. CASE anchor = NoRow
        <4>1. anchor' = builder[b]
          BY ONLY <1>5, <3>2 DEF PeriodEnergyWh, Anchored
        <4>2. QED
          BY ONLY <3>1, <4>1
      <3>3. CASE anchor # NoRow
        <4>1. anchor \in Nat
          BY <3>3 DEF EnergyTypes
        <4>2. anchor' = IF builder[b] < anchor THEN builder[b] ELSE anchor
          BY <1>5, <3>3 DEF PeriodEnergyWh, Anchored
        <4>3. QED
          BY <3>1, <3>3, <4>1, <4>2
      <3>4. QED
        BY <3>2, <3>3
    <2>2. EnergyTypes' /\ EnergyFlags'
      BY <1>5, <2>1 DEF EnergyTypes, EnergyFlags, PeriodEnergyWh
    <2>3. DayKept'
      BY <1>1, <1>2, <1>5, <2>1 DEF DayKept, PeriodEnergyWh, EnergyTypes
    <2>4. QED
      BY <1>2, <2>2, <2>3
  <1>6. QED
    BY <1>3, <1>4, <1>5

LEMMA NewDayKeeps ==
    ASSUME EnergyInv, NewDay
    PROVE  EnergyInv'
  <1> USE EnergyBounds DEF EnergyInv
  <1>1. /\ NothingTooMuch' /\ NothingMissed' /\ FleetLifetimeWh' = FleetLifetimeWh
        /\ FleetLifetimeWh \in Nat /\ FleetLifetimeWh >= early
    BY AccountsStay DEF NewDay
  <1>2. EnergyTypes' /\ EnergyFlags'
    BY <1>1 DEF EnergyTypes, EnergyFlags, NewDay
  <1>3. DayKept'
    BY <1>1 DEF DayKept, NewDay
  <1>4. QED
    BY <1>1, <1>2, <1>3

LEMMA EnergyStep == EnergyInv /\ [EnergyNext]_energyVars => EnergyInv'
  <1> SUFFICES ASSUME EnergyInv, [EnergyNext]_energyVars PROVE EnergyInv'
    OBVIOUS
  <1>1. CASE UNCHANGED energyVars
    <2>1. UNCHANGED <<raw, lifetime, anchor, builder, bad, made, base, early, slack, blind, clean>>
      BY <1>1 DEF energyVars
    <2>2. NothingTooMuch' /\ NothingMissed' /\ FleetLifetimeWh' = FleetLifetimeWh
      BY <2>1, AccountsStay
    <2>3. EnergyTypes' /\ EnergyFlags' /\ DayKept'
      BY <2>1, <2>2 DEF EnergyInv, EnergyTypes, EnergyFlags, DayKept
    <2>4. QED
      BY <2>2, <2>3 DEF EnergyInv
  <1>2. ASSUME NEW i \in Meters, NEW n \in 0 .. Rated, Produce(i, n) PROVE EnergyInv'
    BY <1>2, ProduceKeeps
  <1>3. ASSUME NEW i \in Meters, ResetCounter(i) \/ StoreFrame(i) \/ StoreGarbage(i) \/ DeleteEnergy(i) PROVE EnergyInv'
    BY <1>3, ResetKeeps, StoreFrameKeeps, StoreGarbageKeeps, DeleteKeeps
  <1>4. ASSUME NEW b \in Builders, ReadLifetime(b) \/ ReadLifetimeFails(b) \/ PeriodEnergyWh(b) PROVE EnergyInv'
    BY <1>4, BuilderKeeps
  <1>5. CASE NewDay
    BY <1>5, NewDayKeeps
  <1>6. QED
    BY <1>1, <1>2, <1>3, <1>4, <1>5 DEF EnergyNext

\* The typing of the model bounds what was produced; so does its sum.
LEMMA EnergyInvSuffices == EnergyInv => EnergyAccounted
  <1> SUFFICES ASSUME EnergyInv PROVE EnergyAccounted
    OBVIOUS
  <1> USE EnergyBounds DEF EnergyInv
  <1>1. made \in [Meters -> 0 .. MaxProduced]
    <2>1. ASSUME NEW i \in Meters PROVE made[i] \in 0 .. MaxProduced
      <3>1. made[i] \in Nat /\ made[i] <= SumOver(made) /\ SumOver(made) \in Nat /\ SumOver(made) <= MaxProduced
        BY SumOfMeters DEF EnergyTypes
      <3>2. QED
        BY <3>1
    <2>2. QED
      BY <2>1 DEF EnergyTypes
  <1>2. EnergyTypeOK
    BY <1>1 DEF EnergyTypes, EnergyFlags, Rows, EnergyTypeOK
  <1>3. ASSUME NEW i \in Meters, lifetime[i] # NoRow PROVE Cum(i) <= made[i] - base[i] + slack[i]
    <2>1. Cum(i) \in Nat /\ Ahead(i) \in Nat /\ made[i] \in Nat /\ base[i] \in Nat /\ slack[i] \in Nat
      BY <1>3 DEF EnergyTypes, Rows, Cum, Ahead
    <2>2. PICK c \in Nat : c = Ceiling(MaxTime)
      BY CeilingGrows
    <2>3. Cum(i) + Ahead(i) <= made[i] - base[i] + slack[i] \/ Cum(i) + c <= made[i] - base[i] + slack[i]
      BY <1>3, <2>2 DEF NothingTooMuch, Covered
    <2>4. QED
      BY <2>1, <2>2, <2>3
  <1>4. ASSUME NEW i \in Meters, lifetime[i] # NoRow, clean[i]
        PROVE  Cum(i) + (raw[i] - lifetime[i].prev) = made[i] - base[i]
    BY <1>4 DEF NothingMissed
  <1>5. anchor # NoRow /\ ~blind => anchor >= early
    BY DEF DayKept
  <1>6. QED
    BY <1>2, <1>3, <1>4, <1>5 DEF EnergyAccounted

(* The accumulated energy is what was produced, up to what resets lose and *)
(* what garbage reads add within the rate ceiling, for any fleet, rating   *)
(* and counter width; and no summary counts energy of an earlier day as    *)
(* today's, whatever the two builders interleave (WriteEnergyLifetime,     *)
(* PeriodEnergyWh).                                                        *)
THEOREM EnergyIsAccounted == EnergySpec => []EnergyAccounted
  <1>1. EnergyInit => EnergyInv
    BY EnergyStart
  <1>2. EnergyInv /\ [EnergyNext]_energyVars => EnergyInv'
    BY EnergyStep
  <1>3. EnergyInv => EnergyAccounted
    BY EnergyInvSuffices
  <1>4. QED
    BY <1>1, <1>2, <1>3, PTL DEF EnergySpec

-----------------------------------------------------------------------------
(* The settings and the interface (Settings): the inductive invariant.     *)

Pcs == {"idle"} \cup Applying \cup Saving
Jobs == [pc : Pcs, want : Docs, fd : Inodes \cup {NoInode}, applied : BOOLEAN, alone : BOOLEAN]
Names == [path : Inodes \cup {NoInode}, tmp : Inodes \cup {NoInode}]

\* Who may be busy in which phase.
Phases ==
    /\ phase \in {"boot", "refused"} => \A t \in Threads : ~Busy(t)
    /\ phase = "apply" => (\A w \in Savers : ~Busy(w)) /\ work[Main].want = mem
    /\ phase = "serving" => ~Busy(Main)
    /\ work[Main].pc \notin Saving
AloneIsAlone ==
    /\ \A w, o \in Savers : Busy(w) /\ Busy(o) /\ work[w].alone => o = w
    /\ \A w \in Savers : Busy(w) /\ (~disturbed \/ ~strayed) => work[w].alone
    /\ \A t \in Threads : work[t].pc = "recover" => strayed
Wants ==
    /\ \A t \in Threads : work[t].pc \in Applying => work[t].want.mac \in Macs
    /\ \A w \in Savers : work[w].pc \in Applying => work[w].applied
    /\ \A w \in Savers : work[w].pc \in Saving \ {"open"} => work[w].fd \in Inodes
\* A file that is being written has not been given its name, in any state of
\* the directory.
NameFree ==
    /\ \A d \in dirs : d.tmp # NoInode => d.path # d.tmp
    /\ dir.tmp # NoInode => \A d \in dirs : d.path # dir.tmp
\* What the file of an undisturbed save holds at each step.
AloneSaves == \A w \in Savers : work[w].alone =>
    /\ work[w].pc \in {"write", "fsync", "rename"} => dir.tmp = work[w].fd /\ work[w].want \in since
    /\ work[w].pc \in {"syncdir", "publish"} => dir.path = work[w].fd
    /\ work[w].pc = "write" => content[work[w].fd] = Empty
    /\ work[w].pc \in {"fsync", "rename", "syncdir", "publish"} => content[work[w].fd] = work[w].want
    /\ work[w].pc \in {"rename", "syncdir"} => synced[work[w].fd]
WholeFile == ~disturbed =>
    /\ \A d \in dirs : IF d.path = NoInode THEN kept = NoDoc
                       ELSE synced[d.path] /\ content[d.path] \in {kept} \cup since
    /\ phase # "refused"
    /\ phase \in {"apply", "serving"} => mem = File \/ \E w \in Savers : work[w].pc \in {"syncdir", "publish"}
LinkUp ==
    /\ stranded \/ eth.up \/ \E t \in Threads : work[t].pc \in {"address", "up", "recover"}
    /\ work[Main].pc = "verify" => eth.up
    /\ \A w \in Savers : work[w].alone /\ work[w].applied /\ work[w].pc \in Saving \cup {"verify"} => eth.up
\* An undisturbed operation either applies another MAC or saves the same one.
MacApplied ==
    /\ \A w \in Savers : work[w].alone /\ Busy(w) =>
          IF work[w].applied THEN work[w].pc \in Saving => eth.mac = work[w].want.mac
          ELSE work[w].want.mac \in {NoMac, mem.mac}
    /\ phase = "serving" /\ ~strayed /\ mem.mac # NoMac =>
          eth.mac = mem.mac \/ \E w \in Savers : Busy(w) /\ work[w].applied
SettingsInv == /\ SettingsTypeOK /\ Phases /\ AloneIsAlone /\ Wants /\ NameFree /\ AloneSaves /\ WholeFile
               /\ LinkUp /\ MacApplied

LEMMA SettingsNames ==
    /\ Pairer \in Savers /\ Main \in Threads /\ Main \notin Savers
    /\ \A w \in Savers : w \in Threads
    /\ \A t \in Threads : t \in Savers \/ t = Main
    /\ Firmware \notin Macs /\ Macs # {} /\ NoInode \notin Inodes
    /\ FirstRun \in Docs /\ FirstRun.mac = NoMac
  BY SettingsAssumption DEF Savers, Threads, Inodes, NoInode, FirstRun, Docs

LEMMA DocFields ==
    ASSUME NEW s \in Docs
    PROVE  s.mac \in Macs \cup {NoMac} /\ s.net \in Parameters \cup {"unset"}
  BY DEF Docs

LEMMA JobFields ==
    ASSUME NEW j \in Jobs
    PROVE  /\ j.pc \in Pcs /\ j.want \in Docs /\ j.fd \in Inodes \cup {NoInode}
           /\ j.applied \in BOOLEAN /\ j.alone \in BOOLEAN
  BY DEF Jobs

LEMMA RestingJob ==
    /\ AtRest \in Jobs /\ AtRest.pc = "idle" /\ AtRest.alone = TRUE /\ AtRest.applied = FALSE /\ AtRest.fd = NoInode
  BY SettingsNames DEF AtRest, Jobs, Pcs

\* The types, unfolded.
LEMMA SettingsFields ==
    ASSUME SettingsTypeOK
    PROVE  /\ work \in [Threads -> Jobs] /\ \A t \in Threads : work[t] \in Jobs
           /\ mem \in Docs /\ mem.mac \in Macs \cup {NoMac}
           /\ \A t \in Threads : /\ work[t].pc \in Pcs /\ work[t].want \in Docs
                                 /\ work[t].want.mac \in Macs \cup {NoMac}
                                 /\ work[t].fd \in Inodes \cup {NoInode}
                                 /\ work[t].applied \in BOOLEAN /\ work[t].alone \in BOOLEAN
           /\ dir \in dirs /\ dirs \subseteq Names
           /\ \A d \in dirs : d.path \in Inodes \cup {NoInode} /\ d.tmp \in Inodes \cup {NoInode}
           /\ eth.mac \in Macs \cup {Firmware} /\ eth.up \in BOOLEAN
           /\ content \in [Inodes -> Docs \cup {Empty, Torn}] /\ synced \in [Inodes -> BOOLEAN]
           /\ kept \in Docs \cup {NoDoc} /\ since \subseteq Docs
           /\ disturbed \in BOOLEAN /\ strayed \in BOOLEAN /\ stranded \in BOOLEAN
  <1>1. work \in [Threads -> Jobs] /\ \A t \in Threads : work[t] \in Jobs
    BY DEF SettingsTypeOK, Jobs, Pcs
  <1>2. /\ mem \in Docs /\ dir \in dirs /\ dirs \subseteq Names
        /\ content \in [Inodes -> Docs \cup {Empty, Torn}] /\ synced \in [Inodes -> BOOLEAN]
        /\ kept \in Docs \cup {NoDoc} /\ since \subseteq Docs
        /\ disturbed \in BOOLEAN /\ strayed \in BOOLEAN /\ stranded \in BOOLEAN
    BY DEF SettingsTypeOK, Names
  <1>3. eth.mac \in Macs \cup {Firmware} /\ eth.up \in BOOLEAN
    BY DEF SettingsTypeOK
  <1>4. \A d \in Names : d.path \in Inodes \cup {NoInode} /\ d.tmp \in Inodes \cup {NoInode}
    BY DEF Names
  <1>5. \A t \in Threads : /\ work[t].pc \in Pcs /\ work[t].want \in Docs
                           /\ work[t].want.mac \in Macs \cup {NoMac}
                           /\ work[t].fd \in Inodes \cup {NoInode}
                           /\ work[t].applied \in BOOLEAN /\ work[t].alone \in BOOLEAN
    BY <1>1, JobFields, DocFields
  <1>6. QED
    BY <1>1, <1>2, <1>3, <1>4, <1>5, DocFields

\* The types, from those of the parts that a step changes.
LEMMA SettingsTyped ==
    ASSUME phase \in {"boot", "apply", "serving", "refused"}, mem \in Docs, work \in [Threads -> Jobs],
           eth \in [mac : Macs \cup {Firmware}, up : BOOLEAN], dir \in dirs, dirs \subseteq Names,
           content \in [Inodes -> Docs \cup {Empty, Torn}], synced \in [Inodes -> BOOLEAN],
           kept \in Docs \cup {NoDoc}, since \subseteq Docs,
           disturbed \in BOOLEAN, strayed \in BOOLEAN, stranded \in BOOLEAN
    PROVE  SettingsTypeOK
  BY DEF SettingsTypeOK, Jobs, Pcs, Names

LEMMA SettingsSoundFollows ==
    ASSUME SettingsInv
    PROVE  SettingsSound
  <1> USE SettingsFields, SettingsNames DEF SettingsInv
  <1>1. disturbed \/ FileKept
    <2>1. Quiet => phase = "serving" /\ \A w \in Savers : work[w].pc = "idle"
      BY DEF Quiet, Busy
    <2>2. QED
      BY <2>1 DEF FileKept, WholeFile
  <1>2. stranded \/ eth.up \/ \E t \in Threads : work[t].pc \in Applying
    BY DEF LinkUp, Applying
  <1>3. Quiet /\ ~strayed /\ mem.mac # NoMac => eth.mac = mem.mac
    BY DEF Quiet, MacApplied
  <1>4. QED
    BY <1>1, <1>2, <1>3 DEF SettingsSound

LEMMA SettingsStart ==
    ASSUME SettingsInit
    PROVE  SettingsInv
  <1> USE SettingsNames DEF SettingsInit
  <1>1. (CHOOSE m \in Macs : TRUE) \in Macs
    OBVIOUS
  <1>2. PICK first \in {NoDoc, [FirstRun EXCEPT !.mac = CHOOSE m \in Macs : TRUE]} :
          /\ kept = first
          /\ dir = [path |-> IF first = NoDoc THEN NoInode ELSE 1, tmp |-> NoInode]
          /\ content = [i \in Inodes |-> IF i = 1 /\ first # NoDoc THEN first ELSE Empty]
    OBVIOUS
  <1>3. first \in Docs \cup {NoDoc} /\ 1 \in Inodes
    BY <1>1, <1>2, SettingsAssumption DEF FirstRun, Docs, Inodes
  <1>4. /\ \A t \in Threads : work[t] = AtRest
        /\ work \in [Threads -> Jobs]
        /\ \A t \in Threads : work[t].pc = "idle" /\ work[t].alone = TRUE /\ work[t].applied = FALSE
    BY RestingJob
  <1>5. dir \in Names /\ content \in [Inodes -> Docs \cup {Empty, Torn}]
    BY <1>2, <1>3 DEF Names
  <1>6. SettingsTypeOK
    BY <1>2, <1>3, <1>4, <1>5, SettingsTyped
  <1>7. Phases /\ AloneIsAlone /\ Wants /\ LinkUp /\ MacApplied /\ AloneSaves
    BY <1>4 DEF Phases, AloneIsAlone, Wants, LinkUp, MacApplied, AloneSaves, Busy, Saving, Applying
  <1>8. NameFree /\ WholeFile
    BY <1>2, <1>3 DEF NameFree, WholeFile
  <1>9. QED
    BY <1>6, <1>7, <1>8 DEF SettingsInv

-----------------------------------------------------------------------------
(* What a step does to the work of the threads.                            *)

\* The work of t becomes j.
Becomes(t, j) == /\ work' \in [Threads -> Jobs] /\ work'[t] = j
                 /\ \A o \in Threads \ {t} : work'[o] = work[o]

LEMMA ContinueMoves ==
    ASSUME SettingsTypeOK, NEW t \in Threads, NEW pc \in Pcs, Continue(t, pc)
    PROVE  /\ Becomes(t, [work[t] EXCEPT !.pc = pc]) /\ work'[t].pc = pc /\ work'[t].want = work[t].want
           /\ work'[t].fd = work[t].fd /\ work'[t].applied = work[t].applied /\ work'[t].alone = work[t].alone
  <1>1. work \in [Threads -> Jobs] /\ work[t] \in Jobs
    BY SettingsFields
  <1>2. /\ [work[t] EXCEPT !.pc = pc] \in Jobs
        /\ [work[t] EXCEPT !.pc = pc].pc = pc /\ [work[t] EXCEPT !.pc = pc].want = work[t].want
        /\ [work[t] EXCEPT !.pc = pc].fd = work[t].fd /\ [work[t] EXCEPT !.pc = pc].applied = work[t].applied
        /\ [work[t] EXCEPT !.pc = pc].alone = work[t].alone
    BY <1>1 DEF Jobs
  <1>3. work' = [work EXCEPT ![t] = [work[t] EXCEPT !.pc = pc]]
    BY DEF Continue
  <1>4. QED
    BY <1>1, <1>2, <1>3 DEF Becomes

LEMMA ReturnMoves ==
    ASSUME SettingsTypeOK, NEW t \in Threads, Return(t)
    PROVE  /\ Becomes(t, AtRest) /\ work'[t].pc = "idle" /\ work'[t].alone = TRUE /\ work'[t].applied = FALSE
           /\ phase' = IF t = Main THEN "serving" ELSE phase
  BY SettingsFields, RestingJob DEF Return, Becomes

\* A saver at work is served, and nobody else is undisturbed.
LEMMA SaverAtWork ==
    ASSUME SettingsInv, NEW w \in Savers, work[w].pc # "idle"
    PROVE  /\ phase = "serving" /\ work[Main].pc = "idle" /\ w # Main /\ w \in Threads
           /\ \A o \in Savers \ {w} : work[o].pc # "idle" => work[o].alone = FALSE
           /\ work[w].alone => \A o \in Savers \ {w} : work[o].pc = "idle"
  BY SettingsFields, SettingsNames DEF SettingsInv, SettingsTypeOK, Phases, AloneIsAlone, Busy

LEMMA ThreadApplies ==
    ASSUME SettingsInv, NEW t \in Threads, work[t].pc \in Applying
    PROVE  /\ t \in Savers => phase = "serving" /\ work[Main].pc = "idle" /\ t # Main /\ work[t].applied = TRUE
           /\ t \notin Savers => /\ t = Main /\ phase = "apply" /\ work[t].want = mem
                                 /\ \A w \in Savers : work[w].pc = "idle"
           /\ \A o \in Savers \ {t} : work[o].pc # "idle" => work[o].alone = FALSE
           /\ work[t].want.mac \in Macs
  <1>1. work[t].pc # "idle"
    BY DEF Applying
  <1>2. CASE t \in Savers
    BY <1>1, <1>2, SaverAtWork, SettingsFields, SettingsNames DEF SettingsInv, Wants
  <1>3. CASE t \notin Savers
    BY <1>1, <1>3, SettingsFields, SettingsNames DEF SettingsInv, Phases, Busy, SettingsTypeOK, Wants
  <1>4. QED
    BY <1>2, <1>3

\* An apply leaves the file alone.
LEMMA ApplyKeepsFile ==
    ASSUME SettingsInv, NEW t \in Threads, work[t].pc \in Applying,
           \A o \in Threads \ {t} : work'[o] = work[o], work'[t].pc \in Applying \cup {"open", "idle"},
           phase' \in {phase, "serving"}, UNCHANGED <<mem, fileVars, kept, since, disturbed>>
    PROVE  NameFree' /\ AloneSaves' /\ WholeFile'
  <1> USE SettingsNames DEF SettingsInv, fileVars
  <1>1. phase \in {"apply", "serving"}
    BY ThreadApplies
  <1>2. \A w \in Savers : work'[w].pc \in Saving \ {"open"} => work'[w] = work[w] /\ w # t
    BY DEF Applying, Saving
  <1>3. \A w \in Savers : work[w].pc \in Saving \ {"open"} => work'[w] = work[w]
    BY DEF Applying, Saving
  <1>4. NameFree'
    BY DEF NameFree
  <1>5. AloneSaves'
    BY <1>2 DEF AloneSaves, Saving
  <1>6. WholeFile'
    <2>1. File' = File
      BY DEF File
    <2>2. QED
      BY <1>1, <1>3, <2>1 DEF WholeFile, Saving
  <1>7. QED
    BY <1>4, <1>5, <1>6

\* While it lasts, it need not have given the interface its MAC.
LEMMA ApplyKeepsMac ==
    ASSUME SettingsInv, NEW t \in Threads, work[t].pc \in Applying,
           \A o \in Threads \ {t} : work'[o] = work[o], work'[t].pc \in Applying,
           work'[t].applied = work[t].applied, UNCHANGED phase
    PROVE  MacApplied'
  <1> USE SettingsNames
  <1>1. work'[t].pc # "idle" /\ work'[t].pc \notin Saving
    BY DEF Applying, Saving
  <1>2. ASSUME NEW w \in Savers, work'[w].alone, work'[w].pc # "idle"
        PROVE  w = t /\ work'[w].applied = TRUE
    <2>1. CASE w = t
      BY <2>1, ThreadApplies
    <2>2. CASE w # t
      BY <1>2, <2>2, ThreadApplies
    <2>3. QED
      BY <2>1, <2>2
  <1>3. phase' = "serving" => t \in Savers /\ work'[t].applied = TRUE
    BY ThreadApplies
  <1>4. QED
    BY <1>1, <1>2, <1>3 DEF MacApplied, Busy

LEMMA RunStepKeeps ==
    ASSUME SettingsInv, NEW t \in Threads, RunStep(t)
    PROVE  SettingsInv'
  <1> USE SettingsNames DEF SettingsInv
  <1>1. /\ work[t].pc \in {"down", "address", "up"} /\ work[t].pc \in Applying
        /\ UNCHANGED <<phase, mem, fileVars, kept, since, disturbed, strayed, stranded>>
        /\ eth' = AfterCommand(t)
    BY DEF RunStep, Applying
  <1>2. PICK pc \in {"address", "up", "verify"} : pc = NextCommand[work[t].pc]
    BY <1>1 DEF NextCommand
  <1>3. /\ Becomes(t, [work[t] EXCEPT !.pc = pc]) /\ work'[t].pc = pc /\ work'[t].want = work[t].want
        /\ work'[t].fd = work[t].fd /\ work'[t].applied = work[t].applied /\ work'[t].alone = work[t].alone
    BY <1>2, ContinueMoves DEF RunStep, Pcs, Applying
  <1>4. /\ \A o \in Threads \ {t} : work'[o] = work[o]
        /\ work' \in [Threads -> Jobs]
    BY <1>3 DEF Becomes
  <1>5. /\ eth' \in [mac : Macs \cup {Firmware}, up : BOOLEAN]
        /\ work[t].pc = "down" => pc = "address" /\ eth'.mac = eth.mac
        /\ work[t].pc = "address" => pc = "up" /\ eth'.up = eth.up
        /\ work[t].pc = "up" => pc = "verify" /\ eth'.up = TRUE /\ eth'.mac = eth.mac
    <2>1. eth \in [mac : Macs \cup {Firmware}, up : BOOLEAN] /\ work[t].want.mac \in Macs
      BY <1>1, ThreadApplies DEF SettingsTypeOK
    <2>2. CASE work[t].pc = "down"
      <3>1. eth' = [eth EXCEPT !.up = FALSE]
        BY <1>1, <2>2 DEF AfterCommand
      <3>2. pc = "address"
        BY <1>2, <2>2 DEF NextCommand
      <3>3. QED
        BY <2>1, <2>2, <3>1, <3>2
    <2>3. CASE work[t].pc = "address"
      BY <1>1, <1>2, <2>1, <2>3 DEF AfterCommand, NextCommand
    <2>4. CASE work[t].pc = "up"
      <3>1. eth' = [eth EXCEPT !.up = TRUE]
        BY <1>1, <2>4 DEF AfterCommand
      <3>2. pc = "verify"
        BY <1>2, <2>4 DEF NextCommand
      <3>3. QED
        BY <2>1, <2>4, <3>1, <3>2
    <2>5. QED
      BY <1>1, <2>2, <2>3, <2>4
  <1>6. SettingsTypeOK'
    BY <1>1, <1>4, <1>5 DEF fileVars, SettingsTypeOK, Jobs, Pcs
  <1>7. NameFree' /\ AloneSaves' /\ WholeFile'
    BY <1>1, <1>2, <1>3, <1>4, ApplyKeepsFile DEF Applying
  <1>8. Phases' /\ AloneIsAlone' /\ Wants'
    BY <1>1, <1>2, <1>3, <1>4 DEF Phases, AloneIsAlone, Wants, Busy, Applying, Saving
  <1>9. LinkUp'
    <2>1. work'[Main].pc = "verify" => eth'.up
      BY <1>1, <1>2, <1>3, <1>4, <1>5, ThreadApplies DEF LinkUp
    <2>2. \A w \in Savers : work'[w].alone /\ work'[w].applied /\ work'[w].pc \in Saving \cup {"verify"} => eth'.up
      <3>1. TAKE w \in Savers
      <3>2. CASE w = t
        BY <1>1, <1>2, <1>3, <1>5, <3>2 DEF Saving
      <3>3. CASE w # t
        <4>1. work'[w] = work[w] /\ w \in Savers \ {t} /\ work[w].applied \in BOOLEAN
          BY <1>4, <3>1, <3>3, SettingsFields
        <4>2. work[w].pc # "idle" => work[w].alone = FALSE
          BY <1>1, <4>1, ThreadApplies
        <4>3. QED
          BY <4>1, <4>2 DEF Saving
      <3>4. QED
        BY <3>2, <3>3
    <2>3. stranded' \/ eth'.up \/ \E o \in Threads : work'[o].pc \in {"address", "up", "recover"}
      BY <1>1, <1>2, <1>3, <1>4, <1>5 DEF LinkUp
    <2>4. QED
      BY <2>1, <2>2, <2>3 DEF LinkUp
  <1>10. MacApplied'
    BY <1>1, <1>2, <1>3, <1>4, ApplyKeepsMac DEF Applying
  <1>11. QED
    BY <1>6, <1>7, <1>8, <1>9, <1>10

LEMMA RecoveryKeeps ==
    ASSUME SettingsInv, NEW t \in Threads, RunStepFails(t) \/ VerifyFails(t)
    PROVE  SettingsInv'
  <1> USE SettingsNames DEF SettingsInv
  <1>1. /\ work[t].pc \in {"down", "address", "up", "verify"} /\ work[t].pc \in Applying
        /\ UNCHANGED <<phase, mem, fileVars, kept, since, disturbed, stranded>> /\ strayed' = TRUE
        /\ Continue(t, "recover")
    BY DEF RunStepFails, VerifyFails, Applying
  <1>2. /\ Becomes(t, [work[t] EXCEPT !.pc = "recover"]) /\ work'[t].pc = "recover" /\ work'[t].want = work[t].want
        /\ work'[t].fd = work[t].fd /\ work'[t].applied = work[t].applied /\ work'[t].alone = work[t].alone
    BY <1>1, ContinueMoves DEF Pcs, Applying
  <1>3. /\ \A o \in Threads \ {t} : work'[o] = work[o]
        /\ work' \in [Threads -> Jobs]
    BY <1>2 DEF Becomes
  <1>4. eth' \in [mac : Macs \cup {Firmware}, up : BOOLEAN]
    <2>1. eth \in [mac : Macs \cup {Firmware}, up : BOOLEAN] /\ work[t].want.mac \in Macs
      BY <1>1, ThreadApplies DEF SettingsTypeOK
    <2>2. CASE eth' = eth
      BY <2>1, <2>2
    <2>3. CASE work[t].pc \in {"down", "address", "up"} /\ eth' = AfterCommand(t)
      BY <2>1, <2>3 DEF AfterCommand
    <2>4. QED
      BY <2>2, <2>3 DEF RunStepFails, VerifyFails
  <1>5. SettingsTypeOK'
    BY <1>1, <1>3, <1>4 DEF fileVars, SettingsTypeOK, Jobs, Pcs
  <1>6. NameFree' /\ AloneSaves' /\ WholeFile'
    BY <1>1, <1>2, <1>3, ApplyKeepsFile DEF Applying
  <1>7. Phases' /\ AloneIsAlone' /\ Wants'
    BY <1>1, <1>2, <1>3 DEF Phases, AloneIsAlone, Wants, Busy, Applying, Saving
  <1>8. LinkUp'
    <2>1. work'[Main].pc = "verify" => eth'.up
      BY <1>1, <1>2, <1>3, ThreadApplies DEF LinkUp
    <2>2. ASSUME NEW w \in Savers, work'[w].alone, work'[w].pc \in Saving \cup {"verify"} PROVE FALSE
      <3>1. w \in Savers \ {t} /\ work'[w] = work[w]
        BY <1>2, <1>3, <2>2 DEF Saving
      <3>2. QED
        BY <1>1, <2>2, <3>1, ThreadApplies DEF Saving
    <2>3. QED
      BY <1>2, <2>1, <2>2 DEF LinkUp
  <1>9. MacApplied'
    BY <1>1, <1>2, <1>3, ApplyKeepsMac DEF Applying
  <1>10. QED
    BY <1>5, <1>6, <1>7, <1>8, <1>9

LEMMA VerifyKeeps ==
    ASSUME SettingsInv, NEW t \in Threads, VerifyMAC(t)
    PROVE  SettingsInv'
  <1> USE SettingsNames DEF SettingsInv
  <1>1. /\ work[t].pc = "verify" /\ work[t].pc \in Applying /\ eth.mac = work[t].want.mac
        /\ UNCHANGED <<mem, eth, fileVars, count, kept, since, disturbed>>
    BY DEF VerifyMAC, Applying
  <1>2. CASE t \in Savers
    <2>1. /\ phase = "serving" /\ t # Main /\ work[t].applied = TRUE /\ UNCHANGED <<phase, strayed, stranded>>
          /\ Continue(t, "open")
      BY <1>1, <1>2, ThreadApplies DEF VerifyMAC
    <2>2. /\ Becomes(t, [work[t] EXCEPT !.pc = "open"]) /\ work'[t].pc = "open" /\ work'[t].want = work[t].want
          /\ work'[t].fd = work[t].fd /\ work'[t].applied = work[t].applied /\ work'[t].alone = work[t].alone
      BY <2>1, ContinueMoves DEF Pcs, Saving
    <2>3. /\ \A o \in Threads \ {t} : work'[o] = work[o]
          /\ work' \in [Threads -> Jobs]
      BY <2>2 DEF Becomes
    <2>4. SettingsTypeOK'
      BY <1>1, <2>1, <2>3 DEF fileVars, SettingsTypeOK, Jobs, Pcs
    <2>5. NameFree' /\ AloneSaves' /\ WholeFile'
      BY <1>1, <2>1, <2>2, <2>3, ApplyKeepsFile
    <2>6. Phases' /\ AloneIsAlone' /\ Wants'
      BY <1>1, <1>2, <2>1, <2>2, <2>3 DEF Phases, AloneIsAlone, Wants, Busy, Applying, Saving
    <2>7. LinkUp'
      <3>1. work[t].alone => eth.up
        BY <1>1, <1>2, <2>1 DEF LinkUp
      <3>2. QED
        BY <1>1, <1>2, <2>1, <2>2, <2>3, <3>1 DEF LinkUp
    <2>8. MacApplied'
      BY <1>1, <1>2, <2>1, <2>2, <2>3 DEF MacApplied, Busy
    <2>9. QED
      BY <2>4, <2>5, <2>6, <2>7, <2>8
  <1>3. CASE t \notin Savers
    <2>1. /\ t = Main /\ phase = "apply" /\ work[t].want = mem /\ phase' = "serving" /\ Return(t)
          /\ \A w \in Savers : work[w].pc = "idle"
          /\ strayed' = FALSE /\ stranded' = FALSE
      BY <1>1, <1>3, ThreadApplies DEF VerifyMAC, Return
    <2>2. /\ work' \in [Threads -> Jobs] /\ \A o \in Threads \ {t} : work'[o] = work[o]
          /\ work'[t].pc = "idle"
      BY <2>1, ReturnMoves DEF Becomes
    <2>3. \A o \in Threads : work'[o].pc = "idle"
      BY <2>1, <2>2
    <2>4. SettingsTypeOK'
      BY <1>1, <2>1, <2>2 DEF fileVars, SettingsTypeOK, Jobs, Pcs
    <2>5. NameFree' /\ AloneSaves' /\ WholeFile'
      BY <1>1, <2>1, <2>2, ApplyKeepsFile
    <2>6. Phases' /\ AloneIsAlone' /\ Wants'
      BY <2>1, <2>3 DEF Phases, AloneIsAlone, Wants, Busy, Applying, Saving
    <2>7. LinkUp'
      BY <1>1, <2>1, <2>3 DEF LinkUp, Saving
    <2>8. MacApplied'
      BY <1>1, <2>1, <2>3 DEF MacApplied, Busy
    <2>9. QED
      BY <2>4, <2>5, <2>6, <2>7, <2>8
  <1>4. QED
    BY <1>2, <1>3

LEMMA UpRecoveryKeeps ==
    ASSUME SettingsInv, NEW t \in Threads, UpRecovery(t)
    PROVE  SettingsInv'
  <1> USE SettingsNames DEF SettingsInv
  <1>1. /\ work[t].pc = "recover" /\ work[t].pc \in Applying /\ Return(t) /\ strayed = TRUE
        /\ UNCHANGED <<mem, fileVars, kept, since, disturbed, strayed>>
    BY DEF UpRecovery, Applying, AloneIsAlone
  <1>2. /\ work' \in [Threads -> Jobs] /\ \A o \in Threads \ {t} : work'[o] = work[o]
        /\ work'[t].pc = "idle" /\ phase' = (IF t = Main THEN "serving" ELSE phase)
    BY <1>1, ReturnMoves DEF Becomes
  <1>3. \/ eth' = [eth EXCEPT !.up = TRUE] /\ stranded' = stranded
        \/ eth' = eth /\ stranded' = TRUE
    BY DEF UpRecovery
  <1>4. /\ eth' \in [mac : Macs \cup {Firmware}, up : BOOLEAN] /\ stranded' \in BOOLEAN
        /\ eth'.mac = eth.mac /\ (stranded' \/ eth'.up) /\ (eth.up => eth'.up)
    BY <1>3, SettingsFields DEF SettingsTypeOK
  <1>5. SettingsTypeOK'
    <2>1. phase' \in {"boot", "apply", "serving", "refused"}
      BY <1>2 DEF SettingsTypeOK
    <2>2. QED
      BY <1>1, <1>2, <1>4, <2>1 DEF fileVars, SettingsTypeOK, Jobs, Pcs
  <1>6. NameFree' /\ AloneSaves' /\ WholeFile'
    BY <1>1, <1>2, ApplyKeepsFile
  <1>7. Phases' /\ AloneIsAlone' /\ Wants'
    <2>1. Phases'
      <3>1. CASE t \in Savers
        BY <1>1, <1>2, <3>1, ThreadApplies DEF Phases, Busy, Saving
      <3>2. CASE t \notin Savers
        BY <1>1, <1>2, <3>2, ThreadApplies DEF Phases, Busy, Saving
      <3>3. QED
        BY <3>1, <3>2
    <2>2. AloneIsAlone' /\ Wants'
      BY <1>1, <1>2 DEF AloneIsAlone, Wants, Busy, Applying, Saving
    <2>3. QED
      BY <2>1, <2>2
  <1>8. LinkUp'
    BY <1>2, <1>4 DEF LinkUp, Saving
  <1>9. MacApplied'
    <2>1. \A w \in Savers : work'[w].alone /\ work'[w].pc # "idle" => FALSE
      BY <1>1, <1>2, ThreadApplies
    <2>2. QED
      BY <1>1, <2>1 DEF MacApplied, Busy
  <1>10. QED
    BY <1>5, <1>6, <1>7, <1>8, <1>9

-----------------------------------------------------------------------------
(* The daemon starts, dies and starts again.                               *)

\* While nobody is at work.
AllIdle == \A t \in Threads : work[t].pc = "idle"

LEMMA BootIsIdle ==
    ASSUME SettingsInv, phase = "boot"
    PROVE  AllIdle /\ (stranded \/ eth.up)
  BY SettingsNames DEF SettingsInv, AllIdle, Phases, Busy, LinkUp

\* An undisturbed file can be read.
LEMMA FileReads ==
    ASSUME SettingsInv, ~disturbed
    PROVE  File \in Docs
  <1> USE SettingsNames, SettingsFields DEF SettingsInv
  <1>1. CASE dir.path = NoInode
    BY <1>1 DEF File
  <1>2. CASE dir.path # NoInode
    <2>1. File = content[dir.path] /\ content[dir.path] \in {kept} \cup since
      BY <1>2 DEF File, WholeFile
    <2>2. content[dir.path] \in Docs \cup {Empty, Torn}
      BY <1>2
    <2>3. NoDoc # Empty /\ NoDoc # Torn
      BY DEF NoDoc, Empty, Torn
    <2>4. QED
      BY <2>1, <2>2, <2>3
  <1>3. QED
    BY <1>1, <1>2

LEMMA OpenRefusesKeeps ==
    ASSUME SettingsInv, OpenRefuses
    PROVE  SettingsInv'
  <1> USE SettingsNames DEF OpenRefuses, fileVars
  <1>1. disturbed
    BY FileReads
  <1>2. AllIdle' /\ (stranded' \/ eth'.up)
    BY BootIsIdle DEF AllIdle
  <1>3. SettingsTypeOK'
    BY DEF SettingsInv, SettingsTypeOK
  <1>4. NameFree' /\ WholeFile'
    BY <1>1 DEF SettingsInv, NameFree, WholeFile
  <1>5. Phases' /\ AloneIsAlone' /\ Wants'
    BY <1>2 DEF Phases, AloneIsAlone, Wants, Busy, Applying, Saving, AllIdle
  <1>6. AloneSaves' /\ LinkUp' /\ MacApplied'
    BY <1>2 DEF AloneSaves, LinkUp, MacApplied, Busy, Saving, AllIdle
  <1>7. QED
    BY <1>3, <1>4, <1>5, <1>6 DEF SettingsInv

LEMMA OpenSettingsKeeps ==
    ASSUME SettingsInv, OpenSettings
    PROVE  SettingsInv'
  <1> USE SettingsNames
  <1>1. /\ phase = "boot" /\ File \in Docs /\ mem' = File /\ mem' \in Docs
        /\ UNCHANGED <<eth, fileVars, count, kept, since, disturbed, stranded>>
    BY DEF OpenSettings
  <1>2. AllIdle /\ (stranded \/ eth.up)
    BY <1>1, BootIsIdle
  <1>3. File' = File
    BY <1>1 DEF File, fileVars
  <1>4. CASE File.mac \in {NoMac, eth.mac}
    <2>1. phase' = "serving" /\ strayed' = FALSE /\ work' = work
      BY <1>4 DEF OpenSettings
    <2>2. AllIdle'
      BY <1>2, <2>1 DEF AllIdle
    <2>3. SettingsTypeOK'
      BY <1>1, <2>1 DEF SettingsInv, SettingsTypeOK, fileVars
    <2>4. NameFree' /\ WholeFile'
      BY <1>1, <1>3, <2>1 DEF SettingsInv, NameFree, WholeFile, fileVars
    <2>5. Phases' /\ AloneIsAlone' /\ Wants'
      BY <2>1, <2>2 DEF Phases, AloneIsAlone, Wants, Busy, Applying, Saving, AllIdle
    <2>6. AloneSaves' /\ LinkUp' /\ MacApplied'
      BY <1>1, <1>2, <1>4, <2>1, <2>2 DEF AloneSaves, LinkUp, MacApplied, Busy, Saving, AllIdle
    <2>7. QED
      BY <2>3, <2>4, <2>5, <2>6 DEF SettingsInv
  <1>5. CASE File.mac \notin {NoMac, eth.mac}
    <2>1. /\ phase' = "apply" /\ strayed' = strayed
          /\ work' = [work EXCEPT ![Main] = [AtRest EXCEPT !.pc = "down", !.want = File]]
      BY <1>5 DEF OpenSettings
    <2>2. PICK j \in Jobs : /\ j = [AtRest EXCEPT !.pc = "down", !.want = File]
                            /\ j.pc = "down" /\ j.want = File /\ j.applied = FALSE
      <3>1. /\ [AtRest EXCEPT !.pc = "down", !.want = File] \in Jobs
            /\ [AtRest EXCEPT !.pc = "down", !.want = File].pc = "down"
            /\ [AtRest EXCEPT !.pc = "down", !.want = File].want = File
            /\ [AtRest EXCEPT !.pc = "down", !.want = File].applied = FALSE
        BY <1>1, RestingJob DEF AtRest, Jobs, Pcs, Applying
      <3>2. QED
        BY <3>1
    <2>3. /\ work' \in [Threads -> Jobs] /\ work'[Main] = j
          /\ \A w \in Savers : work'[w].pc = "idle"
      BY <1>2, <2>1, <2>2, SettingsFields DEF SettingsInv, AllIdle
    <2>4. SettingsTypeOK'
      BY <1>1, <2>1, <2>3 DEF SettingsInv, SettingsTypeOK, fileVars, Jobs, Pcs
    <2>5. NameFree' /\ WholeFile'
      BY <1>1, <1>3, <2>1 DEF SettingsInv, NameFree, WholeFile, fileVars
    <2>6. File.mac \in Macs
      BY <1>1, <1>5, DocFields
    <2>7. Phases' /\ AloneIsAlone' /\ Wants'
      BY <1>1, <2>1, <2>2, <2>3, <2>6 DEF Phases, AloneIsAlone, Wants, Busy, Applying, Saving
    <2>8. AloneSaves' /\ LinkUp' /\ MacApplied'
      BY <1>1, <1>2, <2>1, <2>2, <2>3 DEF AloneSaves, LinkUp, MacApplied, Busy, Saving
    <2>9. QED
      BY <2>4, <2>5, <2>7, <2>8 DEF SettingsInv
  <1>6. QED
    BY <1>4, <1>5

LEMMA KilledKeeps ==
    ASSUME SettingsInv, Killed
    PROVE  SettingsInv'
  <1> USE SettingsNames
  <1>1. /\ phase' = "boot" /\ mem' = FirstRun /\ work' = [t \in Threads |-> AtRest]
        /\ stranded' = (stranded \/ \E t \in Threads : work[t].pc \in Applying)
        /\ UNCHANGED <<eth, fileVars, kept, since, disturbed, strayed>>
    BY DEF Killed, Crash
  <1>2. work' \in [Threads -> Jobs] /\ AllIdle'
    BY <1>1, RestingJob DEF AllIdle
  <1>3. SettingsTypeOK'
    BY <1>1, <1>2 DEF SettingsInv, SettingsTypeOK, fileVars, Jobs, Pcs
  <1>4. NameFree' /\ WholeFile'
    BY <1>1 DEF SettingsInv, NameFree, WholeFile, fileVars
  <1>5. stranded' \/ eth'.up
    BY <1>1 DEF SettingsInv, LinkUp, Applying
  <1>6. Phases' /\ AloneIsAlone' /\ Wants'
    BY <1>1, <1>2 DEF Phases, AloneIsAlone, Wants, Busy, Applying, Saving, AllIdle
  <1>7. AloneSaves' /\ LinkUp' /\ MacApplied'
    BY <1>1, <1>2, <1>5 DEF AloneSaves, LinkUp, MacApplied, Busy, Saving, AllIdle
  <1>8. QED
    BY <1>3, <1>4, <1>6, <1>7 DEF SettingsInv

LEMMA PowerCutKeeps ==
    ASSUME SettingsInv, PowerCut
    PROVE  SettingsInv'
  <1> USE SettingsNames
  <1>1. /\ phase' = "boot" /\ mem' = FirstRun /\ work' = [t \in Threads |-> AtRest]
        /\ dir' \in dirs /\ dirs' = {dir'} /\ synced' = [i \in Inodes |-> TRUE]
        /\ eth' = [mac |-> Firmware, up |-> TRUE] /\ stranded' = FALSE
        /\ UNCHANGED <<kept, since, disturbed, strayed>>
    BY DEF PowerCut, Crash
  <1>2. PICK lost \in SUBSET {i \in Inodes : ~synced[i]} :
          content' = [i \in Inodes |-> IF i \in lost THEN Torn ELSE content[i]]
    BY DEF PowerCut
  <1>3. /\ content' \in [Inodes -> Docs \cup {Empty, Torn}]
        /\ \A i \in Inodes : synced[i] => content'[i] = content[i]
    BY <1>2, SettingsFields DEF SettingsInv
  <1>4. work' \in [Threads -> Jobs] /\ AllIdle'
    BY <1>1, RestingJob DEF AllIdle
  <1>5. SettingsTypeOK'
    BY <1>1, <1>3, <1>4 DEF SettingsInv, SettingsTypeOK, Jobs, Pcs
  <1>6. NameFree' /\ WholeFile'
    BY <1>1, <1>3, SettingsFields DEF SettingsInv, NameFree, WholeFile
  <1>7. Phases' /\ AloneIsAlone' /\ Wants'
    BY <1>1, <1>4 DEF Phases, AloneIsAlone, Wants, Busy, Applying, Saving, AllIdle
  <1>8. AloneSaves' /\ LinkUp' /\ MacApplied'
    BY <1>1, <1>4 DEF AloneSaves, LinkUp, MacApplied, Busy, Saving, AllIdle
  <1>9. QED
    BY <1>5, <1>6, <1>7, <1>8 DEF SettingsInv

-----------------------------------------------------------------------------
(* An operation begins.                                                    *)

LEMMA BeginKeeps ==
    ASSUME SettingsInv, NEW w \in Savers, NEW next \in Jobs, Begin(w, next),
           next.pc \in {"down", "open"}, next.applied <=> next.pc = "down",
           next.applied => next.want.mac \in Macs, ~next.applied => next.want.mac \in {NoMac, mem.mac}
    PROVE  SettingsInv'
  <1> USE SettingsNames
  <1>1. PICK others : others = {o \in Savers : Busy(o)}
    OBVIOUS
  <1>2. /\ phase = "serving" /\ work[w].pc = "idle" /\ w \notin others /\ w \in Threads
        /\ work' = [o \in Threads |-> IF o = w THEN [next EXCEPT !.alone = (others = {})]
                                      ELSE [work[o] EXCEPT !.alone = @ /\ o \notin others]]
        /\ disturbed' = (disturbed \/ others # {}) /\ strayed' = (strayed \/ others # {})
        /\ UNCHANGED <<phase, mem, eth, fileVars, kept, since, stranded>>
    BY <1>1 DEF Begin, Busy
  <1>3. /\ work'[w] \in Jobs /\ work'[w].pc = next.pc /\ work'[w].want = next.want
        /\ work'[w].applied = next.applied /\ work'[w].alone = (others = {})
    <2>1. PICK b \in BOOLEAN : b = (others = {})
      OBVIOUS
    <2>2. work'[w] = [next EXCEPT !.alone = b]
      BY <1>2, <2>1
    <2>3. QED
      BY <2>1, <2>2 DEF Jobs
  <1>4. ASSUME NEW o \in Threads \ {w}
        PROVE  /\ work'[o] \in Jobs /\ work'[o].pc = work[o].pc /\ work'[o].want = work[o].want
               /\ work'[o].fd = work[o].fd /\ work'[o].applied = work[o].applied
               /\ work'[o].alone = (work[o].alone /\ o \notin others)
    <2>1. PICK b \in BOOLEAN : b = (work[o].alone /\ o \notin others)
      OBVIOUS
    <2>2. work'[o] = [work[o] EXCEPT !.alone = b] /\ work[o] \in Jobs
      BY <1>2, <2>1, SettingsFields DEF SettingsInv
    <2>3. QED
      BY <2>1, <2>2 DEF Jobs
  <1>5. work' \in [Threads -> Jobs]
    BY <1>2, <1>3, <1>4
  <1>6. \A o \in Savers \ {w} : work[o].pc # "idle" => o \in others /\ ~work'[o].alone
    BY <1>1, <1>4 DEF Busy
  <1>7. work[Main].pc = "idle" /\ work'[Main].pc = "idle"
    BY <1>2, <1>4 DEF SettingsInv, Phases, Busy
  <1>8. \A o \in Threads : work[o].pc # "idle" => /\ o # w /\ work'[o].pc = work[o].pc
                                                  /\ work'[o].applied = work[o].applied
    BY <1>2, <1>4
  <1>9. \A o \in Savers : work'[o].pc # "idle" /\ work'[o].alone => o = w
    BY <1>4, <1>6
  <1>10. SettingsTypeOK'
    <2>1. disturbed' \in BOOLEAN /\ strayed' \in BOOLEAN
      BY <1>2
    <2>2. QED
      BY <1>2, <1>5, <2>1 DEF SettingsInv, SettingsTypeOK, fileVars, Jobs, Pcs
  <1>11. NameFree' /\ Phases'
    BY <1>2, <1>7 DEF SettingsInv, NameFree, Phases, fileVars, Busy, Saving
  <1>12. AloneIsAlone'
    <2>1. \A v, o \in Savers : work'[v].pc # "idle" /\ work'[o].pc # "idle" /\ work'[v].alone => o = v
      <3>1. others = {} => \A o \in Savers \ {w} : work'[o].pc = "idle"
        BY <1>4, <1>6
      <3>2. QED
        BY <1>3, <1>9, <3>1
    <2>2. \A v \in Savers : work'[v].pc # "idle" /\ (~disturbed' \/ ~strayed') => work'[v].alone
      <3>1. TAKE v \in Savers
      <3>2. HAVE work'[v].pc # "idle" /\ (~disturbed' \/ ~strayed')
      <3>3. others = {}
        BY <1>2, <3>2, Zenon
      <3>4. v = w
        BY <1>4, <1>6, <3>1, <3>2, <3>3
      <3>5. QED
        BY <1>3, <3>3, <3>4
    <2>3. \A t \in Threads : work'[t].pc = "recover" => strayed'
      <3>1. \A t \in Threads : work'[t].pc = "recover" => work[t].pc = "recover"
        BY <1>3, <1>4
      <3>2. QED
        BY <1>2, <3>1, Zenon DEF SettingsInv, AloneIsAlone
    <2>4. QED
      BY <2>1, <2>2, <2>3 DEF AloneIsAlone, Busy
  <1>13. Wants'
    <2>1. ASSUME NEW t \in Threads
          PROVE  /\ work'[t].pc \in Applying => work'[t].want.mac \in Macs
                 /\ t \in Savers => /\ work'[t].pc \in Applying => work'[t].applied
                                    /\ work'[t].pc \in Saving \ {"open"} => work'[t].fd \in Inodes
      <3>1. CASE t = w
        BY <1>3, <3>1 DEF Applying, Saving
      <3>2. CASE t # w
        BY <1>4, <3>2 DEF SettingsInv, Wants
      <3>3. QED
        BY <3>1, <3>2
    <2>2. QED
      BY <2>1 DEF Wants
  <1>14. AloneSaves'
    BY <1>3, <1>9 DEF AloneSaves
  <1>15. WholeFile'
    <2>1. File' = File
      BY <1>2 DEF File, fileVars
    <2>2. QED
      BY <1>2, <1>8, <2>1 DEF SettingsInv, WholeFile, fileVars
  <1>16. LinkUp'
    <2>1. stranded' \/ eth'.up \/ \E t \in Threads : work'[t].pc \in {"address", "up", "recover"}
      BY <1>2, <1>8 DEF SettingsInv, LinkUp
    <2>2. \A v \in Savers : ~(work'[v].alone /\ work'[v].applied /\ work'[v].pc \in Saving \cup {"verify"})
      BY <1>3, <1>9 DEF Saving
    <2>3. QED
      BY <1>7, <2>1, <2>2 DEF LinkUp
  <1>17. MacApplied'
    <2>1. next.applied \in BOOLEAN
      BY JobFields
    <2>2. \A v \in Savers : work'[v].alone /\ work'[v].pc # "idle" =>
            IF work'[v].applied THEN work'[v].pc \in Saving => eth'.mac = work'[v].want.mac
            ELSE work'[v].want.mac \in {NoMac, mem'.mac}
      BY <1>2, <1>3, <1>9, <2>1 DEF Saving
    <2>3. phase' = "serving" /\ ~strayed' /\ mem'.mac # NoMac =>
            eth'.mac = mem'.mac \/ \E v \in Savers : work'[v].pc # "idle" /\ work'[v].applied
      BY <1>2, <1>8 DEF SettingsInv, MacApplied, Busy
    <2>4. QED
      BY <2>2, <2>3 DEF MacApplied, Busy
  <1>18. QED
    BY <1>10, <1>11, <1>12, <1>13, <1>14, <1>15, <1>16, <1>17 DEF SettingsInv

LEMMA HandleKeeps ==
    ASSUME SettingsInv, NEW h \in Handlers, NEW m \in Macs \cup {NoMac}, Handle(h, [mem EXCEPT !.mac = m])
    PROVE  SettingsInv'
  <1> DEFINE s == [mem EXCEPT !.mac = m]
             next == [AtRest EXCEPT !.pc = IF NeedsApply(s) THEN "down" ELSE "open", !.want = s,
                                    !.applied = NeedsApply(s)]
  <1>1. s \in Docs /\ s.mac = m
    BY SettingsFields DEF SettingsInv, Docs
  <1>2. NeedsApply(s) <=> m # NoMac /\ m # mem.mac
    BY <1>1 DEF NeedsApply
  <1> HIDE DEF s
  <1>3. PICK b \in BOOLEAN : b = NeedsApply(s)
    BY DEF NeedsApply
  <1>4. PICK pc \in {"down", "open"} : pc = IF b THEN "down" ELSE "open"
    OBVIOUS
  <1>5. next = [AtRest EXCEPT !.pc = pc, !.want = s, !.applied = b]
    BY <1>3, <1>4
  <1> HIDE DEF next
  <1>6. next \in Jobs /\ next.pc = pc /\ next.want = s /\ next.applied = b
    BY <1>1, <1>5, SettingsNames DEF AtRest, Jobs, Pcs, Applying, Saving
  <1>7. Begin(h, next) /\ h \in Savers
    BY DEF Handle, next, s, Savers
  <1>8. QED
    BY <1>1, <1>2, <1>3, <1>4, <1>6, <1>7, BeginKeeps

LEMMA PersistKeeps ==
    ASSUME SettingsInv, NEW net \in Parameters, PairingPersist(net)
    PROVE  SettingsInv'
  <1> DEFINE s == [mem EXCEPT !.net = net]
             next == [AtRest EXCEPT !.pc = "open", !.want = s]
  <1>1. s \in Docs /\ s.mac = mem.mac
    BY SettingsFields DEF SettingsInv, Docs
  <1> HIDE DEF s
  <1>2. next \in Jobs /\ next.pc = "open" /\ next.want = s /\ next.applied = FALSE
    BY <1>1, SettingsNames DEF AtRest, Jobs, Pcs, Saving
  <1>3. Begin(Pairer, next) /\ Pairer \in Savers
    BY SettingsNames DEF PairingPersist, s
  <1> HIDE DEF next
  <1>4. QED
    BY <1>1, <1>2, <1>3, BeginKeeps

-----------------------------------------------------------------------------
(* A save.                                                                 *)

\* What a step from one of its pcs to another leaves as it was.
LEMMA SavingKeepsRest ==
    ASSUME SettingsInv, NEW w \in Savers, work[w].pc \in Saving,
           \A o \in Threads \ {w} : work'[o] = work[o], work'[w].pc \in Saving, work'[w].want = work[w].want,
           work'[w].applied = work[w].applied, work'[w].alone = work[w].alone,
           work'[w].pc = "open" \/ work'[w].fd \in Inodes,
           UNCHANGED <<phase, mem, eth, strayed, stranded>>,
           disturbed' = disturbed \/ (disturbed' = FALSE /\ work[w].alone)
    PROVE  Phases' /\ AloneIsAlone' /\ Wants' /\ LinkUp' /\ MacApplied'
  <1> USE SettingsNames DEF SettingsInv
  <1>1. /\ phase = "serving" /\ work[Main].pc = "idle" /\ w # Main /\ w \in Threads /\ work[w].pc # "idle"
        /\ \A o \in Savers \ {w} : work[o].pc # "idle" => work[o].alone = FALSE
        /\ work[w].alone => \A o \in Savers \ {w} : work[o].pc = "idle"
    BY SaverAtWork DEF Saving
  <1>2. work'[w].pc \notin {"idle", "verify", "recover"} /\ work'[w].pc \notin Applying /\ work[w].pc \notin Applying
    BY DEF Saving, Applying
  <1>3. \A o \in Threads : (work'[o].pc # "idle" <=> work[o].pc # "idle") /\ work'[o].applied = work[o].applied
                           /\ work'[o].alone = work[o].alone /\ work'[o].want = work[o].want
    BY <1>1, <1>2
  <1>4. Phases'
    BY <1>1 DEF Phases, Busy
  <1>5. AloneIsAlone'
    <2>1. \A v, o \in Savers : work'[v].pc # "idle" /\ work'[o].pc # "idle" /\ work'[v].alone => o = v
      BY <1>3 DEF AloneIsAlone, Busy
    <2>2. \A v \in Savers : work'[v].pc # "idle" /\ (~disturbed' \/ ~strayed') => work'[v].alone
      <3>1. CASE work[w].alone
        BY <1>1, <1>3, <3>1
      <3>2. CASE ~work[w].alone
        <4>1. \A v \in Savers : work[v].pc # "idle" /\ (~disturbed \/ ~strayed) => work[v].alone
          BY DEF AloneIsAlone, Busy
        <4>2. disturbed' = disturbed /\ strayed' = strayed
          BY <3>2
        <4>3. QED
          BY <1>3, <4>1, <4>2
      <3>3. QED
        BY <3>1, <3>2
    <2>3. \A t \in Threads : work'[t].pc = "recover" => strayed'
      BY <1>2 DEF AloneIsAlone
    <2>4. QED
      BY <2>1, <2>2, <2>3 DEF AloneIsAlone, Busy
  <1>6. Wants'
    BY <1>2, <1>3 DEF Wants
  <1>7. LinkUp'
    <2>1. stranded' \/ eth'.up \/ \E t \in Threads : work'[t].pc \in {"address", "up", "recover"}
      BY <1>2 DEF LinkUp, Saving
    <2>2. \A v \in Savers : work'[v].alone /\ work'[v].applied /\ work'[v].pc \in Saving \cup {"verify"} => eth'.up
      BY <1>3 DEF LinkUp
    <2>3. QED
      BY <1>1, <2>1, <2>2 DEF LinkUp
  <1>8. MacApplied'
    <2>1. \A v \in Savers : work'[v].alone /\ work'[v].pc # "idle" =>
            IF work'[v].applied THEN work'[v].pc \in Saving => eth'.mac = work'[v].want.mac
            ELSE work'[v].want.mac \in {NoMac, mem'.mac}
      <3>1. TAKE v \in Savers
      <3>2. HAVE work'[v].alone /\ work'[v].pc # "idle"
      <3>3. IF work[v].applied THEN work[v].pc \in Saving => eth.mac = work[v].want.mac
            ELSE work[v].want.mac \in {NoMac, mem.mac}
        BY <1>3, <3>2 DEF MacApplied, Busy
      <3>4. work'[v].pc \in Saving => work[v].pc \in Saving
        BY <3>1
      <3>5. work'[v].applied = work[v].applied /\ work'[v].want = work[v].want /\ UNCHANGED <<mem, eth>>
        BY <1>3, <3>1
      <3>6. work[v].applied \in BOOLEAN
        BY <3>1, SettingsFields
      <3>7. QED
        BY <3>3, <3>4, <3>5, <3>6
    <2>2. phase' = "serving" /\ ~strayed' /\ mem'.mac # NoMac =>
            eth'.mac = mem'.mac \/ \E v \in Savers : work'[v].pc # "idle" /\ work'[v].applied
      BY <1>3 DEF MacApplied, Busy
    <2>3. QED
      BY <2>1, <2>2 DEF MacApplied, Busy
  <1>9. QED
    BY <1>4, <1>5, <1>6, <1>7, <1>8

\* An undisturbed saver is the only one at work, and while the file is whole
\* every saver is undisturbed.
LEMMA OneSaver ==
    ASSUME SettingsInv, NEW w \in Savers, work[w].pc # "idle"
    PROVE  /\ ~disturbed => work[w].alone
           /\ \A o \in Savers \ {w} : work[o].alone => work[o].pc = "idle"
  BY SaverAtWork, SettingsNames, SettingsFields DEF SettingsInv, AloneIsAlone, Busy

LEMMA FreshInode ==
    ASSUME SettingsInv, NEW i, i = IF dir.tmp = NoInode THEN Fresh ELSE dir.tmp,
           dir.tmp # NoInode \/ Inodes \ Referenced # {}
    PROVE  i \in Inodes /\ i # NoInode /\ \A d \in dirs : d.path # i
  <1> USE SettingsNames, SettingsFields DEF SettingsInv
  <1>1. CASE dir.tmp # NoInode
    BY <1>1 DEF NameFree
  <1>2. CASE dir.tmp = NoInode
    <2>1. Fresh \in Inodes /\ Fresh \notin Referenced
      BY <1>2 DEF Fresh
    <2>2. ASSUME NEW d \in dirs PROVE d.path \in Referenced
      <3>1. d.path \in {d.path, d.tmp}
        OBVIOUS
      <3>2. d.path \in UNION {{e.path, e.tmp} : e \in dirs}
        BY ONLY <2>2, <3>1, Zenon
      <3>3. QED
        BY ONLY <3>2, Zenon DEF Referenced
    <2>3. QED
      BY <1>2, <2>1, <2>2
  <1>3. QED
    BY <1>1, <1>2

LEMMA OpenTmpKeeps ==
    ASSUME SettingsInv, NEW w \in Savers, OpenTmp(w)
    PROVE  SettingsInv'
  <1> USE SettingsNames
  <1>1. PICK i : i = IF dir.tmp = NoInode THEN Fresh ELSE dir.tmp
    OBVIOUS
  <1>2. i \in Inodes /\ i # NoInode /\ \A d \in dirs : d.path # i
    BY <1>1, FreshInode DEF OpenTmp
  <1>3. /\ work[w].pc = "open" /\ work[w].pc \in Saving /\ work[w].pc # "idle"
        /\ content' = [content EXCEPT ![i] = Empty] /\ synced' = [synced EXCEPT ![i] = FALSE]
        /\ dir' = [dir EXCEPT !.tmp = i] /\ dirs' = dirs \cup {dir'}
        /\ work' = [work EXCEPT ![w].pc = "write", ![w].fd = i]
        /\ since' = since \cup {work[w].want}
        /\ UNCHANGED <<phase, mem, eth, kept, disturbed, strayed, stranded>>
    BY <1>1 DEF OpenTmp, Moved, Saving
  <1>4. /\ work' \in [Threads -> Jobs] /\ \A o \in Threads \ {w} : work'[o] = work[o]
        /\ work'[w].pc = "write" /\ work'[w].fd = i /\ work'[w].want = work[w].want
        /\ work'[w].applied = work[w].applied /\ work'[w].alone = work[w].alone
    <2>1. work \in [Threads -> Jobs] /\ work[w] \in Jobs
      BY SettingsFields DEF SettingsInv
    <2>2. PICK j : j = [work[w] EXCEPT !.pc = "write", !.fd = i]
      OBVIOUS
    <2>3. /\ j \in Jobs /\ j.pc = "write" /\ j.fd = i /\ j.want = work[w].want
          /\ j.applied = work[w].applied /\ j.alone = work[w].alone
      BY <1>2, <2>1, <2>2 DEF Jobs, Pcs, Saving
    <2>4. work' = [work EXCEPT ![w] = j]
      BY <1>3, <2>2
    <2>5. QED
      BY <2>1, <2>3, <2>4
  <1>5. /\ dir' \in Names /\ dir'.path = dir.path /\ dir'.tmp = i
        /\ content' \in [Inodes -> Docs \cup {Empty, Torn}] /\ synced' \in [Inodes -> BOOLEAN]
        /\ content'[i] = Empty
        /\ \A k \in Inodes \ {i} : content'[k] = content[k] /\ synced'[k] = synced[k]
        /\ since' \subseteq Docs
    <2>1. dir \in Names
      BY SettingsFields DEF SettingsInv
    <2>2. dir' \in Names /\ dir'.path = dir.path /\ dir'.tmp = i
      BY <1>2, <1>3, <2>1 DEF Names
    <2>3. QED
      BY <1>2, <1>3, <2>2, SettingsFields DEF SettingsInv
  <1>6. SettingsTypeOK'
    <2>1. dirs' \subseteq Names /\ dir' \in dirs'
      BY <1>3, <1>5, SettingsFields DEF SettingsInv
    <2>2. QED
      BY <1>3, <1>4, <1>5, <2>1 DEF SettingsInv, SettingsTypeOK, Jobs, Pcs, Names
  <1>7. Phases' /\ AloneIsAlone' /\ Wants' /\ LinkUp' /\ MacApplied'
    BY <1>2, <1>3, <1>4, SavingKeepsRest DEF Saving
  <1>8. NameFree'
    <2>1. dir \in dirs
      BY SettingsFields DEF SettingsInv
    <2>2. ASSUME NEW d \in dirs' PROVE d.path # i /\ (d.tmp # NoInode => d.path # d.tmp)
      <3>1. CASE d \in dirs
        BY <1>2, <3>1 DEF SettingsInv, NameFree
      <3>2. CASE d = dir'
        BY <1>2, <1>5, <2>1, <3>2
      <3>3. QED
        BY <1>3, <2>2, <3>1, <3>2
    <2>3. QED
      BY <1>5, <2>2 DEF NameFree
  <1>9. AloneSaves'
    <2>1. ASSUME NEW v \in Savers, work'[v].alone, work'[v].pc # "idle" PROVE v = w
      BY <1>3, <1>4, <2>1, OneSaver
    <2>2. work'[w].want \in since'
      BY <1>3, <1>4
    <2>3. QED
      BY <1>4, <1>5, <2>1, <2>2 DEF AloneSaves
  <1>10. WholeFile'
    <2>1. dir.path # i /\ dir \in dirs /\ \A d \in dirs : d.path \in Inodes \cup {NoInode}
      BY <1>2, SettingsFields DEF SettingsInv
    <2>2. File' = File
      BY <1>5, <2>1 DEF File
    <2>3. ~disturbed => \A d \in dirs' : IF d.path = NoInode THEN kept' = NoDoc
                                         ELSE synced'[d.path] /\ content'[d.path] \in {kept'} \cup since'
      <3>1. HAVE ~disturbed
      <3>2. \A d \in dirs : IF d.path = NoInode THEN kept' = NoDoc
                            ELSE synced'[d.path] /\ content'[d.path] \in {kept'} \cup since'
        <4>1. TAKE d \in dirs
        <4>2. d.path # i /\ d.path \in Inodes \cup {NoInode}
          BY <1>2, <2>1, <4>1
        <4>3. IF d.path = NoInode THEN kept = NoDoc ELSE synced[d.path] /\ content[d.path] \in {kept} \cup since
          BY <3>1, <4>1 DEF SettingsInv, WholeFile
        <4>4. CASE d.path = NoInode
          BY <1>3, <4>3, <4>4
        <4>5. CASE d.path # NoInode
          BY <1>3, <1>5, <4>2, <4>3, <4>5
        <4>6. QED
          BY <4>4, <4>5
      <3>3. QED
        BY <1>3, <1>5, <2>1, <3>2
    <2>4. QED
      BY <1>3, <1>4, <2>2, <2>3 DEF SettingsInv, WholeFile
  <1>11. QED
    BY <1>6, <1>7, <1>8, <1>9, <1>10 DEF SettingsInv

LEMMA WriteDocKeeps ==
    ASSUME SettingsInv, NEW w \in Savers, WriteDoc(w)
    PROVE  SettingsInv'
  <1> USE SettingsNames
  <1>1. PICK i : i = work[w].fd
    OBVIOUS
  <1>2. /\ work[w].pc = "write" /\ work[w].pc \in Saving /\ work[w].pc # "idle" /\ i \in Inodes
        /\ synced' = [synced EXCEPT ![i] = FALSE] /\ Continue(w, "fsync")
        /\ UNCHANGED <<phase, mem, eth, dir, dirs, kept, since, disturbed, strayed, stranded>>
    BY <1>1 DEF WriteDoc, Saving, SettingsInv, Wants
  <1>3. PICK left \in {work[w].want} \cup (IF content[i] \in {Empty, work[w].want} THEN {} ELSE {Torn}) :
            content' = [content EXCEPT ![i] = left]
    BY <1>1 DEF WriteDoc
  <1>4. /\ work' \in [Threads -> Jobs] /\ \A o \in Threads \ {w} : work'[o] = work[o]
        /\ work'[w].pc = "fsync" /\ work'[w].fd = i /\ work'[w].want = work[w].want
        /\ work'[w].applied = work[w].applied /\ work'[w].alone = work[w].alone
    BY <1>1, <1>2, ContinueMoves DEF Becomes, Pcs, Saving, SettingsInv
  <1>5. /\ content' \in [Inodes -> Docs \cup {Empty, Torn}] /\ synced' \in [Inodes -> BOOLEAN]
        /\ content'[i] = left
        /\ \A k \in Inodes \ {i} : content'[k] = content[k] /\ synced'[k] = synced[k]
    BY <1>2, <1>3, SettingsFields DEF SettingsInv
  <1>6. work[w].alone => dir.tmp = i /\ left = work[w].want /\ work[w].want \in since /\ \A d \in dirs : d.path # i
    BY <1>1, <1>2, <1>3 DEF SettingsInv, AloneSaves, NameFree
  <1>7. SettingsTypeOK'
    BY <1>2, <1>4, <1>5 DEF SettingsInv, SettingsTypeOK, Jobs, Pcs
  <1>8. Phases' /\ AloneIsAlone' /\ Wants' /\ LinkUp' /\ MacApplied'
    BY <1>2, <1>4, SavingKeepsRest DEF Saving
  <1>9. NameFree'
    BY <1>2 DEF SettingsInv, NameFree
  <1>10. AloneSaves'
    <2>1. ASSUME NEW v \in Savers, work'[v].alone, work'[v].pc # "idle" PROVE v = w
      BY <1>2, <1>4, <2>1, OneSaver
    <2>2. QED
      BY <1>2, <1>4, <1>5, <1>6, <2>1 DEF AloneSaves
  <1>11. WholeFile'
    <2>1. SUFFICES ASSUME ~disturbed' PROVE WholeFile'
      BY DEF WholeFile
    <2>2. ~disturbed /\ work[w].alone
      BY <1>2, <2>1, OneSaver
    <2>3. dir \in dirs /\ \A d \in dirs : d.path \in Inodes \cup {NoInode} /\ d.path # i
      BY <1>6, <2>2, SettingsFields DEF SettingsInv
    <2>4. File' = File
      BY <1>2, <1>5, <2>3 DEF File
    <2>5. QED
      BY <1>2, <1>4, <1>5, <2>2, <2>3, <2>4 DEF SettingsInv, WholeFile
  <1>12. QED
    BY <1>7, <1>8, <1>9, <1>10, <1>11 DEF SettingsInv

LEMMA FsyncKeeps ==
    ASSUME SettingsInv, NEW w \in Savers, Fsync(w)
    PROVE  SettingsInv'
  <1> USE SettingsNames
  <1>1. PICK i : i = work[w].fd
    OBVIOUS
  <1>2. /\ work[w].pc = "fsync" /\ work[w].pc \in Saving /\ work[w].pc # "idle" /\ i \in Inodes
        /\ synced' = [synced EXCEPT ![i] = TRUE] /\ Continue(w, "rename")
        /\ UNCHANGED <<phase, mem, eth, dir, dirs, content, kept, since, disturbed, strayed, stranded>>
    BY <1>1 DEF Fsync, Saving, SettingsInv, Wants
  <1>3. /\ work' \in [Threads -> Jobs] /\ \A o \in Threads \ {w} : work'[o] = work[o]
        /\ work'[w].pc = "rename" /\ work'[w].fd = i /\ work'[w].want = work[w].want
        /\ work'[w].applied = work[w].applied /\ work'[w].alone = work[w].alone
    BY <1>1, <1>2, ContinueMoves DEF Becomes, Pcs, Saving, SettingsInv
  <1>4. /\ synced' \in [Inodes -> BOOLEAN] /\ synced'[i] = TRUE
        /\ \A k \in Inodes : synced[k] => synced'[k]
    BY <1>2, SettingsFields DEF SettingsInv
  <1>5. SettingsTypeOK'
    BY <1>2, <1>3, <1>4 DEF SettingsInv, SettingsTypeOK, Jobs, Pcs
  <1>6. Phases' /\ AloneIsAlone' /\ Wants' /\ LinkUp' /\ MacApplied'
    BY <1>2, <1>3, SavingKeepsRest DEF Saving
  <1>7. NameFree'
    BY <1>2 DEF SettingsInv, NameFree
  <1>8. AloneSaves'
    <2>1. ASSUME NEW v \in Savers, work'[v].alone, work'[v].pc # "idle" PROVE v = w
      BY <1>2, <1>3, <2>1, OneSaver
    <2>2. work[w].alone => dir.tmp = i /\ work[w].want \in since /\ content[i] = work[w].want
      BY <1>1, <1>2 DEF SettingsInv, AloneSaves
    <2>3. QED
      BY <1>2, <1>3, <1>4, <2>1, <2>2 DEF AloneSaves
  <1>9. WholeFile'
    <2>1. File' = File
      BY <1>2 DEF File
    <2>2. \A d \in dirs : d.path \in Inodes \cup {NoInode}
      BY SettingsFields DEF SettingsInv
    <2>3. QED
      BY <1>2, <1>3, <1>4, <2>1, <2>2 DEF SettingsInv, WholeFile
  <1>10. QED
    BY <1>5, <1>6, <1>7, <1>8, <1>9 DEF SettingsInv

LEMMA RenameKeeps ==
    ASSUME SettingsInv, NEW w \in Savers, Rename(w)
    PROVE  SettingsInv'
  <1> USE SettingsNames
  <1>1. /\ work[w].pc = "rename" /\ work[w].pc \in Saving /\ work[w].pc # "idle" /\ dir.tmp # NoInode
        /\ dir' = [path |-> dir.tmp, tmp |-> NoInode] /\ dirs' = dirs \cup {dir'}
        /\ Continue(w, "syncdir")
        /\ UNCHANGED <<phase, mem, eth, content, synced, kept, since, disturbed, strayed, stranded>>
    BY DEF Rename, Moved, Saving
  <1>2. /\ work' \in [Threads -> Jobs] /\ \A o \in Threads \ {w} : work'[o] = work[o]
        /\ work'[w].pc = "syncdir" /\ work'[w].fd = work[w].fd /\ work'[w].want = work[w].want
        /\ work'[w].applied = work[w].applied /\ work'[w].alone = work[w].alone
    BY <1>1, ContinueMoves DEF Becomes, Pcs, Saving, SettingsInv
  <1>3. dir'.path = dir.tmp /\ dir'.tmp = NoInode /\ dir.tmp \in Inodes /\ work[w].fd \in Inodes
    BY <1>1, SettingsFields DEF SettingsInv, Wants, Saving
  <1>4. SettingsTypeOK'
    <2>1. dirs' \subseteq Names /\ dir' \in dirs'
      BY <1>1, <1>3, SettingsFields DEF SettingsInv, Names
    <2>2. QED
      BY <1>1, <1>2, <2>1 DEF SettingsInv, SettingsTypeOK, Jobs, Pcs, Names
  <1>5. Phases' /\ AloneIsAlone' /\ Wants' /\ LinkUp' /\ MacApplied'
    BY <1>1, <1>2, <1>3, SavingKeepsRest DEF Saving
  <1>6. NameFree'
    BY <1>1, <1>3 DEF SettingsInv, NameFree
  <1>7. work[w].alone => /\ dir.tmp = work[w].fd /\ work[w].want \in since
                         /\ content[work[w].fd] = work[w].want /\ synced[work[w].fd]
    BY <1>1 DEF SettingsInv, AloneSaves
  <1>8. AloneSaves'
    <2>1. ASSUME NEW v \in Savers, work'[v].alone, work'[v].pc # "idle" PROVE v = w
      BY <1>1, <1>2, <2>1, OneSaver
    <2>2. QED
      BY <1>1, <1>2, <1>3, <1>7, <2>1 DEF AloneSaves
  <1>9. WholeFile'
    <2>1. SUFFICES ASSUME ~disturbed' PROVE WholeFile'
      BY DEF WholeFile
    <2>2. ~disturbed /\ work[w].alone
      BY <1>1, <2>1, OneSaver
    <2>3. synced[dir'.path] /\ content[dir'.path] \in since /\ dir'.path # NoInode
      BY <1>3, <1>7, <2>2
    <2>4. QED
      BY <1>1, <1>2, <2>2, <2>3 DEF SettingsInv, WholeFile
  <1>10. QED
    BY <1>4, <1>5, <1>6, <1>8, <1>9 DEF SettingsInv

LEMMA SyncDirKeeps ==
    ASSUME SettingsInv, NEW w \in Savers, SyncDir(w)
    PROVE  SettingsInv'
  <1> USE SettingsNames
  <1>1. /\ work[w].pc = "syncdir" /\ work[w].pc \in Saving /\ work[w].pc # "idle" /\ Continue(w, "publish")
        /\ UNCHANGED <<phase, mem, eth, dir, synced, strayed, stranded>>
        /\ dir \in dirs
    BY SettingsFields DEF SyncDir, Saving, SettingsInv
  <1>2. /\ work' \in [Threads -> Jobs] /\ \A o \in Threads \ {w} : work'[o] = work[o]
        /\ work'[w].pc = "publish" /\ work'[w].fd = work[w].fd /\ work'[w].want = work[w].want
        /\ work'[w].applied = work[w].applied /\ work'[w].alone = work[w].alone
    BY <1>1, ContinueMoves DEF Becomes, Pcs, Saving, SettingsInv
  <1>3. \/ dirs' = {dir} /\ \A i \in {dir.path, dir.tmp} \cap Inodes : content'[i] = content[i]
        \/ dirs' = dirs /\ content' = content
    BY SettingsFields DEF SyncDir, Swept, SettingsInv
  <1>4. \/ /\ dirs' = {dir} /\ work[w].alone
           /\ kept' = work[w].want /\ since' = {} /\ disturbed' = FALSE
        \/ /\ dirs' = {dir} /\ ~work[w].alone /\ UNCHANGED <<kept, since, disturbed>>
        \/ dirs' = dirs /\ content' = content /\ UNCHANGED <<kept, since, disturbed>>
    BY DEF SyncDir
  <1>5. /\ dirs' \subseteq dirs /\ dir \in dirs' /\ work[w].want \in Docs /\ work[w].fd \in Inodes
        /\ content' \in [Inodes -> Docs \cup {Empty, Torn}]
    <2>1. dirs' \subseteq dirs /\ dir \in dirs' /\ work[w].want \in Docs
      BY <1>1, <1>4, SettingsFields DEF SettingsInv
    <2>2. work[w].fd \in Inodes
      BY <1>1 DEF SettingsInv, Wants, Saving
    <2>3. content' \in [Inodes -> Docs \cup {Empty, Torn}]
      BY SettingsFields DEF SyncDir, Swept, SettingsInv
    <2>4. QED
      BY <2>1, <2>2, <2>3
  <1>6. SettingsTypeOK'
    <2>1. dirs' \subseteq Names /\ dir' \in dirs'
      BY <1>1, <1>5, SettingsFields DEF SettingsInv
    <2>2. kept' \in Docs \cup {NoDoc} /\ since' \subseteq Docs /\ disturbed' \in BOOLEAN
      BY <1>4, <1>5, SettingsFields DEF SettingsInv
    <2>3. QED
      BY <1>1, <1>2, <1>5, <2>1, <2>2 DEF SettingsInv, SettingsTypeOK, Jobs, Pcs, Names
  <1>7. Phases' /\ AloneIsAlone' /\ Wants' /\ LinkUp' /\ MacApplied'
    <2>1. disturbed' = disturbed \/ (disturbed' = FALSE /\ work[w].alone)
      BY <1>4
    <2>2. QED
      BY <1>1, <1>2, <1>5, <2>1, SavingKeepsRest DEF Saving
  <1>8. NameFree'
    BY <1>1, <1>5 DEF SettingsInv, NameFree
  <1>9. work[w].alone => /\ dir.path = work[w].fd /\ content'[work[w].fd] = work[w].want
                         /\ synced[work[w].fd]
    <2>1. work[w].alone => /\ dir.path = work[w].fd /\ content[work[w].fd] = work[w].want
                           /\ synced[work[w].fd]
      BY <1>1 DEF SettingsInv, AloneSaves
    <2>2. QED
      BY <1>3, <1>5, <2>1
  <1>10. AloneSaves'
    <2>1. ASSUME NEW v \in Savers, work'[v].alone, work'[v].pc # "idle" PROVE v = w
      BY <1>1, <1>2, <2>1, OneSaver
    <2>2. QED
      BY <1>1, <1>2, <1>9, <2>1 DEF AloneSaves
  <1>11. WholeFile'
    <2>1. phase = "serving"
      BY <1>1, SaverAtWork
    <2>2. CASE work[w].alone /\ dirs' = {dir} /\ kept' = work[w].want
      BY <1>1, <1>2, <1>5, <1>9, <2>1, <2>2 DEF WholeFile
    <2>3. CASE ~work[w].alone
      <3>1. disturbed' = disturbed /\ disturbed
        BY <1>1, <1>4, <2>3, OneSaver
      <3>2. QED
        BY <3>1 DEF WholeFile
    <2>4. CASE dirs' = dirs /\ content' = content /\ UNCHANGED <<kept, since, disturbed>>
      BY <1>1, <1>2, <2>1, <2>4 DEF SettingsInv, WholeFile
    <2>5. QED
      BY <1>4, <2>2, <2>3, <2>4
  <1>12. QED
    BY <1>6, <1>7, <1>8, <1>10, <1>11 DEF SettingsInv

\* The last step of an operation.
LEMMA SaverReturns ==
    ASSUME SettingsInv, NEW w \in Savers, work[w].pc \in Saving, Return(w)
    PROVE  /\ work[w].pc # "idle" /\ w # Main /\ phase = "serving" /\ phase' = phase
           /\ work' \in [Threads -> Jobs] /\ work'[w].pc = "idle"
           /\ \A o \in Threads \ {w} : work'[o] = work[o]
           /\ \A o \in Savers : work'[o].pc # "idle" => o # w /\ ~work'[o].alone
           /\ AloneSaves'
  <1> USE SettingsNames
  <1>1. work[w].pc # "idle" /\ w # Main /\ phase = "serving"
    BY SaverAtWork DEF Saving
  <1>2. /\ phase' = phase /\ work' \in [Threads -> Jobs] /\ work'[w].pc = "idle"
        /\ \A o \in Threads \ {w} : work'[o] = work[o]
    BY <1>1, ReturnMoves DEF SettingsInv, Becomes
  <1>3. \A o \in Savers : work'[o].pc # "idle" => o # w /\ ~work'[o].alone
    BY <1>1, <1>2, OneSaver
  <1>4. AloneSaves'
    BY <1>3 DEF AloneSaves
  <1>5. QED
    BY <1>1, <1>2, <1>3, <1>4

LEMMA PublishKeeps ==
    ASSUME SettingsInv, NEW w \in Savers, Publish(w)
    PROVE  SettingsInv'
  <1> USE SettingsNames
  <1>1. PICK settled \in BOOLEAN : settled = (work[w].alone /\ work[w].applied)
    OBVIOUS
  <1>2. /\ work[w].pc = "publish" /\ work[w].pc \in Saving /\ Return(w) /\ mem' = work[w].want
        /\ strayed' = (strayed /\ ~settled) /\ stranded' = (stranded /\ ~settled)
        /\ UNCHANGED <<eth, fileVars, kept, since, disturbed>>
    BY <1>1 DEF Publish, Saving
  <1>3. /\ work[w].pc # "idle" /\ w # Main /\ phase = "serving" /\ phase' = phase
        /\ work' \in [Threads -> Jobs] /\ work'[w].pc = "idle"
        /\ \A o \in Threads \ {w} : work'[o] = work[o]
        /\ \A o \in Savers : work'[o].pc # "idle" => o # w /\ ~work'[o].alone
        /\ AloneSaves'
    BY <1>2, SaverReturns
  <1>4. /\ work[w].want \in Docs /\ work[w].alone \in BOOLEAN /\ work[w].applied \in BOOLEAN
        /\ strayed \in BOOLEAN /\ stranded \in BOOLEAN
    BY SettingsFields DEF SettingsInv
  <1>5. work[w].alone => \A o \in Savers \ {w} : work[o].pc = "idle"
    BY <1>3, SaverAtWork
  <1>6. work[Main].pc = "idle" /\ work'[Main].pc = "idle"
    BY <1>3, SaverAtWork
  <1>7. SettingsTypeOK'
    <2>1. strayed' \in BOOLEAN /\ stranded' \in BOOLEAN
      BY <1>2
    <2>2. QED
      BY <1>2, <1>3, <1>4, <2>1 DEF SettingsInv, SettingsTypeOK, Jobs, Pcs, fileVars
  <1>8. Phases' /\ NameFree'
    BY <1>2, <1>3, <1>6 DEF Phases, Busy, SettingsInv, NameFree, fileVars, Saving
  <1>9. AloneIsAlone'
    <2>1. \A t \in Threads : work'[t].pc = "recover" => strayed'
      <3>1. TAKE t \in Threads
      <3>2. HAVE work'[t].pc = "recover"
      <3>3. work[t].pc = "recover" /\ t # w /\ t \in Savers
        BY <1>3, <1>6, <3>1, <3>2
      <3>4. strayed /\ ~settled
        BY <1>1, <1>5, <3>3 DEF SettingsInv, AloneIsAlone
      <3>5. QED
        BY <1>2, <3>4
    <2>2. \A v \in Savers : work'[v].pc # "idle" => disturbed' /\ strayed'
      <3>1. TAKE v \in Savers
      <3>2. HAVE work'[v].pc # "idle"
      <3>3. work[v].pc # "idle" /\ v # w /\ ~work[v].alone
        BY <1>3, <3>1, <3>2
      <3>4. disturbed /\ strayed
        BY <3>3 DEF SettingsInv, AloneIsAlone, Busy
      <3>5. ~settled
        BY <1>1, <1>5, <3>3
      <3>6. QED
        BY <1>2, <3>4, <3>5
    <2>3. QED
      BY <1>3, <2>1, <2>2 DEF AloneIsAlone, Busy
  <1>10. Wants'
    BY <1>3 DEF SettingsInv, Wants, Applying, Saving
  <1>11. WholeFile'
    <2>1. SUFFICES ASSUME ~disturbed' PROVE WholeFile'
      BY DEF WholeFile
    <2>2. ~disturbed /\ work[w].alone
      BY <1>2, <1>3, <2>1, OneSaver
    <2>3. dir.path = work[w].fd /\ content[work[w].fd] = work[w].want /\ work[w].fd \in Inodes
      BY <1>2, <2>2 DEF SettingsInv, AloneSaves, Wants, Saving
    <2>4. File' = mem'
      BY <1>2, <2>3 DEF File, fileVars
    <2>5. QED
      BY <1>2, <1>3, <2>2, <2>4 DEF SettingsInv, WholeFile, fileVars
  <1>12. LinkUp'
    <2>1. settled => eth.up
      BY <1>1, <1>2 DEF SettingsInv, LinkUp
    <2>2. stranded' \/ eth'.up \/ \E t \in Threads : work'[t].pc \in {"address", "up", "recover"}
      <3>1. CASE settled
        BY <1>2, <2>1, <3>1
      <3>2. CASE ~settled
        BY <1>2, <1>3, <3>2 DEF SettingsInv, LinkUp
      <3>3. QED
        BY <3>1, <3>2
    <2>3. QED
      BY <1>3, <1>6, <2>2 DEF LinkUp, Saving
  <1>13. MacApplied'
    <2>1. \A v \in Savers : ~(work'[v].alone /\ work'[v].pc # "idle")
      BY <1>3
    <2>2. ASSUME ~strayed', mem'.mac # NoMac
          PROVE  eth'.mac = mem'.mac \/ \E v \in Savers : work'[v].pc # "idle" /\ work'[v].applied
      <3>1. CASE settled
        <4>1. eth.mac = work[w].want.mac
          BY <1>1, <1>2, <1>3, <3>1 DEF SettingsInv, MacApplied, Busy
        <4>2. QED
          BY <1>2, <4>1
      <3>2. CASE ~settled
        <4>1. ~strayed
          BY <1>2, <2>2, <3>2
        <4>2. work[w].alone /\ ~work[w].applied
          BY <1>1, <1>3, <3>2, <4>1 DEF SettingsInv, AloneIsAlone, Busy
        <4>3. work[w].want.mac = mem.mac
          BY <1>2, <1>3, <2>2, <4>2 DEF SettingsInv, MacApplied, Busy
        <4>4. eth.mac = mem.mac \/ \E v \in Savers : work[v].pc # "idle" /\ work[v].applied
          BY <1>2, <1>3, <2>2, <4>1, <4>3 DEF SettingsInv, MacApplied, Busy
        <4>5. QED
          BY <1>2, <1>3, <4>2, <4>3, <4>4
      <3>3. QED
        BY <3>1, <3>2
    <2>3. QED
      BY <2>1, <2>2 DEF MacApplied, Busy
  <1>14. QED
    BY <1>3, <1>7, <1>8, <1>9, <1>10, <1>11, <1>12, <1>13 DEF SettingsInv

LEMMA SaveFailsKeeps ==
    ASSUME SettingsInv, NEW w \in Savers, SaveFails(w)
    PROVE  SettingsInv'
  <1> USE SettingsNames
  <1>1. /\ work[w].pc \in {"open", "write", "fsync", "rename"} /\ work[w].pc \in Saving /\ Return(w)
        /\ dir' = [dir EXCEPT !.tmp = NoInode] /\ dirs' = dirs \cup {dir'} /\ strayed' = (strayed \/ work[w].applied)
        /\ UNCHANGED <<mem, eth, content, synced, kept, since, disturbed, stranded>>
    BY DEF SaveFails, Moved, Saving
  <1>2. /\ work[w].pc # "idle" /\ w # Main /\ phase = "serving" /\ phase' = phase
        /\ work' \in [Threads -> Jobs] /\ work'[w].pc = "idle"
        /\ \A o \in Threads \ {w} : work'[o] = work[o]
        /\ \A o \in Savers : work'[o].pc # "idle" => o # w /\ ~work'[o].alone
        /\ AloneSaves'
    BY <1>1, SaverReturns
  <1>3. /\ dir \in dirs /\ dir \in Names /\ dir' \in Names /\ dir'.path = dir.path /\ dir'.tmp = NoInode
        /\ work[w].applied \in BOOLEAN /\ strayed \in BOOLEAN
    <2>1. dir \in dirs /\ dir \in Names /\ work[w].applied \in BOOLEAN /\ strayed \in BOOLEAN
      BY SettingsFields DEF SettingsInv
    <2>2. QED
      BY <1>1, <2>1 DEF Names
  <1>4. work[Main].pc = "idle" /\ work'[Main].pc = "idle"
    BY <1>2, SaverAtWork
  <1>5. SettingsTypeOK'
    <2>1. dirs' \subseteq Names /\ dir' \in dirs' /\ strayed' \in BOOLEAN
      BY <1>1, <1>3, SettingsFields DEF SettingsInv
    <2>2. QED
      BY <1>1, <1>2, <2>1 DEF SettingsInv, SettingsTypeOK, Jobs, Pcs, Names
  <1>6. Phases' /\ NameFree'
    <2>1. Phases'
      BY <1>2, <1>4 DEF Phases, Busy, Saving
    <2>2. NameFree'
      BY <1>1, <1>3 DEF SettingsInv, NameFree
    <2>3. QED
      BY <2>1, <2>2
  <1>7. AloneIsAlone'
    <2>1. \A t \in Threads : work'[t].pc = "recover" => strayed'
      BY <1>1, <1>2 DEF SettingsInv, AloneIsAlone
    <2>2. \A v \in Savers : work'[v].pc # "idle" => disturbed' /\ strayed'
      <3>1. TAKE v \in Savers
      <3>2. HAVE work'[v].pc # "idle"
      <3>3. work[v].pc # "idle" /\ v # w /\ ~work[v].alone
        BY <1>2, <3>1, <3>2
      <3>4. disturbed /\ strayed
        BY <3>3 DEF SettingsInv, AloneIsAlone, Busy
      <3>5. QED
        BY <1>1, <3>4
    <2>3. QED
      BY <1>2, <2>1, <2>2 DEF AloneIsAlone, Busy
  <1>8. Wants'
    BY <1>2 DEF SettingsInv, Wants, Applying, Saving
  <1>9. WholeFile'
    <2>1. File' = File
      BY <1>1, <1>3 DEF File
    <2>2. QED
      BY <1>1, <1>2, <1>3, <2>1 DEF SettingsInv, WholeFile
  <1>10. LinkUp'
    <2>1. stranded' \/ eth'.up \/ \E t \in Threads : work'[t].pc \in {"address", "up", "recover"}
      BY <1>1, <1>2 DEF SettingsInv, LinkUp
    <2>2. QED
      BY <1>2, <1>4, <2>1 DEF LinkUp, Saving
  <1>11. MacApplied'
    <2>1. \A v \in Savers : ~(work'[v].alone /\ work'[v].pc # "idle")
      BY <1>2
    <2>2. ASSUME ~strayed', mem'.mac # NoMac
          PROVE  eth'.mac = mem'.mac \/ \E v \in Savers : work'[v].pc # "idle" /\ work'[v].applied
      <3>1. ~strayed /\ ~work[w].applied
        BY <1>1, <2>2
      <3>2. eth.mac = mem.mac \/ \E v \in Savers : work[v].pc # "idle" /\ work[v].applied
        BY <1>1, <1>2, <2>2, <3>1 DEF SettingsInv, MacApplied, Busy
      <3>3. QED
        BY <1>1, <1>2, <3>1, <3>2
    <2>3. QED
      BY <2>1, <2>2 DEF MacApplied, Busy
  <1>12. QED
    BY <1>2, <1>5, <1>6, <1>7, <1>8, <1>9, <1>10, <1>11 DEF SettingsInv

-----------------------------------------------------------------------------

(* Whatever fails, dies or loses power, and however operations overlap, the *)
(* settings file is whole unless two overlapped since the last that did     *)
(* not, the interface is left up unless a recovery failed, and it has the   *)
(* MAC that is persisted unless it strayed                                  *)
(* (atomicfile.go:1-6, settings.go:82-96, applymac.go:64-120).              *)
THEOREM SettingsAreSound == SettingsSpec => []SettingsSound
  <1> USE SettingsNames
  <1>1. SettingsInit => SettingsInv
    BY SettingsStart
  <1>2. SettingsInv /\ [SettingsNext]_settingsVars => SettingsInv'
    <2> SUFFICES ASSUME SettingsInv, [SettingsNext]_settingsVars PROVE SettingsInv'
      OBVIOUS
    <2>1. CASE OpenSettings \/ OpenRefuses \/ Killed \/ PowerCut
      BY <2>1, OpenSettingsKeeps, OpenRefusesKeeps, KilledKeeps, PowerCutKeeps
    <2>2. CASE \E h \in Handlers, m \in Macs \cup {NoMac} : Handle(h, [mem EXCEPT !.mac = m])
      BY <2>2, HandleKeeps
    <2>3. CASE \E net \in Parameters : PairingPersist(net)
      BY <2>3, PersistKeeps
    <2>4. ASSUME NEW w \in Savers,
                 \/ OpenTmp(w) \/ WriteDoc(w) \/ Fsync(w) \/ Rename(w) \/ SyncDir(w) \/ Publish(w) \/ SaveFails(w)
          PROVE  SettingsInv'
      BY <2>4, OpenTmpKeeps, WriteDocKeeps, FsyncKeeps, RenameKeeps, SyncDirKeeps, PublishKeeps, SaveFailsKeeps
    <2>5. ASSUME NEW t \in Threads,
                 RunStep(t) \/ RunStepFails(t) \/ VerifyMAC(t) \/ VerifyFails(t) \/ UpRecovery(t)
          PROVE  SettingsInv'
      BY <2>5, RunStepKeeps, RecoveryKeeps, VerifyKeeps, UpRecoveryKeeps
    <2>6. CASE UNCHANGED settingsVars
      BY <2>6 DEF settingsVars, fileVars, SettingsInv, SettingsTypeOK, Phases, AloneIsAlone, Wants, NameFree,
           AloneSaves, WholeFile, LinkUp, MacApplied, Busy, File
    <2>7. QED
      BY <2>1, <2>2, <2>3, <2>4, <2>5, <2>6 DEF SettingsNext
  <1>3. SettingsInv => SettingsSound
    BY SettingsSoundFollows
  <1>4. QED
    BY <1>1, <1>2, <1>3, PTL DEF SettingsSpec

-----------------------------------------------------------------------------
(* Registers of a layout (SunSpecBank).                                    *)

\* Widths in front of the k-th field.
Offset(layout, k) == Sum([i \in DOMAIN layout |-> IF i < k THEN layout[i][2] ELSE 0], DOMAIN layout)

Layout(layout, n) ==
    /\ n \in Nat \ {0} /\ DOMAIN layout = 1 .. n /\ Len(layout) = n
    /\ \A i \in 1 .. n : layout[i][2] \in Nat

\* Setting one number of a sum that was 0 adds that number.
LEMMA OneMore ==
    ASSUME NEW S, IsFiniteSet(S), NEW f \in [S -> Nat], NEW h \in [S -> Nat], NEW k \in S,
           f[k] = 0, \A j \in S \ {k} : h[j] = f[j]
    PROVE  Sum(f, S) \in Nat /\ Sum(h, S) = Sum(f, S) + h[k]
  <1>1. f \in [S -> Int] /\ h \in [S -> Int]
    OBVIOUS
  <1>2. Sum(h, S) = Sum(f, S) + h[k] - f[k]
    BY <1>1, SumChange
  <1>3. Sum(f, S) \in Nat
    BY SumNat
  <1>4. h[k] \in Nat
    OBVIOUS
  <1>5. PICK a, b : a = Sum(f, S) /\ b = h[k]
    OBVIOUS
  <1>6. QED
    BY <1>2, <1>3, <1>4, <1>5

\* The k-th field starts where the one in front of it ends.
LEMMA OffsetGrows ==
    ASSUME NEW layout, NEW n, Layout(layout, n)
    PROVE  /\ Offset(layout, 1) = 0
           /\ \A k \in 1 .. n : Offset(layout, k) \in Nat
                                /\ Offset(layout, k + 1) = Offset(layout, k) + layout[k][2]
  <1>1. IsFiniteSet(1 .. n) /\ DOMAIN layout = 1 .. n /\ \A i \in 1 .. n : layout[i][2] \in Nat
    BY FS_Interval DEF Layout
  <1>2. Offset(layout, 1) = 0
    <2>1. [i \in 1 .. n |-> IF i < 1 THEN layout[i][2] ELSE 0] = [i \in 1 .. n |-> 0]
      BY <1>1
    <2>2. QED
      BY <1>1, <2>1, SumZero DEF Offset
  <1>3. ASSUME NEW k \in 1 .. n
        PROVE  Offset(layout, k) \in Nat /\ Offset(layout, k + 1) = Offset(layout, k) + layout[k][2]
    <2>1. PICK f, h : /\ f = [i \in 1 .. n |-> IF i < k THEN layout[i][2] ELSE 0]
                      /\ h = [i \in 1 .. n |-> IF i < k + 1 THEN layout[i][2] ELSE 0]
      OBVIOUS
    <2>2. f \in [1 .. n -> Nat] /\ h \in [1 .. n -> Nat]
      BY <1>1, <2>1
    <2>3. f[k] = 0 /\ h[k] = layout[k][2] /\ \A j \in 1 .. n \ {k} : h[j] = f[j]
      BY <1>1, <2>1
    <2>4. Sum(f, 1 .. n) \in Nat /\ Sum(h, 1 .. n) = Sum(f, 1 .. n) + h[k]
      BY <1>1, <2>2, <2>3, OneMore
    <2>5. Offset(layout, k) = Sum(f, 1 .. n) /\ Offset(layout, k + 1) = Sum(h, 1 .. n)
      BY <1>1, <2>1 DEF Offset
    <2>6. QED
      BY <2>3, <2>4, <2>5
  <1>4. QED
    BY <1>2, <1>3

\* The k-th field is the first of its name and starts at a register.
FieldAt(layout, n, k, name, from, to) ==
    /\ Layout(layout, n) /\ k \in 1 .. n /\ layout[k][1] = name
    /\ \A j \in 1 .. n : j < k => layout[j][1] # name
    /\ Offset(layout, k) = from /\ to = from + layout[k][2] - 1

\* Registers finds a field by its name and by the widths in front of it.
LEMMA RegistersAt ==
    ASSUME NEW layout, NEW n, NEW k, NEW name, NEW from, NEW to, FieldAt(layout, n, k, name, from, to)
    PROVE  Registers(layout, name) = from .. to
  <1>1. n \in Nat /\ DOMAIN layout = 1 .. n /\ Len(layout) = n /\ k \in 1 .. n
    BY DEF Layout, FieldAt
  <1> DEFINE to2 == Offset(layout, k) + layout[k][2] - 1
  <1>0. Offset(layout, k) = from /\ to2 = to
    BY DEF FieldAt
  <1> HIDE DEF to2
  <1>2. PICK I : I = {i \in 1 .. Len(layout) : layout[i][1] = name}
    OBVIOUS
  <1>3. k \in I /\ I \subseteq 1 .. n /\ \A j \in I : k <= j
    BY <1>1, <1>2 DEF FieldAt
  <1>4. Min(I) = k
    <2>1. \A x \in I : (\A y \in I : x =< y) => x = k
      BY <1>1, <1>3
    <2>2. k \in I /\ \A y \in I : k =< y
      BY <1>3
    <2>3. QED
      BY <2>1, <2>2, Zenon DEF Min
  <1>5. SelectInSeq(layout, LAMBDA f : f[1] = name) = k
    BY <1>2, <1>3, <1>4 DEF SelectInSeq
  <1>6. Offset(layout, k) = Total([i \in DOMAIN layout |-> IF i < k THEN layout[i][2] ELSE 0], LAMBDA w : w)
    BY DEF Offset, Sum, Total
  <1>7. Registers(layout, name) = Offset(layout, k) .. to2
    BY <1>5, <1>6 DEF Registers, to2
  <1>8. QED
    BY <1>0, <1>7

\* Model 123 as EmitControls lays it out.
LEMMA ControlsFields ==
    /\ Registers(ControlsLayout, "Conn") = 2 .. 2 /\ Registers(ControlsLayout, "WMaxLimPct") = 3 .. 3
    /\ Registers(ControlsLayout, "Ena") = 7 .. 7
  <1> DEFINE L == ControlsLayout
             at(k) == Offset(L, k)
  <1>1. L[2][1] = "Conn" /\ L[3][1] = "WMaxLimPct" /\ L[5][1] = "RvrtTms" /\ L[7][1] = "Ena"
    BY DEF ControlsLayout
  <1>2. L[1][1] = "" /\ L[4][1] = "" /\ L[6][1] = ""
    BY DEF ControlsLayout
  <1>3. L[1][2] = 2 /\ L[2][2] = 1 /\ L[3][2] = 1 /\ L[4][2] = 1 /\ L[5][2] = 1 /\ L[6][2] = 1 /\ L[7][2] = 1
    BY DEF ControlsLayout
  <1>4. L[8][2] = 13 /\ L[9][2] = 3
    BY DEF ControlsLayout
  <1>5. DOMAIN L = 1 .. 9 /\ Len(L) = 9
    BY DEF ControlsLayout
  <1> HIDE DEF L
  <1>6. Layout(L, 9)
    <2>1. \A j \in 1 .. 9 : j \in {1, 2, 3, 4, 5, 6, 7, 8, 9}
      OBVIOUS
    <2>2. \A i \in 1 .. 9 : L[i][2] \in Nat
      BY <1>3, <1>4, <2>1
    <2>3. QED
      BY <1>5, <2>2 DEF Layout
  <1>7. at(1) = 0 /\ \A k \in 1 .. 9 : at(k) \in Nat /\ at(k + 1) = at(k) + L[k][2]
    BY <1>6, OffsetGrows
  <1> HIDE DEF at
  <1>8. at(2) = 2 /\ at(3) = 3 /\ at(4) = 4 /\ at(5) = 5 /\ at(6) = 6
    BY <1>3, <1>4, <1>7
  <1>9. at(7) = 7
    BY <1>3, <1>4, <1>7, <1>8
  <1>10. FieldAt(L, 9, 2, "Conn", 2, 2)
    <2>1. \A j \in 1 .. 9 : j < 2 => j \in {1}
      OBVIOUS
    <2>2. \A j \in 1 .. 9 : j < 2 => L[j][1] # "Conn"
      BY <1>1, <1>2, <2>1
    <2>3. Offset(L, 2) = 2 /\ 2 = 2 + L[2][2] - 1
      BY <1>3, <1>4, <1>8 DEF at
    <2>4. L[2][1] = "Conn" /\ 2 \in 1 .. 9
      BY <1>1
    <2>5. QED
      BY ONLY <1>6, <2>2, <2>3, <2>4 DEF FieldAt
  <1>11. FieldAt(L, 9, 3, "WMaxLimPct", 3, 3)
    <2>1. \A j \in 1 .. 9 : j < 3 => j \in {1, 2}
      OBVIOUS
    <2>2. \A j \in 1 .. 9 : j < 3 => L[j][1] # "WMaxLimPct"
      BY <1>1, <1>2, <2>1
    <2>3. Offset(L, 3) = 3 /\ 3 = 3 + L[3][2] - 1
      BY <1>3, <1>4, <1>8 DEF at
    <2>4. L[3][1] = "WMaxLimPct" /\ 3 \in 1 .. 9
      BY <1>1
    <2>5. QED
      BY ONLY <1>6, <2>2, <2>3, <2>4 DEF FieldAt
  <1>12. FieldAt(L, 9, 7, "Ena", 7, 7)
    <2>1. \A j \in 1 .. 9 : j < 7 => j \in {1, 2, 3, 4, 5, 6}
      OBVIOUS
    <2>2. \A j \in 1 .. 9 : j < 7 => L[j][1] # "Ena"
      BY <1>1, <1>2, <2>1
    <2>3. Offset(L, 7) = 7 /\ 7 = 7 + L[7][2] - 1
      BY <1>3, <1>4, <1>9 DEF at
    <2>4. L[7][1] = "Ena" /\ 7 \in 1 .. 9
      BY <1>1
    <2>5. QED
      BY ONLY <1>6, <2>2, <2>3, <2>4 DEF FieldAt
  <1>13. QED
    BY <1>10, <1>11, <1>12, RegistersAt DEF L

\* Model 703 as EmitEnterService lays it out.
LEMMA EnterServiceFields ==
    /\ Registers(EnterServiceLayout, "ESDlyTms") = 7 .. 8
  <1> DEFINE L == EnterServiceLayout
             at(k) == Offset(L, k)
  <1>1. L[1][1] = "ES" /\ L[2][1] = "ESVHi" /\ L[3][1] = "ESVLo" /\ L[4][1] = "ESHzHi"
    BY DEF EnterServiceLayout
  <1>2. L[5][1] = "ESHzLo" /\ L[6][1] = "ESDlyTms"
    BY DEF EnterServiceLayout
  <1>3. L[1][2] = 1 /\ L[2][2] = 1 /\ L[3][2] = 1 /\ L[4][2] = 2 /\ L[5][2] = 2 /\ L[6][2] = 2 /\ L[7][2] = 6
    BY DEF EnterServiceLayout
  <1>4. L[8][2] = 2
    BY DEF EnterServiceLayout
  <1>5. DOMAIN L = 1 .. 8 /\ Len(L) = 8
    BY DEF EnterServiceLayout
  <1> HIDE DEF L
  <1>6. Layout(L, 8)
    <2>1. \A j \in 1 .. 8 : j \in {1, 2, 3, 4, 5, 6, 7, 8}
      OBVIOUS
    <2>2. \A i \in 1 .. 8 : L[i][2] \in Nat
      BY <1>3, <1>4, <2>1
    <2>3. QED
      BY <1>5, <2>2 DEF Layout
  <1>7. at(1) = 0 /\ \A k \in 1 .. 8 : at(k) \in Nat /\ at(k + 1) = at(k) + L[k][2]
    BY <1>6, OffsetGrows
  <1> HIDE DEF at
  <1>8. at(2) = 1 /\ at(3) = 2 /\ at(4) = 3 /\ at(5) = 5 /\ at(6) = 7
    BY <1>3, <1>4, <1>7
  <1>9. FieldAt(L, 8, 6, "ESDlyTms", 7, 8)
    <2>1. \A j \in 1 .. 8 : j < 6 => j \in {1, 2, 3, 4, 5}
      OBVIOUS
    <2>2. \A j \in 1 .. 8 : j < 6 => L[j][1] # "ESDlyTms"
      BY <1>1, <1>2, <2>1
    <2>3. Offset(L, 6) = 7 /\ 8 = 7 + L[6][2] - 1
      BY <1>3, <1>4, <1>8 DEF at
    <2>4. L[6][1] = "ESDlyTms" /\ 6 \in 1 .. 8
      BY <1>2
    <2>5. QED
      BY ONLY <1>6, <2>2, <2>3, <2>4 DEF FieldAt
  <1>10. QED
    BY <1>9, RegistersAt DEF L

\* Model 711 as EmitFreqDroop lays it out.
LEMMA FreqDroopFields ==
    /\ Registers(FreqDroopLayout, "Ena") = 0 .. 0 /\ Registers(FreqDroopLayout, "AdptCtlReq") = 1 .. 1
    /\ Registers(FreqDroopLayout, "DbOf") = 12 .. 13 /\ Registers(FreqDroopLayout, "KOf") = 16 .. 16
    /\ Registers(FreqDroopLayout, "RspTms") = 18 .. 19
  <1> DEFINE L == FreqDroopLayout
             at(k) == Offset(L, k)
  <1>1. L[1][1] = "Ena" /\ L[2][1] = "AdptCtlReq" /\ L[3][1] = "AdptCtlRslt" /\ L[4][1] = "NCtl"
    BY DEF FreqDroopLayout
  <1>2. L[9][1] = "DbOf" /\ L[10][1] = "DbUf" /\ L[11][1] = "KOf" /\ L[12][1] = "KUf"
    BY DEF FreqDroopLayout
  <1>3. L[13][1] = "RspTms"
    BY DEF FreqDroopLayout
  <1>4. L[5][1] = "" /\ L[6][1] = "" /\ L[7][1] = "" /\ L[8][1] = ""
    BY DEF FreqDroopLayout
  <1>5. L[1][2] = 1 /\ L[2][2] = 1 /\ L[3][2] = 1 /\ L[4][2] = 1 /\ L[5][2] = 2 /\ L[6][2] = 2 /\ L[7][2] = 1
    BY DEF FreqDroopLayout
  <1>6. L[8][2] = 3 /\ L[9][2] = 2 /\ L[10][2] = 2 /\ L[11][2] = 1 /\ L[12][2] = 1 /\ L[13][2] = 2 /\ L[14][2] = 1
    BY DEF FreqDroopLayout
  <1>7. L[15][2] = 1
    BY DEF FreqDroopLayout
  <1>8. DOMAIN L = 1 .. 15 /\ Len(L) = 15
    BY DEF FreqDroopLayout
  <1> HIDE DEF L
  <1>9. Layout(L, 15)
    <2>1. \A j \in 1 .. 15 : j \in {1, 2, 3, 4, 5, 6, 7, 8, 9, 10, 11, 12, 13, 14, 15}
      OBVIOUS
    <2>2. \A i \in 1 .. 15 : L[i][2] \in Nat
      BY <1>5, <1>6, <1>7, <2>1
    <2>3. QED
      BY <1>8, <2>2 DEF Layout
  <1>10. at(1) = 0 /\ \A k \in 1 .. 15 : at(k) \in Nat /\ at(k + 1) = at(k) + L[k][2]
    BY <1>9, OffsetGrows
  <1> HIDE DEF at
  <1>11. at(2) = 1 /\ at(3) = 2 /\ at(4) = 3 /\ at(5) = 4 /\ at(6) = 6
    BY <1>5, <1>6, <1>7, <1>10
  <1>12. at(7) = 8 /\ at(8) = 9 /\ at(9) = 12 /\ at(10) = 14 /\ at(11) = 16
    BY <1>5, <1>6, <1>7, <1>10, <1>11
  <1>13. at(12) = 17 /\ at(13) = 18
    BY <1>5, <1>6, <1>7, <1>10, <1>12
  <1>14. FieldAt(L, 15, 1, "Ena", 0, 0)
    <2>2. \A j \in 1 .. 15 : j < 1 => L[j][1] # "Ena"
      OBVIOUS
    <2>3. Offset(L, 1) = 0 /\ 0 = 0 + L[1][2] - 1
      BY <1>5, <1>6, <1>7, <1>10 DEF at
    <2>4. L[1][1] = "Ena" /\ 1 \in 1 .. 15
      BY <1>1
    <2>5. QED
      BY ONLY <1>9, <2>2, <2>3, <2>4 DEF FieldAt
  <1>15. FieldAt(L, 15, 2, "AdptCtlReq", 1, 1)
    <2>1. \A j \in 1 .. 15 : j < 2 => j \in {1}
      OBVIOUS
    <2>2. \A j \in 1 .. 15 : j < 2 => L[j][1] # "AdptCtlReq"
      BY <1>1, <1>2, <1>3, <1>4, <2>1
    <2>3. Offset(L, 2) = 1 /\ 1 = 1 + L[2][2] - 1
      BY <1>5, <1>6, <1>7, <1>11 DEF at
    <2>4. L[2][1] = "AdptCtlReq" /\ 2 \in 1 .. 15
      BY <1>1
    <2>5. QED
      BY ONLY <1>9, <2>2, <2>3, <2>4 DEF FieldAt
  <1>16. FieldAt(L, 15, 9, "DbOf", 12, 13)
    <2>1. \A j \in 1 .. 15 : j < 9 => j \in {1, 2, 3, 4, 5, 6, 7, 8}
      OBVIOUS
    <2>2. \A j \in 1 .. 15 : j < 9 => L[j][1] # "DbOf"
      BY <1>1, <1>2, <1>3, <1>4, <2>1
    <2>3. Offset(L, 9) = 12 /\ 13 = 12 + L[9][2] - 1
      BY <1>5, <1>6, <1>7, <1>12 DEF at
    <2>4. L[9][1] = "DbOf" /\ 9 \in 1 .. 15
      BY <1>2
    <2>5. QED
      BY ONLY <1>9, <2>2, <2>3, <2>4 DEF FieldAt
  <1>17. FieldAt(L, 15, 11, "KOf", 16, 16)
    <2>1. \A j \in 1 .. 15 : j < 11 => j \in {1, 2, 3, 4, 5, 6, 7, 8, 9, 10}
      OBVIOUS
    <2>2. \A j \in 1 .. 15 : j < 11 => L[j][1] # "KOf"
      BY <1>1, <1>2, <1>3, <1>4, <2>1
    <2>3. Offset(L, 11) = 16 /\ 16 = 16 + L[11][2] - 1
      BY <1>5, <1>6, <1>7, <1>12 DEF at
    <2>4. L[11][1] = "KOf" /\ 11 \in 1 .. 15
      BY <1>2
    <2>5. QED
      BY ONLY <1>9, <2>2, <2>3, <2>4 DEF FieldAt
  <1>18. FieldAt(L, 15, 13, "RspTms", 18, 19)
    <2>1. \A j \in 1 .. 15 : j < 13 => j \in {1, 2, 3, 4, 5, 6, 7, 8, 9, 10, 11, 12}
      OBVIOUS
    <2>2. \A j \in 1 .. 15 : j < 13 => L[j][1] # "RspTms"
      BY <1>1, <1>2, <1>3, <1>4, <2>1
    <2>3. Offset(L, 13) = 18 /\ 19 = 18 + L[13][2] - 1
      BY <1>5, <1>6, <1>7, <1>13 DEF at
    <2>4. L[13][1] = "RspTms" /\ 13 \in 1 .. 15
      BY <1>3
    <2>5. QED
      BY ONLY <1>9, <2>2, <2>3, <2>4 DEF FieldAt
  <1>19. QED
    BY <1>14, <1>15, <1>16, <1>17, <1>18, RegistersAt DEF L

\* Model 134 as EmitFreqWattCurve lays it out.
LEMMA FreqWattFields ==
    /\ Registers(FreqWattLayout, "Hz1") = 11 .. 11 /\ Registers(FreqWattLayout, "Hz2") = 13 .. 13
    /\ Registers(FreqWattLayout, "Hz3") = 15 .. 15 /\ Registers(FreqWattLayout, "Hz4") = 17 .. 17
  <1> DEFINE L == FreqWattLayout
             at(k) == Offset(L, k)
  <1>1. L[1][1] = "ActCrv" /\ L[2][1] = "ModEna" /\ L[4][1] = "NCrv" /\ L[5][1] = "NPt"
    BY DEF FreqWattLayout
  <1>2. L[7][1] = "ActPt" /\ L[8][1] = "Hz1" /\ L[9][1] = "W1" /\ L[10][1] = "Hz2"
    BY DEF FreqWattLayout
  <1>3. L[11][1] = "W2" /\ L[12][1] = "Hz3" /\ L[13][1] = "W3" /\ L[14][1] = "Hz4"
    BY DEF FreqWattLayout
  <1>4. L[3][1] = "" /\ L[6][1] = ""
    BY DEF FreqWattLayout
  <1>5. L[1][2] = 1 /\ L[2][2] = 1 /\ L[3][2] = 3 /\ L[4][2] = 1 /\ L[5][2] = 1 /\ L[6][2] = 3 /\ L[7][2] = 1
    BY DEF FreqWattLayout
  <1>6. L[8][2] = 1 /\ L[9][2] = 1 /\ L[10][2] = 1 /\ L[11][2] = 1 /\ L[12][2] = 1 /\ L[13][2] = 1 /\ L[14][2] = 1
    BY DEF FreqWattLayout
  <1>7. L[15][2] = 1 /\ L[16][2] = 32 /\ L[17][2] = 8 /\ L[18][2] = 8 /\ L[19][2] = 1
    BY DEF FreqWattLayout
  <1>8. DOMAIN L = 1 .. 19 /\ Len(L) = 19
    BY DEF FreqWattLayout
  <1> HIDE DEF L
  <1>9. Layout(L, 19)
    <2>1. \A j \in 1 .. 19 : j \in {1, 2, 3, 4, 5, 6, 7, 8, 9, 10, 11, 12, 13, 14, 15, 16, 17, 18, 19}
      OBVIOUS
    <2>2. \A i \in 1 .. 19 : L[i][2] \in Nat
      BY <1>5, <1>6, <1>7, <2>1
    <2>3. QED
      BY <1>8, <2>2 DEF Layout
  <1>10. at(1) = 0 /\ \A k \in 1 .. 19 : at(k) \in Nat /\ at(k + 1) = at(k) + L[k][2]
    BY <1>9, OffsetGrows
  <1> HIDE DEF at
  <1>11. at(2) = 1 /\ at(3) = 2 /\ at(4) = 5 /\ at(5) = 6 /\ at(6) = 7
    BY <1>5, <1>6, <1>7, <1>10
  <1>12. at(7) = 10 /\ at(8) = 11 /\ at(9) = 12 /\ at(10) = 13 /\ at(11) = 14
    BY <1>5, <1>6, <1>7, <1>10, <1>11
  <1>13. at(12) = 15 /\ at(13) = 16 /\ at(14) = 17
    BY <1>5, <1>6, <1>7, <1>10, <1>12
  <1>14. FieldAt(L, 19, 8, "Hz1", 11, 11)
    <2>1. \A j \in 1 .. 19 : j < 8 => j \in {1, 2, 3, 4, 5, 6, 7}
      OBVIOUS
    <2>2. \A j \in 1 .. 19 : j < 8 => L[j][1] # "Hz1"
      BY <1>1, <1>2, <1>3, <1>4, <2>1
    <2>3. Offset(L, 8) = 11 /\ 11 = 11 + L[8][2] - 1
      BY <1>5, <1>6, <1>7, <1>12 DEF at
    <2>4. L[8][1] = "Hz1" /\ 8 \in 1 .. 19
      BY <1>2
    <2>5. QED
      BY ONLY <1>9, <2>2, <2>3, <2>4 DEF FieldAt
  <1>15. FieldAt(L, 19, 10, "Hz2", 13, 13)
    <2>1. \A j \in 1 .. 19 : j < 10 => j \in {1, 2, 3, 4, 5, 6, 7, 8, 9}
      OBVIOUS
    <2>2. \A j \in 1 .. 19 : j < 10 => L[j][1] # "Hz2"
      BY <1>1, <1>2, <1>3, <1>4, <2>1
    <2>3. Offset(L, 10) = 13 /\ 13 = 13 + L[10][2] - 1
      BY <1>5, <1>6, <1>7, <1>12 DEF at
    <2>4. L[10][1] = "Hz2" /\ 10 \in 1 .. 19
      BY <1>2
    <2>5. QED
      BY ONLY <1>9, <2>2, <2>3, <2>4 DEF FieldAt
  <1>16. FieldAt(L, 19, 12, "Hz3", 15, 15)
    <2>1. \A j \in 1 .. 19 : j < 12 => j \in {1, 2, 3, 4, 5, 6, 7, 8, 9, 10, 11}
      OBVIOUS
    <2>2. \A j \in 1 .. 19 : j < 12 => L[j][1] # "Hz3"
      BY <1>1, <1>2, <1>3, <1>4, <2>1
    <2>3. Offset(L, 12) = 15 /\ 15 = 15 + L[12][2] - 1
      BY <1>5, <1>6, <1>7, <1>13 DEF at
    <2>4. L[12][1] = "Hz3" /\ 12 \in 1 .. 19
      BY <1>3
    <2>5. QED
      BY ONLY <1>9, <2>2, <2>3, <2>4 DEF FieldAt
  <1>17. FieldAt(L, 19, 14, "Hz4", 17, 17)
    <2>1. \A j \in 1 .. 19 : j < 14 => j \in {1, 2, 3, 4, 5, 6, 7, 8, 9, 10, 11, 12, 13}
      OBVIOUS
    <2>2. \A j \in 1 .. 19 : j < 14 => L[j][1] # "Hz4"
      BY <1>1, <1>2, <1>3, <1>4, <2>1
    <2>3. Offset(L, 14) = 17 /\ 17 = 17 + L[14][2] - 1
      BY <1>5, <1>6, <1>7, <1>13 DEF at
    <2>4. L[14][1] = "Hz4" /\ 14 \in 1 .. 19
      BY <1>3
    <2>5. QED
      BY ONLY <1>9, <2>2, <2>3, <2>4 DEF FieldAt
  <1>18. QED
    BY <1>14, <1>15, <1>16, <1>17, RegistersAt DEF L

-----------------------------------------------------------------------------
(* Where a write lands (SunSpecServer).                                    *)

\* The registers of the fields that are written.
LEMMA FieldsAre ==
    /\ Field(123, "Conn") = 2 .. 2 /\ Field(123, "WMaxLimPct") = 3 .. 3 /\ Field(123, "Ena") = 7 .. 7
    /\ Field(703, "ESDlyTms") = 7 .. 8
    /\ Field(711, "Ena") = 0 .. 0 /\ Field(711, "AdptCtlReq") = 1 .. 1 /\ Field(711, "DbOf") = 12 .. 13
    /\ Field(711, "KOf") = 16 .. 16 /\ Field(711, "RspTms") = 18 .. 19
    /\ Field(134, "Hz1") = 11 .. 11 /\ Field(134, "Hz2") = 13 .. 13
    /\ Field(134, "Hz3") = 15 .. 15 /\ Field(134, "Hz4") = 17 .. 17
  <1>1. /\ LayoutOf(123) = ControlsLayout /\ LayoutOf(703) = EnterServiceLayout
        /\ LayoutOf(711) = FreqDroopLayout /\ LayoutOf(134) = FreqWattLayout
    BY DEF LayoutOf
  <1>2. QED
    BY <1>1, ControlsFields, EnterServiceFields, FreqDroopFields, FreqWattFields DEF Field

\* The least element of a range is its first.
LEMMA MinOfRange ==
    ASSUME NEW a \in Int, NEW b \in Int, a <= b
    PROVE  Min(a .. b) = a
  <1>1. \A x \in a .. b : (\A y \in a .. b : x =< y) => x = a
    OBVIOUS
  <1>2. a \in a .. b /\ \A y \in a .. b : a =< y
    OBVIOUS
  <1>3. QED
    BY <1>1, <1>2, Zenon DEF Min

\* A set of numbers up to 4 has a least element.
LEMMA MinIsIn ==
    ASSUME NEW I \in SUBSET (1 .. 4), I # {}
    PROVE  Min(I) \in I
  <1>1. \E x \in I : \A y \in I : x =< y
    <2>1. CASE 1 \in I
      BY <2>1
    <2>2. CASE 1 \notin I /\ 2 \in I
      BY <2>2
    <2>3. CASE 1 \notin I /\ 2 \notin I /\ 3 \in I
      BY <2>3
    <2>4. CASE 1 \notin I /\ 2 \notin I /\ 3 \notin I
      <3>1. \A x \in I : x \in Int /\ x = 4
        BY <2>4
      <3>2. PICK x : x \in I
        OBVIOUS
      <3>3. QED
        BY <3>1, <3>2
    <2>5. QED
      BY <2>1, <2>2, <2>3, <2>4
  <1>2. QED
    BY <1>1, Zenon DEF Min

\* The register a write to a field starts at.
FirstReg(m, f) == Min(Field(m, f))

\* Where the fields that are written start.
LEMMA BeginsAt ==
    /\ FirstReg(123, "Conn") = 2 /\ FirstReg(123, "WMaxLimPct") = 3 /\ FirstReg(123, "Ena") = 7
    /\ FirstReg(703, "ESDlyTms") = 7
    /\ FirstReg(711, "Ena") = 0 /\ FirstReg(711, "DbOf") = 12 /\ FirstReg(711, "KOf") = 16 /\ FirstReg(711, "RspTms") = 18
    /\ FirstReg(134, "Hz1") = 11 /\ FirstReg(134, "Hz2") = 13 /\ FirstReg(134, "Hz3") = 15 /\ FirstReg(134, "Hz4") = 17
  <1>1. /\ 2 <= 2 /\ 3 <= 3 /\ 7 <= 7 /\ 7 <= 8
        /\ {2, 3, 7, 8} \subseteq Int
    OBVIOUS
  <1>2. Min(2 .. 2) = 2 /\ Min(3 .. 3) = 3 /\ Min(7 .. 7) = 7 /\ Min(7 .. 8) = 7
    BY <1>1, MinOfRange, Zenon
  <1>3. /\ FirstReg(123, "Conn") = Min(2 .. 2) /\ FirstReg(123, "WMaxLimPct") = Min(3 .. 3)
        /\ FirstReg(123, "Ena") = Min(7 .. 7) /\ FirstReg(703, "ESDlyTms") = Min(7 .. 8)
    BY FieldsAre DEF FirstReg
  <1>4. /\ 0 <= 0 /\ 12 <= 13 /\ 16 <= 16 /\ 18 <= 19
        /\ {0, 12, 13, 16, 18, 19} \subseteq Int
    OBVIOUS
  <1>5. Min(0 .. 0) = 0 /\ Min(12 .. 13) = 12 /\ Min(16 .. 16) = 16 /\ Min(18 .. 19) = 18
    BY <1>4, MinOfRange, Zenon
  <1>6. /\ FirstReg(711, "Ena") = Min(0 .. 0) /\ FirstReg(711, "DbOf") = Min(12 .. 13)
        /\ FirstReg(711, "KOf") = Min(16 .. 16) /\ FirstReg(711, "RspTms") = Min(18 .. 19)
    BY FieldsAre DEF FirstReg
  <1>7. /\ 11 <= 11 /\ 13 <= 13 /\ 15 <= 15 /\ 17 <= 17
        /\ {11, 13, 15, 17} \subseteq Int
    OBVIOUS
  <1>8. Min(11 .. 11) = 11 /\ Min(13 .. 13) = 13 /\ Min(15 .. 15) = 15 /\ Min(17 .. 17) = 17
    BY <1>7, MinOfRange, Zenon
  <1>9. /\ FirstReg(134, "Hz1") = Min(11 .. 11) /\ FirstReg(134, "Hz2") = Min(13 .. 13)
        /\ FirstReg(134, "Hz3") = Min(15 .. 15) /\ FirstReg(134, "Hz4") = Min(17 .. 17)
    BY FieldsAre DEF FirstReg
  <1>10. QED
    BY <1>2, <1>3, <1>5, <1>6, <1>8, <1>9

\* Where the models start in a bank.
LEMMA StartsAt ==
    ASSUME NEW a \in Int
    PROVE  /\ StartsFrom(a)[123] = a /\ StartsFrom(a)[703] = a + 204
           /\ StartsFrom(a)[711] = a + 223 /\ StartsFrom(a)[134] = a + 247
  <1>1. {123, 703, 711, 134} \subseteq ToSet(Writable)
    <2>1. DOMAIN Writable = 1 .. 4
      BY DEF Writable
    <2>2. Writable[1] = 123 /\ Writable[2] = 703 /\ Writable[3] = 711 /\ Writable[4] = 134
      BY DEF Writable
    <2>3. QED
      BY <2>1, <2>2 DEF ToSet
  <1>2. QED
    BY <1>1 DEF StartsFrom

\* The fields a client writes, model by model.
LEMMA FieldsWritten ==
    /\ WritableFields(123) = {"Conn", "WMaxLimPct", "Ena"} /\ WritableFields(703) = {"ESDlyTms"}
    /\ WritableFields(711) = {"Ena", "DbOf", "KOf", "RspTms"}
    /\ WritableFields(134) = {"Hz1", "Hz2", "Hz3", "Hz4"}
  BY DEF WritableFields

Models == {123, 703, 711, 134}

\* The writer of a model looks at a write that starts at this register.
Meets(m, off) ==
    /\ m = 703 => off = 7
    /\ m = 711 => off \in {0, 1, 12, 13, 16, 18, 19}
    /\ m = 134 => off \in {11, 13, 15, 17}

\* Where Model 123 starts in the two kinds of bank, and a write to field f of
\* model m, at the address of one kind, in model x of the other.
FirstStarts == {262, 294}
Lands(m, f, a, b, x, n, off) ==
    /\ off \in Int /\ n \in Nat \ {0} /\ 0 <= off /\ off + n <= BodyLen(x)
    /\ off = StartsFrom(a)[m] + 2 + FirstReg(m, f) - StartsFrom(b)[x] - 2

(* Whichever of the two kinds of bank the address was learned from and the *)
(* write is looked up in, a writer only looks at it if it is the one that  *)
(* was meant, and at the register that was meant.                          *)
LEMMA LandsWhereMeant ==
    ASSUME NEW m \in Models, NEW f \in WritableFields(m), NEW a \in FirstStarts, NEW b \in FirstStarts,
           NEW x \in Models, NEW n, NEW off, Lands(m, f, a, b, x, n, off), Meets(x, off)
    PROVE  x = m /\ off = FirstReg(m, f)
  <1>0. /\ off \in Int /\ n \in Nat \ {0} /\ 0 <= off /\ off + n <= BodyLen(x)
        /\ off = StartsFrom(a)[m] + 2 + FirstReg(m, f) - StartsFrom(b)[x] - 2
    BY DEF Lands
  <1>1. /\ BodyLen(123) = 24 /\ BodyLen(703) = 17 /\ BodyLen(711) = 22 /\ BodyLen(134) = 68
    BY DEF BodyLen
  <1>2. a \in Int /\ b \in Int
    BY DEF FirstStarts
  <1>3. /\ StartsFrom(a)[123] = a /\ StartsFrom(a)[703] = a + 204
        /\ StartsFrom(a)[711] = a + 223 /\ StartsFrom(a)[134] = a + 247
        /\ StartsFrom(b)[123] = b /\ StartsFrom(b)[703] = b + 204
        /\ StartsFrom(b)[711] = b + 223 /\ StartsFrom(b)[134] = b + 247
    BY <1>2, StartsAt
  <1>4. PICK begin, from, to : begin = FirstReg(m, f) /\ from = StartsFrom(a)[m] /\ to = StartsFrom(b)[x]
    OBVIOUS
  <1>5. /\ m = 123 => from = a /\ begin \in {2, 3, 7}
        /\ m = 703 => from = a + 204 /\ begin = 7
        /\ m = 711 => from = a + 223 /\ begin \in {0, 12, 16, 18}
        /\ m = 134 => from = a + 247 /\ begin \in {11, 13, 15, 17}
    <2>1. CASE m = 123
      BY <1>3, <1>4, <2>1, BeginsAt, FieldsWritten
    <2>2. CASE m = 703
      BY <1>3, <1>4, <2>2, BeginsAt, FieldsWritten
    <2>3. CASE m = 711
      BY <1>3, <1>4, <2>3, BeginsAt, FieldsWritten
    <2>4. CASE m = 134
      BY <1>3, <1>4, <2>4, BeginsAt, FieldsWritten
    <2>5. QED
      BY <2>1, <2>2, <2>3, <2>4 DEF Models
  <1>6. /\ x = 123 => to = b /\ BodyLen(x) = 24
        /\ x = 703 => to = b + 204 /\ BodyLen(x) = 17
        /\ x = 711 => to = b + 223 /\ BodyLen(x) = 22
        /\ x = 134 => to = b + 247 /\ BodyLen(x) = 68
    BY <1>1, <1>3, <1>4
  <1>7. off = from + 2 + begin - to - 2 /\ off + n <= BodyLen(x)
    BY <1>0, <1>4
  <1>8. x = m /\ off = begin
    <2>1. CASE m = 123
      BY ONLY <1>2, <1>5, <1>6, <1>7, <2>1, x \in Models, <1>0, a \in FirstStarts, b \in FirstStarts, Meets(x, off)
         DEF Models, Meets, FirstStarts
    <2>2. CASE m = 703
      BY ONLY <1>2, <1>5, <1>6, <1>7, <2>2, x \in Models, <1>0, a \in FirstStarts, b \in FirstStarts, Meets(x, off)
         DEF Models, Meets, FirstStarts
    <2>3. CASE m = 711
      BY ONLY <1>2, <1>5, <1>6, <1>7, <2>3, x \in Models, <1>0, a \in FirstStarts, b \in FirstStarts, Meets(x, off)
         DEF Models, Meets, FirstStarts
    <2>4. CASE m = 134
      BY ONLY <1>2, <1>5, <1>6, <1>7, <2>4, x \in Models, <1>0, a \in FirstStarts, b \in FirstStarts, Meets(x, off)
         DEF Models, Meets, FirstStarts
    <2>5. QED
      BY <2>1, <2>2, <2>3, <2>4 DEF Models
  <1>9. QED
    BY <1>4, <1>8

Words == Seq(Nat) \ {<<>>}

\* The words of a write are numbers, and there is one.
LEMMA WordsAre ==
    ASSUME NEW vals \in Words
    PROVE  /\ Len(vals) \in Nat \ {0} /\ \A i \in 1 .. Len(vals) : vals[i] \in Nat
           /\ vals[1] \in Nat /\ (Len(vals) >= 2 => Long(vals) \in Nat)
  <1>1. vals \in Seq(Nat) /\ vals # <<>>
    BY DEF Words
  <1>2. Len(vals) \in Nat \ {0}
    BY <1>1, LenProperties, EmptySeq
  <1>3. \A i \in 1 .. Len(vals) : vals[i] \in Nat
    BY <1>1, ElementOfSeq
  <1>4. vals[1] \in Nat
    BY <1>2, <1>3
  <1>5. Len(vals) >= 2 => vals[2] \in Nat
    BY <1>3
  <1>6. QED
    BY <1>2, <1>3, <1>4, <1>5 DEF Long

\* The registers FreqDroopWriter knows.
DroopKnows == UNION {Field(711, f) : f \in {"Ena", "AdptCtlReq", "DbOf", "KOf", "RspTms"}}

Spans(T, off, n) == off \in Nat /\ n \in Nat \ {0} /\ T = off .. (off + n - 1)

\* A contiguous write within the writable registers of Model 711 covers the field
\* it starts with.
LEMMA DroopRegisters ==
    ASSUME NEW off, NEW n, NEW T, Spans(T, off, n), T \subseteq DroopKnows
    PROVE  /\ off \in {0, 1, 12, 13, 16, 18, 19}
           /\ Field(711, "DbOf") \subseteq T => off = 12 /\ n >= 2
           /\ Field(711, "KOf") \subseteq T => off = 16
           /\ Field(711, "RspTms") \subseteq T => off = 18
           /\ Field(711, "Ena") \subseteq T => off = 0
  <1>0. off \in Nat /\ n \in Nat \ {0} /\ T = off .. (off + n - 1)
    BY DEF Spans
  <1>1. \A x \in T : x \in {0, 1, 12, 13, 16, 18, 19}
    <2>1. ASSUME NEW x \in T PROVE x \in {0, 1, 12, 13, 16, 18, 19}
      <3>1. PICK f \in {"Ena", "AdptCtlReq", "DbOf", "KOf", "RspTms"} : x \in Field(711, f)
        BY <2>1 DEF DroopKnows
      <3>2. x \in 0 .. 0 \/ x \in 1 .. 1 \/ x \in 12 .. 13 \/ x \in 16 .. 16 \/ x \in 18 .. 19
        BY <3>1, FieldsAre
      <3>3. QED
        BY <3>2
    <2>2. QED
      BY <2>1
  <1>2. off \in T
    BY <1>0
  <1>4. \A x \in Nat : \A y \in T : off <= x /\ x <= y => x \in T
    BY <1>0
  <1>5. 12 \in T /\ 13 \in T => off = 12 /\ n >= 2
    BY <1>0, <1>1, <1>2, <1>4
  <1>6. 16 \in T => off = 16
    BY <1>0, <1>1, <1>2, <1>4
  <1>7. 18 \in T => off = 18
    BY <1>0, <1>1, <1>2, <1>4
  <1>8. 0 \in T => off = 0
    BY <1>0
  <1>9. 12 \in Field(711, "DbOf") /\ 13 \in Field(711, "DbOf")
    BY FieldsAre
  <1>10. 16 \in Field(711, "KOf")
    BY FieldsAre
  <1>11. 18 \in Field(711, "RspTms")
    BY FieldsAre
  <1>12. 0 \in Field(711, "Ena")
    BY FieldsAre
  <1>13. QED
    BY <1>1, <1>2, <1>5, <1>6, <1>7, <1>8, <1>9, <1>10, <1>11, <1>12

\* FreqDroopWriter sets the parameter of the register a write starts at, and the
\* start of the droop only 0.5 Hz below the trip AK (freq_droop_writer.go).
LEMMA DroopWrites ==
    ASSUME NEW inv, NEW p, NEW off \in Nat, NEW vals \in Words, NEW r, r = FreqDroopWriter(inv, p, off, vals),
           r # Refused, r # NoOp
    PROVE  /\ off \in {0, 12, 16, 18}
           /\ off = 0 => \E v, w : r = Sets("CV", v, w)
           /\ off = 12 => \E v \in Int : v <= Value(p, "AK") - 50 /\ \E w : r = Sets("CA", v, w)
           /\ off = 16 => \E v, w : r = Sets("CF", v, w)
           /\ off = 18 => \E v, w : r = Sets("CG", v, w)
  <1> DEFINE T == Touched(off, vals)
             all == DroopKnows
             Cap(v) == v <= Value(p, "AK") - 50
  <1>1. Len(vals) \in Nat \ {0} /\ T = off .. (off + Len(vals) - 1)
    BY WordsAre DEF Touched
  <1>2. T \subseteq all /\ T # Field(711, "AdptCtlReq") /\ Has(p, {"AK"})
    BY DEF FreqDroopWriter, DroopKnows
  <1>3. /\ Field(711, "DbOf") \subseteq T => off = 12 /\ Len(vals) >= 2
        /\ Field(711, "KOf") \subseteq T => off = 16
        /\ Field(711, "RspTms") \subseteq T => off = 18
        /\ Field(711, "Ena") \subseteq T => off = 0
    <2>1. PICK n \in Nat \ {0} : n = Len(vals)
      BY <1>1
    <2>2. Spans(T, off, n)
      BY <1>1, <2>1 DEF Spans
    <2>3. T \subseteq DroopKnows
      BY <1>2
    <2> HIDE DEF T, all
    <2>4. /\ Field(711, "DbOf") \subseteq T => off = 12 /\ n >= 2
          /\ Field(711, "KOf") \subseteq T => off = 16
          /\ Field(711, "RspTms") \subseteq T => off = 18
          /\ Field(711, "Ena") \subseteq T => off = 0
      BY <2>2, <2>3, DroopRegisters
    <2>5. QED
      BY <2>1, <2>4
  <1>4. CASE Field(711, "DbOf") \subseteq T
    <2>1. PICK v : v = 5000 + Long(vals)
      OBVIOUS
    <2>2. PICK w : w = [DC |-> v]
      OBVIOUS
    <2>3. v \in Int
      BY <1>3, <1>4, <2>1, WordsAre
    <2>4. r = Sets("CA", v, w) /\ v <= Value(p, "AK") - 50
      BY <1>2, <1>4, <2>1, <2>2 DEF FreqDroopWriter, DroopKnows
    <2>5. QED
      BY <1>3, <1>4, <2>3, <2>4
  <1>5. CASE ~(Field(711, "DbOf") \subseteq T) /\ Field(711, "KOf") \subseteq T
    <2>1. \E v, w : r = Sets("CF", v, w)
      BY <1>2, <1>5 DEF FreqDroopWriter, DroopKnows
    <2>2. QED
      BY <1>3, <1>5, <2>1
  <1>6. CASE /\ ~(Field(711, "DbOf") \subseteq T) /\ ~(Field(711, "KOf") \subseteq T)
             /\ Field(711, "RspTms") \subseteq T
    <2>1. \E v, w : r = Sets("CG", v, w)
      BY <1>2, <1>6 DEF FreqDroopWriter, DroopKnows
    <2>2. QED
      BY <1>3, <1>6, <2>1
  <1>7. CASE /\ ~(Field(711, "DbOf") \subseteq T) /\ ~(Field(711, "KOf") \subseteq T)
             /\ ~(Field(711, "RspTms") \subseteq T)
    <2>1. Field(711, "Ena") \subseteq T /\ \E v, w : r = Sets("CV", v, w)
      BY <1>2, <1>7 DEF FreqDroopWriter, DroopKnows
    <2>2. QED
      BY <1>3, <1>7, <2>1
  <1>8. QED
    BY <1>4, <1>5, <1>6, <1>7

\* FreqWattCurveWriter sets the parameter of the register a write starts at.
LEMMA CurveWrites ==
    ASSUME NEW inv, NEW p, NEW off \in Nat, NEW vals \in Words, NEW r,
           r = FreqWattCurveWriter(inv, p, off, vals), r # Refused
    PROVE  /\ off \in {11, 13, 15, 17}
           /\ off = 11 => \E v, w : r = Sets("DH", v, w)
           /\ off = 13 => \E v, w : r = Sets("DI", v, w)
           /\ off = 15 => \E v, w : r = Sets("CB", v, w)
           /\ off = 17 => \E v, w : r = Sets("CC", v, w)
  <1> DEFINE hits == {f \in DOMAIN CurveCode : Field(134, f) = Touched(off, vals)}
  <1>1. hits # {} /\ \E f \in hits : \E v, w : r = Sets(CurveCode[f], v, w)
    BY Zenon DEF FreqWattCurveWriter
  <1>2. PICK f \in hits : \E v, w : r = Sets(CurveCode[f], v, w)
    BY <1>1
  <1>3. f \in {"Hz1", "Hz2", "Hz3", "Hz4"} /\ off \in Field(134, f)
    BY <1>2, WordsAre DEF CurveCode, Touched
  <1>4. /\ CurveCode["Hz1"] = "DH" /\ CurveCode["Hz2"] = "DI"
        /\ CurveCode["Hz3"] = "CB" /\ CurveCode["Hz4"] = "CC"
    BY DEF CurveCode
  <1>5. /\ f = "Hz1" => off = 11
        /\ f = "Hz2" => off = 13
        /\ f = "Hz3" => off = 15
        /\ f = "Hz4" => off = 17
    BY <1>3, FieldsAre
  <1>6. QED
    BY <1>2, <1>3, <1>4, <1>5

\* ControlsWriter, for one register, sets the control that register holds.
LEMMA ControlWrites ==
    ASSUME NEW off \in Nat, NEW vals \in Words, Len(vals) = 1, NEW r, r = ControlsWriter(off, vals), r # NoOp
    PROVE  /\ off \in {2, 3, 7}
           /\ off = 2 => \E v : r = Sets("Conn", v, <<>>)
           /\ off = 3 => \E v : r = Sets("WMaxLimPct", v, <<>>)
           /\ off = 7 => \E v : r = Sets("Ena", v, <<>>)
  <1> DEFINE hits == {f \in {"Conn", "WMaxLimPct", "Ena"} : Field(123, f) \cap Touched(off, vals) # {}}
  <1>1. hits # {} /\ \E f \in hits : \E v : r = Sets(f, v, <<>>)
    BY Zenon DEF ControlsWriter
  <1>2. PICK f \in hits : \E v : r = Sets(f, v, <<>>)
    BY <1>1
  <1>3. f \in {"Conn", "WMaxLimPct", "Ena"} /\ off \in Field(123, f)
    BY <1>2 DEF Touched
  <1>4. /\ f = "Conn" => off = 2
        /\ f = "WMaxLimPct" => off = 3
        /\ f = "Ena" => off = 7
    BY <1>3, FieldsAre
  <1>5. QED
    BY <1>2, <1>3, <1>4

\* What holds of the snapshots in use.
SnapOK(s) ==
    /\ s.uids \in Seq(SunUids) /\ Len(s.invs) \in Nat
    /\ \A u \in SunUids : Value(s.prots[u], "AK") \in Int

\* handleWrite selects a model whose body holds the whole write.
LEMMA Selected ==
    ASSUME NEW starts, NEW addr, NEW vals, NEW m, m = WrittenModel(starts, addr, vals), m # 0
    PROVE  m \in Models /\ addr >= starts[m] + 2 /\ addr + Len(vals) <= starts[m] + 2 + BodyLen(m)
  <1> DEFINE Holds(x) == LET first == starts[x]
                         IN  first # 0 /\ addr >= first + 2 /\ addr + Len(vals) <= first + 2 + BodyLen(x)
  <1>1. Len(Writable) = 4
    BY DEF Writable
  <1>2. Writable[1] = 123 /\ Writable[2] = 703 /\ Writable[3] = 711 /\ Writable[4] = 134
    BY DEF Writable
  <1>3. PICK I : I = {i \in 1 .. Len(Writable) : Holds(Writable[i])}
    OBVIOUS
  <1>4. PICK k : k = SelectInSeq(Writable, Holds)
    OBVIOUS
  <1>5. k = IF I # {} THEN Min(I) ELSE 0
    BY <1>3, <1>4 DEF SelectInSeq
  <1>6. k # 0 /\ m = Writable[k]
    BY <1>4 DEF WrittenModel
  <1>7. I \in SUBSET (1 .. 4) /\ I # {}
    BY <1>1, <1>3, <1>5, <1>6
  <1>8. k \in I
    BY <1>5, <1>7, MinIsIn
  <1>9. k \in 1 .. 4 /\ Holds(Writable[k])
    BY <1>1, <1>3, <1>8
  <1>10. Writable[k] \in Models
    BY <1>2, <1>9 DEF Models
  <1>11. QED
    BY <1>6, <1>9, <1>10

\* A unit that a snapshot knows is an inverter.
LEMMA UnitIs ==
    ASSUME NEW s, NEW u \in Nat, SnapOK(s), UnitIndex(s, u) # 0
    PROVE  s.uids[UnitIndex(s, u)] \in SunUids
  <1>1. s.uids \in Seq(SunUids)
    BY DEF SnapOK
  <1>2. u - 1 \in 1 .. Len(s.uids) /\ UnitIndex(s, u) = u - 1
    <2>1. Len(s.uids) \in Nat
      BY <1>1, LenProperties
    <2>2. QED
      BY <2>1 DEF UnitIndex
  <1>3. QED
    BY <1>1, <1>2, ElementOfSeq

\* A write that is asked for: the field is a writer's, the words go in it.
Asked(wr) ==
    /\ wr.model \in Models /\ wr.field \in WritableFields(wr.model)
    /\ wr.vals \in Words /\ (wr.model = 123 => Len(wr.vals) = 1)

\* Clients ask for what the writers know.
LEMMA AsksAre == \A wr \in Asks : Asked(wr)
  BY SunAssumption DEF Asked, Models, Words

\* What a writer makes of a write to a field: refusal, nothing, the parameter meant.
Makes(wr, r, p) ==
    \/ r = Refused \/ r = NoOp
    \/ \E v, w : r = Sets(Meant(wr), v, w) /\ (Meant(wr) = "CA" => v \in Int /\ v <= Value(p, "AK") - 50)

\* The parameter a field stands for, model by model.
LEMMA MeantIs ==
    ASSUME NEW wr, Asked(wr)
    PROVE  /\ wr.model = 123 => Meant(wr) = wr.field
           /\ wr.model = 703 => Meant(wr) = "AG"
           /\ wr.model = 134 => Meant(wr) = CurveCode[wr.field]
           /\ wr.model = 711 /\ wr.field = "DbOf" => Meant(wr) = "CA"
           /\ wr.model = 711 /\ wr.field = "KOf" => Meant(wr) = "CF"
           /\ wr.model = 711 /\ wr.field = "RspTms" => Meant(wr) = "CG"
           /\ wr.model = 711 /\ wr.field = "Ena" => Meant(wr) = "CV"
           /\ Meant(wr) = "CA" => wr.model = 711 /\ wr.field = "DbOf"
  <1>1. wr.model \in Models /\ wr.field \in WritableFields(wr.model)
    BY DEF Asked
  <1>2. CASE wr.model = 123
    <2>1. wr.field \in {"Conn", "WMaxLimPct", "Ena"}
      BY <1>1, <1>2, FieldsWritten
    <2>2. Meant(wr) = wr.field
      BY <1>2, <2>1 DEF Meant
    <2>3. QED
      BY <1>2, <2>1, <2>2
  <1>3. CASE wr.model = 703
    <2>1. wr.field = "ESDlyTms"
      BY <1>1, <1>3, FieldsWritten
    <2>2. Meant(wr) = "AG"
      BY <1>3, <2>1 DEF Meant
    <2>3. QED
      BY <1>3, <2>1, <2>2
  <1>4. CASE wr.model = 134
    <2>1. wr.field \in {"Hz1", "Hz2", "Hz3", "Hz4"}
      BY <1>1, <1>4, FieldsWritten
    <2>2. Meant(wr) = CurveCode[wr.field]
      BY <1>4, <2>1 DEF Meant
    <2>3. CurveCode[wr.field] # "CA"
      BY <2>1 DEF CurveCode
    <2>4. QED
      BY <1>4, <2>2, <2>3
  <1>5. CASE wr.model = 711
    <2>1. wr.field \in {"Ena", "DbOf", "KOf", "RspTms"}
      BY <1>1, <1>5, FieldsWritten
    <2>2. wr.field = "DbOf" => Meant(wr) = "CA"
      BY <1>5 DEF Meant
    <2>3. wr.field = "KOf" => Meant(wr) = "CF"
      BY <1>5 DEF Meant
    <2>4. wr.field = "RspTms" => Meant(wr) = "CG"
      BY <1>5 DEF Meant
    <2>5. wr.field = "Ena" => Meant(wr) = "CV"
      BY <1>5 DEF Meant
    <2>6. QED
      BY <1>5, <2>1, <2>2, <2>3, <2>4, <2>5
  <1>6. QED
    BY <1>1, <1>2, <1>3, <1>4, <1>5 DEF Models

\* A writer that sets something has looked at the register of a field of its model.
LEMMA WriterMeets ==
    ASSUME NEW x \in Models, NEW s, NEW u, NEW off \in Nat, NEW vals \in Words, NEW r,
           r = ApplyWrite(x, s, u, off, vals), r # Refused, r # NoOp
    PROVE  Meets(x, off) /\ (x # 123 => UnitIndex(s, u) # 0)
  <1> DEFINE k == UnitIndex(s, u)
             p == s.prots[s.uids[k]]
  <1>1. CASE x = 123
    BY <1>1 DEF Meets
  <1>2. CASE x = 703
    <2>1. k # 0 /\ r = EnterServiceWriter(s.invs[k], p, off, vals)
      BY <1>2 DEF ApplyWrite
    <2>2. off = 7
      BY <2>1 DEF EnterServiceWriter
    <2>3. QED
      BY <1>2, <2>1, <2>2 DEF Meets
  <1>3. CASE x = 711
    <2>1. k # 0 /\ r = FreqDroopWriter(s.invs[k], p, off, vals)
      BY <1>3 DEF ApplyWrite
    <2>2. off \in {0, 12, 16, 18}
      BY <2>1, DroopWrites
    <2>3. QED
      BY <1>3, <2>1, <2>2 DEF Meets
  <1>4. CASE x = 134
    <2>1. k # 0 /\ r = FreqWattCurveWriter(s.invs[k], p, off, vals)
      BY <1>4 DEF ApplyWrite
    <2>2. off \in {11, 13, 15, 17}
      BY <2>1, CurveWrites
    <2>3. QED
      BY <1>4, <2>1, <2>2 DEF Meets
  <1>5. QED
    BY <1>1, <1>2, <1>3, <1>4 DEF Models

\* At the register that is meant, a writer sets the parameter that is meant.
LEMMA WriterMakes ==
    ASSUME NEW wr, Asked(wr), NEW s, NEW u, NEW r,
           r = ApplyWrite(wr.model, s, u, FirstReg(wr.model, wr.field), wr.vals)
    PROVE  /\ wr.model = 123 \/ UnitIndex(s, u) # 0 \/ r = Refused
           /\ Makes(wr, r, s.prots[s.uids[UnitIndex(s, u)]])
  <1> DEFINE k == UnitIndex(s, u)
             p == s.prots[s.uids[k]]
             m == wr.model
             off == FirstReg(m, wr.field)
  <1> SUFFICES ASSUME r # Refused, r # NoOp
               PROVE  (m = 123 \/ k # 0) /\ Makes(wr, r, p)
    <2>1. r = NoOp => m = 123 \/ k # 0 \/ r = Refused
      BY DEF ApplyWrite
    <2>2. QED
      BY <2>1 DEF Makes
  <1>0. m \in Models /\ wr.field \in WritableFields(m) /\ wr.vals \in Words /\ (m = 123 => Len(wr.vals) = 1)
    BY DEF Asked
  <1>1. CASE m = 123
    <2>1. r = ControlsWriter(off, wr.vals)
      BY <1>1 DEF ApplyWrite
    <2>2. wr.field \in {"Conn", "WMaxLimPct", "Ena"} /\ Meant(wr) = wr.field /\ Meant(wr) # "CA"
      BY <1>0, <1>1, FieldsWritten, MeantIs
    <2>3. /\ wr.field = "Conn" => off = 2
          /\ wr.field = "WMaxLimPct" => off = 3
          /\ wr.field = "Ena" => off = 7
      BY <1>1, BeginsAt
    <2>4. off \in Nat
      BY <2>2, <2>3
    <2> HIDE DEF off
    <2>5. \E v : r = Sets(wr.field, v, <<>>)
      BY <1>0, <1>1, <2>1, <2>2, <2>3, <2>4, ControlWrites
    <2>6. QED
      BY <1>1, <2>2, <2>5 DEF Makes
  <1>2. CASE m = 703
    <2>1. k # 0 /\ r = EnterServiceWriter(s.invs[k], p, off, wr.vals)
      BY <1>2 DEF ApplyWrite
    <2>2. r = Sets("AG", Long(wr.vals), <<>>)
      BY <2>1 DEF EnterServiceWriter
    <2>3. Meant(wr) = "AG"
      BY <1>2, MeantIs
    <2>4. QED
      BY <2>1, <2>2, <2>3 DEF Makes
  <1>3. CASE m = 711
    <2>1. k # 0 /\ r = FreqDroopWriter(s.invs[k], p, off, wr.vals)
      BY <1>3 DEF ApplyWrite
    <2>2. wr.field \in {"Ena", "DbOf", "KOf", "RspTms"}
      BY <1>0, <1>3, FieldsWritten
    <2>3. /\ wr.field = "Ena" => off = 0 /\ Meant(wr) = "CV"
          /\ wr.field = "DbOf" => off = 12 /\ Meant(wr) = "CA"
          /\ wr.field = "KOf" => off = 16 /\ Meant(wr) = "CF"
          /\ wr.field = "RspTms" => off = 18 /\ Meant(wr) = "CG"
      BY <1>3, BeginsAt, MeantIs
    <2>4. off \in Nat
      BY <2>2, <2>3
    <2> HIDE DEF off
    <2>5. /\ off = 0 => \E v, w : r = Sets("CV", v, w)
          /\ off = 12 => \E v \in Int : v <= Value(p, "AK") - 50 /\ \E w : r = Sets("CA", v, w)
          /\ off = 16 => \E v, w : r = Sets("CF", v, w)
          /\ off = 18 => \E v, w : r = Sets("CG", v, w)
      BY <1>0, <2>1, <2>4, DroopWrites
    <2> HIDE DEF p
    <2>6. Makes(wr, r, p)
      BY <2>2, <2>3, <2>5 DEF Makes
    <2>7. QED
      BY <2>1, <2>6
  <1>4. CASE m = 134
    <2>1. k # 0 /\ r = FreqWattCurveWriter(s.invs[k], p, off, wr.vals)
      BY <1>4 DEF ApplyWrite
    <2>2. wr.field \in {"Hz1", "Hz2", "Hz3", "Hz4"} /\ Meant(wr) = CurveCode[wr.field]
      BY <1>0, <1>4, FieldsWritten, MeantIs
    <2>3. /\ wr.field = "Hz1" => off = 11 /\ Meant(wr) = "DH"
          /\ wr.field = "Hz2" => off = 13 /\ Meant(wr) = "DI"
          /\ wr.field = "Hz3" => off = 15 /\ Meant(wr) = "CB"
          /\ wr.field = "Hz4" => off = 17 /\ Meant(wr) = "CC"
      BY <1>4, <2>2, BeginsAt DEF CurveCode
    <2>4. off \in Nat
      BY <2>2, <2>3
    <2> HIDE DEF off
    <2>5. /\ off = 11 => \E v, w : r = Sets("DH", v, w)
          /\ off = 13 => \E v, w : r = Sets("DI", v, w)
          /\ off = 15 => \E v, w : r = Sets("CB", v, w)
          /\ off = 17 => \E v, w : r = Sets("CC", v, w)
      BY <1>0, <2>1, <2>4, CurveWrites
    <2>6. \E v, w : r = Sets(Meant(wr), v, w)
      BY <2>2, <2>3, <2>5
    <2>7. Meant(wr) # "CA"
      BY <2>2, <2>3
    <2>8. QED
      BY <2>1, <2>6, <2>7 DEF Makes
  <1>5. QED
    BY <1>0, <1>1, <1>2, <1>3, <1>4 DEF Models

\* What distinguishes the results of the writers.
LEMMA OkOf ==
    ASSUME NEW param, NEW v, NEW w
    PROVE  /\ Refused.ok = FALSE /\ NoOp.param = "none"
           /\ Sets(param, v, w).param = param /\ Sets(param, v, w).val = v
  BY DEF Refused, NoOp, Sets

\* The address a client uses for a write to a field, if it has read a bank of
\* one kind or the other.
AddressOf(wr, addr) ==
    \E a \in FirstStarts : addr = StartsFrom(a)[wr.model] + 2 + FirstReg(wr.model, wr.field)
KindOfBank(at) == at = StartsFrom(262) \/ at = StartsFrom(294)

\* The bodies have a length.
LEMMA BodiesAre == \A x \in Models : BodyLen(x) \in Nat
  BY DEF Models, BodyLen

\* The addresses of the models are numbers.
LEMMA StartIsInt ==
    ASSUME NEW a \in FirstStarts, NEW m \in Models
    PROVE  StartsFrom(a)[m] \in Int
  <1>1. PICK c \in Int : c = a
    BY DEF FirstStarts
  <1>2. /\ StartsFrom(c)[123] = c /\ StartsFrom(c)[703] = c + 204
        /\ StartsFrom(c)[711] = c + 223 /\ StartsFrom(c)[134] = c + 247
    BY StartsAt
  <1>3. StartsFrom(c)[m] \in Int
    BY <1>2 DEF Models
  <1>4. QED
    BY <1>1, <1>3

\* The offsets of the fields are numbers.
LEMMA BeginIsInt ==
    ASSUME NEW m \in Models, NEW f \in WritableFields(m)
    PROVE  FirstReg(m, f) \in Nat
  <1>1. CASE m = 123
    BY <1>1, BeginsAt, FieldsWritten
  <1>2. CASE m = 703
    BY <1>2, BeginsAt, FieldsWritten
  <1>3. CASE m = 711
    BY <1>3, BeginsAt, FieldsWritten
  <1>4. CASE m = 134
    BY <1>4, BeginsAt, FieldsWritten
  <1>5. QED
    BY <1>1, <1>2, <1>3, <1>4 DEF Models

\* handleWrite, for an address learned from a bank of either kind and looked up in
\* either kind, does what was meant if it does anything, and in one inverter if it
\* is a protection write.
LEMMA HandledAsMeant ==
    ASSUME NEW wr, Asked(wr), NEW at, KindOfBank(at), NEW addr, AddressOf(wr, addr), NEW s, NEW u \in Nat, SnapOK(s),
           NEW r, r = HandleWrite(at, s, u, addr, wr.vals), NEW x, x = WrittenModel(at, addr, wr.vals),
           r.ok, r.param # "none"
    PROVE  /\ x = wr.model /\ r.param = Meant(wr)
           /\ x # 123 => UnitIndex(s, u) # 0
           /\ r.param = "CA" =>
                 UnitIndex(s, u) # 0 /\ Value(s.prots[s.uids[UnitIndex(s, u)]], "AK") - r.val >= 50
  <1> DEFINE k == UnitIndex(s, u)
             p == s.prots[s.uids[k]]
             m == wr.model
             n == Len(wr.vals)
             off == addr - at[x] - 2
  <1>0. m \in Models /\ wr.field \in WritableFields(m) /\ wr.vals \in Words
    BY DEF Asked
  <1>1. r # Refused /\ r # NoOp
    BY OkOf
  <1>2. x # 0 /\ r = ApplyWrite(x, s, u, off, wr.vals)
    BY <1>1 DEF HandleWrite
  <1>3. x \in Models /\ addr >= at[x] + 2 /\ addr + n <= at[x] + 2 + BodyLen(x)
    BY <1>2, Selected
  <1>4. PICK a \in FirstStarts, b \in FirstStarts :
           addr = StartsFrom(a)[m] + 2 + FirstReg(m, wr.field) /\ at = StartsFrom(b)
    BY DEF AddressOf, KindOfBank, FirstStarts
  <1>5. at[x] = StartsFrom(b)[x]
    BY <1>4
  <1>6. StartsFrom(a)[m] \in Int /\ StartsFrom(b)[x] \in Int /\ FirstReg(m, wr.field) \in Int
    BY <1>0, <1>3, StartIsInt, BeginIsInt
  <1>7. addr \in Int /\ at[x] \in Int
    BY <1>4, <1>5, <1>6
  <1>8. n \in Nat \ {0} /\ BodyLen(x) \in Nat
    BY <1>0, <1>3, BodiesAre, WordsAre
  <1> HIDE DEF n, m
  <1>9. off \in Nat /\ off + n <= BodyLen(x)
    BY <1>3, <1>7, <1>8
  <1>10. off = StartsFrom(a)[m] + 2 + FirstReg(m, wr.field) - StartsFrom(b)[x] - 2
    BY <1>4, <1>5, <1>6
  <1> HIDE DEF off, k, p
  <1>11. Meets(x, off) /\ (x # 123 => k # 0)
    BY <1>0, <1>1, <1>2, <1>3, <1>9, WriterMeets DEF k
  <1>12. x = m /\ off = FirstReg(m, wr.field)
    <2>1. off \in Int /\ 0 <= off
      BY <1>9
    <2>2. Lands(m, wr.field, a, b, x, n, off)
      BY <1>8, <1>9, <1>10, <2>1 DEF Lands
    <2>3. QED
      BY <1>0, <1>3, <1>11, <2>2, LandsWhereMeant
  <1>13. Makes(wr, r, p)
    BY <1>2, <1>12, WriterMakes DEF k, p, m
  <1>14. PICK v, w : r = Sets(Meant(wr), v, w) /\ (Meant(wr) = "CA" => v \in Int /\ v <= Value(p, "AK") - 50)
    BY <1>1, <1>13 DEF Makes
  <1>15. r.param = Meant(wr) /\ r.val = v
    BY <1>14 DEF Sets
  <1>16. ASSUME r.param = "CA" PROVE k # 0 /\ Value(p, "AK") - r.val >= 50
    <2>0. Meant(wr) = "CA"
      BY <1>15, <1>16
    <2>1. wr.model = 711
      BY <2>0, MeantIs
    <2>2. k # 0
      BY <1>11, <1>12, <2>1 DEF m
    <2>3. Value(p, "AK") \in Int
      BY <2>2, UnitIs DEF SnapOK, k, p
    <2>4. v \in Int /\ v <= Value(p, "AK") - 50
      BY <1>14, <1>15, <1>16
    <2>5. QED
      BY <1>15, <2>2, <2>3, <2>4
  <1>17. QED
    BY <1>11, <1>12, <1>15, <1>16 DEF m, k, p

-----------------------------------------------------------------------------
(* Sums along a sequence (SunSpecBank).                                    *)

\* What each field or section adds, as functions.
FieldWidths(layout) == [k \in DOMAIN layout |-> layout[k][2]]
Written(bank) == [k \in DOMAIN bank |-> 2 + bank[k].width]
Declared(bank) == [k \in DOMAIN bank |-> 2 + bank[k].len]

\* The width of a layout is a sum.
LEMMA WidthIsSum ==
    ASSUME NEW layout
    PROVE  RegisterWidth(layout) = Sum(FieldWidths(layout), DOMAIN layout)
  <1> DEFINE D == DOMAIN layout
             At(s) == CHOOSE x \in s : TRUE
             R(h) == [s \in SUBSET D |-> IF s = {} THEN 0 ELSE layout[At(s)][2] + h[s \ {At(s)}]]
             Q(h) == [s \in SUBSET D |-> IF s = {} THEN 0 ELSE FieldWidths(layout)[At(s)] + h[s \ {At(s)}]]
  <1>1. ASSUME NEW h PROVE R(h) = Q(h)
    <2>1. ASSUME NEW s \in SUBSET D, s # {} PROVE layout[At(s)][2] = FieldWidths(layout)[At(s)]
      <3>1. At(s) \in D
        BY <2>1
      <3>2. QED
        BY <3>1 DEF FieldWidths
    <2>2. QED
      BY <2>1
  <1>2. RegisterWidth(layout) = (CHOOSE h : h = R(h))[D]
    BY DEF RegisterWidth, Total, MapThenSumSet, MapThenFoldSet
  <1>3. Sum(FieldWidths(layout), D) = (CHOOSE h : h = Q(h))[D]
    BY DEF Sum, MapThenSumSet, MapThenFoldSet
  <1> HIDE DEF R, Q
  <1>4. (CHOOSE h : h = R(h)) = (CHOOSE h : h = Q(h))
    BY <1>1, Zenon
  <1>5. QED
    BY <1>2, <1>3, <1>4

\* So are the registers written in front of a section,
LEMMA WrittenIsSum ==
    ASSUME NEW bank
    PROVE  Total(bank, LAMBDA sec : 2 + sec.width) = Sum(Written(bank), DOMAIN bank)
  <1> DEFINE D == DOMAIN bank
             At(s) == CHOOSE x \in s : TRUE
             R(h) == [s \in SUBSET D |-> IF s = {} THEN 0 ELSE (2 + bank[At(s)].width) + h[s \ {At(s)}]]
             Q(h) == [s \in SUBSET D |-> IF s = {} THEN 0 ELSE Written(bank)[At(s)] + h[s \ {At(s)}]]
  <1>1. ASSUME NEW h PROVE R(h) = Q(h)
    <2>1. ASSUME NEW s \in SUBSET D, s # {} PROVE 2 + bank[At(s)].width = Written(bank)[At(s)]
      <3>1. At(s) \in D
        BY <2>1
      <3>2. QED
        BY <3>1 DEF Written
    <2>2. QED
      BY <2>1
  <1>2. Total(bank, LAMBDA sec : 2 + sec.width) = (CHOOSE h : h = R(h))[D]
    BY DEF Total, MapThenSumSet, MapThenFoldSet
  <1>3. Sum(Written(bank), D) = (CHOOSE h : h = Q(h))[D]
    BY DEF Sum, MapThenSumSet, MapThenFoldSet
  <1> HIDE DEF R, Q
  <1>4. (CHOOSE h : h = R(h)) = (CHOOSE h : h = Q(h))
    BY <1>1, Zenon
  <1>5. QED
    BY <1>2, <1>3, <1>4

\* and the lengths declared in front of it.
LEMMA DeclaredIsSum ==
    ASSUME NEW bank
    PROVE  Total(bank, LAMBDA sec : 2 + sec.len) = Sum(Declared(bank), DOMAIN bank)
  <1> DEFINE D == DOMAIN bank
             At(s) == CHOOSE x \in s : TRUE
             R(h) == [s \in SUBSET D |-> IF s = {} THEN 0 ELSE (2 + bank[At(s)].len) + h[s \ {At(s)}]]
             Q(h) == [s \in SUBSET D |-> IF s = {} THEN 0 ELSE Declared(bank)[At(s)] + h[s \ {At(s)}]]
  <1>1. ASSUME NEW h PROVE R(h) = Q(h)
    <2>1. ASSUME NEW s \in SUBSET D, s # {} PROVE 2 + bank[At(s)].len = Declared(bank)[At(s)]
      <3>1. At(s) \in D
        BY <2>1
      <3>2. QED
        BY <3>1 DEF Declared
    <2>2. QED
      BY <2>1
  <1>2. Total(bank, LAMBDA sec : 2 + sec.len) = (CHOOSE h : h = R(h))[D]
    BY DEF Total, MapThenSumSet, MapThenFoldSet
  <1>3. Sum(Declared(bank), D) = (CHOOSE h : h = Q(h))[D]
    BY DEF Sum, MapThenSumSet, MapThenFoldSet
  <1> HIDE DEF R, Q
  <1>4. (CHOOSE h : h = R(h)) = (CHOOSE h : h = Q(h))
    BY <1>1, Zenon
  <1>5. QED
    BY <1>2, <1>3, <1>4

\* Running totals of w: what stands in front of each place.
Running(P, w, n) ==
    P \in [1 .. n + 1 -> Nat] /\ P[1] = 0 /\ \A j \in 1 .. n : P[j + 1] = P[j] + w[j]

\* The last running total is the sum.
LEMMA RunsUp ==
    ASSUME NEW n \in Nat, NEW w \in [1 .. n -> Nat], NEW P, Running(P, w, n)
    PROVE  Sum(w, 1 .. n) = P[n + 1]
  <1> DEFINE F(k) == [i \in 1 .. n |-> IF i < k THEN w[i] ELSE 0]
             T == {j \in Nat : j <= n => Sum(F(j + 1), 1 .. n) = P[j + 1]}
  <1>0. IsFiniteSet(1 .. n)
    BY FS_Interval
  <1>1. 0 \in T
    <2>1. F(1) = [i \in 1 .. n |-> 0]
      OBVIOUS
    <2>2. Sum(F(1), 1 .. n) = 0
      BY <1>0, <2>1, SumZero
    <2>3. QED
      BY <2>2 DEF Running
  <1>2. ASSUME NEW j \in Nat, j \in T PROVE j + 1 \in T
    <2>1. SUFFICES ASSUME j + 1 <= n PROVE Sum(F(j + 1 + 1), 1 .. n) = P[j + 1 + 1]
      OBVIOUS
    <2>2. PICK f, h, k : f = F(j + 1) /\ h = F(j + 1 + 1) /\ k = j + 1
      OBVIOUS
    <2>3. f \in [1 .. n -> Nat] /\ h \in [1 .. n -> Nat] /\ k \in 1 .. n
      BY <2>1, <2>2
    <2>4. f[k] = 0 /\ h[k] = w[k] /\ \A i \in 1 .. n \ {k} : h[i] = f[i]
      BY <2>2, <2>3
    <2> HIDE DEF F, T
    <2>5. Sum(f, 1 .. n) \in Nat /\ Sum(h, 1 .. n) = Sum(f, 1 .. n) + h[k]
      <3>1. PICK S : S = 1 .. n
        OBVIOUS
      <3>2. IsFiniteSet(S) /\ f \in [S -> Nat] /\ h \in [S -> Nat] /\ k \in S
        BY <1>0, <2>3, <3>1
      <3>3. f[k] = 0 /\ \A i \in S \ {k} : h[i] = f[i]
        BY <2>4, <3>1
      <3>4. Sum(f, S) \in Nat /\ Sum(h, S) = Sum(f, S) + h[k]
        BY ONLY <3>2, <3>3, OneMore
      <3>5. QED
        BY <3>1, <3>4
    <2>6. Sum(f, 1 .. n) = P[k]
      BY <1>2, <2>1, <2>2 DEF T
    <2>7. P[k + 1] = P[k] + w[k]
      BY <2>3 DEF Running
    <2>8. QED
      BY <2>2, <2>4, <2>5, <2>6, <2>7
  <1> HIDE DEF T
  <1>3. n \in T
    BY <1>1, <1>2, SetInduction
  <1>4. F(n + 1) = w
    OBVIOUS
  <1>5. QED
    BY <1>3, <1>4 DEF T

\* A layout of n fields whose widths run up to a number is that wide.
Fields(layout, n, P) ==
    /\ n \in Nat /\ DOMAIN layout = 1 .. n /\ P \in [1 .. n + 1 -> Nat] /\ P[1] = 0
    /\ \A j \in 1 .. n : layout[j][2] \in Nat /\ P[j + 1] = P[j] + layout[j][2]

\* The width of a layout, once its fields are listed.
LEMMA WidthIs ==
    ASSUME NEW layout, NEW n, NEW P, Fields(layout, n, P)
    PROVE  RegisterWidth(layout) = P[n + 1]
  <1>1. PICK w : w = FieldWidths(layout)
    OBVIOUS
  <1>2. n \in Nat /\ w \in [1 .. n -> Nat] /\ Running(P, w, n)
    BY <1>1 DEF FieldWidths, Running, Fields
  <1>3. QED
    BY <1>1, <1>2, RunsUp, WidthIsSum DEF Fields

\* Model 1.
LEMMA CommonLayoutIs == RegisterWidth(CommonLayout) = 66
  <1> DEFINE P == <<0, 16, 32, 40, 48, 64, 65, 66>>
  <1>1. Fields(CommonLayout, 7, P)
    BY DEF Fields, CommonLayout
  <1>2. P[7 + 1] = 66
    OBVIOUS
  <1>3. QED
    BY <1>1, <1>2, WidthIs

\* Models 101 to 103.
LEMMA InverterLayoutIs == RegisterWidth(InverterLayout) = 50
  <1> DEFINE P == <<0, 1, 4, 5, 8, 11, 12, 13, 14, 15, 16, 22, 24, 25, 31, 32, 36, 37, 38, 40, 42, 44, 50>>
  <1>1. Fields(InverterLayout, 22, P)
    BY DEF Fields, InverterLayout
  <1>2. P[22 + 1] = 50
    OBVIOUS
  <1>3. QED
    BY <1>1, <1>2, WidthIs

\* Models 111 to 113.
LEMMA FloatLayoutIs == RegisterWidth(FloatLayout) = 60
  <1> DEFINE P == <<0, 2, 8, 14, 20, 22, 24, 30, 32, 38, 40, 46, 47, 48, 50, 52, 54, 60>>
  <1>1. Fields(FloatLayout, 17, P)
    BY DEF Fields, FloatLayout
  <1>2. P[17 + 1] = 60
    OBVIOUS
  <1>3. QED
    BY <1>1, <1>2, WidthIs

\* Model 120.
LEMMA NameplateLayoutIs == RegisterWidth(NameplateLayout) = 26
  <1> DEFINE P == <<0, 1, 2, 3, 4, 5, 10, 11, 12, 16, 17, 25, 26>>
  <1>1. Fields(NameplateLayout, 12, P)
    BY DEF Fields, NameplateLayout
  <1>2. P[12 + 1] = 26
    OBVIOUS
  <1>3. QED
    BY <1>1, <1>2, WidthIs

\* Model 121.
LEMMA SettingsLayoutIs == RegisterWidth(SettingsLayout) = 30
  <1> DEFINE P == <<0, 1, 2, 20, 29, 30>>
  <1>1. Fields(SettingsLayout, 5, P)
    BY DEF Fields, SettingsLayout
  <1>2. P[5 + 1] = 30
    OBVIOUS
  <1>3. QED
    BY <1>1, <1>2, WidthIs

\* Model 123.
LEMMA ControlsLayoutIs == RegisterWidth(ControlsLayout) = 24
  <1> DEFINE P == <<0, 2, 3, 4, 5, 6, 7, 8, 21, 24>>
  <1>1. Fields(ControlsLayout, 9, P)
    BY DEF Fields, ControlsLayout
  <1>2. P[9 + 1] = 24
    OBVIOUS
  <1>3. QED
    BY <1>1, <1>2, WidthIs

\* Model 703.
LEMMA EnterServiceLayoutIs == RegisterWidth(EnterServiceLayout) = 17
  <1> DEFINE P == <<0, 1, 2, 3, 5, 7, 9, 15, 17>>
  <1>1. Fields(EnterServiceLayout, 8, P)
    BY DEF Fields, EnterServiceLayout
  <1>2. P[8 + 1] = 17
    OBVIOUS
  <1>3. QED
    BY <1>1, <1>2, WidthIs

\* Model 711.
LEMMA FreqDroopLayoutIs == RegisterWidth(FreqDroopLayout) = 22
  <1> DEFINE P == <<0, 1, 2, 3, 4, 6, 8, 9, 12, 14, 16, 17, 18, 20, 21, 22>>
  <1>1. Fields(FreqDroopLayout, 15, P)
    BY DEF Fields, FreqDroopLayout
  <1>2. P[15 + 1] = 22
    OBVIOUS
  <1>3. QED
    BY <1>1, <1>2, WidthIs

\* Model 134.
LEMMA FreqWattLayoutIs == RegisterWidth(FreqWattLayout) = 68
  <1> DEFINE P == <<0, 1, 2, 5, 6, 7, 10, 11, 12, 13, 14, 15, 16, 17, 18, 19, 51, 59, 67, 68>>
  <1>1. Fields(FreqWattLayout, 19, P)
    BY DEF Fields, FreqWattLayout
  <1>2. P[19 + 1] = 68
    OBVIOUS
  <1>3. QED
    BY <1>1, <1>2, WidthIs

\* Model 160, without its modules.
LEMMA MPPTHeaderIs == RegisterWidth(MPPTHeader) = 8
  <1> DEFINE P == <<0, 6, 7, 8>>
  <1>1. Fields(MPPTHeader, 3, P)
    BY DEF Fields, MPPTHeader
  <1>2. P[3 + 1] = 8
    OBVIOUS
  <1>3. QED
    BY <1>1, <1>2, WidthIs

\* One module of Model 160.
LEMMA MPPTModuleIs == RegisterWidth(MPPTModule) = 20
  <1> DEFINE P == <<0, 1, 9, 10, 11, 12, 14, 16, 17, 18, 20>>
  <1>1. Fields(MPPTModule, 10, P)
    BY DEF Fields, MPPTModule
  <1>2. P[10 + 1] = 20
    OBVIOUS
  <1>3. QED
    BY <1>1, <1>2, WidthIs

\* The vendor's model, without its rows.
LEMMA VendorHeaderIs == RegisterWidth(VendorHeader) = 16
  <1> DEFINE P == <<0, 1, 9, 15, 16>>
  <1>1. Fields(VendorHeader, 4, P)
    BY DEF Fields, VendorHeader
  <1>2. P[4 + 1] = 16
    OBVIOUS
  <1>3. QED
    BY <1>1, <1>2, WidthIs

\* One row of the vendor's model.
LEMMA VendorRowIs == RegisterWidth(VendorRow) = 10
  <1> DEFINE P == <<0, 1, 2, 3, 4, 5, 6, 7, 8, 9, 10>>
  <1>1. Fields(VendorRow, 10, P)
    BY DEF Fields, VendorRow
  <1>2. P[10 + 1] = 10
    OBVIOUS
  <1>3. QED
    BY <1>1, <1>2, WidthIs

\* Two measured layouts, one behind the other.
Measured(layout, width) ==
    \E n, P : Fields(layout, n, P) /\ P[n + 1] = width /\ layout = [j \in 1 .. n |-> layout[j]]

\* Their widths add up.
LEMMA WidthsAdd ==
    ASSUME NEW a, NEW b, NEW wa, NEW wb, Measured(a, wa), Measured(b, wb)
    PROVE  Measured(a \o b, wa + wb)
  <1>1. PICK n, P : Fields(a, n, P) /\ P[n + 1] = wa /\ a = [j \in 1 .. n |-> a[j]]
    BY DEF Measured
  <1>2. PICK m, Q : Fields(b, m, Q) /\ Q[m + 1] = wb /\ b = [j \in 1 .. m |-> b[j]]
    BY DEF Measured
  <1>3. PICK V : V = {a[j] : j \in 1 .. n} \cup {b[j] : j \in 1 .. m}
    OBVIOUS
  <1>4. n \in Nat /\ m \in Nat
    BY <1>1, <1>2 DEF Fields
  <1>5. a \in Seq(V) /\ Len(a) = n /\ b \in Seq(V) /\ Len(b) = m
    <2>1. a \in [1 .. n -> V] /\ b \in [1 .. m -> V]
      BY <1>1, <1>2, <1>3
    <2>2. QED
      BY <1>4, <2>1
  <1>6. PICK c : c = a \o b
    OBVIOUS
  <1>7. c \in Seq(V) /\ Len(c) = n + m
        /\ \A j \in 1 .. n + m : c[j] = IF j <= n THEN a[j] ELSE b[j - n]
    BY <1>5, <1>6, ConcatProperties
  <1>8. DOMAIN c = 1 .. n + m /\ c = [j \in 1 .. n + m |-> c[j]]
    BY <1>4, <1>7
  <1> DEFINE R == [j \in 1 .. n + m + 1 |-> IF j <= n THEN P[j] ELSE wa + Q[j - n]]
  <1>9. P \in [1 .. n + 1 -> Nat] /\ Q \in [1 .. m + 1 -> Nat] /\ wa \in Nat /\ wb \in Nat
    BY <1>1, <1>2, <1>4 DEF Fields
  <1>10. R \in [1 .. n + m + 1 -> Nat] /\ R[n + m + 1] = wa + wb
    BY <1>2, <1>4, <1>9
  <1>11. R[1] = 0
    BY <1>1, <1>2, <1>4, <1>9 DEF Fields
  <1>12. ASSUME NEW j \in 1 .. n + m
         PROVE  c[j][2] \in Nat /\ R[j + 1] = R[j] + c[j][2]
    <2>1. CASE j < n
      <3>1. j \in 1 .. n /\ j <= n /\ j + 1 <= n /\ c[j] = a[j] /\ R[j] = P[j] /\ R[j + 1] = P[j + 1]
        BY <1>4, <1>7, <2>1
      <3>2. QED
        BY <1>1, <3>1 DEF Fields
    <2>2. CASE j = n
      <3>1. j \in 1 .. n /\ c[j] = a[j] /\ R[j] = P[j] /\ R[j + 1] = wa + Q[1]
        BY <1>4, <1>7, <2>2
      <3>2. P[j + 1] = wa /\ Q[1] = 0 /\ wa + Q[1] = wa
        BY <1>1, <1>2, <1>9, <2>2 DEF Fields
      <3>3. QED
        BY <1>1, <3>1, <3>2 DEF Fields
    <2>3. CASE j > n
      <3>1. PICK k, i : k = j - n /\ i = j + 1
        OBVIOUS
      <3>2. k \in 1 .. m /\ ~(j <= n) /\ ~(i <= n) /\ i - n = k + 1 /\ {i, j} \subseteq 1 .. n + m + 1
        BY <1>4, <2>3, <3>1
      <3>3. c[j] = b[k] /\ R[j] = wa + Q[k] /\ R[j + 1] = wa + Q[k + 1]
        <4>1. c[j] = b[k]
          BY <1>7, <3>1, <3>2
        <4>2. R[j] = wa + Q[k] /\ R[i] = wa + Q[k + 1]
          BY <3>1, <3>2
        <4>3. QED
          BY <3>1, <4>1, <4>2
      <3>4. b[k][2] \in Nat /\ Q[k + 1] = Q[k] + b[k][2] /\ Q[k] \in Nat
        BY <1>2, <1>9, <3>2 DEF Fields
      <3>5. QED
        BY <1>9, <3>3, <3>4
    <2>4. QED
      BY <1>4, <2>1, <2>2, <2>3
  <1> HIDE DEF R
  <1>13. Fields(c, n + m, R)
    BY <1>4, <1>8, <1>10, <1>11, <1>12 DEF Fields
  <1>14. QED
    BY <1>6, <1>8, <1>10, <1>13 DEF Measured

\* A measured layout is as wide as that.
LEMMA MeasuredIs ==
    ASSUME NEW layout, NEW width, Measured(layout, width)
    PROVE  RegisterWidth(layout) = width
  BY WidthIs DEF Measured

\* Models 707 to 710.
LEMMA TripLayoutsAre == RegisterWidth(TripLayout(VPoint)) = 38 /\ RegisterWidth(TripLayout(HzPoint)) = 47
  <1>1. Measured(TripHeader, 8)
    <2> DEFINE P == <<0, 1, 7, 8>>
    <2>1. Fields(TripHeader, 3, P) /\ P[3 + 1] = 8 /\ TripHeader = [j \in 1 .. 3 |-> TripHeader[j]]
      BY DEF Fields, TripHeader
    <2>2. QED
      BY <2>1 DEF Measured
  <1>2. Measured(<< <<"ActPt", 1>> >>, 1)
    <2> DEFINE P == <<0, 1>>
               L == << <<"ActPt", 1>> >>
    <2>1. Fields(L, 1, P) /\ P[1 + 1] = 1 /\ L = [j \in 1 .. 1 |-> L[j]]
      BY DEF Fields
    <2>2. QED
      BY <2>1 DEF Measured
  <1>3. Measured(VPoint, 3)
    <2> DEFINE P == <<0, 1, 3>>
    <2>1. Fields(VPoint, 2, P) /\ P[2 + 1] = 3 /\ VPoint = [j \in 1 .. 2 |-> VPoint[j]]
      BY DEF Fields, VPoint
    <2>2. QED
      BY <2>1 DEF Measured
  <1>4. Measured(HzPoint, 4)
    <2> DEFINE P == <<0, 2, 4>>
    <2>1. Fields(HzPoint, 2, P) /\ P[2 + 1] = 4 /\ HzPoint = [j \in 1 .. 2 |-> HzPoint[j]]
      BY DEF Fields, HzPoint
    <2>2. QED
      BY <2>1 DEF Measured
  <1>5. ASSUME NEW pt, NEW w \in Nat, Measured(pt, w) PROVE RegisterWidth(TripLayout(pt)) = 8 + 3 * (1 + 3 * w)
    <2> DEFINE tier == << <<"ActPt", 1>> >> \o pt \o pt \o pt
    <2>1. Measured(tier, 1 + w + w + w)
      BY <1>2, <1>5, WidthsAdd
    <2> HIDE DEF tier
    <2>2. PICK t \in Nat : t = 1 + w + w + w
      OBVIOUS
    <2>3. Measured(TripHeader \o tier \o tier \o tier, 8 + t + t + t)
      BY <1>1, <2>1, <2>2, WidthsAdd
    <2>4. TripLayout(pt) = TripHeader \o tier \o tier \o tier
      BY DEF TripLayout, tier
    <2>5. QED
      BY <2>2, <2>3, <2>4, MeasuredIs
  <1>6. QED
    BY <1>3, <1>4, <1>5

\* Model 114, and the end of a bank, which has no body.
LEMMA DCDataLayoutIs == RegisterWidth(DCDataLayout) = 48
  <1> DEFINE P == <<0, 16, 32, 48>>
  <1>1. Fields(DCDataLayout, 3, P)
    BY DEF Fields, DCDataLayout, DCChannels
  <1>2. P[3 + 1] = 48
    OBVIOUS
  <1>3. QED
    BY <1>1, <1>2, WidthIs

\* A section without fields has no body.
LEMMA NoLayoutIs == RegisterWidth(<<>>) = 0
  <1> DEFINE P == <<0>>
  <1>1. Fields(<<>>, 0, P)
    BY DEF Fields
  <1>2. P[0 + 1] = 0
    OBVIOUS
  <1>3. QED
    BY <1>1, <1>2, WidthIs

-----------------------------------------------------------------------------
(* Sections and the banks made of them (SunSpecBank).                      *)

\* A section declares as many registers as it holds.
Sound(sec, id) == sec.id = id /\ sec.len \in Nat /\ sec.width = sec.len

\* n sound sections with different ids, all among ids.
Bank(bank, n, ids) ==
    /\ n \in Nat /\ DOMAIN bank = 1 .. n /\ Len(bank) = n /\ bank = [k \in 1 .. n |-> bank[k]]
    /\ \A k \in 1 .. n : Sound(bank[k], bank[k].id) /\ bank[k].id \in ids
    /\ \A j, k \in 1 .. n : bank[j].id = bank[k].id => j = k

\* Two banks without a common id make one.
Apart(idsA, idsB) == idsA \cap idsB = {}
Joined(bank, a, n, b, m, ids) ==
    /\ Bank(bank, n + m, ids)
    /\ \A k \in 1 .. n : bank[k] = a[k]
    /\ \A k \in 1 .. m : bank[n + k] = b[k]

\* Banks of different models, one behind the other, are a bank.
LEMMA BanksJoin ==
    ASSUME NEW a, NEW b, NEW n, NEW m, NEW idsA, NEW idsB, Bank(a, n, idsA), Bank(b, m, idsB), Apart(idsA, idsB)
    PROVE  Joined(a \o b, a, n, b, m, idsA \cup idsB)
  <1>1. PICK V : V = {a[j] : j \in 1 .. n} \cup {b[j] : j \in 1 .. m}
    OBVIOUS
  <1>2. n \in Nat /\ m \in Nat /\ Len(a) = n /\ Len(b) = m
    BY DEF Bank
  <1>3. a \in Seq(V) /\ b \in Seq(V)
    <2>1. a \in [1 .. n -> V] /\ b \in [1 .. m -> V]
      BY <1>1 DEF Bank
    <2>2. QED
      BY <1>2, <2>1
  <1>4. PICK c : c = a \o b
    OBVIOUS
  <1>5. c \in Seq(V) /\ Len(c) = n + m
        /\ \A k \in 1 .. n + m : c[k] = IF k <= n THEN a[k] ELSE b[k - n]
    BY <1>2, <1>3, <1>4, ConcatProperties
  <1>6. DOMAIN c = 1 .. n + m /\ c = [k \in 1 .. n + m |-> c[k]]
    BY <1>2, <1>5
  <1>7. \A k \in 1 .. n : c[k] = a[k]
    BY <1>2, <1>5
  <1>8. ASSUME NEW k \in 1 .. m PROVE c[n + k] = b[k]
    <2>1. PICK i : i = n + k
      OBVIOUS
    <2>2. i \in 1 .. n + m /\ ~(i <= n) /\ i - n = k
      BY <1>2, <2>1
    <2>3. QED
      BY <1>5, <2>1, <2>2
  <1>9. \A k \in 1 .. n + m : k \in 1 .. n \/ \E j \in 1 .. m : k = n + j
    <2>1. ASSUME NEW k \in 1 .. n + m, k \notin 1 .. n PROVE k - n \in 1 .. m /\ k = n + (k - n)
      BY <1>2, <2>1
    <2>2. QED
      BY <2>1
  <1>10. ASSUME NEW k \in 1 .. n + m PROVE Sound(c[k], c[k].id) /\ c[k].id \in idsA \cup idsB
    BY <1>7, <1>8, <1>9 DEF Bank
  <1>11. ASSUME NEW j \in 1 .. n + m, NEW k \in 1 .. n + m, c[j].id = c[k].id PROVE j = k
    <2>1. CASE j \in 1 .. n /\ k \in 1 .. n
      BY <1>7, <1>11, <2>1 DEF Bank
    <2>2. CASE j \in 1 .. n /\ k \notin 1 .. n
      <3>1. PICK i \in 1 .. m : k = n + i
        BY <1>9, <2>2
      <3>2. c[j].id \in idsA /\ c[k].id \in idsB
        BY <1>7, <1>8, <2>2, <3>1 DEF Bank
      <3>3. QED
        BY <1>11, <3>2 DEF Apart
    <2>3. CASE j \notin 1 .. n /\ k \in 1 .. n
      <3>1. PICK i \in 1 .. m : j = n + i
        BY <1>9, <2>3
      <3>2. c[k].id \in idsA /\ c[j].id \in idsB
        BY <1>7, <1>8, <2>3, <3>1 DEF Bank
      <3>3. QED
        BY <1>11, <3>2 DEF Apart
    <2>4. CASE j \notin 1 .. n /\ k \notin 1 .. n
      <3>1. PICK h \in 1 .. m, i \in 1 .. m : j = n + h /\ k = n + i
        BY <1>9, <2>4
      <3>2. b[h].id = b[i].id
        BY <1>8, <1>11, <3>1
      <3>3. QED
        BY <3>1, <3>2 DEF Bank
    <2>5. QED
      BY <2>1, <2>2, <2>3, <2>4
  <1>12. Bank(c, n + m, idsA \cup idsB)
    BY <1>2, <1>5, <1>6, <1>10, <1>11 DEF Bank
  <1>13. QED
    BY <1>4, <1>7, <1>8, <1>12 DEF Joined

\* What stands in front of a section, by the registers written and by the
\* lengths declared, is the same.
LEMMA FrontsAgree ==
    ASSUME NEW bank, NEW n, NEW ids, Bank(bank, n, ids), NEW k \in 1 .. n + 1
    PROVE  /\ Total(SubSeq(bank, 1, k - 1), LAMBDA sec : 2 + sec.width)
              = Total(SubSeq(bank, 1, k - 1), LAMBDA sec : 2 + sec.len)
           /\ \E w \in [1 .. k - 1 -> Nat] : /\ \A j \in 1 .. k - 1 : w[j] = 2 + bank[j].len
                                             /\ Start(bank, k) = 2 + Sum(w, 1 .. k - 1)
  <1>1. n \in Nat /\ k - 1 \in Nat /\ 1 .. k - 1 \subseteq 1 .. n
    BY DEF Bank
  <1>2. PICK V : V = {bank[j] : j \in 1 .. n}
    OBVIOUS
  <1>3. PICK q : q = SubSeq(bank, 1, k - 1)
    OBVIOUS
  <1>4. q \in Seq(V) /\ Len(q) = k - 1 /\ \A j \in 1 .. k - 1 : q[j] = bank[j]
    <2>1. 1 \in Int /\ k - 1 \in Int /\ \A i \in 1 .. k - 1 : bank[i] \in V
      BY <1>1, <1>2
    <2>2. /\ q \in Seq(V) /\ Len(q) = IF 1 <= k - 1 THEN k - 1 - 1 + 1 ELSE 0
          /\ \A j \in 1 .. k - 1 - 1 + 1 : q[j] = bank[1 + j - 1]
      BY <1>3, <2>1, SubSeqProperties
    <2>3. k - 1 - 1 + 1 = k - 1 /\ \A j \in 1 .. k - 1 : 1 + j - 1 = j
      BY <1>1
    <2>4. Len(q) = k - 1
      BY <1>1, <2>2
    <2>5. QED
      BY <2>2, <2>3, <2>4
  <1>5. DOMAIN q = 1 .. k - 1
    BY <1>4
  <1>6. \A j \in 1 .. k - 1 : q[j].len \in Nat /\ q[j].width = q[j].len
    BY <1>1, <1>4 DEF Bank, Sound
  <1>7. PICK w : w = Written(q)
    OBVIOUS
  <1>8. w = Declared(q) /\ w \in [1 .. k - 1 -> Nat] /\ \A j \in 1 .. k - 1 : w[j] = 2 + bank[j].len
    BY <1>4, <1>5, <1>6, <1>7 DEF Written, Declared
  <1>9. Total(q, LAMBDA sec : 2 + sec.width) = Sum(w, 1 .. k - 1)
    BY <1>5, <1>7, WrittenIsSum
  <1>10. Total(q, LAMBDA sec : 2 + sec.len) = Sum(w, 1 .. k - 1)
    BY <1>5, <1>8, DeclaredIsSum
  <1>11. Start(bank, k) = 2 + Sum(w, 1 .. k - 1)
    BY <1>3, <1>9 DEF Start
  <1>12. QED
    BY <1>3, <1>8, <1>9, <1>10, <1>11

\* A section is found where it starts.
LEMMA FoundAtStart ==
    ASSUME NEW bank, NEW n, NEW ids, Bank(bank, n, ids), NEW k \in 1 .. n
    PROVE  FindModelInBank(bank, bank[k].id) = Start(bank, k)
  <1>1. n \in Nat /\ Len(bank) = n /\ k # 0
    BY DEF Bank
  <1>2. PICK I : I = {i \in 1 .. Len(bank) : bank[i].id = bank[k].id}
    OBVIOUS
  <1>3. I = {k}
    BY <1>1, <1>2 DEF Bank
  <1>4. Min(I) = k
    <2>1. \A x \in I : (\A y \in I : x =< y) => x = k
      BY <1>3
    <2>2. k \in I /\ \A y \in I : k =< y
      BY <1>1, <1>3
    <2>3. QED
      BY <2>1, <2>2, Zenon DEF Min
  <1>5. SelectInSeq(bank, LAMBDA sec : sec.id = bank[k].id) = k
    BY <1>2, <1>3, <1>4 DEF SelectInSeq
  <1>6. k \in 1 .. n + 1
    BY <1>1
  <1>7. Total(SubSeq(bank, 1, k - 1), LAMBDA sec : 2 + sec.width)
        = Total(SubSeq(bank, 1, k - 1), LAMBDA sec : 2 + sec.len)
    BY <1>6, FrontsAgree
  <1>8. QED
    BY <1>1, <1>5, <1>7 DEF FindModelInBank, Start

\* Where the first m + 1 sections start, from the lengths declared.
InFront(bank, m, P) ==
    P \in [1 .. m + 1 -> Nat] /\ P[1] = 0 /\ \A j \in 1 .. m : P[j + 1] = P[j] + (2 + bank[j].len)

\* A section starts where the ones in front of it end.
LEMMA StartIs ==
    ASSUME NEW bank, NEW n, NEW ids, Bank(bank, n, ids), NEW m \in 0 .. n, NEW P, InFront(bank, m, P),
           NEW k \in 1 .. m + 1
    PROVE  Start(bank, k) = 2 + P[k]
  <1>0. P \in [1 .. m + 1 -> Nat] /\ P[1] = 0 /\ \A j \in 1 .. m : P[j + 1] = P[j] + (2 + bank[j].len)
    BY DEF InFront
  <1>1. n \in Nat /\ m \in Nat /\ k - 1 \in Nat /\ k \in 1 .. n + 1 /\ 1 .. k - 1 \subseteq 1 .. m /\ k - 1 + 1 = k
    BY DEF Bank
  <1>2. PICK w \in [1 .. k - 1 -> Nat] : /\ \A j \in 1 .. k - 1 : w[j] = 2 + bank[j].len
                                         /\ Start(bank, k) = 2 + Sum(w, 1 .. k - 1)
    BY <1>1, FrontsAgree
  <1>3. PICK Q : Q = [j \in 1 .. k |-> P[j]]
    OBVIOUS
  <1>4. Running(Q, w, k - 1)
    <2>1. Q \in [1 .. k - 1 + 1 -> Nat] /\ Q[1] = 0
      BY <1>0, <1>1, <1>3
    <2>2. ASSUME NEW j \in 1 .. k - 1 PROVE Q[j + 1] = Q[j] + w[j]
      <3>1. j \in 1 .. m /\ j \in 1 .. k /\ j + 1 \in 1 .. k
        BY <1>1
      <3>2. Q[j + 1] = P[j + 1] /\ Q[j] = P[j]
        BY <1>3, <3>1
      <3>3. QED
        BY <1>0, <1>2, <3>1, <3>2
    <2>3. QED
      BY <2>1, <2>2 DEF Running
  <1>5. Sum(w, 1 .. k - 1) = Q[k - 1 + 1]
    BY <1>1, <1>4, RunsUp
  <1>6. Q[k] = P[k]
    BY <1>1, <1>3
  <1>7. QED
    BY <1>1, <1>2, <1>5, <1>6

\* A bank is contained in itself and nothing longer is.
LEMMA BankIsBounded ==
    ASSUME NEW bank, NEW n, NEW ids, Bank(bank, n, ids)
    PROVE  BankContains(bank, 0, Size(bank)) /\ ~BankContains(bank, 1, Size(bank))
  <1>1. n \in Nat /\ Len(bank) = n /\ n + 1 \in 1 .. n + 1
    BY DEF Bank
  <1>2. PICK k : k = n + 1
    OBVIOUS
  <1>3. PICK w \in [1 .. k - 1 -> Nat] : Start(bank, k) = 2 + Sum(w, 1 .. k - 1)
    <2>1. k \in 1 .. n + 1
      BY <1>1, <1>2
    <2>2. \E w \in [1 .. k - 1 -> Nat] : /\ \A j \in 1 .. k - 1 : w[j] = 2 + bank[j].len
                                         /\ Start(bank, k) = 2 + Sum(w, 1 .. k - 1)
      BY <2>1, FrontsAgree, Zenon
    <2>3. QED
      BY <2>2, Zenon
  <1>4. Sum(w, 1 .. k - 1) \in Nat
    <2>1. IsFiniteSet(1 .. k - 1)
      BY <1>1, <1>2, FS_Interval
    <2>2. QED
      BY <2>1, SumNat
  <1>5. Size(bank) = 2 + Sum(w, 1 .. k - 1)
    BY <1>1, <1>2, <1>3 DEF Size
  <1>6. QED
    BY <1>4, <1>5 DEF BankContains

\* The id of the marker at the end of a bank.
EndId == 65535

\* The writable models, where StartsFrom has them when Model 123 is at place h.
Table(bank, h, first) ==
    /\ bank[h].id = 123 /\ Start(bank, h) = first
    /\ bank[h + 5].id = 703 /\ Start(bank, h + 5) = first + 204
    /\ bank[h + 6].id = 711 /\ Start(bank, h + 6) = first + 223
    /\ bank[h + 7].id = 134 /\ Start(bank, h + 7) = first + 247

\* Such a bank can be walked.
LEMMA TableWalks ==
    ASSUME NEW bank, NEW n, NEW ids, Bank(bank, n, ids), NEW h \in 1 .. n, h + 7 <= n, NEW first,
           Table(bank, h, first), bank[n].id = EndId
    PROVE  LayoutWalks(bank, StartsFrom(first))
  <1>1. n \in Nat /\ Len(bank) = n
    BY DEF Bank
  <1>2. \A k \in 1 .. n : FindModelInBank(bank, bank[k].id) = Start(bank, k)
    BY FoundAtStart
  <1>3. h + 5 \in 1 .. n /\ h + 6 \in 1 .. n /\ h + 7 \in 1 .. n
    BY <1>1
  <1>4. /\ FindModelInBank(bank, 123) = first /\ FindModelInBank(bank, 703) = first + 204
        /\ FindModelInBank(bank, 711) = first + 223 /\ FindModelInBank(bank, 134) = first + 247
    BY <1>2, <1>3 DEF Table
  <1>5. ASSUME NEW m \in ToSet(Writable) PROVE Addresses(bank)[m] = StartsFrom(first)[m]
    <2>1. m \in {123, 703, 711, 134}
      BY DEF ToSet, Writable
    <2>2. Addresses(bank)[m] = FindModelInBank(bank, m)
      BY DEF Addresses
    <2>3. QED
      BY <1>4, <2>1, <2>2 DEF StartsFrom
  <1>6. Addresses(bank) = StartsFrom(first)
    <2>1. Addresses(bank) = [m \in ToSet(Writable) |-> Addresses(bank)[m]]
      BY DEF Addresses
    <2>2. StartsFrom(first) = [m \in ToSet(Writable) |-> StartsFrom(first)[m]]
      <3> DEFINE At(m) == CASE m = 123 -> first [] m = 703 -> first + 204
                              [] m = 711 -> first + 223 [] m = 134 -> first + 247
      <3>1. StartsFrom(first) = [m \in ToSet(Writable) |-> At(m)]
        BY DEF StartsFrom
      <3> HIDE DEF At
      <3>2. QED
        BY <3>1
    <2>3. QED
      BY <1>5, <2>1, <2>2
  <1>7. \A k \in 1 .. n : bank[k].len = bank[k].width
    BY DEF Bank, Sound
  <1>8. QED
    BY <1>1, <1>2, <1>6, <1>7, BankIsBounded DEF LayoutWalks, EndId

-----------------------------------------------------------------------------
(* What the encoders emit (SunSpecBank).                                   *)

\* A section whose layout has the length declared is sound.
LEMMA SectionIs ==
    ASSUME NEW id, NEW len \in Nat, NEW layout, NEW reg, RegisterWidth(layout) = len
    PROVE  Sound(Section(id, len, layout, reg), id) /\ Section(id, len, layout, reg).len = len
  BY DEF Section, Sound

\* So is a listing of n rows.
LEMMA ListingIs ==
    ASSUME NEW id, NEW n \in Nat, NEW a \in Nat, NEW b \in Nat, NEW header, NEW row, NEW reg,
           RegisterWidth(header) = a, RegisterWidth(row) = b
    PROVE  Sound(Listing(id, a + b * n, header, n, row, reg), id)
  <1>1. PICK p \in Nat : p = b * n /\ p = n * b
    OBVIOUS
  <1>2. QED
    BY <1>1 DEF Listing, Sound

\* Sequences put one behind the other are a sequence.
LEMMA FlattenIsSeq ==
    ASSUME NEW V, NEW n \in Nat, NEW seqs \in [1 .. n -> Seq(V)]
    PROVE  FlattenSeq(seqs) \in Seq(V)
  <1>1. seqs \in Seq(Seq(V)) /\ Len(seqs) = n
    OBVIOUS
  <1>2. CASE n = 0
    <2>1. FlattenSeq(seqs) = seqs
      BY <1>1, <1>2 DEF FlattenSeq
    <2>2. seqs = <<>>
      BY <1>1, <1>2, EmptySeq
    <2>3. QED
      BY <2>1, <2>2
  <1>3. CASE n # 0
    <2> DEFINE Rec(f) == [i \in 1 .. Len(seqs) |-> IF i = 1 THEN seqs[i] ELSE f[i - 1] \o seqs[i]]
               flatten == CHOOSE f : f = Rec(f)
               F == [p \in Nat \X Seq(V) |-> IF p[1] + 1 \in 1 .. n THEN p[2] \o seqs[p[1] + 1] ELSE p[2]]
    <2>1. F \in [Nat \X Seq(V) -> Seq(V)]
      BY ConcatProperties
    <2>2. PICK g : g \in [Nat -> Seq(V)] /\ g[0] = <<>> /\ \A i \in Nat : g[i + 1] = F[<<i, g[i]>>]
      <3> HIDE DEF F
      <3>1. <<>> \in Seq(V)
        OBVIOUS
      <3>2. \E g : Iterates(g, Seq(V), <<>>, F)
        BY <2>1, <3>1, Iteration
      <3>3. QED
        BY <3>2 DEF Iterates
    <2>3. ASSUME NEW i \in 1 .. n PROVE g[i] = g[i - 1] \o seqs[i]
      <3>1. PICK j : j = i - 1
        OBVIOUS
      <3>2. j \in Nat /\ j + 1 = i /\ g[j] \in Seq(V)
        BY <2>2, <3>1
      <3>3. g[i] = F[<<j, g[j]>>]
        BY <2>2, <3>2
      <3>4. QED
        BY <3>1, <3>2, <3>3
    <2> HIDE DEF F
    <2> DEFINE h == [i \in 1 .. n |-> g[i]]
    <2>4. h = Rec(h)
      <3>1. ASSUME NEW i \in 1 .. n PROVE g[i] = IF i = 1 THEN seqs[i] ELSE h[i - 1] \o seqs[i]
        <4>1. CASE i = 1
          <5>1. g[i] = g[0] \o seqs[i] /\ seqs[i] \in Seq(V)
            BY <2>3, <4>1
          <5>2. <<>> \o seqs[i] = seqs[i]
            BY <5>1, ConcatEmptySeq
          <5>3. QED
            BY <2>2, <4>1, <5>1, <5>2
        <4>2. CASE i # 1
          <5>1. i - 1 \in 1 .. n
            BY <4>2
          <5>2. QED
            BY <2>3, <4>2, <5>1
        <4>3. QED
          BY <4>1, <4>2
      <3>2. QED
        BY <1>1, <3>1
    <2>5. flatten = Rec(flatten)
      <3> HIDE DEF Rec, h
      <3>1. QED
        BY <2>4
    <2>6. FlattenSeq(seqs) = flatten[n]
      BY <1>1, <1>3 DEF FlattenSeq
    <2> HIDE DEF flatten
    <2> DEFINE T == {i \in Nat : i + 1 \in 1 .. n => flatten[i + 1] \in Seq(V)}
    <2>7. 0 \in T
      <3>1. 1 \in 1 .. n
        BY <1>3
      <3>2. flatten[1] = seqs[1]
        BY <1>1, <2>5, <3>1
      <3>3. QED
        BY <3>1, <3>2
    <2>8. ASSUME NEW i \in Nat, i \in T PROVE i + 1 \in T
      <3>1. SUFFICES ASSUME i + 1 + 1 \in 1 .. n PROVE flatten[i + 1 + 1] \in Seq(V)
        OBVIOUS
      <3>2. PICK j, k : j = i + 1 /\ k = j + 1
        OBVIOUS
      <3>3. j \in 1 .. n /\ k \in 1 .. n /\ k # 1 /\ k - 1 = j /\ flatten[j] \in Seq(V)
        BY <2>8, <3>1, <3>2
      <3>4. flatten[k] = flatten[k - 1] \o seqs[k]
        BY <1>1, <2>5, <3>3
      <3>5. flatten[j] \o seqs[k] \in Seq(V)
        BY <3>3, ConcatProperties
      <3>6. QED
        BY <3>2, <3>3, <3>4, <3>5
    <2> HIDE DEF T
    <2>9. \A i \in Nat : i \in T
      BY <2>7, <2>8, SetInduction
    <2>10. n - 1 \in T /\ n - 1 + 1 = n
      BY <1>3, <2>9
    <2>11. QED
      BY <1>3, <2>6, <2>10 DEF T
  <1>4. QED
    BY <1>2, <1>3

\* The fleet uses one to three legs.
LEMMA PhasesAre ==
    ASSUME NEW s
    PROVE  DetectPhase(s) \in 1 .. 3
  <1>1. PICK legs : legs = UNION {LegsOf(inv) : inv \in ToSet(Online(s))}
    OBVIOUS
  <1>2. \A inv : LegsOf(inv) \subseteq 1 .. 3
    BY DEF LegsOf, Leg
  <1>3. legs \subseteq 1 .. 3
    BY <1>1, <1>2
  <1>4. IsFiniteSet(1 .. 3) /\ Cardinality(1 .. 3) = 3
    <2>1. 1 \in Int /\ 3 \in Int /\ ~(1 > 3) /\ 3 - 1 + 1 = 3
      OBVIOUS
    <2>2. IsFiniteSet(1 .. 3) /\ Cardinality(1 .. 3) = IF 1 > 3 THEN 0 ELSE 3 - 1 + 1
      BY <2>1, FS_Interval, Zenon
    <2>3. QED
      BY <2>1, <2>2
  <1>5. IsFiniteSet(legs) /\ Cardinality(legs) <= 3
    BY <1>3, <1>4, FS_Subset
  <1>6. Cardinality(legs) \in Nat /\ (Cardinality(legs) = 0 <=> legs = {})
    BY <1>5, FS_CardinalityType, FS_EmptySet
  <1>7. DetectPhase(s) = IF legs = {} THEN 1 ELSE Cardinality(legs)
    BY <1>1 DEF DetectPhase
  <1>8. QED
    BY <1>5, <1>6, <1>7

\* No panels, or a number of them.
LEMMA PanelsAre ==
    ASSUME NEW inv
    PROVE  \E n \in Nat : DOMAIN PanelPowers(inv) = 1 .. n /\ Len(PanelPowers(inv)) = n
  <1>1. PICK p : p = PanelPowers(inv)
    OBVIOUS
  <1>2. PanelCount(inv.model) \in Nat
    BY DEF PanelCount
  <1>3. CASE p = <<>>
    BY <1>1, <1>3
  <1>4. CASE p # <<>>
    <2> DEFINE At(k) == IF k <= Len(inv.panels) THEN inv.panels[k] ELSE 0
    <2>1. p = [k \in 1 .. PanelCount(inv.model) |-> At(k)]
      BY <1>1, <1>4 DEF PanelPowers
    <2> HIDE DEF At
    <2>2. DOMAIN p = 1 .. PanelCount(inv.model) /\ Len(p) = PanelCount(inv.model)
      BY <1>2, <2>1
    <2>3. QED
      BY <1>1, <1>2, <2>2
  <1>5. QED
    BY <1>3, <1>4

\* A list of no section or of a sound one.
AtMostOne(list, id) == Bank(list, 0, {id}) \/ Bank(list, 1, {id})

\* A section alone is a bank,
LEMMA OneSection ==
    ASSUME NEW sec, NEW id, Sound(sec, id)
    PROVE  Bank(<<sec>>, 1, {id})
  BY DEF Bank, Sound

\* and so is none.
LEMMA NoSection == \A id : Bank(<<>>, 0, {id})
  BY DEF Bank

\* Model 160 of any inverters.
LEMMA MultiMPPTIs ==
    ASSUME NEW invs, Len(invs) \in Nat
    PROVE  AtMostOne(EmitMultiMPPT(invs), 160)
  <1> DEFINE One(inv, k) == [dca |-> IF inv.volts > 0 THEN Deciamps(PanelPowers(inv)[k], inv.volts) ELSE NotImpl,
                             dcv |-> IF inv.volts > 0 THEN inv.volts ELSE NotImpl,
                             dcw |-> PanelPowers(inv)[k],
                             st |-> IF PanelPowers(inv)[k] > 0 THEN "mppt" ELSE "off"]
             Of(inv) == [k \in 1..Len(PanelPowers(inv)) |-> One(inv, k)]
             modules == FlattenSeq([k \in 1..Len(invs) |-> Of(invs[k])])
             n == Len(modules)
             V == UNION {{One(invs[k], j) : j \in 1 .. Len(PanelPowers(invs[k]))} : k \in 1 .. Len(invs)}
  <1>1. EmitMultiMPPT(invs) =
           IF n = 0 THEN <<>> ELSE << Listing(160, 8 + 20 * n, MPPTHeader, n, MPPTModule, [N |-> n, Modules |-> modules]) >>
    BY DEF EmitMultiMPPT
  <1> HIDE DEF One
  <1>2. ASSUME NEW k \in 1 .. Len(invs) PROVE Of(invs[k]) \in Seq(V)
    <2>1. Len(PanelPowers(invs[k])) \in Nat
      BY PanelsAre
    <2>2. \A j \in 1 .. Len(PanelPowers(invs[k])) : One(invs[k], j) \in V
      OBVIOUS
    <2> HIDE DEF V
    <2>3. Of(invs[k]) \in [1 .. Len(PanelPowers(invs[k])) -> V]
      BY <2>2
    <2>4. QED
      BY <2>1, <2>3, SeqDef
  <1> HIDE DEF V, Of
  <1>3. [k \in 1..Len(invs) |-> Of(invs[k])] \in [1 .. Len(invs) -> Seq(V)]
    BY <1>2
  <1>4. modules \in Seq(V)
    BY <1>3, FlattenIsSeq
  <1> HIDE DEF modules
  <1>5. n \in Nat
    BY <1>4, LenProperties
  <1> HIDE DEF n
  <1>6. CASE n = 0
    <2>1. EmitMultiMPPT(invs) = <<>>
      BY <1>1, <1>6
    <2>2. QED
      BY <2>1, NoSection DEF AtMostOne
  <1>7. CASE n # 0
    <2>1. Sound(Listing(160, 8 + 20 * n, MPPTHeader, n, MPPTModule, [N |-> n, Modules |-> modules]), 160)
      BY <1>5, MPPTHeaderIs, MPPTModuleIs, ListingIs
    <2>2. QED
      BY <1>1, <1>7, <2>1, OneSection DEF AtMostOne
  <1>8. QED
    BY <1>6, <1>7

\* The id of the vendor's model.
VendorId == 64202

\* The vendor's model of any fleet.
LEMMA VendorIs ==
    ASSUME NEW s, Len(s.invs) \in Nat
    PROVE  AtMostOne(EmitVendor(s), VendorId)
  <1> DEFINE n == Len(s.invs)
             reg == [N |-> n, Limit |-> [k \in 1..n |-> s.invs[k].cap], Online |-> [k \in 1..n |-> s.invs[k].online]]
  <1>1. EmitVendor(s) = IF n = 0 THEN <<>> ELSE << Listing(VendorId, 16 + 10 * n, VendorHeader, n, VendorRow, reg) >>
    BY DEF EmitVendor, VendorId
  <1> HIDE DEF n, reg
  <1>2. n \in Nat
    BY DEF n
  <1>3. CASE n = 0
    BY <1>1, <1>3, NoSection DEF AtMostOne
  <1>4. CASE n # 0
    <2>1. Sound(Listing(VendorId, 16 + 10 * n, VendorHeader, n, VendorRow, reg), VendorId)
      BY <1>2, VendorHeaderIs, VendorRowIs, ListingIs
    <2>2. QED
      BY <1>1, <1>4, <2>1, OneSection DEF AtMostOne
  <1>5. QED
    BY <1>3, <1>4

\* Sections of fixed length, by id and length.
EmitsOf(sec, id, len) == Sound(sec, id) /\ sec.len = len

\* What a section of a layout as wide as declared is.
LEMMA EmitsIs ==
    ASSUME NEW id, NEW len \in Nat, NEW layout, NEW reg, RegisterWidth(layout) = len
    PROVE  EmitsOf(Section(id, len, layout, reg), id, len)
  BY SectionIs DEF EmitsOf

\* Ids, lengths and widths of what the emitters of fixed length write.
LEMMA MeasurementsAre ==
    ASSUME NEW sn, NEW da, NEW values, NEW phases \in 1 .. 3, NEW invs, NEW w, NEW s
    PROVE  /\ EmitsOf(EmitCommon(sn, da), 1, 66)
           /\ EmitsOf(EmitInverter(phases, values), 100 + phases, 50)
           /\ EmitsOf(EmitInverterFloat(phases, values), 110 + phases, 60)
           /\ EmitsOf(EmitDCDataFloat(invs), 114, 48) /\ EmitsOf(EmitNameplate(w), 120, 26)
           /\ EmitsOf(EmitBasicSettings(s), 121, 30) /\ EmitsOf(EmitControls(invs), 123, 24)
  <1>1. EmitsOf(EmitCommon(sn, da), 1, 66)
    BY CommonLayoutIs, EmitsIs DEF EmitCommon
  <1>2. EmitsOf(EmitInverter(phases, values), 100 + phases, 50)
    BY InverterLayoutIs, EmitsIs DEF EmitInverter
  <1>3. EmitsOf(EmitInverterFloat(phases, values), 110 + phases, 60)
    BY FloatLayoutIs, EmitsIs DEF EmitInverterFloat
  <1>4. EmitsOf(EmitDCDataFloat(invs), 114, 48)
    BY DCDataLayoutIs, EmitsIs DEF EmitDCDataFloat
  <1>5. EmitsOf(EmitNameplate(w), 120, 26)
    BY NameplateLayoutIs, EmitsIs DEF EmitNameplate
  <1>6. EmitsOf(EmitBasicSettings(s), 121, 30)
    BY SettingsLayoutIs, EmitsIs DEF EmitBasicSettings
  <1>7. EmitsOf(EmitControls(invs), 123, 24)
    BY ControlsLayoutIs, EmitsIs DEF EmitControls
  <1>8. QED
    BY <1>1, <1>2, <1>3, <1>4, <1>5, <1>6, <1>7

\* The sections of the protection parameters, whatever these are.
LEMMA ProtectionsAre ==
    ASSUME NEW p, NEW rslt, NEW req
    PROVE  /\ \E a, b, c, d : /\ EmitDERTripModels(p) = <<a, b, c, d>>
                              /\ EmitsOf(a, 707, 38) /\ EmitsOf(b, 708, 38) /\ EmitsOf(c, 709, 47) /\ EmitsOf(d, 710, 47)
           /\ EmitsOf(EmitEnterService(p), 703, 17) /\ EmitsOf(EmitFreqDroop(p, rslt, req), 711, 22)
           /\ EmitsOf(EmitFreqWattCurve(p), 134, 68)
  <1>1. ASSUME NEW reg
        PROVE  /\ EmitsOf(Section(707, 38, TripLayout(VPoint), reg), 707, 38)
               /\ EmitsOf(Section(708, 38, TripLayout(VPoint), reg), 708, 38)
               /\ EmitsOf(Section(709, 47, TripLayout(HzPoint), reg), 709, 47)
               /\ EmitsOf(Section(710, 47, TripLayout(HzPoint), reg), 710, 47)
    BY TripLayoutsAre, EmitsIs
  <1>2. \E a, b, c, d : /\ EmitDERTripModels(p) = <<a, b, c, d>>
                        /\ EmitsOf(a, 707, 38) /\ EmitsOf(b, 708, 38) /\ EmitsOf(c, 709, 47) /\ EmitsOf(d, 710, 47)
    <2> DEFINE t == TripPoints(p)
               a == Section(707, 38, TripLayout(VPoint), TripValues(t.LV))
               b == Section(708, 38, TripLayout(VPoint), TripValues(t.HV))
               c == Section(709, 47, TripLayout(HzPoint), TripValues(t.LF))
               d == Section(710, 47, TripLayout(HzPoint), TripValues(t.HF))
    <2>1. EmitDERTripModels(p) = <<a, b, c, d>>
      BY DEF EmitDERTripModels
    <2>2. EmitsOf(a, 707, 38) /\ EmitsOf(b, 708, 38) /\ EmitsOf(c, 709, 47) /\ EmitsOf(d, 710, 47)
      BY <1>1
    <2> HIDE DEF a, b, c, d
    <2>3. QED
      BY <2>1, <2>2
  <1>3. EmitsOf(EmitEnterService(p), 703, 17)
    BY EnterServiceLayoutIs, EmitsIs DEF EmitEnterService
  <1>4. EmitsOf(EmitFreqDroop(p, rslt, req), 711, 22)
    BY FreqDroopLayoutIs, EmitsIs DEF EmitFreqDroop
  <1>5. EmitsOf(EmitFreqWattCurve(p), 134, 68)
    <2>1. 10 + 58 = 68
      OBVIOUS
    <2>2. QED
      BY <2>1, FreqWattLayoutIs, EmitsIs DEF EmitFreqWattCurve
  <1>6. QED
    BY <1>2, <1>3, <1>4, <1>5

\* The marker behind the last section.
LEMMA EndIs == Sound(EndMarker, EndId)
  BY NoLayoutIs, SectionIs DEF EndMarker, EndId

-----------------------------------------------------------------------------
(* The banks of the fleet and of an inverter.                              *)

\* The models in front of protection, those of protection, and both kinds of the latter.
FrontIds == {1, 114, 120, 121, 123} \cup 101 .. 103 \cup 111 .. 113
TripIds == {707, 708, 709, 710}
ServiceIds == {703, 711, 134}
MiddleIds == TripIds \cup ServiceIds

\* Protection, behind whatever stands in front of it.
Protected(front, p, rslt) ==
    front \o EmitDERTripModels(p) \o << EmitEnterService(p), EmitFreqDroop(p, rslt[1], rslt[2]), EmitFreqWattCurve(p) >>

\* The seven sections behind Model 123, from place h + 1.
Middle(bank, h) ==
    /\ EmitsOf(bank[h + 1], 707, 38) /\ EmitsOf(bank[h + 2], 708, 38)
    /\ EmitsOf(bank[h + 3], 709, 47) /\ EmitsOf(bank[h + 4], 710, 47)
    /\ EmitsOf(bank[h + 5], 703, 17) /\ EmitsOf(bank[h + 6], 711, 22) /\ EmitsOf(bank[h + 7], 134, 68)

\* Protection keeps a bank one.
LEMMA ProtectedIs ==
    ASSUME NEW front, NEW h, Bank(front, h, FrontIds), NEW p, NEW rslt
    PROVE  /\ Bank(Protected(front, p, rslt), h + 7, FrontIds \cup MiddleIds)
           /\ Middle(Protected(front, p, rslt), h)
           /\ \A k \in 1 .. h : Protected(front, p, rslt)[k] = front[k]
  <1> DEFINE trips == EmitDERTripModels(p)
             e == EmitEnterService(p)
             f == EmitFreqDroop(p, rslt[1], rslt[2])
             g == EmitFreqWattCurve(p)
  <1>1. PICK a, b, c, d : /\ trips = <<a, b, c, d>>
                          /\ EmitsOf(a, 707, 38) /\ EmitsOf(b, 708, 38) /\ EmitsOf(c, 709, 47) /\ EmitsOf(d, 710, 47)
    BY ProtectionsAre
  <1>2. EmitsOf(e, 703, 17) /\ EmitsOf(f, 711, 22) /\ EmitsOf(g, 134, 68)
    BY ProtectionsAre
  <1>3. Protected(front, p, rslt) = (front \o trips) \o <<e, f, g>>
    BY DEF Protected
  <1> HIDE DEF trips, e, f, g
  <1>4. PICK t, r, i, j : t = front \o trips /\ r = <<e, f, g>> /\ i = 4 /\ j = 3
    OBVIOUS
  <1>5. Bank(trips, i, TripIds)
    <2>1. Sound(a, 707) /\ Sound(b, 708) /\ Sound(c, 709) /\ Sound(d, 710)
      BY <1>1 DEF EmitsOf
    <2>2. Bank(<<a, b, c, d>>, 4, TripIds)
      BY ONLY <2>1 DEF Bank, Sound, TripIds
    <2>3. QED
      BY <1>1, <1>4, <2>2
  <1>6. Bank(r, j, ServiceIds)
    <2>1. Sound(e, 703) /\ Sound(f, 711) /\ Sound(g, 134)
      BY <1>2 DEF EmitsOf
    <2>2. Bank(<<e, f, g>>, 3, ServiceIds)
      BY ONLY <2>1 DEF Bank, Sound, ServiceIds
    <2>3. QED
      BY <1>4, <2>2
  <1>7. Joined(t, front, h, trips, i, FrontIds \cup TripIds)
    <2>1. Apart(FrontIds, TripIds)
      BY DEF FrontIds, TripIds, Apart
    <2>2. QED
      BY <1>4, <1>5, <2>1, BanksJoin, Zenon
  <1>8. PICK q : q = t \o r
    OBVIOUS
  <1>9. Joined(q, t, h + i, r, j, (FrontIds \cup TripIds) \cup ServiceIds)
    <2>1. Apart(FrontIds \cup TripIds, ServiceIds)
      BY DEF FrontIds, TripIds, ServiceIds, Apart
    <2>2. Bank(t, h + i, FrontIds \cup TripIds)
      BY <1>7 DEF Joined
    <2>3. QED
      BY <1>6, <1>8, <2>1, <2>2, BanksJoin, Zenon
  <1>10. q = Protected(front, p, rslt) /\ h \in Nat /\ h + i = h + 4 /\ h + i + j = h + 7
    <2>1. q = Protected(front, p, rslt)
      BY <1>3, <1>4, <1>8
    <2>2. h \in Nat
      BY DEF Bank
    <2>3. QED
      BY <1>4, <2>1, <2>2
  <1>11. FrontIds \cup TripIds \cup ServiceIds = FrontIds \cup MiddleIds
    BY DEF MiddleIds
  <1>12. Bank(q, h + 7, FrontIds \cup MiddleIds)
    BY <1>9, <1>10, <1>11 DEF Joined
  <1>13. ASSUME NEW k \in 1 .. h PROVE q[k] = front[k]
    <2>1. k \in 1 .. h + i
      BY <1>4, <1>10
    <2>2. q[k] = t[k] /\ t[k] = front[k]
      BY <1>7, <1>9, <2>1 DEF Joined
    <2>3. QED
      BY <2>2
  <1>14. q[h + 1] = a /\ q[h + 2] = b /\ q[h + 3] = c /\ q[h + 4] = d
    <2>1. \A k \in 1 .. 4 : h + k \in 1 .. h + 4
      BY <1>10
    <2>2. \A k \in 1 .. 4 : q[h + k] = trips[k]
      BY <1>4, <1>7, <1>9, <1>10, <2>1 DEF Joined
    <2>3. QED
      BY <1>1, <2>2
  <1>15. q[h + 5] = e /\ q[h + 6] = f /\ q[h + 7] = g
    <2>1. h + i + 1 = h + 5 /\ h + i + 2 = h + 6 /\ h + i + 3 = h + 7
      BY <1>4, <1>10
    <2>2. r[1] = e /\ r[2] = f /\ r[3] = g
      BY <1>4
    <2>3. q[h + i + 1] = e /\ q[h + i + 2] = f /\ q[h + i + 3] = g
      BY <1>4, <1>9, <2>2 DEF Joined
    <2>4. QED
      BY <2>1, <2>3
  <1>16. Middle(q, h)
    BY <1>1, <1>2, <1>14, <1>15 DEF Middle
  <1>17. QED
    BY <1>10, <1>12, <1>13, <1>16

\* What is behind keeps what is in front, and its ids are other ones.
Longer(long, bank, n, ids) ==
    \E m \in Nat : m >= n /\ Bank(long, m, ids) /\ \A k \in 1 .. n : long[k] = bank[k]

\* So does a list of a model that is not in it.
LEMMA Behind ==
    ASSUME NEW bank, NEW n, NEW ids, Bank(bank, n, ids), NEW list, NEW id, AtMostOne(list, id), id \notin ids
    PROVE  Longer(bank \o list, bank, n, ids \cup {id})
  <1>1. n \in Nat /\ Apart(ids, {id})
    BY DEF Bank, Apart
  <1>2. PICK m : m \in Nat /\ Bank(list, m, {id})
    BY DEF AtMostOne
  <1>3. Joined(bank \o list, bank, n, list, m, ids \cup {id})
    BY <1>1, <1>2, BanksJoin, Zenon
  <1>4. n + m \in Nat /\ n + m >= n
    BY <1>1, <1>2
  <1>5. QED
    BY <1>3, <1>4 DEF Joined, Longer

\* The marker ends a bank and keeps what is in front.
LEMMA Ended ==
    ASSUME NEW bank, NEW n, NEW ids, Bank(bank, n, ids), EndId \notin ids
    PROVE  Joined(bank \o <<EndMarker>>, bank, n, <<EndMarker>>, 1, ids \cup {EndId})
  <1>1. Sound(EndMarker, EndId) /\ Apart(ids, {EndId})
    BY EndIs DEF Apart
  <1>2. PICK end, one : end = <<EndMarker>> /\ one = 1
    OBVIOUS
  <1>3. Bank(end, one, {EndId})
    BY <1>1, <1>2, OneSection
  <1>4. Joined(bank \o end, bank, n, end, one, ids \cup {EndId})
    BY <1>1, <1>3, BanksJoin, Zenon
  <1>5. QED
    BY <1>2, <1>4

\* A bank of inverter or fleet: sections of fixed length in front, protection,
\* lists of other ids, the marker.
Closed(bank, q, n) ==
    /\ \E m \in Nat : /\ m > n /\ bank[m].id = EndId
                      /\ Bank(bank, m, FrontIds \cup MiddleIds \cup {160} \cup {VendorId} \cup {EndId})
    /\ \A k \in 1 .. n : bank[k] = q[k]

\* The list of panels and that of the vendor come behind protection.
LEMMA ClosedIs ==
    ASSUME NEW q, NEW n, Bank(q, n, FrontIds \cup MiddleIds), NEW panels, AtMostOne(panels, 160),
           NEW vendor, AtMostOne(vendor, VendorId)
    PROVE  Closed(q \o panels \o vendor \o <<EndMarker>>, q, n)
  <1>1. PICK a, b : a = 160 /\ b = VendorId
    OBVIOUS
  <1>2. a \notin FrontIds \cup MiddleIds
    BY <1>1 DEF FrontIds, MiddleIds, TripIds, ServiceIds
  <1>3. b \notin FrontIds \cup MiddleIds \cup {a}
    BY <1>1 DEF FrontIds, MiddleIds, TripIds, ServiceIds, VendorId
  <1>4. EndId \notin FrontIds \cup MiddleIds \cup {a} \cup {b}
    BY <1>1 DEF FrontIds, MiddleIds, TripIds, ServiceIds, VendorId, EndId
  <1>5. AtMostOne(panels, a) /\ AtMostOne(vendor, b)
    BY <1>1
  <1>6. Longer(q \o panels, q, n, FrontIds \cup MiddleIds \cup {a})
    BY <1>2, <1>5, Behind, Zenon
  <1>7. PICK r : r = q \o panels
    OBVIOUS
  <1>8. PICK m \in Nat : m >= n /\ Bank(r, m, FrontIds \cup MiddleIds \cup {a}) /\ \A k \in 1 .. n : r[k] = q[k]
    BY <1>6, <1>7 DEF Longer
  <1>9. Longer(r \o vendor, r, m, FrontIds \cup MiddleIds \cup {a} \cup {b})
    BY <1>3, <1>5, <1>8, Behind, Zenon
  <1>10. PICK t : t = r \o vendor
    OBVIOUS
  <1>11. PICK l \in Nat : l >= m /\ Bank(t, l, FrontIds \cup MiddleIds \cup {a} \cup {b}) /\ \A k \in 1 .. m : t[k] = r[k]
    BY <1>9, <1>10 DEF Longer
  <1>12. Joined(t \o <<EndMarker>>, t, l, <<EndMarker>>, 1, FrontIds \cup MiddleIds \cup {a} \cup {b} \cup {EndId})
    BY <1>4, <1>11, Ended, Zenon
  <1>13. PICK bank : bank = t \o <<EndMarker>>
    OBVIOUS
  <1>14. n \in Nat
    BY DEF Bank
  <1>15. Bank(bank, l + 1, FrontIds \cup MiddleIds \cup {a} \cup {b} \cup {EndId})
    BY <1>12, <1>13 DEF Joined
  <1>16. bank[l + 1].id = EndId
    <2>1. bank[l + 1] = <<EndMarker>>[1]
      <3>1. \A k \in 1 .. 1 : bank[l + k] = <<EndMarker>>[k]
        BY <1>12, <1>13 DEF Joined
      <3>2. 1 \in 1 .. 1
        OBVIOUS
      <3>3. QED
        BY <3>1, <3>2
    <2>2. EndMarker.id = EndId
      BY EndIs DEF Sound
    <2>3. QED
      BY <2>1, <2>2
  <1>17. ASSUME NEW k \in 1 .. n PROVE bank[k] = q[k]
    <2>1. k \in 1 .. m /\ k \in 1 .. l
      BY <1>8, <1>11, <1>14
    <2>2. bank[k] = t[k] /\ t[k] = r[k] /\ r[k] = q[k]
      BY <1>8, <1>11, <1>12, <1>13, <2>1 DEF Joined
    <2>3. QED
      BY <2>2
  <1>18. l + 1 \in Nat /\ l + 1 > n
    BY <1>8, <1>11, <1>14
  <1>19. Closed(bank, q, n)
    BY <1>1, <1>15, <1>16, <1>17, <1>18 DEF Closed
  <1>20. QED
    BY <1>7, <1>10, <1>13, <1>19

\* Registers in front of the seven sections of protection and behind them,
\* counted from Model 123.
Steps == <<26, 66, 106, 155, 204, 223, 247, 317>>

\* They are numbers.
LEMMA StepsAre ==
    /\ \A k \in 1 .. 8 : Steps[k] \in Nat
    /\ Steps[1] = 26 /\ Steps[5] = 204 /\ Steps[6] = 223 /\ Steps[7] = 247
  <1>1. \A k \in 1 .. 8 : k \in {1, 2, 3, 4, 5, 6, 7, 8}
    OBVIOUS
  <1>2. /\ Steps[1] = 26 /\ Steps[2] = 66 /\ Steps[3] = 106 /\ Steps[4] = 155
        /\ Steps[5] = 204 /\ Steps[6] = 223 /\ Steps[7] = 247 /\ Steps[8] = 317
    BY DEF Steps
  <1>3. \A k \in 1 .. 8 : Steps[k] \in Nat
    BY <1>1, <1>2
  <1>4. QED
    BY <1>2, <1>3

\* One section further.
LEMMA StepIs ==
    ASSUME NEW bank, NEW h \in Nat, Middle(bank, h), NEW k \in 1 .. 7, NEW j, j = h + k, NEW i, i = k + 1
    PROVE  Steps[i] = Steps[k] + (2 + bank[j].len)
  <1>1. k \in {1, 2, 3, 4, 5, 6, 7}
    OBVIOUS
  <1>2. /\ bank[h + 1].len = 38 /\ bank[h + 2].len = 38 /\ bank[h + 3].len = 47 /\ bank[h + 4].len = 47
        /\ bank[h + 5].len = 17 /\ bank[h + 6].len = 22 /\ bank[h + 7].len = 68
    BY DEF Middle, EmitsOf
  <1>3. /\ Steps[1] = 26 /\ Steps[2] = 66 /\ Steps[3] = 106 /\ Steps[4] = 155
        /\ Steps[5] = 204 /\ Steps[6] = 223 /\ Steps[7] = 247 /\ Steps[8] = 317
    BY DEF Steps
  <1>4. QED
    BY <1>1, <1>2, <1>3

\* What can be walked: a closed bank whose protection starts where it should.
LEMMA ClosedWalks ==
    ASSUME NEW front, NEW h \in Nat \ {0}, Bank(front, h, FrontIds), EmitsOf(front[h], 123, 24), NEW p, NEW rslt,
           NEW bank, Closed(bank, Protected(front, p, rslt), h + 7), NEW F, InFront(front, h - 1, F)
    PROVE  LayoutWalks(bank, StartsFrom(2 + F[h]))
  <1>1. PICK ids, n : n \in Nat /\ n > h + 7 /\ Bank(bank, n, ids) /\ bank[n].id = EndId
    BY DEF Closed
  <1>2. PICK q : q = Protected(front, p, rslt)
    OBVIOUS
  <1>3. Middle(q, h) /\ \A k \in 1 .. h : q[k] = front[k]
    <2>1. Middle(Protected(front, p, rslt), h) /\ \A k \in 1 .. h : Protected(front, p, rslt)[k] = front[k]
      BY ProtectedIs
    <2>2. QED
      BY <1>2, <2>1
  <1>4. \A k \in 1 .. h + 7 : bank[k] = q[k]
    BY <1>2 DEF Closed
  <1>5. Middle(bank, h)
    <2>1. {h + 1, h + 2, h + 3, h + 4, h + 5, h + 6, h + 7} \subseteq 1 .. h + 7
      OBVIOUS
    <2>2. QED
      BY <1>3, <1>4, <2>1 DEF Middle
  <1>6. \A k \in 1 .. h : bank[k] = front[k]
    BY <1>3, <1>4
  <1>7. PICK f \in Nat : f = F[h]
    <2>1. F \in [1 .. h -> Nat] /\ h \in 1 .. h
      BY DEF InFront
    <2>2. QED
      BY <2>1
  <1>8. PICK D : D = Steps
    OBVIOUS
  <1>9. PICK P, m : P = [j \in 1 .. h + 8 |-> IF j <= h THEN F[j] ELSE f + D[j - h]] /\ m = h + 7
    OBVIOUS
  <1>10. m \in 0 .. n /\ h \in 1 .. h /\ m + 1 = h + 8
    BY <1>1, <1>9
  <1>11. (\A k \in 1 .. 8 : D[k] \in Nat) /\ D[1] = 26 /\ D[5] = 204 /\ D[6] = 223 /\ D[7] = 247
    BY <1>8, StepsAre
  <1>12. ASSUME NEW k \in 1 .. 8 PROVE P[h + k] = f + D[k]
    <2>1. PICK j : j = h + k
      OBVIOUS
    <2>2. j \in 1 .. h + 8 /\ ~(j <= h) /\ j - h = k
      BY <2>1
    <2>3. QED
      BY <1>9, <2>1, <2>2
  <1>13. \A j \in 1 .. h : P[j] = F[j]
    BY <1>9
  <1>14. \A j \in 1 .. m : j \in 1 .. h - 1 \/ j = h \/ \E k \in 1 .. 7 : j = h + k
    <2>1. ASSUME NEW j \in 1 .. m, ~(j <= h) PROVE j - h \in 1 .. 7 /\ j = h + (j - h)
      BY <1>9, <2>1
    <2>2. \A j \in 1 .. m : j <= h => j \in 1 .. h - 1 \/ j = h
      OBVIOUS
    <2>3. QED
      BY <2>1, <2>2
  <1>15. P \in [1 .. m + 1 -> Nat]
    <2>1. ASSUME NEW j \in 1 .. h + 8 PROVE P[j] \in Nat
      <3>1. CASE j <= h
        <4>1. j \in 1 .. h /\ F \in [1 .. h -> Nat]
          BY <3>1 DEF InFront
        <4>2. QED
          BY <1>13, <4>1
      <3>2. CASE ~(j <= h)
        <4>1. PICK k : k = j - h
          OBVIOUS
        <4>2. k \in 1 .. 8 /\ j = h + k
          BY <3>2, <4>1
        <4>3. P[j] = f + D[k] /\ D[k] \in Nat
          BY <1>11, <1>12, <4>2
        <4>4. QED
          BY <4>3
      <3>3. QED
        BY <3>1, <3>2
    <2>2. P = [j \in 1 .. h + 8 |-> P[j]]
      BY <1>9
    <2>3. QED
      BY <1>10, <2>1, <2>2
  <1>16. ASSUME NEW j \in 1 .. m PROVE P[j + 1] = P[j] + (2 + bank[j].len)
    <2>1. CASE j \in 1 .. h - 1
      <3>1. j \in 1 .. h /\ j + 1 \in 1 .. h
        BY <2>1
      <3>2. P[j] = F[j] /\ P[j + 1] = F[j + 1] /\ bank[j] = front[j]
        BY <1>6, <1>13, <3>1
      <3>3. F[j + 1] = F[j] + (2 + front[j].len)
        BY <2>1 DEF InFront
      <3>4. QED
        BY <3>2, <3>3
    <2>2. CASE j = h
      <3>1. P[h] = f
        BY <1>7, <1>10, <1>13
      <3>2. P[h + 1] = f + 26
        <4>1. 1 \in 1 .. 8
          OBVIOUS
        <4>2. P[h + 1] = f + D[1]
          BY <1>12, <4>1
        <4>3. QED
          BY <1>11, <4>2
      <3>3. bank[h].len = 24
        BY <1>6, <1>10 DEF EmitsOf
      <3>4. QED
        BY <2>2, <3>1, <3>2, <3>3
    <2>3. ASSUME NEW k \in 1 .. 7, j = h + k PROVE P[j + 1] = P[j] + (2 + bank[j].len)
      <3>1. PICK i : i = k + 1
        OBVIOUS
      <3>2. i \in 1 .. 8 /\ k \in 1 .. 8 /\ j + 1 = h + i
        BY <2>3, <3>1
      <3>3. P[j + 1] = f + D[i] /\ P[j] = f + D[k]
        BY <1>12, <2>3, <3>2
      <3>4. D[i] = D[k] + (2 + bank[j].len)
        <4>1. h \in Nat
          OBVIOUS
        <4>2. k \in 1 .. 7
          OBVIOUS
        <4>3. Steps[i] = Steps[k] + (2 + bank[j].len)
          BY <1>5, <2>3, <3>1, <4>1, <4>2, StepIs
        <4>4. QED
          BY <1>8, <4>3
      <3>5. bank[j].len \in Nat
        <4>1. j \in 1 .. n
          BY <1>1, <1>10
        <4>2. QED
          BY <1>1, <4>1 DEF Bank, Sound
      <3>6. D[k] \in Nat /\ D[i] \in Nat
        BY <1>11, <3>2
      <3>7. QED
        <4>1. \A a, b, l \in Nat : a = b + (2 + l) => f + a = (f + b) + (2 + l)
          BY <1>7
        <4>2. QED
          BY <3>3, <3>4, <3>5, <3>6, <4>1
    <2>4. QED
      BY <1>14, <2>1, <2>2, <2>3
  <1>17. P[1] = 0
    BY <1>13 DEF InFront
  <1>18. InFront(bank, m, P)
    BY <1>15, <1>16, <1>17 DEF InFront
  <1>19. \A k \in 1 .. m + 1 : Start(bank, k) = 2 + P[k]
    BY <1>1, <1>10, <1>18, StartIs
  <1>20. Table(bank, h, 2 + f)
    <2>1. Start(bank, h) = 2 + f
      <3>1. h \in 1 .. m + 1 /\ P[h] = f
        BY <1>7, <1>10, <1>13
      <3>2. QED
        BY <1>19, <3>1
    <2>2. ASSUME NEW k \in 1 .. 8 PROVE Start(bank, h + k) = 2 + (f + D[k])
      <3>1. PICK j : j = h + k
        OBVIOUS
      <3>2. j \in 1 .. m + 1 /\ P[j] = f + D[k]
        <4>1. j \in 1 .. h + 8
          BY <3>1
        <4>2. P[j] = f + D[k]
          BY <1>12, <3>1
        <4>3. QED
          BY <1>10, <4>1, <4>2
      <3>3. QED
        BY <1>19, <3>1, <3>2
    <2>3. /\ Start(bank, h + 5) = 2 + (f + 204) /\ Start(bank, h + 6) = 2 + (f + 223)
          /\ Start(bank, h + 7) = 2 + (f + 247)
      <3>1. 5 \in 1 .. 8 /\ 6 \in 1 .. 8 /\ 7 \in 1 .. 8
        OBVIOUS
      <3>2. /\ Start(bank, h + 5) = 2 + (f + D[5]) /\ Start(bank, h + 6) = 2 + (f + D[6])
            /\ Start(bank, h + 7) = 2 + (f + D[7])
        BY <2>2, <3>1
      <3>3. QED
        BY <1>11, <3>2
    <2>4. bank[h].id = 123
      BY <1>6, <1>10 DEF EmitsOf, Sound
    <2>5. bank[h + 5].id = 703 /\ bank[h + 6].id = 711 /\ bank[h + 7].id = 134
      BY <1>5 DEF Middle, EmitsOf, Sound
    <2>6. /\ 2 + (f + 204) = 2 + f + 204 /\ 2 + (f + 223) = 2 + f + 223 /\ 2 + (f + 247) = 2 + f + 247
      OBVIOUS
    <2>7. QED
      BY <2>1, <2>3, <2>4, <2>5, <2>6 DEF Table
  <1>21. h \in 1 .. n /\ h + 7 <= n
    BY <1>1
  <1>22. PICK first : first = 2 + f
    OBVIOUS
  <1>23. LayoutWalks(bank, StartsFrom(first))
    <2>1. Table(bank, h, first) /\ bank[n].id = EndId
      BY <1>1, <1>20, <1>22
    <2>2. QED
      BY <1>1, <1>21, <2>1, TableWalks
  <1>24. QED
    BY <1>7, <1>22, <1>23

\* The bank of any fleet, whatever protection and write results it shows.
LEMMA FleetBankWalks ==
    ASSUME NEW s, Len(s.invs) \in Nat, NEW p, NEW rslt
    PROVE  LayoutWalks(Encode(s, p, rslt), FleetAt)
  <1> DEFINE phases == DetectPhase(s)
             values == AggregateValues(s)
             a == EmitCommon("fleet", 1)
             b == EmitInverter(phases, values)
             c == EmitInverterFloat(phases, values)
             d == EmitDCDataFloat(s.invs)
             e == EmitNameplate(IF s.rated > 0 THEN s.rated ELSE TotalNameplateW(s))
             f == EmitBasicSettings(s)
             g == EmitControls(s.invs)
             front == <<a, b, c, d, e, f, g>>
             q == Protected(front, p, rslt)
             F == <<0, 68, 120, 182, 232, 260, 292>>
  <1>1. Encode(s, p, rslt) = q \o EmitMultiMPPT(s.invs) \o EmitVendor(s) \o <<EndMarker>>
    BY DEF Encode, Protected
  <1>2. phases \in 1 .. 3
    BY PhasesAre
  <1> HIDE DEF phases, values
  <1>3. /\ EmitsOf(a, 1, 66) /\ EmitsOf(b, 100 + phases, 50) /\ EmitsOf(c, 110 + phases, 60)
        /\ EmitsOf(d, 114, 48) /\ EmitsOf(e, 120, 26) /\ EmitsOf(f, 121, 30) /\ EmitsOf(g, 123, 24)
    BY <1>2, MeasurementsAre
  <1> HIDE DEF a, b, c, d, e, f, g
  <1>4. Bank(front, 7, FrontIds)
    <2>1. /\ Sound(a, 1) /\ Sound(b, 100 + phases) /\ Sound(c, 110 + phases) /\ Sound(d, 114) /\ Sound(e, 120)
          /\ Sound(f, 121) /\ Sound(g, 123)
      BY <1>3 DEF EmitsOf
    <2>2. 100 + phases \in 101 .. 103 /\ 110 + phases \in 111 .. 113
      BY <1>2
    <2>3. QED
      BY ONLY <2>1, <2>2 DEF Bank, Sound, FrontIds
  <1>5. EmitsOf(front[7], 123, 24) /\ 7 \in Nat \ {0}
    BY <1>3
  <1>6. InFront(front, 7 - 1, F)
    <2>1. a.len = 66 /\ b.len = 50 /\ c.len = 60 /\ d.len = 48 /\ e.len = 26 /\ f.len = 30
      BY <1>3 DEF EmitsOf
    <2>2. \A j \in 1 .. 6 : j \in {1, 2, 3, 4, 5, 6}
      OBVIOUS
    <2>3. \A j \in 1 .. 6 : F[j + 1] = F[j] + (2 + front[j].len)
      BY ONLY <2>1, <2>2
    <2>4. 7 - 1 = 6 /\ F \in [1 .. 7 -> Nat] /\ F[1] = 0
      OBVIOUS
    <2>5. QED
      BY <2>3, <2>4 DEF InFront
  <1>7. F[7] = 292
    OBVIOUS
  <1> HIDE DEF front, F
  <1>8. Closed(Encode(s, p, rslt), q, 7 + 7)
    <2>1. Bank(q, 7 + 7, FrontIds \cup MiddleIds)
      BY <1>4, ProtectedIs
    <2>2. AtMostOne(EmitMultiMPPT(s.invs), 160) /\ AtMostOne(EmitVendor(s), VendorId)
      BY MultiMPPTIs, VendorIs
    <2>3. QED
      BY <1>1, <2>1, <2>2, ClosedIs
  <1>9. LayoutWalks(Encode(s, p, rslt), StartsFrom(2 + F[7]))
    BY <1>4, <1>5, <1>6, <1>8, ClosedWalks
  <1>10. QED
    BY <1>7, <1>9 DEF FleetAt

\* The bank of an inverter: no settings of the plant, nothing of the vendor.
LEMMA InverterBankWalks ==
    ASSUME NEW s, NEW k, NEW rslt
    PROVE  LayoutWalks(EncodePerInverter(s, k, rslt), InverterAt)
  <1> DEFINE inv == s.invs[k]
             p == s.prots[s.uids[k]]
             values == PerInverterValues(inv)
             one == <<inv>>
             a == EmitCommon(s.uids[k], k + 1)
             b == EmitInverter(1, values)
             c == EmitInverterFloat(1, values)
             d == EmitDCDataFloat(one)
             e == EmitNameplate(NameplateW(inv.model))
             f == EmitControls(one)
             front == <<a, b, c, d, e, f>>
             q == Protected(front, p, rslt)
             F == <<0, 68, 120, 182, 232, 260>>
  <1>1. EncodePerInverter(s, k, rslt) = q \o EmitMultiMPPT(one) \o <<EndMarker>>
    BY DEF EncodePerInverter, Protected
  <1>2. Len(one) \in Nat /\ 1 \in 1 .. 3
    OBVIOUS
  <1> HIDE DEF one, values
  <1>3. /\ EmitsOf(a, 1, 66) /\ EmitsOf(b, 100 + 1, 50) /\ EmitsOf(c, 110 + 1, 60)
        /\ EmitsOf(d, 114, 48) /\ EmitsOf(e, 120, 26) /\ EmitsOf(f, 123, 24)
    BY <1>2, MeasurementsAre
  <1> HIDE DEF inv, p, a, b, c, d, e, f
  <1>4. Bank(front, 6, FrontIds)
    <2>1. /\ Sound(a, 1) /\ Sound(b, 101) /\ Sound(c, 111) /\ Sound(d, 114) /\ Sound(e, 120) /\ Sound(f, 123)
      BY <1>3 DEF EmitsOf
    <2>2. QED
      BY ONLY <2>1 DEF Bank, Sound, FrontIds
  <1>5. EmitsOf(front[6], 123, 24) /\ 6 \in Nat \ {0}
    BY <1>3
  <1>6. InFront(front, 6 - 1, F)
    BY <1>3 DEF InFront, EmitsOf
  <1>7. F[6] = 260
    OBVIOUS
  <1> HIDE DEF front, F
  <1>8. Closed(EncodePerInverter(s, k, rslt), q, 6 + 7)
    <2>1. Bank(q, 6 + 7, FrontIds \cup MiddleIds)
      BY <1>4, ProtectedIs
    <2>2. AtMostOne(EmitMultiMPPT(one), 160) /\ AtMostOne(<<>>, VendorId)
      BY <1>2, MultiMPPTIs, NoSection DEF AtMostOne
    <2>3. Closed(q \o EmitMultiMPPT(one) \o <<>> \o <<EndMarker>>, q, 6 + 7)
      BY <2>1, <2>2, ClosedIs
    <2>4. (q \o EmitMultiMPPT(one)) \o <<>> = q \o EmitMultiMPPT(one)
      OBVIOUS
    <2>5. QED
      BY <1>1, <2>3, <2>4
  <1>9. LayoutWalks(EncodePerInverter(s, k, rslt), StartsFrom(2 + F[6]))
    BY <1>4, <1>5, <1>6, <1>8, ClosedWalks
  <1>10. QED
    BY <1>7, <1>9 DEF InverterAt

-----------------------------------------------------------------------------
(* Snapshots (SunSpecBank).                                                *)

\* What stands for units are UIDs of the client.
LEMMA ListedIsSeq ==
    ASSUME NEW V, NEW seq \in Seq(V), NEW fleet
    PROVE  ListedOf(seq, fleet) \in Seq(V)
  <1> DEFINE F == [p \in Nat \X Seq(V) |->
                     IF p[1] + 1 \in 1 .. Len(seq) /\ fleet[seq[p[1] + 1]].listed THEN Append(p[2], seq[p[1] + 1]) ELSE p[2]]
             Rec(f) == [n \in 0 .. Len(seq) |->
                          IF n = 0 THEN <<>> ELSE IF fleet[seq[n]].listed THEN Append(f[n - 1], seq[n]) ELSE f[n - 1]]
             upto == CHOOSE f : f = Rec(f)
  <1>1. Len(seq) \in Nat /\ \A i \in 1 .. Len(seq) : seq[i] \in V
    BY LenProperties, ElementOfSeq
  <1>2. <<>> \in Seq(V)
    OBVIOUS
  <1>3. F \in [Nat \X Seq(V) -> Seq(V)]
    <2>1. \A q \in Seq(V), v \in V : Append(q, v) \in Seq(V)
      BY AppendProperties
    <2>2. QED
      BY <1>1, <2>1
  <1>4. PICK g : g \in [Nat -> Seq(V)] /\ g[0] = <<>> /\ \A n \in Nat : g[n + 1] = F[<<n, g[n]>>]
    <2> HIDE DEF F
    <2>1. \E g : Iterates(g, Seq(V), <<>>, F)
      BY <1>2, <1>3, Iteration
    <2>2. QED
      BY <2>1 DEF Iterates
  <1> DEFINE h == [n \in 0 .. Len(seq) |-> g[n]]
  <1>5. h = Rec(h)
    <2> HIDE DEF h, Rec, F
    <2>1. ASSUME NEW n \in 1 .. Len(seq)
          PROVE  g[n] = IF fleet[seq[n]].listed THEN Append(g[n - 1], seq[n]) ELSE g[n - 1]
      <3>1. n - 1 \in Nat /\ (n - 1) + 1 = n /\ n - 1 + 1 \in 1 .. Len(seq)
            /\ <<n - 1, g[n - 1]>> \in Nat \X Seq(V)
        <4>1. n \in Nat /\ n - 1 \in Nat /\ (n - 1) + 1 = n
          BY <1>1
        <4>2. g[n - 1] \in Seq(V)
          BY <1>4, <4>1
        <4>3. QED
          BY <4>1, <4>2
      <3>2. g[n] = F[<<n - 1, g[n - 1]>>]
        BY <1>4, <3>1
      <3>3. QED
        BY <3>1, <3>2 DEF F
    <2>2. \A n \in 0 .. Len(seq) : h[n] = Rec(h)[n]
      <3>0. 0 \in 0 .. Len(seq) /\ h[0] = g[0] /\ Rec(h)[0] = <<>>
        BY <1>1 DEF h, Rec
      <3>1. SUFFICES ASSUME NEW n \in 0 .. Len(seq), n # 0 PROVE h[n] = Rec(h)[n]
        BY <1>4, <3>0
      <3>2. n \in 1 .. Len(seq) /\ n - 1 \in 0 .. Len(seq)
        BY <1>1, <3>1
      <3>3. h[n] = g[n] /\ h[n - 1] = g[n - 1]
        BY <3>2 DEF h
      <3>4. QED
        BY <2>1, <3>1, <3>2, <3>3 DEF Rec
    <2>3. QED
      BY <2>2 DEF h, Rec
  <1>6. upto = Rec(upto)
    <2> HIDE DEF Rec, h
    <2>1. QED
      BY <1>5
  <1>7. ListedOf(seq, fleet) = upto[Len(seq)]
    BY DEF ListedOf
  <1> HIDE DEF upto, F
  <1> DEFINE T == {n \in Nat : n <= Len(seq) => upto[n] \in Seq(V)}
  <1>8. 0 \in T
    BY <1>1, <1>2, <1>6
  <1>9. ASSUME NEW n \in Nat, n \in T PROVE n + 1 \in T
    <2>1. SUFFICES ASSUME n + 1 <= Len(seq) PROVE upto[n + 1] \in Seq(V)
      OBVIOUS
    <2>2. n + 1 \in 1 .. Len(seq) /\ n + 1 # 0 /\ (n + 1) - 1 = n /\ n + 1 \in 0 .. Len(seq)
      BY <1>1, <2>1
    <2>3. upto[n] \in Seq(V) /\ seq[n + 1] \in V
      BY <1>1, <1>9, <2>1, <2>2
    <2>4. upto[n + 1] = IF fleet[seq[n + 1]].listed THEN Append(upto[n], seq[n + 1]) ELSE upto[n]
      <3>1. upto[n + 1] = Rec(upto)[n + 1]
        BY <1>6
      <3>2. QED
        BY <2>2, <3>1
    <2>5. Append(upto[n], seq[n + 1]) \in Seq(V)
      BY <2>3, AppendProperties
    <2>6. QED
      BY <2>3, <2>4, <2>5
  <1>10. \A n \in Nat : n \in T
    <2> HIDE DEF T
    <2>1. QED
      BY <1>8, <1>9, SetInduction
  <1>11. QED
    BY <1>1, <1>7, <1>10

\* The trip a reading holds is a number.
LEMMA ReadingsAre ==
    ASSUME NEW r \in Readings \cup {NotListed}
    PROVE  "AK" \in DOMAIN r.wire => r.wire["AK"] \in Int
  <1>1. CASE r \in Readings
    BY <1>1, SunAssumption
  <1>2. CASE r = NotListed
    <2>1. r.wire = <<>>
      BY <1>2 DEF NotListed
    <2>2. DOMAIN r.wire = {}
      BY <2>1
    <2>3. QED
      BY <2>2
  <1>3. QED
    BY <1>1, <1>2

\* provider.Build makes snapshots of UIDs and numbers.
LEMMA SnapshotIsOK ==
    ASSUME NEW fleet \in [SunUids -> Readings \cup {NotListed}]
    PROVE  SnapOK(BuildSnapshot(UidOrder, fleet, RatedW))
  <1> DEFINE s == BuildSnapshot(UidOrder, fleet, RatedW)
  <1>1. UidOrder \in Seq(SunUids)
    BY SunAssumption
  <1>2. s.uids = ListedOf(UidOrder, fleet) /\ s.prots = [u \in SunUids |-> SanitizeProtection(fleet[u])]
    BY DEF BuildSnapshot, SunUids
  <1>3. s.uids \in Seq(SunUids) /\ Len(s.invs) \in Nat
    <2>1. s.uids \in Seq(SunUids)
      BY <1>1, <1>2, ListedIsSeq
    <2>2. s.invs = [k \in 1..Len(s.uids) |-> fleet[s.uids[k]]]
      BY <1>2 DEF BuildSnapshot
    <2> HIDE DEF s
    <2>3. QED
      BY <2>1, <2>2
  <1> HIDE DEF s
  <1>4. ASSUME NEW u \in SunUids PROVE Value(s.prots[u], "AK") \in Int
    <2>1. s.prots[u].val = fleet[u].wire
      BY <1>2 DEF SanitizeProtection
    <2>2. "AK" \in DOMAIN fleet[u].wire => fleet[u].wire["AK"] \in Int
      BY ReadingsAre
    <2>3. QED
      BY <2>1, <2>2 DEF Value
  <1>5. QED
    BY <1>3, <1>4 DEF SnapOK, s

-----------------------------------------------------------------------------
(* The inductive invariant of the SunSpec server.                          *)

\* The writes that are over, each tracked at most once.
Over == IF request = NoLoad THEN writeOps ELSE writeOps - 1

SunTypes ==
    /\ cache \in [SunUids -> Readings \cup {NotListed}]
    /\ stored \in BOOLEAN /\ (stored => building # NoBanks)
    /\ moved \in BOOLEAN
    /\ changes \in 0 .. MaxChanges /\ writeOps \in 0 .. MaxWriteOps
    /\ request # NoLoad => writeOps > 0

\* Whatever snapshot a handler may load.
SnapshotsOK ==
    /\ building # NoBanks => SnapOK(building)
    /\ snap # NoBanks => SnapOK(snap)
    /\ banks # NoBanks => SnapOK(banks.of)

\* What the client has read, and whether it still holds.
LearnedOK ==
    learned # NoBanks =>
        /\ learned.unit \in UnitIds /\ learned.sn \in SunUids \cup {"fleet"} /\ KindOfBank(learned.at)
        /\ snap # NoBanks /\ ~moved => Whose(snap, learned.unit) = learned.sn

RequestOK ==
    request # NoLoad =>
        /\ learned # NoBanks
        /\ request.ask \in Asks /\ KindOfBank(request.at) /\ AddressOf(request.ask, request.addr)

Results == {"in progress", "completed", "failed"}
EntryOK(e, n) ==
    \/ e = NoEntry
    \/ \E want : \E rslt \in Results, age \in 0 .. 2, req \in 1 .. n :
          e = [rslt |-> rslt, want |-> want, age |-> age, req |-> req]
TrackerOK ==
    /\ tracker = [k \in Keys |-> tracker[k]]
    /\ \A k \in Keys : EntryOK(tracker[k], Over)

LandedOK ==
    landed # NoLoad =>
        /\ landed.model = landed.ask.model /\ landed.param = Meant(landed.ask)
        /\ ~landed.stale => IF landed.meant = "fleet" THEN landed.model = 123 ELSE landed.to = {landed.meant}
        /\ landed.model # 123 => \E u : landed.to = {u}
        /\ landed.param = "CA" => landed.room >= 50

SunInv == SunTypes /\ SnapshotsOK /\ LearnedOK /\ RequestOK /\ TrackerOK /\ LandedOK

SunBounds == MaxChanges \in Nat /\ MaxWriteOps \in Nat

\* The constants in the form the steps cite.
LEMMA SunBoundsHold ==
    /\ SunBounds /\ UnitIds \subseteq Nat /\ "fleet" \notin SunUids
    /\ FirstFleets \subseteq [SunUids -> Readings \cup {NotListed}]
  BY SunAssumption DEF SunBounds

\* A tracker entry is what Track and Reconcile make of it.
LEMMA EntryMade ==
    ASSUME NEW n, NEW rslt \in Results, NEW want, NEW age \in 0 .. 2, NEW req \in 1 .. n, NEW e,
           e = [rslt |-> rslt, want |-> want, age |-> age, req |-> req]
    PROVE  EntryOK(e, n) /\ e.rslt \in Results /\ e.age \in 0 .. 2 /\ e.req \in 1 .. n
  <1>1. EntryOK(e, n)
    <2>1. \E x \in Results, a \in 0 .. 2, q \in 1 .. n :
             e = [rslt |-> x, want |-> want, age |-> a, req |-> q]
      OBVIOUS
    <2>2. \E w : \E x \in Results, a \in 0 .. 2, q \in 1 .. n :
             e = [rslt |-> x, want |-> w, age |-> a, req |-> q]
      BY <2>1, Zenon
    <2>3. QED
      BY <2>2, Zenon DEF EntryOK
  <1>2. e.rslt = rslt /\ e.age = age /\ e.req = req
    OBVIOUS
  <1>3. QED
    BY <1>1, <1>2

\* An entry stays one while writes end.
LEMMA EntryGrows ==
    ASSUME NEW e, NEW m \in Int, NEW n \in Int, m <= n, EntryOK(e, m)
    PROVE  EntryOK(e, n)
  <1>1. CASE e = NoEntry
    BY <1>1 DEF EntryOK
  <1>2. CASE e # NoEntry
    <2>1. PICK want :
             \E rslt \in Results, age \in 0 .. 2, req \in 1 .. m :
                      e = [rslt |-> rslt, want |-> want, age |-> age, req |-> req]
      BY <1>2, Zenon DEF EntryOK
    <2>2. PICK rslt \in Results, age \in 0 .. 2, req \in 1 .. m :
             e = [rslt |-> rslt, want |-> want, age |-> age, req |-> req]
      BY <2>1
    <2>3. req \in 1 .. n
      OBVIOUS
    <2>4. QED
      BY <2>2, <2>3, EntryMade
  <1>3. QED
    BY <1>1, <1>2

\* The server starts in the invariant.
LEMMA SunInitOK == SunInit => SunInv
  <1> SUFFICES ASSUME SunInit PROVE SunInv
    OBVIOUS
  <1>1. SunTypes
    <2>1. MaxChanges \in Nat /\ MaxWriteOps \in Nat
      BY SunBoundsHold DEF SunBounds
    <2>2. 0 \in 0 .. MaxChanges /\ 0 \in 0 .. MaxWriteOps
      BY <2>1
    <2>3. cache \in [SunUids -> Readings \cup {NotListed}]
      BY SunBoundsHold DEF SunInit
    <2>4. QED
      BY <2>2, <2>3 DEF SunInit, SunTypes
  <1>2. SnapshotsOK /\ LearnedOK /\ RequestOK /\ LandedOK
    BY DEF SunInit, SnapshotsOK, LearnedOK, RequestOK, LandedOK
  <1>3. TrackerOK
    BY DEF SunInit, TrackerOK, EntryOK
  <1>4. QED
    BY <1>1, <1>2, <1>3 DEF SunInv

\* The client of inv-driver changes.
LEMMA CacheChangesOK ==
    ASSUME SunInv, NEW u \in SunUids, NEW r \in Readings, CacheChanges(u, r)
    PROVE  SunInv'
  <1> USE SunBoundsHold DEF SunBounds
  <1>1. SunTypes'
    BY DEF SunInv, SunTypes, CacheChanges
  <1>2. SnapshotsOK'
    BY DEF SunInv, SnapshotsOK, CacheChanges
  <1>3. LearnedOK'
    BY DEF SunInv, LearnedOK, CacheChanges
  <1>4. RequestOK'
    BY DEF SunInv, RequestOK, CacheChanges
  <1>5. LandedOK'
    BY DEF SunInv, LandedOK, CacheChanges
  <1>6. TrackerOK'
    BY DEF SunInv, TrackerOK, Over, CacheChanges
  <1>7. QED
    BY <1>1, <1>2, <1>3, <1>4, <1>5, <1>6 DEF SunInv

\* A snapshot is built.
LEMMA RefreshBuildOK ==
    ASSUME SunInv, RefreshBuild
    PROVE  SunInv'
  <1> USE SunBoundsHold DEF SunBounds
  <1>1. SunTypes'
    BY DEF SunInv, SunTypes, RefreshBuild
  <1>2. SnapOK(building')
    <2>1. cache \in [SunUids -> Readings \cup {NotListed}]
      BY DEF SunInv, SunTypes
    <2>2. QED
      BY <2>1, SnapshotIsOK DEF RefreshBuild
  <1>3. SnapshotsOK'
    BY <1>2 DEF SunInv, SnapshotsOK, RefreshBuild
  <1>4. LearnedOK' /\ RequestOK' /\ LandedOK'
    BY DEF SunInv, LearnedOK, RequestOK, LandedOK, RefreshBuild
  <1>5. TrackerOK'
    BY DEF SunInv, TrackerOK, Over, RefreshBuild
  <1>6. QED
    BY <1>1, <1>3, <1>4, <1>5 DEF SunInv

\* Reconcile and PruneSettled of an entry.
LEMMA SettledIsOK ==
    ASSUME NEW e, NEW n, EntryOK(e, n), e # NoEntry, NEW s, NEW u
    PROVE  EntryOK(PruneSettled(Reconciled(e, s, u)), n)
  <1>0. PICK want :
           \E rslt \in Results, age \in 0 .. 2, req \in 1 .. n :
                    e = [rslt |-> rslt, want |-> want, age |-> age, req |-> req]
    BY Zenon DEF EntryOK
  <1>1. PICK rslt \in Results, age \in 0 .. 2, req \in 1 .. n :
           e = [rslt |-> rslt, want |-> want, age |-> age, req |-> req]
    BY <1>0
  <1>2. PICK d : d = Reconciled(e, s, u)
    OBVIOUS
  <1>3. \/ d = e
        \/ d = [e EXCEPT !.rslt = "completed"]
        \/ d = [e EXCEPT !.rslt = "failed"]
    BY <1>2, Zenon DEF Reconciled
  <1>4. \E x \in Results : d = [rslt |-> x, want |-> want, age |-> age, req |-> req]
    <2>0. rslt \in Results /\ "completed" \in Results /\ "failed" \in Results
      BY DEF Results
    <2>1. CASE d = e
      BY <1>1, <2>0, <2>1
    <2>2. CASE d = [e EXCEPT !.rslt = "completed"]
      BY <1>1, <2>0, <2>2
    <2>3. CASE d = [e EXCEPT !.rslt = "failed"]
      BY <1>1, <2>0, <2>3
    <2>4. QED
      BY <1>3, <2>1, <2>2, <2>3
  <1>5. EntryOK(d, n)
    BY <1>4, EntryMade
  <1>6. PruneSettled(d) = d \/ PruneSettled(d) = NoEntry
    BY DEF PruneSettled
  <1>7. QED
    BY <1>2, <1>5, <1>6 DEF EntryOK

\* Banks are stored and writes settled.
LEMMA RefreshStoreBanksOK ==
    ASSUME SunInv, RefreshStoreBanks
    PROVE  SunInv'
  <1> USE SunBoundsHold DEF SunBounds
  <1>1. SunTypes'
    BY DEF SunInv, SunTypes, RefreshStoreBanks
  <1>2. SnapshotsOK'
    <2>1. banks'.of = building /\ building # NoBanks
      BY DEF RefreshStoreBanks
    <2>2. QED
      BY <2>1 DEF SunInv, SnapshotsOK, RefreshStoreBanks
  <1>3. LearnedOK' /\ RequestOK' /\ LandedOK'
    BY DEF SunInv, LearnedOK, RequestOK, LandedOK, RefreshStoreBanks
  <1>4. TrackerOK'
    <2>1. tracker' = [k \in Keys |-> IF tracker[k] = NoEntry THEN NoEntry
                                     ELSE PruneSettled(Reconciled(tracker[k], building, k[1]))]
      BY DEF RefreshStoreBanks
    <2>2. Over' = Over /\ \A k \in Keys : EntryOK(tracker[k], Over)
      BY DEF SunInv, TrackerOK, Over, RefreshStoreBanks
    <2>3. ASSUME NEW k \in Keys PROVE EntryOK(tracker'[k], Over)
      <3>1. CASE tracker[k] = NoEntry
        BY <2>1, <3>1 DEF EntryOK
      <3>2. CASE tracker[k] # NoEntry
        <4>1. tracker'[k] = PruneSettled(Reconciled(tracker[k], building, k[1]))
          BY <2>1, <3>2
        <4>2. EntryOK(PruneSettled(Reconciled(tracker[k], building, k[1])), Over)
          BY <2>2, <3>2, SettledIsOK
        <4>3. QED
          BY <4>1, <4>2
      <3>3. QED
        BY <3>1, <3>2
    <2>4. tracker' = [k \in Keys |-> tracker'[k]]
      BY <2>1
    <2>5. QED
      BY <2>2, <2>3, <2>4 DEF TrackerOK
  <1>5. QED
    BY <1>1, <1>2, <1>3, <1>4 DEF SunInv

\* The snapshot is stored: what a unit means may change.
LEMMA RefreshStoreSnapOK ==
    ASSUME SunInv, RefreshStoreSnap
    PROVE  SunInv'
  <1>1. SunTypes'
    BY SunBoundsHold DEF SunInv, SunTypes, RefreshStoreSnap
  <1>2. SnapshotsOK'
    <2>1. SnapOK(building) /\ snap' = building /\ building' = NoBanks /\ banks' = banks
      BY DEF SunInv, SunTypes, SnapshotsOK, RefreshStoreSnap
    <2>2. QED
      BY <2>1 DEF SunInv, SnapshotsOK
  <1>3. LearnedOK'
    <2>1. /\ snap' = building /\ learned' = learned
          /\ ~moved' => ~moved /\ ~(learned # NoBanks /\ Whose(building, learned.unit) # learned.sn)
      BY DEF SunInv, SunTypes, RefreshStoreSnap
    <2>2. QED
      BY <2>1 DEF SunInv, LearnedOK
  <1>4. RequestOK'
    BY DEF SunInv, RequestOK, RefreshStoreSnap
  <1>5. LandedOK'
    BY DEF SunInv, LandedOK, RefreshStoreSnap
  <1>6. TrackerOK'
    BY DEF SunInv, TrackerOK, Over, RefreshStoreSnap
  <1>7. QED
    BY <1>1, <1>2, <1>3, <1>4, <1>5, <1>6 DEF SunInv

\* Time passes for an entry.
LEMMA ExpireOK ==
    ASSUME SunInv, NEW k \in Keys, Expire(k)
    PROVE  SunInv'
  <1>1. SunTypes'
    BY SunBoundsHold DEF SunInv, SunTypes, Expire
  <1>2. SnapshotsOK'
    BY DEF SunInv, SnapshotsOK, Expire
  <1>3. LearnedOK'
    BY DEF SunInv, LearnedOK, Expire
  <1>4. RequestOK'
    BY DEF SunInv, RequestOK, Expire
  <1>5. LandedOK'
    BY DEF SunInv, LandedOK, Expire
  <1>6. TrackerOK'
    <2>1. /\ tracker = [j \in Keys |-> tracker[j]] /\ Over' = Over
          /\ tracker' = [tracker EXCEPT ![k].age = @ + 1]
      BY DEF SunInv, TrackerOK, Over, Expire
    <2>2. tracker' = [j \in Keys |-> tracker'[j]]
      BY <2>1
    <2>3. \A j \in Keys : j # k => tracker'[j] = tracker[j]
      BY <2>1
    <2>4. EntryOK(tracker[k], Over) /\ tracker[k] # NoEntry
      BY DEF SunInv, TrackerOK, Expire
    <2>5. PICK want :
             \E rslt \in Results, age \in 0 .. 2, req \in 1 .. Over :
                tracker[k] = [rslt |-> rslt, want |-> want, age |-> age, req |-> req]
      BY <2>4, Zenon DEF EntryOK
    <2>6. PICK rslt \in Results, age \in 0 .. 2, req \in 1 .. Over :
             tracker[k] = [rslt |-> rslt, want |-> want, age |-> age, req |-> req]
      BY <2>5
    <2>7. age + 1 \in 0 .. 2
      BY <2>6 DEF Expire
    <2>8. tracker'[k] = [rslt |-> rslt, want |-> want, age |-> age + 1, req |-> req]
      BY <2>1, <2>6
    <2>9. EntryOK(tracker'[k], Over)
      BY <2>6, <2>7, <2>8, EntryMade
    <2>10. \A j \in Keys : EntryOK(tracker'[j], Over)
      BY <2>3, <2>9 DEF SunInv, TrackerOK
    <2>11. QED
      BY <2>1, <2>2, <2>10 DEF TrackerOK
  <1>7. QED
    BY <1>1, <1>2, <1>3, <1>4, <1>5, <1>6 DEF SunInv

\* A unit is shown a bank of one of the two kinds.
LEMMA BankShown ==
    ASSUME NEW s, NEW u \in Nat
    PROVE  /\ KindOfBank(BankFor(s, u).at)
           /\ SnapOK(s) => BankFor(s, u).sn \in SunUids \cup {"fleet"}
  <1>1. CASE UnitIndex(s, u) # 0
    <2>1. SnapOK(s) => s.uids[UnitIndex(s, u)] \in SunUids
      BY <1>1, UnitIs
    <2>2. BankFor(s, u).sn = s.uids[UnitIndex(s, u)] /\ BankFor(s, u).at = InverterAt
      BY <1>1 DEF BankFor
    <2>3. QED
      BY <2>1, <2>2 DEF KindOfBank, InverterAt
  <1>2. CASE UnitIndex(s, u) = 0
    <2>1. BankFor(s, u).sn = "fleet" /\ BankFor(s, u).at = FleetAt
      BY <1>2 DEF BankFor
    <2>2. QED
      BY <2>1 DEF KindOfBank, FleetAt
  <1>3. QED
    BY <1>1, <1>2

\* A client walks a bank.
LEMMA LearnOK ==
    ASSUME SunInv, NEW u \in UnitIds, Learn(u)
    PROVE  SunInv'
  <1> DEFINE shown == BankFor(banks.of, u)
  <1>1. /\ learned' = [unit |-> u, sn |-> shown.sn, at |-> shown.at]
        /\ moved' = (snap = NoBanks \/ Whose(snap, u) # shown.sn)
        /\ snap' = snap /\ request' = request /\ request = NoLoad
    BY DEF Learn
  <1>2. u \in Nat
    BY SunBoundsHold
  <1>3. SnapOK(banks.of)
    BY DEF SunInv, SnapshotsOK, Learn
  <1>4. shown.sn \in SunUids \cup {"fleet"} /\ KindOfBank(shown.at)
    BY <1>2, <1>3, BankShown
  <1> HIDE DEF shown
  <1>5. SunTypes'
    <2>1. moved' \in BOOLEAN
      BY <1>1
    <2>2. QED
      BY <2>1 DEF SunInv, SunTypes, Learn
  <1>6. SnapshotsOK'
    BY DEF SunInv, SnapshotsOK, Learn
  <1>7. LearnedOK'
    BY <1>1, <1>4 DEF LearnedOK
  <1>8. RequestOK'
    BY <1>1 DEF RequestOK
  <1>9. LandedOK'
    BY DEF SunInv, LandedOK, Learn
  <1>10. TrackerOK'
    BY DEF SunInv, TrackerOK, Over, Learn
  <1>11. QED
    BY <1>5, <1>6, <1>7, <1>8, <1>9, <1>10 DEF SunInv

\* A write is aimed at the bank that was read, and looked up in the present one.
LEMMA LoadBankOK ==
    ASSUME SunInv, NEW wr \in Asks, LoadBank(wr)
    PROVE  SunInv'
  <1>1. /\ request' = [ask |-> wr, at |-> BankFor(banks.of, learned.unit).at,
                       addr |-> learned.at[wr.model] + 2 + FirstReg(wr.model, wr.field)]
        /\ request = NoLoad /\ learned # NoBanks /\ writeOps' = writeOps + 1 /\ learned' = learned
        /\ writeOps < MaxWriteOps /\ writeOps \in 0 .. MaxWriteOps /\ tracker' = tracker
    BY DEF LoadBank, FirstReg, SunInv, SunTypes
  <1>2. MaxWriteOps \in Nat
    BY SunBoundsHold DEF SunBounds
  <1>3. SunTypes'
    <2>1. writeOps' \in 0 .. MaxWriteOps /\ writeOps' > 0
      BY <1>1, <1>2
    <2>2. QED
      BY <2>1 DEF SunInv, SunTypes, LoadBank
  <1>4. SnapshotsOK'
    BY DEF SunInv, SnapshotsOK, LoadBank
  <1>5. LearnedOK'
    BY DEF SunInv, LearnedOK, LoadBank
  <1>6. RequestOK'
    <2>1. KindOfBank(BankFor(banks.of, learned.unit).at)
      BY <1>1, SunBoundsHold, BankShown DEF SunInv, LearnedOK
    <2>2. KindOfBank(learned.at)
      BY <1>1 DEF SunInv, LearnedOK
    <2>3. AddressOf(wr, learned.at[wr.model] + 2 + FirstReg(wr.model, wr.field))
      BY <2>2 DEF KindOfBank, AddressOf, FirstStarts
    <2>4. request'.ask = wr /\ KindOfBank(request'.at) /\ AddressOf(request'.ask, request'.addr)
      BY <1>1, <2>1, <2>3
    <2>5. QED
      BY <1>1, <2>4 DEF RequestOK
  <1>7. LandedOK'
    BY DEF SunInv, LandedOK, LoadBank
  <1>8. TrackerOK'
    <2>1. Over \in Int /\ Over' \in Int /\ Over <= Over'
      BY <1>1, <1>2 DEF Over
    <2>2. \A k \in Keys : EntryOK(tracker[k], Over')
      BY <2>1, EntryGrows DEF SunInv, TrackerOK
    <2>3. QED
      BY <1>1, <2>2 DEF SunInv, TrackerOK
  <1>9. QED
    BY <1>3, <1>4, <1>5, <1>6, <1>7, <1>8 DEF SunInv

\* The write is handled with the present snapshot.
LEMMA LoadSnapOK ==
    ASSUME SunInv, LoadSnap
    PROVE  SunInv'
  <1> DEFINE u == learned.unit
             m == WrittenModel(request.at, request.addr, request.ask.vals)
             r == HandleWrite(request.at, snap, u, request.addr, request.ask.vals)
             k == UnitIndex(snap, u)
             goes == r.ok /\ r.param # "none" /\ (m = 123 \/ Routed(snap.invs[k].model, r.param))
             entry == [rslt |-> "in progress", want |-> r.want, age |-> 0,
                       req |-> IF tracker[<<u, m>>] = NoEntry THEN 1 ELSE tracker[<<u, m>>].req + 1]
             room == IF r.param = "CA" THEN Value(snap.prots[snap.uids[k]], "AK") - r.val ELSE 0
             put == /\ snap # NoBanks /\ goes
                    /\ landed' = [ask |-> request.ask, model |-> m, param |-> r.param,
                                  to |-> IF k # 0 THEN {snap.uids[k]} ELSE ToSet(snap.uids),
                                  meant |-> learned.sn, stale |-> moved, room |-> room]
                    /\ \/ tracker' = tracker
                       \/ tracker' = [tracker EXCEPT ![<<u, m>>] = entry]
  <1>1. put \/ (landed' = landed /\ tracker' = tracker)
    BY DEF LoadSnap
  <1>2. /\ request # NoLoad /\ request' = NoLoad /\ learned' = learned /\ snap' = snap /\ moved' = moved
        /\ writeOps' = writeOps /\ writeOps \in Nat \ {0} /\ moved \in BOOLEAN
    <2>1. /\ request # NoLoad /\ request' = NoLoad /\ learned' = learned /\ snap' = snap /\ moved' = moved
          /\ writeOps' = writeOps
      BY DEF LoadSnap
    <2>2. writeOps \in 0 .. MaxWriteOps /\ moved \in BOOLEAN /\ writeOps > 0
      BY <2>1 DEF SunInv, SunTypes
    <2>3. MaxWriteOps \in Nat
      BY SunBoundsHold DEF SunBounds
    <2>4. QED
      BY <2>1, <2>2, <2>3
  <1>3. /\ request.ask \in Asks /\ Asked(request.ask) /\ KindOfBank(request.at) /\ AddressOf(request.ask, request.addr)
        /\ learned # NoBanks /\ u \in Nat /\ learned.sn \in SunUids \cup {"fleet"}
    BY <1>2, AsksAre, SunBoundsHold DEF SunInv, RequestOK, LearnedOK
  <1>4. ASSUME put
        PROVE  /\ SnapOK(snap) /\ m = request.ask.model /\ r.param = Meant(request.ask)
               /\ m # 123 => k # 0
               /\ r.param = "CA" => room >= 50
    <2>1. SnapOK(snap)
      BY <1>4 DEF SunInv, SnapshotsOK
    <2>2. r.ok /\ r.param # "none"
      BY <1>4
    <2>3. QED
      BY <1>3, <2>1, <2>2, HandledAsMeant
  <1> HIDE DEF m, r, k, room
  <1>5. LandedOK'
    <2>1. CASE landed' = landed
      BY <2>1 DEF SunInv, LandedOK
    <2>2. CASE put
      <3>1. /\ landed'.ask = request.ask /\ landed'.model = m /\ landed'.param = r.param
            /\ landed'.to = IF k # 0 THEN {snap.uids[k]} ELSE ToSet(snap.uids)
            /\ landed'.meant = learned.sn /\ landed'.stale = moved /\ landed'.room = room
        BY <2>2
      <3>2. k # 0 => snap.uids[k] \in SunUids
        BY <1>3, <1>4, <2>2, UnitIs DEF k
      <3>3. snap # NoBanks
        BY <2>2
      <3>4. ~moved => learned.sn = IF k # 0 THEN snap.uids[k] ELSE "fleet"
        BY <1>3, <3>3 DEF SunInv, LearnedOK, Whose, k
      <3>5. ASSUME ~moved
            PROVE  IF learned.sn = "fleet" THEN m = 123 ELSE landed'.to = {learned.sn}
        <4>1. learned.sn = "fleet" => k = 0
          BY <3>2, <3>4, <3>5, SunBoundsHold
        <4>2. learned.sn # "fleet" => k # 0 /\ snap.uids[k] = learned.sn
          BY <3>4, <3>5
        <4>3. QED
          BY <1>4, <2>2, <3>1, <4>1, <4>2
      <3>6. m # 123 => landed'.to = {snap.uids[k]}
        BY <1>4, <2>2, <3>1
      <3>7. QED
        BY <1>4, <2>2, <3>1, <3>5, <3>6 DEF LandedOK
    <2>3. QED
      BY <1>1, <2>1, <2>2
  <1>6. TrackerOK'
    <2>1. /\ Over = writeOps - 1 /\ Over' = writeOps /\ Over \in Nat
          /\ tracker = [j \in Keys |-> tracker[j]] /\ \A j \in Keys : EntryOK(tracker[j], Over)
      BY <1>2 DEF Over, SunInv, TrackerOK
    <2>2. \A j \in Keys : EntryOK(tracker[j], Over')
      BY <1>2, <2>1, EntryGrows
    <2>3. CASE tracker' = tracker
      BY <2>1, <2>2, <2>3 DEF TrackerOK
    <2>4. CASE tracker' = [tracker EXCEPT ![<<u, m>>] = entry]
      <3> DEFINE key == <<u, m>>
      <3>1. tracker' = [j \in Keys |-> tracker'[j]]
        BY <2>1, <2>4
      <3>2. \A j \in Keys : j # key => tracker'[j] = tracker[j]
        BY <2>1, <2>4
      <3>3. key \in Keys => tracker'[key] = entry
        BY <2>1, <2>4
      <3>4. ASSUME key \in Keys PROVE EntryOK(entry, Over')
        <4>0. PICK want : want = r.want
          OBVIOUS
        <4>1. "in progress" \in Results
          BY DEF Results
        <4>2. PICK q : q = IF tracker[key] = NoEntry THEN 1 ELSE tracker[key].req + 1
          OBVIOUS
        <4>3. q \in 1 .. Over'
          <5>1. CASE tracker[key] = NoEntry
            BY <1>2, <2>1, <4>2, <5>1
          <5>2. CASE tracker[key] # NoEntry
            <6>1. tracker[key].req \in 1 .. Over
              BY <2>1, <3>4, <5>2, EntryMade DEF EntryOK
            <6>2. QED
              BY <1>2, <2>1, <4>2, <5>2, <6>1
          <5>3. QED
            BY <5>1, <5>2
        <4>4. entry = [rslt |-> "in progress", want |-> want, age |-> 0, req |-> q]
          BY <4>0, <4>2
        <4>5. 0 \in 0 .. 2
          OBVIOUS
        <4> HIDE DEF entry
        <4>6. QED
          BY <4>1, <4>3, <4>4, <4>5, EntryMade
      <3> HIDE DEF key, entry
      <3>5. \A j \in Keys : EntryOK(tracker'[j], Over')
        BY <2>2, <3>2, <3>3, <3>4
      <3>6. QED
        BY <3>1, <3>5 DEF TrackerOK
    <2>5. QED
      BY <1>1, <2>3, <2>4
  <1>7. SunTypes'
    BY SunBoundsHold DEF SunInv, SunTypes, LoadSnap
  <1>8. SnapshotsOK'
    BY DEF SunInv, SnapshotsOK, LoadSnap
  <1>9. LearnedOK'
    BY DEF SunInv, LearnedOK, LoadSnap
  <1>10. RequestOK'
    BY <1>2 DEF RequestOK
  <1>11. QED
    BY <1>5, <1>6, <1>7, <1>8, <1>9, <1>10 DEF SunInv

\* Nothing changes.
LEMMA SunStutterOK ==
    ASSUME SunInv, UNCHANGED sunVars
    PROVE  SunInv'
  <1>1. SunTypes'
    BY DEF SunInv, SunTypes, sunVars
  <1>2. SnapshotsOK' /\ LearnedOK'
    BY DEF SunInv, SnapshotsOK, LearnedOK, sunVars
  <1>3. RequestOK' /\ LandedOK'
    BY DEF SunInv, RequestOK, LandedOK, sunVars
  <1>4. TrackerOK'
    BY DEF SunInv, TrackerOK, Over, sunVars
  <1>5. QED
    BY <1>1, <1>2, <1>3, <1>4 DEF SunInv

\* Every step of the server preserves the invariant.
LEMMA SunInvInductive == SunInv /\ [SunNext]_sunVars => SunInv'
  <1> SUFFICES ASSUME SunInv, [SunNext]_sunVars PROVE SunInv'
    OBVIOUS
  <1>1. CASE \E u \in SunUids, r \in Readings : CacheChanges(u, r)
    BY <1>1, CacheChangesOK
  <1>2. CASE RefreshBuild
    BY <1>2, RefreshBuildOK
  <1>3. CASE RefreshStoreBanks
    BY <1>3, RefreshStoreBanksOK
  <1>4. CASE RefreshStoreSnap
    BY <1>4, RefreshStoreSnapOK
  <1>5. CASE \E k \in Keys : Expire(k)
    BY <1>5, ExpireOK
  <1>6. CASE \E u \in UnitIds : Learn(u)
    BY <1>6, LearnOK
  <1>7. CASE \E wr \in Asks : LoadBank(wr)
    BY <1>7, LoadBankOK
  <1>8. CASE LoadSnap
    BY <1>8, LoadSnapOK
  <1>9. CASE UNCHANGED sunVars
    BY <1>9, SunStutterOK
  <1>10. QED
    BY <1>1, <1>2, <1>3, <1>4, <1>5, <1>6, <1>7, <1>8, <1>9 DEF SunNext

\* The invariant is stronger than NoStrayWrite.
LEMMA SunInvMeans == SunInv => NoStrayWrite
  <1> SUFFICES ASSUME SunInv PROVE NoStrayWrite
    OBVIOUS
  <1>1. SunTypeOK
    <2>1. ASSUME NEW k \in Keys, tracker[k] # NoEntry
          PROVE  /\ tracker[k].rslt \in {"in progress", "completed", "failed"}
                 /\ tracker[k].req \in 1 .. MaxWriteOps /\ tracker[k].age \in 0 .. 2
      <3>1. tracker[k].rslt \in Results /\ tracker[k].age \in 0 .. 2 /\ tracker[k].req \in 1 .. Over
        BY <2>1, EntryMade DEF SunInv, TrackerOK, EntryOK
      <3>2. tracker[k].req \in 1 .. MaxWriteOps
        BY <3>1, SunBoundsHold DEF SunInv, SunTypes, Over, SunBounds
      <3>3. QED
        BY <3>1, <3>2 DEF Results
    <2>2. learned # NoBanks => learned.unit \in UnitIds /\ learned.sn \in SunUids \cup {"fleet"}
      BY DEF SunInv, LearnedOK
    <2>3. QED
      BY <2>1, <2>2 DEF SunInv, SunTypes, SunTypeOK
  <1>2. ASSUME landed # NoLoad, landed.model # 123
        PROVE  Cardinality(landed.to) = 1
    <2>1. PICK u : landed.to = {u}
      BY <1>2 DEF SunInv, LandedOK
    <2>2. QED
      BY <2>1, FS_Singleton
  <1>3. QED
    BY <1>1, <1>2 DEF SunInv, LandedOK, NoStrayWrite

(* A write that is applied changes the parameter it was meant for, at the  *)
(* inverter the client read unless its unit was given to another one, for  *)
(* any snapshots the handler loads (server.go:258-342): NoStrayWrite of    *)
(* any fleet, readings, writes to fields and number of changes.            *)
THEOREM WritesDoNotStray == SunSpec => []NoStrayWrite
  <1>1. SunInit => SunInv
    BY SunInitOK
  <1>2. SunInv /\ [SunNext]_sunVars => SunInv'
    BY SunInvInductive
  <1>3. SunInv => NoStrayWrite
    BY SunInvMeans
  <1>4. QED
    BY <1>1, <1>2, <1>3, PTL DEF SunSpec

\* The bank that unit u is answered from when s is what the banks are of.
BankAnswered(s, u, p, rslt) ==
    IF UnitIndex(s, u) # 0 THEN EncodePerInverter(s, UnitIndex(s, u), rslt) ELSE Encode(s, p, rslt)

\* Walked by the lengths it declares, it has each model where it starts, the
\* writable ones where a client is told, and its end at the marker.
BanksWalk ==
    banks # NoBanks =>
        \A u \in UnitIds : \A p, rslt : LayoutWalks(BankAnswered(banks.of, u, p, rslt), BankFor(banks.of, u).at)

(* Any bank the server answers from can be walked by its declared lengths, *)
(* whatever fleet, protection and write results it shows, and the writable *)
(* models are at the same addresses in every bank of its kind: the length  *)
(* of each model is what its emitter writes, and FindModelInBank, which    *)
(* handleWrite uses, finds what the client's own walk found (encoder.go,   *)
(* per_inverter.go, server.go:344-351, 372-391).                           *)
THEOREM BanksAreWalked == SunSpec => []BanksWalk
  <1>1. SunInit => SunInv
    BY SunInitOK
  <1>2. SunInv /\ [SunNext]_sunVars => SunInv'
    BY SunInvInductive
  <1>3. SunInv => BanksWalk
    <2> SUFFICES ASSUME SunInv, banks # NoBanks, NEW u \in UnitIds, NEW p, NEW rslt
                 PROVE  LayoutWalks(BankAnswered(banks.of, u, p, rslt), BankFor(banks.of, u).at)
      BY DEF BanksWalk
    <2>1. PICK s : s = banks.of
      OBVIOUS
    <2>2. Len(s.invs) \in Nat
      BY <2>1 DEF SunInv, SnapshotsOK, SnapOK
    <2>3. CASE UnitIndex(s, u) # 0
      <3>1. BankFor(s, u).at = InverterAt /\ BankAnswered(s, u, p, rslt) = EncodePerInverter(s, UnitIndex(s, u), rslt)
        BY <2>3 DEF BankFor, BankAnswered
      <3>2. QED
        BY <2>1, <3>1, InverterBankWalks, Zenon
    <2>4. CASE UnitIndex(s, u) = 0
      <3>1. BankFor(s, u).at = FleetAt /\ BankAnswered(s, u, p, rslt) = Encode(s, p, rslt)
        BY <2>4 DEF BankFor, BankAnswered
      <3>2. QED
        BY <2>1, <2>2, <3>1, FleetBankWalks, Zenon
    <2>5. QED
      BY <2>3, <2>4
  <1>4. QED
    BY <1>1, <1>2, <1>3, PTL DEF SunSpec
=============================================================================
