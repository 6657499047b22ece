-------------------------- MODULE PowerLimitProofs --------------------------
(***************************************************************************)
(* Model 123 writes and their reversion timers implement the lease of      *)
(* PowerLease, for every set of clients, units, inverters and snapshots;   *)
(* and a leased cap is covered while no failure has lost it, when each     *)
(* unit has one controller and the fleet stays.                            *)
(***************************************************************************)
EXTENDS PowerLimit, SequenceTheorems, TLAPS

(* Each unit has one controller, as reverter.go expects, and a snapshot    *)
(* that has come in keeps its inverters.                                   *)
OneController == \A c, d \in Clients : c # d => Speaks[c] \cap Speaks[d] = {}
OneFleet == \A f, g \in Fleets : f = g

-----------------------------------------------------------------------------
(* The inductive invariant.                                                *)

Sending == {"send", "set"}
Working == {"cancel", "send", "set", "arm", "conn"}

TypeInv ==
    /\ TypeOK
    /\ targets \in [Writes -> Seq(Inverters)] /\ rest \in [Writes -> Seq(Inverters)]
    /\ trest \in [Writes -> Seq(Inverters)]

(* What a write has at each place of Apply, and its timer at each of fire. *)
Place(w) ==
    /\ wpc[w] # "new" => unit[w] \in Units /\ unit[w] \in Speaks[w[1]] /\ regs[w] \in Requests
    /\ wpc[w] \in Working => targets[w] # <<>>
    /\ wpc[w] = "cancel" => rest[w] = targets[w] /\ regs[w].ena = 0
    /\ wpc[w] \in Sending => regs[w].ena = 0 \/ regs[w].pct # NotWritten
    /\ wpc[w] = "arm" => /\ regs[w].ena # 0 /\ regs[w].pct # NotWritten /\ regs[w].rvrt # NotWritten
                         /\ regs[w].conn # NotWritten => rest[w] # <<>>
    /\ tpc[w] # "none" => wpc[w] \in {"conn"} \cup Ended
    /\ tpc[w] \in {"armed"} \cup Firing => trest[w] # <<>>
    /\ tpc[w] \in {"armed", "fired"} => trest[w] = targets[w]
PlaceInv == \A w \in Writes : Place(w)

(* A client's handler serves one write at a time.                          *)
SeqInv == \A w, v \in Writes :
    w[1] = v[1] /\ w[2] < v[2] /\ wpc[v] # "new" => wpc[w] \in Ended

(* Writes to the same unit have the same targets, or none.                 *)
TargetInv == \A w \in Writes : wpc[w] # "new" /\ targets[w] # <<>> =>
    \E f \in Fleets : targets[w] = TargetUIDs(unit[w], f)

(* What a write has left to send is some of its targets.                   *)
RestInv == \A w \in Writes : wpc[w] \in Sending => ToSet(rest[w]) \subseteq ToSet(targets[w])

(* A lease belongs to a write that has one and serves the inverter.        *)
LeaseInv == \A i \in Inverters : leaseOf[i] # NoWrite =>
    /\ i \in ToSet(targets[leaseOf[i]]) /\ wpc[leaseOf[i]] # "new" /\ Leases(regs[leaseOf[i]])

(* What the write in progress has sent has replaced its client's older     *)
(* leases.                                                                 *)
Unsent(w) == CASE wpc[w] = "send" -> ToSet(rest[w])
               [] wpc[w] = "set" -> ToSet(Tail(rest[w]))
               [] OTHER -> {}
SentInv == \A w, v \in Writes : \A i \in Inverters :
    wpc[v] \in {"send", "set", "arm"} /\ i \in ToSet(targets[v]) /\ i \notin Unsent(v)
        /\ w[1] = v[1] /\ w[2] < v[2] => leaseOf[i] # w

(* A lease is covered by a timer or a write of its own client.             *)
CoveredBy(n, i) == i \in ToRestore(n) \/ (regs[n].ena = 0 /\ wpc[n] # "new" /\ i \in ToSend(n))
CoverInv == \A i \in Inverters : leaseOf[i] # NoWrite /\ i \notin stranded =>
    \/ wpc[leaseOf[i]] \in {"send", "set", "arm"}
    \/ \E n \in Writes : n[1] = leaseOf[i][1] /\ CoveredBy(n, i)

BaseInv == TypeInv /\ PlaceInv /\ MapLive
IInv == BaseInv /\ SeqInv /\ TargetInv /\ RestInv /\ LeaseInv /\ SentInv /\ CoverInv

-----------------------------------------------------------------------------
(* Lemmas about the operators.                                             *)

(* A write's first component is its client.                                *)
LEMMA WriteIsPair ==
    ASSUME NEW w \in Writes
    PROVE  w[1] \in Clients /\ w[2] \in 1 .. MaxWrites[w[1]] /\ w = <<w[1], w[2]>> /\ w[2] \in Nat \ {0}
  <1>1. PICK c \in Clients : w \in {c} \X (1 .. MaxWrites[c])
    BY DEF Writes
  <1>2. MaxWrites[c] \in Nat
    BY PowerLimitAssumption
  <1>3. QED
    BY <1>1, <1>2

(* A unit of some client is a unit.                                        *)
LEMMA SpokenUnit ==
    ASSUME NEW c \in Clients, NEW u \in Speaks[c]
    PROVE  u \in Units /\ u \in Nat \ {0}
  BY PowerLimitAssumption DEF Units

(* targetUIDs yields inverters of the snapshot.                            *)
LEMMA TargetsAreInverters ==
    ASSUME NEW u \in Nat \ {0}, NEW f \in Seq(Inverters)
    PROVE  TargetUIDs(u, f) \in Seq(Inverters)
  <1>1. CASE u <= 1
    BY <1>1 DEF TargetUIDs
  <1>2. CASE u > 1 /\ u - 1 <= Len(f)
    <2>1. u - 1 \in 1 .. Len(f)
      BY <1>2
    <2>2. f[u - 1] \in Inverters
      BY <2>1
    <2>3. QED
      BY <1>2, <2>2 DEF TargetUIDs
  <1>3. CASE u > 1 /\ ~(u - 1 <= Len(f))
    BY <1>3 DEF TargetUIDs
  <1>4. QED
    BY <1>1, <1>2, <1>3

(* A sequence that is not empty has a first element and a rest, which hold *)
(* all that it holds.                                                      *)
LEMMA HeadAndTail ==
    ASSUME NEW S, NEW s \in Seq(S), s # <<>>
    PROVE  /\ Head(s) \in S /\ Tail(s) \in Seq(S) /\ Len(s) \in Nat \ {0}
           /\ Tail(s) = <<>> <=> Len(s) = 1
           /\ ToSet(s) = {Head(s)} \cup ToSet(Tail(s))
  <1>1. /\ Head(s) \in S /\ Tail(s) \in Seq(S) /\ Len(s) \in Nat \ {0} /\ Len(Tail(s)) = Len(s) - 1
        /\ Head(s) = s[1] /\ \A k \in 1 .. Len(Tail(s)) : Tail(s)[k] = s[k + 1]
    BY HeadTailProperties, EmptySeq
  <1>2. Tail(s) = <<>> <=> Len(s) = 1
    <2>1. Tail(s) # <<>> => Len(Tail(s)) \in Nat \ {0}
      BY <1>1, EmptySeq
    <2>2. Len(<<>>) = 0
      OBVIOUS
    <2>3. Tail(s) = <<>> => Len(Tail(s)) = 0
      BY <2>2, Zenon
    <2>4. QED
      BY <1>1, <2>1, <2>3
  <1>3. \A k \in 1 .. Len(s) : k = 1 \/ (k - 1 \in 1 .. Len(Tail(s)) /\ s[k] = Tail(s)[k - 1])
    BY <1>1
  <1>4. ToSet(s) \subseteq {Head(s)} \cup ToSet(Tail(s))
    <2>1. DOMAIN s = 1 .. Len(s) /\ DOMAIN Tail(s) = 1 .. Len(Tail(s))
      BY <1>1, LenProperties
    <2>2. SUFFICES ASSUME NEW k \in 1 .. Len(s) PROVE s[k] \in {Head(s)} \cup ToSet(Tail(s))
      BY <2>1 DEF ToSet
    <2>3. CASE k = 1
      BY <1>1, <2>3
    <2>4. CASE k # 1
      BY <1>3, <2>1, <2>4 DEF ToSet
    <2>5. QED
      BY <2>3, <2>4
  <1>5. Head(s) \in ToSet(s) /\ ToSet(Tail(s)) \subseteq ToSet(s)
    <2>1. Head(s) = s[1] /\ 1 \in 1 .. Len(s)
      BY <1>1
    <2>2. SUFFICES ASSUME NEW k \in 1 .. Len(Tail(s)) PROVE Tail(s)[k] \in ToSet(s)
      BY <2>1 DEF ToSet
    <2>3. k + 1 \in 1 .. Len(s) /\ Tail(s)[k] = s[k + 1]
      BY <1>1
    <2>4. QED
      BY <2>3 DEF ToSet
  <1>6. QED
    BY <1>1, <1>2, <1>4, <1>5

LEMMA EmptyToSet == ToSet(<<>>) = {}
  BY DEF ToSet

(* A command is within the range inverters accept (PanelWatts).            *)
LEMMA CommandInRange ==
    ASSUME NEW i \in Inverters, NEW r \in Requests, r.ena = 0 \/ r.pct # NotWritten
    PROVE  PanelWatts(i, r) \in MinPanelLimitW .. MaxPanelLimitW
  <1>1. CASE r.ena = 0
    BY <1>1, PowerLimitAssumption DEF PanelWatts
  <1>2. CASE r.ena # 0
    <2>1. r.pct \in Nat
      BY <1>2, RequestAssumption
    <2> DEFINE pct == IF r.pct > RawFull THEN RawFull ELSE r.pct
               w == (pct * PerPanelW[i]) \div RawFull
    <2>2. pct \in Nat /\ PerPanelW[i] \in Nat
      BY <2>1, PowerLimitAssumption
    <2>3. pct * PerPanelW[i] \in Int
      BY <2>2
    <2>4. w \in Int
      BY <2>3, PowerLimitAssumption
    <2>5. PanelWatts(i, r) = IF w < MinPanelLimitW THEN MinPanelLimitW
                             ELSE IF w > MaxPanelLimitW THEN MaxPanelLimitW ELSE w
      BY <1>2 DEF PanelWatts
    <2> HIDE DEF w
    <2>6. QED
      BY <2>4, <2>5, PowerLimitAssumption
  <1>3. QED
    BY <1>1, <1>2
-----------------------------------------------------------------------------
(* Types and places.                                                       *)

LEMMA InitBase == Init => BaseInv
  <1>1. NoWrite \notin Writes /\ 0 \notin Units
    BY NoWriteAssumption, SpokenUnit DEF Units
  <1>2. <<>> \in Seq(Inverters) /\ ToSet(<<>>) = {}
    BY EmptyToSet
  <1> SUFFICES ASSUME Init PROVE BaseInv
    OBVIOUS
  <1>3. TypeInv
    BY <1>1, <1>2, PowerLimitAssumption DEF Init, TypeInv, TypeOK, Firing, Ended
  <1>4. PlaceInv /\ MapLive
    BY <1>1, <1>2 DEF Init, PlaceInv, Place, MapLive, Working, Sending, Firing, Ended
  <1>5. QED
    BY <1>3, <1>4 DEF BaseInv

(* A step of a write or a timer finds what it needs.                       *)
LEMMA StepFacts ==
    ASSUME BaseInv, NEW w \in Writes
    PROVE  /\ wpc[w] # "new" => unit[w] \in Units /\ regs[w] \in Requests
           /\ rest[w] # <<>> => Head(rest[w]) \in Inverters /\ Tail(rest[w]) \in Seq(Inverters)
           /\ trest[w] # <<>> => Head(trest[w]) \in Inverters /\ Tail(trest[w]) \in Seq(Inverters)
           /\ wpc[w] \in Sending /\ rest[w] # <<>> =>
                 PanelWatts(Head(rest[w]), regs[w]) \in MinPanelLimitW .. MaxPanelLimitW
           /\ trest[w] # <<>> => (Len(trest[w]) = 1 <=> Tail(trest[w]) = <<>>)
  <1>1. rest[w] \in Seq(Inverters) /\ trest[w] \in Seq(Inverters)
    BY DEF BaseInv, TypeInv
  <1>2. wpc[w] # "new" => unit[w] \in Units /\ regs[w] \in Requests
    BY DEF BaseInv, PlaceInv, Place
  <1>3. rest[w] # <<>> => Head(rest[w]) \in Inverters /\ Tail(rest[w]) \in Seq(Inverters)
    BY <1>1, HeadAndTail
  <1>4. trest[w] # <<>> => /\ Head(trest[w]) \in Inverters /\ Tail(trest[w]) \in Seq(Inverters)
                           /\ Len(trest[w]) = 1 <=> Tail(trest[w]) = <<>>
    BY <1>1, HeadAndTail
  <1>5. wpc[w] \in Sending => regs[w] \in Requests /\ (regs[w].ena = 0 \/ regs[w].pct # NotWritten)
    BY DEF BaseInv, PlaceInv, Place, Sending
  <1>6. wpc[w] \in Sending /\ rest[w] # <<>> => PanelWatts(Head(rest[w]), regs[w]) \in MinPanelLimitW .. MaxPanelLimitW
    BY <1>3, <1>5, CommandInRange
  <1>7. QED
    BY <1>2, <1>3, <1>4, <1>6

LEMMA BaseStep == BaseInv /\ [Next]_vars => BaseInv'
  <1> SUFFICES ASSUME BaseInv, [Next]_vars PROVE BaseInv'
    OBVIOUS
  <1>1. NoWrite \notin Writes /\ 0 \notin Units /\ MaxFaults \in Nat
    BY NoWriteAssumption, SpokenUnit, PowerLimitAssumption DEF Units
  <1>2. /\ MinPanelLimitW \in Nat /\ MaxPanelLimitW \in Nat /\ MinPanelLimitW <= MaxPanelLimitW
        /\ MinPanelLimitW .. MaxPanelLimitW \subseteq 0 .. MaxPanelLimitW /\ <<>> \in Seq(Inverters)
    BY PowerLimitAssumption
  <1>3. TypeInv /\ PlaceInv /\ MapLive /\ (faults < MaxFaults => faults + 1 \in 0 .. MaxFaults)
    BY <1>1 DEF BaseInv, TypeInv, TypeOK
  <1> USE <1>1, <1>2, <1>3 DEF Working, Sending, Firing, Ended, reqVars, timerVars, deviceVars
  <1>4. ASSUME NEW w \in Writes, NEW r \in Requests, NEW u \in Speaks[w[1]], Begin(w, u, r) PROVE BaseInv'
    <2>1. w[1] \in Clients
      BY WriteIsPair
    <2>2. u \in Units /\ u \in Nat \ {0}
      BY <2>1, SpokenUnit
    <2>3. fleet \in Seq(Inverters)
      BY PowerLimitAssumption DEF TypeInv, TypeOK
    <2>4. TargetUIDs(u, fleet) \in Seq(Inverters)
      BY <2>2, <2>3, TargetsAreInverters
    <2>5. TypeInv'
      BY <1>4, <2>2, <2>4 DEF Begin, AfterCap, TypeInv, TypeOK
    <2>6. PlaceInv'
      BY <1>4, <2>2, <2>4 DEF Begin, AfterCap, TypeInv, TypeOK, PlaceInv, Place
    <2>7. tpc[w] = "none" /\ wpc[w] = "new"
      BY <1>4 DEF Begin, PlaceInv, Place
    <2>8. MapLive'
      BY <1>4, <2>7 DEF Begin, TypeInv, TypeOK, MapLive
    <2>9. QED
      BY <2>5, <2>6, <2>8 DEF BaseInv
  <1>5. ASSUME NEW w \in Writes, CancelFirst(w) PROVE BaseInv'
    <2>1. TypeInv'
      BY <1>5, StepFacts DEF CancelFirst, CancelReversion, Stopped, TypeInv, TypeOK, PlaceInv, Place
    <2>2. PlaceInv'
      BY <1>5, StepFacts DEF CancelFirst, CancelReversion, Stopped, TypeInv, TypeOK, PlaceInv, Place
    <2>3. MapLive'
      BY <1>5, StepFacts DEF CancelFirst, CancelReversion, Stopped, TypeInv, TypeOK, PlaceInv, Place, MapLive
    <2>4. QED
      BY <2>1, <2>2, <2>3 DEF BaseInv
  <1>6. ASSUME NEW w \in Writes, SendLimit(w) PROVE BaseInv'
    <2>1. TypeInv'
      BY <1>6, StepFacts DEF SendLimit, TypeInv, TypeOK, PlaceInv, Place
    <2>2. PlaceInv'
      BY <1>6, StepFacts DEF SendLimit, TypeInv, TypeOK, PlaceInv, Place
    <2>3. MapLive'
      BY <1>6, StepFacts DEF SendLimit, TypeInv, TypeOK, PlaceInv, Place, MapLive
    <2>4. QED
      BY <2>1, <2>2, <2>3 DEF BaseInv
  <1>7. ASSUME NEW w \in Writes, SetLimit(w) PROVE BaseInv'
    <2>1. TypeInv'
      BY <1>7, StepFacts DEF SetLimit, AfterCap, TypeInv, TypeOK, PlaceInv, Place
    <2>2. PlaceInv'
      BY <1>7, StepFacts DEF SetLimit, AfterCap, TypeInv, TypeOK, PlaceInv, Place
    <2>3. MapLive'
      BY <1>7, StepFacts DEF SetLimit, AfterCap, TypeInv, TypeOK, PlaceInv, Place, MapLive
    <2>4. QED
      BY <2>1, <2>2, <2>3 DEF BaseInv
  <1>8. ASSUME NEW w \in Writes, ArmOrCancelReversion(w) PROVE BaseInv'
    <2>1. /\ wpc[w] = "arm" /\ unit[w] \in Units /\ targets[w] \in Seq(Inverters) /\ targets[w] # <<>>
          /\ tpc[w] = "none" /\ (regs[w].conn # NotWritten => rest[w] # <<>>)
          /\ wpc' = [wpc EXCEPT ![w] = AfterCap(regs[w])] /\ AfterCap(regs[w]) \in {"conn", "done"}
          /\ AfterCap(regs[w]) = "conn" => regs[w].conn # NotWritten
          /\ UNCHANGED <<fleet, unit, regs, targets, rest, limits, sent, leaseOf, stranded, on, faults>>
      BY <1>8 DEF ArmOrCancelReversion, AfterCap, TypeInv, TypeOK, PlaceInv, Place
    <2>2. CASE Leases(regs[w])
      <3>1. /\ tpc' = [Stopped(unit[w]) EXCEPT ![w] = "armed"] /\ timers' = [timers EXCEPT ![unit[w]] = w]
            /\ trest' = [trest EXCEPT ![w] = targets[w]]
        BY <1>8, <2>2 DEF ArmOrCancelReversion, Schedule
      <3>2. TypeInv'
        BY <2>1, <3>1 DEF Stopped, TypeInv, TypeOK
      <3>3. PlaceInv'
        BY <2>1, <3>1 DEF Stopped, TypeInv, TypeOK, PlaceInv, Place
      <3>4. MapLive'
        <4>1. SUFFICES ASSUME NEW u \in Units, timers'[u] # NoWrite
                       PROVE  unit[timers'[u]] = u /\ tpc'[timers'[u]] \in {"armed", "fired"}
          BY <2>1 DEF MapLive
        <4>2. CASE u = unit[w]
          BY <2>1, <3>1, <4>2 DEF Stopped, TypeInv, TypeOK
        <4>3. CASE u # unit[w]
          <5>1. /\ timers'[u] = timers[u] /\ timers[u] \in Writes
                /\ unit[timers[u]] = u /\ tpc[timers[u]] \in {"armed", "fired"}
            BY <2>1, <3>1, <4>1, <4>3 DEF TypeInv, TypeOK, MapLive
          <5>2. timers[u] # timers[unit[w]] /\ timers[u] # w
            BY <2>1, <4>3, <5>1 DEF MapLive
          <5>3. tpc'[timers[u]] = tpc[timers[u]]
            BY <3>1, <5>1, <5>2 DEF Stopped
          <5>4. QED
            BY <5>1, <5>3
        <4>4. QED
          BY <4>2, <4>3
      <3>5. QED
        BY <3>2, <3>3, <3>4 DEF BaseInv
    <2>3. CASE ~Leases(regs[w])
      <3>1. tpc' = Stopped(unit[w]) /\ timers' = [timers EXCEPT ![unit[w]] = NoWrite] /\ UNCHANGED trest
        BY <1>8, <2>3 DEF ArmOrCancelReversion, CancelReversion
      <3>2. TypeInv'
        BY <2>1, <3>1 DEF Stopped, TypeInv, TypeOK
      <3>3. PlaceInv'
        BY <2>1, <3>1 DEF Stopped, TypeInv, TypeOK, PlaceInv, Place
      <3>4. MapLive'
        BY <2>1, <3>1 DEF Stopped, TypeInv, TypeOK, MapLive
      <3>5. QED
        BY <3>2, <3>3, <3>4 DEF BaseInv
    <2>4. QED
      BY <2>2, <2>3
  <1>9. ASSUME NEW w \in Writes, SendConn(w) PROVE BaseInv'
    <2>1. TypeInv'
      BY <1>9, StepFacts DEF SendConn, TypeInv, TypeOK, PlaceInv, Place
    <2>2. PlaceInv'
      BY <1>9, StepFacts DEF SendConn, TypeInv, TypeOK, PlaceInv, Place
    <2>3. MapLive'
      BY <1>9, StepFacts DEF SendConn, TypeInv, TypeOK, PlaceInv, Place, MapLive
    <2>4. QED
      BY <2>1, <2>2, <2>3 DEF BaseInv
  <1>10. ASSUME NEW w \in Writes, WriteFails(w) PROVE BaseInv'
    <2>1. TypeInv'
      BY <1>10, StepFacts DEF WriteFails, LosesOn, TypeInv, TypeOK, PlaceInv, Place
    <2>2. PlaceInv'
      BY <1>10, StepFacts DEF WriteFails, LosesOn, TypeInv, TypeOK, PlaceInv, Place
    <2>3. MapLive'
      BY <1>10, StepFacts DEF WriteFails, LosesOn, TypeInv, TypeOK, PlaceInv, Place, MapLive
    <2>4. QED
      BY <2>1, <2>2, <2>3 DEF BaseInv
  <1>11. ASSUME NEW w \in Writes, Fire(w) PROVE BaseInv'
    <2>1. TypeInv'
      BY <1>11, StepFacts DEF Fire, TypeInv, TypeOK, PlaceInv, Place
    <2>2. PlaceInv'
      BY <1>11, StepFacts DEF Fire, TypeInv, TypeOK, PlaceInv, Place
    <2>3. MapLive'
      BY <1>11, StepFacts DEF Fire, TypeInv, TypeOK, PlaceInv, Place, MapLive
    <2>4. QED
      BY <2>1, <2>2, <2>3 DEF BaseInv
  <1>12. ASSUME NEW w \in Writes, Forget(w) PROVE BaseInv'
    <2>1. TypeInv'
      BY <1>12, StepFacts DEF Forget, TypeInv, TypeOK, PlaceInv, Place
    <2>2. PlaceInv'
      BY <1>12, StepFacts DEF Forget, TypeInv, TypeOK, PlaceInv, Place
    <2>3. MapLive'
      BY <1>12, StepFacts DEF Forget, TypeInv, TypeOK, PlaceInv, Place, MapLive
    <2>4. QED
      BY <2>1, <2>2, <2>3 DEF BaseInv
  <1>13. ASSUME NEW w \in Writes, Restore(w) PROVE BaseInv'
    <2>1. TypeInv'
      BY <1>13, StepFacts DEF Restore, TypeInv, TypeOK, PlaceInv, Place
    <2>2. PlaceInv'
      BY <1>13, StepFacts DEF Restore, TypeInv, TypeOK, PlaceInv, Place
    <2>3. MapLive'
      BY <1>13, StepFacts DEF Restore, TypeInv, TypeOK, PlaceInv, Place, MapLive
    <2>4. QED
      BY <2>1, <2>2, <2>3 DEF BaseInv
  <1>14. ASSUME NEW w \in Writes, SetRestored(w) PROVE BaseInv'
    <2> /\ tpc[w] = "set" /\ trest[w] # <<>> /\ Head(trest[w]) \in Inverters /\ Tail(trest[w]) \in Seq(Inverters)
      BY <1>14, StepFacts DEF SetRestored, TypeInv, TypeOK, PlaceInv, Place
    <2>1. TypeInv'
      <3>1. /\ trest' \in [Writes -> Seq(Inverters)]
            /\ tpc' \in [Writes -> {"none", "armed", "stopped", "ended"} \cup Firing]
        BY <1>14 DEF SetRestored, Later, NextTarget, TypeInv, TypeOK
      <3>2. \A t \in Writes : tpc'[t] \in {"send", "set"} => trest'[t] # <<>>
        BY <1>14, StepFacts DEF SetRestored, Later, NextTarget, TypeInv, TypeOK
      <3>3. limits' \in [Inverters -> 0 .. MaxPanelLimitW]
        BY <1>14 DEF SetRestored, TypeInv, TypeOK
      <3>4. UNCHANGED <<fleet, wpc, unit, regs, targets, rest, timers, sent, leaseOf, stranded, on, faults>>
        BY <1>14 DEF SetRestored
      <3>5. TypeOK'
        BY <3>1, <3>2, <3>3, <3>4 DEF TypeInv, TypeOK
      <3>6. QED
        BY <3>1, <3>4, <3>5 DEF TypeInv
    <2>2. PlaceInv'
      BY <1>14, StepFacts DEF SetRestored, Later, NextTarget, TypeInv, TypeOK, PlaceInv, Place
    <2>3. MapLive'
      BY <1>14, StepFacts DEF SetRestored, Later, NextTarget, TypeInv, TypeOK, PlaceInv, Place, MapLive
    <2>4. QED
      BY <2>1, <2>2, <2>3 DEF BaseInv
  <1>15. ASSUME NEW w \in Writes, RestoreFails(w) PROVE BaseInv'
    <2> /\ tpc[w] = "send" /\ trest[w] # <<>> /\ Head(trest[w]) \in Inverters /\ Tail(trest[w]) \in Seq(Inverters)
        /\ faults' = faults + 1 /\ faults + 1 \in 0 .. MaxFaults
      BY <1>15, StepFacts DEF RestoreFails, TypeInv, TypeOK, PlaceInv, Place
    <2>1. TypeInv'
      <3>1. /\ trest' \in [Writes -> Seq(Inverters)]
            /\ tpc' \in [Writes -> {"none", "armed", "stopped", "ended"} \cup Firing]
        BY <1>15 DEF RestoreFails, Later, NextTarget, TypeInv, TypeOK
      <3>2. \A t \in Writes : tpc'[t] \in {"send", "set"} => trest'[t] # <<>>
        BY <1>15, StepFacts DEF RestoreFails, Later, NextTarget, TypeInv, TypeOK
      <3>3. stranded' \subseteq Inverters
        BY <1>15 DEF RestoreFails, TypeInv, TypeOK
      <3>4. /\ UNCHANGED <<fleet, wpc, unit, regs, targets, rest, timers, limits, sent, leaseOf, on>>
            /\ faults' \in 0 .. MaxFaults
        BY <1>15 DEF RestoreFails
      <3>5. TypeOK'
        BY <3>1, <3>2, <3>3, <3>4 DEF TypeInv, TypeOK
      <3>6. QED
        BY <3>1, <3>4, <3>5 DEF TypeInv
    <2>2. PlaceInv'
      BY <1>15, StepFacts DEF RestoreFails, Later, NextTarget, TypeInv, TypeOK, PlaceInv, Place
    <2>3. MapLive'
      BY <1>15, StepFacts DEF RestoreFails, Later, NextTarget, TypeInv, TypeOK, PlaceInv, Place, MapLive
    <2>4. QED
      BY <2>1, <2>2, <2>3 DEF BaseInv
  <1>16. CASE Refresh
    <2>1. TypeInv'
      BY <1>16 DEF Refresh, TypeInv, TypeOK, PlaceInv, Place
    <2>2. PlaceInv'
      BY <1>16 DEF Refresh, TypeInv, TypeOK, PlaceInv, Place
    <2>3. MapLive'
      BY <1>16 DEF Refresh, TypeInv, TypeOK, PlaceInv, Place, MapLive
    <2>4. QED
      BY <2>1, <2>2, <2>3 DEF BaseInv
  <1>17. CASE Restart
    <2>1. TypeInv'
      BY <1>17 DEF Restart, TypeInv, TypeOK, PlaceInv, Place
    <2>2. PlaceInv'
      BY <1>17 DEF Restart, TypeInv, TypeOK, PlaceInv, Place
    <2>3. MapLive'
      BY <1>17 DEF Restart, TypeInv, TypeOK, PlaceInv, Place, MapLive
    <2>4. QED
      BY <2>1, <2>2, <2>3 DEF BaseInv
  <1>18. CASE UNCHANGED vars
    <2>1. TypeInv'
      BY <1>18 DEF vars, TypeInv, TypeOK, PlaceInv, Place
    <2>2. PlaceInv'
      BY <1>18 DEF vars, TypeInv, TypeOK, PlaceInv, Place
    <2>3. MapLive'
      BY <1>18 DEF vars, TypeInv, TypeOK, PlaceInv, Place, MapLive
    <2>4. QED
      BY <2>1, <2>2, <2>3 DEF BaseInv
  <1>19. QED
    BY <1>4, <1>5, <1>6, <1>7, <1>8, <1>9, <1>10, <1>11, <1>12, <1>13, <1>14, <1>15, <1>16, <1>17, <1>18
       DEF Next, Apply, Revert

(* Registers, reverter map and caps have their types, places of Apply and  *)
(* fire have the targets they index, and no cap leaves the inverters'      *)
(* range, whatever writes, timers, failures and snapshots come.            *)
THEOREM TypeCorrect == Spec => []TypeOK
  <1>1. BaseInv => TypeOK
    BY DEF BaseInv, TypeInv
  <1>2. QED
    BY <1>1, InitBase, BaseStep, PTL DEF Spec

(* Reverter.timers never holds a stopped, ended or foreign timer: Cancel   *)
(* and Schedule (reverter.go:66-90) stop the unit's own, for any number of *)
(* controllers and any change of the fleet.                                *)
THEOREM MapHoldsLiveTimers == Spec => []MapLive
  <1>1. BaseInv => MapLive
    BY DEF BaseInv
  <1>2. QED
    BY <1>1, InitBase, BaseStep, PTL DEF Spec

-----------------------------------------------------------------------------
(* The write path implements the lease: every step.                        *)

LeaseState(i) == IF leaseOf[i] = NoWrite THEN "none" ELSE IF i \in stranded THEN "lost" ELSE "running"

LEMMA InitLease == Init => Lease!Init
  BY DEF Init, Lease!Init

(* A command to one inverter replaces its lease.                           *)
LEMMA CommandLimits ==
    ASSUME NEW i \in Inverters, NEW x \in MinPanelLimitW .. MaxPanelLimitW, NEW l \in Writes \cup {NoWrite},
           sent \in [Inverters -> 0 .. MaxPanelLimitW], leaseOf \in [Inverters -> Writes \cup {NoWrite}],
           sent' = [sent EXCEPT ![i] = x], leaseOf' = [leaseOf EXCEPT ![i] = l], stranded' = stranded \ {i}
    PROVE  Lease!Next
  <1> DEFINE k == IF l = NoWrite THEN "none" ELSE "running"
  <1>1. [j \in Inverters |-> LeaseState(j)'] = [[j \in Inverters |-> LeaseState(j)] EXCEPT ![i] = k]
    BY DEF LeaseState
  <1>2. Lease!Limit(i)
    BY <1>1 DEF Lease!Limit, LeaseState
  <1>3. QED
    BY <1>2 DEF Lease!Next

(* A failure that keeps the caps loses running leases, or none.            *)
LEMMA FailureLoses ==
    ASSUME sent' = sent, leaseOf' = leaseOf,
           \A i \in Inverters : leaseOf[i] # NoWrite /\ i \in stranded => i \in stranded'
    PROVE  [Lease!Next]_(Lease!leaseVars)
  <1>0. PICK S \in SUBSET Inverters :
            S = {i \in Inverters : leaseOf[i] # NoWrite /\ i \notin stranded /\ i \in stranded'}
    OBVIOUS
  <1>1. \A i \in Inverters : LeaseState(i)' = IF i \in S THEN "lost" ELSE LeaseState(i)
    BY <1>0 DEF LeaseState
  <1>2. CASE S = {}
    <2>1. [i \in Inverters |-> LeaseState(i)'] = [i \in Inverters |-> LeaseState(i)]
      BY <1>1, <1>2
    <2>2. QED
      BY <2>1 DEF Lease!leaseVars, LeaseState
  <1>3. CASE S # {}
    <2>1. \A i \in S : LeaseState(i) = "running" /\ i \in Inverters
      BY <1>0 DEF LeaseState
    <2>2. Lease!Lose(S)
      BY <1>1, <1>3, <2>1 DEF Lease!Lose, LeaseState
    <2>3. QED
      BY <2>2 DEF Lease!Next
  <1>4. QED
    BY <1>2, <1>3

LEMMA StepLease == BaseInv /\ [Next]_vars => [Lease!Next]_(Lease!leaseVars)
  <1> SUFFICES ASSUME BaseInv, [Next]_vars PROVE [Lease!Next]_(Lease!leaseVars)
    OBVIOUS
  <1>1. /\ sent \in [Inverters -> 0 .. MaxPanelLimitW] /\ leaseOf \in [Inverters -> Writes \cup {NoWrite}]
        /\ MaxPanelLimitW \in MinPanelLimitW .. MaxPanelLimitW
    BY PowerLimitAssumption DEF BaseInv, TypeInv, TypeOK
  <1>2. ASSUME UNCHANGED deviceVars PROVE [Lease!Next]_(Lease!leaseVars)
    BY <1>2 DEF deviceVars, Lease!leaseVars
  <1>3. ASSUME NEW w \in Writes, SendLimit(w) PROVE Lease!Next
    <2>1. wpc[w] \in Sending /\ rest[w] # <<>>
      BY <1>3 DEF SendLimit, Sending, BaseInv, TypeInv, TypeOK
    <2>2. Head(rest[w]) \in Inverters /\ PanelWatts(Head(rest[w]), regs[w]) \in MinPanelLimitW .. MaxPanelLimitW
      BY <2>1, StepFacts
    <2>3. QED
      BY <1>1, <1>3, <2>2, CommandLimits DEF SendLimit
  <1>4. ASSUME NEW t \in Writes, Restore(t) PROVE Lease!Next
    <2>1. trest[t] # <<>>
      BY <1>4 DEF Restore, BaseInv, TypeInv, TypeOK
    <2>2. Head(trest[t]) \in Inverters
      BY <2>1, StepFacts
    <2>3. QED
      BY <1>1, <1>4, <2>2, CommandLimits DEF Restore
  <1>5. ASSUME NEW w \in Writes, WriteFails(w) \/ RestoreFails(w) PROVE [Lease!Next]_(Lease!leaseVars)
    <2>1. sent' = sent /\ leaseOf' = leaseOf /\ stranded \subseteq stranded'
      BY <1>5 DEF WriteFails, RestoreFails
    <2>2. \A i \in Inverters : leaseOf[i] # NoWrite /\ i \in stranded => i \in stranded'
      BY <2>1
    <2>3. QED
      BY <2>1, <2>2, FailureLoses
  <1>6. CASE Restart
    <2>1. sent' = sent /\ leaseOf' = leaseOf /\ stranded' = {i \in Inverters : leaseOf[i] # NoWrite}
      BY <1>6 DEF Restart
    <2>2. \A i \in Inverters : leaseOf[i] # NoWrite /\ i \in stranded => i \in stranded'
      BY <2>1
    <2>3. QED
      BY <2>1, <2>2, FailureLoses
  <1>7. ASSUME NEW w \in Writes, Apply(w), ~SendLimit(w), ~WriteFails(w) PROVE UNCHANGED deviceVars
    BY <1>7 DEF Apply, CancelFirst, SetLimit, ArmOrCancelReversion, SendConn
  <1>8. ASSUME NEW t \in Writes, Fire(t) \/ Forget(t) \/ SetRestored(t) PROVE UNCHANGED deviceVars
    BY <1>8 DEF Fire, Forget, SetRestored
  <1>9. ASSUME NEW w \in Writes, NEW r \in Requests, NEW u \in Speaks[w[1]], Begin(w, u, r) PROVE UNCHANGED deviceVars
    BY <1>9 DEF Begin
  <1>10. CASE Refresh \/ UNCHANGED vars
    BY <1>2, <1>10 DEF Refresh, vars
  <1>11. QED
    BY <1>2, <1>3, <1>4, <1>5, <1>6, <1>7, <1>8, <1>9, <1>10 DEF Next, Revert

(* The Model 123 writes, the timers and the failures take only steps of    *)
(* PowerLease: no cap below the floor, a lease ends only by a command, a   *)
(* restore at full power or a failure that loses it (controls_writer.go,   *)
(* reverter.go).  Its fairness stays with the model checker.               *)
THEOREM WritesImplementLease == Spec => Lease!Init /\ [][Lease!Next]_(Lease!leaseVars)
  BY InitBase, BaseStep, InitLease, StepLease, PTL DEF Spec

-----------------------------------------------------------------------------
(* A lease is covered.                                                     *)

(* Once begun, a write keeps its registers and targets, and stays begun.   *)
LEMMA BegunStays ==
    ASSUME BaseInv, [Next]_vars, \A w \in Writes, r \in Requests : \A u \in Speaks[w[1]] : ~Begin(w, u, r)
    PROVE  /\ UNCHANGED reqVars
           /\ \A v \in Writes : /\ wpc'[v] = "new" <=> wpc[v] = "new"
                                /\ wpc[v] \in Ended => wpc'[v] \in Ended
  <1>1. wpc \in [Writes -> {"new", "cancel", "send", "set", "arm", "conn"} \cup Ended]
    BY DEF BaseInv, TypeInv, TypeOK
  <1> USE DEF Ended, Working
  <1>2. ASSUME NEW w \in Writes, NEW x \in Working \cup Ended, wpc' = [wpc EXCEPT ![w] = x],
               wpc[w] \notin {"new"} \cup Ended
        PROVE \A v \in Writes : /\ wpc'[v] = "new" <=> wpc[v] = "new"
                                /\ wpc[v] \in Ended => wpc'[v] \in Ended
    BY <1>1, <1>2
  <1>3. ASSUME NEW w \in Writes, Apply(w)
        PROVE /\ UNCHANGED reqVars
              /\ \E x \in Working \cup Ended : wpc' = [wpc EXCEPT ![w] = x]
              /\ wpc[w] \notin {"new"} \cup Ended
    <2>1. UNCHANGED reqVars
      BY <1>3 DEF Apply, CancelFirst, SendLimit, SetLimit, ArmOrCancelReversion, SendConn, WriteFails
    <2>2. CASE CancelFirst(w)
      BY <2>2 DEF CancelFirst
    <2>3. CASE SendLimit(w)
      BY <2>3 DEF SendLimit
    <2>4. CASE SetLimit(w)
      <3> DEFINE x == IF Tail(rest[w]) # <<>> THEN "send"
                      ELSE IF regs[w].ena # 0 /\ regs[w].rvrt # NotWritten THEN "arm" ELSE AfterCap(regs[w])
      <3>1. wpc[w] = "set" /\ wpc' = [wpc EXCEPT ![w] = x]
        BY <2>4 DEF SetLimit
      <3>2. x \in Working \cup Ended
        BY DEF AfterCap
      <3>3. QED
        BY <2>1, <3>1, <3>2
    <2>5. CASE ArmOrCancelReversion(w)
      <3>1. wpc[w] = "arm" /\ wpc' = [wpc EXCEPT ![w] = AfterCap(regs[w])]
        BY <2>5 DEF ArmOrCancelReversion
      <3>2. AfterCap(regs[w]) \in Working \cup Ended
        BY DEF AfterCap
      <3>3. QED
        BY <2>1, <3>1, <3>2
    <2>6. CASE SendConn(w)
      <3> DEFINE x == IF Tail(rest[w]) = <<>> THEN "done" ELSE "conn"
      <3>1. wpc[w] = "conn" /\ wpc' = [wpc EXCEPT ![w] = x]
        BY <2>6 DEF SendConn
      <3>2. x \in Working \cup Ended
        OBVIOUS
      <3>3. QED
        BY <2>1, <3>1, <3>2
    <2>7. CASE WriteFails(w)
      BY <2>7 DEF WriteFails
    <2>8. QED
      BY <1>3, <2>1, <2>2, <2>3, <2>4, <2>5, <2>6, <2>7 DEF Apply
  <1>4. ASSUME NEW t \in Writes, Fire(t) \/ Revert(t) PROVE UNCHANGED reqVars /\ UNCHANGED wpc
    BY <1>4 DEF Fire, Revert, Forget, Restore, SetRestored, RestoreFails
  <1>5. CASE Refresh \/ UNCHANGED vars
    BY <1>5 DEF Refresh, vars
  <1>6. CASE Restart
    BY <1>1, <1>6 DEF Restart
  <1>7. QED
    BY <1>2, <1>3, <1>4, <1>5, <1>6 DEF Next

LEMMA SeqStep == BaseInv /\ SeqInv /\ [Next]_vars => SeqInv'
  <1> SUFFICES ASSUME BaseInv, SeqInv, [Next]_vars PROVE SeqInv'
    OBVIOUS
  <1> USE DEF Ended
  <1>1. CASE \A w \in Writes, r \in Requests : \A u \in Speaks[w[1]] : ~Begin(w, u, r)
    BY <1>1, BegunStays DEF SeqInv
  <1>2. ASSUME NEW b \in Writes, NEW r \in Requests, NEW u \in Speaks[b[1]], Begin(b, u, r) PROVE SeqInv'
    <2>1. /\ wpc \in [Writes -> {"new", "cancel", "send", "set", "arm", "conn"} \cup Ended]
          /\ wpc[b] = "new" /\ \A v \in Writes : v # b => wpc'[v] = wpc[v]
          /\ \A n \in 1 .. (b[2] - 1) : wpc[<<b[1], n>>] \in Ended
      BY <1>2 DEF Begin, BaseInv, TypeInv, TypeOK
    <2>2. SUFFICES ASSUME NEW w \in Writes, NEW v \in Writes, w[1] = v[1], w[2] < v[2], wpc'[v] # "new"
                   PROVE  wpc'[w] \in Ended
      BY DEF SeqInv
    <2>3. w[2] \in Nat \ {0} /\ v[2] \in Nat \ {0} /\ b[2] \in Nat \ {0} /\ w = <<w[1], w[2]>>
      BY WriteIsPair
    <2>4. CASE v = b
      <3>1. w[2] \in 1 .. (b[2] - 1)
        BY <2>2, <2>3, <2>4
      <3>2. wpc[w] \in Ended
        BY <2>1, <2>2, <2>3, <2>4, <3>1
      <3>3. w # b
        BY <2>1, <3>2
      <3>4. QED
        BY <2>1, <3>2, <3>3
    <2>5. CASE v # b
      BY <2>1, <2>2, <2>5 DEF SeqInv
    <2>6. QED
      BY <2>4, <2>5
  <1>3. QED
    BY <1>1, <1>2

LEMMA TargetStep == BaseInv /\ TargetInv /\ [Next]_vars => TargetInv'
  <1> SUFFICES ASSUME BaseInv, TargetInv, [Next]_vars PROVE TargetInv'
    OBVIOUS
  <1>1. CASE \A w \in Writes, r \in Requests : \A u \in Speaks[w[1]] : ~Begin(w, u, r)
    BY <1>1, BegunStays DEF TargetInv, reqVars
  <1>2. ASSUME NEW b \in Writes, NEW r \in Requests, NEW u \in Speaks[b[1]], Begin(b, u, r) PROVE TargetInv'
    <2>1. u \in Nat \ {0}
      BY WriteIsPair, SpokenUnit
    <2>2. /\ unit' = [unit EXCEPT ![b] = u] /\ targets' = [targets EXCEPT ![b] = TargetUIDs(u, fleet)]
          /\ unit \in [Writes -> Units \cup {0}] /\ targets \in [Writes -> Seq(Inverters)]
          /\ wpc[b] = "new" /\ (\A v \in Writes : v # b => wpc'[v] = wpc[v]) /\ fleet \in Fleets \cup {<<>>}
      BY <1>2 DEF Begin, BaseInv, TypeInv, TypeOK
    <2>3. TargetUIDs(u, <<>>) = <<>>
      BY <2>1 DEF TargetUIDs
    <2>4. TargetUIDs(u, fleet) # <<>> => fleet \in Fleets
      BY <2>2, <2>3
    <2>5. SUFFICES ASSUME NEW w \in Writes, wpc'[w] # "new", targets'[w] # <<>>
                   PROVE  \E f \in Fleets : targets'[w] = TargetUIDs(unit'[w], f)
      BY DEF TargetInv
    <2>6. CASE w = b
      <3>1. targets'[w] = TargetUIDs(u, fleet) /\ unit'[w] = u
        BY <2>2, <2>6
      <3>2. QED
        BY <2>4, <2>5, <3>1
    <2>7. CASE w # b
      BY <2>2, <2>5, <2>7 DEF TargetInv
    <2>8. QED
      BY <2>6, <2>7
  <1>3. QED
    BY <1>1, <1>2

(* Steps that leave the writes' places and the leases alone.               *)
LEMMA TimerStepKeepsWrites ==
    ASSUME NEW t \in Writes, Fire(t) \/ Revert(t)
    PROVE  UNCHANGED <<wpc, rest, reqVars>> /\ (Restore(t) \/ UNCHANGED leaseOf)
  BY DEF Fire, Revert, Forget, Restore, SetRestored, RestoreFails, deviceVars

LEMMA RestStep == BaseInv /\ RestInv /\ [Next]_vars => RestInv'
  <1> SUFFICES ASSUME BaseInv, RestInv, [Next]_vars PROVE RestInv'
    OBVIOUS
  <1>1. /\ wpc \in [Writes -> {"new", "cancel", "send", "set", "arm", "conn"} \cup Ended]
        /\ rest \in [Writes -> Seq(Inverters)] /\ targets \in [Writes -> Seq(Inverters)]
        /\ \A w \in Writes : /\ wpc[w] = "cancel" => rest[w] = targets[w]
                             /\ wpc[w] = "set" => rest[w] # <<>>
    BY DEF BaseInv, TypeInv, TypeOK, PlaceInv, Place
  <1> USE DEF Ended, Sending, reqVars
  <1>2. ASSUME NEW b \in Writes, NEW r \in Requests, NEW u \in Speaks[b[1]], Begin(b, u, r) PROVE RestInv'
    BY <1>1, <1>2 DEF Begin, RestInv
  <1>3. ASSUME NEW b \in Writes, CancelFirst(b) PROVE RestInv'
    BY <1>1, <1>3 DEF CancelFirst, RestInv
  <1>4. ASSUME NEW b \in Writes, SendLimit(b) PROVE RestInv'
    BY <1>1, <1>4 DEF SendLimit, RestInv
  <1>5. ASSUME NEW b \in Writes, SetLimit(b) PROVE RestInv'
    <2>1. ToSet(Tail(rest[b])) \subseteq ToSet(rest[b])
      BY <1>1, <1>5, HeadAndTail DEF SetLimit
    <2>2. /\ wpc[b] = "set" /\ targets' = targets /\ \A v \in Writes : v # b => wpc'[v] = wpc[v] /\ rest'[v] = rest[v]
          /\ wpc'[b] \in Sending => rest'[b] = Tail(rest[b])
      BY <1>1, <1>5 DEF SetLimit, AfterCap
    <2>3. QED
      BY <2>1, <2>2 DEF RestInv
  <1>6. ASSUME NEW b \in Writes, ArmOrCancelReversion(b) PROVE RestInv'
    BY <1>1, <1>6 DEF ArmOrCancelReversion, AfterCap, RestInv
  <1>7. ASSUME NEW b \in Writes, SendConn(b) PROVE RestInv'
    BY <1>1, <1>7 DEF SendConn, RestInv
  <1>8. ASSUME NEW b \in Writes, WriteFails(b) PROVE RestInv'
    BY <1>1, <1>8 DEF WriteFails, RestInv
  <1>9. ASSUME NEW t \in Writes, Fire(t) \/ Revert(t) PROVE RestInv'
    BY <1>9, TimerStepKeepsWrites DEF RestInv
  <1>10. CASE Refresh \/ UNCHANGED vars
    BY <1>10 DEF Refresh, vars, RestInv
  <1>11. CASE Restart
    BY <1>1, <1>11 DEF Restart, RestInv
  <1>12. QED
    BY <1>2, <1>3, <1>4, <1>5, <1>6, <1>7, <1>8, <1>9, <1>10, <1>11 DEF Next, Apply

(* Only a command and a restore change leases.                             *)
LEMMA LeaseChanges ==
    ASSUME [Next]_vars
    PROVE  UNCHANGED leaseOf \/ \E w \in Writes : SendLimit(w) \/ Restore(w)
  BY DEF Next, vars, Begin, Apply, CancelFirst, SetLimit, ArmOrCancelReversion, SendConn, WriteFails, Fire, Revert,
         Forget, SetRestored, RestoreFails, Refresh, Restart, deviceVars

LEMMA LeaseStep == BaseInv /\ RestInv /\ LeaseInv /\ [Next]_vars => LeaseInv'
  <1> SUFFICES ASSUME BaseInv, RestInv, LeaseInv, [Next]_vars PROVE LeaseInv'
    OBVIOUS
  <1>1. /\ leaseOf \in [Inverters -> Writes \cup {NoWrite}] /\ NoWrite \notin Writes
        /\ wpc \in [Writes -> {"new", "cancel", "send", "set", "arm", "conn"} \cup Ended]
        /\ rest \in [Writes -> Seq(Inverters)]
        /\ \A w \in Writes : wpc[w] = "send" => rest[w] # <<>>
    BY NoWriteAssumption DEF BaseInv, TypeInv, TypeOK
  <1>2. ASSUME NEW b \in Writes, NEW r \in Requests, NEW u \in Speaks[b[1]], Begin(b, u, r) PROVE LeaseInv'
    <2>1. /\ wpc[b] = "new" /\ leaseOf' = leaseOf
          /\ \A v \in Writes : v # b => wpc'[v] = wpc[v] /\ targets'[v] = targets[v] /\ regs'[v] = regs[v]
      BY <1>1, <1>2 DEF Begin, deviceVars, BaseInv, TypeInv, TypeOK
    <2>2. QED
      BY <1>1, <2>1 DEF LeaseInv
  <1>3. ASSUME \A w \in Writes, r \in Requests : \A u \in Speaks[w[1]] : ~Begin(w, u, r), UNCHANGED leaseOf
        PROVE LeaseInv'
    BY <1>1, <1>3, BegunStays DEF LeaseInv, reqVars
  <1>4. ASSUME NEW b \in Writes, SendLimit(b) PROVE LeaseInv'
    <2>1. /\ wpc[b] = "send" /\ wpc' = [wpc EXCEPT ![b] = "set"] /\ UNCHANGED <<regs, targets>>
          /\ leaseOf' = [leaseOf EXCEPT ![Head(rest[b])] = IF Leases(regs[b]) THEN b ELSE NoWrite]
      BY <1>4 DEF SendLimit, reqVars
    <2>2. Head(rest[b]) \in ToSet(targets[b])
      <3>1. Head(rest[b]) \in ToSet(rest[b])
        BY <1>1, <2>1, HeadAndTail
      <3>2. QED
        BY <2>1, <3>1 DEF RestInv, Sending
    <2>3. SUFFICES ASSUME NEW i \in Inverters, leaseOf'[i] # NoWrite
                   PROVE  /\ i \in ToSet(targets[leaseOf'[i]]) /\ wpc'[leaseOf'[i]] # "new" /\ Leases(regs[leaseOf'[i]])
      BY <2>1 DEF LeaseInv, Leases
    <2>4. CASE i = Head(rest[b])
      <3>1. leaseOf'[i] = b /\ Leases(regs[b])
        BY <1>1, <2>1, <2>3, <2>4
      <3>2. QED
        BY <1>1, <2>1, <2>2, <2>4, <3>1
    <2>5. CASE i # Head(rest[b])
      <3>1. leaseOf'[i] = leaseOf[i] /\ leaseOf[i] \in Writes
        BY <1>1, <2>1, <2>3, <2>5
      <3>2. QED
        BY <1>1, <2>1, <2>3, <3>1 DEF LeaseInv
    <2>6. QED
      BY <2>4, <2>5
  <1>5. ASSUME NEW t \in Writes, Restore(t) PROVE LeaseInv'
    <2>1. leaseOf' = [leaseOf EXCEPT ![Head(trest[t])] = NoWrite] /\ UNCHANGED <<wpc, regs, targets>>
      BY <1>5 DEF Restore, reqVars
    <2>2. QED
      BY <1>1, <2>1 DEF LeaseInv, Leases
  <1>6. QED
    BY <1>2, <1>3, <1>4, <1>5, LeaseChanges

LEMMA SentStep == BaseInv /\ SeqInv /\ SentInv /\ [Next]_vars => SentInv'
  <1> SUFFICES ASSUME BaseInv, SeqInv, SentInv, [Next]_vars,
                      NEW w \in Writes, NEW v \in Writes, NEW i \in Inverters, w[1] = v[1], w[2] < v[2],
                      wpc'[v] \in {"send", "set", "arm"}, i \in ToSet(targets'[v]), i \notin Unsent(v)'
               PROVE  leaseOf'[i] # w
    BY DEF SentInv
  <1>1. /\ leaseOf \in [Inverters -> Writes \cup {NoWrite}] /\ NoWrite \notin Writes
        /\ wpc \in [Writes -> {"new", "cancel", "send", "set", "arm", "conn"} \cup Ended]
        /\ rest \in [Writes -> Seq(Inverters)] /\ targets \in [Writes -> Seq(Inverters)]
        /\ \A n \in Writes : /\ wpc[n] = "cancel" => rest[n] = targets[n]
                             /\ wpc[n] \in {"send", "set"} => rest[n] # <<>>
    BY NoWriteAssumption DEF BaseInv, TypeInv, TypeOK, PlaceInv, Place
  <1>2. w # v
    BY WriteIsPair
  <1> USE DEF Ended, reqVars
  <1>3. ASSUME wpc'[v] = wpc[v], rest'[v] = rest[v], targets'[v] = targets[v] PROVE leaseOf[i] # w
    BY <1>3 DEF Unsent, SentInv
  <1>4. ASSUME wpc[v] \in {"send", "set", "arm"}, targets' = targets, Unsent(v) \subseteq Unsent(v)'
        PROVE  leaseOf[i] # w
    BY <1>4 DEF SentInv
  <1>5. ASSUME NEW b \in Writes, NEW r \in Requests, NEW u \in Speaks[b[1]], Begin(b, u, r) PROVE leaseOf'[i] # w
    <2>1. /\ leaseOf' = leaseOf
          /\ v # b => wpc'[v] = wpc[v] /\ rest'[v] = rest[v] /\ targets'[v] = targets[v]
          /\ v = b /\ wpc'[v] \in {"send", "set", "arm"} => wpc'[v] = "send" /\ rest'[v] = targets'[v]
      BY <1>1, <1>5 DEF Begin, deviceVars, AfterCap
    <2>2. v # b
      BY <2>1 DEF Unsent
    <2>3. QED
      BY <1>3, <2>1, <2>2
  <1>6. ASSUME NEW b \in Writes, CancelFirst(b) PROVE leaseOf'[i] # w
    <2>1. /\ leaseOf' = leaseOf /\ wpc[b] = "cancel" /\ rest[b] = targets[b] /\ UNCHANGED <<rest, targets>>
          /\ wpc' = [wpc EXCEPT ![b] = "send"]
      BY <1>1, <1>6 DEF CancelFirst, deviceVars
    <2>2. v # b
      BY <1>1, <2>1 DEF Unsent
    <2>3. QED
      BY <1>1, <1>3, <2>1, <2>2
  <1>7. ASSUME NEW b \in Writes, SendLimit(b) PROVE leaseOf'[i] # w
    <2>1. /\ wpc[b] = "send" /\ wpc' = [wpc EXCEPT ![b] = "set"] /\ UNCHANGED <<rest, targets>>
          /\ leaseOf' = [leaseOf EXCEPT ![Head(rest[b])] = IF Leases(regs[b]) THEN b ELSE NoWrite]
      BY <1>7 DEF SendLimit
    <2>2. ToSet(rest[b]) = {Head(rest[b])} \cup ToSet(Tail(rest[b]))
      BY <1>1, <2>1, HeadAndTail
    <2>3. CASE i = Head(rest[b])
      <3>1. leaseOf'[i] \in {b, NoWrite}
        BY <1>1, <2>1, <2>3
      <3>2. wpc[v] # "new"
        BY <1>1, <2>1
      <3>3. w # b
        BY <2>1, <3>2 DEF SeqInv
      <3>4. QED
        BY <1>1, <3>1, <3>3
    <2>4. CASE i # Head(rest[b])
      <3>1. leaseOf'[i] = leaseOf[i]
        BY <1>1, <2>1, <2>4
      <3>2. CASE v = b
        <4>1. i \notin Unsent(v) /\ wpc[v] = "send"
          BY <1>1, <2>1, <2>2, <2>4, <3>2 DEF Unsent
        <4>2. QED
          BY <2>1, <3>1, <4>1 DEF SentInv
      <3>3. CASE v # b
        BY <1>1, <1>3, <2>1, <3>1, <3>3
      <3>4. QED
        BY <3>2, <3>3
    <2>5. QED
      BY <2>3, <2>4
  <1>8. ASSUME NEW b \in Writes, SetLimit(b) PROVE leaseOf'[i] # w
    <2>1. /\ leaseOf' = leaseOf /\ wpc[b] = "set" /\ targets' = targets
          /\ v # b => wpc'[v] = wpc[v] /\ rest'[v] = rest[v]
          /\ v = b /\ wpc'[v] \in {"send", "set", "arm"} =>
                \/ Tail(rest[b]) # <<>> /\ wpc'[v] = "send" /\ rest'[v] = Tail(rest[b])
                \/ Tail(rest[b]) = <<>> /\ wpc'[v] = "arm"
      BY <1>1, <1>8 DEF SetLimit, deviceVars, AfterCap
    <2>2. CASE v = b
      BY <1>4, <2>1, <2>2, EmptyToSet DEF Unsent
    <2>3. CASE v # b
      BY <1>3, <2>1, <2>3
    <2>4. QED
      BY <2>2, <2>3
  <1>9. ASSUME NEW b \in Writes, ArmOrCancelReversion(b) \/ SendConn(b) \/ WriteFails(b) PROVE leaseOf'[i] # w
    <2>1. /\ leaseOf' = leaseOf /\ targets' = targets /\ wpc'[b] \notin {"send", "set", "arm"}
          /\ v # b => wpc'[v] = wpc[v] /\ rest'[v] = rest[v]
      BY <1>1, <1>9 DEF ArmOrCancelReversion, SendConn, WriteFails, AfterCap, deviceVars
    <2>2. QED
      BY <1>3, <2>1
  <1>10. ASSUME NEW t \in Writes, Fire(t) \/ Revert(t) PROVE leaseOf'[i] # w
    <2>1. leaseOf[i] # w
      BY <1>3, <1>10, TimerStepKeepsWrites
    <2>2. Restore(t) => leaseOf'[i] \in {leaseOf[i], NoWrite}
      BY <1>1 DEF Restore
    <2>3. QED
      BY <1>1, <1>10, <2>1, <2>2, TimerStepKeepsWrites
  <1>11. CASE Refresh \/ UNCHANGED vars
    BY <1>3, <1>11 DEF Refresh, vars, deviceVars
  <1>12. CASE Restart
    BY <1>1, <1>12 DEF Restart
  <1>13. QED
    BY <1>5, <1>6, <1>7, <1>8, <1>9, <1>10, <1>11, <1>12 DEF Next, Apply

(* The timer a write stops is its own client's, and restores its targets.  *)
LEMMA StoppedIsOwn ==
    ASSUME BaseInv, TargetInv, OneController, OneFleet,
           NEW w \in Writes, wpc[w] # "new", targets[w] # <<>>,
           NEW n \in Writes, Stopped(unit[w])[n] # tpc[n]
    PROVE  n[1] = w[1] /\ trest[n] = targets[w] /\ tpc[n] = "armed"
  <1>1. n = timers[unit[w]] /\ tpc[n] = "armed" /\ NoWrite \notin Writes
    BY NoWriteAssumption DEF Stopped
  <1>2. /\ unit[w] \in Units /\ unit[w] \in Speaks[w[1]]
        /\ wpc[n] # "new" /\ unit[n] \in Speaks[n[1]] /\ trest[n] = targets[n] /\ trest[n] # <<>>
    BY <1>1 DEF BaseInv, PlaceInv, Place, Ended, Firing
  <1>3. unit[n] = unit[w]
    BY <1>1, <1>2 DEF BaseInv, MapLive
  <1>4. n[1] = w[1]
    BY <1>2, <1>3, WriteIsPair DEF OneController
  <1>5. targets[n] = targets[w]
    BY <1>2, <1>3 DEF TargetInv, OneFleet
  <1>6. QED
    BY <1>1, <1>2, <1>4, <1>5

LEMMA CoverStep == OneController /\ OneFleet /\ IInv /\ [Next]_vars => CoverInv'
  <1> DEFINE C(i) == \/ wpc[leaseOf[i]] \in {"send", "set", "arm"}
                     \/ \E n \in Writes : n[1] = leaseOf[i][1] /\ CoveredBy(n, i)
  <1> SUFFICES ASSUME OneController, OneFleet, IInv, [Next]_vars,
                      NEW i \in Inverters, leaseOf'[i] # NoWrite, i \notin stranded'
               PROVE  C(i)'
    BY DEF CoverInv
  <1>1. /\ leaseOf \in [Inverters -> Writes \cup {NoWrite}] /\ NoWrite \notin Writes /\ stranded \subseteq Inverters
        /\ wpc \in [Writes -> {"new", "cancel", "send", "set", "arm", "conn"} \cup Ended]
        /\ tpc \in [Writes -> {"none", "armed", "stopped", "ended"} \cup Firing]
        /\ rest \in [Writes -> Seq(Inverters)] /\ targets \in [Writes -> Seq(Inverters)]
        /\ trest \in [Writes -> Seq(Inverters)]
        /\ \A n \in Writes : /\ wpc[n] = "cancel" => rest[n] = targets[n] /\ regs[n].ena = 0
                             /\ wpc[n] \in {"send", "set"} => rest[n] # <<>>
                             /\ tpc[n] \in {"armed", "fired", "send", "set"} => trest[n] # <<>>
                             /\ wpc[n] \in {"cancel", "arm"} => targets[n] # <<>>
                             /\ tpc[n] # "none" => wpc[n] \in {"conn"} \cup Ended
    BY NoWriteAssumption DEF IInv, BaseInv, TypeInv, TypeOK, PlaceInv, Place, Working, Firing
  <1>2. BaseInv /\ SeqInv /\ TargetInv /\ LeaseInv /\ SentInv /\ CoverInv
    BY DEF IInv
  <1> USE DEF Ended, Firing, reqVars, timerVars, deviceVars
  (* What a step keeps of a covered inverter, when the lease stays. *)
  <1>3. ASSUME leaseOf'[i] = leaseOf[i], i \notin stranded,
               wpc[leaseOf[i]] \in {"send", "set", "arm"} => C(i)',
               \A n \in Writes : n[1] = leaseOf[i][1] /\ CoveredBy(n, i) =>
                   \E m \in Writes : m[1] = leaseOf[i][1] /\ CoveredBy(m, i)'
        PROVE  C(i)'
    BY <1>2, <1>3 DEF CoverInv
  <1>4. ASSUME NEW b \in Writes, NEW r \in Requests, NEW u \in Speaks[b[1]], Begin(b, u, r) PROVE C(i)'
    <2>1. /\ UNCHANGED <<leaseOf, stranded, tpc, trest>> /\ wpc[b] = "new"
          /\ \A n \in Writes : n # b => wpc'[n] = wpc[n] /\ rest'[n] = rest[n] /\ regs'[n] = regs[n]
          /\ leaseOf[i] \in Writes /\ leaseOf[i] # b
      BY <1>1, <1>2, <1>4 DEF Begin, LeaseInv, BaseInv, TypeInv, TypeOK
    <2>2. ASSUME NEW n \in Writes, CoveredBy(n, i) PROVE CoveredBy(n, i)'
      <3>1. CASE i \in ToRestore(n)
        BY <2>1, <3>1 DEF CoveredBy, ToRestore
      <3>2. CASE i \notin ToRestore(n)
        BY <2>1, <2>2, <3>2 DEF CoveredBy, ToSend
      <3>3. QED
        BY <3>1, <3>2
    <2>3. QED
      BY <1>3, <2>1, <2>2
  <1>5. ASSUME NEW b \in Writes, CancelFirst(b) PROVE C(i)'
    <2>1. /\ UNCHANGED <<leaseOf, stranded, trest, rest, regs, targets>> /\ tpc' = Stopped(unit[b])
          /\ wpc[b] = "cancel" /\ wpc' = [wpc EXCEPT ![b] = "send"]
      BY <1>5 DEF CancelFirst, CancelReversion
    <2>2. ASSUME NEW n \in Writes, CoveredBy(n, i), n[1] = leaseOf[i][1]
          PROVE  \E m \in Writes : m[1] = leaseOf[i][1] /\ CoveredBy(m, i)'
      <3>1. CASE i \in ToRestore(n) /\ tpc'[n] # tpc[n]
        <4>1. n[1] = b[1] /\ trest[n] = targets[b] /\ tpc[n] = "armed"
          BY <1>1, <1>2, <2>1, <3>1, StoppedIsOwn
        <4>2. i \in ToSet(rest[b]) /\ regs[b].ena = 0
          BY <1>1, <2>1, <3>1, <4>1 DEF ToRestore
        <4>3. CoveredBy(b, i)'
          BY <1>1, <2>1, <4>2 DEF CoveredBy, ToSend
        <4>4. QED
          BY <2>2, <4>1, <4>3
      <3>2. CASE i \in ToRestore(n) /\ tpc'[n] = tpc[n]
        BY <2>1, <2>2, <3>2 DEF CoveredBy, ToRestore
      <3>3. CASE i \notin ToRestore(n)
        <4>1. regs'[n].ena = 0 /\ wpc'[n] # "new" /\ ToSend(n)' = ToSend(n)
          BY <1>1, <2>1, <2>2, <3>3 DEF CoveredBy, ToSend
        <4>2. QED
          BY <2>2, <3>3, <4>1 DEF CoveredBy
      <3>4. QED
        BY <3>1, <3>2, <3>3
    <2>3. QED
      BY <1>1, <1>3, <2>1, <2>2
  <1>6. ASSUME NEW b \in Writes, SendLimit(b) PROVE C(i)'
    <2>1. /\ UNCHANGED <<tpc, trest, rest, regs, targets>> /\ wpc[b] = "send" /\ wpc' = [wpc EXCEPT ![b] = "set"]
          /\ leaseOf' = [leaseOf EXCEPT ![Head(rest[b])] = IF Leases(regs[b]) THEN b ELSE NoWrite]
          /\ stranded' = stranded \ {Head(rest[b])}
      BY <1>6 DEF SendLimit
    <2>2. ToSet(rest[b]) = {Head(rest[b])} \cup ToSet(Tail(rest[b]))
      BY <1>1, <2>1, HeadAndTail
    <2>3. CASE i = Head(rest[b])
      BY <1>1, <2>1, <2>3
    <2>4. CASE i # Head(rest[b])
      <3>1. leaseOf'[i] = leaseOf[i] /\ i \notin stranded
        BY <1>1, <2>1, <2>4
      <3>2. ASSUME NEW n \in Writes, CoveredBy(n, i) PROVE CoveredBy(n, i)'
        <4>1. ToRestore(n)' = ToRestore(n)
          BY <2>1 DEF ToRestore
        <4>2. i \in ToSend(n) => i \in ToSend(n)'
          BY <1>1, <2>1, <2>2, <2>4 DEF ToSend
        <4>3. QED
          BY <1>1, <2>1, <3>2, <4>1, <4>2 DEF CoveredBy
      <3>3. wpc[leaseOf[i]] \in {"send", "set", "arm"} => wpc'[leaseOf'[i]] \in {"send", "set", "arm"}
        BY <1>1, <2>1, <3>1
      <3>4. QED
        BY <1>3, <3>1, <3>2, <3>3
    <2>5. QED
      BY <2>3, <2>4
  <1>7. ASSUME NEW b \in Writes, SetLimit(b) PROVE C(i)'
    <2>1. /\ UNCHANGED <<leaseOf, stranded, tpc, trest, regs, targets>> /\ wpc[b] = "set"
          /\ \A n \in Writes : n # b => wpc'[n] = wpc[n] /\ rest'[n] = rest[n]
          /\ Tail(rest[b]) # <<>> => wpc'[b] = "send" /\ rest'[b] = Tail(rest[b])
          /\ Tail(rest[b]) = <<>> /\ regs[b].ena # 0 /\ regs[b].rvrt # NotWritten => wpc'[b] = "arm"
          /\ wpc'[b] # "new"
      BY <1>1, <1>7 DEF SetLimit, AfterCap
    <2>2. ASSUME NEW n \in Writes, CoveredBy(n, i) PROVE CoveredBy(n, i)'
      <3>1. ToRestore(n)' = ToRestore(n)
        BY <2>1 DEF ToRestore
      <3>2. i \in ToSend(n) => i \in ToSend(n)'
        BY <1>1, <2>1, EmptyToSet DEF ToSend
      <3>3. QED
        BY <1>1, <2>1, <2>2, <3>1, <3>2 DEF CoveredBy
    <2>3. wpc[leaseOf[i]] \in {"send", "set", "arm"} => wpc'[leaseOf'[i]] \in {"send", "set", "arm"}
      <3>1. Leases(regs[leaseOf[i]]) /\ leaseOf[i] \in Writes
        BY <1>1, <1>2, <2>1 DEF LeaseInv
      <3>2. CASE leaseOf[i] = b
        BY <2>1, <3>1, <3>2 DEF Leases
      <3>3. CASE leaseOf[i] # b
        BY <2>1, <3>1, <3>3
      <3>4. QED
        BY <3>2, <3>3
    <2>4. QED
      BY <1>3, <2>1, <2>2, <2>3
  <1>8. ASSUME NEW b \in Writes, ArmOrCancelReversion(b) PROVE C(i)'
    <2>1. /\ UNCHANGED <<leaseOf, stranded, rest, regs, targets>> /\ wpc[b] = "arm" /\ targets[b] # <<>>
          /\ \A n \in Writes : n # b => wpc'[n] = wpc[n] /\ trest'[n] = trest[n] /\ tpc'[n] = Stopped(unit[b])[n]
          /\ leaseOf[i] \in Writes /\ tpc[b] = "none"
      BY <1>1, <1>8 DEF ArmOrCancelReversion, AfterCap, Schedule, CancelReversion, Stopped
    <2>2. ASSUME NEW n \in Writes, i \in ToSend(n) PROVE ToSend(n)' = ToSend(n) /\ wpc'[n] = wpc[n]
      BY <1>1, <2>1, <2>2 DEF ToSend
    <2>3. ASSUME NEW n \in Writes, i \in ToRestore(n)
          PROVE  \/ i \in ToRestore(n)'
                 \/ n[1] = b[1] /\ i \in ToSet(targets[b])
      <3>1. n # b
        BY <2>1, <2>3 DEF ToRestore
      <3>2. CASE Stopped(unit[b])[n] = tpc[n]
        BY <2>1, <2>3, <3>1, <3>2 DEF ToRestore
      <3>3. CASE Stopped(unit[b])[n] # tpc[n]
        <4>1. n[1] = b[1] /\ trest[n] = targets[b] /\ tpc[n] = "armed"
          BY <1>2, <2>1, <3>3, StoppedIsOwn
        <4>2. QED
          BY <2>3, <4>1 DEF ToRestore
      <3>4. QED
        BY <3>2, <3>3
    <2>4. CASE Leases(regs[b])
      <3>1. tpc'[b] = "armed" /\ trest'[b] = targets[b]
        BY <1>1, <1>8, <2>4 DEF ArmOrCancelReversion, Schedule, Stopped
      <3>2. i \in ToSet(targets[b]) => CoveredBy(b, i)'
        BY <3>1 DEF CoveredBy, ToRestore
      <3>3. ASSUME NEW n \in Writes, n[1] = leaseOf[i][1], CoveredBy(n, i)
            PROVE  \E m \in Writes : m[1] = leaseOf[i][1] /\ CoveredBy(m, i)'
        <4>1. CASE i \in ToRestore(n)
          BY <2>3, <3>2, <3>3, <4>1 DEF CoveredBy
        <4>2. CASE i \notin ToRestore(n)
          BY <2>1, <2>2, <3>3, <4>2 DEF CoveredBy
        <4>3. QED
          BY <4>1, <4>2
      <3>4. ASSUME wpc[leaseOf[i]] \in {"send", "set", "arm"} PROVE C(i)'
        <4>1. CASE leaseOf[i] = b
          <5>1. i \in ToSet(targets[b])
            BY <1>2, <2>1, <4>1 DEF LeaseInv
          <5>2. CoveredBy(b, i)' /\ b[1] = leaseOf'[i][1]
            BY <2>1, <3>2, <4>1, <5>1
          <5>3. QED
            BY <5>2
        <4>2. CASE leaseOf[i] # b
          BY <2>1, <3>4, <4>2
        <4>3. QED
          BY <4>1, <4>2
      <3>5. QED
        BY <1>3, <2>1, <3>3, <3>4
    <2>5. CASE ~Leases(regs[b])
      <3>1. leaseOf[i] # b
        BY <1>2, <2>1, <2>5 DEF LeaseInv
      <3>2. ~(leaseOf[i][1] = b[1] /\ i \in ToSet(targets[b]))
        <4>1. SUFFICES ASSUME leaseOf[i][1] = b[1], i \in ToSet(targets[b]) PROVE FALSE
          OBVIOUS
        <4>2. Unsent(b) = {}
          BY <2>1 DEF Unsent
        <4>3. ~(leaseOf[i][2] < b[2])
          BY <1>2, <2>1, <4>1, <4>2 DEF SentInv
        <4>4. wpc[leaseOf[i]] # "new"
          BY <1>2, <2>1 DEF LeaseInv
        <4>5. ~(b[2] < leaseOf[i][2])
          BY <1>2, <2>1, <4>1, <4>4 DEF SeqInv
        <4>6. leaseOf[i] = b
          BY <2>1, <4>1, <4>3, <4>5, WriteIsPair
        <4>7. QED
          BY <3>1, <4>6
      <3>3. tpc' = Stopped(unit[b]) /\ trest' = trest
        BY <1>8, <2>5 DEF ArmOrCancelReversion, CancelReversion
      <3>4. ASSUME NEW n \in Writes, n[1] = leaseOf[i][1], CoveredBy(n, i) PROVE CoveredBy(n, i)'
        <4>1. CASE i \in ToRestore(n)
          BY <2>3, <3>2, <3>4, <4>1 DEF CoveredBy
        <4>2. CASE i \notin ToRestore(n)
          BY <2>1, <2>2, <3>4, <4>2 DEF CoveredBy
        <4>3. QED
          BY <4>1, <4>2
      <3>5. wpc[leaseOf[i]] \in {"send", "set", "arm"} => wpc'[leaseOf'[i]] \in {"send", "set", "arm"}
        BY <2>1, <3>1
      <3>6. QED
        BY <1>3, <2>1, <3>4, <3>5
    <2>6. QED
      BY <2>4, <2>5
  <1>9. ASSUME NEW b \in Writes, SendConn(b) PROVE C(i)'
    <2>1. /\ UNCHANGED <<leaseOf, stranded, tpc, trest, regs>> /\ wpc[b] = "conn" /\ wpc'[b] \in {"conn", "done"}
          /\ \A n \in Writes : n # b => wpc'[n] = wpc[n] /\ rest'[n] = rest[n]
      BY <1>1, <1>9 DEF SendConn
    <2>2. ASSUME NEW n \in Writes, CoveredBy(n, i) PROVE CoveredBy(n, i)'
      <3>1. ToRestore(n)' = ToRestore(n) /\ ToSend(n)' = ToSend(n)
        BY <2>1 DEF ToRestore, ToSend
      <3>2. QED
        BY <2>1, <2>2, <3>1 DEF CoveredBy
    <2>3. wpc[leaseOf[i]] \in {"send", "set", "arm"} => wpc'[leaseOf'[i]] \in {"send", "set", "arm"}
      BY <1>1, <2>1
    <2>4. QED
      BY <1>3, <2>1, <2>2, <2>3
  <1>10. ASSUME NEW b \in Writes, WriteFails(b) PROVE C(i)'
    <2>1. /\ UNCHANGED <<leaseOf, tpc, trest, rest, regs>> /\ wpc[b] \in {"send", "conn"}
          /\ wpc' = [wpc EXCEPT ![b] = "failed"] /\ i \notin stranded /\ i \notin LosesOn(b) /\ leaseOf[i] \in Writes
      BY <1>1, <1>10 DEF WriteFails
    <2>2. ASSUME NEW n \in Writes, CoveredBy(n, i) PROVE CoveredBy(n, i)'
      <3>1. ToRestore(n)' = ToRestore(n)
        BY <2>1 DEF ToRestore
      <3>2. CASE n = b
        <4>1. i \in ToSend(n) => i \in LosesOn(b) \/ regs[n].ena # 0
          BY <1>1, <2>1, <3>2 DEF ToSend, LosesOn
        <4>2. QED
          BY <2>1, <2>2, <3>1, <4>1 DEF CoveredBy
      <3>3. CASE n # b
        BY <1>1, <2>1, <2>2, <3>1, <3>3 DEF CoveredBy, ToSend
      <3>4. QED
        BY <3>2, <3>3
    <2>3. wpc[leaseOf[i]] \in {"send", "set", "arm"} => wpc'[leaseOf'[i]] \in {"send", "set", "arm"}
      BY <1>1, <2>1 DEF LosesOn
    <2>4. QED
      BY <1>3, <2>1, <2>2, <2>3
  <1>11. ASSUME NEW t \in Writes, Fire(t) \/ Forget(t) PROVE C(i)'
    <2>1. UNCHANGED <<leaseOf, stranded, trest, wpc, rest, regs>>
          /\ \A n \in Writes : ToRestore(n)' = ToRestore(n)
      BY <1>1, <1>11 DEF Fire, Forget, ToRestore
    <2>2. ASSUME NEW n \in Writes, CoveredBy(n, i) PROVE CoveredBy(n, i)'
      BY <2>1, <2>2 DEF CoveredBy, ToSend
    <2>3. QED
      BY <1>3, <2>1, <2>2
  (* A restore: the inverters after the one it serves stay covered. *)
  <1>12. ASSUME NEW t \in Writes, Restore(t) \/ SetRestored(t) \/ RestoreFails(t) PROVE C(i)'
    <2>1. UNCHANGED <<wpc, rest, regs>> /\ tpc[t] \in {"send", "set"} /\ trest[t] # <<>>
      BY <1>1, <1>12 DEF Restore, SetRestored, RestoreFails
    <2>2. leaseOf'[i] = leaseOf[i] /\ i \notin stranded /\ (tpc[t] = "send" => i # Head(trest[t]))
      BY <1>1, <1>12 DEF Restore, SetRestored, RestoreFails
    <2>3. /\ ToSet(trest[t]) = {Head(trest[t])} \cup ToSet(Tail(trest[t]))
          /\ Len(trest[t]) = 1 <=> Tail(trest[t]) = <<>>
      BY <1>1, <2>1, HeadAndTail
    <2>4. i \in ToRestore(t) => i \in ToSet(Tail(trest[t])) /\ Tail(trest[t]) # <<>>
      BY <2>1, <2>2, <2>3, EmptyToSet DEF ToRestore
    <2>5. /\ \A n \in Writes : n # t => tpc'[n] = tpc[n] /\ trest'[n] = trest[n]
          /\ \/ tpc[t] = "send" /\ tpc'[t] = "set" /\ trest'[t] = trest[t]
             \/ /\ trest'[t] = Tail(trest[t])
                /\ tpc'[t] = IF Len(trest[t]) = 1 THEN "ended" ELSE "send"
      BY <1>1, <1>12 DEF Restore, SetRestored, RestoreFails, Later, NextTarget
    <2>6. ASSUME NEW n \in Writes, CoveredBy(n, i) PROVE CoveredBy(n, i)'
      <3>1. ToSend(n)' = ToSend(n)
        BY <2>1 DEF ToSend
      <3>2. i \in ToRestore(n) => i \in ToRestore(n)'
        <4>1. CASE n = t
          BY <2>3, <2>4, <2>5, <4>1 DEF ToRestore
        <4>2. CASE n # t
          BY <2>5, <4>2 DEF ToRestore
        <4>3. QED
          BY <4>1, <4>2
      <3>3. QED
        BY <2>1, <2>6, <3>1, <3>2 DEF CoveredBy
    <2>7. QED
      BY <1>3, <2>1, <2>2, <2>6
  <1>13. CASE Refresh \/ UNCHANGED vars
    <2>1. UNCHANGED <<leaseOf, stranded, tpc, trest, wpc, rest, regs>>
      BY <1>13 DEF Refresh, vars
    <2>2. \A n \in Writes : CoveredBy(n, i)' = CoveredBy(n, i)
      BY <2>1 DEF CoveredBy, ToRestore, ToSend
    <2>3. QED
      BY <1>3, <2>1, <2>2
  <1>14. ~Restart
    BY <1>1 DEF Restart
  <1>15. QED
    BY <1>4, <1>5, <1>6, <1>7, <1>8, <1>9, <1>10, <1>11, <1>12, <1>13, <1>14 DEF Next, Apply, Revert

LEMMA InitCovered == Init => IInv
  <1> SUFFICES ASSUME Init PROVE IInv
    OBVIOUS
  <1>1. SeqInv /\ TargetInv /\ RestInv /\ LeaseInv /\ SentInv /\ CoverInv
    BY DEF Init, SeqInv, TargetInv, RestInv, LeaseInv, SentInv, CoverInv, Sending
  <1>2. QED
    BY <1>1, InitBase DEF IInv

LEMMA StepCovered == OneController /\ OneFleet /\ IInv /\ [Next]_vars => IInv'
  BY BaseStep, SeqStep, TargetStep, RestStep, LeaseStep, SentStep, CoverStep DEF IInv

(* Where each unit has one controller and the fleet stays, a leased cap    *)
(* that no failure has lost is one that a live timer, its write, or a      *)
(* write that restores full power will end (controls_writer.go:62-65,      *)
(* reverter.go:66-109): Schedule and Cancel stop a timer only when the     *)
(* write that stops it answers for the same inverters.                     *)
THEOREM LeasesAreCovered ==
    ASSUME OneController, OneFleet
    PROVE  Spec => []LeaseCovered
  <1>1. IInv /\ [Next]_vars => IInv'
    BY StepCovered
  <1>2. IInv => LeaseCovered
    <2> SUFFICES ASSUME IInv PROVE LeaseCovered
      OBVIOUS
    <2>1. TypeOK /\ MapLive /\ CoverInv
      BY DEF IInv, BaseInv, TypeInv
    <2>2. \A n \in Writes : wpc[n] # "new" => regs[n] # NoWrite
      BY NoWriteAssumption DEF IInv, BaseInv, PlaceInv, Place
    <2>3. QED
      BY <2>1, <2>2 DEF LeaseCovered, CoverInv, CoveredBy
  <1>3. QED
    BY <1>1, <1>2, InitCovered, PTL DEF Spec
=============================================================================
