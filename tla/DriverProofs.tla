---------------------------- MODULE DriverProofs ----------------------------
(***************************************************************************)
(* What inv-driver's subscribers are told (Fanout), what the dashboard     *)
(* shows of it (Dashboard), and what the inverters end up with             *)
(* (ProfilePush): for any fleet, writers, browsers and buffers, and any    *)
(* number of selections and requests.                                      *)
(***************************************************************************)
EXTENDS Fanout, Dashboard, ProfilePush, SequenceTheorems, TLAPS

-----------------------------------------------------------------------------
(* The inductive invariant of the fan-out.                                 *)

Slots == Legs \cup {0}
Pending == [pc : {"idle", "looked", "written", "sent"}, uid : Fleet \cup {Absent}, leg : Slots]

(* The types, one variable at a time.                                      *)
FanTypes ==
    /\ inventory \in [Fleet -> Entries] /\ latest \in [Fleet -> Entries] /\ replayRows \in [Fleet -> Entries]
    /\ writer \in [Writers -> Pending] /\ slow \in [Writers -> {"none", "this", "old"}]
    /\ closes \in Nat /\ ch \in Seq(Envelope) /\ Len(ch) <= ChanCap
    /\ conn \in {"down", "replay", "rows", "live"} /\ excused \subseteq Fleet
FanFlags == subscribed \in BOOLEAN

\* Between two sessions nobody is subscribed and nothing is queued.
SessionOver ==
    /\ conn = "down" => subscribed = FALSE /\ ch = <<>>
    /\ subscribed => closes = 0
    /\ closes <= 1

\* Only a frame of an inverter waits without one; a setter that has written or looked has a leg; a
\* writer that found the subscriber full has still to evict it.
WritersOK ==
    \A w \in Writers :
        /\ slow[w] = "this" => writer[w].pc = "sent"
        /\ writer[w].pc # "idle" => writer[w].uid \in Fleet
        /\ writer[w].pc = "looked" => w \in Setters
        /\ writer[w].pc \in {"looked", "written"} /\ w \in Setters => writer[w].leg \in Legs

Writes(w, u) == writer[w].pc = "written" /\ writer[w].uid = u

(* What is written and not yet published is what the row says, unless the  *)
(* inverter is excused.                                                    *)
PendingIsRow ==
    \A u \in Fleet \ excused : \A w \in Writers : Writes(w, u) =>
        /\ \A v \in Writers : Writes(v, u) => v = w
        /\ w = "remover" => inventory[u] = Absent
        /\ w = "frames" => inventory[u] # Absent
        /\ w \in Setters => inventory[u] = writer[w].leg

RemovedAfter(u, k) == \E j \in 1 .. Len(ch) : j > k /\ ch[j].uid = u /\ ch[j].kind = "removed"
\* An entry a replay puts right.
Mendable(v, row) == v = Absent \/ (row # Absent /\ (row = 0 => v = 0))
\* The entry v, from before the envelope k, is put right by a removal or by the next replay.
Mended(u, v, k) == Mendable(v, inventory[u]) \/ Writes("remover", u) \/ RemovedAfter(u, k)

(* No entry that is kept, replayed or queued outlives a deletion.          *)
NothingOutlives ==
    \A u \in Fleet \ excused :
        /\ Mended(u, latest[u], 0)
        /\ conn = "rows" => Mended(u, replayRows[u], 0)
        /\ \A k \in 1 .. Len(ch) : ch[k].uid = u =>
              /\ ch[k].kind = "info" => Mended(u, ch[k].leg, k)
              /\ ch[k].kind = "telemetry" => Mended(u, 0, k)

HardAfter(u, k) == \E j \in 1 .. Len(ch) : j > k /\ ch[j].uid = u /\ ch[j].kind # "telemetry"
FrameAfter(u, k) == \E j \in 1 .. Len(ch) : j > k /\ ch[j].uid = u /\ ch[j].kind = "telemetry"
\* The entry v, from before the envelope k, becomes what the row says.
Becomes(u, v, k) ==
    \/ v = inventory[u]
    \/ \E w \in Writers \ {"frames"} : Writes(w, u)
    \/ HardAfter(u, k)
    \/ v = Absent /\ inventory[u] = 0 /\ (Writes("frames", u) \/ FrameAfter(u, k))

\* What the client has of u once the replay is through.
AfterReplay(u) ==
    IF conn = "rows" /\ replayRows[u] # Absent THEN Replayed(latest[u], replayRows[u]) ELSE latest[u]
\* What an envelope leaves.
Left(e) == IF e.kind = "removed" THEN Absent ELSE e.leg

(* A subscriber that has missed nothing ends up with the rows.             *)
Served == subscribed /\ \A w \in Writers : slow[w] # "this"
EndsCurrent ==
    Served => \A u \in Fleet \ excused :
        /\ conn \in {"rows", "live"} => Becomes(u, AfterReplay(u), 0)
        /\ \A k \in 1 .. Len(ch) : ch[k].uid = u /\ ch[k].kind # "telemetry" => Becomes(u, Left(ch[k]), k)

FanInv ==
    FanTypes /\ FanFlags /\ SessionOver /\ WritersOK /\ PendingIsRow /\ NothingOutlives /\ EndsCurrent

-----------------------------------------------------------------------------
(* Lemmas about sequences and the constants.                               *)

LEMMA FanoutBounds ==
    /\ ChanCap \in Nat \ {0} /\ Legs \subseteq Nat \ {0} /\ Absent \notin Nat /\ Absent \notin Fleet
    /\ "remover" \notin Setters /\ "frames" \notin Setters /\ 0 \notin Legs
  BY FanoutAssumption

LEMMA AppendedTo ==
    ASSUME NEW S, NEW s \in Seq(S), NEW e \in S
    PROVE  /\ Append(s, e) \in Seq(S) /\ Len(Append(s, e)) = Len(s) + 1 /\ Len(s) \in Nat
           /\ Append(s, e)[Len(s) + 1] = e /\ \A k \in 1 .. Len(s) : Append(s, e)[k] = s[k]
  BY AppendProperties

LEMMA TailOf ==
    ASSUME NEW S, NEW s \in Seq(S), s # <<>>
    PROVE  /\ Head(s) \in S /\ Tail(s) \in Seq(S) /\ Len(s) \in Nat \ {0} /\ Len(Tail(s)) = Len(s) - 1
           /\ Head(s) = s[1] /\ \A k \in 1 .. Len(Tail(s)) : Tail(s)[k] = s[k + 1]
  BY HeadTailProperties, EmptySeq

(* What is queued is an envelope.                                          *)
LEMMA Queued ==
    ASSUME FanTypes
    PROVE  /\ Len(ch) \in Nat /\ 0 \in Entries
           /\ \A k \in 1 .. Len(ch) : /\ k \in Nat /\ k \in 0 .. Len(ch) /\ ch[k] \in Envelope /\ ch[k].uid \in Fleet
                                      /\ ch[k].leg \in Entries /\ Left(ch[k]) \in Entries
  <1>1. Len(ch) \in Nat /\ \A k \in 1 .. Len(ch) : ch[k] \in Envelope
    BY DEF FanTypes
  <1>2. QED
    BY <1>1 DEF Envelope, Entries, Left

LEMMA InitFan == FanInit => FanInv
  <1> SUFFICES ASSUME FanInit PROVE FanInv
    OBVIOUS
  <1> USE FanoutBounds DEF FanInit, FanInv
  <1>1. FanTypes
    BY DEF FanTypes, Entries, Pending, Rest, Slots
  <1>2. FanFlags /\ SessionOver
    <2>1. subscribed = FALSE /\ ch = <<>> /\ closes = 0
      OBVIOUS
    <2>2. FanFlags
      BY <2>1 DEF FanFlags
    <2>3. SessionOver
      BY <2>1 DEF SessionOver
    <2>4. QED
      BY <2>2, <2>3
  <1>3. WritersOK /\ PendingIsRow
    BY DEF WritersOK, PendingIsRow, Writes, Rest
  <1>4. NothingOutlives /\ EndsCurrent
    BY DEF NothingOutlives, Mended, Mendable, EndsCurrent, Served
  <1>5. QED
    BY <1>1, <1>2, <1>3, <1>4

LEMMA LookupStep ==
    ASSUME FanInv, NEW s \in Setters, SetLookup(s)
    PROVE  FanInv'
  <1> USE FanoutBounds DEF FanInv, SetLookup, Rest, Writers
  <1>1. FanTypes'
    BY DEF FanTypes, Entries, Pending, Slots, Envelope, Replayed
  <1>2. FanFlags'
    BY DEF FanFlags
  <1>3. SessionOver'
    BY DEF SessionOver, FanTypes
  <1>4. WritersOK'
    BY DEF WritersOK, FanTypes, Pending
  <1>5. PendingIsRow'
    BY DEF PendingIsRow, WritersOK, Writes, FanTypes, Pending
  <1>6. NothingOutlives'
    BY DEF NothingOutlives, Mended, Mendable, RemovedAfter, PendingIsRow, WritersOK, Writes, SessionOver, FanTypes,
       Pending,
           Entries, Slots, Replayed
  <1>7. EndsCurrent'
    BY DEF EndsCurrent, Served, Becomes, HardAfter, FrameAfter, AfterReplay, Left, NothingOutlives, Mended,
       Mendable, RemovedAfter, PendingIsRow, WritersOK, Writes, SessionOver, FanTypes, Pending, Entries, Slots, Replayed
  <1>8. QED
    BY <1>1, <1>2, <1>3, <1>4, <1>5, <1>6, <1>7

LEMMA PersistStep ==
    ASSUME FanInv, NEW s \in Setters, SetPersist(s)
    PROVE  FanInv'
  <1> USE FanoutBounds DEF FanInv, SetPersist, Wrote, Overlaps, Rest, Writers
  <1>1. FanTypes'
    <2>1. writer[s].uid \in Fleet /\ writer[s].leg \in Legs
      BY DEF WritersOK
    <2>2. writer' \in [Writers -> Pending]
      BY <2>1 DEF FanTypes, Pending, Slots
    <2>3. inventory' \in [Fleet -> Entries]
      BY <2>1 DEF FanTypes, Entries
    <2>4. QED
      BY <2>1, <2>2, <2>3 DEF FanTypes
  <1>2. FanFlags'
    BY DEF FanFlags
  <1>3. SessionOver'
    BY DEF SessionOver, FanTypes
  <1>4. WritersOK'
    BY DEF WritersOK, FanTypes, Pending
  <1>5. PendingIsRow'
    BY DEF PendingIsRow, WritersOK, Writes, FanTypes, Pending
  <1>6. NothingOutlives'
    <2>1. /\ writer[s].leg # Absent /\ writer[s].leg # 0 /\ s # "remover"
          /\ inventory' = [inventory EXCEPT ![writer[s].uid] = writer[s].leg] /\ ch' = ch
      BY DEF WritersOK
    <2>2. \A u \in Fleet, v \in Entries, k \in Nat : Mended(u, v, k) => Mended(u, v, k)'
      BY <2>1 DEF Mended, Mendable, RemovedAfter, Writes, FanTypes
    <2>3. QED
      BY <2>2, Queued DEF NothingOutlives, FanTypes
  <1>7. EndsCurrent'
    BY SMTT(40) DEF EndsCurrent, Served, Becomes, HardAfter, FrameAfter, AfterReplay, Left, NothingOutlives, Mended,
       Mendable, RemovedAfter, PendingIsRow, WritersOK, Writes, SessionOver, FanTypes, Pending, Entries, Slots, Replayed
  <1>8. QED
    BY <1>1, <1>2, <1>3, <1>4, <1>5, <1>6, <1>7

LEMMA FrameStep ==
    ASSUME FanInv, NEW i \in Fleet, FrameStored(i)
    PROVE  FanInv'
  <1> USE FanoutBounds DEF FanInv, FrameStored, Wrote, Overlaps, Rest, Writers
  <1>1. FanTypes'
    BY DEF FanTypes, Entries, Pending, Slots, Envelope, Replayed
  <1>2. FanFlags'
    BY DEF FanFlags
  <1>3. SessionOver'
    BY DEF SessionOver, FanTypes
  <1>4. WritersOK'
    BY DEF WritersOK, FanTypes, Pending
  <1>5. PendingIsRow'
    BY DEF PendingIsRow, WritersOK, Writes, FanTypes, Pending
  <1>6. NothingOutlives'
    BY DEF NothingOutlives, Mended, Mendable, RemovedAfter, PendingIsRow, WritersOK, Writes, SessionOver, FanTypes,
       Pending,
           Entries, Slots, Replayed
  <1>7. EndsCurrent'
    <2>1. writer' = [writer EXCEPT !["frames"] = [pc |-> "written", uid |-> i, leg |-> 0]] /\ writer["frames"].pc = "idle"
      OBVIOUS
    <2>2. \A u \in Fleet, v \in Entries, k \in Nat : Becomes(u, v, k) => Becomes(u, v, k)'
      BY <2>1 DEF Becomes, HardAfter, FrameAfter, Writes, FanTypes
    <2>3. Served' => Served
      BY DEF Served
    <2>4. \A u \in Fleet : AfterReplay(u) \in Entries /\ AfterReplay(u)' = AfterReplay(u)
      BY DEF AfterReplay, Replayed, FanTypes, Entries
    <2>5. \A k \in 1 .. Len(ch) : Left(ch[k]) \in Entries
      BY Queued
    <2>6. QED
      BY <2>2, <2>3, <2>4, <2>5 DEF EndsCurrent
  <1>8. QED
    BY <1>1, <1>2, <1>3, <1>4, <1>5, <1>6, <1>7

LEMMA DeleteStep ==
    ASSUME FanInv, NEW i \in Fleet, RowDeleted(i)
    PROVE  FanInv'
  <1> USE FanoutBounds DEF FanInv, RowDeleted, Wrote, Overlaps, Rest, Writers
  <1>1. FanTypes'
    BY DEF FanTypes, Entries, Pending, Slots, Envelope, Replayed
  <1>2. FanFlags'
    BY DEF FanFlags
  <1>3. SessionOver'
    BY DEF SessionOver, FanTypes
  <1>4. WritersOK'
    BY DEF WritersOK, FanTypes, Pending
  <1>5. PendingIsRow'
    BY DEF PendingIsRow, WritersOK, Writes, FanTypes, Pending
  <1>6. NothingOutlives'
    BY DEF NothingOutlives, Mended, Mendable, RemovedAfter, PendingIsRow, WritersOK, Writes, SessionOver, FanTypes,
       Pending,
           Entries, Slots, Replayed
  <1>7. EndsCurrent'
    BY DEF EndsCurrent, Served, Becomes, HardAfter, FrameAfter, AfterReplay, Left, NothingOutlives, Mended,
       Mendable, RemovedAfter, PendingIsRow, WritersOK, Writes, SessionOver, FanTypes, Pending, Entries, Slots, Replayed
  <1>8. QED
    BY <1>1, <1>2, <1>3, <1>4, <1>5, <1>6, <1>7

LEMMA PublishStep ==
    ASSUME FanInv, NEW p \in Writers, Publish(p)
    PROVE  FanInv'
  <1> USE FanoutBounds DEF FanInv, Publish, KindOf, Env, Rest, Writers
  <1>1. FanTypes'
    <2>1. Env(KindOf(p), writer[p].uid, writer[p].leg) \in Envelope
      BY DEF WritersOK, FanTypes, Pending, Slots, Envelope
    <2>2. ch' \in Seq(Envelope) /\ Len(ch') <= ChanCap
      BY <2>1, AppendedTo DEF FanTypes
    <2>3. writer' \in [Writers -> Pending] /\ slow' \in [Writers -> {"none", "this", "old"}]
      BY DEF FanTypes, Pending, Slots
    <2>4. excused' \subseteq Fleet
      BY DEF WritersOK, FanTypes
    <2>5. QED
      BY <2>2, <2>3, <2>4 DEF FanTypes
  <1>2. FanFlags'
    BY DEF FanFlags
  <1>3. SessionOver'
    BY DEF SessionOver, FanTypes
  <1>4. WritersOK'
    BY DEF WritersOK, FanTypes, Pending
  <1>5. PendingIsRow'
    BY DEF PendingIsRow, WritersOK, Writes, FanTypes, Pending
  <1>6. NothingOutlives'
    <2>1. Len(ch) \in Nat /\ writer[p].uid \in Fleet /\ (p \in Setters => writer[p].leg \in Legs)
      BY DEF FanTypes, WritersOK
    <2>2. CASE subscribed /\ Len(ch) < ChanCap
      <3>1. PICK e \in Envelope : e = Env(KindOf(p), writer[p].uid, writer[p].leg) /\ ch' = Append(ch, e)
        BY <2>2 DEF WritersOK, FanTypes, Pending, Slots, Envelope
      <3>2. /\ Len(ch') = Len(ch) + 1 /\ ch'[Len(ch) + 1] = e /\ \A k \in 1 .. Len(ch) : ch'[k] = ch[k]
            /\ Len(ch) + 1 \in 1 .. Len(ch') /\ \A k \in 1 .. Len(ch') : k = Len(ch) + 1 \/ k \in 1 .. Len(ch)
        BY <2>1, <3>1, AppendedTo DEF FanTypes
      <3>3. writer' = [writer EXCEPT ![p] = Rest]
        BY <2>2
      <3>4. \A u \in Fleet, v \in Entries, k \in 0 .. Len(ch) : Mended(u, v, k) => Mended(u, v, k)'
        <4>1. SUFFICES ASSUME NEW u \in Fleet, NEW v \in Entries, NEW k \in 0 .. Len(ch), Mended(u, v, k)
                       PROVE  Mended(u, v, k)'
          OBVIOUS
        <4>2. CASE Mendable(v, inventory[u])
          BY <4>2 DEF Mended, Mendable
        <4>3. CASE RemovedAfter(u, k)
          <5>1. RemovedAfter(u, k)'
            BY <2>1, <3>2, <4>3 DEF RemovedAfter
          <5>2. QED
            BY <5>1 DEF Mended
        <4>4. CASE Writes("remover", u) /\ p = "remover"
          <5>1. e.kind = "removed" /\ e.uid = u
            BY <3>1, <4>4 DEF Writes
          <5>2. RemovedAfter(u, k)'
            BY <2>1, <3>2, <5>1 DEF RemovedAfter
          <5>3. QED
            BY <5>2 DEF Mended
        <4>5. CASE Writes("remover", u) /\ p # "remover"
          BY <3>3, <4>5 DEF Mended, Writes, FanTypes
        <4>6. QED
          BY <4>1, <4>2, <4>3, <4>4, <4>5 DEF Mended
      <3>5. ASSUME e.uid \notin excused, e.kind # "removed"
            PROVE  Mendable(IF e.kind = "info" THEN e.leg ELSE 0, inventory[e.uid])
        <4>1. Writes(p, e.uid) /\ e.uid \in Fleet \ excused
          BY <2>1, <3>1, <3>5 DEF Writes
        <4>2. QED
          BY <2>1, <3>1, <3>5, <4>1 DEF PendingIsRow, Mendable
      <3>6. excused' = excused /\ conn' = conn /\ latest' = latest /\ replayRows' = replayRows
        BY <2>2
      <3>7. QED
        <4>1. ASSUME NEW u \in Fleet \ excused
              PROVE Mended(u, latest[u], 0)' /\ (conn = "rows" => Mended(u, replayRows[u], 0)')
          BY <2>1, <3>4, <3>6 DEF NothingOutlives, FanTypes, Mended
        <4>2. ASSUME NEW u \in Fleet \ excused, NEW k \in 1 .. Len(ch), ch[k].uid = u
              PROVE  /\ ch[k].kind = "info" => Mended(u, ch[k].leg, k)'
                     /\ ch[k].kind = "telemetry" => Mended(u, 0, k)'
          BY <3>4, <4>2, Queued DEF NothingOutlives
        <4>3. ASSUME NEW u \in Fleet \ excused, NEW k \in 1 .. Len(ch'), ch'[k].uid = u
              PROVE  /\ ch'[k].kind = "info" => Mended(u, ch[k].leg, k)'
                     /\ ch'[k].kind = "telemetry" => Mended(u, 0, k)'
          <5>1. CASE k \in 1 .. Len(ch)
            <6>1. ch'[k] = ch[k]
              BY <3>2, <5>1
            <6>2. QED
              BY <4>2, <4>3, <5>1, <6>1 DEF Mended
          <5>2. CASE k = Len(ch) + 1
            <6>1. ch'[k] = e
              BY <3>2, <5>2
            <6>2. inventory' = inventory
              OBVIOUS
            <6>3. QED
              BY <3>5, <4>3, <6>1, <6>2 DEF Mended, Mendable
          <5>3. QED
            BY <3>2, <5>1, <5>2
        <4>4. QED
          BY <3>6, <4>1, <4>3 DEF NothingOutlives
    <2>3. CASE ~(subscribed /\ Len(ch) < ChanCap)
      <3>1. ch' = ch
        BY <2>3
      <3>2. \A u \in Fleet \ excused', v \in Entries, k \in Nat : Mended(u, v, k) => Mended(u, v, k)'
        BY <2>1, <2>3, <3>1 DEF Mended, Mendable, RemovedAfter, Writes, FanTypes
      <3>3. excused \subseteq excused'
        OBVIOUS
      <3>4. QED
        BY <3>1, <3>2, <3>3, Queued DEF NothingOutlives, FanTypes
    <2>4. QED
      BY <2>2, <2>3
  <1>7. EndsCurrent'
    <2>1. SUFFICES ASSUME Served' PROVE EndsCurrent'
      BY DEF EndsCurrent
    <2>2. Len(ch) \in Nat /\ writer[p].uid \in Fleet /\ (p \in Setters => writer[p].leg \in Legs)
      BY DEF FanTypes, WritersOK
    <2>3. subscribed /\ Len(ch) < ChanCap /\ Served
      BY <2>1 DEF Served, FanTypes, WritersOK
    <2>4. PICK e \in Envelope : e = Env(KindOf(p), writer[p].uid, writer[p].leg) /\ ch' = Append(ch, e)
      BY <2>3 DEF WritersOK, FanTypes, Pending, Slots, Envelope
    <2>5. /\ Len(ch') = Len(ch) + 1 /\ ch'[Len(ch) + 1] = e /\ \A k \in 1 .. Len(ch) : ch'[k] = ch[k]
          /\ Len(ch) + 1 \in 1 .. Len(ch') /\ \A k \in 1 .. Len(ch') : k = Len(ch) + 1 \/ k \in 1 .. Len(ch)
      BY <2>2, <2>4, AppendedTo DEF FanTypes
    <2>6. writer' = [writer EXCEPT ![p] = Rest]
      BY <2>3
    <2>7. \A u \in Fleet, v \in Entries, k \in 0 .. Len(ch) : Becomes(u, v, k) => Becomes(u, v, k)'
      <3>1. SUFFICES ASSUME NEW u \in Fleet, NEW v \in Entries, NEW k \in 0 .. Len(ch), Becomes(u, v, k)
                     PROVE  Becomes(u, v, k)'
        OBVIOUS
      <3>2. CASE v = inventory[u]
        BY <3>2 DEF Becomes
      <3>3. CASE HardAfter(u, k)
        <4>1. HardAfter(u, k)'
          BY <2>2, <2>5, <3>3 DEF HardAfter
        <4>2. QED
          BY <4>1 DEF Becomes
      <3>4. ASSUME NEW w \in Writers \ {"frames"}, Writes(w, u) PROVE Becomes(u, v, k)'
        <4>1. CASE w = p
          <5>1. e.kind # "telemetry" /\ e.uid = u
            BY <2>4, <3>4, <4>1 DEF Writes
          <5>2. HardAfter(u, k)'
            BY <2>2, <2>5, <5>1 DEF HardAfter
          <5>3. QED
            BY <5>2 DEF Becomes
        <4>2. CASE w # p
          BY <2>6, <3>4, <4>2 DEF Becomes, Writes, FanTypes
        <4>3. QED
          BY <4>1, <4>2
      <3>5. CASE v = Absent /\ inventory[u] = 0 /\ FrameAfter(u, k)
        <4>1. FrameAfter(u, k)'
          BY <2>2, <2>5, <3>5 DEF FrameAfter
        <4>2. QED
          BY <3>5, <4>1 DEF Becomes
      <3>6. CASE v = Absent /\ inventory[u] = 0 /\ Writes("frames", u)
        <4>1. CASE p = "frames"
          <5>1. e.kind = "telemetry" /\ e.uid = u
            BY <2>4, <3>6, <4>1 DEF Writes
          <5>2. FrameAfter(u, k)'
            BY <2>2, <2>5, <5>1 DEF FrameAfter
          <5>3. QED
            BY <3>6, <5>2 DEF Becomes
        <4>2. CASE p # "frames"
          BY <2>6, <3>6, <4>2 DEF Becomes, Writes, FanTypes
        <4>3. QED
          BY <4>1, <4>2
      <3>7. QED
        BY <3>1, <3>2, <3>3, <3>4, <3>5, <3>6 DEF Becomes
    <2>8. ASSUME e.uid \notin excused, e.kind # "telemetry" PROVE Left(e) = inventory[e.uid]
      <3>1. Writes(p, e.uid) /\ e.uid \in Fleet \ excused
        BY <2>2, <2>4, <2>8 DEF Writes
      <3>2. QED
        BY <2>2, <2>4, <2>8, <3>1 DEF PendingIsRow, Left
    <2>9. \A u \in Fleet : AfterReplay(u) \in Entries /\ AfterReplay(u)' = AfterReplay(u)
      BY DEF AfterReplay, Replayed, FanTypes, Entries
    <2>10. \A k \in 1 .. Len(ch) : Left(ch[k]) \in Entries /\ k \in 0 .. Len(ch)
      BY Queued
    <2>11. excused' = excused /\ conn' = conn
      BY <2>3
    <2>12. ASSUME NEW u \in Fleet \ excused, conn \in {"rows", "live"} PROVE Becomes(u, AfterReplay(u), 0)'
      <3>1. 0 \in 0 .. Len(ch) /\ Becomes(u, AfterReplay(u), 0)
        BY <2>2, <2>3, <2>12 DEF EndsCurrent
      <3>2. PICK v \in Entries : v = AfterReplay(u)
        BY <2>9
      <3>3. Becomes(u, v, 0)'
        BY <2>7, <3>1, <3>2
      <3>4. QED
        BY <2>9, <3>2, <3>3 DEF Becomes
    <2>13. ASSUME NEW u \in Fleet \ excused, NEW k \in 1 .. Len(ch'), ch'[k].uid = u, ch'[k].kind # "telemetry"
           PROVE  Becomes(u, Left(ch[k]), k)'
      <3>1. CASE k \in 1 .. Len(ch)
        <4>1. ch'[k] = ch[k]
          BY <2>5, <3>1
        <4>2. Becomes(u, Left(ch[k]), k)
          BY <2>3, <2>13, <3>1, <4>1 DEF EndsCurrent
        <4>3. PICK v \in Entries : v = Left(ch[k])
          BY <2>10, <3>1
        <4>4. Becomes(u, v, k)'
          BY <2>7, <2>10, <3>1, <4>2, <4>3
        <4>5. QED
          BY <4>1, <4>3, <4>4 DEF Becomes, Left
      <3>2. CASE k = Len(ch) + 1
        <4>1. ch'[k] = e
          BY <2>5, <3>2
        <4>2. inventory' = inventory
          OBVIOUS
        <4>3. QED
          BY <2>8, <2>13, <4>1, <4>2 DEF Becomes, Left
      <3>3. QED
        BY <2>5, <3>1, <3>2
    <2>14. QED
      BY <2>11, <2>12, <2>13 DEF EndsCurrent
  <1>8. QED
    BY <1>1, <1>2, <1>3, <1>4, <1>5, <1>6, <1>7

LEMMA EvictStep ==
    ASSUME FanInv, NEW p \in Writers, Evict(p)
    PROVE  FanInv'
  <1> USE FanoutBounds DEF FanInv, Evict, Rest, Writers
  <1>1. FanTypes'
    BY DEF FanTypes, Entries, Pending, Slots, Envelope, Replayed
  <1>2. FanFlags'
    BY DEF FanFlags
  <1>3. SessionOver'
    <2>1. CASE slow[p] = "this" /\ subscribed
      <3>1. closes = 0 /\ conn # "down"
        BY <2>1 DEF SessionOver
      <3>2. subscribed' = FALSE
        BY <2>1, Zenon
      <3>3. closes' = 1 /\ conn' = conn
        BY <2>1, <3>1
      <3>4. QED
        BY <3>1, <3>2, <3>3 DEF SessionOver
    <2>2. CASE ~(slow[p] = "this" /\ subscribed)
      <3>1. subscribed' = subscribed /\ closes' = closes
        BY <2>2 DEF FanFlags
      <3>2. QED
        BY <3>1 DEF SessionOver
    <2>3. QED
      BY <2>1, <2>2
  <1>4. WritersOK'
    BY DEF WritersOK, FanTypes, Pending
  <1>5. PendingIsRow'
    BY DEF PendingIsRow, WritersOK, Writes, FanTypes, Pending
  <1>6. NothingOutlives'
    BY DEF NothingOutlives, Mended, Mendable, RemovedAfter, PendingIsRow, WritersOK, Writes, SessionOver, FanTypes,
       Pending,
           Entries, Slots, Replayed
  <1>7. EndsCurrent'
    <2>1. SUFFICES ASSUME Served' PROVE EndsCurrent'
      BY DEF EndsCurrent
    <2>2. Served
      BY <2>1 DEF Served, FanTypes, FanFlags
    <2>3. QED
      BY <2>2 DEF EndsCurrent, Becomes, HardAfter, FrameAfter, AfterReplay, Left, WritersOK, Writes, FanTypes, Pending
  <1>8. QED
    BY <1>1, <1>2, <1>3, <1>4, <1>5, <1>6, <1>7

LEMMA SubscribeStep ==
    ASSUME FanInv, Subscribe
    PROVE  FanInv'
  <1> USE FanoutBounds DEF FanInv, Subscribe, Rest, Writers
  <1>1. FanTypes'
    BY DEF FanTypes, Entries, Pending, Slots, Envelope, Replayed
  <1>2. FanFlags'
    BY DEF FanFlags
  <1>3. SessionOver'
    BY DEF SessionOver, FanTypes
  <1>4. WritersOK'
    BY DEF WritersOK, FanTypes, Pending
  <1>5. PendingIsRow'
    BY DEF PendingIsRow, WritersOK, Writes, FanTypes, Pending
  <1>6. NothingOutlives'
    BY DEF NothingOutlives, Mended, Mendable, RemovedAfter, PendingIsRow, WritersOK, Writes, SessionOver, FanTypes,
       Pending,
           Entries, Slots, Replayed
  <1>7. EndsCurrent'
    BY DEF EndsCurrent, Served, Becomes, HardAfter, FrameAfter, AfterReplay, Left, NothingOutlives, Mended,
       Mendable, RemovedAfter, PendingIsRow, WritersOK, Writes, SessionOver, FanTypes, Pending, Entries, Slots, Replayed
  <1>8. QED
    BY <1>1, <1>2, <1>3, <1>4, <1>5, <1>6, <1>7

LEMMA QueryStep ==
    ASSUME FanInv, ReplayQuery
    PROVE  FanInv'
  <1> USE FanoutBounds DEF FanInv, ReplayQuery, Rest, Writers
  <1>1. FanTypes'
    BY DEF FanTypes, Entries, Pending, Slots, Envelope, Replayed
  <1>2. FanFlags'
    BY DEF FanFlags
  <1>3. SessionOver'
    BY DEF SessionOver, FanTypes
  <1>4. WritersOK'
    BY DEF WritersOK, FanTypes, Pending
  <1>5. PendingIsRow'
    BY DEF PendingIsRow, WritersOK, Writes, FanTypes, Pending
  <1>6. NothingOutlives'
    BY DEF NothingOutlives, Mended, Mendable, RemovedAfter, PendingIsRow, WritersOK, Writes, SessionOver, FanTypes,
       Pending,
           Entries, Slots, Replayed
  <1>7. EndsCurrent'
    BY DEF EndsCurrent, Served, Becomes, HardAfter, FrameAfter, AfterReplay, Left, NothingOutlives, Mended,
       Mendable, RemovedAfter, PendingIsRow, WritersOK, Writes, SessionOver, FanTypes, Pending, Entries, Slots, Replayed
  <1>8. QED
    BY <1>1, <1>2, <1>3, <1>4, <1>5, <1>6, <1>7

LEMMA RowStep ==
    ASSUME FanInv, ReplayRow
    PROVE  FanInv'
  <1> USE FanoutBounds DEF FanInv, ReplayRow, Rest, Writers
  <1>1. FanTypes'
    BY DEF FanTypes, Entries, Pending, Slots, Envelope, Replayed
  <1>2. FanFlags'
    BY DEF FanFlags
  <1>3. SessionOver'
    BY DEF SessionOver, FanTypes
  <1>4. WritersOK'
    BY DEF WritersOK, FanTypes, Pending
  <1>5. PendingIsRow'
    BY DEF PendingIsRow, WritersOK, Writes, FanTypes, Pending
  <1>6. NothingOutlives'
    BY DEF NothingOutlives, Mended, Mendable, RemovedAfter, PendingIsRow, WritersOK, Writes, SessionOver, FanTypes,
       Pending,
           Entries, Slots, Replayed
  <1>7. EndsCurrent'
    BY DEF EndsCurrent, Served, Becomes, HardAfter, FrameAfter, AfterReplay, Left, NothingOutlives, Mended,
       Mendable, RemovedAfter, PendingIsRow, WritersOK, Writes, SessionOver, FanTypes, Pending, Entries, Slots, Replayed
  <1>8. QED
    BY <1>1, <1>2, <1>3, <1>4, <1>5, <1>6, <1>7

LEMMA DeliverStep ==
    ASSUME FanInv, Deliver
    PROVE  FanInv'
  <1> USE FanoutBounds DEF FanInv, Deliver, AppliedTo, Rest, Writers
  <1>1. FanTypes'
    <2>1. Head(ch) \in Envelope /\ ch' \in Seq(Envelope) /\ Len(ch') = Len(ch) - 1 /\ Len(ch) \in Nat
      BY TailOf DEF FanTypes
    <2>2. latest' \in [Fleet -> Entries]
      BY <2>1 DEF FanTypes, Entries, Envelope
    <2>3. QED
      BY <2>1, <2>2 DEF FanTypes
  <1>2. FanFlags'
    BY DEF FanFlags
  <1>3. SessionOver'
    BY DEF SessionOver, FanTypes
  <1>4. WritersOK'
    BY DEF WritersOK, FanTypes, Pending
  <1>5. PendingIsRow'
    BY DEF PendingIsRow, WritersOK, Writes, FanTypes, Pending
  <1>6. NothingOutlives'
    <2>1. PICK e \in Envelope : e = ch[1] /\ e = Head(ch)
      BY TailOf DEF FanTypes
    <2>2. /\ Len(ch') = Len(ch) - 1 /\ Len(ch) \in Nat \ {0} /\ \A k \in 1 .. Len(ch') : ch'[k] = ch[k + 1]
          /\ \A k \in 1 .. Len(ch) : k = 1 \/ (k - 1 \in 1 .. Len(ch') /\ (k - 1) + 1 = k)
      BY TailOf DEF FanTypes
    <2>3. \A u \in Fleet, v \in Entries, k \in Nat : Mended(u, v, k + 1) => Mended(u, v, k)'
      <3>1. \A u \in Fleet, k \in Nat : RemovedAfter(u, k + 1) => RemovedAfter(u, k)'
        BY <2>2 DEF RemovedAfter
      <3>2. QED
        BY <3>1 DEF Mended, Mendable, Writes
    <2>4. \A u \in Fleet, v \in Entries : Mended(u, v, 0) /\ ~(e.uid = u /\ e.kind = "removed") => Mended(u, v, 1)
      <3>1. \A u \in Fleet : RemovedAfter(u, 0) /\ ~(e.uid = u /\ e.kind = "removed") => RemovedAfter(u, 1)
        BY <2>1, <2>2 DEF RemovedAfter
      <3>2. QED
        BY <3>1 DEF Mended
    <2>5. ASSUME NEW u \in Fleet \ excused PROVE Mended(u, latest[u], 0)'
      <3>1. 1 \in 1 .. Len(ch)
        BY <2>2
      <3>2. PICK v \in Entries : v = latest'[u]
        BY <1>1 DEF FanTypes
      <3>3. ASSUME v = latest[u], ~(e.uid = u /\ e.kind = "removed") PROVE Mended(u, v, 1)
        BY <2>4, <3>2, <3>3 DEF NothingOutlives
      <3>4. ASSUME e.uid = u, e.kind = "removed" PROVE Mended(u, v, 1)
        BY <2>1, <3>2, <3>4 DEF Mended, Mendable, FanTypes
      <3>5. ASSUME e.uid = u, e.kind # "removed", v # latest[u] PROVE Mended(u, v, 1)
        <4>1. v = IF e.kind = "info" THEN e.leg ELSE 0
          BY <2>1, <3>2, <3>5 DEF FanTypes, Envelope
        <4>2. QED
          BY <2>1, <3>1, <3>5, <4>1 DEF NothingOutlives, Envelope
      <3>6. e.uid # u => v = latest[u]
        BY <2>1, <3>2 DEF FanTypes
      <3>7. Mended(u, v, 1) /\ 0 \in Nat /\ 0 + 1 = 1
        BY <3>3, <3>4, <3>5, <3>6
      <3>8. Mended(u, v, 0)'
        BY <2>3, <3>7
      <3>9. QED
        BY <3>2, <3>8 DEF Mended
    <2>6. ASSUME NEW u \in Fleet \ excused, NEW k \in 1 .. Len(ch'), ch'[k].uid = u
          PROVE  /\ ch'[k].kind = "info" => Mended(u, ch[k].leg, k)'
                 /\ ch'[k].kind = "telemetry" => Mended(u, 0, k)'
      <3>1. k \in Nat /\ k + 1 \in 1 .. Len(ch) /\ ch'[k] = ch[k + 1] /\ ch[k + 1] \in Envelope
        BY <2>2 DEF FanTypes
      <3>2. ch[k + 1].leg \in Entries /\ 0 \in Entries
        BY <3>1 DEF Envelope, Entries
      <3>3. QED
        BY <2>3, <2>6, <3>1, <3>2 DEF NothingOutlives
    <2>7. conn' = "live" /\ excused' = excused
      OBVIOUS
    <2>8. QED
      BY <2>5, <2>6, <2>7 DEF NothingOutlives
  <1>7. EndsCurrent'
    <2>1. PICK e \in Envelope : e = ch[1] /\ e = Head(ch)
      BY TailOf DEF FanTypes
    <2>2. /\ Len(ch') = Len(ch) - 1 /\ Len(ch) \in Nat \ {0} /\ \A k \in 1 .. Len(ch') : ch'[k] = ch[k + 1]
          /\ \A k \in 1 .. Len(ch) : k = 1 \/ (k - 1 \in 1 .. Len(ch') /\ (k - 1) + 1 = k)
          /\ 1 \in 1 .. Len(ch)
      BY TailOf DEF FanTypes
    <2>3. SUFFICES ASSUME Served' PROVE EndsCurrent'
      BY DEF EndsCurrent
    <2>4. Served
      BY <2>3 DEF Served
    <2>5. \A u \in Fleet, v \in Entries, k \in Nat : Becomes(u, v, k + 1) => Becomes(u, v, k)'
      <3>1. ASSUME NEW u \in Fleet, NEW k \in Nat, HardAfter(u, k + 1) PROVE HardAfter(u, k)'
        <4>1. PICK j \in 1 .. Len(ch) : j > k + 1 /\ ch[j].uid = u /\ ch[j].kind # "telemetry"
          BY <3>1 DEF HardAfter
        <4>2. j - 1 \in 1 .. Len(ch') /\ j - 1 > k /\ ch'[j - 1] = ch[j]
          BY <2>2, <4>1
        <4>3. QED
          BY <4>1, <4>2 DEF HardAfter
      <3>2. ASSUME NEW u \in Fleet, NEW k \in Nat, FrameAfter(u, k + 1) PROVE FrameAfter(u, k)'
        <4>1. PICK j \in 1 .. Len(ch) : j > k + 1 /\ ch[j].uid = u /\ ch[j].kind = "telemetry"
          BY <3>2 DEF FrameAfter
        <4>2. j - 1 \in 1 .. Len(ch') /\ j - 1 > k /\ ch'[j - 1] = ch[j]
          BY <2>2, <4>1
        <4>3. QED
          BY <4>1, <4>2 DEF FrameAfter
      <3>3. QED
        BY <3>1, <3>2 DEF Becomes, Writes
    <2>6. ASSUME NEW u \in Fleet \ excused PROVE Becomes(u, latest'[u], 1) /\ latest'[u] \in Entries
      <3>1. Becomes(u, latest[u], 0) /\ latest[u] \in Entries
        BY <2>4 DEF EndsCurrent, AfterReplay, FanTypes
      <3>2. CASE e.uid # u
        <4>1. HardAfter(u, 0) => HardAfter(u, 1)
          BY <2>1, <2>2, <3>2 DEF HardAfter
        <4>2. FrameAfter(u, 0) => FrameAfter(u, 1)
          BY <2>1, <2>2, <3>2 DEF FrameAfter
        <4>3. latest'[u] = latest[u]
          BY <2>1, <3>2 DEF FanTypes
        <4>4. QED
          BY <3>1, <4>1, <4>2, <4>3 DEF Becomes
      <3>3. CASE e.uid = u /\ e.kind # "telemetry"
        <4>1. latest'[u] = Left(e) /\ Left(e) \in Entries
          BY <2>1, <3>3 DEF FanTypes, Left, Envelope, Entries
        <4>2. QED
          BY <2>1, <2>2, <2>4, <3>3, <4>1 DEF EndsCurrent
      <3>4. CASE e.uid = u /\ e.kind = "telemetry"
        <4>1. latest'[u] = IF latest[u] = Absent THEN 0 ELSE latest[u]
          BY <2>1, <3>4 DEF FanTypes
        <4>2. HardAfter(u, 0) => HardAfter(u, 1)
          BY <2>1, <2>2, <3>4 DEF HardAfter
        <4>3. Mended(u, 0, 1)
          BY <2>1, <2>2, <3>4 DEF NothingOutlives
        <4>4. inventory[u] = Absent => HardAfter(u, 1) \/ Writes("remover", u)
          BY <4>3 DEF Mended, Mendable, RemovedAfter, HardAfter
        <4>5. QED
          BY <3>1, <4>1, <4>2, <4>4 DEF Becomes, Entries
      <3>5. QED
        BY <3>2, <3>3, <3>4
    <2>7. ASSUME NEW u \in Fleet \ excused PROVE Becomes(u, latest[u], 0)'
      <3>1. PICK v \in Entries : v = latest'[u]
        BY <2>6
      <3>2. Becomes(u, v, 0 + 1)
        BY <2>6, <3>1
      <3>3. Becomes(u, v, 0)'
        BY <2>5, <3>2
      <3>4. QED
        BY <3>1, <3>3 DEF Becomes
    <2>8. ASSUME NEW u \in Fleet \ excused, NEW k \in 1 .. Len(ch'), ch'[k].uid = u, ch'[k].kind # "telemetry"
          PROVE  Becomes(u, Left(ch[k]), k)'
      <3>1. k \in Nat /\ k + 1 \in 1 .. Len(ch) /\ ch'[k] = ch[k + 1] /\ ch[k + 1] \in Envelope
        BY <2>2 DEF FanTypes
      <3>2. PICK v \in Entries : v = Left(ch[k + 1])
        BY <3>1 DEF Left, Envelope, Entries
      <3>3. Becomes(u, v, k)'
        BY <2>4, <2>5, <2>8, <3>1, <3>2 DEF EndsCurrent
      <3>4. QED
        BY <3>1, <3>2, <3>3 DEF Becomes
    <2>9. conn' = "live" /\ excused' = excused
      OBVIOUS
    <2>10. QED
      BY <2>7, <2>8, <2>9 DEF EndsCurrent, AfterReplay
  <1>8. QED
    BY <1>1, <1>2, <1>3, <1>4, <1>5, <1>6, <1>7

LEMMA UnsubscribeStep ==
    ASSUME FanInv, Unsubscribe
    PROVE  FanInv'
  <1> USE FanoutBounds DEF FanInv, Unsubscribe, Rest, Writers
  <1>1. FanTypes'
    <2>1. closes' \in Nat
      BY DEF FanTypes
    <2>2. excused' \subseteq Fleet
      <3>1. \A k \in 1 .. Len(ch) : ch[k].uid \in Fleet
        BY Queued
      <3>2. excused \subseteq Fleet
        BY DEF FanTypes
      <3>3. QED
        BY <3>1, <3>2
    <2>3. QED
      BY <2>1, <2>2 DEF FanTypes, Entries
  <1>2. FanFlags'
    BY DEF FanFlags
  <1>3. SessionOver'
    BY DEF SessionOver, FanTypes
  <1>4. WritersOK'
    BY DEF WritersOK, FanTypes, Pending
  <1>5. PendingIsRow'
    BY DEF PendingIsRow, WritersOK, Writes, FanTypes, Pending
  <1>6. NothingOutlives'
    BY DEF NothingOutlives, Mended, Mendable, RemovedAfter, PendingIsRow, WritersOK, Writes, SessionOver, FanTypes,
       Pending,
           Entries, Slots, Replayed
  <1>7. EndsCurrent'
    BY DEF EndsCurrent, Served, Becomes, HardAfter, FrameAfter, AfterReplay, Left, NothingOutlives, Mended,
       Mendable, RemovedAfter, PendingIsRow, WritersOK, Writes, SessionOver, FanTypes, Pending, Entries, Slots, Replayed
  <1>8. QED
    BY <1>1, <1>2, <1>3, <1>4, <1>5, <1>6, <1>7

LEMMA RestartStep ==
    ASSUME FanInv, ClientRestart
    PROVE  FanInv'
  <1> USE FanoutBounds DEF FanInv, ClientRestart, Rest, Writers
  <1>1. FanTypes'
    BY DEF FanTypes, Entries, Pending, Slots, Envelope, Replayed
  <1>2. FanFlags'
    BY DEF FanFlags
  <1>3. SessionOver'
    BY DEF SessionOver, FanTypes
  <1>4. WritersOK'
    BY DEF WritersOK, FanTypes, Pending
  <1>5. PendingIsRow'
    BY DEF PendingIsRow, WritersOK, Writes, FanTypes, Pending
  <1>6. NothingOutlives'
    BY DEF NothingOutlives, Mended, Mendable, RemovedAfter, PendingIsRow, WritersOK, Writes, SessionOver, FanTypes,
       Pending,
           Entries, Slots, Replayed
  <1>7. EndsCurrent'
    BY DEF EndsCurrent, Served, Becomes, HardAfter, FrameAfter, AfterReplay, Left, NothingOutlives, Mended,
       Mendable, RemovedAfter, PendingIsRow, WritersOK, Writes, SessionOver, FanTypes, Pending, Entries, Slots, Replayed
  <1>8. QED
    BY <1>1, <1>2, <1>3, <1>4, <1>5, <1>6, <1>7

LEMMA StepFan == FanInv /\ [FanNext]_fanVars => FanInv'
  <1> SUFFICES ASSUME FanInv, [FanNext]_fanVars PROVE FanInv'
    OBVIOUS
  <1>1. CASE FanNext
    BY <1>1, LookupStep, PersistStep, FrameStep, DeleteStep, PublishStep, EvictStep, SubscribeStep, QueryStep,
       RowStep,
       DeliverStep, UnsubscribeStep, RestartStep DEF FanNext
  <1>2. CASE UNCHANGED fanVars
    BY <1>2 DEF fanVars, FanInv, FanTypes, FanFlags, SessionOver, WritersOK, PendingIsRow, NothingOutlives,
       EndsCurrent,
                Served, Mended, Mendable, RemovedAfter, Becomes, HardAfter, FrameAfter, AfterReplay, Writes
  <1>3. QED
    BY <1>1, <1>2

(* A subscriber's channel is closed at most once and gets nothing after    *)
(* that, whoever evicts it or hangs up (publisher.go:56-98), for any       *)
(* number of writers.                                                      *)
THEOREM ChannelClosedOnce == FanSpec => []ClosedOnce
  <1>1. FanInv => ClosedOnce
    BY DEF FanInv, SessionOver, ClosedOnce
  <1>2. QED
    BY <1>1, InitFan, StepFan, PTL DEF FanSpec

(* A subscriber that has been served everything knows the inventory,       *)
(* whatever was written before, during and after its replay and whatever   *)
(* became of its earlier sessions (handleSubscriber, DialLoop), for any    *)
(* fleet, any writers and any buffer.                                      *)
THEOREM SubscribersAreCurrent == FanSpec => []SubscriberCurrent
  <1>1. FanInv => FanTypeOK
    BY DEF FanInv, FanTypes, FanFlags, FanTypeOK, Pending, Slots
  <1>2. ASSUME FanInv, Settled PROVE \A u \in Fleet \ excused : latest[u] = inventory[u]
    <2>1. Served /\ conn = "live"
      BY <1>2 DEF FanInv, FanTypes, WritersOK, Settled, Served
    <2>2. Len(ch) = 0 /\ \A w \in Writers : writer[w].pc # "written"
      BY <1>2 DEF Settled
    <2>3. QED
      BY <1>2, <2>1, <2>2 DEF FanInv, EndsCurrent, AfterReplay, Becomes, HardAfter, FrameAfter, Writes, Writers
  <1>3. FanInv => SubscriberCurrent
    BY <1>1, <1>2 DEF SubscriberCurrent
  <1>4. QED
    BY <1>3, InitFan, StepFan, PTL DEF FanSpec

-----------------------------------------------------------------------------
(* The inductive invariant of the dashboard.                               *)

DashTypes ==
    /\ link \in {"down", "up", "notify"} /\ received \in 0 .. MaxEnvelopes
    /\ snap \in [Shown -> Entry \cup {Unknown}]
    /\ outgoing \in Frames \cup {Unknown} /\ view \in [Browsers -> Frames \cup {Unknown}]
    /\ page \in [Browsers -> {"gone", "added", "primed", "live"}]
    /\ queue \in [Browsers -> Seq(Frames)] /\ \A b \in Browsers : Len(queue[b]) <= QueueCap
DashFlags == dirty \in BOOLEAN /\ owed \in BOOLEAN
MissedFlags == missed \in [Browsers -> BOOLEAN]

\* A browser that is gone has no channel.
GoneIsGone == \A b \in Browsers : page[b] = "gone" => queue[b] = <<>> /\ ~missed[b]

Same(frame) == \A u \in Shown : SameAs(u, frame)
\* The frame a browser will show when its channel is drained.
Newest(b) == IF queue[b] = <<>> THEN view[b] ELSE queue[b][Len(queue[b])]

(* When no news is on its way to be rendered, the frame that is about to   *)
(* be broadcast is current, and without one so is every browser's newest.  *)
NoNews == link # "notify" /\ ~dirty /\ ~owed
OutgoingCurrent == NoNews /\ outgoing # Unknown => Same(outgoing)
PagesCurrent ==
    NoNews /\ outgoing = Unknown =>
        \A b \in Browsers : ~missed[b] /\ (queue[b] # <<>> \/ page[b] \in {"primed", "live"}) => Same(Newest(b))

DashInv == DashTypes /\ DashFlags /\ MissedFlags /\ GoneIsGone /\ OutgoingCurrent /\ PagesCurrent

LEMMA DashBounds ==
    /\ OnlineWindow \in Nat \ {0} /\ QueueCap \in Nat \ {0} /\ MaxEnvelopes \in Nat \ {0}
    /\ Unknown \notin Entry /\ Unknown \notin Frames
  BY DashboardAssumption, UnknownAssumption

(* An entry that gets older is one.                                        *)
LEMMA OlderEntry ==
    ASSUME NEW e \in Entry, NEW a \in 0 .. OnlineWindow + 1
    PROVE  [e EXCEPT !.age = a] \in Entry
  <1>1. e = [watts |-> e.watts, age |-> e.age, told |-> e.told] /\ e.watts \in {"none", "low", "high"}
    BY DEF Entry
  <1>2. e.told \in BOOLEAN
    BY DEF Entry
  <1>3. [e EXCEPT !.age = a] = [watts |-> e.watts, age |-> a, told |-> e.told]
    BY <1>1
  <1>4. QED
    BY <1>1, <1>2, <1>3 DEF Entry

(* A fresh rendering is a frame, and current.                              *)
LEMMA RenderIsCurrent ==
    ASSUME DashTypes
    PROVE  Render \in Frames /\ Same(Render)
  <1>1. ASSUME NEW u \in Shown, snap[u] # Unknown PROVE snap[u] \in Entry /\ Online(snap[u]) \in BOOLEAN
    BY <1>1 DEF DashTypes, Online
  <1>2. Render \in Frames
    BY <1>1 DEF Render, Frames, Entry
  <1>3. ASSUME NEW u \in Shown PROVE SameAs(u, Render)
    <2>1. CASE snap[u] = Unknown
      BY <2>1 DEF Render, SameAs
    <2>2. CASE snap[u] # Unknown
      <3>1. Render[u] = [watts |-> snap[u].watts, told |-> snap[u].told, online |-> Online(snap[u])]
        BY <2>2 DEF Render
      <3>2. Render[u] \in [watts : {"none", "low", "high"}, told : BOOLEAN, online : BOOLEAN]
        BY <1>1, <2>2, <3>1 DEF Entry
      <3>3. Render[u] # Unknown
        BY <3>2, UnknownAssumption
      <3>4. QED
        BY <2>2, <3>1, <3>3 DEF SameAs
    <2>3. QED
      BY <2>1, <2>2
  <1>4. QED
    BY <1>2, <1>3 DEF Same

LEMMA InitDash == DashInit => DashInv
  <1> SUFFICES ASSUME DashInit PROVE DashInv
    OBVIOUS
  <1> USE DashBounds DEF DashInit, DashInv
  <1>1. DashTypes
    BY DEF DashTypes
  <1>2. DashFlags /\ MissedFlags
    BY DEF DashFlags, MissedFlags
  <1>3. GoneIsGone /\ OutgoingCurrent /\ PagesCurrent
    BY DEF GoneIsGone, OutgoingCurrent, PagesCurrent
  <1>4. QED
    BY <1>1, <1>2, <1>3

LEMMA LinkStep ==
    ASSUME DashInv, LinkTurns \/ MarkDirty \/ HubNotes
    PROVE  DashInv'
  <1> USE DashBounds DEF DashInv, LinkTurns, MarkDirty, HubNotes
  <1>1. DashTypes'
    BY DEF DashTypes
  <1>2. DashFlags' /\ MissedFlags'
    BY DEF DashFlags, MissedFlags
  <1>3. GoneIsGone'
    BY DEF GoneIsGone, DashTypes
  <1>4. OutgoingCurrent'
    BY DEF OutgoingCurrent, NoNews, Same, SameAs, DashTypes
  <1>5. PagesCurrent'
    BY DEF PagesCurrent, NoNews, Newest, GoneIsGone, Same, SameAs, DashTypes
  <1>6. QED
    BY <1>1, <1>2, <1>3, <1>4, <1>5

LEMMA FoldStep ==
    ASSUME DashInv, NEW i \in Shown, ApplyTelemetry(i) \/ ApplyInfo(i) \/ RemoveInverter(i)
    PROVE  DashInv'
  <1> USE DashBounds DEF DashInv, ApplyTelemetry, ApplyInfo, RemoveInverter, Fold
  <1>1. DashTypes'
    <2>1. Known(i) \in Entry
      BY DEF DashTypes, Known, Entry
    <2>2. \A w \in {"low", "high"} : [watts |-> w, age |-> 0, told |-> Known(i).told] \in Entry
      BY <2>1 DEF Entry
    <2>3. [watts |-> Known(i).watts, age |-> 0, told |-> TRUE] \in Entry
      BY <2>1 DEF Entry
    <2>4. snap' \in [Shown -> Entry \cup {Unknown}]
      <3>1. CASE ApplyTelemetry(i)
        BY <2>2, <3>1 DEF DashTypes
      <3>2. CASE ApplyInfo(i)
        BY <2>3, <3>2 DEF DashTypes
      <3>3. CASE RemoveInverter(i)
        BY <3>3 DEF DashTypes
      <3>4. QED
        BY <3>1, <3>2, <3>3
    <2>5. link' \in {"down", "up", "notify"} /\ received' \in 0 .. MaxEnvelopes
      BY DEF DashTypes
    <2>6. UNCHANGED <<outgoing, page, queue, view>>
      OBVIOUS
    <2>7. QED
      BY <2>4, <2>5, <2>6 DEF DashTypes
  <1>2. DashFlags' /\ MissedFlags'
    BY DEF DashFlags, MissedFlags
  <1>3. GoneIsGone'
    BY DEF GoneIsGone, DashTypes
  <1>4. OutgoingCurrent'
    BY DEF OutgoingCurrent, NoNews, Same, SameAs, DashTypes
  <1>5. PagesCurrent'
    BY DEF PagesCurrent, NoNews, Newest, GoneIsGone, Same, SameAs, DashTypes
  <1>6. QED
    BY <1>1, <1>2, <1>3, <1>4, <1>5

LEMMA RenderStep ==
    ASSUME DashInv, HubRenders
    PROVE  DashInv'
  <1> USE DashBounds DEF DashInv, HubRenders
  <1>1. DashTypes'
    BY RenderIsCurrent DEF DashTypes
  <1>2. DashFlags' /\ MissedFlags'
    BY DEF DashFlags, MissedFlags
  <1>3. GoneIsGone'
    BY DEF GoneIsGone, DashTypes
  <1>4. OutgoingCurrent'
    <2>1. Same(Render) /\ outgoing' = Render /\ snap' = snap
      BY RenderIsCurrent
    <2>2. QED
      BY <2>1 DEF OutgoingCurrent, Same, SameAs
  <1>5. PagesCurrent'
    BY RenderIsCurrent DEF PagesCurrent
  <1>6. QED
    BY <1>1, <1>2, <1>3, <1>4, <1>5

LEMMA BroadcastStep ==
    ASSUME DashInv, BroadcastFrame
    PROVE  DashInv'
  <1> USE DashBounds DEF DashInv, BroadcastFrame, Registered
  <1>1. DashTypes'
    BY DEF DashTypes
  <1>2. DashFlags' /\ MissedFlags'
    BY DEF DashFlags, MissedFlags
  <1>3. GoneIsGone'
    BY DEF GoneIsGone, DashTypes
  <1>4. OutgoingCurrent'
    BY DEF OutgoingCurrent, NoNews, Same, SameAs, DashTypes
  <1>5. PagesCurrent'
    <2>1. SUFFICES ASSUME NoNews', NEW b \in Browsers, ~missed'[b], queue'[b] # <<>> \/ page'[b] \in {"primed", "live"}
                   PROVE  Same(Newest(b))'
      BY DEF PagesCurrent
    <2>2. outgoing \in Frames /\ Same(outgoing)
      BY <2>1 DEF OutgoingCurrent, NoNews, DashTypes
    <2>3. page[b] # "gone" /\ Len(queue[b]) < QueueCap
      <3>1. page' = page /\ Len(queue[b]) \in Nat /\ Len(queue[b]) <= QueueCap
        BY DEF DashTypes
      <3>2. page[b] # "gone"
        BY <2>1, <3>1 DEF GoneIsGone
      <3>3. missed'[b] = (Len(queue[b]) = QueueCap)
        BY <3>2 DEF DashTypes
      <3>4. Len(queue[b]) # QueueCap
        BY <2>1, <3>3
      <3>5. QED
        BY <3>1, <3>2, <3>4
    <2>4. queue'[b] = Append(queue[b], outgoing) /\ queue[b] \in Seq(Frames)
      BY <2>3 DEF DashTypes
    <2>5. Len(queue'[b]) = Len(queue[b]) + 1 /\ Len(queue[b]) \in Nat /\ queue'[b][Len(queue[b]) + 1] = outgoing
      BY <2>2, <2>4, AppendedTo
    <2>6. queue'[b] # <<>> /\ queue'[b][Len(queue'[b])] = outgoing
      <3>1. Len(queue'[b]) # 0
        BY <2>5
      <3>2. Len(<<>>) = 0
        OBVIOUS
      <3>3. queue'[b] # <<>>
        BY <3>1, <3>2, Zenon
      <3>4. QED
        BY <2>5, <3>3
    <2>7. Newest(b)' = outgoing
      BY <2>6 DEF Newest
    <2>8. QED
      BY <2>2, <2>7 DEF Same, SameAs
  <1>6. QED
    BY <1>1, <1>2, <1>3, <1>4, <1>5

LEMMA OpenStep ==
    ASSUME DashInv, NEW b \in Browsers, StreamOpens(b)
    PROVE  DashInv'
  <1> USE DashBounds DEF DashInv, StreamOpens
  <1>1. DashTypes'
    BY DEF DashTypes
  <1>2. DashFlags' /\ MissedFlags'
    BY DEF DashFlags, MissedFlags
  <1>3. GoneIsGone'
    BY DEF GoneIsGone, DashTypes
  <1>4. OutgoingCurrent'
    BY DEF OutgoingCurrent, NoNews, Same, SameAs, DashTypes
  <1>5. PagesCurrent'
    BY DEF PagesCurrent, NoNews, Newest, GoneIsGone, Same, SameAs, DashTypes
  <1>6. QED
    BY <1>1, <1>2, <1>3, <1>4, <1>5

LEMMA PrimeStep ==
    ASSUME DashInv, NEW b \in Browsers, StreamPrimes(b)
    PROVE  DashInv'
  <1> USE DashBounds DEF DashInv, StreamPrimes
  <1>1. DashTypes'
    BY RenderIsCurrent DEF DashTypes
  <1>2. DashFlags' /\ MissedFlags'
    BY DEF DashFlags, MissedFlags
  <1>3. GoneIsGone'
    BY DEF GoneIsGone, DashTypes
  <1>4. OutgoingCurrent'
    BY DEF OutgoingCurrent, NoNews, Same, SameAs, DashTypes
  <1>5. PagesCurrent'
    <2>1. SUFFICES ASSUME NoNews', outgoing' = Unknown, NEW c \in Browsers, ~missed'[c],
                          queue'[c] # <<>> \/ page'[c] \in {"primed", "live"}
                   PROVE  Same(Newest(c))'
      BY DEF PagesCurrent
    <2>2. CASE c = b /\ queue[b] = <<>>
      <3>1. Newest(c)' = Render
        BY <2>2 DEF Newest, DashTypes
      <3>2. QED
        BY <3>1, RenderIsCurrent DEF Same, SameAs
    <2>3. CASE ~(c = b /\ queue[b] = <<>>)
      <3>1. Newest(c)' = Newest(c) /\ NoNews /\ outgoing = Unknown
        BY <2>1, <2>3 DEF Newest, NoNews, DashTypes
      <3>2. Same(Newest(c))
        BY <2>1, <2>3, <3>1 DEF PagesCurrent, DashTypes
      <3>3. QED
        BY <3>1, <3>2 DEF Same, SameAs
    <2>4. QED
      BY <2>2, <2>3
  <1>6. QED
    BY <1>1, <1>2, <1>3, <1>4, <1>5

LEMMA LoopStep ==
    ASSUME DashInv, NEW b \in Browsers, StreamLoops(b)
    PROVE  DashInv'
  <1> USE DashBounds DEF DashInv, StreamLoops
  <1>1. DashTypes'
    BY DEF DashTypes
  <1>2. DashFlags' /\ MissedFlags'
    BY DEF DashFlags, MissedFlags
  <1>3. GoneIsGone'
    BY DEF GoneIsGone, DashTypes
  <1>4. OutgoingCurrent'
    BY DEF OutgoingCurrent, NoNews, Same, SameAs, DashTypes
  <1>5. PagesCurrent'
    BY DEF PagesCurrent, NoNews, Newest, GoneIsGone, Same, SameAs, DashTypes
  <1>6. QED
    BY <1>1, <1>2, <1>3, <1>4, <1>5

LEMMA WriteStep ==
    ASSUME DashInv, NEW b \in Browsers, StreamWrites(b)
    PROVE  DashInv'
  <1> USE DashBounds DEF DashInv, StreamWrites
  <1>1. DashTypes'
    BY DEF DashTypes
  <1>2. DashFlags' /\ MissedFlags'
    BY DEF DashFlags, MissedFlags
  <1>3. GoneIsGone'
    BY DEF GoneIsGone, DashTypes
  <1>4. OutgoingCurrent'
    BY DEF OutgoingCurrent, NoNews, Same, SameAs, DashTypes
  <1>5. PagesCurrent'
    <2>1. SUFFICES ASSUME NoNews', outgoing' = Unknown, NEW c \in Browsers, ~missed'[c],
                          queue'[c] # <<>> \/ page'[c] \in {"primed", "live"}
                   PROVE  Same(Newest(c))'
      BY DEF PagesCurrent
    <2>2. NoNews /\ outgoing = Unknown /\ ~missed[c] /\ (queue[c] # <<>> \/ page[c] \in {"primed", "live"})
      BY <2>1 DEF NoNews, DashTypes
    <2>3. Newest(c)' = Newest(c)
      <3>1. CASE c # b
        BY <3>1 DEF Newest, DashTypes
      <3>2. CASE c = b
        <4>1. /\ Head(queue[b]) = queue[b][1] /\ Len(queue[b]) \in Nat \ {0} /\ Len(Tail(queue[b])) = Len(queue[b]) - 1
              /\ \A k \in 1 .. Len(Tail(queue[b])) : Tail(queue[b])[k] = queue[b][k + 1]
              /\ Tail(queue[b]) \in Seq(Frames)
          BY TailOf DEF DashTypes
        <4>2. queue'[b] = Tail(queue[b]) /\ view'[b] = Head(queue[b])
          BY DEF DashTypes
        <4>3. CASE Tail(queue[b]) = <<>>
          BY <3>2, <4>1, <4>2, <4>3 DEF Newest
        <4>4. CASE Tail(queue[b]) # <<>>
          <5>1. Len(queue[b]) - 1 \in 1 .. Len(Tail(queue[b]))
            BY <4>1, <4>4, EmptySeq
          <5>2. Tail(queue[b])[Len(queue[b]) - 1] = queue[b][Len(queue[b])]
            BY <4>1, <5>1
          <5>3. QED
            BY <3>2, <4>1, <4>2, <4>4, <5>2 DEF Newest
        <4>5. QED
          BY <4>3, <4>4
      <3>3. QED
        BY <3>1, <3>2
    <2>4. Same(Newest(c))
      BY <2>2 DEF PagesCurrent
    <2>5. QED
      BY <2>3, <2>4 DEF Same, SameAs
  <1>6. QED
    BY <1>1, <1>2, <1>3, <1>4, <1>5

LEMMA EndStep ==
    ASSUME DashInv, NEW b \in Browsers, StreamEnds(b)
    PROVE  DashInv'
  <1> USE DashBounds DEF DashInv, StreamEnds
  <1>1. DashTypes'
    BY DEF DashTypes
  <1>2. DashFlags' /\ MissedFlags'
    BY DEF DashFlags, MissedFlags
  <1>3. GoneIsGone'
    <2>1. \A c \in Browsers \ {b} : page'[c] = page[c] /\ queue'[c] = queue[c] /\ missed'[c] = missed[c]
      BY DEF DashTypes, MissedFlags
    <2>2. queue'[b] = <<>> /\ missed'[b] = FALSE
      BY DEF DashTypes, MissedFlags
    <2>3. QED
      BY <2>1, <2>2 DEF GoneIsGone
  <1>4. OutgoingCurrent'
    BY DEF OutgoingCurrent, NoNews, Same, SameAs, DashTypes
  <1>5. PagesCurrent'
    BY DEF PagesCurrent, NoNews, Newest, GoneIsGone, Same, SameAs, DashTypes
  <1>6. QED
    BY <1>1, <1>2, <1>3, <1>4, <1>5

LEMMA AgeStep ==
    ASSUME DashInv, Ageing
    PROVE  DashInv'
  <1> USE DashBounds DEF DashInv, Ageing
  <1>1. DashTypes'
    <2>1. ASSUME NEW u \in Shown, snap[u] # Unknown, ~(snap[u].age > OnlineWindow)
          PROVE  [snap[u] EXCEPT !.age = @ + 1] \in Entry
      <3>1. snap[u] \in Entry /\ snap[u].age + 1 \in 0 .. OnlineWindow + 1
        BY <2>1 DEF DashTypes, Entry
      <3>2. QED
        BY <3>1, OlderEntry
    <2>2. snap' \in [Shown -> Entry \cup {Unknown}]
      BY <2>1 DEF DashTypes
    <2>3. QED
      BY <2>2 DEF DashTypes
  <1>2. DashFlags' /\ MissedFlags'
    BY DEF DashFlags, MissedFlags
  <1>3. GoneIsGone'
    BY DEF GoneIsGone, DashTypes
  <1>9. ASSUME NEW frame, Same(frame) PROVE Same(frame)'
    <2>1. SUFFICES ASSUME NEW u \in Shown PROVE SameAs(u, frame)'
      BY DEF Same
    <2>2. SameAs(u, frame)
      BY <1>9 DEF Same
    <2>3. CASE snap[u] = Unknown
      BY <2>2, <2>3 DEF SameAs
    <2>4. CASE snap[u] # Unknown
      <3>1. snap[u] \in Entry
        BY <2>4 DEF DashTypes
      <3>2. snap'[u] \in Entry
        BY <1>1, <2>4, <3>1 DEF Entry
      <3>3. snap'[u].watts = snap[u].watts /\ snap'[u].told = snap[u].told /\ (Online(snap'[u]) => Online(snap[u]))
        BY <2>4, <3>1 DEF Online, Entry
      <3>4. QED
        BY <2>2, <2>4, <3>2, <3>3 DEF SameAs
    <2>5. QED
      BY <2>3, <2>4
  <1>4. OutgoingCurrent'
    <2>1. UNCHANGED outgoing /\ (NoNews' => NoNews)
      BY DEF NoNews
    <2>2. QED
      BY <1>9, <2>1 DEF OutgoingCurrent, Same, SameAs
  <1>5. PagesCurrent'
    <2>1. SUFFICES ASSUME NoNews', outgoing' = Unknown, NEW c \in Browsers, ~missed'[c],
                          queue'[c] # <<>> \/ page'[c] \in {"primed", "live"}
                   PROVE  Same(Newest(c))'
      BY DEF PagesCurrent
    <2>2. Newest(c)' = Newest(c) /\ Same(Newest(c))
      BY <2>1 DEF PagesCurrent, NoNews, Newest
    <2>3. PICK frame : frame = Newest(c)
      OBVIOUS
    <2>4. Same(frame)'
      BY <1>9, <2>2, <2>3
    <2>5. QED
      BY <2>2, <2>3, <2>4 DEF Same, SameAs
  <1>6. QED
    BY <1>1, <1>2, <1>3, <1>4, <1>5

LEMMA StepDash == DashInv /\ [DashNext]_dashVars => DashInv'
  <1> SUFFICES ASSUME DashInv, [DashNext]_dashVars PROVE DashInv'
    OBVIOUS
  <1>1. CASE DashNext
    BY <1>1, LinkStep, FoldStep, RenderStep, BroadcastStep, OpenStep, PrimeStep, LoopStep, WriteStep, EndStep, AgeStep
       DEF DashNext
  <1>2. CASE UNCHANGED dashVars
    BY <1>2 DEF dashVars, DashInv, DashTypes, DashFlags, MissedFlags, GoneIsGone, OutgoingCurrent, PagesCurrent,
       NoNews,
                Newest, Same, SameAs
  <1>3. QED
    BY <1>1, <1>2

(* A browser that has drained its channel shows the snapshot once nothing  *)
(* is under way, unless the last frame found the channel full, however     *)
(* updates, renderings, broadcasts and new browsers fall together          *)
(* (sse.go:16-20,41-43,106-108), for any fleet, browsers and channel.      *)
THEOREM DashboardIsCurrent == DashSpec => []DashboardCurrent
  <1>1. DashInv => DashTypeOK
    BY DEF DashInv, DashTypes, DashFlags, MissedFlags, DashTypeOK
  <1>2. ASSUME DashInv, NEW b \in Browsers, AtRest(b) PROVE \A u \in Shown : SameAs(u, view[b])
    BY <1>2 DEF DashInv, DashTypes, AtRest, PagesCurrent, NoNews, Newest, Same
  <1>3. DashInv => DashboardCurrent
    BY <1>1, <1>2 DEF DashboardCurrent
  <1>4. QED
    BY <1>3, InitDash, StepDash, PTL DEF DashSpec

-----------------------------------------------------------------------------
(* The inductive invariant of what the inverters end up with.              *)

Run == [pc : {"idle", "sleep", "build", "send", "settle", "read", "hook"}, want : Values \cup {NoValue},
        by : Selects \cup {Nobody, "request"}]
Pushing == [pc : {"none", "acquire", "base", "frames", "settle", "read", "follow", "wait", "ended"},
            value : BaseValues \cup {NoValue}]

PushTypes ==
    /\ base \in BaseValues /\ over \in [Inverters -> OverlayValues \cup {NoValue}]
    /\ regs \in [Inverters -> Values] /\ cache \in [Inverters -> Values]
    /\ rec \in [Inverters -> [Runs -> Run]] /\ push \in [Selects -> Pushing]
    /\ requests \in 0 .. MaxRequests /\ unpushed \in Selects \cup {Nobody} /\ disturbed \subseteq Inverters
\* What a push from "frames" on sends is a base.
PushCarriesBase == 
    \A g \in Selects : push[g].pc \in {"frames", "settle", "read", "follow", "wait"} => push[g].value \in BaseValues
AskedFlags == asked \in [Inverters -> BOOLEAN]

Job(u) == rec[u]["job"].pc
Verify(u) == rec[u]["verify"].pc

(* One push has the bus, an applier's job does not sleep, and what a       *)
(* reconcile is about to send is a value, and still what is desired.       *)
OnePush == \A g, h \in Selects : HasBus(g) /\ HasBus(h) => g = h
JobsRun == \A u \in Inverters : Job(u) \notin {"sleep", "hook"}
WantIsDesired ==
    \A u \in Inverters, k \in Runs :
        rec[u][k].pc = "send" => rec[u][k].want # NoValue /\ (u \notin disturbed => rec[u][k].want = Desired(u))

Under(pcs) == \E g \in Selects : push[g].pc \in pcs

(* A read-back that is out of date is about to be replaced, by a read that *)
(* somebody waits for, or the reconcile that has put the register right is *)
(* still there, or one that took its place.                                *)
CacheCatchesUp ==
    \A u \in Inverters \ disturbed : cache[u] # regs[u] =>
        \/ Under({"settle"})
        \/ asked[u] /\ (Under({"read"}) \/ Verify(u) = "sleep")
        \/ /\ regs[u] = Desired(u)
           /\ \/ "settle" \in {Job(u), Verify(u)}
              \/ asked[u] /\ "read" \in {Job(u), Verify(u)}
              \/ Job(u) \in {"build", "send"}

\* A reconcile that will still look at the read-back, or act on it.
WillReconcile(u) == Verify(u) \in {"sleep", "build", "send"} \/ Job(u) \in {"build", "send"}

(* A register that is off will be looked at, or the base is excused, or a  *)
(* push has its follow-up still to come; once that has been sent, the base *)
(* it pushed is no excuse.                                                 *)
OffIsComing ==
    \A u \in Inverters \ disturbed : regs[u] # Desired(u) =>
        \/ WillReconcile(u)
        \/ Under({"base", "frames", "settle", "read", "follow"})
        \/ unpushed # Nobody /\ ~(\E g \in Selects : push[g].pc = "wait" /\ unpushed = g)

PushInv ==
    /\ PushTypes /\ PushCarriesBase /\ AskedFlags /\ OnePush /\ JobsRun /\ WantIsDesired
    /\ CacheCatchesUp /\ OffIsComing

LEMMA PushBounds ==
    /\ DOMAIN Family = Inverters /\ NoValue \notin Values /\ MaxRequests \in Nat /\ Nobody \notin Selects
    /\ BaseValues \subseteq Values /\ OverlayValues \subseteq Values /\ Foreign \in Values
  BY PushAssumption DEF Values, Nobody

(* What is desired is a value.                                             *)
LEMMA DesiredIsValue ==
    ASSUME PushTypes, NEW u \in Inverters
    PROVE  Desired(u) \in Values
  BY PushBounds DEF PushTypes, Desired

(* A run that goes on to its next place.                                   *)
LEMMA RunMoves ==
    ASSUME NEW x \in Run, NEW q \in {"idle", "sleep", "build", "send", "settle", "read", "hook"}
    PROVE  [x EXCEPT !.pc = q] \in Run /\ [x EXCEPT !.pc = q].pc = q /\ [x EXCEPT !.pc = q].want = x.want
  BY DEF Run

(* The job that takes the place of another.                                *)
LEMMA EnqueuedRuns ==
    ASSUME PushTypes, NEW us \in SUBSET Inverters, NEW by \in Selects \cup {Nobody, "request"}
    PROVE  /\ Enqueued(us, by) \in [Inverters -> [Runs -> Run]]
           /\ \A u \in Inverters : /\ Enqueued(us, by)[u]["verify"] = rec[u]["verify"]
                                   /\ u \in us => Enqueued(us, by)[u]["job"].pc = "build"
                                   /\ u \notin us => Enqueued(us, by)[u]["job"] = rec[u]["job"]
  <1>1. [pc |-> "build", want |-> NoValue, by |-> by] \in Run
    BY DEF Run
  <1>2. QED
    BY <1>1 DEF PushTypes, Enqueued, NoRun, Runs

LEMMA InitPush == PushInit => PushInv
  <1> SUFFICES ASSUME PushInit PROVE PushInv
    OBVIOUS
  <1> USE PushBounds DEF PushInit, PushInv
  <1>1. PushTypes
    BY DEF PushTypes, Desired, NoRun, Run, Pushing
  <1>2. AskedFlags /\ PushCarriesBase
    BY DEF AskedFlags, PushCarriesBase
  <1>3. OnePush /\ JobsRun /\ WantIsDesired
    BY DEF OnePush, HasBus, JobsRun, Job, WantIsDesired, NoRun, Runs
  <1>4. CacheCatchesUp /\ OffIsComing
    BY DEF CacheCatchesUp, OffIsComing
  <1>5. QED
    BY <1>1, <1>2, <1>3, <1>4

LEMMA SelectStep ==
    ASSUME PushInv, NEW g \in Selects, NEW b \in BaseValues, Select(g, b)
    PROVE  PushInv'
  <1> USE PushBounds DEF PushInv, Select, NoRun
  <1>1. PushTypes' /\ PushCarriesBase'
    BY DesiredIsValue DEF PushTypes, PushCarriesBase, Run, Pushing, Runs
  <1>2. AskedFlags'
    BY DEF AskedFlags
  <1>3. OnePush'
    BY DEF OnePush, HasBus, PushTypes
  <1>4. JobsRun'
    BY DEF JobsRun, Job, PushTypes, Runs
  <1>5. WantIsDesired'
    BY DEF WantIsDesired, Desired, InReconcile, PushTypes, Runs
  <1>6. CacheCatchesUp'
    BY DEF CacheCatchesUp, WantIsDesired, Under, Desired, InReconcile, JobsRun, Job, Verify, OnePush, HasBus,
       PushTypes, AskedFlags, Runs
  <1>7. OffIsComing'
    BY DEF OffIsComing, CacheCatchesUp, WantIsDesired, WillReconcile, Under, Desired, InReconcile, JobsRun, Job,
       Verify,
           OnePush, HasBus, PushTypes, AskedFlags, Runs
  <1>8. QED
    BY <1>1, <1>2, <1>3, <1>4, <1>5, <1>6, <1>7

LEMMA OverlayStep ==
    ASSUME PushInv, NEW i \in Inverters, NEW v \in OverlayValues \cup {NoValue}, SetOverlay(i, v)
    PROVE  PushInv'
  <1> USE PushBounds DEF PushInv, SetOverlay, Requested, Enqueued, NoRun
  <1>1. PushTypes' /\ PushCarriesBase'
    <2>1. rec' \in [Inverters -> [Runs -> Run]]
      <3> HIDE DEF Enqueued
      <3>1. QED
        BY EnqueuedRuns
    <2>2. over' \in [Inverters -> OverlayValues \cup {NoValue}] /\ disturbed' \subseteq Inverters
      BY DEF PushTypes
    <2>3. QED
      BY <2>1, <2>2 DEF PushTypes, PushCarriesBase
  <1>2. AskedFlags'
    BY DEF AskedFlags
  <1>3. OnePush'
    BY DEF OnePush, HasBus, PushTypes
  <1>4. JobsRun'
    BY DEF JobsRun, Job, PushTypes, Runs
  <1>5. WantIsDesired'
    BY DEF WantIsDesired, Desired, InReconcile, PushTypes, Runs
  <1>6. CacheCatchesUp'
    BY DEF CacheCatchesUp, WantIsDesired, Under, Desired, InReconcile, JobsRun, Job, Verify, OnePush, HasBus,
       PushTypes, AskedFlags, Runs
  <1>7. OffIsComing'
    BY DEF OffIsComing, CacheCatchesUp, WantIsDesired, WillReconcile, Under, Desired, InReconcile, JobsRun, Job,
       Verify,
           OnePush, HasBus, PushTypes, AskedFlags, Runs
  <1>8. QED
    BY <1>1, <1>2, <1>3, <1>4, <1>5, <1>6, <1>7

LEMMA AcquireStep ==
    ASSUME PushInv, NEW g \in Selects, TryAcquireBus(g)
    PROVE  PushInv'
  <1> USE PushBounds DEF PushInv, TryAcquireBus, PushTo, NoRun
  <1>0. PICK q \in {"base", "ended"} :
            push' = [push EXCEPT ![g].pc = q] /\ (q = "base" => \A h \in Selects : ~HasBus(h))
    OBVIOUS
  <1>9. push' \in [Selects -> Pushing] /\ push'[g].pc = q /\ \A h \in Selects \ {g} : push'[h] = push[h]
    BY <1>0 DEF PushTypes, Pushing
  <1>1. PushTypes' /\ PushCarriesBase'
    BY <1>0, <1>9 DEF PushTypes, PushCarriesBase
  <1>2. AskedFlags'
    BY DEF AskedFlags
  <1>3. OnePush'
    BY <1>0, <1>9 DEF OnePush, HasBus
  <1>4. JobsRun'
    BY DEF JobsRun, Job, PushTypes, Runs
  <1>5. WantIsDesired'
    BY DEF WantIsDesired, Desired, InReconcile, PushTypes, Runs
  <1>6. CacheCatchesUp'
    BY SMTT(40) DEF CacheCatchesUp, WantIsDesired, Under, Desired, InReconcile, JobsRun, Job, Verify, OnePush, HasBus,
       PushTypes, AskedFlags, Runs
  <1>7. OffIsComing'
    BY <1>0, <1>9 DEF OffIsComing, WillReconcile, Under, Desired, Job, Verify, HasBus
  <1>8. QED
    BY <1>1, <1>2, <1>3, <1>4, <1>5, <1>6, <1>7

LEMMA ApplyBaseStep ==
    ASSUME PushInv, NEW g \in Selects, ApplyBaseBroadcast(g)
    PROVE  PushInv'
  <1> USE PushBounds DEF PushInv, ApplyBaseBroadcast, NoRun
  <1>1. PushTypes' /\ PushCarriesBase'
    BY DesiredIsValue DEF PushTypes, PushCarriesBase, Run, Pushing, Runs
  <1>2. AskedFlags'
    BY DEF AskedFlags
  <1>3. OnePush'
    BY DEF OnePush, HasBus, PushTypes
  <1>4. JobsRun'
    BY DEF JobsRun, Job, PushTypes, Runs
  <1>5. WantIsDesired'
    BY DEF WantIsDesired, Desired, InReconcile, PushTypes, Runs
  <1>6. CacheCatchesUp'
    BY DEF CacheCatchesUp, WantIsDesired, Under, Desired, InReconcile, JobsRun, Job, Verify, OnePush, HasBus,
       PushTypes, AskedFlags, Runs
  <1>7. OffIsComing'
    BY DEF OffIsComing, CacheCatchesUp, WantIsDesired, WillReconcile, Under, Desired, InReconcile, JobsRun, Job,
       Verify,
           OnePush, HasBus, PushTypes, AskedFlags, Runs
  <1>8. QED
    BY <1>1, <1>2, <1>3, <1>4, <1>5, <1>6, <1>7

LEMMA PointStep ==
    ASSUME PushInv, NEW g \in Selects, BroadcastPoint(g)
    PROVE  PushInv'
  <1> USE PushBounds DEF PushInv, BroadcastPoint, PushTo, NoRun
  <1>1. PushTypes' /\ PushCarriesBase'
    BY DesiredIsValue DEF PushTypes, PushCarriesBase, Run, Pushing, Runs
  <1>2. AskedFlags'
    BY DEF AskedFlags
  <1>3. OnePush'
    BY DEF OnePush, HasBus, PushTypes
  <1>4. JobsRun'
    BY DEF JobsRun, Job, PushTypes, Runs
  <1>5. WantIsDesired'
    BY DEF WantIsDesired, Desired, InReconcile, PushTypes, Runs
  <1>6. CacheCatchesUp'
    BY DEF CacheCatchesUp, WantIsDesired, Under, Desired, InReconcile, JobsRun, Job, Verify, OnePush, HasBus,
       PushTypes, AskedFlags, Runs
  <1>7. OffIsComing'
    BY DEF OffIsComing, CacheCatchesUp, WantIsDesired, WillReconcile, Under, Desired, InReconcile, JobsRun, Job,
       Verify,
           OnePush, HasBus, PushTypes, AskedFlags, Runs
  <1>8. QED
    BY <1>1, <1>2, <1>3, <1>4, <1>5, <1>6, <1>7

LEMMA RefusedStep ==
    ASSUME PushInv, NEW g \in Selects, BroadcastRefused(g)
    PROVE  PushInv'
  <1> USE PushBounds DEF PushInv, BroadcastRefused, PushTo, NoRun
  <1>1. PushTypes' /\ PushCarriesBase'
    BY DesiredIsValue DEF PushTypes, PushCarriesBase, Run, Pushing, Runs
  <1>2. AskedFlags'
    BY DEF AskedFlags
  <1>3. OnePush'
    BY DEF OnePush, HasBus, PushTypes
  <1>4. JobsRun'
    BY DEF JobsRun, Job, PushTypes, Runs
  <1>5. WantIsDesired'
    BY DEF WantIsDesired, Desired, InReconcile, PushTypes, Runs
  <1>6. CacheCatchesUp'
    BY DEF CacheCatchesUp, WantIsDesired, Under, Desired, InReconcile, JobsRun, Job, Verify, OnePush, HasBus,
       PushTypes, AskedFlags, Runs
  <1>7. OffIsComing'
    BY DEF OffIsComing, CacheCatchesUp, WantIsDesired, WillReconcile, Under, Desired, InReconcile, JobsRun, Job,
       Verify,
           OnePush, HasBus, PushTypes, AskedFlags, Runs
  <1>8. QED
    BY <1>1, <1>2, <1>3, <1>4, <1>5, <1>6, <1>7

LEMMA ReadsStep ==
    ASSUME PushInv, NEW g \in Selects, BroadcastReads(g)
    PROVE  PushInv'
  <1> USE PushBounds DEF PushInv, BroadcastReads, PushTo, NoRun
  <1>1. PushTypes' /\ PushCarriesBase'
    BY DesiredIsValue DEF PushTypes, PushCarriesBase, Run, Pushing, Runs
  <1>2. AskedFlags'
    BY DEF AskedFlags
  <1>3. OnePush'
    BY DEF OnePush, HasBus, PushTypes
  <1>4. JobsRun'
    BY DEF JobsRun, Job, PushTypes, Runs
  <1>5. WantIsDesired'
    BY DEF WantIsDesired, Desired, InReconcile, PushTypes, Runs
  <1>6. CacheCatchesUp'
    BY DEF CacheCatchesUp, WantIsDesired, Under, Desired, InReconcile, JobsRun, Job, Verify, OnePush, HasBus,
       PushTypes, AskedFlags, Runs
  <1>7. OffIsComing'
    BY DEF OffIsComing, CacheCatchesUp, WantIsDesired, WillReconcile, Under, Desired, InReconcile, JobsRun, Job,
       Verify,
           OnePush, HasBus, PushTypes, AskedFlags, Runs
  <1>8. QED
    BY <1>1, <1>2, <1>3, <1>4, <1>5, <1>6, <1>7

LEMMA ConfirmedStep ==
    ASSUME PushInv, NEW g \in Selects, BroadcastConfirmed(g)
    PROVE  PushInv'
  <1> USE PushBounds DEF PushInv, BroadcastConfirmed, PushTo, Unanswered, NoRun
  <1>1. PushTypes' /\ PushCarriesBase'
    BY DesiredIsValue DEF PushTypes, PushCarriesBase, Run, Pushing, Runs
  <1>2. AskedFlags'
    BY DEF AskedFlags
  <1>3. OnePush'
    BY DEF OnePush, HasBus, PushTypes
  <1>4. JobsRun'
    BY DEF JobsRun, Job, PushTypes, Runs
  <1>5. WantIsDesired'
    BY DEF WantIsDesired, Desired, InReconcile, PushTypes, Runs
  <1>6. CacheCatchesUp'
    BY DEF CacheCatchesUp, WantIsDesired, Under, Desired, InReconcile, JobsRun, Job, Verify, OnePush, HasBus,
       PushTypes, AskedFlags, Runs
  <1>7. OffIsComing'
    BY DEF OffIsComing, CacheCatchesUp, WantIsDesired, WillReconcile, Under, Desired, InReconcile, JobsRun, Job,
       Verify,
           OnePush, HasBus, PushTypes, AskedFlags, Runs
  <1>8. QED
    BY <1>1, <1>2, <1>3, <1>4, <1>5, <1>6, <1>7

LEMMA FollowStep ==
    ASSUME PushInv, NEW g \in Selects, FollowUp(g)
    PROVE  PushInv'
  <1> USE PushBounds DEF PushInv, FollowUp, PushTo, Enqueued, FleetUIDs, NoRun
  <1>1. PushTypes' /\ PushCarriesBase'
    BY DesiredIsValue DEF PushTypes, PushCarriesBase, Run, Pushing, Runs
  <1>2. AskedFlags'
    BY DEF AskedFlags
  <1>3. OnePush'
    BY DEF OnePush, HasBus, PushTypes
  <1>4. JobsRun'
    BY DEF JobsRun, Job, PushTypes, Runs
  <1>5. WantIsDesired'
    BY DEF WantIsDesired, Desired, InReconcile, PushTypes, Runs
  <1>6. CacheCatchesUp'
    BY DEF CacheCatchesUp, WantIsDesired, Under, Desired, InReconcile, JobsRun, Job, Verify, OnePush, HasBus,
       PushTypes, AskedFlags, Runs
  <1>7. OffIsComing'
    BY DEF OffIsComing, CacheCatchesUp, WantIsDesired, WillReconcile, Under, Desired, InReconcile, JobsRun, Job,
       Verify,
           OnePush, HasBus, PushTypes, AskedFlags, Runs
  <1>8. QED
    BY <1>1, <1>2, <1>3, <1>4, <1>5, <1>6, <1>7

LEMMA PushEndStep ==
    ASSUME PushInv, NEW g \in Selects, PushEnds(g)
    PROVE  PushInv'
  <1> USE PushBounds DEF PushInv, PushEnds, PushTo, NoRun
  <1>1. PushTypes' /\ PushCarriesBase'
    BY DesiredIsValue DEF PushTypes, PushCarriesBase, Run, Pushing, Runs
  <1>2. AskedFlags'
    BY DEF AskedFlags
  <1>3. OnePush'
    BY DEF OnePush, HasBus, PushTypes
  <1>4. JobsRun'
    BY DEF JobsRun, Job, PushTypes, Runs
  <1>5. WantIsDesired'
    BY DEF WantIsDesired, Desired, InReconcile, PushTypes, Runs
  <1>6. CacheCatchesUp'
    BY DEF CacheCatchesUp, WantIsDesired, Under, Desired, InReconcile, JobsRun, Job, Verify, OnePush, HasBus,
       PushTypes, AskedFlags, Runs
  <1>7. OffIsComing'
    BY DEF OffIsComing, CacheCatchesUp, WantIsDesired, WillReconcile, Under, Desired, InReconcile, JobsRun, Job,
       Verify,
           OnePush, HasBus, PushTypes, AskedFlags, Runs
  <1>8. QED
    BY <1>1, <1>2, <1>3, <1>4, <1>5, <1>6, <1>7

LEMMA CompareStep ==
    ASSUME PushInv, NEW i \in Inverters, NEW r \in Runs, Compare(i, r)
    PROVE  PushInv'
  <1> USE PushBounds DEF PushInv, Compare, RecTo, Done, NoRun
  <1>1. PushTypes' /\ PushCarriesBase'
    <2>1. [pc |-> "send", want |-> Desired(i), by |-> rec[i][r].by] \in Run /\ NoRun \in Run
          /\ [NoRun EXCEPT !.pc = "hook"] \in Run
      BY DesiredIsValue DEF PushTypes, Run
    <2>2. rec' \in [Inverters -> [Runs -> Run]]
      BY <2>1 DEF PushTypes
    <2>3. QED
      BY <2>2 DEF PushTypes, PushCarriesBase
  <1>2. AskedFlags'
    BY DEF AskedFlags
  <1>3. OnePush'
    BY DEF OnePush, HasBus, PushTypes
  <1>4. JobsRun'
    BY DEF JobsRun, Job, PushTypes, Runs
  <1>5. WantIsDesired'
    BY DEF WantIsDesired, Desired, InReconcile, PushTypes, Runs
  <1>6. CacheCatchesUp'
    BY DEF CacheCatchesUp, WantIsDesired, Under, Desired, InReconcile, JobsRun, Job, Verify, OnePush, HasBus,
       PushTypes, AskedFlags, Runs
  <1>7. OffIsComing'
    BY DEF OffIsComing, CacheCatchesUp, WantIsDesired, WillReconcile, Under, Desired, InReconcile, JobsRun, Job,
       Verify,
           OnePush, HasBus, PushTypes, AskedFlags, Runs
  <1>8. QED
    BY <1>1, <1>2, <1>3, <1>4, <1>5, <1>6, <1>7

LEMMA SendStep ==
    ASSUME PushInv, NEW i \in Inverters, NEW r \in Runs, ReconcileSends(i, r)
    PROVE  PushInv'
  <1> USE PushBounds DEF PushInv, ReconcileSends, RecTo, NoRun
  <1>1. PushTypes' /\ PushCarriesBase'
    <2>1. [rec[i][r] EXCEPT !.pc = "settle"] \in Run
      <3>1. rec[i][r] \in Run
        BY DEF PushTypes
      <3>2. QED
        BY <3>1, RunMoves
    <2>2. rec' \in [Inverters -> [Runs -> Run]]
      BY <2>1 DEF PushTypes
    <2>3. regs' \in [Inverters -> Values] /\ disturbed' \subseteq Inverters
      <3>1. rec[i][r] \in Run /\ rec[i][r].want # NoValue
        BY DEF PushTypes, WantIsDesired
      <3>2. rec[i][r].want \in Values
        BY <3>1 DEF Run
      <3>3. QED
        BY <3>2 DEF PushTypes
    <2>4. QED
      BY <2>2, <2>3 DEF PushTypes, PushCarriesBase
  <1>2. AskedFlags'
    BY DEF AskedFlags
  <1>3. OnePush'
    BY DEF OnePush, HasBus, PushTypes
  <1>4. JobsRun'
    BY DEF JobsRun, Job, PushTypes, Runs
  <1>5. WantIsDesired'
    BY DEF WantIsDesired, Desired, InReconcile, PushTypes, Runs
  <1>6. CacheCatchesUp'
    BY DEF CacheCatchesUp, WantIsDesired, Under, Desired, InReconcile, JobsRun, Job, Verify, OnePush, HasBus,
       PushTypes, AskedFlags, Runs
  <1>7. OffIsComing'
    BY DEF OffIsComing, CacheCatchesUp, WantIsDesired, WillReconcile, Under, Desired, InReconcile, JobsRun, Job,
       Verify,
           OnePush, HasBus, PushTypes, AskedFlags, Runs
  <1>8. QED
    BY <1>1, <1>2, <1>3, <1>4, <1>5, <1>6, <1>7

LEMMA SendRefusedStep ==
    ASSUME PushInv, NEW i \in Inverters, NEW r \in Runs, ReconcileRefused(i, r)
    PROVE  PushInv'
  <1> USE PushBounds DEF PushInv, ReconcileRefused, RecTo, Done, NoRun
  <1>1. PushTypes' /\ PushCarriesBase'
    BY DesiredIsValue DEF PushTypes, PushCarriesBase, Run, Pushing, Runs
  <1>2. AskedFlags'
    BY DEF AskedFlags
  <1>3. OnePush'
    BY DEF OnePush, HasBus, PushTypes
  <1>4. JobsRun'
    BY DEF JobsRun, Job, PushTypes, Runs
  <1>5. WantIsDesired'
    BY DEF WantIsDesired, Desired, InReconcile, PushTypes, Runs
  <1>6. CacheCatchesUp'
    BY DEF CacheCatchesUp, WantIsDesired, Under, Desired, InReconcile, JobsRun, Job, Verify, OnePush, HasBus,
       PushTypes, AskedFlags, Runs
  <1>7. OffIsComing'
    BY DEF OffIsComing, CacheCatchesUp, WantIsDesired, WillReconcile, Under, Desired, InReconcile, JobsRun, Job,
       Verify,
           OnePush, HasBus, PushTypes, AskedFlags, Runs
  <1>8. QED
    BY <1>1, <1>2, <1>3, <1>4, <1>5, <1>6, <1>7

LEMMA RereadStep ==
    ASSUME PushInv, NEW i \in Inverters, NEW r \in Runs, Reread(i, r)
    PROVE  PushInv'
  <1> USE PushBounds DEF PushInv, Reread, RecTo, NoRun
  <1>1. PushTypes' /\ PushCarriesBase'
    <2>1. [rec[i][r] EXCEPT !.pc = "read"] \in Run
      <3>1. rec[i][r] \in Run
        BY DEF PushTypes
      <3>2. QED
        BY <3>1, RunMoves
    <2>2. rec' \in [Inverters -> [Runs -> Run]]
      BY <2>1 DEF PushTypes
    <2>3. regs' \in [Inverters -> Values] /\ disturbed' \subseteq Inverters
      BY DEF PushTypes
    <2>4. QED
      BY <2>2, <2>3 DEF PushTypes, PushCarriesBase
  <1>2. AskedFlags'
    BY DEF AskedFlags
  <1>3. OnePush'
    BY DEF OnePush, HasBus, PushTypes
  <1>4. JobsRun'
    BY DEF JobsRun, Job, PushTypes, Runs
  <1>5. WantIsDesired'
    BY DEF WantIsDesired, Desired, InReconcile, PushTypes, Runs
  <1>6. CacheCatchesUp'
    BY DEF CacheCatchesUp, WantIsDesired, Under, Desired, InReconcile, JobsRun, Job, Verify, OnePush, HasBus,
       PushTypes, AskedFlags, Runs
  <1>7. OffIsComing'
    BY DEF OffIsComing, CacheCatchesUp, WantIsDesired, WillReconcile, Under, Desired, InReconcile, JobsRun, Job,
       Verify,
           OnePush, HasBus, PushTypes, AskedFlags, Runs
  <1>8. QED
    BY <1>1, <1>2, <1>3, <1>4, <1>5, <1>6, <1>7

LEMMA ConfirmStep ==
    ASSUME PushInv, NEW i \in Inverters, NEW r \in Runs, Confirm(i, r)
    PROVE  PushInv'
  <1> USE PushBounds DEF PushInv, Confirm, RecTo, Done, Unanswered, NoRun
  <1>1. PushTypes' /\ PushCarriesBase'
    BY DesiredIsValue DEF PushTypes, PushCarriesBase, Run, Pushing, Runs
  <1>2. AskedFlags'
    BY DEF AskedFlags
  <1>3. OnePush'
    BY DEF OnePush, HasBus, PushTypes
  <1>4. JobsRun'
    BY DEF JobsRun, Job, PushTypes, Runs
  <1>5. WantIsDesired'
    BY DEF WantIsDesired, Desired, InReconcile, PushTypes, Runs
  <1>6. CacheCatchesUp'
    BY DEF CacheCatchesUp, WantIsDesired, Under, Desired, InReconcile, JobsRun, Job, Verify, OnePush, HasBus,
       PushTypes, AskedFlags, Runs
  <1>7. OffIsComing'
    BY DEF OffIsComing, CacheCatchesUp, WantIsDesired, WillReconcile, Under, Desired, InReconcile, JobsRun, Job,
       Verify,
           OnePush, HasBus, PushTypes, AskedFlags, Runs
  <1>8. QED
    BY <1>1, <1>2, <1>3, <1>4, <1>5, <1>6, <1>7

LEMMA AnswerStep ==
    ASSUME PushInv, NEW i \in Inverters, Answer(i)
    PROVE  PushInv'
  <1> USE PushBounds DEF PushInv, Answer, NoRun
  <1>1. PushTypes' /\ PushCarriesBase'
    BY DesiredIsValue DEF PushTypes, PushCarriesBase, Run, Pushing, Runs
  <1>2. AskedFlags'
    BY DEF AskedFlags
  <1>3. OnePush'
    BY DEF OnePush, HasBus, PushTypes
  <1>4. JobsRun'
    BY DEF JobsRun, Job, PushTypes, Runs
  <1>5. WantIsDesired'
    BY DEF WantIsDesired, Desired, InReconcile, PushTypes, Runs
  <1>6. CacheCatchesUp'
    BY DEF CacheCatchesUp, WantIsDesired, Under, Desired, InReconcile, JobsRun, Job, Verify, OnePush, HasBus,
       PushTypes, AskedFlags, Runs
  <1>7. OffIsComing'
    BY DEF OffIsComing, CacheCatchesUp, WantIsDesired, WillReconcile, Under, Desired, InReconcile, JobsRun, Job,
       Verify,
           OnePush, HasBus, PushTypes, AskedFlags, Runs
  <1>8. QED
    BY <1>1, <1>2, <1>3, <1>4, <1>5, <1>6, <1>7

LEMMA FirstSeenStep ==
    ASSUME PushInv, NEW i \in Inverters, OnFirstSeen(i)
    PROVE  PushInv'
  <1> USE PushBounds DEF PushInv, OnFirstSeen, Requested, RecTo, NoRun
  <1>1. PushTypes' /\ PushCarriesBase'
    BY DesiredIsValue DEF PushTypes, PushCarriesBase, Run, Pushing, Runs
  <1>2. AskedFlags'
    BY DEF AskedFlags
  <1>3. OnePush'
    BY DEF OnePush, HasBus, PushTypes
  <1>4. JobsRun'
    BY DEF JobsRun, Job, PushTypes, Runs
  <1>5. WantIsDesired'
    BY DEF WantIsDesired, Desired, InReconcile, PushTypes, Runs
  <1>6. CacheCatchesUp'
    BY DEF CacheCatchesUp, WantIsDesired, Under, Desired, InReconcile, JobsRun, Job, Verify, OnePush, HasBus,
       PushTypes, AskedFlags, Runs
  <1>7. OffIsComing'
    BY DEF OffIsComing, CacheCatchesUp, WantIsDesired, WillReconcile, Under, Desired, InReconcile, JobsRun, Job,
       Verify,
           OnePush, HasBus, PushTypes, AskedFlags, Runs
  <1>8. QED
    BY <1>1, <1>2, <1>3, <1>4, <1>5, <1>6, <1>7

LEMMA VerifyStep ==
    ASSUME PushInv, NEW i \in Inverters, VerifyStartup(i)
    PROVE  PushInv'
  <1> USE PushBounds DEF PushInv, VerifyStartup, RecTo, Done, Unanswered, NoRun
  <1>1. PushTypes' /\ PushCarriesBase'
    BY DesiredIsValue DEF PushTypes, PushCarriesBase, Run, Pushing, Runs
  <1>2. AskedFlags'
    BY DEF AskedFlags
  <1>3. OnePush'
    BY DEF OnePush, HasBus, PushTypes
  <1>4. JobsRun'
    BY DEF JobsRun, Job, PushTypes, Runs
  <1>5. WantIsDesired'
    BY DEF WantIsDesired, Desired, InReconcile, PushTypes, Runs
  <1>6. CacheCatchesUp'
    BY DEF CacheCatchesUp, WantIsDesired, Under, Desired, InReconcile, JobsRun, Job, Verify, OnePush, HasBus,
       PushTypes, AskedFlags, Runs
  <1>7. OffIsComing'
    BY DEF OffIsComing, CacheCatchesUp, WantIsDesired, WillReconcile, Under, Desired, InReconcile, JobsRun, Job,
       Verify,
           OnePush, HasBus, PushTypes, AskedFlags, Runs
  <1>8. QED
    BY <1>1, <1>2, <1>3, <1>4, <1>5, <1>6, <1>7

LEMMA HookStep ==
    ASSUME PushInv, NEW i \in Inverters, ReconcileOverlays(i)
    PROVE  PushInv'
  <1> USE PushBounds DEF PushInv, ReconcileOverlays, Enqueued, NoRun
  <1>1. PushTypes' /\ PushCarriesBase'
    BY DesiredIsValue DEF PushTypes, PushCarriesBase, Run, Pushing, Runs
  <1>2. AskedFlags'
    BY DEF AskedFlags
  <1>3. OnePush'
    BY DEF OnePush, HasBus, PushTypes
  <1>0. /\ rec' \in [Inverters -> [Runs -> Run]] /\ rec'[i]["verify"].pc = "idle"
        /\ \A u \in Inverters : u # i => rec'[u] = rec[u]
        /\ rec'[i]["job"] = rec[i]["job"] \/ rec'[i]["job"].pc = "build"
    <2>1. NoRun \in Run
      BY DEF Run
    <2>2. CASE over[i] = NoValue
      BY <2>1, <2>2 DEF PushTypes, Runs
    <2>3. CASE over[i] # NoValue
      <3>1. Enqueued({i}, "request") \in [Inverters -> [Runs -> Run]]
            /\ Enqueued({i}, "request")[i]["job"].pc = "build"
            /\ \A u \in Inverters : u # i => Enqueued({i}, "request")[u] = rec[u]
        BY EnqueuedRuns DEF PushTypes
      <3>2. QED
        BY <2>1, <2>3, <3>1 DEF Runs
    <2>4. QED
      BY <2>2, <2>3
  <1>4. JobsRun'
    BY <1>0 DEF JobsRun, Job
  <1>5. WantIsDesired'
    BY <1>0 DEF WantIsDesired, Desired, Runs
  <1>6. CacheCatchesUp'
    BY <1>0 DEF CacheCatchesUp, Under, Desired, Job, Verify
  <1>7. OffIsComing'
    BY <1>0 DEF OffIsComing, WillReconcile, Under, Desired, Job, Verify
  <1>8. QED
    BY <1>1, <1>2, <1>3, <1>4, <1>5, <1>6, <1>7

LEMMA StepPush == PushInv /\ [PushNext]_pushVars => PushInv'
  <1> SUFFICES ASSUME PushInv, [PushNext]_pushVars PROVE PushInv'
    OBVIOUS
  <1>1. CASE PushNext
    BY <1>1, SelectStep, OverlayStep, AcquireStep, ApplyBaseStep, PointStep, RefusedStep, ReadsStep, ConfirmedStep,
       FollowStep, PushEndStep, CompareStep, SendStep, SendRefusedStep, RereadStep, ConfirmStep, AnswerStep,
       FirstSeenStep, VerifyStep, HookStep DEF PushNext
  <1>2. CASE UNCHANGED pushVars
    BY <1>2 DEF pushVars, PushInv, PushTypes, PushCarriesBase, AskedFlags, OnePush, HasBus, JobsRun, Job,
                WantIsDesired, Desired, CacheCatchesUp, Under, Verify, OffIsComing, WillReconcile
  <1>3. QED
    BY <1>1, <1>2

(* When the pushes and the reconciles are over, every inverter has its own *)
(* effective value (base_async.go:157-159, VerifyStartup), whatever was    *)
(* selected, set, cleared, missed and taken over on the way: for any fleet *)
(* and families, any selections and any number of requests.                *)
THEOREM PushesSettle == PushSpec => []PushSettles
  <1>1. PushInv => PushTypeOK
    BY DEF PushInv, PushTypes, AskedFlags, PushTypeOK, Run, Pushing
  <1>2. ASSUME PushInv, \A u \in Inverters : ~InReconcile(u),
               \A g \in Selects : push[g].pc \in {"none", "ended"}, unpushed = Nobody
        PROVE  \A u \in Inverters \ disturbed : regs[u] = Desired(u)
    BY <1>2 DEF PushInv, OffIsComing, WillReconcile, Under, Job, Verify, InReconcile, Runs
  <1>3. PushInv => PushSettles
    BY <1>1, <1>2 DEF PushSettles
  <1>4. QED
    BY <1>3, InitPush, StepPush, PTL DEF PushSpec

=============================================================================
