----------------------------- MODULE RadioProofs -----------------------------
(***************************************************************************)
(* The threads that share the radio's tty (Splice), for any number of      *)
(* ports, hang-ups, frames and chunks; the link between ecu-zb and         *)
(* inv-driver (BackendLink), for any number of connections and any queue;  *)
(* the radio watchdog (Watchdog), for any windows; and whose reply it is   *)
(* (BusTracker), for any inverters, number of queries and time-outs.       *)
(***************************************************************************)
EXTENDS Splice, BusTracker, BackendLink, Watchdog, NatInduct, SequenceTheorems

-----------------------------------------------------------------------------
(* The inductive invariant of the splice.                                  *)

Replacing == {"reopen", "close", "swap"}
Locked == {"write", "flush", "settle"}
Framing == {"modemfd", "redirect", "pause", "frame", "flush", "settle"}
Pausing == {"frame", "flush", "settle", "resume"}
Places(t) == CASE t = "reader" -> {"top", "read", "got", "eof", "ended"} \cup Replacing
               [] t = "copier" -> {"top", "read", "got", "resolve", "lock", "write", "ended"}
               [] t = "bus" -> {"idle", "resolve", "lock", "write", "resume", "restore"} \cup Framing
               [] t = "dog" -> {"idle", "resume", "restore"} \cup Framing

(* The types, one variable at a time.                                      *)
SpliceTypes ==
    /\ tty \in [Ports -> {"none", "open", "hung", "closed"}] /\ modemPort \in Ports /\ runnerFd \in Ports
    /\ portMu \in Threads \cup {Nobody} /\ modemMu \in Threads \cup {Nobody} /\ pairMu \in Workers \cup {Nobody}
    /\ session \in Nat \cup {Nobody} /\ during \in Nat \cup {Nobody} /\ sessions \in Nat /\ paused \in 0 .. 1
    /\ reopens \in 0 .. MaxModemReopens + 1 /\ fd \in [Threads -> Ports] /\ frames \in 0 .. MaxFrames
Flags == done \in BOOLEAN /\ slipped \in BOOLEAN /\ replaced \in BOOLEAN /\ signalled \in BOOLEAN

PlacesOK == DOMAIN where = Threads /\ \A t \in Threads : where[t] \in Places(t)

(* Each of the three locks is held by the thread that is where it needs it.*)
LocksHeld ==
    /\ portMu = IF where["reader"] \in Replacing THEN "reader" ELSE Nobody
    /\ \A t \in Threads : where[t] \in Locked <=> modemMu = t
    /\ \A w \in Workers : where[w] \in Framing \cup {"resume", "restore"} => pairMu = w

(* A primitive that still sends has a frame, and pauses the host once.     *)
PrimitiveOK ==
    /\ \A w \in Workers : where[w] \in Framing => frames > 0
    /\ paused = IF \E w \in Workers : where[w] \in Pausing THEN 1 ELSE 0

(* The port in use is closed only by its replacement or a shutdown, and    *)
(* the next one is open when it is installed.                              *)
PortInUse ==
    /\ tty[modemPort] = "closed" => signalled \/ where["reader"] = "swap"
    /\ where["reader"] \in {"close", "swap"} =>
           modemPort + 1 \in Ports /\ (tty[modemPort + 1] = "open" \/ signalled)
    /\ \A w \in Workers : where[w] \in Framing \ {"modemfd"} /\ ~replaced => runnerFd = modemPort

(* A chunk the copier still writes was read before the current session.    *)
SessionsCounted ==
    /\ during # Nobody => during <= sessions
    /\ session # Nobody => session = sessions
    /\ where["copier"] \in {"resolve", "lock", "write"} /\ session # Nobody => during # session

SpliceInv ==
    /\ SpliceTypes /\ Flags /\ PlacesOK /\ LocksHeld /\ PrimitiveOK /\ PortInUse /\ SessionsCounted
    /\ NotClosedMidFrame /\ NeverWriteOnly /\ ~slipped

LEMMA SpliceBounds ==
    /\ MaxPorts \in Nat \ {0} /\ MaxModemReopens \in Nat \ {0} /\ MaxFrames \in Nat \ {0} /\ 1 \in Ports
    /\ Nobody \notin Threads /\ Nobody \notin Workers /\ Nobody \notin Nat
  <1>1. MaxPorts \in Nat \ {0} /\ MaxModemReopens \in Nat \ {0} /\ MaxFrames \in Nat \ {0}
    BY SpliceAssumption
  <1>2. QED
    BY <1>1, SpliceAssumption DEF Ports, Threads

LEMMA InitSplice == SpliceInit => SpliceInv
  <1> SUFFICES ASSUME SpliceInit PROVE SpliceInv
    OBVIOUS
  <1> USE SpliceBounds DEF SpliceInit, Threads, Workers
  <1>0. Flags
    BY DEF Flags
  <1>1. SpliceTypes
    BY DEF SpliceTypes
  <1>2. PlacesOK
    BY DEF PlacesOK, Places
  <1>3. LocksHeld /\ PrimitiveOK
    BY DEF LocksHeld, PrimitiveOK, Replacing, Locked, Framing, Pausing
  <1>4. PortInUse /\ SessionsCounted /\ NotClosedMidFrame /\ NeverWriteOnly /\ ~slipped
    BY DEF PortInUse, SessionsCounted, NotClosedMidFrame, NeverWriteOnly, Framing, Ports
  <1>5. QED
    BY <1>0, <1>1, <1>2, <1>3, <1>4 DEF SpliceInv

(* A reader's step.                                                        *)
LEMMA ReaderStep ==
    ASSUME SpliceInv, ReaderTop \/ ReaderRead \/ ReaderForward \/ ReaderHungUp
    PROVE  SpliceInv'
  <1> USE SpliceBounds DEF SpliceInv, Goto, Resolve, Fails, portVars, pairVars
  <1>0. Flags'
    BY DEF ReaderTop, ReaderRead, ReaderForward, ReaderHungUp, Flags
  <1>1. SpliceTypes'
    BY DEF ReaderTop, ReaderRead, ReaderForward, ReaderHungUp, SpliceTypes, Threads, Workers
  <1>2. PlacesOK'
    BY DEF ReaderTop, ReaderRead, ReaderForward, ReaderHungUp, PlacesOK, Places, Replacing, Threads, Workers
  <1>3. LocksHeld'
    BY DEF ReaderTop, ReaderRead, ReaderForward, ReaderHungUp, LocksHeld, PlacesOK, Places, Replacing, Threads,
       Workers,
           Locked
  <1>4. PrimitiveOK'
    BY DEF ReaderTop, ReaderRead, ReaderForward, ReaderHungUp, PrimitiveOK, PlacesOK, Threads, Workers
  <1>5. PortInUse' /\ SessionsCounted' /\ NotClosedMidFrame' /\ NeverWriteOnly' /\ ~slipped'
    BY DEF ReaderTop, ReaderRead, ReaderForward, ReaderHungUp, PortInUse, SessionsCounted, NotClosedMidFrame,
           NeverWriteOnly, PlacesOK, Threads, Workers
  <1>6. QED
    BY <1>0, <1>1, <1>2, <1>3, <1>4, <1>5

(* The reader replaces the port.                                           *)
LEMMA ReplaceStep ==
    ASSUME SpliceInv, Reopen \/ CloseOld \/ Swap
    PROVE  SpliceInv'
  <1> USE SpliceBounds DEF SpliceInv, Goto, Resolve, Lock, Fails, portVars, pairVars, Reopen, CloseOld, Swap
  <1>0. Flags'
    BY DEF Flags
  <1>1. SpliceTypes'
    BY SMTT(40) DEF SpliceTypes, PrimitiveOK, PortInUse, LocksHeld, PlacesOK, Places, Framing, Pausing, Threads,
       Workers, Ports
  <1>2. PlacesOK'
    BY DEF PlacesOK, Places, Replacing, Framing, Threads, Workers
  <1>3. LocksHeld'
    BY DEF LocksHeld, PlacesOK, Places, Replacing, Locked, Framing, Threads, Workers
  <1>4. PrimitiveOK'
    BY DEF PrimitiveOK, LocksHeld, PlacesOK, Places, Framing, Pausing, Threads, Workers, SpliceTypes
  <1>5. PortInUse'
    <2>1. modemPort \in Nat /\ modemPort # modemPort + 1 /\ "reader" \notin Workers
      BY DEF SpliceTypes, Ports, Workers
    <2>2. CASE Reopen
      BY <2>1, <2>2 DEF PortInUse, PlacesOK, Places, Framing, Threads, Workers, SpliceTypes
    <2>3. CASE CloseOld
      BY <2>1, <2>3 DEF PortInUse, PlacesOK, Places, Framing, Threads, Workers, SpliceTypes
    <2>4. CASE Swap
      BY <2>1, <2>4 DEF PortInUse, PlacesOK, Places, Framing, Threads, Workers, SpliceTypes
    <2>5. QED
      BY <2>2, <2>3, <2>4
  <1>6. SessionsCounted' /\ ~slipped'
    BY DEF SessionsCounted, LocksHeld, PlacesOK, Places, Threads, Workers, SpliceTypes
  <1>7. NotClosedMidFrame' /\ NeverWriteOnly'
    BY DEF NotClosedMidFrame, NeverWriteOnly, LocksHeld, PlacesOK, Places, Framing, Locked, Threads, Workers,
       SpliceTypes
  <1>8. QED
    BY <1>0, <1>1, <1>2, <1>3, <1>4, <1>5, <1>6, <1>7

(* The copier reads and forwards.                                          *)
LEMMA CopierStep ==
    ASSUME SpliceInv, CopierTop \/ CopierRead \/ CopierForward
    PROVE  SpliceInv'
  <1> USE SpliceBounds DEF SpliceInv, Goto, Resolve, Lock, Fails, portVars, pairVars, CopierTop, CopierRead,
     CopierForward, Spend
  <1>0. Flags'
    BY DEF Flags
  <1>1. SpliceTypes'
    BY DEF SpliceTypes, PrimitiveOK, PortInUse, LocksHeld, PlacesOK, Places, Framing, Pausing, Threads, Workers
  <1>2. PlacesOK'
    BY DEF PlacesOK, Places, Replacing, Framing, Threads, Workers
  <1>3. LocksHeld'
    BY DEF LocksHeld, PlacesOK, Places, Replacing, Locked, Framing, Threads, Workers
  <1>4. PrimitiveOK'
    BY DEF PrimitiveOK, LocksHeld, PlacesOK, Places, Framing, Pausing, Threads, Workers, SpliceTypes
  <1>5. PortInUse'
    BY SMTT(40) DEF PortInUse, LocksHeld, PlacesOK, Places, Framing, Threads, Workers, SpliceTypes, Ports
  <1>6. SessionsCounted' /\ ~slipped'
    BY DEF SessionsCounted, LocksHeld, PlacesOK, Places, Threads, Workers, SpliceTypes
  <1>7. NotClosedMidFrame' /\ NeverWriteOnly'
    BY DEF NotClosedMidFrame, NeverWriteOnly, LocksHeld, PlacesOK, Places, Framing, Locked, Threads, Workers,
       SpliceTypes
  <1>8. QED
    BY <1>0, <1>1, <1>2, <1>3, <1>4, <1>5, <1>6, <1>7

(* The copier or an injection writes.                                      *)
LEMMA WriteStep ==
    ASSUME SpliceInv, NEW t \in {"copier", "bus"}, WriteResolves(t) \/ WriteLocks(t) \/ Write(t)
    PROVE  SpliceInv'
  <1> USE SpliceBounds DEF SpliceInv, Goto, Resolve, Lock, Fails, portVars, pairVars, WriteResolves, WriteLocks, Write
  <1>0. Flags'
    BY DEF Flags
  <1>1. SpliceTypes'
    BY DEF SpliceTypes, PrimitiveOK, PortInUse, LocksHeld, PlacesOK, Places, Framing, Pausing, Threads, Workers
  <1>2. PlacesOK'
    BY DEF PlacesOK, Places, Replacing, Framing, Threads, Workers
  <1>3. LocksHeld'
    BY DEF LocksHeld, PlacesOK, Places, Replacing, Locked, Framing, Threads, Workers
  <1>4. PrimitiveOK'
    BY DEF PrimitiveOK, LocksHeld, PlacesOK, Places, Framing, Pausing, Threads, Workers, SpliceTypes
  <1>5. PortInUse'
    BY SMTT(40) DEF PortInUse, LocksHeld, PlacesOK, Places, Framing, Threads, Workers, SpliceTypes, Ports
  <1>6. SessionsCounted' /\ ~slipped'
    BY DEF SessionsCounted, LocksHeld, PlacesOK, Places, Threads, Workers, SpliceTypes
  <1>7. NotClosedMidFrame' /\ NeverWriteOnly'
    BY DEF NotClosedMidFrame, NeverWriteOnly, LocksHeld, PlacesOK, Places, Framing, Locked, Threads, Workers,
       SpliceTypes
  <1>8. QED
    BY <1>0, <1>1, <1>2, <1>3, <1>4, <1>5, <1>6, <1>7

(* A worker takes the pairing lock and the descriptor, and redirects.      *)
LEMMA WorkerStep ==
    ASSUME SpliceInv, NEW v \in Workers, TakePairing(v) \/ TakeFd(v) \/ BeginPairing(v) \/ PauseHost(v)
    PROVE  SpliceInv'
  <1> USE SpliceBounds DEF SpliceInv, Goto, Resolve, Lock, Fails, portVars, pairVars, TakePairing, TakeFd,
     BeginPairing, PauseHost, Spend
  <1>0. Flags'
    BY DEF Flags
  <1>1. SpliceTypes'
    BY DEF SpliceTypes, PrimitiveOK, PortInUse, LocksHeld, PlacesOK, Places, Framing, Pausing, Threads, Workers
  <1>2. PlacesOK'
    BY DEF PlacesOK, Places, Replacing, Framing, Threads, Workers
  <1>3. LocksHeld'
    BY DEF LocksHeld, PlacesOK, Places, Replacing, Locked, Framing, Threads, Workers
  <1>4. PrimitiveOK'
    BY DEF PrimitiveOK, LocksHeld, PlacesOK, Places, Framing, Pausing, Threads, Workers, SpliceTypes
  <1>5. PortInUse'
    BY SMTT(40) DEF PortInUse, LocksHeld, PlacesOK, Places, Framing, Threads, Workers, SpliceTypes, Ports
  <1>6. SessionsCounted' /\ ~slipped'
    BY DEF SessionsCounted, LocksHeld, PlacesOK, Places, Threads, Workers, SpliceTypes
  <1>7. NotClosedMidFrame' /\ NeverWriteOnly'
    BY DEF NotClosedMidFrame, NeverWriteOnly, LocksHeld, PlacesOK, Places, Framing, Locked, Threads, Workers,
       SpliceTypes
  <1>8. QED
    BY <1>0, <1>1, <1>2, <1>3, <1>4, <1>5, <1>6, <1>7

(* A worker sends a frame, and ends.                                       *)
LEMMA FrameStep ==
    ASSUME SpliceInv, NEW v \in Workers, FrameLocks(v) \/ Flush(v) \/ WriteFrame(v) \/ ResumeHost(v) \/ EndPairing(v)
    PROVE  SpliceInv'
  <1> USE SpliceBounds DEF SpliceInv, Goto, Resolve, Lock, Fails, portVars, pairVars, FrameLocks, Flush, WriteFrame,
     ResumeHost, EndPairing
  <1>0. Flags'
    BY DEF Flags
  <1>1. SpliceTypes'
    BY DEF SpliceTypes, PrimitiveOK, PortInUse, LocksHeld, PlacesOK, Places, Framing, Pausing, Threads, Workers
  <1>2. PlacesOK'
    BY DEF PlacesOK, Places, Replacing, Framing, Threads, Workers
  <1>3. LocksHeld'
    BY DEF LocksHeld, PlacesOK, Places, Replacing, Locked, Framing, Threads, Workers
  <1>4. PrimitiveOK'
    BY DEF PrimitiveOK, LocksHeld, PlacesOK, Places, Framing, Pausing, Threads, Workers, SpliceTypes
  <1>5. PortInUse'
    BY SMTT(40) DEF PortInUse, LocksHeld, PlacesOK, Places, Framing, Threads, Workers, SpliceTypes, Ports
  <1>6. SessionsCounted' /\ ~slipped'
    BY DEF SessionsCounted, LocksHeld, PlacesOK, Places, Threads, Workers, SpliceTypes
  <1>7. NotClosedMidFrame' /\ NeverWriteOnly'
    BY DEF NotClosedMidFrame, NeverWriteOnly, LocksHeld, PlacesOK, Places, Framing, Locked, Threads, Workers,
       SpliceTypes
  <1>8. QED
    BY <1>0, <1>1, <1>2, <1>3, <1>4, <1>5, <1>6, <1>7

(* An injection begins, the tty hangs up, a signal ends the process.       *)
LEMMA EnvironmentStep ==
    ASSUME SpliceInv, Inject \/ HangUp \/ Signal
    PROVE  SpliceInv'
  <1> USE SpliceBounds DEF SpliceInv, Goto, Resolve, Lock, Fails, portVars, pairVars, Inject, HangUp, Signal,
     CurModem, Spend
  <1>0. Flags'
    BY DEF Flags
  <1>1. SpliceTypes'
    BY SMTT(40) DEF SpliceTypes, PrimitiveOK, PortInUse, LocksHeld, PlacesOK, Places, Framing, Pausing, Threads,
       Workers, Ports
  <1>2. PlacesOK'
    BY DEF PlacesOK, Places, Replacing, Framing, Threads, Workers
  <1>3. LocksHeld'
    BY DEF LocksHeld, PlacesOK, Places, Replacing, Locked, Framing, Threads, Workers
  <1>4. PrimitiveOK'
    BY DEF PrimitiveOK, LocksHeld, PlacesOK, Places, Framing, Pausing, Threads, Workers, SpliceTypes
  <1>5. PortInUse'
    <2>1. modemPort \in Nat /\ modemPort # modemPort + 1 /\ "reader" \notin Workers
      BY DEF SpliceTypes, Ports, Workers
    <2>2. CASE Inject
      BY <2>1, <2>2 DEF PortInUse, PlacesOK, Places, Framing, Threads, Workers, SpliceTypes
    <2>3. CASE HangUp
      BY <2>1, <2>3 DEF PortInUse, PlacesOK, Places, Framing, Threads, Workers, SpliceTypes
    <2>4. CASE Signal
      BY <2>1, <2>4 DEF PortInUse, PlacesOK, Places, Framing, Threads, Workers, SpliceTypes
    <2>5. QED
      BY <2>2, <2>3, <2>4
  <1>6. SessionsCounted' /\ ~slipped'
    BY DEF SessionsCounted, LocksHeld, PlacesOK, Places, Threads, Workers, SpliceTypes
  <1>7. NotClosedMidFrame' /\ NeverWriteOnly'
    BY DEF NotClosedMidFrame, NeverWriteOnly, LocksHeld, PlacesOK, Places, Framing, Locked, Threads, Workers,
       SpliceTypes
  <1>8. QED
    BY <1>0, <1>1, <1>2, <1>3, <1>4, <1>5, <1>6, <1>7
LEMMA StepSplice == SpliceInv /\ [SpliceNext]_spliceVars => SpliceInv'
  <1> SUFFICES ASSUME SpliceInv, [SpliceNext]_spliceVars PROVE SpliceInv'
    OBVIOUS
  <1>1. CASE SpliceNext
    BY <1>1, ReaderStep, ReplaceStep, CopierStep, WriteStep, WorkerStep, FrameStep, EnvironmentStep
       DEF SpliceNext, Primitive
  <1>2. CASE UNCHANGED spliceVars
    BY <1>2 DEF spliceVars, SpliceInv, SpliceTypes, Flags, PlacesOK, LocksHeld, PrimitiveOK, PortInUse,
       SessionsCounted,
            NotClosedMidFrame, NeverWriteOnly
  <1>3. QED
    BY <1>1, <1>2

(* The radio is shared as splice.go's LOCK ORDER and the reopener mean it, *)
(* however often the port hangs up: no descriptor is closed in the middle  *)
(* of a raw write, no primitive begins on an old one, the two locks never  *)
(* wait for each other, the proxy does not outlive its reader, and no host *)
(* chunk of a pairing session is written in that session.                  *)
THEOREM RadioIsShared == SpliceSpec => []RadioShared
  <1>1. SpliceInv => RadioShared
    <2> SUFFICES ASSUME SpliceInv PROVE RadioShared
      OBVIOUS
    <2>1. SpliceTypeOK
      BY DEF SpliceInv, SpliceTypes, Flags, SpliceTypeOK
    <2>2. DescriptorOfTheMoment
      BY DEF SpliceInv, PortInUse, LocksHeld, DescriptorOfTheMoment, Framing, Replacing
    <2>3. NoLockCycle
      BY DEF SpliceInv, SpliceTypes, LocksHeld, NoLockCycle, Locked
    <2>4. QED
      BY <2>1, <2>2, <2>3 DEF SpliceInv, RadioShared
  <1>2. QED
    BY <1>1, InitSplice, StepSplice, PTL DEF SpliceSpec

-----------------------------------------------------------------------------
(* The link: its inductive invariant.                                      *)

LinkTypes ==
    /\ dialed \in 0 .. MaxConns /\ ours \in [Conns -> {"open", "closed"}]
    /\ handler \in [Conns -> {"none", "accepted", "greeted", "serving", "leaving", "ended"}]
    /\ publishers \in Conns \cup {NoConn} /\ cur \in Conns \cup {NoConn} /\ registered \in Conns \cup {NoConn}
    /\ pubWriter \in [Conns -> {"none", "run", "drain", "done"}]
    /\ zb \in {"boot", "fetch", "dial", "greet", "session"}
    /\ zbWriter \in [Conns -> {"none", "idle", "busy", "ended"}] /\ zbReader \in [Conns -> {"none", "read", "ended"}]

LinkFlags == pubClosed \in [Conns -> BOOLEAN] /\ panicked \in BOOLEAN /\ mistaken \in BOOLEAN

QueuesBounded ==
    /\ pubOut \in [Conns -> Seq({"command"})] /\ out \in Seq({"frame"})
    /\ (\A c \in Conns : Len(pubOut[c]) <= PubCap) /\ Len(out) <= OutboundCap

(* A connection is served only once it is dialled; ecu-zb has one exactly  *)
(* while it fetches, greets or is in a session, and the goroutines of a    *)
(* session are those of the current one.                                   *)
ConnsInOrder ==
    /\ \A c \in Conns : handler[c] = "none" <=> c > dialed
    /\ cur # NoConn <=> zb \in {"fetch", "greet", "session"}
    /\ \A c \in Conns : zbWriter[c] \in {"idle", "busy"} \/ zbReader[c] = "read" => zb = "session" /\ c = cur

(* The name leads to a handler that has not closed its channel, and to the *)
(* one registered last while that is served.                               *)
NameLeads ==
    /\ \A c \in Conns : /\ pubClosed[c] => handler[c] \in {"leaving", "ended"}
                        /\ pubWriter[c] = "done" => pubClosed[c]
    /\ publishers # NoConn => handler[publishers] \in {"serving", "leaving"} /\ ~pubClosed[publishers]
    /\ registered # NoConn /\ handler[registered] = "serving" => publishers = registered

LinkInv == LinkTypes /\ LinkFlags /\ QueuesBounded /\ ConnsInOrder /\ NameLeads /\ ~panicked /\ ~mistaken

LEMMA LinkBounds ==
    /\ MaxConns \in Nat \ {0} /\ OutboundCap \in Nat \ {0} /\ PubCap \in Nat \ {0} /\ NoConn \notin Conns
    /\ \A c \in Conns : c \in Nat \ {0}
  BY LinkAssumption DEF Conns

(* What a queue of bounded length becomes.                                 *)
LEMMA QueueStepBounded ==
    ASSUME NEW T, NEW q \in Seq(T), NEW n \in Nat, Len(q) <= n
    PROVE  /\ q # <<>> => Tail(q) \in Seq(T) /\ Len(Tail(q)) <= n
           /\ \A x \in T : Len(q) < n => Append(q, x) \in Seq(T) /\ Len(Append(q, x)) <= n
  BY HeadTailProperties, EmptySeq

LEMMA InitLink == LinkInit => LinkInv
  <1> SUFFICES ASSUME LinkInit PROVE LinkInv
    OBVIOUS
  <1> USE LinkBounds DEF LinkInit
  <1>1. LinkTypes
    BY DEF LinkTypes
  <1>2. LinkFlags /\ ~panicked /\ ~mistaken
    BY DEF LinkFlags
  <1>3. QueuesBounded
    BY DEF QueuesBounded
  <1>4. ConnsInOrder /\ NameLeads
    BY DEF ConnsInOrder, NameLeads
  <1>5. QED
    BY <1>1, <1>2, <1>3, <1>4 DEF LinkInv

(* ecu-zb dials.                                                           *)
LEMMA DialStep ==
    ASSUME LinkInv, Fetch \/ FetchEnds \/ DialSession
    PROVE  LinkInv'
  <1> USE LinkBounds DEF LinkInv, socketVars, serverVars, clientVars, Fetch, FetchEnds, DialSession, Dial
  <1>1. LinkTypes'
    <2>1. dialed \in Nat /\ (dialed < MaxConns => dialed + 1 \in Conns /\ dialed + 1 \in 0 .. MaxConns)
      BY DEF LinkTypes, ConnsInOrder, Conns
    <2>2. CASE Fetch
      BY <2>1, <2>2 DEF LinkTypes, ConnsInOrder
    <2>3. CASE DialSession
      BY <2>1, <2>3 DEF LinkTypes, ConnsInOrder
    <2>4. CASE FetchEnds
      BY <2>1, <2>4 DEF LinkTypes, ConnsInOrder
    <2>5. QED
      BY <2>2, <2>3, <2>4
  <1>2. LinkFlags'
    BY DEF LinkFlags
  <1>3. QueuesBounded'
    BY DEF QueuesBounded
  <1>4. ConnsInOrder'
    <2>1. dialed \in Nat /\ (dialed < MaxConns => dialed + 1 \in Conns /\ dialed + 1 \in 0 .. MaxConns)
      BY DEF LinkTypes, ConnsInOrder, Conns
    <2>2. CASE Fetch
      BY <2>1, <2>2 DEF LinkTypes, ConnsInOrder
    <2>3. CASE DialSession
      BY <2>1, <2>3 DEF LinkTypes, ConnsInOrder
    <2>4. CASE FetchEnds
      BY <2>1, <2>4 DEF LinkTypes, ConnsInOrder
    <2>5. QED
      BY <2>2, <2>3, <2>4
  <1>5. NameLeads'
    BY SMTT(40) DEF NameLeads, ConnsInOrder, LinkTypes, LinkFlags
  <1>6. ~panicked' /\ ~mistaken'
    BY DEF NameLeads, ConnsInOrder, LinkFlags
  <1>7. QED
    BY <1>1, <1>2, <1>3, <1>4, <1>5, <1>6

(* ecu-zb's session starts, returns, or the process restarts.              *)
LEMMA SessionStep ==
    ASSUME LinkInv, SessionStarts \/ SessionReturns \/ EcuZbRestart
    PROVE  LinkInv'
  <1> USE LinkBounds DEF LinkInv, socketVars, serverVars, clientVars, SessionStarts, SessionReturns, EcuZbRestart,
     Theirs
  <1>1. LinkTypes'
    <2>1. CASE SessionStarts
      BY <2>1 DEF LinkTypes, ConnsInOrder
    <2>2. CASE SessionReturns
      BY <2>2 DEF LinkTypes, ConnsInOrder
    <2>3. CASE EcuZbRestart
      BY <2>3 DEF LinkTypes, ConnsInOrder
    <2>4. QED
      BY <2>1, <2>2, <2>3
  <1>2. LinkFlags'
    BY DEF LinkFlags
  <1>3. QueuesBounded'
    <2>1. <<>> \in Seq({"frame"}) /\ Len(<<>>) = 0 /\ pubOut' = pubOut /\ out' \in {out, <<>>}
      OBVIOUS
    <2>2. out' \in Seq({"frame"}) /\ Len(out') <= OutboundCap
      <3>1. CASE out' = out
        BY <3>1 DEF QueuesBounded
      <3>2. CASE out' = <<>>
        <4>1. Len(out') = 0
          BY <2>1, <3>2, Zenon
        <4>2. QED
          BY <2>1, <3>2, <4>1
      <3>3. QED
        BY <2>1, <3>1, <3>2
    <2>3. QED
      BY <2>1, <2>2 DEF QueuesBounded
  <1>4. ConnsInOrder'
    BY DEF ConnsInOrder, LinkTypes, Conns
  <1>5. NameLeads'
    BY DEF NameLeads, ConnsInOrder, LinkTypes, LinkFlags
  <1>6. ~panicked' /\ ~mistaken'
    BY DEF NameLeads, ConnsInOrder, LinkFlags
  <1>7. QED
    BY <1>1, <1>2, <1>3, <1>4, <1>5, <1>6

(* Frames and commands are queued.                                         *)
LEMMA QueueStep ==
    ASSUME LinkInv, Enqueue \/ SendToBackend
    PROVE  LinkInv'
  <1> USE LinkBounds DEF LinkInv, socketVars, serverVars, clientVars, Enqueue, SendToBackend
  <1>1. LinkTypes'
    BY DEF LinkTypes, ConnsInOrder, Conns
  <1>2. LinkFlags'
    BY DEF LinkFlags
  <1>3. QueuesBounded'
    <2>1. CASE Enqueue
      BY <2>1, QueueStepBounded DEF QueuesBounded
    <2>2. CASE SendToBackend
      <3>1. /\ publishers \in Conns /\ out' = out
            /\ \/ pubOut' = pubOut
               \/ /\ Len(pubOut[publishers]) < PubCap
                  /\ pubOut' = [pubOut EXCEPT ![publishers] = Append(@, "command")]
        BY <2>2 DEF LinkTypes
      <3>2. Len(pubOut[publishers]) < PubCap =>
                /\ Append(pubOut[publishers], "command") \in Seq({"command"})
                /\ Len(Append(pubOut[publishers], "command")) <= PubCap
        BY <3>1, QueueStepBounded DEF QueuesBounded
      <3>3. QED
        BY <3>1, <3>2 DEF QueuesBounded
    <2>3. QED
      BY <2>1, <2>2
  <1>4. ConnsInOrder'
    BY DEF ConnsInOrder, LinkTypes, Conns
  <1>5. NameLeads'
    BY DEF NameLeads, ConnsInOrder, LinkTypes, LinkFlags
  <1>6. ~panicked' /\ ~mistaken'
    BY DEF NameLeads, ConnsInOrder, LinkFlags
  <1>7. QED
    BY <1>1, <1>2, <1>3, <1>4, <1>5, <1>6

(* A goroutine of a session.                                               *)
LEMMA ClientStep ==
    ASSUME LinkInv, NEW c \in Conns, WriterTakes(c) \/ WriterWrites(c) \/ WriterStops(c) \/ ReaderReads(c)
    PROVE  LinkInv'
  <1> USE LinkBounds DEF LinkInv, socketVars, serverVars, clientVars, WriterTakes, WriterWrites, WriterStops,
     ReaderReads, Cancelled
  <1>1. LinkTypes'
    BY SMTT(40) DEF LinkTypes, ConnsInOrder, Conns
  <1>2. LinkFlags'
    BY DEF LinkFlags
  <1>3. QueuesBounded'
    <2>1. out # <<>> => Tail(out) \in Seq({"frame"}) /\ Len(Tail(out)) <= OutboundCap
      BY QueueStepBounded DEF QueuesBounded
    <2>2. pubOut' = pubOut /\ (out' = out \/ (out # <<>> /\ out' = Tail(out)))
      OBVIOUS
    <2>3. QED
      BY <2>1, <2>2 DEF QueuesBounded
  <1>4. ConnsInOrder'
    BY DEF ConnsInOrder, LinkTypes, Conns
  <1>5. NameLeads'
    BY DEF NameLeads, ConnsInOrder, LinkTypes, LinkFlags
  <1>6. ~panicked' /\ ~mistaken'
    BY DEF NameLeads, ConnsInOrder, LinkFlags
  <1>7. QED
    BY <1>1, <1>2, <1>3, <1>4, <1>5, <1>6

(* A handler.                                                              *)
LEMMA HandlerStep ==
    ASSUME LinkInv, NEW c \in Conns, Greeted(c) \/ RegisterPublisher(c) \/ HandleFrame(c) \/ HandlerLeaves(c)
    PROVE  LinkInv'
  <1> USE LinkBounds DEF LinkInv, socketVars, serverVars, clientVars, Greeted, RegisterPublisher, HandleFrame,
     HandlerLeaves
  <1>1. LinkTypes'
    <2>1. CASE Greeted(c)
      BY <2>1 DEF LinkTypes
    <2>2. CASE RegisterPublisher(c)
      BY <2>2 DEF LinkTypes
    <2>3. CASE HandleFrame(c)
      BY <2>3 DEF LinkTypes
    <2>4. CASE HandlerLeaves(c)
      BY <2>4 DEF LinkTypes
    <2>5. QED
      BY <2>1, <2>2, <2>3, <2>4
  <1>2. LinkFlags'
    BY DEF LinkFlags
  <1>3. QueuesBounded'
    BY DEF QueuesBounded
  <1>4. ConnsInOrder'
    BY DEF ConnsInOrder, LinkTypes, Conns
  <1>5. NameLeads'
    BY SMTT(40) DEF NameLeads, ConnsInOrder, LinkTypes, LinkFlags
  <1>6. ~panicked' /\ ~mistaken'
    BY DEF NameLeads, ConnsInOrder, LinkFlags
  <1>7. QED
    BY <1>1, <1>2, <1>3, <1>4, <1>5, <1>6

(* A handler's end and its writer.                                         *)
LEMMA ClosingStep ==
    ASSUME LinkInv, NEW c \in Conns,
           UnregisterAndClose(c) \/ HandlerEnds(c) \/ PublisherWrites(c) \/ PublisherWriterEnds(c)
    PROVE  LinkInv'
  <1> USE LinkBounds DEF LinkInv, socketVars, serverVars, clientVars, UnregisterAndClose, HandlerEnds,
     PublisherWrites, PublisherWriterEnds
  <1>1. LinkTypes'
    <2>1. CASE UnregisterAndClose(c)
      BY <2>1 DEF LinkTypes, ConnsInOrder
    <2>2. CASE HandlerEnds(c)
      BY <2>2 DEF LinkTypes, ConnsInOrder
    <2>3. CASE PublisherWrites(c)
      BY <2>3 DEF LinkTypes, ConnsInOrder
    <2>4. CASE PublisherWriterEnds(c)
      BY <2>4 DEF LinkTypes, ConnsInOrder
    <2>5. QED
      BY <2>1, <2>2, <2>3, <2>4
  <1>2. LinkFlags'
    BY DEF LinkFlags
  <1>3. QueuesBounded'
    <2>1. pubOut[c] # <<>> => Tail(pubOut[c]) \in Seq({"command"}) /\ Len(Tail(pubOut[c])) <= PubCap
      BY QueueStepBounded DEF QueuesBounded
    <2>2. out' = out /\ (pubOut' = pubOut \/ (pubOut[c] # <<>> /\ pubOut' = [pubOut EXCEPT ![c] = Tail(@)]))
      OBVIOUS
    <2>3. QED
      BY <2>1, <2>2 DEF QueuesBounded
  <1>4. ConnsInOrder'
    BY DEF ConnsInOrder, LinkTypes, Conns
  <1>5. NameLeads'
    <2>1. CASE UnregisterAndClose(c)
      BY <2>1 DEF NameLeads, LinkTypes, LinkFlags
    <2>2. CASE HandlerEnds(c)
      BY <2>2 DEF NameLeads, LinkTypes, LinkFlags
    <2>3. CASE PublisherWrites(c)
      BY <2>3 DEF NameLeads, LinkTypes, LinkFlags
    <2>4. CASE PublisherWriterEnds(c)
      BY <2>4 DEF NameLeads, LinkTypes, LinkFlags
    <2>5. QED
      BY <2>1, <2>2, <2>3, <2>4
  <1>6. ~panicked' /\ ~mistaken'
    BY DEF NameLeads, ConnsInOrder, LinkFlags
  <1>7. QED
    BY <1>1, <1>2, <1>3, <1>4, <1>5, <1>6

(* inv-driver restarts.                                                    *)
LEMMA DriverStep ==
    ASSUME LinkInv, DriverRestart
    PROVE  LinkInv'
  <1> USE LinkBounds DEF LinkInv, socketVars, serverVars, clientVars, DriverRestart
  <1>1. LinkTypes'
    BY DEF LinkTypes, ConnsInOrder, Conns
  <1>2. LinkFlags'
    BY DEF LinkFlags
  <1>3. QueuesBounded'
    BY DEF QueuesBounded
  <1>4. ConnsInOrder'
    BY DEF ConnsInOrder, LinkTypes, Conns
  <1>5. NameLeads'
    <2>1. /\ publishers' = NoConn /\ registered' = NoConn
          /\ \A c \in Conns : ~pubClosed'[c] /\ pubWriter'[c] = "none"
      OBVIOUS
    <2>2. QED
      BY <2>1 DEF NameLeads
  <1>6. ~panicked' /\ ~mistaken'
    BY DEF NameLeads, ConnsInOrder, LinkFlags
  <1>7. QED
    BY <1>1, <1>2, <1>3, <1>4, <1>5, <1>6

LEMMA StepLink == LinkInv /\ [LinkNext]_linkVars => LinkInv'
  <1> SUFFICES ASSUME LinkInv, [LinkNext]_linkVars PROVE LinkInv'
    OBVIOUS
  <1>1. CASE LinkNext
    BY <1>1, DialStep, SessionStep, QueueStep, ClientStep, HandlerStep, ClosingStep, DriverStep DEF LinkNext
  <1>2. CASE UNCHANGED linkVars
    BY <1>2 DEF linkVars, socketVars, serverVars, clientVars, LinkInv, LinkTypes, LinkFlags, QueuesBounded,
       ConnsInOrder,
            NameLeads
  <1>3. QED
    BY <1>1, <1>2

(* The name in inv-driver's publishers leads to the handler registered     *)
(* last while it serves, never to one that has closed its channel, so      *)
(* SendToBackend cannot panic (server.go:664-688); and no writer of a      *)
(* session that has returned takes a frame (client.go:325-334): for any    *)
(* number of reconnections and restarts and any queue.                     *)
THEOREM LinkIsSound == LinkSpec => []LinkSound
  <1>1. LinkInv => LinkSound
    <2> SUFFICES ASSUME LinkInv PROVE LinkSound
      OBVIOUS
    <2>1. LinkTypeOK
      BY DEF LinkInv, LinkTypes, LinkFlags, QueuesBounded, LinkTypeOK
    <2>2. QED
      BY <2>1 DEF LinkInv, NameLeads, LinkSound
  <1>2. QED
    BY <1>1, InitLink, StepLink, PTL DEF LinkSpec

-----------------------------------------------------------------------------
(* The watchdog: its quiet window.                                         *)

LEMMA WatchdogBounds ==
    /\ Silence \in Nat \ {0} /\ Interval \in Nat \ {0} /\ Cooldown \in Nat \ {0} /\ MaxRecoverBackoff \in Nat \ {0}
    /\ Cooldown <= MaxRecoverBackoff
  BY WatchdogAssumption

(* The loop of cooldownLocked computes what its recursion says.            *)
LEMMA CooldownRecursion ==
    /\ CooldownAfter \in [Nat -> 1 .. MaxRecoverBackoff]
    /\ \A n \in Nat : CooldownAfter[n] = IF n <= 1 THEN Cooldown ELSE AtMost(2 * CooldownAfter[n - 1], MaxRecoverBackoff)
  <1> DEFINE V == 1 .. MaxRecoverBackoff
             F == [p \in Nat \X V |-> IF p[1] = 0 THEN Cooldown ELSE AtMost(2 * p[2], MaxRecoverBackoff)]
             Rec(g) == [n \in Nat |-> IF n <= 1 THEN Cooldown ELSE AtMost(2 * g[n - 1], MaxRecoverBackoff)]
  <1>1. Cooldown \in V /\ F \in [Nat \X V -> V]
    BY WatchdogBounds DEF AtMost
  <1>2. PICK g \in [Nat -> V] : g[0] = Cooldown /\ \A n \in Nat : g[n + 1] = F[<<n, g[n]>>]
    <2> HIDE DEF V, F
    <2>1. \E g : Iterates(g, V, Cooldown, F)
      BY <1>1, Iteration
    <2>2. QED
      BY <2>1 DEF Iterates
  <1>3. \A n \in Nat : g[n] = IF n <= 1 THEN Cooldown ELSE AtMost(2 * g[n - 1], MaxRecoverBackoff)
    <2>1. SUFFICES ASSUME NEW n \in Nat, n # 0
                   PROVE  g[n] = IF n <= 1 THEN Cooldown ELSE AtMost(2 * g[n - 1], MaxRecoverBackoff)
      BY <1>2
    <2>2. n - 1 \in Nat /\ (n - 1) + 1 = n /\ <<n - 1, g[n - 1]>> \in Nat \X V
      BY <2>1
    <2>3. g[n] = F[<<n - 1, g[n - 1]>>]
      BY <1>2, <2>2
    <2>4. QED
      BY <2>1, <2>2, <2>3
  <1>4. g = Rec(g)
    BY <1>3
  <1>5. CooldownAfter = CHOOSE f : f = Rec(f)
    BY DEF CooldownAfter
  <1>6. CooldownAfter = Rec(CooldownAfter)
    <2> HIDE DEF Rec
    <2>1. QED
      BY <1>4, <1>5
  <1>7. \A n \in Nat : CooldownAfter[n] = IF n <= 1 THEN Cooldown ELSE AtMost(2 * CooldownAfter[n - 1], MaxRecoverBackoff)
    BY <1>6
  <1> DEFINE S == {n \in Nat : CooldownAfter[n] \in V}
  <1>8. 0 \in S /\ \A n \in Nat : n \in S => n + 1 \in S
    <2>1. 0 \in S
      BY <1>1, <1>7
    <2>2. ASSUME NEW n \in Nat, n \in S PROVE n + 1 \in S
      BY <1>1, <1>7, <2>2, WatchdogBounds DEF AtMost
    <2>3. QED
      BY <2>1, <2>2
  <1>9. \A n \in Nat : n \in S
    <2> HIDE DEF S
    <2>1. QED
      BY <1>8, SetInduction
  <1>10. CooldownAfter \in [Nat -> V]
    BY <1>6, <1>9
  <1>11. QED
    BY <1>7, <1>10

(* It grows to the cap, and stays there.                                   *)
LEMMA CooldownGrows ==
    ASSUME NEW n \in Nat
    PROVE  CooldownAfter[n] >= Cooldown /\ (n >= MaxRecoverBackoff => CooldownAfter[n] = MaxRecoverBackoff)
  <1> DEFINE S == {k \in Nat : CooldownAfter[k] >= Cooldown /\ CooldownAfter[k] >= AtMost(k, MaxRecoverBackoff)}
  <1>1. 0 \in S
    BY CooldownRecursion, WatchdogBounds DEF AtMost
  <1>2. ASSUME NEW k \in Nat, k \in S PROVE k + 1 \in S
    BY <1>2, CooldownRecursion, WatchdogBounds DEF AtMost
  <1>3. n \in S
    <2> HIDE DEF S
    <2>1. QED
      BY <1>1, <1>2, SetInduction
  <1>4. QED
    BY <1>3, CooldownRecursion, WatchdogBounds DEF AtMost

(* The watchdog: its inductive invariant.                                  *)

WatchdogTypes ==
    /\ silent \in 0 .. Long /\ rested \in 0 .. Long /\ unattended \in 0 .. Long /\ pause \in 0 .. Long
    /\ untilTick \in 0 .. Interval /\ recoverFails \in 0 .. MaxRecoverBackoff
    /\ doing \in {"wait", "probe", "recover", "ended"}
WatchdogFlags == wedged \in BOOLEAN /\ stopping \in BOOLEAN

(* The pause that is due is the window the watchdog computes; a module is  *)
(* not unattended for longer than the watchdog has been resting, or has    *)
(* heard nothing; a reset is due when it is decided on; and a tick that    *)
(* finds one due decides.                                                  *)
PauseIsWindow == pause = IF recoverFails = 0 THEN 0 ELSE CooldownNow
UnattendedSince == unattended <= silent /\ unattended <= rested /\ (~wedged => unattended = 0)
ResetIsDue ==
    /\ doing \in {"probe", "recover"} => rested >= Due /\ (wedged => silent >= Silence)
    /\ doing = "recover" => wedged
Patience == AtLeast(Silence, Due) + Interval
TickDecides ==
    /\ ~stopping => unattended <= Patience
    /\ ~stopping /\ doing = "wait" => unattended + untilTick <= Patience

WatchdogInv == WatchdogTypes /\ WatchdogFlags /\ PauseIsWindow /\ UnattendedSince /\ ResetIsDue /\ TickDecides

LEMMA DueIsWindow ==
    ASSUME WatchdogTypes, PauseIsWindow
    PROVE  Due = CooldownNow /\ Due \in 1 .. MaxRecoverBackoff /\ Due < Long
  <1>1. recoverFails \in Nat /\ CooldownAfter[0] = Cooldown
    BY CooldownRecursion DEF WatchdogTypes
  <1>2. CooldownNow \in 1 .. MaxRecoverBackoff /\ CooldownNow >= Cooldown
    BY <1>1, CooldownRecursion, CooldownGrows DEF CooldownNow
  <1>3. Due = CooldownNow
    BY <1>1, <1>2, WatchdogBounds DEF PauseIsWindow, Due, AtLeast, CooldownNow
  <1>4. QED
    BY <1>2, <1>3, WatchdogBounds DEF Long

LEMMA InitWatchdog == WatchdogInit => WatchdogInv
  <1> SUFFICES ASSUME WatchdogInit PROVE WatchdogInv
    OBVIOUS
  <1> USE WatchdogBounds DEF WatchdogInit
  <1>1. WatchdogTypes /\ PauseIsWindow
    BY DEF WatchdogTypes, PauseIsWindow, Long
  <1>2. WatchdogFlags
    BY DEF WatchdogFlags
  <1>3. UnattendedSince /\ ResetIsDue
    BY DEF UnattendedSince, ResetIsDue, Long
  <1>4. Due = Cooldown
    BY DEF Due, AtLeast
  <1>5. TickDecides
    BY <1>4 DEF TickDecides, Patience, AtLeast
  <1>6. QED
    BY <1>1, <1>2, <1>3, <1>5 DEF WatchdogInv

LEMMA StepWatchdog == WatchdogInv /\ [WatchdogNext]_watchdogVars => WatchdogInv'
  <1> SUFFICES ASSUME WatchdogInv, [WatchdogNext]_watchdogVars PROVE WatchdogInv'
    OBVIOUS
  <1> USE WatchdogBounds
  <1>1. WatchdogTypes /\ WatchdogFlags /\ PauseIsWindow /\ UnattendedSince /\ ResetIsDue /\ TickDecides
    BY DEF WatchdogInv
  <1>2. Due = CooldownNow /\ Due \in 1 .. MaxRecoverBackoff /\ Due < Long /\ Silence < Long /\ Long \in Nat
    BY <1>1, DueIsWindow DEF Long
  <1>3. CASE Elapse
    <2>1. Due' = Due
      BY <1>3 DEF Elapse, Due
    <2>2. WatchdogTypes' /\ PauseIsWindow'
      BY <1>1, <1>2, <1>3 DEF Elapse, WatchdogTypes, PauseIsWindow, AtMost, CooldownNow
    <2>3. WatchdogFlags'
      BY <1>1, <1>3 DEF Elapse, WatchdogFlags
    <2>4. UnattendedSince' /\ ResetIsDue'
      BY <1>1, <1>2, <1>3, <2>1 DEF Elapse, WatchdogTypes, UnattendedSince, ResetIsDue, AtMost
    <2>5. TickDecides'
      BY <1>1, <1>2, <1>3, <2>1 DEF Elapse, WatchdogTypes, TickDecides, Patience, AtMost, AtLeast
    <2>6. QED
      BY <2>2, <2>3, <2>4, <2>5 DEF WatchdogInv
  <1>4. CASE WatchdogTick
    <2>1. Due' = Due
      BY <1>4 DEF WatchdogTick, Due
    <2>2. WatchdogTypes' /\ PauseIsWindow'
      BY <1>1, <1>4 DEF WatchdogTick, WatchdogTypes, PauseIsWindow, CooldownNow
    <2>3. WatchdogFlags'
      BY <1>1, <1>4 DEF WatchdogTick, WatchdogFlags
    <2>4. UnattendedSince' /\ ResetIsDue'
      BY <1>1, <1>2, <1>4, <2>1 DEF WatchdogTick, ProbeIsDue, WatchdogTypes, UnattendedSince, ResetIsDue
    <2>5. TickDecides'
      BY <1>1, <1>2, <1>4, <2>1
         DEF WatchdogTick, ProbeIsDue, WatchdogTypes, UnattendedSince, TickDecides, Patience, AtLeast
    <2>6. QED
      BY <2>2, <2>3, <2>4, <2>5 DEF WatchdogInv
  <1>5. CASE ProbeFails \/ ProbeDead
    <2>1. Due' = Due
      BY <1>5 DEF ProbeFails, ProbeDead, Due
    <2>2. WatchdogTypes' /\ PauseIsWindow'
      BY <1>1, <1>2, <1>5 DEF ProbeFails, ProbeDead, WatchdogTypes, PauseIsWindow, CooldownNow
    <2>3. WatchdogFlags'
      BY <1>1, <1>5 DEF ProbeFails, ProbeDead, WatchdogFlags
    <2>4. UnattendedSince' /\ ResetIsDue' /\ TickDecides'
      BY <1>1, <1>2, <1>5, <2>1 DEF ProbeFails, ProbeDead, WatchdogTypes, UnattendedSince, ResetIsDue, TickDecides,
                                    Patience, AtLeast
    <2>5. QED
      BY <2>2, <2>3, <2>4 DEF WatchdogInv
  <1>6. CASE ProbeAlive \/ Recovered
    <2>1. /\ pause' = 0 /\ recoverFails' = 0 /\ doing' = "wait" /\ unattended' = 0 /\ wedged' = FALSE
          /\ untilTick' = untilTick /\ stopping' = stopping /\ silent' \in {0, silent} /\ rested' \in {0, rested}
      BY <1>1, <1>6 DEF ProbeAlive, Recovered, UnattendedSince, WatchdogFlags
    <2>2. Due' = Cooldown
      BY <2>1 DEF Due, AtLeast
    <2>3. WatchdogTypes' /\ PauseIsWindow' /\ UnattendedSince' /\ ResetIsDue'
      BY <1>1, <1>2, <2>1 DEF WatchdogTypes, PauseIsWindow, UnattendedSince, ResetIsDue
    <2>4. WatchdogFlags'
      BY <1>1, <2>1 DEF WatchdogFlags
    <2>5. TickDecides'
      BY <1>1, <1>2, <2>1, <2>2 DEF WatchdogTypes, TickDecides, Patience, AtLeast
    <2>6. QED
      BY <2>3, <2>4, <2>5 DEF WatchdogInv
  <1>7. CASE RecoverFails
    <2>1. recoverFails \in 0 .. MaxRecoverBackoff /\ recoverFails \in Nat
      BY <1>1 DEF WatchdogTypes
    <2>2. PauseIsWindow'
      <3>1. CASE recoverFails = 0
        BY <1>1, <1>7, <3>1, CooldownRecursion DEF RecoverFails, PauseIsWindow, CooldownNow, AtMost
      <3>2. CASE recoverFails # 0 /\ recoverFails < MaxRecoverBackoff
        <4>1. recoverFails' = recoverFails + 1 /\ pause = CooldownAfter[recoverFails]
          BY <1>1, <1>7, <2>1, <3>2 DEF RecoverFails, PauseIsWindow, CooldownNow, AtMost
        <4>2. CooldownAfter[recoverFails + 1] = AtMost(2 * CooldownAfter[recoverFails], MaxRecoverBackoff)
          BY <2>1, <3>2, CooldownRecursion
        <4>3. pause # 0
          BY <2>1, <4>1, CooldownRecursion
        <4>4. QED
          BY <1>7, <2>1, <4>1, <4>2, <4>3 DEF RecoverFails, PauseIsWindow, CooldownNow
      <3>3. CASE recoverFails = MaxRecoverBackoff
        <4>1. CooldownAfter[MaxRecoverBackoff] = MaxRecoverBackoff
          BY CooldownGrows
        <4>2. recoverFails' = MaxRecoverBackoff /\ pause = MaxRecoverBackoff
          BY <1>1, <1>7, <3>3, <4>1 DEF RecoverFails, PauseIsWindow, CooldownNow, AtMost
        <4>3. QED
          BY <1>7, <4>1, <4>2 DEF RecoverFails, PauseIsWindow, CooldownNow, AtMost
      <3>4. QED
        BY <2>1, <3>1, <3>2, <3>3
    <2>3. WatchdogTypes'
      BY <1>1, <1>2, <1>7, <2>1 DEF RecoverFails, WatchdogTypes, AtMost, Long
    <2>4. Due' \in 1 .. MaxRecoverBackoff
      <3>1. pause \in Nat /\ pause' = IF pause = 0 THEN Cooldown ELSE AtMost(2 * pause, MaxRecoverBackoff)
        BY <1>1, <1>2, <1>7 DEF RecoverFails, WatchdogTypes
      <3>2. pause' \in 1 .. MaxRecoverBackoff
        BY <3>1 DEF AtMost
      <3>3. QED
        BY <3>2 DEF Due, AtLeast
    <2>5. WatchdogFlags'
      BY <1>1, <1>7 DEF RecoverFails, WatchdogFlags
    <2>6. /\ rested' = 0 /\ unattended' = 0 /\ doing' = "wait" /\ silent' \in Nat
          /\ untilTick' \in 0 .. Interval
      BY <1>1, <1>2, <1>7 DEF RecoverFails, WatchdogTypes
    <2>7. UnattendedSince' /\ ResetIsDue'
      BY <2>6 DEF UnattendedSince, ResetIsDue
    <2>8. TickDecides'
      <3>1. Patience' \in Nat /\ Patience' >= Interval
        <4>1. PICK d \in Nat : Due' = d
          BY <2>4
        <4>2. Patience' = AtLeast(Silence, d) + Interval
          BY <4>1 DEF Patience
        <4>3. QED
          BY <4>2 DEF AtLeast
      <3>2. unattended' <= Patience' /\ unattended' + untilTick' <= Patience'
        <4>1. unattended' = 0 /\ untilTick' \in Nat /\ untilTick' <= Interval
          BY <2>6
        <4>2. PICK p \in Nat : Patience' = p
          BY <3>1
        <4>3. p >= Interval
          BY <3>1, <4>2
        <4>4. unattended' <= p
          BY <4>1
        <4>5. unattended' + untilTick' <= p
          <5>1. PICK t \in Nat : untilTick' = t
            BY <4>1
          <5>2. t <= Interval /\ 0 + t = t /\ Interval \in Nat
            BY <4>1, <5>1
          <5>3. t <= p
            BY <4>3, <5>2
          <5>4. QED
            BY <4>1, <5>1, <5>2, <5>3
        <4>6. QED
          BY <4>2, <4>4, <4>5
      <3>3. QED
        BY <3>2 DEF TickDecides
    <2>9. QED
      BY <2>2, <2>3, <2>5, <2>7, <2>8 DEF WatchdogInv
  <1>8. CASE NoteInbound \/ ModuleTurns \/ WatchdogCancel \/ UNCHANGED watchdogVars
    <2>1. Due' = Due /\ CooldownNow' = CooldownNow
      BY <1>8 DEF NoteInbound, ModuleTurns, WatchdogCancel, watchdogVars, Due, CooldownNow
    <2>2. WatchdogTypes' /\ PauseIsWindow'
      BY <1>1, <1>2, <1>8, <2>1 DEF NoteInbound, ModuleTurns, WatchdogCancel, watchdogVars, WatchdogTypes,
         PauseIsWindow
    <2>3. WatchdogFlags'
      BY <1>1, <1>8 DEF NoteInbound, ModuleTurns, WatchdogCancel, watchdogVars, WatchdogFlags
    <2>4. UnattendedSince' /\ ResetIsDue' /\ TickDecides'
      BY <1>1, <1>2, <1>8, <2>1
         DEF NoteInbound, ModuleTurns, WatchdogCancel, watchdogVars, WatchdogTypes, WatchdogFlags, UnattendedSince,
             ResetIsDue, TickDecides, Patience, AtLeast
    <2>5. QED
      BY <2>2, <2>3, <2>4 DEF WatchdogInv
  <1>9. QED
    BY <1>3, <1>4, <1>5, <1>6, <1>7, <1>8 DEF WatchdogNext

(* The watchdog is paced, for any windows: a wedged module is reset within *)
(* the silence or the pause due and one tick, unless its probe fails; and  *)
(* between resets lies a pause that doubles up to the cap                  *)
(* (watchdog.go:10-27,122-145).                                            *)
THEOREM WatchdogIsPaced == WatchdogSpec => []WatchdogPaced
  <1>1. WatchdogInv => WatchdogPaced
    BY DEF WatchdogInv, WatchdogTypes, WatchdogFlags, ResetIsDue, TickDecides, Patience, WatchdogPaced, WatchdogTypeOK
  <1>2. QED
    BY <1>1, InitWatchdog, StepWatchdog, PTL DEF WatchdogSpec

-----------------------------------------------------------------------------
(* The inductive invariant of the reply tracker.                           *)

Reply == [mine : BOOLEAN, dropped : BOOLEAN, excused : BOOLEAN, intact : BOOLEAN,
          parts : 1 .. MaxParts, next : 1 .. MaxParts, since : 0 .. DroppingTimeout + 1]

TrackerTypes ==
    /\ TrackerTypeOK /\ radio \in Seq(Query) /\ reply \in Reply \cup {Nothing}
    /\ (\A i \in DOMAIN radio : radio[i].sa \in Units) /\ (reply # Nothing => reply.next <= reply.parts)

\* A query that is being written, or that was written and not answered.
InFlight(q) == (\E i \in DOMAIN radio : radio[i] = q) \/ (\E w \in Writers : writing[w] = q)

\* Its entry, while it has one.
EntryOf(q) == [id |-> q.id, mine |-> q.mine, left |-> ResponseTTL - q.age]
Young(q, u) == q \in Query /\ InFlight(q) /\ q.sa = u /\ q.age < ResponseTTL

IdsApart ==
    /\ \A q \in Query : InFlight(q) => q.id <= issued
    /\ \A u \in Units : \A e \in pending[u] : e.id <= issued
    /\ \A q, r \in Query : InFlight(q) /\ InFlight(r) /\ q.id = r.id => q = r
    /\ \A i, j \in DOMAIN radio : radio[i] = radio[j] => i = j
    /\ \A i \in DOMAIN radio, w \in Writers : writing[w] # radio[i]
    /\ writing["host"] # Nothing => writing["host"] # writing["bus"]
OlderFirst == \A q, r \in Query : InFlight(q) /\ InFlight(r) /\ q.id < r.id => r.age <= q.age
QuietFor ==
    /\ \A q \in Query : InFlight(q) /\ q.sa \in Units => quiet[q.sa] <= q.age
    /\ \A u \in Units : \A e \in pending[u] : e.left + quiet[u] <= ResponseTTL
OursInOrder ==
    /\ \A w \in Writers : writing[w] # Nothing => writing[w].mine = (w = "bus")
    /\ writing["bus"] # Nothing => \A u \in Units : \A e \in pending[u] : e.mine => e.id <= writing["bus"].id

\* In a unit whose queue is not shifted, what is unexpired stands for what is
\* in flight, and what was written is in the order of the queue.
EachAwaited == \A u \in Units : ~disturbed[u] => \A q \in Query : Young(q, u) => EntryOf(q) \in pending[u]
NoneInvented == \A u \in Units : ~disturbed[u] =>
    \A e \in pending[u] : e.left > 0 => \E q \in Query : Young(q, u) /\ EntryOf(q) = e
SentInOrder == \A u \in Units : ~disturbed[u] => \A i \in DOMAIN radio : Young(radio[i], u) =>
    /\ \A j \in DOMAIN radio : i < j /\ Young(radio[j], u) => radio[i].id < radio[j].id
    /\ \A w \in Writers : writing[w] # Nothing /\ writing[w].sa = u => radio[i].id < writing[w].id

\* A reply that is whole so far is being reassembled.
ReplyKept ==
    reply # Nothing /\ reply.intact =>
        /\ assembly # Nothing /\ assembly.mine = reply.dropped
        /\ assembly.left + reply.since = DroppingTimeout + 1 /\ reply.since <= DroppingTimeout
        /\ (reply.dropped = reply.mine \/ reply.excused)

Queues == IdsApart /\ OlderFirst /\ QuietFor /\ OursInOrder
Matching == EachAwaited /\ NoneInvented /\ SentInOrder
Replies == ReplyKept /\ Attributed /\ Whole
TrackerInv == TrackerTypes /\ Queues /\ Matching /\ Replies

LEMMA TrackerBounds ==
    /\ ResponseTTL \in Nat /\ ResponseTTL >= 1 /\ DroppingTimeout \in Nat /\ DroppingTimeout >= 1
    /\ MaxParts \in Nat /\ MaxParts >= 1 /\ MaxQueries \in Nat /\ MaxQueries >= 1
    /\ Broadcast \notin Units /\ Nothing \notin Query /\ Nothing \notin Reassembly
    /\ Writers = {"host", "bus"}
  BY BusTrackerAssumption DEF Writers

LEMMA TrackerInitInv == ASSUME TrackerInit PROVE TrackerInv
  <1> USE TrackerBounds DEF TrackerInit
  <1>1. TrackerTypes
    BY DEF TrackerTypes, TrackerTypeOK, ToSet
  <1>2. \A q \in Query : ~InFlight(q)
    BY DEF InFlight
  <1>3. Queues
    BY <1>1, <1>2 DEF Queues, IdsApart, OlderFirst, QuietFor, OursInOrder
  <1>4. Matching
    BY <1>1, <1>2 DEF Matching, EachAwaited, NoneInvented, SentInOrder, Young
  <1>5. Replies
    BY DEF Replies, ReplyKept, Attributed, Whole
  <1>6. QED
    BY <1>1, <1>3, <1>4, <1>5 DEF TrackerInv

(* What RemoveAt leaves.                                                   *)
LEMMA Removed ==
    ASSUME NEW S, NEW s \in Seq(S), NEW i \in DOMAIN s
    PROVE  /\ RemoveAt(s, i) \in Seq(S) /\ Len(RemoveAt(s, i)) = Len(s) - 1
           /\ DOMAIN RemoveAt(s, i) = 1 .. Len(s) - 1
           /\ \A j \in 1 .. Len(s) - 1 : RemoveAt(s, i)[j] = IF j < i THEN s[j] ELSE s[j + 1]
  <1>1. i \in 1 .. Len(s) /\ Len(s) \in Nat
    OBVIOUS
  <1>2. /\ SubSeq(s, 1, i - 1) \in Seq(S) /\ Len(SubSeq(s, 1, i - 1)) = i - 1
        /\ \A j \in 1 .. i - 1 : SubSeq(s, 1, i - 1)[j] = s[j]
    BY <1>1, SubSeqProperties
  <1>3. /\ SubSeq(s, i + 1, Len(s)) \in Seq(S) /\ Len(SubSeq(s, i + 1, Len(s))) = Len(s) - i
        /\ \A j \in 1 .. Len(s) - i : SubSeq(s, i + 1, Len(s))[j] = s[i + j]
    BY <1>1, SubSeqProperties
  <1> DEFINE before == SubSeq(s, 1, i - 1)
             after == SubSeq(s, i + 1, Len(s))
  <1>4. RemoveAt(s, i) = before \o after
    BY DEF RemoveAt
  <1> HIDE DEF before, after
  <1>5. /\ before \o after \in Seq(S) /\ Len(before \o after) = Len(s) - 1
        /\ \A j \in 1 .. Len(s) - 1 : (before \o after)[j] = IF j < i THEN s[j] ELSE s[j + 1]
    <2>1. before \in Seq(S) /\ after \in Seq(S) /\ Len(before) = i - 1 /\ Len(after) = Len(s) - i
      BY <1>2, <1>3 DEF before, after
    <2>2. /\ before \o after \in Seq(S) /\ Len(before \o after) = Len(s) - 1
          /\ \A j \in 1 .. Len(s) - 1 : (before \o after)[j] = IF j <= i - 1 THEN before[j] ELSE after[j - (i - 1)]
      BY SMTT(40), <1>1, <2>1
    <2>3. ASSUME NEW j \in 1 .. Len(s) - 1
          PROVE  (before \o after)[j] = IF j < i THEN s[j] ELSE s[j + 1]
      <3>1. CASE j < i
        BY <1>1, <1>2, <2>2, <3>1 DEF before
      <3>2. CASE j >= i
        <4>1. j - (i - 1) \in 1 .. Len(s) - i /\ i + (j - (i - 1)) = j + 1
          BY <1>1, <3>2
        <4>2. after[j - (i - 1)] = s[j + 1]
          BY <1>3, <4>1 DEF after
        <4>3. ~(j <= i - 1) /\ ~(j < i)
          BY <1>1, <3>2
        <4>4. (before \o after)[j] = after[j - (i - 1)]
          BY ONLY <2>2, <4>3
        <4>5. QED
          BY ONLY <4>2, <4>3, <4>4
      <3>3. j < i \/ j >= i
        BY <1>1
      <3>4. QED
        BY ONLY <3>1, <3>2, <3>3
    <2>4. QED
      BY <2>2, <2>3
  <1>6. QED
    BY <1>1, <1>4, <1>5

LEMMA Fields ==
    /\ \A q \in Query : /\ q.id \in Nat /\ q.id >= 1 /\ q.id <= MaxQueries /\ q.sa \in Units \cup {Broadcast}
                        /\ q.mine \in BOOLEAN /\ q.age \in Nat /\ q.age <= ResponseTTL
                        /\ EntryOf(q).id = q.id /\ EntryOf(q).mine = q.mine
                        /\ EntryOf(q).left = ResponseTTL - q.age
    /\ \A e \in Pending : /\ e.id \in Nat /\ e.id >= 1 /\ e.id <= MaxQueries /\ e.mine \in BOOLEAN
                          /\ e.left \in Nat /\ e.left <= ResponseTTL
  BY TrackerBounds DEF Query, Pending, EntryOf

\* The types, unfolded.
Typed ==
    /\ \A i \in DOMAIN radio : radio[i].sa \in Units
    /\ \A u \in Units : pending[u] \in SUBSET Pending /\ quiet[u] \in 0 .. ResponseTTL
    /\ \A w \in Writers : writing[w] \in Query \cup {Nothing}
    /\ issued \in 0 .. MaxQueries
    /\ \A i \in DOMAIN radio : radio[i] \in Query /\ InFlight(radio[i])
    /\ \A w \in Writers : InFlight(writing[w])
    /\ DOMAIN radio = 1 .. Len(radio) /\ Len(radio) \in Nat

LEMMA TypesUnfold == ASSUME TrackerTypes PROVE Typed
  BY DEF TrackerTypes, TrackerTypeOK, Typed, InFlight

(* A query is marked.                                                      *)
LEMMA MarkStep ==
    ASSUME TrackerInv, NEW w \in Writers, NEW sa \in Units \cup {Broadcast}, Mark(w, sa)
    PROVE  TrackerInv'
  <1> USE TrackerBounds DEF TrackerInv
  <1> DEFINE n == [id |-> issued + 1, sa |-> sa, mine |-> w = "bus", age |-> 0]
             m == [id |-> issued + 1, mine |-> w = "bus", left |-> ResponseTTL]
  <1>0. Typed /\ issued \in Nat /\ issued < MaxQueries
    BY TypesUnfold DEF Mark, Typed
  <1>1. /\ issued' = issued + 1 /\ n \in Query /\ m \in Pending
        /\ writing[w] = Nothing /\ writing' = [writing EXCEPT ![w] = n] /\ n # Nothing
        /\ radio' = radio /\ UNCHANGED <<assembly, reply, disturbed, last>>
    <2>1. n \in Query /\ m \in Pending
      BY <1>0 DEF Query, Pending
    <2>2. QED
      BY <2>1 DEF Mark
  <1>2. /\ n.id = issued + 1 /\ n.sa = sa /\ n.age = 0 /\ n.mine = (w = "bus")
        /\ m.id = issued + 1 /\ m.mine = (w = "bus") /\ m.left = ResponseTTL /\ m = EntryOf(n)
    BY DEF EntryOf
  <1>3. /\ \A u \in Units : pending'[u] \subseteq pending[u] \cup {m} /\ (u # sa => pending'[u] = pending[u])
        /\ sa \in Units => pending'[sa] = {e \in pending[sa] : e.left > 0} \cup {m}
        /\ \A u \in Units : quiet'[u] = IF u = sa THEN 0 ELSE quiet[u]
    BY DEF Mark, Unexpired
  <1> HIDE DEF n, m
  <1>4. \A q \in Query : InFlight(q)' <=> InFlight(q) \/ q = n
    BY <1>1 DEF InFlight, TrackerTypes, TrackerTypeOK
  <1>5. TrackerTypes'
    <2>1. pending' \in [Units -> SUBSET Pending]
      BY <1>1, <1>3 DEF Mark, TrackerTypes, TrackerTypeOK
    <2>2. quiet' \in [Units -> 0 .. ResponseTTL]
      BY DEF Mark, TrackerTypes, TrackerTypeOK
    <2>3. QED
      BY <1>1, <2>1, <2>2 DEF TrackerTypes, TrackerTypeOK, Mark
  <1>6. IdsApart'
    <2>1. \A u \in Units : \A e \in pending'[u] : e.id <= issued'
      BY <1>0, <1>1, <1>2, <1>3, Fields DEF IdsApart, Queues, Typed
    <2>2. /\ \A q \in Query : InFlight(q)' => q.id <= issued'
          /\ \A q, r \in Query : InFlight(q)' /\ InFlight(r)' /\ q.id = r.id => q = r
      BY <1>0, <1>1, <1>2, <1>4, Fields DEF IdsApart, Queues
    <2>3. \A q \in Query : InFlight(q) => q # n
      BY <1>0, <1>2, Fields DEF IdsApart, Queues
    <2>4. \A i \in DOMAIN radio', v \in Writers : writing'[v] # radio'[i]
      BY <1>0, <1>1, <2>3 DEF IdsApart, Queues, Typed, TrackerTypes, TrackerTypeOK
    <2>5. writing'["host"] # Nothing => writing'["host"] # writing'["bus"]
      BY <1>0, <1>1, <2>3 DEF IdsApart, Queues, Typed, TrackerTypes, TrackerTypeOK
    <2>6. QED
      BY <1>1, <2>1, <2>2, <2>4, <2>5 DEF IdsApart, Queues
  <1>7. OlderFirst'
    BY <1>0, <1>2, <1>4, Fields DEF OlderFirst, IdsApart, Queues
  <1>8. QuietFor'
    <2>1. \A q \in Query : InFlight(q)' /\ q.sa \in Units => quiet'[q.sa] <= q.age
      BY <1>0, <1>1, <1>2, <1>3, <1>4, Fields DEF QuietFor, Queues
    <2>2. \A u \in Units : \A e \in pending'[u] : e.left + quiet'[u] <= ResponseTTL
      BY <1>0, <1>1, <1>2, <1>3, Fields DEF QuietFor, Queues, Typed
    <2>3. QED
      BY <2>1, <2>2 DEF QuietFor
  <1>9. OursInOrder'
    <2>1. \A v \in Writers : writing'[v] = IF v = w THEN n ELSE writing[v]
      BY <1>1 DEF TrackerTypes, TrackerTypeOK
    <2>2. CASE w = "bus"
      BY <1>0, <1>1, <1>2, <1>3, <2>1, <2>2, Fields DEF OursInOrder, IdsApart, Queues, Typed
    <2>3. CASE w = "host"
      BY <1>0, <1>1, <1>2, <1>3, <2>1, <2>3, Fields DEF OursInOrder, IdsApart, Queues, Typed
    <2>4. QED
      BY <2>2, <2>3
  <1>10. \A u \in Units, q \in Query : Young(q, u)' <=> Young(q, u) \/ (q = n /\ u = sa)
    BY <1>1, <1>2, <1>4 DEF Young
  <1>11. EachAwaited'
    BY <1>1, <1>2, <1>3, <1>10 DEF EachAwaited, Matching, Young, EntryOf, Query
  <1>12. NoneInvented'
    BY <1>1, <1>2, <1>3, <1>10 DEF NoneInvented, Matching
  <1>13. SentInOrder'
    <2>1. \A i \in DOMAIN radio : radio[i] \in Query /\ InFlight(radio[i]) /\ radio[i] # n
      BY <1>0, <1>2, Fields DEF Typed, IdsApart, Queues
    <2>2. QED
      BY <1>0, <1>1, <1>2, <1>10, <2>1, Fields DEF SentInOrder, Matching, IdsApart, Queues, TrackerTypes,
         TrackerTypeOK
  <1>14. Replies'
    BY <1>1 DEF Replies, ReplyKept, Attributed, Whole
  <1>15. QED
    BY <1>5, <1>6, <1>7, <1>8, <1>9, <1>11, <1>12, <1>13, <1>14 DEF Queues, Matching

(* A query is written.                                                     *)
LEMMA WrittenStep ==
    ASSUME TrackerInv, NEW w \in Writers, Written(w)
    PROVE  TrackerInv'
  <1> USE TrackerBounds DEF TrackerInv
  <1> DEFINE q0 == writing[w]
  <1>0. Typed /\ q0 \in Query /\ q0 # Nothing /\ InFlight(q0)
    BY TypesUnfold DEF Written, Typed
  <1>1. /\ \A v \in Writers : writing'[v] = IF v = w THEN Nothing ELSE writing[v]
        /\ radio' = IF q0.sa = Broadcast THEN radio ELSE Append(radio, q0)
        /\ UNCHANGED <<pending, assembly, reply, issued, quiet, last>>
    BY DEF Written, TrackerTypes, TrackerTypeOK
  <1>2. \A u \in Units : ~disturbed'[u] =>
           ~disturbed[u] /\ \A v \in Writers : writing[v] # Nothing /\ writing[v].sa = u /\ q0.sa = u
                                                => ~(writing[v].id < q0.id)
    BY DEF Written
  <1>3. /\ radio' \in Seq(Query) /\ DOMAIN radio' = 1 .. Len(radio')
        /\ \A i \in DOMAIN radio : i \in DOMAIN radio' /\ radio'[i] = radio[i]
        /\ \A i \in DOMAIN radio' : i \in DOMAIN radio \/ (i = Len(radio) + 1 /\ radio'[i] = q0 /\ q0.sa \in Units)
        /\ q0.sa \in Units => Len(radio) + 1 \in DOMAIN radio' /\ radio'[Len(radio) + 1] = q0
    <2>1. CASE q0.sa = Broadcast
      BY <1>0, <1>1, <2>1 DEF TrackerTypes, Typed
    <2>2. CASE q0.sa # Broadcast
      BY <1>0, <1>1, <2>2, Fields, AppendProperties DEF TrackerTypes, Typed
    <2>3. QED
      BY <2>1, <2>2
  <1> HIDE DEF q0
  <1>4. \A q \in Query : (InFlight(q)' => InFlight(q)) /\ (InFlight(q) /\ q.sa \in Units => InFlight(q)')
    <2>1. \A q \in Query : InFlight(q)' => InFlight(q)
      BY <1>0, <1>1, <1>3 DEF InFlight
    <2>2. ASSUME NEW q \in Query, InFlight(q), q.sa \in Units PROVE InFlight(q)'
      <3>1. CASE q = q0
        BY <1>3, <2>2, <3>1 DEF InFlight
      <3>2. CASE q # q0
        BY <1>1, <1>3, <2>2, <3>2 DEF InFlight, q0
      <3>3. QED
        BY <3>1, <3>2
    <2>3. QED
      BY <2>1, <2>2
  <1>5. TrackerTypes'
    <2>1. writing' \in [Writers -> Query \cup {Nothing}] /\ disturbed' \in [Units -> BOOLEAN]
      BY DEF Written, TrackerTypes, TrackerTypeOK
    <2>2. ToSet(radio') \subseteq Query
      BY <1>3 DEF ToSet
    <2>3. \A i \in DOMAIN radio' : radio'[i].sa \in Units
      BY <1>0, <1>3 DEF Typed
    <2>4. QED
      BY <1>1, <1>3, <2>1, <2>2, <2>3 DEF TrackerTypes, TrackerTypeOK
  <1>6. IdsApart'
    <2>1. \A i, j \in DOMAIN radio' : radio'[i] = radio'[j] => i = j
      BY <1>0, <1>3 DEF IdsApart, Queues, q0
    <2>2. \A v \in Writers \ {w} : writing[v] # Nothing => writing[v] # q0
      BY <1>0 DEF IdsApart, Queues, q0
    <2>3. \A i \in DOMAIN radio', v \in Writers : writing'[v] # radio'[i]
      BY <1>0, <1>1, <1>3, <2>2 DEF IdsApart, Queues, Typed
    <2>4. QED
      BY <1>1, <1>4, <2>1, <2>3 DEF IdsApart, Queues
  <1>7. OlderFirst' /\ QuietFor'
    BY <1>1, <1>4 DEF OlderFirst, QuietFor, Queues
  <1>8. OursInOrder'
    BY <1>1 DEF OursInOrder, Queues
  <1>9. \A u \in Units, q \in Query : Young(q, u)' <=> Young(q, u)
    BY <1>4 DEF Young
  <1>10. EachAwaited' /\ NoneInvented'
    BY <1>1, <1>2, <1>9 DEF EachAwaited, NoneInvented, Matching
  <1>11. SentInOrder'
    <2> SUFFICES ASSUME NEW u \in Units, ~disturbed'[u], NEW i \in DOMAIN radio', Young(radio[i], u)'
                 PROVE  /\ \A j \in DOMAIN radio' : i < j /\ Young(radio[j], u)' => radio'[i].id < radio'[j].id
                        /\ \A v \in Writers : writing'[v] # Nothing /\ writing'[v].sa = u
                              => radio'[i].id < writing'[v].id
      BY DEF SentInOrder
    <2>1. ~disturbed[u] /\ Young(radio'[i], u) /\ radio'[i] \in Query
      BY <1>2, <1>3, <1>9
    <2>2. CASE i \in DOMAIN radio
      <3>1. /\ \A j \in DOMAIN radio : i < j /\ Young(radio[j], u) => radio[i].id < radio[j].id
            /\ \A v \in Writers : writing[v] # Nothing /\ writing[v].sa = u => radio[i].id < writing[v].id
        BY <1>3, <2>1, <2>2 DEF SentInOrder, Matching
      <3>2. ASSUME NEW j \in DOMAIN radio', i < j, Young(radio[j], u)' PROVE radio'[i].id < radio'[j].id
        <4>1. Young(radio'[j], u)
          BY <1>3, <1>9, <3>2
        <4>2. CASE j \in DOMAIN radio
          BY <1>3, <2>2, <3>1, <3>2, <4>1, <4>2
        <4>3. CASE radio'[j] = q0
          BY <1>0, <1>3, <2>2, <3>1, <4>1, <4>3 DEF q0, Young
        <4>4. QED
          BY <1>3, <4>2, <4>3
      <3>3. QED
        BY <1>1, <1>3, <2>2, <3>1, <3>2
    <2>3. CASE i = Len(radio) + 1 /\ radio'[i] = q0
      <3>1. \A j \in DOMAIN radio' : ~(i < j)
        BY <1>0, <1>3, <2>3 DEF Typed
      <3>2. ASSUME NEW v \in Writers, writing'[v] # Nothing, writing'[v].sa = u PROVE q0.id < writing'[v].id
        <4>1. v # w /\ writing'[v] = writing[v] /\ writing[v] \in Query /\ InFlight(writing[v]) /\ writing[v] # q0
          BY <1>0, <1>1, <3>2 DEF Typed, IdsApart, Queues, q0
        <4>2. writing[v].id # q0.id
          BY <1>0, <4>1 DEF IdsApart, Queues
        <4>3. ~(writing[v].id < q0.id)
          BY <1>2, <2>1, <2>3, <3>2, <4>1 DEF Young
        <4>4. QED
          BY <1>0, <4>1, <4>2, <4>3, Fields
      <3>3. QED
        BY <2>3, <3>1, <3>2
    <2>4. QED
      BY <1>3, <2>2, <2>3
  <1>12. Replies'
    BY <1>1 DEF Replies, ReplyKept, Attributed, Whole
  <1>13. QED
    BY <1>5, <1>6, <1>7, <1>8, <1>10, <1>11, <1>12 DEF Queues, Matching

(* The newest of our entries of the unit goes with the failed write.       *)
LEMMA InjectFailsStep ==
    ASSUME TrackerInv, InjectFails
    PROVE  TrackerInv'
  <1> USE TrackerBounds DEF TrackerInv
  <1> DEFINE q0 == writing["bus"]
             Newest(e, u) == e \in pending[u] /\ e.mine /\ \A f \in pending[u] : f.mine => f.id <= e.id
  <1>0. Typed /\ q0 \in Query /\ q0 # Nothing /\ InFlight(q0) /\ "bus" \in Writers
    BY TypesUnfold DEF InjectFails, Typed
  <1>1. /\ \A v \in Writers : writing'[v] = IF v = "bus" THEN Nothing ELSE writing[v]
        /\ UNCHANGED <<assembly, radio, reply, issued, quiet, disturbed, last>>
    BY DEF InjectFails, TrackerTypes, TrackerTypeOK
  <1>2. \A u \in Units : /\ u # q0.sa => pending'[u] = pending[u]
                         /\ u = q0.sa => pending'[u] = {e \in pending[u] : ~Newest(e, u)}
    BY DEF InjectFails, WithoutNewestMine
  <1> HIDE DEF q0, Newest
  <1>3. \A u \in Units : pending'[u] \subseteq pending[u]
    BY <1>2
  <1>4. \A q \in Query : InFlight(q)' <=> InFlight(q) /\ q # q0
    <2>1. \A q \in Query : InFlight(q)' => InFlight(q)
      BY <1>1 DEF InFlight
    <2>2. \A q \in Query : InFlight(q)' => q # q0
      BY <1>0, <1>1 DEF InFlight, IdsApart, Queues, q0, Typed
    <2>3. \A q \in Query : InFlight(q) /\ q # q0 => InFlight(q)'
      BY <1>1 DEF InFlight, q0
    <2>4. QED
      BY <2>1, <2>2, <2>3
  <1>5. TrackerTypes'
    <2>1. writing' \in [Writers -> Query \cup {Nothing}]
      BY DEF InjectFails, TrackerTypes, TrackerTypeOK
    <2>2. pending' \in [Units -> SUBSET Pending]
      BY <1>3 DEF InjectFails, TrackerTypes, TrackerTypeOK
    <2>3. QED
      BY <1>1, <2>1, <2>2 DEF TrackerTypes, TrackerTypeOK
  <1>6. IdsApart'
    BY <1>0, <1>1, <1>3, <1>4 DEF IdsApart, Queues, Typed
  <1>7. OlderFirst' /\ QuietFor'
    BY <1>1, <1>3, <1>4 DEF OlderFirst, QuietFor, Queues
  <1>8. OursInOrder'
    BY <1>1 DEF OursInOrder, Queues
  <1>9. \A u \in Units, q \in Query : Young(q, u)' <=> Young(q, u) /\ q # q0
    BY <1>4 DEF Young
  <1>10. EachAwaited'
    <2> SUFFICES ASSUME NEW u \in Units, ~disturbed[u], NEW q \in Query, Young(q, u), q # q0
                 PROVE  EntryOf(q) \in pending'[u]
      BY <1>1, <1>9 DEF EachAwaited, EntryOf
    <2>1. EntryOf(q) \in pending[u]
      BY DEF EachAwaited, Matching
    <2>2. ASSUME u = q0.sa PROVE ~Newest(EntryOf(q), u)
      <3> SUFFICES ASSUME Newest(EntryOf(q), u) PROVE FALSE
        OBVIOUS
      <3>1. q.mine /\ q.id <= q0.id
        BY <1>0, <2>1, Fields DEF Newest, OursInOrder, Queues, q0
      <3>2. q.id < q0.id
        BY <1>0, <3>1, Fields DEF IdsApart, Queues, Young
      <3>3. q0.age <= q.age
        BY <1>0, <3>2 DEF OlderFirst, Queues, Young
      <3>4. Young(q0, u)
        BY <1>0, <2>2, <3>3, Fields DEF Young
      <3>5. EntryOf(q0) \in pending[u] /\ q0.mine
        BY <1>0, <3>4 DEF EachAwaited, Matching, OursInOrder, Queues, q0
      <3>6. QED
        BY <1>0, <3>2, <3>5, Fields DEF Newest
    <2>3. QED
      BY <1>2, <2>1, <2>2
  <1>11. NoneInvented'
    <2> SUFFICES ASSUME NEW u \in Units, ~disturbed[u], NEW e \in pending'[u], e.left > 0
                 PROVE  \E q \in Query : Young(q, u) /\ q # q0 /\ EntryOf(q) = e
      BY <1>1, <1>9 DEF NoneInvented, EntryOf
    <2>1. PICK q \in Query : Young(q, u) /\ EntryOf(q) = e
      BY <1>3 DEF NoneInvented, Matching
    <2>2. ASSUME q = q0 PROVE FALSE
      <3>1. u = q0.sa /\ e \in pending[u] /\ ~Newest(e, u)
        BY <1>2, <2>1, <2>2 DEF Young
      <3>2. e.mine /\ e.id = q0.id
        BY <1>0, <2>1, <2>2, Fields DEF OursInOrder, Queues, q0
      <3>3. \A f \in pending[u] : f.mine => f.id <= e.id
        BY <1>0, <3>2 DEF OursInOrder, Queues, q0
      <3>4. QED
        BY <3>1, <3>2, <3>3 DEF Newest
    <2>3. QED
      BY <2>1, <2>2
  <1>12. SentInOrder'
    <2>1. \A u \in Units, i \in DOMAIN radio : Young(radio[i], u)' => Young(radio[i], u)
      BY <1>0, <1>1, <1>9 DEF Typed
    <2>2. QED
      BY <1>1, <2>1 DEF SentInOrder, Matching
  <1>13. Replies'
    BY <1>1 DEF Replies, ReplyKept, Attributed, Whole
  <1>14. QED
    BY <1>5, <1>6, <1>7, <1>8, <1>10, <1>11, <1>12, <1>13 DEF Queues, Matching

(* A query is answered, or its reply is lost; entries may go.              *)
LEMMA RemovalKeeps ==
    ASSUME TrackerTypes, Queues, NEW i \in DOMAIN radio, radio' = RemoveAt(radio, i),
           UNCHANGED <<writing, issued, quiet>>,
           \A u \in Units : pending'[u] \subseteq pending[u]
    PROVE  /\ Queues' /\ radio' \in Seq(Query) /\ ToSet(radio') \subseteq Query
           /\ \A j \in DOMAIN radio' : radio'[j].sa \in Units
           /\ \A q \in Query : InFlight(q)' <=> InFlight(q) /\ q # radio[i]
           /\ (\A u \in Units : disturbed[u] => disturbed'[u]) /\ SentInOrder => SentInOrder'
  <1> USE TrackerBounds
  <1> DEFINE f(j) == IF j < i THEN j ELSE j + 1
  <1>0. Typed /\ i \in Nat
    BY TypesUnfold DEF Typed
  <1>1. /\ radio' \in Seq(Query) /\ DOMAIN radio' = 1 .. Len(radio) - 1
        /\ \A j \in DOMAIN radio' : f(j) \in DOMAIN radio /\ f(j) # i /\ radio'[j] = radio[f(j)]
        /\ \A j, k \in DOMAIN radio' : (j < k => f(j) < f(k)) /\ (f(j) = f(k) => j = k)
    <2>1. /\ RemoveAt(radio, i) \in Seq(Query)
          /\ DOMAIN RemoveAt(radio, i) = 1 .. Len(radio) - 1
          /\ \A j \in 1 .. Len(radio) - 1 : RemoveAt(radio, i)[j] = IF j < i THEN radio[j] ELSE radio[j + 1]
      BY Removed DEF TrackerTypes
    <2>2. QED
      BY <1>0, <2>1 DEF Typed
  <1>2. \A k \in DOMAIN radio \ {i} : \E j \in DOMAIN radio' : k = f(j)
    <2> TAKE k \in DOMAIN radio \ {i}
    <2>1. CASE k < i
      BY <1>0, <1>1, <2>1 DEF Typed
    <2>2. CASE k > i
      <3>1. k - 1 \in DOMAIN radio' /\ k = f(k - 1)
        BY <1>0, <1>1, <2>2 DEF Typed
      <3>2. QED
        BY <3>1
    <2>3. QED
      BY <1>0, <2>1, <2>2 DEF Typed
  <1> HIDE DEF f
  <1>3. \A q \in Query : InFlight(q)' <=> InFlight(q) /\ q # radio[i]
    <2>1. \A q \in Query : InFlight(q)' => InFlight(q)
      BY <1>1 DEF InFlight
    <2>2. \A q \in Query : InFlight(q)' => q # radio[i]
      BY <1>0, <1>1 DEF InFlight, IdsApart, Queues
    <2>3. ASSUME NEW q \in Query, InFlight(q), q # radio[i] PROVE InFlight(q)'
      BY <1>1, <1>2, <2>3 DEF InFlight
    <2>4. QED
      BY <2>1, <2>2, <2>3
  <1>4. IdsApart'
    <2>1. \A j, k \in DOMAIN radio' : radio'[j] = radio'[k] => j = k
      BY <1>1 DEF IdsApart, Queues
    <2>2. \A j \in DOMAIN radio', w \in Writers : writing'[w] # radio'[j]
      BY <1>1 DEF IdsApart, Queues
    <2>3. QED
      BY <1>3, <2>1, <2>2 DEF IdsApart, Queues
  <1>5. OlderFirst' /\ QuietFor' /\ OursInOrder'
    BY <1>3 DEF OlderFirst, QuietFor, OursInOrder, Queues
  <1>6. ToSet(radio') \subseteq Query /\ \A j \in DOMAIN radio' : radio'[j].sa \in Units
    BY <1>0, <1>1 DEF ToSet, Typed
  <1>7. ASSUME \A u \in Units : disturbed[u] => disturbed'[u], SentInOrder PROVE SentInOrder'
    <2>1. \A u \in Units, j \in DOMAIN radio' : Young(radio[j], u)' => Young(radio[f(j)], u)
      BY <1>1, <1>3 DEF Young
    <2>2. QED
      BY <1>1, <1>7, <2>1 DEF SentInOrder
  <1>8. QED
    BY <1>1, <1>3, <1>4, <1>5, <1>6, <1>7 DEF Queues

(* A reply is lost: its unit's queue is shifted.                           *)
LEMMA ReplyLostStep ==
    ASSUME TrackerInv, ReplyLost
    PROVE  TrackerInv'
  <1> USE TrackerBounds DEF TrackerInv
  <1>1. PICK i \in DOMAIN radio :
            /\ radio' = RemoveAt(radio, i) /\ disturbed' = [disturbed EXCEPT ![radio[i].sa] = TRUE]
            /\ UNCHANGED <<pending, assembly, writing, reply, issued, quiet, last>>
    BY DEF ReplyLost
  <1>2. \A u \in Units : ~disturbed'[u] => ~disturbed[u] /\ u # radio[i].sa
    BY <1>1 DEF TrackerTypes, TrackerTypeOK
  <1>3. /\ Queues' /\ radio' \in Seq(Query) /\ ToSet(radio') \subseteq Query
        /\ \A j \in DOMAIN radio' : radio'[j].sa \in Units
        /\ \A q \in Query : InFlight(q)' <=> InFlight(q) /\ q # radio[i]
        /\ SentInOrder'
    BY <1>1, <1>2, RemovalKeeps DEF Matching
  <1>4. TrackerTypes'
    <2>1. disturbed' \in [Units -> BOOLEAN]
      BY <1>1 DEF TrackerTypes, TrackerTypeOK
    <2>2. QED
      BY <1>1, <1>3, <2>1 DEF TrackerTypes, TrackerTypeOK
  <1>5. \A u \in Units, q \in Query : ~disturbed'[u] => (Young(q, u)' <=> Young(q, u))
    BY <1>1, <1>2, <1>3 DEF Young
  <1>6. EachAwaited' /\ NoneInvented'
    BY <1>1, <1>2, <1>5 DEF EachAwaited, NoneInvented, Matching, EntryOf
  <1>7. Replies'
    BY <1>1 DEF Replies, ReplyKept, Attributed, Whole
  <1>8. QED
    BY <1>3, <1>4, <1>6, <1>7 DEF Matching

(* The oldest entry is the one of the query an undisturbed unit answers.   *)
LEMMA OldestMatches ==
    ASSUME TrackerInv, NEW i \in DOMAIN radio, Oldest(i), Young(radio[i], radio[i].sa), ~disturbed[radio[i].sa]
    PROVE  /\ Unexpired(pending[radio[i].sa]) # {}
           /\ OldestFor(Unexpired(pending[radio[i].sa])) = EntryOf(radio[i])
  <1> USE TrackerBounds DEF TrackerInv
  <1> DEFINE q == radio[i]
             kept == Unexpired(pending[q.sa])
  <1>0. Typed /\ q \in Query /\ q.sa \in Units
    BY TypesUnfold DEF Typed
  <1>1. EntryOf(q) \in kept
    <2>1. EntryOf(q) \in pending[q.sa]
      BY <1>0 DEF EachAwaited, Matching
    <2>2. EntryOf(q).left > 0
      BY <1>0, Fields DEF Young
    <2>3. QED
      BY <2>1, <2>2 DEF Unexpired
  <1>2. ASSUME NEW e \in kept PROVE e.id >= q.id /\ (e.id = q.id => e = EntryOf(q))
    <2>1. PICK p \in Query : Young(p, q.sa) /\ EntryOf(p) = e
      BY <1>0 DEF NoneInvented, Matching, Unexpired
    <2>2. e.id = p.id
      BY <2>1, Fields
    <2>3. p.id = q.id => p = q
      BY <1>0, <2>1 DEF IdsApart, Queues, Young
    <2>4. p.id >= q.id
      <3>1. CASE \E j \in DOMAIN radio : radio[j] = p
        <4>1. PICK j \in DOMAIN radio : radio[j] = p
          BY <3>1
        <4>2. i <= j
          BY <2>1, <4>1 DEF Oldest, Young
        <4>3. CASE i = j
          BY <1>0, <4>1, <4>3, Fields
        <4>4. CASE i < j
          BY <1>0, <2>1, <4>1, <4>4, Fields DEF SentInOrder, Matching
        <4>5. QED
          BY <1>0, <4>2, <4>3, <4>4 DEF Typed
      <3>2. CASE \E w \in Writers : writing[w] = p
        BY <1>0, <2>1, <3>2, Fields DEF SentInOrder, Matching, Young
      <3>3. QED
        BY <2>1, <3>1, <3>2 DEF Young, InFlight
    <2>5. QED
      BY <2>1, <2>2, <2>3, <2>4
  <1> HIDE DEF q, kept
  <1>3. EntryOf(q).id = q.id /\ q.id \in Nat /\ \A e \in kept : e.id \in Nat
    BY <1>0, Fields DEF Typed, kept, Unexpired
  <1>4. \E e \in kept : \A g \in kept : e.id <= g.id
    BY <1>1, <1>2, <1>3
  <1>5. OldestFor(kept) \in kept /\ \A g \in kept : OldestFor(kept).id <= g.id
    BY <1>4 DEF OldestFor
  <1>6. OldestFor(kept) = EntryOf(q)
    BY <1>1, <1>2, <1>3, <1>5
  <1>7. QED
    BY <1>1, <1>6 DEF q, kept

(* The first chunk of a reply.                                             *)
LEMMA StartStep ==
    ASSUME TrackerInv, StartReassembly
    PROVE  TrackerInv'
  <1> USE TrackerBounds DEF TrackerInv
  <1>0. Typed
    BY TypesUnfold
  <1> DEFINE Kept(i) == Unexpired(pending[radio[i].sa])
             R(i, n) == [mine |-> radio[i].mine, dropped |-> Match(Kept(i)),
                         excused |-> disturbed[radio[i].sa] \/ radio[i].age >= ResponseTTL,
                         intact |-> TRUE, parts |-> n, next |-> 1, since |-> 0]
  <1>1. PICK i \in DOMAIN radio, parts \in 1 .. MaxParts :
            /\ Oldest(i) /\ reply = Nothing /\ radio' = RemoveAt(radio, i) /\ Onward(R(i, parts))
            /\ pending' = [pending EXCEPT ![radio[i].sa] = {e \in Kept(i) : e # OldestFor(Kept(i))}]
            /\ assembly' = IF parts = 1 THEN Nothing ELSE [mine |-> Match(Kept(i)), left |-> DroppingTimeout + 1]
            /\ Note(R(i, parts), Match(Kept(i)), parts = 1)
            /\ disturbed' = [disturbed EXCEPT ![radio[i].sa] = @ \/ radio[i].age >= ResponseTTL]
            /\ UNCHANGED <<writing, issued, quiet>>
    BY DEF StartReassembly
  <1> DEFINE q == radio[i]
             kept == Kept(i)
             r == R(i, parts)
  <1>2. /\ Oldest(i) /\ reply = Nothing /\ radio' = RemoveAt(radio, i) /\ Onward(r)
        /\ pending' = [pending EXCEPT ![q.sa] = {e \in kept : e # OldestFor(kept)}]
        /\ assembly' = IF parts = 1 THEN Nothing ELSE [mine |-> Match(kept), left |-> DroppingTimeout + 1]
        /\ Note(r, Match(kept), parts = 1)
        /\ disturbed' = [disturbed EXCEPT ![q.sa] = @ \/ q.age >= ResponseTTL]
        /\ UNCHANGED <<writing, issued, quiet>>
    BY <1>1
  <1>3. /\ q \in Query /\ q.sa \in Units /\ InFlight(q) /\ kept \subseteq pending[q.sa]
        /\ q.mine \in BOOLEAN /\ q.age \in Nat /\ Match(kept) \in BOOLEAN /\ disturbed[q.sa] \in BOOLEAN
    <2>1. q \in Query /\ q.sa \in Units /\ InFlight(q) /\ kept \subseteq pending[q.sa]
      BY <1>0 DEF Typed, Unexpired
    <2>2. Match(kept) \in BOOLEAN
      BY DEF Match
    <2>3. QED
      BY <2>1, <2>2, Fields DEF TrackerTypes, TrackerTypeOK
  <1>4. ~disturbed[q.sa] /\ q.age < ResponseTTL => kept # {} /\ OldestFor(kept) = EntryOf(q) /\ Match(kept) = q.mine
    <2> SUFFICES ASSUME ~disturbed[q.sa], q.age < ResponseTTL
                 PROVE  kept # {} /\ OldestFor(kept) = EntryOf(q) /\ Match(kept) = q.mine
      OBVIOUS
    <2>1. Young(q, q.sa)
      BY <1>3 DEF Young
    <2>2. kept # {} /\ OldestFor(kept) = EntryOf(q)
      BY <1>2, <2>1, OldestMatches
    <2>3. QED
      BY <1>3, <2>2, Fields DEF Match
  <1> HIDE DEF q, kept, Kept
  <1>5. \A u \in Units : ~disturbed'[u] => ~disturbed[u] /\ (u = q.sa => q.age < ResponseTTL)
    <2>1. \A u \in Units : disturbed'[u] = IF u = q.sa THEN disturbed[u] \/ q.age >= ResponseTTL ELSE disturbed[u]
      BY <1>2, <1>3 DEF TrackerTypes, TrackerTypeOK
    <2>2. q.age >= ResponseTTL <=> ~(q.age < ResponseTTL)
      BY <1>3
    <2>3. QED
      BY ONLY <2>1, <2>2, Zenon
  <1>6. \A u \in Units : pending'[u] = IF u = q.sa THEN {e \in kept : e # OldestFor(kept)} ELSE pending[u]
    BY <1>2, <1>3 DEF TrackerTypes, TrackerTypeOK
  <1>7. /\ Queues' /\ radio' \in Seq(Query) /\ ToSet(radio') \subseteq Query
        /\ \A j \in DOMAIN radio' : radio'[j].sa \in Units
        /\ \A p \in Query : InFlight(p)' <=> InFlight(p) /\ p # q
        /\ SentInOrder'
    <2>1. \A u \in Units : pending'[u] \subseteq pending[u]
      BY <1>3, <1>6
    <2>2. QED
      BY <1>2, <1>5, <2>1, RemovalKeeps DEF Matching, q
  <1>8. r \in Reply /\ r.mine = q.mine /\ r.dropped = Match(kept) /\ r.intact = TRUE
        /\ r.excused = (disturbed[q.sa] \/ q.age >= ResponseTTL) /\ r.next = 1 /\ r.parts = parts /\ r.since = 0
    <2>1. kept = Kept(i)
      BY DEF kept
    <2>2. QED
      BY <1>3, <2>1 DEF Reply, q
  <1> HIDE DEF r, R
  <1>9. /\ reply' = IF parts = 1 THEN Nothing ELSE [r EXCEPT !.next = 2]
        /\ last' = [mine |-> q.mine, dropped |-> Match(kept), excused |-> r.excused, intact |-> TRUE,
                    split |-> Match(kept) # r.dropped, ends |-> parts = 1, handed |-> parts = 1]
    <2>1. 1 + 1 = 2 /\ (1 = parts <=> parts = 1)
      OBVIOUS
    <2>2. reply' = IF parts = 1 THEN Nothing ELSE [r EXCEPT !.next = 2]
      BY <1>2, <1>8, <2>1 DEF Onward, Reply
    <2>3. last' = [mine |-> r.mine, dropped |-> Match(kept), excused |-> r.excused, intact |-> r.intact,
                   split |-> Match(kept) # r.dropped, ends |-> r.next = r.parts, handed |-> parts = 1]
      BY <1>2 DEF Note
    <2>4. r.mine = q.mine /\ r.intact = TRUE /\ (r.next = r.parts) = (parts = 1)
      BY <1>8
    <2>5. QED
      BY <2>2, <2>3, <2>4
  <1>10. TrackerTypes'
    <2>1. disturbed' \in [Units -> BOOLEAN]
      BY <1>2, <1>3 DEF TrackerTypes, TrackerTypeOK
    <2>2. pending' \in [Units -> SUBSET Pending]
      BY <1>2, <1>3 DEF TrackerTypes, TrackerTypeOK
    <2>3. assembly' \in Reassembly \cup {Nothing}
      BY <1>2, <1>3 DEF Reassembly
    <2>4. reply' \in Reply \cup {Nothing}
      BY <1>8, <1>9 DEF Reply
    <2>5. last' \in Fate \cup {Nothing}
      BY <1>3, <1>8, <1>9 DEF Fate, Reply
    <2>6. reply' # Nothing => reply'.next <= reply'.parts
      BY <1>8, <1>9 DEF Reply
    <2>7. QED
      BY <1>2, <1>7, <2>1, <2>2, <2>3, <2>4, <2>5, <2>6 DEF TrackerTypes, TrackerTypeOK
  <1>11. \A u \in Units, p \in Query : Young(p, u)' <=> Young(p, u) /\ p # q
    BY <1>7 DEF Young
  <1>12. EachAwaited'
    <2> SUFFICES ASSUME NEW u \in Units, ~disturbed'[u], NEW p \in Query, Young(p, u), p # q
                 PROVE  EntryOf(p) \in pending'[u]
      BY <1>11 DEF EachAwaited, EntryOf
    <2>1. EntryOf(p) \in pending[u]
      BY <1>5 DEF EachAwaited, Matching
    <2>2. EntryOf(p).left > 0 /\ EntryOf(p).id = p.id /\ EntryOf(q).id = q.id /\ p.id # q.id
      BY <1>3, Fields DEF Young, IdsApart, Queues
    <2>3. QED
      BY <1>4, <1>5, <1>6, <2>1, <2>2 DEF kept, Kept, q, Unexpired
  <1>13. NoneInvented'
    <2> SUFFICES ASSUME NEW u \in Units, ~disturbed'[u], NEW e \in pending'[u], e.left > 0
                 PROVE  \E p \in Query : Young(p, u) /\ p # q /\ EntryOf(p) = e
      BY <1>11 DEF NoneInvented, EntryOf
    <2>1. e \in pending[u] /\ (u = q.sa => e # OldestFor(kept))
      BY <1>3, <1>6
    <2>2. PICK p \in Query : Young(p, u) /\ EntryOf(p) = e
      BY <1>5, <2>1 DEF NoneInvented, Matching
    <2>3. p # q
      BY <1>4, <1>5, <2>1, <2>2 DEF Young
    <2>4. QED
      BY <2>2, <2>3
  <1>14. ReplyKept'
    <2>1. CASE parts = 1
      BY <1>9, <2>1 DEF ReplyKept
    <2>2. CASE parts # 1
      <3>1. reply' \in Reply /\ reply'.mine = q.mine /\ reply'.dropped = Match(kept) /\ reply'.since = 0
            /\ reply'.excused = r.excused
        BY <1>8, <1>9, <2>2 DEF Reply
      <3>2. assembly' \in Reassembly /\ assembly'.mine = Match(kept) /\ assembly'.left = DroppingTimeout + 1
        BY <1>2, <1>3, <2>2 DEF Reassembly
      <3>3. Match(kept) = q.mine \/ r.excused
        BY <1>3, <1>4, <1>8
      <3>4. QED
        BY <3>1, <3>2, <3>3 DEF ReplyKept
    <2>3. QED
      BY <2>1, <2>2
  <1>15. Attributed' /\ Whole'
    <2>1. Match(kept) = q.mine \/ r.excused
      BY <1>3, <1>4, <1>8
    <2>2. last'.mine = q.mine /\ last'.dropped = Match(kept) /\ last'.excused = r.excused /\ last'.split = FALSE
          /\ last'.ends = last'.handed
      BY <1>8, <1>9
    <2>3. QED
      BY <2>1, <2>2 DEF Attributed, Whole
  <1>16. QED
    BY <1>7, <1>10, <1>12, <1>13, <1>14, <1>15 DEF Matching, Replies

(* The steps of a reassembly leave the queues alone.                       *)
LEMMA QueuesStay ==
    ASSUME TrackerInv, UNCHANGED <<pending, writing, radio, issued, quiet, disturbed>>
    PROVE  /\ Queues' /\ Matching'
           /\ (/\ assembly' \in Reassembly \cup {Nothing} /\ reply' \in Reply \cup {Nothing}
               /\ last' \in Fate \cup {Nothing} /\ (reply' # Nothing => reply'.next <= reply'.parts)) => TrackerTypes'
  <1>1. \A q \in Query : InFlight(q)' <=> InFlight(q)
    BY DEF InFlight
  <1>2. \A q \in Query, u \in Units : Young(q, u)' <=> Young(q, u)
    BY <1>1 DEF Young
  <1>3. Queues'
    BY <1>1 DEF TrackerInv, Queues, IdsApart, OlderFirst, QuietFor, OursInOrder
  <1>4. EachAwaited' /\ NoneInvented'
    BY <1>2 DEF TrackerInv, Matching, EachAwaited, NoneInvented, EntryOf
  <1>5. SentInOrder'
    BY <1>2, TypesUnfold DEF TrackerInv, Matching, SentInOrder, Typed
  <1>6. QED
    BY <1>3, <1>4, <1>5 DEF Matching, TrackerInv, TrackerTypes, TrackerTypeOK

(* What comes after a chunk.                                               *)
LEMMA OnwardKeeps ==
    ASSUME NEW r \in Reply, r.next <= r.parts, Onward(r)
    PROVE  /\ reply' \in Reply \cup {Nothing} /\ (reply' # Nothing => reply'.next <= reply'.parts)
           /\ reply' # Nothing => /\ reply'.intact = r.intact /\ reply'.since = r.since /\ reply'.mine = r.mine
                                  /\ reply'.dropped = r.dropped /\ reply'.excused = r.excused /\ r.next # r.parts
  <1> USE TrackerBounds
  <1>1. CASE r.next = r.parts
    BY <1>1 DEF Onward
  <1>2. CASE r.next # r.parts
    <2>1. r.next + 1 \in 1 .. MaxParts /\ r.next + 1 <= r.parts
      BY <1>2 DEF Reply
    <2>2. reply' = [r EXCEPT !.next = r.next + 1]
      BY <1>2 DEF Onward
    <2>3. QED
      BY <1>2, <2>1, <2>2 DEF Reply
  <1>3. QED
    BY <1>1, <1>2

LEMMA ContinueStep ==
    ASSUME TrackerInv, Continue
    PROVE  TrackerInv'
  <1> USE TrackerBounds DEF TrackerInv
  <1> DEFINE dropped == assembly # Nothing /\ assembly.mine
             ends == reply.next = reply.parts
             handed == ends /\ assembly # Nothing /\ ~Wedged
  <1>1. /\ reply # Nothing /\ Onward(reply) /\ Note(reply, dropped, handed)
        /\ assembly' = IF ends \/ Wedged THEN Nothing ELSE assembly
        /\ UNCHANGED <<pending, writing, radio, issued, quiet, disturbed>>
    BY DEF Continue
  <1>2. reply \in Reply /\ reply.next <= reply.parts /\ assembly \in Reassembly \cup {Nothing}
    BY <1>1 DEF TrackerTypes, TrackerTypeOK
  <1>3. dropped \in BOOLEAN /\ handed \in BOOLEAN /\ ends \in BOOLEAN
    OBVIOUS
  <1>4. reply.intact => /\ assembly # Nothing /\ ~Wedged /\ dropped = reply.dropped /\ (ends => handed)
                        /\ assembly.mine = reply.dropped /\ assembly.left + reply.since = DroppingTimeout + 1
                        /\ reply.since <= DroppingTimeout /\ (reply.dropped = reply.mine \/ reply.excused)
    <2> SUFFICES ASSUME reply.intact
                 PROVE  /\ assembly # Nothing /\ ~Wedged /\ dropped = reply.dropped /\ (ends => handed)
                        /\ assembly.mine = reply.dropped /\ assembly.left + reply.since = DroppingTimeout + 1
                        /\ reply.since <= DroppingTimeout /\ (reply.dropped = reply.mine \/ reply.excused)
      OBVIOUS
    <2>1. /\ assembly # Nothing /\ assembly.mine = reply.dropped
          /\ assembly.left + reply.since = DroppingTimeout + 1 /\ reply.since <= DroppingTimeout
          /\ (reply.dropped = reply.mine \/ reply.excused)
      BY <1>1 DEF Replies, ReplyKept
    <2>2. assembly.left # 0 /\ reply.dropped \in BOOLEAN
      BY <1>2, <2>1 DEF Reply, Reassembly
    <2>3. QED
      BY <2>1, <2>2 DEF Wedged
  <1>5. last' = [mine |-> reply.mine, dropped |-> dropped, excused |-> reply.excused, intact |-> reply.intact,
                 split |-> dropped # reply.dropped, ends |-> ends, handed |-> handed]
    BY <1>1 DEF Note
  <1> HIDE DEF dropped, handed
  <1>6. last' \in Fate /\ last'.mine = reply.mine /\ last'.dropped = dropped /\ last'.excused = reply.excused
        /\ last'.intact = reply.intact /\ last'.split = (dropped # reply.dropped) /\ last'.ends = ends
        /\ last'.handed = handed
    BY <1>2, <1>3, <1>5 DEF Fate, Reply
  <1>7. /\ reply' \in Reply \cup {Nothing} /\ (reply' # Nothing => reply'.next <= reply'.parts)
        /\ reply' # Nothing => /\ reply'.intact = reply.intact /\ reply'.since = reply.since /\ reply'.mine = reply.mine
                               /\ reply'.dropped = reply.dropped /\ reply'.excused = reply.excused /\ ~ends
    BY <1>1, <1>2, OnwardKeeps
  <1>8. TrackerTypes' /\ Queues' /\ Matching'
    BY <1>1, <1>2, <1>6, <1>7, QueuesStay
  <1>9. Attributed' /\ Whole'
    BY <1>4, <1>6 DEF Attributed, Whole
  <1>10. ReplyKept'
    BY <1>1, <1>4, <1>7 DEF ReplyKept
  <1>11. QED
    BY <1>8, <1>9, <1>10 DEF Replies

(* A stray chunk is glued to the reply, or a chunk is lost.                *)
LEMMA StrayStep ==
    ASSUME TrackerInv, Stray \/ ChunkLost
    PROVE  TrackerInv'
  <1> USE TrackerBounds DEF TrackerInv
  <1>1. UNCHANGED <<pending, writing, radio, issued, quiet, disturbed, last>> /\ assembly' \in {assembly, Nothing}
    BY DEF Stray, ChunkLost
  <1>2. reply' \in Reply \cup {Nothing} /\ (reply' # Nothing => reply'.next <= reply'.parts)
        /\ (reply' # Nothing => ~reply'.intact)
    <2>1. reply # Nothing => /\ [reply EXCEPT !.intact = FALSE] \in Reply /\ reply \in Reply
                             /\ [reply EXCEPT !.intact = FALSE].intact = FALSE
                             /\ [reply EXCEPT !.intact = FALSE].next <= [reply EXCEPT !.intact = FALSE].parts
      BY DEF TrackerTypes, Reply
    <2>2. CASE Stray
      BY <2>1, <2>2 DEF Stray
    <2>3. CASE ChunkLost
      BY <2>1, <2>3, OnwardKeeps DEF ChunkLost
    <2>4. QED
      BY <2>2, <2>3
  <1>3. assembly' \in Reassembly \cup {Nothing} /\ last' \in Fate \cup {Nothing}
    BY <1>1 DEF TrackerTypes, TrackerTypeOK
  <1>4. TrackerTypes' /\ Queues' /\ Matching'
    BY <1>1, <1>2, <1>3, QueuesStay
  <1>5. Replies'
    BY <1>1, <1>2 DEF Replies, ReplyKept, Attributed, Whole
  <1>6. QED
    BY <1>4, <1>5

(* Time passes.                                                            *)
LEMMA AgedFields ==
    ASSUME NEW q \in Query
    PROVE  /\ Aged(q) \in Query /\ Aged(q).id = q.id /\ Aged(q).sa = q.sa /\ Aged(q).mine = q.mine
           /\ Aged(q).age = IF q.age < ResponseTTL THEN q.age + 1 ELSE q.age
  BY TrackerBounds DEF Aged, Query

LEMMA LessFields ==
    ASSUME NEW e \in Pending
    PROVE  /\ [e EXCEPT !.left = Less(@)] \in Pending /\ [e EXCEPT !.left = Less(@)].id = e.id
           /\ [e EXCEPT !.left = Less(@)].mine = e.mine
           /\ [e EXCEPT !.left = Less(@)].left = IF e.left = 0 THEN 0 ELSE e.left - 1
  BY TrackerBounds DEF Less, Pending

LEMMA PassStep ==
    ASSUME TrackerInv, Pass
    PROVE  TrackerInv'
  <1> USE TrackerBounds DEF TrackerInv
  <1> DEFINE Spent(e) == [e EXCEPT !.left = Less(@)]
  <1>0. Typed
    BY TypesUnfold
  <1>1. /\ \A u \in Units : pending'[u] = {Spent(e) : e \in pending[u]}
        /\ pending' = [u \in Units |-> {Spent(e) : e \in pending[u]}]
        /\ \A w \in Writers : writing'[w] = IF writing[w] = Nothing THEN Nothing ELSE Aged(writing[w])
        /\ writing' = [w \in Writers |-> IF writing[w] = Nothing THEN Nothing ELSE Aged(writing[w])]
        /\ radio' = [i \in DOMAIN radio |-> Aged(radio[i])]
        /\ \A u \in Units : quiet'[u] = IF quiet[u] < ResponseTTL THEN quiet[u] + 1 ELSE quiet[u]
        /\ \A u \in Units : disturbed'[u] = (disturbed[u] /\ quiet'[u] < ResponseTTL)
        /\ UNCHANGED <<issued, last>>
    BY DEF Pass
  <1>2. /\ \A e \in Pending : /\ Spent(e) \in Pending /\ Spent(e).id = e.id /\ Spent(e).mine = e.mine
                              /\ Spent(e).left = IF e.left = 0 THEN 0 ELSE e.left - 1
    BY LessFields
  <1> HIDE DEF Spent
  <1> DEFINE waited == IF reply.since <= DroppingTimeout THEN reply.since + 1 ELSE reply.since
             whole == reply.intact /\ reply.since < DroppingTimeout
  <1>2a. reply # Nothing =>
           /\ reply \in Reply /\ reply' \in Reply /\ reply'.since = waited /\ reply'.intact = whole
           /\ reply'.mine = reply.mine /\ reply'.dropped = reply.dropped /\ reply'.excused = reply.excused
           /\ reply'.next = reply.next /\ reply'.parts = reply.parts
    <2> SUFFICES ASSUME reply # Nothing
                 PROVE  /\ reply \in Reply /\ reply' \in Reply /\ reply'.since = waited /\ reply'.intact = whole
                        /\ reply'.mine = reply.mine /\ reply'.dropped = reply.dropped /\ reply'.excused = reply.excused
                        /\ reply'.next = reply.next /\ reply'.parts = reply.parts
      OBVIOUS
    <2>1. reply \in Reply /\ reply' = [reply EXCEPT !.since = waited, !.intact = whole]
      BY DEF Pass, TrackerTypes
    <2>2. waited \in 0 .. DroppingTimeout + 1 /\ whole \in BOOLEAN
      BY <2>1 DEF Reply
    <2> HIDE DEF waited, whole
    <2>3. QED
      BY ONLY <2>1, <2>2 DEF Reply
  <1>3. /\ radio' \in Seq(Query) /\ DOMAIN radio' = DOMAIN radio /\ Len(radio') = Len(radio)
        /\ \A i \in DOMAIN radio : radio'[i] = Aged(radio[i])
    BY <1>0, <1>1, AgedFields DEF Typed, TrackerTypes
  <1>4. /\ \A q \in Query : InFlight(q) => InFlight(Aged(q))'
        /\ \A p \in Query : InFlight(p)' => \E q \in Query : InFlight(q) /\ p = Aged(q)
    <2>1. ASSUME NEW q \in Query, InFlight(q) PROVE InFlight(Aged(q))'
      BY <1>1, <1>3, <2>1 DEF InFlight
    <2>2. ASSUME NEW p \in Query, InFlight(p)' PROVE \E q \in Query : InFlight(q) /\ p = Aged(q)
      BY <1>0, <1>1, <1>3, <2>2 DEF InFlight, Typed
    <2>3. QED
      BY <2>1, <2>2
  <1>5. TrackerTypes'
    <2>1. pending' \in [Units -> SUBSET Pending]
      BY <1>0, <1>1, <1>2 DEF Typed
    <2>2. writing' \in [Writers -> Query \cup {Nothing}]
      BY <1>0, <1>1, AgedFields DEF Typed
    <2>3. ToSet(radio') \subseteq Query /\ \A i \in DOMAIN radio' : radio'[i].sa \in Units
      BY <1>0, <1>3, AgedFields DEF ToSet, Typed
    <2>4. quiet' \in [Units -> 0 .. ResponseTTL] /\ disturbed' \in [Units -> BOOLEAN]
      BY DEF Pass, TrackerTypes, TrackerTypeOK
    <2>5. assembly' \in Reassembly \cup {Nothing}
      BY DEF Pass, TrackerTypes, TrackerTypeOK, Reassembly, Less
    <2>6. reply' \in Reply \cup {Nothing} /\ (reply' # Nothing => reply'.next <= reply'.parts)
      BY <1>2a DEF Pass, TrackerTypes
    <2>7. issued' \in 0 .. MaxQueries /\ last' \in Fate \cup {Nothing}
      BY <1>1 DEF TrackerTypes, TrackerTypeOK
    <2>8. TrackerTypeOK'
      BY ONLY <2>1, <2>2, <2>3, <2>4, <2>5, <2>7 DEF TrackerTypeOK
    <2>9. QED
      BY ONLY <1>3, <2>3, <2>6, <2>8 DEF TrackerTypes

  <1>6. \A u \in Units : \A e \in pending'[u] : \E g \in pending[u] : e = Spent(g) /\ g \in Pending
    BY <1>0, <1>1 DEF Typed
  <1>7. IdsApart'
    <2>1. /\ \A q \in Query : InFlight(q)' => q.id <= issued'
          /\ \A q, r \in Query : InFlight(q)' /\ InFlight(r)' /\ q.id = r.id => q = r
      BY <1>1, <1>4, AgedFields DEF IdsApart, Queues
    <2>2. \A u \in Units : \A e \in pending'[u] : e.id <= issued'
      BY <1>0, <1>1, <1>2, <1>6 DEF IdsApart, Queues, Typed
    <2>3. \A q, r \in Query : InFlight(q) /\ InFlight(r) /\ Aged(q) = Aged(r) => q = r
      BY AgedFields DEF IdsApart, Queues
    <2>4. \A i, j \in DOMAIN radio' : radio'[i] = radio'[j] => i = j
      BY <1>0, <1>3, <2>3 DEF IdsApart, Queues, Typed
    <2>5. \A i \in DOMAIN radio', w \in Writers : writing'[w] # radio'[i]
      BY <1>0, <1>1, <1>3, <2>3, AgedFields DEF IdsApart, Queues, Typed
    <2>6. writing'["host"] # Nothing => writing'["host"] # writing'["bus"]
      BY <1>0, <1>1, <2>3, AgedFields DEF IdsApart, Queues, Typed
    <2>7. QED
      BY <2>1, <2>2, <2>4, <2>5, <2>6 DEF IdsApart
  <1>8. OlderFirst'
    BY <1>4, AgedFields, Fields DEF OlderFirst, Queues
  <1>9. QuietFor'
    <2>1. \A q \in Query : InFlight(q)' /\ q.sa \in Units => quiet'[q.sa] <= q.age
      <3> TAKE p \in Query
      <3> HAVE InFlight(p)' /\ p.sa \in Units
      <3>1. PICK q \in Query : InFlight(q) /\ p = Aged(q)
        BY <1>4
      <3>2. p.sa = q.sa /\ p.age = IF q.age < ResponseTTL THEN q.age + 1 ELSE q.age
        BY <3>1, AgedFields
      <3>3. quiet[q.sa] <= q.age
        BY <3>1, <3>2 DEF QuietFor, Queues
      <3>4. quiet[q.sa] \in 0 .. ResponseTTL
        BY <1>0, <3>2 DEF Typed
      <3>5. quiet'[p.sa] = IF quiet[q.sa] < ResponseTTL THEN quiet[q.sa] + 1 ELSE quiet[q.sa]
        BY <1>1, <3>2
      <3>6. QED
        BY <3>2, <3>3, <3>4, <3>5, Fields
    <2>2. ASSUME NEW u \in Units, NEW e \in pending'[u] PROVE e.left + quiet'[u] <= ResponseTTL
      <3>1. PICK g \in pending[u] : e = Spent(g) /\ g \in Pending
        BY <1>6, <2>2
      <3>2. g.left + quiet[u] <= ResponseTTL /\ quiet[u] \in 0 .. ResponseTTL
        BY <1>0, <3>1 DEF QuietFor, Queues, Typed
      <3>3. QED
        BY <1>1, <1>2, <3>1, <3>2, Fields
    <2>3. QED
      BY <2>1, <2>2 DEF QuietFor
  <1>10. OursInOrder'
    <2>1. \A w \in Writers : writing'[w] # Nothing => writing[w] # Nothing /\ writing[w] \in Query
                                                      /\ writing'[w] = Aged(writing[w])
      BY <1>0, <1>1 DEF Typed
    <2>2. \A w \in Writers : writing'[w] # Nothing => writing'[w].mine = (w = "bus")
      BY <2>1, AgedFields DEF OursInOrder, Queues
    <2>3. ASSUME writing'["bus"] # Nothing, NEW u \in Units, NEW e \in pending'[u], e.mine
          PROVE  e.id <= writing'["bus"].id
      BY <1>2, <1>6, <2>1, <2>3, AgedFields DEF OursInOrder, Queues
    <2>4. QED
      BY <2>2, <2>3 DEF OursInOrder
  <1>11. ASSUME NEW u \in Units, NEW p \in Query, Young(p, u)'
         PROVE  ~(quiet'[u] >= ResponseTTL) /\ \E q \in Query : Young(q, u) /\ p = Aged(q) /\ p.age = q.age + 1
    <2>1. PICK q \in Query : InFlight(q) /\ p = Aged(q)
      BY <1>4, <1>11 DEF Young
    <2>2. Young(q, u) /\ p.age = q.age + 1
      BY <1>11, <2>1, AgedFields, Fields DEF Young
    <2>3. ~(quiet'[u] >= ResponseTTL)
      <3>1. p.sa = u /\ p.age < ResponseTTL /\ InFlight(p)'
        BY <1>11 DEF Young
      <3>2. quiet'[u] <= p.age
        BY <1>9, <3>1 DEF QuietFor
      <3>3. quiet'[u] \in Nat
        BY <1>0, <1>1 DEF Typed
      <3>4. QED
        BY <3>1, <3>2, <3>3, Fields
    <2>4. QED
      BY <2>1, <2>2, <2>3
  <1>12. \A u \in Units : ~disturbed'[u] => ~disturbed[u] \/ quiet'[u] >= ResponseTTL
    <2>1. \A u \in Units : quiet'[u] < ResponseTTL \/ quiet'[u] >= ResponseTTL
      BY <1>0, <1>1 DEF Typed
    <2>2. QED
      BY <1>1, <2>1
  <1>13. EachAwaited'
    <2> SUFFICES ASSUME NEW u \in Units, ~disturbed'[u], NEW p \in Query, Young(p, u)'
                 PROVE  EntryOf(p) \in pending'[u]
      BY DEF EachAwaited, EntryOf
    <2>1. PICK q \in Query : Young(q, u) /\ p = Aged(q) /\ p.age = q.age + 1
      BY <1>11
    <2>2. EntryOf(q) \in pending[u]
      BY <1>11, <1>12, <2>1 DEF EachAwaited, Matching
    <2>3. EntryOf(p) = Spent(EntryOf(q))
      <3>1. p.id = q.id /\ p.mine = q.mine /\ q.age < ResponseTTL
        BY <2>1, AgedFields DEF Young
      <3>2. EntryOf(q) = [id |-> q.id, mine |-> q.mine, left |-> ResponseTTL - q.age]
            /\ EntryOf(p) = [id |-> q.id, mine |-> q.mine, left |-> (ResponseTTL - q.age) - 1]
        BY <2>1, <3>1, Fields DEF EntryOf
      <3>3. Less(ResponseTTL - q.age) = (ResponseTTL - q.age) - 1
        BY <2>1, <3>1, Fields DEF Less
      <3>4. QED
        BY <3>2, <3>3 DEF Spent
    <2>4. QED
      BY <1>1, <2>2, <2>3
  <1>14. NoneInvented'
    <2> SUFFICES ASSUME NEW u \in Units, ~disturbed'[u], NEW e \in pending'[u], e.left > 0
                 PROVE  \E p \in Query : Young(p, u)' /\ EntryOf(p) = e
      BY DEF NoneInvented, EntryOf
    <2>1. PICK g \in pending[u] : e = Spent(g) /\ g \in Pending
      BY <1>6
    <2>2. g.left > 1 /\ e.left = g.left - 1 /\ e.id = g.id /\ e.mine = g.mine /\ e \in Pending
      BY <1>2, <2>1, Fields
    <2>3. e.left + quiet'[u] <= ResponseTTL /\ quiet'[u] \in Nat
      BY SMTT(40), <1>0, <1>1, <1>9 DEF QuietFor, Typed
    <2>4. ~disturbed[u]
      BY <1>12, <2>2, <2>3, Fields
    <2>5. PICK q \in Query : Young(q, u) /\ EntryOf(q) = g
      <3>1. g.left > 0
        BY <2>1, <2>2, Fields
      <3>2. QED
        BY <2>4, <3>1 DEF NoneInvented, Matching
    <2>6. q.age + 1 < ResponseTTL
      BY <2>2, <2>5, Fields
    <2>7. Young(Aged(q), u)'
      BY <1>4, <2>5, <2>6, AgedFields DEF Young
    <2>8. EntryOf(Aged(q)) = e
      <3>1. EntryOf(Aged(q)) = [id |-> q.id, mine |-> q.mine, left |-> ResponseTTL - (q.age + 1)]
        BY <2>6, AgedFields, Fields DEF EntryOf
      <3>2. e.left = ResponseTTL - (q.age + 1) /\ e.id = q.id /\ e.mine = q.mine
        BY <2>2, <2>5, Fields
      <3>3. QED
        BY <2>2, <3>1, <3>2 DEF Pending
    <2>9. QED
      BY <2>7, <2>8, AgedFields
  <1>15. SentInOrder'
    <2> SUFFICES ASSUME NEW u \in Units, ~disturbed'[u], NEW i \in DOMAIN radio, Young(radio[i], u)'
                 PROVE  /\ \A j \in DOMAIN radio : i < j /\ Young(radio[j], u)' => radio'[i].id < radio'[j].id
                        /\ \A w \in Writers : writing'[w] # Nothing /\ writing'[w].sa = u
                                                  => radio'[i].id < writing'[w].id
      BY <1>3 DEF SentInOrder
    <2>1. \A j \in DOMAIN radio : Young(radio[j], u)' => Young(radio[j], u) /\ ~(quiet'[u] >= ResponseTTL)
      <3> TAKE j \in DOMAIN radio
      <3> HAVE Young(radio[j], u)'
      <3>1. radio[j] \in Query /\ InFlight(radio[j]) /\ radio'[j] = Aged(radio[j])
        BY <1>0, <1>3 DEF Typed
      <3>2. radio'[j].sa = u /\ radio'[j].age < ResponseTTL /\ radio'[j] \in Query /\ InFlight(radio[j])'
        BY DEF Young
      <3>3. Young(radio[j], u)
        BY <3>1, <3>2, AgedFields, Fields DEF Young
      <3>4. quiet'[u] <= radio'[j].age
        BY <1>9, <3>2 DEF QuietFor
      <3>5. QED
        BY SMTT(40), <1>0, <1>1, <3>2, <3>3, <3>4, Fields DEF Typed
    <2>2. ~disturbed[u]
      BY <1>12, <2>1
    <2>3. \A j \in DOMAIN radio : radio[j] \in Query /\ radio'[j].id = radio[j].id
      BY <1>0, <1>3, AgedFields DEF Typed
    <2>4. \A w \in Writers : writing'[w] # Nothing =>
             writing[w] # Nothing /\ writing'[w].id = writing[w].id /\ writing'[w].sa = writing[w].sa
      BY <1>0, <1>1, AgedFields DEF Typed
    <2>5. QED
      BY <2>1, <2>2, <2>3, <2>4 DEF SentInOrder, Matching
  <1>16. ReplyKept'
    <2> SUFFICES ASSUME reply' # Nothing, reply'.intact
                 PROVE  /\ assembly' # Nothing /\ assembly'.mine = reply'.dropped
                        /\ assembly'.left + reply'.since = DroppingTimeout + 1 /\ reply'.since <= DroppingTimeout
                        /\ (reply'.dropped = reply'.mine \/ reply'.excused)
      BY DEF ReplyKept
    <2>1. reply # Nothing /\ reply \in Reply /\ whole
      BY <1>2a DEF Pass
    <2>2. /\ reply.intact /\ reply.since < DroppingTimeout /\ reply'.since = reply.since + 1
          /\ reply'.mine = reply.mine /\ reply'.dropped = reply.dropped /\ reply'.excused = reply.excused
      BY <1>2a, <2>1 DEF Reply
    <2>3. /\ assembly # Nothing /\ assembly.mine = reply.dropped
          /\ assembly.left + reply.since = DroppingTimeout + 1
          /\ (reply.dropped = reply.mine \/ reply.excused)
      BY <2>1, <2>2 DEF Replies, ReplyKept
    <2>4. assembly \in Reassembly /\ reply.since \in Nat /\ assembly.left \in Nat
      BY <2>1, <2>3 DEF TrackerTypes, TrackerTypeOK, Reassembly, Reply
    <2>5. assembly' = [assembly EXCEPT !.left = Less(@)]
      BY <2>3 DEF Pass
    <2>6. assembly' # Nothing /\ assembly'.mine = assembly.mine /\ assembly'.left = assembly.left - 1
      BY <2>2, <2>3, <2>4, <2>5 DEF Less, Reassembly
    <2>7. QED
      BY <2>2, <2>3, <2>4, <2>6
  <1>17. Attributed' /\ Whole'
    BY <1>1 DEF Replies, Attributed, Whole
  <1>18. QED
    BY <1>5, <1>7, <1>8, <1>9, <1>10, <1>13, <1>14, <1>15, <1>16, <1>17 DEF Queues, Matching, Replies

LEMMA TrackerInductive == ASSUME TrackerInv, [TrackerNext]_trackerVars PROVE TrackerInv'
  <1>1. CASE TrackerNext
    <2>1. CASE HostQuery
      BY <2>1, MarkStep DEF HostQuery, Writers
    <2>2. CASE InjectTracked
      BY <2>2, MarkStep DEF InjectTracked, Writers
    <2>3. QED
      BY <1>1, <2>1, <2>2, WrittenStep, InjectFailsStep, StartStep, ContinueStep, StrayStep, ReplyLostStep, PassStep
         DEF TrackerNext
  <1>2. CASE UNCHANGED trackerVars
    <2>1. TrackerTypes' /\ Queues' /\ Matching'
      BY <1>2, QueuesStay DEF trackerVars, TrackerInv, TrackerTypes, TrackerTypeOK
    <2>2. QED
      BY <1>2, <2>1 DEF trackerVars, TrackerInv, Replies, ReplyKept, Attributed, Whole
  <1>3. QED
    BY <1>1, <1>2

(* In the tracker (poll.go), a reply that arrives whole and in time is     *)
(* hidden from the host exactly if it answers one of our queries, and goes *)
(* one way in all its chunks, unless a late or lost reply or overtaking    *)
(* writes have shifted the queue of its unit, which silence mends.         *)
THEOREM RepliesAreAttributed == TrackerSpec => []RepliesAttributed
  <1>1. TrackerInit => TrackerInv
    BY TrackerInitInv
  <1>2. TrackerInv /\ [TrackerNext]_trackerVars => TrackerInv'
    BY TrackerInductive
  <1>3. TrackerInv => RepliesAttributed
    BY DEF TrackerInv, TrackerTypes, Replies, RepliesAttributed
  <1>4. QED
    BY <1>1, <1>2, <1>3, PTL DEF TrackerSpec
=============================================================================
