--------------------------- MODULE PairingProofs ---------------------------
(***************************************************************************)
(* Pairing operations over the air (Pairing) and who is on the air         *)
(* (Presence), for any inventory, nets and faults and any thresholds.      *)
(***************************************************************************)
EXTENDS Pairing, Presence, NatInduct, SequenceTheorems

-----------------------------------------------------------------------------
(* The inductive invariant of the pairing operations.                      *)

KindNames == {"scan", "sweep", "add", "replace", "rekey", "channel", "remove", "delete"}
RestoreNets == [pan : {Restore}, ch : Channels]
Commands ==
    [cmd : {"set"}, serial : Units, net : Nets \cup RestoreNets]
    \cup [cmd : {"prime", "hop", "commit"}, serial : Units, net : Nets]
    \cup [cmd : {"report", "config", "addr", "quiet"}, serial : Units, net : {NoNet}]
Operations == [kind : KindNames \cup {"none"}, serial : Units, old : Nets \cup {NoNet},
               goal : Nets \cup {NoNet}, list : Seq(Units)]
Asked == [kind : KindNames, serial : Units, old : Nets, goal : Nets, list : Seq(Units), seen : Nets \X Nets]
Moves == {"rekey", "channel"}
Operating(n) == n \in Nets /\ n.pan # Rendezvous

PairTypes ==
    /\ module \in Nets \cup {NoNet} /\ Operating(opNet) /\ Operating(conf)
    /\ at \in [Units -> Nets] /\ primed \in [Units -> Nets \cup {NoNet}] /\ inventory \subseteq Units
    /\ cmdQ \in Seq(Commands) /\ (ask = NoAsk \/ ask \in Asked) /\ op \in Operations
    /\ pc \in Places /\ call \in {"ready", "waiting", "orphaned", "ok", "fail"}
    /\ status \in {"none", "running", "done", "partial", "error", "aborted"}
    /\ parkedBy \in KindNames \cup {"none"}

(* What an operation moves the fleet to and from, and what it goes through. *)
AskedNets == ask # NoAsk /\ ask.kind \in Moves => Operating(ask.old) /\ Operating(ask.goal)
OpNets ==
    /\ op.kind # "none" => op.goal \in Nets
    /\ op.kind \in Moves => Operating(op.old) /\ Operating(op.goal)
OpTodo ==
    /\ pc # "idle" => todo \in IF op.kind = "sweep" THEN Seq(Channels) ELSE Seq(Range(op.list))
    /\ pc = "sweep.report" \/ (call # "ready" /\ pc \in {"rekey.prime", "chan.hop", "sweep.park", "verify"})
          => todo # <<>>
OpRound ==
    /\ pc \in {"rekey.park", "rekey.prime"} => round = 0
    /\ pc = "rekey.commit" => round < CommitRounds
    /\ pc = "verify" => round <= VerifyRetries
    /\ round \in 0 .. (CommitRounds + VerifyRetries)
    /\ verified \subseteq Range(op.list)

PlaceOfKind ==
    /\ pc \in {"scan.park", "scan.report"} => op.kind = "scan"
    /\ pc \in {"sweep.park", "sweep.report"} => op.kind = "sweep"
    /\ pc = "scan.restore" => op.kind \in {"scan", "sweep"}
    /\ pc \in {"bind.config", "bind.addr", "bind.readdr", "bind.quiet", "mig.park", "mig.prime", "mig.commit",
               "mig.restore", "configure"} => op.kind \in {"add", "replace"}
    /\ pc \in {"rekey.park", "rekey.prime", "rekey.commit", "settle", "rekey.arm", "rekey.persist"} => op.kind = "rekey"
    /\ pc \in {"chan.hop", "chan.move", "chan.persist"} => op.kind = "channel"
    /\ pc \in {"rollback", "verify"} => op.kind \in Moves
    /\ pc \in {"evict.config", "evict.hop", "delete"} => op.kind \in {"remove", "delete"}
    /\ pc # "idle" => status = "running"

(* The command that is waited for is the newest one and belongs to the     *)
(* place; its result leaves nothing behind it.                             *)
Awaits ==
    /\ call = "waiting" => cmdQ # <<>> /\ cmdQ[Len(cmdQ)] = CommandAt(pc)
    /\ call = "ok" => cmdQ = <<>>
    /\ pc \in Local => call = "ready"

Settles == settled => module = opNet /\ \A i \in 1 .. Len(cmdQ) : cmdQ[i].cmd # "set"

\* The way from a park to the command that ends it.
Away ==
    \/ pc \in {"sweep.park", "sweep.report", "mig.park", "mig.prime", "mig.commit",
               "rekey.park", "rekey.prime", "rekey.commit", "settle"}
    \/ pc \in {"scan.restore", "mig.restore", "rekey.arm", "rollback"} /\ call = "ready"
Parks == ~excused => parkedBy \in {"none", "scan"} \/ Away

\* A command that gives ecu-zb another operating net.
Adopts(c) == c.cmd = "set" /\ c.net.pan \notin {Restore, Rendezvous}
Arms == {"rekey.arm", "chan.move"}
Persists == {"rekey.persist", "chan.persist"}
AdoptsInPlace ==
    ~excused => \A i \in 1 .. Len(cmdQ) : Adopts(cmdQ[i]) => pc \in Arms \cup {"rollback"}
Armed ==
    ~excused => /\ pc \in Persists \cup {"verify"} \/ (pc \in Arms /\ call = "ok") =>
                       opNet = op.goal /\ module \in {op.goal, NoNet}

\* A rekey or a channel change that has armed the radio, or has reported done.
Done == pc = "idle" /\ status = "done" /\ op.kind \in Moves
MovedStay ==
    ~excused =>
        /\ pc \in Persists \cup {"verify"} \/ Done => \A i \in 1 .. Len(cmdQ) : cmdQ[i].cmd = "addr"
        /\ pc = "verify" \/ Done => \A s \in verified : at[s] = op.goal
        /\ pc = "verify" /\ call = "ok" => at[Head(todo)] = op.goal
        /\ Done => verified = Range(op.list)

PairInv ==
    /\ PairTypes /\ AskedNets /\ OpNets /\ OpTodo /\ OpRound /\ PlaceOfKind
    /\ Awaits /\ Settles /\ Parks /\ AdoptsInPlace /\ Armed /\ MovedStay

LEMMA PairBounds ==
    /\ Serials \in Seq(Units) /\ Serials[1] \in Units /\ ScanChannels \in Seq(Channels)
    /\ Rendezvous \notin Pans /\ Restore \notin Pans /\ Restore # Rendezvous
    /\ Channels \subseteq Nat \ {0} /\ RekeyChannels \subseteq Channels \cup {0}
    /\ ForeignNets \subseteq Nets /\ NoNet \notin Nets /\ CommitRounds \in Nat \ {0} /\ Kinds \subseteq KindNames
  BY PairingAssumption DEF Rendezvous, Restore, KindNames, Units

LEMMA NetParts ==
    /\ \A n \in Nets : n.pan \in Pans \cup {Rendezvous} /\ n.ch \in Channels /\ n = Net(n.pan, n.ch)
    /\ \A p \in Pans \cup {Rendezvous}, c \in Channels : Net(p, c) \in Nets /\ Net(p, c).pan = p /\ Net(p, c).ch = c
  BY DEF Nets, Net

LEMMA HomeIsOperating == Operating(Home)
  <1>1. \E n \in Nets : n.pan \in Pans
    <2>1. PICK p \in Pans, c \in Channels : TRUE
      BY PairingAssumption
    <2>2. [pan |-> p, ch |-> c] \in Nets
      BY <2>1 DEF Nets
    <2>3. QED
      BY <2>1, <2>2
  <1>2. QED
    BY <1>1, PairBounds DEF Home, Operating

(* What the queue loses at its head or at its end, and what it gains.      *)
LEMMA TailOfQueue ==
    ASSUME NEW S, NEW q \in Seq(S), q # <<>>
    PROVE  /\ Tail(q) \in Seq(S) /\ Head(q) \in S /\ Head(q) = q[1]
           /\ Len(Tail(q)) = Len(q) - 1
           /\ \A i \in 1 .. Len(Tail(q)) : Tail(q)[i] = q[i + 1] /\ i + 1 \in 1 .. Len(q)
  BY HeadTailProperties

LEMMA PrefixOfQueue ==
    ASSUME NEW S, NEW q \in Seq(S), NEW k \in 0 .. Len(q)
    PROVE  /\ SubSeq(q, 1, k) \in Seq(S) /\ Len(SubSeq(q, 1, k)) = k
           /\ \A i \in 1 .. k : SubSeq(q, 1, k)[i] = q[i] /\ i \in 1 .. Len(q)
  BY SubSeqProperties

LEMMA Queued ==
    ASSUME NEW S, NEW q \in Seq(S), NEW x \in S
    PROVE  /\ Append(q, x) \in Seq(S) /\ Append(q, x) # <<>> /\ Len(Append(q, x)) = Len(q) + 1
           /\ Append(q, x)[Len(Append(q, x))] = x
           /\ \A i \in 1 .. Len(Append(q, x)) : Append(q, x)[i] = x \/ (i \in 1 .. Len(q) /\ Append(q, x)[i] = q[i])
  BY AppendProperties

(* What an operation asks for at its places.                               *)
ParkPlaces == {"scan.park", "sweep.park", "mig.park", "rekey.park"}
RestorePlaces == {"scan.restore", "mig.restore"}

LEMMA CommandKinds ==
    ASSUME NEW p \in Places \ Local
    PROVE  /\ CommandAt(p).cmd = "set" <=> p \in ParkPlaces \cup RestorePlaces \cup Arms \cup {"rollback"}
           /\ p \in ParkPlaces => CommandAt(p).net.pan = Rendezvous
           /\ p \in RestorePlaces => CommandAt(p).net.pan = Restore
           /\ p \in Arms => CommandAt(p).net = Net(op.goal.pan, op.goal.ch)
           /\ p = "rollback" => CommandAt(p).net = Net(op.old.pan, op.old.ch)
           /\ CommandAt(p).cmd = "config" => p \in {"bind.config", "evict.config"}
           /\ p = "verify" => CommandAt(p).cmd = "addr" /\ (todo # <<>> => CommandAt(p).serial = Head(todo))
  BY ZenonT(60) DEF CommandAt, Places, Local, ParkPlaces, RestorePlaces, Arms, Set, Directed, ToUnit, Net

LEMMA IssuedIsCommand ==
    ASSUME PairInv, pc \notin Local, ~AtLoopHead, call = "ready"
    PROVE  CommandAt(pc) \in Commands
  <1> USE PairBounds, NetParts DEF PairInv
  <1>1. op.serial \in Units /\ op.kind # "none"
    BY DEF PairTypes, Operations, PlaceOfKind, Places, Local, Moves
  <1>2. op.goal \in Nets /\ op.goal.ch \in Channels
    BY <1>1 DEF OpNets
  <1>3. op.kind \in Moves => op.old \in Nets /\ op.old.pan \in Pans \cup {Rendezvous}
    BY DEF OpNets, Operating
  <1>4. Range(op.list) \subseteq Units
    BY DEF PairTypes, Operations, Range
  <1>5. pc = "sweep.park" => Head(todo) \in Channels
    BY HeadTailProperties DEF OpTodo, PlaceOfKind, AtLoopHead
  <1>6. op.kind # "sweep" => (IF todo = <<>> THEN op.serial ELSE Head(todo)) \in Units
    BY <1>1, <1>4, HeadTailProperties DEF OpTodo, PlaceOfKind, AtLoopHead, Local
  <1>7. QED
    BY <1>1, <1>2, <1>3, <1>5, <1>6 DEF CommandAt, Places, Local, Set, Directed, ToUnit, Net, Commands, RestoreNets,
       PairTypes, PlaceOfKind, Moves

(* What Kept is made of, for any sequence and set.                         *)
LEMMA KeptIsSeq ==
    ASSUME NEW V, NEW seq \in Seq(V), NEW set
    PROVE  Kept(seq, set) \in Seq(V)
  <1> DEFINE F == [p \in Nat \X Seq(V) |->
                     IF p[1] + 1 \in 1 .. Len(seq) /\ seq[p[1] + 1] \in set THEN Append(p[2], seq[p[1] + 1]) ELSE p[2]]
             Rec(f) == [n \in 0 .. Len(seq) |->
                          IF n = 0 THEN <<>> ELSE IF seq[n] \in set THEN Append(f[n - 1], seq[n]) ELSE f[n - 1]]
             upto == CHOOSE f : f = Rec(f)
  <1>1. Len(seq) \in Nat /\ \A i \in 1 .. Len(seq) : seq[i] \in V
    BY LenProperties, ElementOfSeq
  <1>2. <<>> \in Seq(V)
    OBVIOUS
  <1>3. F \in [Nat \X Seq(V) -> Seq(V)]
    <2>1. \A q \in Seq(V), v \in V : Append(q, v) \in Seq(V)
      BY AppendProperties
    <2>2. QED
      BY <1>1, <2>1
  <1>4. PICK g : g \in [Nat -> Seq(V)] /\ g[0] = <<>> /\ \A n \in Nat : g[n + 1] = F[<<n, g[n]>>]
    <2> HIDE DEF F
    <2>1. \E g : Iterates(g, Seq(V), <<>>, F)
      BY <1>2, <1>3, Iteration
    <2>2. QED
      BY <2>1 DEF Iterates
  <1> DEFINE h == [n \in 0 .. Len(seq) |-> g[n]]
  <1>5. h = Rec(h)
    <2> HIDE DEF h, Rec, F
    <2>1. ASSUME NEW n \in 1 .. Len(seq)
          PROVE  g[n] = IF seq[n] \in set THEN Append(g[n - 1], seq[n]) ELSE g[n - 1]
      <3>1. n - 1 \in Nat /\ (n - 1) + 1 = n /\ n - 1 + 1 \in 1 .. Len(seq)
            /\ <<n - 1, g[n - 1]>> \in Nat \X Seq(V)
        <4>1. n \in Nat /\ n - 1 \in Nat /\ (n - 1) + 1 = n
          BY <1>1
        <4>2. g[n - 1] \in Seq(V)
          BY <1>4, <4>1
        <4>3. QED
          BY <4>1, <4>2
      <3>2. g[n] = F[<<n - 1, g[n - 1]>>]
        BY <1>4, <3>1
      <3>3. QED
        BY <3>1, <3>2 DEF F
    <2>2. \A n \in 0 .. Len(seq) : h[n] = Rec(h)[n]
      <3>0. 0 \in 0 .. Len(seq) /\ h[0] = g[0] /\ Rec(h)[0] = <<>>
        BY <1>1 DEF h, Rec
      <3>1. SUFFICES ASSUME NEW n \in 0 .. Len(seq), n # 0 PROVE h[n] = Rec(h)[n]
        BY <1>4, <3>0
      <3>2. n \in 1 .. Len(seq) /\ n - 1 \in 0 .. Len(seq)
        BY <1>1, <3>1
      <3>3. h[n] = g[n] /\ h[n - 1] = g[n - 1]
        BY <3>2 DEF h
      <3>4. QED
        BY <2>1, <3>1, <3>2, <3>3 DEF Rec
    <2>3. QED
      BY <2>2 DEF h, Rec
  <1>6. upto = Rec(upto)
    <2> HIDE DEF Rec, h
    <2>1. QED
      BY <1>5
  <1>7. Kept(seq, set) = upto[Len(seq)]
    BY DEF Kept
  <1> HIDE DEF upto, F
  <1> DEFINE T == {n \in Nat : n <= Len(seq) => upto[n] \in Seq(V)}
  <1>8. 0 \in T
    BY <1>1, <1>2, <1>6
  <1>9. ASSUME NEW n \in Nat, n \in T PROVE n + 1 \in T
    <2>1. SUFFICES ASSUME n + 1 <= Len(seq) PROVE upto[n + 1] \in Seq(V)
      OBVIOUS
    <2>2. n + 1 \in 1 .. Len(seq) /\ n + 1 # 0 /\ (n + 1) - 1 = n /\ n + 1 \in 0 .. Len(seq)
      BY <1>1, <2>1
    <2>3. upto[n] \in Seq(V) /\ seq[n + 1] \in V
      BY <1>1, <1>9, <2>1, <2>2
    <2>4. upto[n + 1] = IF seq[n + 1] \in set THEN Append(upto[n], seq[n + 1]) ELSE upto[n]
      <3>1. upto[n + 1] = Rec(upto)[n + 1]
        BY <1>6
      <3>2. QED
        BY <2>2, <3>1
    <2>5. Append(upto[n], seq[n + 1]) \in Seq(V)
      BY <2>3, AppendProperties
    <2>6. QED
      BY <2>3, <2>4, <2>5
  <1>10. \A n \in Nat : n \in T
    <2> HIDE DEF T
    <2>1. QED
      BY <1>8, <1>9, SetInduction
  <1>11. QED
    BY <1>1, <1>7, <1>10

(* A request, with its snapshots.                                          *)
LEMMA RequestStep ==
    ASSUME PairInv, NEW k \in KindNames, NEW s \in Units, NEW old \in Nets, NEW goal \in Nets, NEW list \in Seq(Units),
           k \in Moves => Operating(old) /\ Operating(goal), Request(k, s, old, goal, list)
    PROVE  PairInv'
  <1> USE PairBounds DEF PairInv, Request, radioVars, histVars
  <1>1. PairTypes'
    BY DEF PairTypes, Operations, Operating, Places, Asked
  <1>2. AskedNets'
    BY DEF AskedNets, Operating, Moves
  <1>3. OpNets'
    BY DEF OpNets, Operating, Moves
  <1>4. OpTodo'
    BY DEF OpTodo
  <1>5. OpRound'
    BY DEF OpRound, VerifyRetries
  <1>6. PlaceOfKind'
    BY DEF PlaceOfKind, Moves
  <1>7. Awaits'
    BY DEF Awaits, CommandAt, Set, Directed, ToUnit, Local
  <1>8. Settles'
    BY DEF Settles
  <1>9. Parks'
    BY DEF Parks, Away
  <1>10. AdoptsInPlace'
    BY DEF AdoptsInPlace, Adopts, Arms
  <1>11. Armed'
    BY DEF Armed, Arms, Persists
  <1>12. MovedStay'
    BY DEF MovedStay, Done, Arms, Persists, Moves
  <1>13. QED
    BY <1>1, <1>2, <1>3, <1>4, <1>5, <1>6, <1>7, <1>8, <1>9, <1>10, <1>11, <1>12

LEMMA StartStep ==
    ASSUME PairInv, StartOp
    PROVE  PairInv'
  <1> USE PairBounds DEF PairInv, StartOp, radioVars, opVars
  <1>a. \/ UNCHANGED <<opVars, pc, cancelled, status, excused>>
        \/ /\ ask \in Asked /\ op' \in Operations /\ op'.kind = ask.kind /\ op'.list = ask.list
           /\ op'.goal = ask.goal /\ op'.old = ask.old /\ pc = "idle" /\ pc' = FirstPlace(ask.kind)
           /\ pc' \in Places \ {"idle", "verify", "rollback", "scan.restore"} /\ pc' \notin Arms \cup Persists
           /\ status' = "running" /\ (excused => excused')
           /\ todo' = (IF ask.kind = "sweep" THEN ScanChannels ELSE ask.list) /\ round' = 0 /\ verified' = {}
    <2>1. CASE pc # "idle"
      BY <2>1
    <2>2. CASE pc = "idle"
      <3>1. ask \in Asked
        BY DEF PairTypes
      <3>2. FirstPlace(ask.kind) \in Places \ {"idle", "verify", "rollback", "scan.restore"}
            /\ FirstPlace(ask.kind) \notin Arms \cup Persists
        BY <3>1 DEF Asked, KindNames, FirstPlace, Places, Arms, Persists
      <3>3. op' = [kind |-> ask.kind, serial |-> ask.serial, old |-> ask.old, goal |-> ask.goal, list |-> ask.list]
        BY <2>2
      <3>4. op' \in Operations
        BY <3>1, <3>3 DEF Asked, Operations
      <3>5. QED
        BY <2>2, <3>1, <3>2, <3>3, <3>4
    <2>3. QED
      BY <2>1, <2>2
  <1>1. PairTypes'
    BY <1>a DEF PairTypes, opVars
  <1>2. AskedNets'
    BY DEF AskedNets, Operating, Moves
  <1>3. OpNets'
    BY <1>a DEF OpNets, opVars, Asked, KindNames, AskedNets, Moves
  <1>4. OpTodo'
    <2>1. CASE UNCHANGED <<opVars, pc, cancelled, status, excused>>
      BY <2>1 DEF OpTodo, opVars
    <2>2. CASE op'.list = ask.list /\ ask \in Asked /\ pc = "idle" /\ op'.kind = ask.kind /\ pc' = FirstPlace(ask.kind)
               /\ todo' = (IF ask.kind = "sweep" THEN ScanChannels ELSE ask.list)
      <3>1. ask.list \in Seq(Range(ask.list))
        BY <2>2, SeqOfRange DEF Asked
      <3>2. call = "ready"
        BY <2>2 DEF Awaits, Local
      <3>3. pc' # "sweep.report"
        BY <2>2 DEF FirstPlace, Asked, KindNames
      <3>4. QED
        BY <2>2, <3>1, <3>2, <3>3 DEF OpTodo
    <2>3. QED
      BY <1>a, <2>1, <2>2
  <1>5. OpRound'
    BY <1>a DEF OpRound, VerifyRetries, opVars, Places, FirstPlace
  <1>6. PlaceOfKind'
    BY <1>a DEF PlaceOfKind, opVars, FirstPlace, Asked, KindNames, Moves
  <1>7. Awaits'
    BY DEF Awaits, CommandAt, Set, Directed, ToUnit, Local
  <1>8. Settles'
    BY DEF Settles
  <1>9. Parks'
    BY DEF Parks, Away
  <1>10. AdoptsInPlace'
    BY DEF AdoptsInPlace, Adopts, Arms
  <1>11. Armed'
    BY <1>a DEF Armed, opVars, Arms, Persists
  <1>12. MovedStay'
    BY <1>a DEF MovedStay, opVars, Arms, Persists, Done, Moves
  <1>13. QED
    BY <1>1, <1>2, <1>3, <1>4, <1>5, <1>6, <1>7, <1>8, <1>9, <1>10, <1>11, <1>12

LEMMA AbortStep ==
    ASSUME PairInv, Abort
    PROVE  PairInv'
  <1> USE PairBounds DEF PairInv, Abort, radioVars, opVars, histVars
  <1>1. PairTypes'
    BY DEF PairTypes, Operations, Operating, Places
  <1>2. AskedNets'
    BY DEF AskedNets, Operating, Moves
  <1>3. OpNets'
    BY DEF OpNets, Operating, Moves
  <1>4. OpTodo'
    BY DEF OpTodo
  <1>5. OpRound'
    BY DEF OpRound, VerifyRetries
  <1>6. PlaceOfKind'
    BY DEF PlaceOfKind, Moves
  <1>7. Awaits'
    BY DEF Awaits, CommandAt, Set, Directed, ToUnit, Local
  <1>8. Settles'
    BY DEF Settles
  <1>9. Parks'
    BY DEF Parks, Away
  <1>10. AdoptsInPlace'
    BY DEF AdoptsInPlace, Adopts, Arms
  <1>11. Armed'
    BY DEF Armed, Arms, Persists
  <1>12. MovedStay'
    BY DEF MovedStay, Done, Arms, Persists, Moves
  <1>13. QED
    BY <1>1, <1>2, <1>3, <1>4, <1>5, <1>6, <1>7, <1>8, <1>9, <1>10, <1>11, <1>12

(* Transport.do.                                                           *)
LEMMA IssueStep ==
    ASSUME PairInv, Issue
    PROVE  PairInv'
  <1> USE PairBounds DEF PairInv, Issue, radioVars, opVars
  <1> DEFINE c == CommandAt(pc)
  <1>a. /\ c \in Commands /\ pc \in Places \ Local
        /\ c.cmd = "set" <=> pc \in ParkPlaces \cup RestorePlaces \cup Arms \cup {"rollback"}
        /\ pc \in ParkPlaces => c.net.pan = Rendezvous
        /\ pc \in RestorePlaces => c.net.pan = Restore
        /\ pc \in Arms => c.net = Net(op.goal.pan, op.goal.ch)
        /\ pc = "rollback" => c.net = Net(op.old.pan, op.old.ch)
        /\ pc = "verify" => c.cmd = "addr"
    BY IssuedIsCommand, CommandKinds DEF PairTypes
  <1> HIDE DEF c
  <1>b.  \/ cmdQ' = cmdQ /\ call' = "fail"
         \/ /\ cmdQ' \in Seq(Commands) /\ cmdQ' # <<>> /\ cmdQ'[Len(cmdQ')] = c /\ call' = "waiting"
            /\ \A i \in 1 .. Len(cmdQ') : cmdQ'[i] = c \/ (i \in 1 .. Len(cmdQ) /\ cmdQ'[i] = cmdQ[i])
    <2>1. cmdQ \in Seq(Commands) /\ c \in Commands
      BY <1>a DEF PairTypes
    <2>2. CASE cmdQ' = Append(cmdQ, c) /\ call' = "waiting"
      <3>1. /\ Append(cmdQ, c) \in Seq(Commands) /\ Append(cmdQ, c) # <<>> /\ Append(cmdQ, c)[Len(Append(cmdQ, c))] = c
            /\ \A i \in 1 .. Len(Append(cmdQ, c)) :
                  Append(cmdQ, c)[i] = c \/ (i \in 1 .. Len(cmdQ) /\ Append(cmdQ, c)[i] = cmdQ[i])
        BY <2>1, Queued
      <3>2. QED
        BY <2>2, <3>1
    <2>3. CASE cmdQ' = cmdQ /\ call' = "fail"
      BY <2>3
    <2>4. QED
      BY <2>2, <2>3 DEF c
  <1>1. PairTypes'
    <2>1. op.kind \in KindNames
      BY <1>a DEF PairTypes, Operations, PlaceOfKind, Places, Local, KindNames, Moves
    <2>2. QED
      BY <1>b, <2>1 DEF PairTypes, c
  <1>2. AskedNets'
    BY DEF AskedNets, Operating, Moves
  <1>3. OpNets'
    BY DEF OpNets, Operating, Moves
  <1>4. OpTodo'
    BY <1>a, <1>b DEF OpTodo, AtLoopHead
  <1>5. OpRound'
    BY DEF OpRound, VerifyRetries
  <1>6. PlaceOfKind'
    BY DEF PlaceOfKind, Moves
  <1>7. Awaits'
    <2>1. CommandAt(pc)' = c
      BY DEF CommandAt, Set, Directed, ToUnit, c
    <2>2. QED
      BY <1>a, <1>b, <2>1 DEF Awaits
  <1>8. Settles'
    BY <1>b DEF Settles, c
  <1>9. Parks'
    <2>1. CASE c.cmd # "set"
      BY <1>a, <2>1 DEF Parks, Away, c, RestorePlaces, Arms
    <2>2. CASE c.cmd = "set"
      <3>1. pc \in {"scan.park"} => op.kind = "scan"
        BY DEF PlaceOfKind
      <3>2. pc \in Arms => c.net.pan # Rendezvous
        BY <1>a, NetParts DEF OpNets, PlaceOfKind, Moves, Operating, Arms, Net
      <3>3. pc = "rollback" => c.net.pan # Rendezvous
        BY <1>a, NetParts DEF OpNets, PlaceOfKind, Moves, Operating, Net
      <3>4. QED
        BY <1>a, <2>2, <3>1, <3>2, <3>3 DEF Parks, Away, c, ParkPlaces, RestorePlaces
    <2>3. QED
      BY <2>1, <2>2
  <1>10. AdoptsInPlace'
    BY <1>a, <1>b DEF AdoptsInPlace, Adopts, ParkPlaces, RestorePlaces, Arms
  <1>11. Armed'
    BY DEF Armed, Arms, Persists
  <1>12. MovedStay'
    <2>1. pc # "idle" /\ pc \notin Persists
      BY <1>a DEF Local, Persists
    <2>2. call' # "ok"
      BY <1>b
    <2>3. QED
      BY <1>a, <1>b, <2>1, <2>2 DEF MovedStay, Done
  <1>13. QED
    BY <1>1, <1>2, <1>3, <1>4, <1>5, <1>6, <1>7, <1>8, <1>9, <1>10, <1>11, <1>12

LEMMA GiveUpStep ==
    ASSUME PairInv, GiveUp
    PROVE  PairInv'
  <1> USE PairBounds DEF PairInv, GiveUp, radioVars, opVars, histVars
  <1>1. PairTypes'
    BY DEF PairTypes, Operations, Operating, Places
  <1>2. AskedNets'
    BY DEF AskedNets, Operating, Moves
  <1>3. OpNets'
    BY DEF OpNets, Operating, Moves
  <1>4. OpTodo'
    BY DEF OpTodo
  <1>5. OpRound'
    BY DEF OpRound, VerifyRetries
  <1>6. PlaceOfKind'
    BY DEF PlaceOfKind, Moves
  <1>7. Awaits'
    BY DEF Awaits, CommandAt, Set, Directed, ToUnit, Local
  <1>8. Settles'
    BY DEF Settles
  <1>9. Parks'
    BY DEF Parks, Away
  <1>10. AdoptsInPlace'
    BY DEF AdoptsInPlace, Adopts, Arms
  <1>11. Armed'
    BY DEF Armed, Arms, Persists
  <1>12. MovedStay'
    BY DEF MovedStay, Done, Arms, Persists, Moves
  <1>13. QED
    BY <1>1, <1>2, <1>3, <1>4, <1>5, <1>6, <1>7, <1>8, <1>9, <1>10, <1>11, <1>12

LEMMA FastScanStep ==
    ASSUME PairInv, FastScan,
           UNCHANGED <<radioVars, cmdQ, ask, cancelled, ops, faults, parkedBy, settled>>
    PROVE  PairInv'
  <1> USE PairBounds DEF PairInv, FastScan, Finish, Fail, Outcome, radioVars, Returned, At, Goto
  <1>1. PairTypes'
    BY DEF PairTypes, Operations, Operating, Places
  <1>2. AskedNets'
    BY DEF AskedNets, Operating, Moves
  <1>3. OpNets'
    BY DEF OpNets, Operating, Moves
  <1>4. OpTodo'
    BY DEF OpTodo
  <1>5. OpRound'
    BY DEF OpRound, VerifyRetries
  <1>6. PlaceOfKind'
    BY DEF PlaceOfKind, Moves
  <1>7. Awaits'
    BY DEF Awaits, CommandAt, Set, Directed, ToUnit, Local
  <1>8. Settles'
    BY DEF Settles
  <1>9. Parks'
    BY DEF Parks, Away
  <1>10. AdoptsInPlace'
    BY DEF AdoptsInPlace, Adopts, Arms
  <1>11. Armed'
    BY DEF Armed, Arms, Persists
  <1>12. MovedStay'
    BY DEF MovedStay, Done, Arms, Persists, Moves
  <1>13. QED
    BY <1>1, <1>2, <1>3, <1>4, <1>5, <1>6, <1>7, <1>8, <1>9, <1>10, <1>11, <1>12

LEMMA ScanEndStep ==
    ASSUME PairInv, ScanEnd,
           UNCHANGED <<radioVars, cmdQ, ask, cancelled, ops, faults, parkedBy, settled>>
    PROVE  PairInv'
  <1> USE PairBounds DEF PairInv, ScanEnd, opVars, Finish, Outcome, radioVars, Returned, At, Goto
  <1>1. PairTypes'
    BY DEF PairTypes, Operations, Operating, Places
  <1>2. AskedNets'
    BY DEF AskedNets, Operating, Moves
  <1>3. OpNets'
    BY DEF OpNets, Operating, Moves
  <1>4. OpTodo'
    BY DEF OpTodo
  <1>5. OpRound'
    BY DEF OpRound, VerifyRetries
  <1>6. PlaceOfKind'
    BY DEF PlaceOfKind, Moves
  <1>7. Awaits'
    BY DEF Awaits, CommandAt, Set, Directed, ToUnit, Local
  <1>8. Settles'
    BY DEF Settles
  <1>9. Parks'
    BY DEF Parks, Away
  <1>10. AdoptsInPlace'
    BY DEF AdoptsInPlace, Adopts, Arms
  <1>11. Armed'
    BY DEF Armed, Arms, Persists
  <1>12. MovedStay'
    BY DEF MovedStay, Done, Arms, Persists, Moves, PlaceOfKind
  <1>13. QED
    BY <1>1, <1>2, <1>3, <1>4, <1>5, <1>6, <1>7, <1>8, <1>9, <1>10, <1>11, <1>12

LEMMA SweepStep ==
    ASSUME PairInv, SweepScan,
           UNCHANGED <<radioVars, cmdQ, ask, cancelled, ops, faults, parkedBy, settled>>
    PROVE  PairInv'
  <1> USE PairBounds DEF PairInv, SweepScan, AtLoopHead, radioVars, Returned, At, Goto
  <1>1. PairTypes'
    BY DEF PairTypes, Operations, Operating, Places
  <1>2. AskedNets'
    BY DEF AskedNets, Operating, Moves
  <1>3. OpNets'
    BY DEF OpNets, Operating, Moves
  <1>4. OpTodo'
    <2>1. CASE todo' = todo
      BY <2>1 DEF OpTodo
    <2>2. CASE todo # <<>> /\ todo' = Tail(todo) /\ pc # "idle" /\ pc' \in {"sweep.park"} /\ call' = "ready"
      <3>1. \A S : todo \in Seq(S) => Tail(todo) \in Seq(S)
        BY <2>2, TailOfQueue
      <3>2. QED
        BY <2>2, <3>1 DEF OpTodo
    <2>3. QED
      BY <2>1, <2>2 DEF OpTodo
  <1>5. OpRound'
    BY DEF OpRound, VerifyRetries
  <1>6. PlaceOfKind'
    BY DEF PlaceOfKind, Moves
  <1>7. Awaits'
    BY DEF Awaits, CommandAt, Set, Directed, ToUnit, Local
  <1>8. Settles'
    BY DEF Settles
  <1>9. Parks'
    BY DEF Parks, Away
  <1>10. AdoptsInPlace'
    BY DEF AdoptsInPlace, Adopts, Arms
  <1>11. Armed'
    BY DEF Armed, Arms, Persists
  <1>12. MovedStay'
    BY DEF MovedStay, Done, Arms, Persists, Moves
  <1>13. QED
    BY <1>1, <1>2, <1>3, <1>4, <1>5, <1>6, <1>7, <1>8, <1>9, <1>10, <1>11, <1>12

LEMMA BindStep ==
    ASSUME PairInv, BindAndMigrate,
           UNCHANGED <<radioVars, cmdQ, ask, cancelled, ops, faults, parkedBy, settled>>
    PROVE  PairInv'
  <1> USE PairBounds DEF PairInv, BindAndMigrate, opVars, Finish, Fail, Outcome, radioVars, Returned, At, Goto
  <1>1. PairTypes'
    BY DEF PairTypes, Operations, Operating, Places
  <1>2. AskedNets'
    BY DEF AskedNets, Operating, Moves
  <1>3. OpNets'
    BY DEF OpNets, Operating, Moves
  <1>4. OpTodo'
    BY DEF OpTodo
  <1>5. OpRound'
    BY DEF OpRound, VerifyRetries
  <1>6. PlaceOfKind'
    BY DEF PlaceOfKind, Moves
  <1>7. Awaits'
    BY DEF Awaits, CommandAt, Set, Directed, ToUnit, Local
  <1>8. Settles'
    BY DEF Settles
  <1>9. Parks'
    BY DEF Parks, Away
  <1>10. AdoptsInPlace'
    BY DEF AdoptsInPlace, Adopts, Arms
  <1>11. Armed'
    BY DEF Armed, Arms, Persists
  <1>12. MovedStay'
    BY DEF MovedStay, Done, Arms, Persists, Moves, PlaceOfKind
  <1>13. QED
    BY <1>1, <1>2, <1>3, <1>4, <1>5, <1>6, <1>7, <1>8, <1>9, <1>10, <1>11, <1>12

LEMMA MigrateStep ==
    ASSUME PairInv, MigrateOne,
           UNCHANGED <<radioVars, cmdQ, ask, cancelled, ops, faults, parkedBy, settled>>
    PROVE  PairInv'
  <1> USE PairBounds DEF PairInv, MigrateOne, Finish, Fail, Outcome, FailedMigration, radioVars, Returned, At, Goto
  <1>1. PairTypes'
    <2>1. pc' \in Places /\ call' = "ready" /\ status' \in {"running", "aborted", "error"}
      BY DEF Places, PlaceOfKind
    <2>2. QED
      BY <2>1 DEF PairTypes
  <1>2. AskedNets'
    BY DEF AskedNets, Operating, Moves
  <1>3. OpNets'
    BY DEF OpNets, Operating, Moves
  <1>4. OpTodo'
    BY DEF OpTodo
  <1>5. OpRound'
    BY DEF OpRound, VerifyRetries
  <1>6. PlaceOfKind'
    BY DEF PlaceOfKind, Moves
  <1>7. Awaits'
    BY DEF Awaits, CommandAt, Set, Directed, ToUnit, Local
  <1>8. Settles'
    BY DEF Settles
  <1>9. Parks'
    BY DEF Parks, Away
  <1>10. AdoptsInPlace'
    BY DEF AdoptsInPlace, Adopts, Arms
  <1>11. Armed'
    BY DEF Armed, Arms, Persists
  <1>12. MovedStay'
    BY DEF MovedStay, Done, Arms, Persists, Moves, PlaceOfKind
  <1>13. QED
    BY <1>1, <1>2, <1>3, <1>4, <1>5, <1>6, <1>7, <1>8, <1>9, <1>10, <1>11, <1>12

LEMMA ConfigureStep ==
    ASSUME PairInv, NEW o \in Units, Configure(o),
           UNCHANGED <<radioVars, cmdQ, ask, cancelled, ops, faults, parkedBy, settled>>
    PROVE  PairInv'
  <1> USE PairBounds DEF PairInv, Configure, opVars, Finish, Fail, Outcome, radioVars, Returned, At, Goto
  <1>1. PairTypes'
    BY DEF PairTypes, Operations, Operating, Places
  <1>2. AskedNets'
    BY DEF AskedNets, Operating, Moves
  <1>3. OpNets'
    BY DEF OpNets, Operating, Moves
  <1>4. OpTodo'
    BY DEF OpTodo
  <1>5. OpRound'
    BY DEF OpRound, VerifyRetries
  <1>6. PlaceOfKind'
    BY DEF PlaceOfKind, Moves
  <1>7. Awaits'
    BY DEF Awaits, CommandAt, Set, Directed, ToUnit, Local
  <1>8. Settles'
    BY DEF Settles
  <1>9. Parks'
    BY DEF Parks, Away
  <1>10. AdoptsInPlace'
    BY DEF AdoptsInPlace, Adopts, Arms
  <1>11. Armed'
    BY DEF Armed, Arms, Persists
  <1>12. MovedStay'
    BY DEF MovedStay, Done, Arms, Persists, Moves, PlaceOfKind
  <1>13. QED
    BY <1>1, <1>2, <1>3, <1>4, <1>5, <1>6, <1>7, <1>8, <1>9, <1>10, <1>11, <1>12

LEMMA RemoveStep ==
    ASSUME PairInv, RemoveUnit,
           UNCHANGED <<radioVars, cmdQ, ask, cancelled, ops, faults, parkedBy, settled>>
    PROVE  PairInv'
  <1> USE PairBounds DEF PairInv, RemoveUnit, opVars, Finish, Fail, Outcome, radioVars, Returned, At, Goto
  <1>1. PairTypes'
    BY DEF PairTypes, Operations, Operating, Places
  <1>2. AskedNets'
    BY DEF AskedNets, Operating, Moves
  <1>3. OpNets'
    BY DEF OpNets, Operating, Moves
  <1>4. OpTodo'
    BY DEF OpTodo
  <1>5. OpRound'
    BY DEF OpRound, VerifyRetries
  <1>6. PlaceOfKind'
    BY DEF PlaceOfKind, Moves
  <1>7. Awaits'
    BY DEF Awaits, CommandAt, Set, Directed, ToUnit, Local
  <1>8. Settles'
    BY DEF Settles
  <1>9. Parks'
    BY DEF Parks, Away
  <1>10. AdoptsInPlace'
    BY DEF AdoptsInPlace, Adopts, Arms
  <1>11. Armed'
    BY DEF Armed, Arms, Persists
  <1>12. MovedStay'
    BY DEF MovedStay, Done, Arms, Persists, Moves, PlaceOfKind
  <1>13. QED
    BY <1>1, <1>2, <1>3, <1>4, <1>5, <1>6, <1>7, <1>8, <1>9, <1>10, <1>11, <1>12

LEMMA RekeyStep ==
    ASSUME PairInv, RunRekey,
           UNCHANGED <<radioVars, cmdQ, ask, cancelled, ops, faults, parkedBy, settled>>
    PROVE  PairInv'
  <1> USE PairBounds DEF PairInv, RunRekey, AfterSettle, radioVars, Returned, At, Goto
  <1>1. PairTypes'
    BY DEF PairTypes, Operations, Operating, Places
  <1>2. AskedNets'
    BY DEF AskedNets, Operating, Moves
  <1>3. OpNets'
    BY DEF OpNets, Operating, Moves
  <1>4. OpTodo'
    <2>1. CASE todo' = todo
      BY <2>1 DEF OpTodo
    <2>2. CASE todo # <<>> /\ todo' = Tail(todo) /\ pc # "idle" /\ pc' \in {"rekey.prime"} /\ call' = "ready"
      <3>1. \A S : todo \in Seq(S) => Tail(todo) \in Seq(S)
        BY <2>2, TailOfQueue
      <3>2. QED
        BY <2>2, <3>1 DEF OpTodo
    <2>3. QED
      BY <2>1, <2>2 DEF OpTodo
  <1>5. OpRound'
    BY DEF OpRound, VerifyRetries
  <1>6. PlaceOfKind'
    BY DEF PlaceOfKind, Moves
  <1>7. Awaits'
    BY DEF Awaits, CommandAt, Set, Directed, ToUnit, Local
  <1>8. Settles'
    BY DEF Settles
  <1>9. Parks'
    BY DEF Parks, Away
  <1>10. AdoptsInPlace'
    BY DEF AdoptsInPlace, Adopts, Arms, Awaits
  <1>11. Armed'
    BY DEF Armed, Arms, Persists
  <1>12. MovedStay'
    BY DEF MovedStay, Done, Arms, Persists, Moves, Awaits
  <1>13. QED
    BY <1>1, <1>2, <1>3, <1>4, <1>5, <1>6, <1>7, <1>8, <1>9, <1>10, <1>11, <1>12

LEMMA ChannelStep ==
    ASSUME PairInv, RunChangeChannel,
           UNCHANGED <<radioVars, cmdQ, ask, cancelled, ops, faults, parkedBy, settled>>
    PROVE  PairInv'
  <1> USE PairBounds DEF PairInv, RunChangeChannel, radioVars, Returned, At, Goto
  <1>1. PairTypes'
    BY DEF PairTypes, Operations, Operating, Places
  <1>2. AskedNets'
    BY DEF AskedNets, Operating, Moves
  <1>3. OpNets'
    BY DEF OpNets, Operating, Moves
  <1>4. OpTodo'
    <2>1. CASE todo' = todo
      BY <2>1 DEF OpTodo
    <2>2. CASE todo # <<>> /\ todo' = Tail(todo) /\ pc # "idle" /\ pc' \in {"chan.hop"} /\ call' = "ready"
      <3>1. \A S : todo \in Seq(S) => Tail(todo) \in Seq(S)
        BY <2>2, TailOfQueue
      <3>2. QED
        BY <2>2, <3>1 DEF OpTodo
    <2>3. QED
      BY <2>1, <2>2 DEF OpTodo
  <1>5. OpRound'
    BY DEF OpRound, VerifyRetries
  <1>6. PlaceOfKind'
    BY DEF PlaceOfKind, Moves
  <1>7. Awaits'
    BY DEF Awaits, CommandAt, Set, Directed, ToUnit, Local
  <1>8. Settles'
    BY DEF Settles
  <1>9. Parks'
    BY DEF Parks, Away
  <1>10. AdoptsInPlace'
    BY DEF AdoptsInPlace, Adopts, Arms, Awaits
  <1>11. Armed'
    BY DEF Armed, Arms, Persists
  <1>12. MovedStay'
    BY DEF MovedStay, Done, Arms, Persists, Moves, Awaits
  <1>13. QED
    BY <1>1, <1>2, <1>3, <1>4, <1>5, <1>6, <1>7, <1>8, <1>9, <1>10, <1>11, <1>12

LEMMA PersistStep ==
    ASSUME PairInv, Persist,
           UNCHANGED <<radioVars, cmdQ, ask, cancelled, ops, faults, parkedBy, settled>>
    PROVE  PairInv'
  <1> USE PairBounds DEF PairInv, Persist, radioVars, Returned, At, Goto
  <1>1. PairTypes'
    <2>1. Operating(op.goal)
      BY DEF OpNets, PlaceOfKind, Moves
    <2>2. Operating(conf')
      <3>1. /\ op.goal.pan \in Pans \cup {Rendezvous} /\ op.goal.pan # Rendezvous /\ op.goal.ch \in Channels
            /\ conf = Net(conf.pan, conf.ch) /\ conf.pan \in Pans \cup {Rendezvous} /\ conf.ch \in Channels
            /\ conf.pan # Rendezvous
        BY <2>1, NetParts DEF Operating, PairTypes
      <3>2. conf' = Net(op.goal.pan, conf.ch) \/ conf' = Net(conf.pan, op.goal.ch)
        BY <3>1 DEF Net
      <3>3. QED
        BY <3>1, <3>2, NetParts DEF Operating
    <2>3. QED
      BY <2>2 DEF PairTypes, Places
  <1>2. AskedNets'
    BY DEF AskedNets, Operating, Moves
  <1>3. OpNets'
    BY DEF OpNets, Operating, Moves
  <1>4. OpTodo'
    <2>1. op.list \in Seq(Range(op.list))
      BY SeqOfRange DEF PairTypes, Operations
    <2>2. op.kind # "sweep"
      BY DEF PlaceOfKind
    <2>3. QED
      BY <2>1, <2>2 DEF OpTodo
  <1>5. OpRound'
    BY DEF OpRound, VerifyRetries
  <1>6. PlaceOfKind'
    BY DEF PlaceOfKind, Moves
  <1>7. Awaits'
    BY DEF Awaits, CommandAt, Set, Directed, ToUnit, Local
  <1>8. Settles'
    BY DEF Settles
  <1>9. Parks'
    BY DEF Parks, Away
  <1>10. AdoptsInPlace'
    BY DEF AdoptsInPlace, Adopts, Arms
  <1>11. Armed'
    BY DEF Armed, Arms, Persists
  <1>12. MovedStay'
    BY DEF MovedStay, Done, Arms, Persists, Moves
  <1>13. QED
    BY <1>1, <1>2, <1>3, <1>4, <1>5, <1>6, <1>7, <1>8, <1>9, <1>10, <1>11, <1>12

LEMMA RollbackStep ==
    ASSUME PairInv, Rollback,
           UNCHANGED <<radioVars, cmdQ, ask, cancelled, ops, faults, parkedBy, settled>>
    PROVE  PairInv'
  <1> USE PairBounds DEF PairInv, Rollback, opVars, Finish, radioVars, Returned, At, Goto
  <1>1. PairTypes'
    BY DEF PairTypes, Operations, Operating, Places
  <1>2. AskedNets'
    BY DEF AskedNets, Operating, Moves
  <1>3. OpNets'
    BY DEF OpNets, Operating, Moves
  <1>4. OpTodo'
    BY DEF OpTodo
  <1>5. OpRound'
    BY DEF OpRound, VerifyRetries
  <1>6. PlaceOfKind'
    BY DEF PlaceOfKind, Moves
  <1>7. Awaits'
    BY DEF Awaits, CommandAt, Set, Directed, ToUnit, Local
  <1>8. Settles'
    BY DEF Settles
  <1>9. Parks'
    BY DEF Parks, Away
  <1>10. AdoptsInPlace'
    <2>1. excused' = (excused \/ call = "fail") /\ call \in {"ok", "fail"}
      OBVIOUS
    <2>2. excused' \/ call = "ok"
      BY <2>1
    <2>3. excused' \/ cmdQ = <<>>
      BY <2>2 DEF Awaits
    <2>4. cmdQ = <<>> => cmdQ' = <<>> /\ Len(cmdQ') = 0
      OBVIOUS
    <2>5. ASSUME ~excused', NEW i \in 1 .. Len(cmdQ') PROVE FALSE
      <3>1. cmdQ = <<>>
        BY <2>3, <2>5, Zenon
      <3>2. QED
        BY <2>4, <2>5, <3>1
    <2>6. QED
      BY <2>5 DEF AdoptsInPlace
  <1>11. Armed'
    BY DEF Armed, Arms, Persists
  <1>12. MovedStay'
    BY DEF MovedStay, Done, Arms, Persists, Moves
  <1>13. QED
    BY <1>1, <1>2, <1>3, <1>4, <1>5, <1>6, <1>7, <1>8, <1>9, <1>10, <1>11, <1>12

LEMMA VerifyStep ==
    ASSUME PairInv, RebindVerify,
           UNCHANGED <<radioVars, cmdQ, ask, cancelled, ops, faults, parkedBy, settled>>
    PROVE  PairInv'
  <1> USE PairBounds DEF PairInv, RebindVerify, NextPass, VerifyRetries, Finish, AtLoopHead, radioVars, Returned,
     At, Goto
  <1>1. PairTypes'
    <2>1. pc = "verify" /\ (call # "ready" => Head(todo) \in Range(op.list))
      <3>1. pc = "verify"
        OBVIOUS
      <3>2. op.kind # "sweep" /\ (call # "ready" => todo # <<>>)
        BY <3>1 DEF PlaceOfKind, Moves, OpTodo
      <3>3. todo \in Seq(Range(op.list))
        BY <3>1, <3>2 DEF OpTodo
      <3>4. QED
        BY <3>1, <3>2, <3>3, TailOfQueue
    <2>2. Range(op.list) \subseteq Units
      BY DEF PairTypes, Operations, Range
    <2>3. inventory' \subseteq Units
      BY <2>1, <2>2 DEF PairTypes
    <2>4. pc' \in Places /\ call' = "ready" /\ status' \in {"running", "done", "partial"}
      BY <2>1 DEF Places, PlaceOfKind
    <2>5. QED
      BY <2>3, <2>4 DEF PairTypes
  <1>2. AskedNets'
    BY DEF AskedNets, Operating, Moves
  <1>3. OpNets'
    BY DEF OpNets, Operating, Moves
  <1>4. OpTodo'
    <2>1. pc = "verify" /\ op.kind # "sweep" /\ todo \in Seq(Range(op.list)) /\ call' = "ready"
      BY DEF PlaceOfKind, Moves, OpTodo
    <2>2. CASE todo' = todo
      BY <2>1, <2>2 DEF OpTodo
    <2>3. CASE call # "ready" /\ todo' = Tail(todo)
      <3>1. Tail(todo) \in Seq(Range(op.list))
        BY <2>1, <2>3, TailOfQueue DEF OpTodo
      <3>2. QED
        BY <2>1, <2>3, <3>1 DEF OpTodo
    <2>4. CASE todo' = Kept(op.list, Range(op.list) \ verified)
      <3>1. op.list \in Seq(Range(op.list))
        BY SeqOfRange DEF PairTypes, Operations
      <3>2. todo' \in Seq(Range(op.list))
        BY <2>4, <3>1, KeptIsSeq
      <3>3. QED
        BY <2>1, <3>2 DEF OpTodo
    <2>5. QED
      BY <2>2, <2>3, <2>4
  <1>5. OpRound'
    <2>1. pc = "verify" /\ (call # "ready" => Head(todo) \in Range(op.list))
      <3>1. pc = "verify"
        OBVIOUS
      <3>2. op.kind # "sweep" /\ (call # "ready" => todo # <<>>)
        BY <3>1 DEF PlaceOfKind, Moves, OpTodo
      <3>3. todo \in Seq(Range(op.list))
        BY <3>1, <3>2 DEF OpTodo
      <3>4. QED
        BY <3>1, <3>2, <3>3, TailOfQueue
    <2>2. verified' \subseteq Range(op'.list)
      BY <2>1 DEF OpRound
    <2>3. round \in 0 .. VerifyRetries /\ round' \in 0 .. VerifyRetries
      BY <2>1 DEF OpRound
    <2>4. pc' \in {"verify", "idle"}
      OBVIOUS
    <2>5. QED
      BY <2>2, <2>3, <2>4 DEF OpRound
  <1>6. PlaceOfKind'
    BY DEF PlaceOfKind, Moves
  <1>7. Awaits'
    BY DEF Awaits, CommandAt, Set, Directed, ToUnit, Local
  <1>8. Settles'
    BY DEF Settles
  <1>9. Parks'
    BY DEF Parks, Away
  <1>10. AdoptsInPlace'
    BY DEF AdoptsInPlace, Adopts, Arms
  <1>11. Armed'
    BY DEF Armed, Arms, Persists
  <1>12. MovedStay'
    BY DEF MovedStay, Done, Arms, Persists, Moves
  <1>13. QED
    BY <1>1, <1>2, <1>3, <1>4, <1>5, <1>6, <1>7, <1>8, <1>9, <1>10, <1>11, <1>12

LEMMA LinkDropStep ==
    ASSUME PairInv, LinkDrop
    PROVE  PairInv'
  <1> USE PairBounds DEF PairInv, LinkDrop, Fault, Orphaned, radioVars, opVars, histVars
  <1>1. PairTypes'
    BY DEF PairTypes, Operations, Operating, Places
  <1>2. AskedNets'
    BY DEF AskedNets, Operating, Moves
  <1>3. OpNets'
    BY DEF OpNets, Operating, Moves
  <1>4. OpTodo'
    BY DEF OpTodo
  <1>5. OpRound'
    BY DEF OpRound, VerifyRetries
  <1>6. PlaceOfKind'
    BY DEF PlaceOfKind, Moves
  <1>7. Awaits'
    BY DEF Awaits, CommandAt, Set, Directed, ToUnit, Local
  <1>8. Settles'
    BY DEF Settles
  <1>9. Parks'
    BY DEF Parks, Away
  <1>10. AdoptsInPlace'
    BY DEF AdoptsInPlace, Adopts, Arms
  <1>11. Armed'
    BY DEF Armed, Arms, Persists
  <1>12. MovedStay'
    BY DEF MovedStay, Done, Arms, Persists, Moves
  <1>13. QED
    BY <1>1, <1>2, <1>3, <1>4, <1>5, <1>6, <1>7, <1>8, <1>9, <1>10, <1>11, <1>12

LEMMA BackendStep ==
    ASSUME PairInv, BackendRestart
    PROVE  PairInv'
  <1> USE PairBounds DEF PairInv, BackendRestart, Fault, Orphaned, radioVars, opVars, histVars
  <1>1. PairTypes'
    BY DEF PairTypes, Operations, Operating, Places
  <1>2. AskedNets'
    BY DEF AskedNets, Operating, Moves
  <1>3. OpNets'
    BY DEF OpNets, Operating, Moves
  <1>4. OpTodo'
    BY DEF OpTodo
  <1>5. OpRound'
    BY DEF OpRound, VerifyRetries
  <1>6. PlaceOfKind'
    BY DEF PlaceOfKind, Moves
  <1>7. Awaits'
    BY DEF Awaits, CommandAt, Set, Directed, ToUnit, Local
  <1>8. Settles'
    BY DEF Settles
  <1>9. Parks'
    BY DEF Parks, Away
  <1>10. AdoptsInPlace'
    BY DEF AdoptsInPlace, Adopts, Arms
  <1>11. Armed'
    BY DEF Armed, Arms, Persists
  <1>12. MovedStay'
    <2>1. excused' = (excused \/ pc # "idle")
      OBVIOUS
    <2>2. ASSUME ~excused' PROVE ~excused /\ pc = "idle"
      BY <2>1, <2>2
    <2>3. QED
      BY <2>2 DEF MovedStay, Done, Persists
  <1>13. QED
    BY <1>1, <1>2, <1>3, <1>4, <1>5, <1>6, <1>7, <1>8, <1>9, <1>10, <1>11, <1>12

LEMMA DriverStep ==
    ASSUME PairInv, DriverRestart
    PROVE  PairInv'
  <1> USE PairBounds DEF PairInv, DriverRestart, Fault, Orphaned, Idle, radioVars, opVars, histVars
  <1>1. PairTypes'
    <2>1. op' \in Operations
      <3>1. <<>> \in Seq(Units)
        OBVIOUS
      <3>2. QED
        BY <3>1 DEF Operations
    <2>2. QED
      BY <2>1 DEF PairTypes, Places
  <1>2. AskedNets'
    BY DEF AskedNets, Operating, Moves
  <1>3. OpNets'
    BY DEF OpNets, Operating, Moves
  <1>4. OpTodo'
    BY DEF OpTodo
  <1>5. OpRound'
    BY DEF OpRound, VerifyRetries
  <1>6. PlaceOfKind'
    BY DEF PlaceOfKind, Moves
  <1>7. Awaits'
    BY DEF Awaits, CommandAt, Set, Directed, ToUnit, Local
  <1>8. Settles'
    BY DEF Settles
  <1>9. Parks'
    BY DEF Parks, Away
  <1>10. AdoptsInPlace'
    BY DEF AdoptsInPlace, Adopts, Arms
  <1>11. Armed'
    BY DEF Armed, Arms, Persists
  <1>12. MovedStay'
    BY DEF MovedStay, Done, Arms, Persists, Moves
  <1>13. QED
    BY <1>1, <1>2, <1>3, <1>4, <1>5, <1>6, <1>7, <1>8, <1>9, <1>10, <1>11, <1>12

LEMMA RecoverStep ==
    ASSUME PairInv, Recover
    PROVE  PairInv'
  <1> USE PairBounds DEF PairInv, Recover, Fault, Orphaned, radioVars, opVars, histVars
  <1>1. PairTypes'
    BY DEF PairTypes, Operations, Operating, Places
  <1>2. AskedNets'
    BY DEF AskedNets, Operating, Moves
  <1>3. OpNets'
    BY DEF OpNets, Operating, Moves
  <1>4. OpTodo'
    BY DEF OpTodo
  <1>5. OpRound'
    BY DEF OpRound, VerifyRetries
  <1>6. PlaceOfKind'
    BY DEF PlaceOfKind, Moves
  <1>7. Awaits'
    BY DEF Awaits, CommandAt, Set, Directed, ToUnit, Local
  <1>8. Settles'
    BY DEF Settles
  <1>9. Parks'
    BY DEF Parks, Away
  <1>10. AdoptsInPlace'
    BY DEF AdoptsInPlace, Adopts, Arms
  <1>11. Armed'
    BY DEF Armed, Arms, Persists
  <1>12. MovedStay'
    BY DEF MovedStay, Done, Arms, Persists, Moves
  <1>13. QED
    BY <1>1, <1>2, <1>3, <1>4, <1>5, <1>6, <1>7, <1>8, <1>9, <1>10, <1>11, <1>12

(* Execute takes the oldest command.                                       *)
Takes(ok) ==
    /\ cmdQ # <<>> /\ cmdQ' = Tail(cmdQ)
    /\ call' = IF Awaited THEN IF ok THEN "ok" ELSE "fail" ELSE call
    /\ UNCHANGED <<conf, inventory, ask, pc, todo, round, verified, failed, cancelled,
                   status, ops, faults, parkedBy, excused>>

LEMMA Taken ==
    ASSUME PairInv, NEW ok \in BOOLEAN, Takes(ok)
    PROVE  /\ Head(cmdQ) \in Commands /\ Head(cmdQ) = cmdQ[1] /\ 1 \in 1 .. Len(cmdQ)
           /\ cmdQ' \in Seq(Commands)
           /\ \A i \in 1 .. Len(cmdQ') : cmdQ'[i] = cmdQ[i + 1] /\ i + 1 \in 1 .. Len(cmdQ)
           /\ call # "ok" /\ pc' = pc
           /\ Awaited => /\ cmdQ' = <<>> /\ Len(cmdQ') = 0 /\ Head(cmdQ) = CommandAt(pc)
                         /\ pc \in Places \ Local /\ call = "waiting"
                         /\ call' = IF ok THEN "ok" ELSE "fail"
           /\ ~Awaited => call' = call
           /\ ~Awaited /\ call = "waiting" => cmdQ' # <<>> /\ cmdQ'[Len(cmdQ')] = CommandAt(pc)
  <1> USE DEF PairInv, Takes
  <1>1. cmdQ \in Seq(Commands) /\ cmdQ # <<>> /\ pc \in Places
    BY DEF PairTypes
  <1>2. /\ Tail(cmdQ) \in Seq(Commands) /\ Head(cmdQ) \in Commands /\ Head(cmdQ) = cmdQ[1]
        /\ Len(Tail(cmdQ)) = Len(cmdQ) - 1
        /\ \A i \in 1 .. Len(Tail(cmdQ)) : Tail(cmdQ)[i] = cmdQ[i + 1] /\ i + 1 \in 1 .. Len(cmdQ)
    BY <1>1, TailOfQueue
  <1>3. Len(cmdQ) \in Nat /\ Len(cmdQ) # 0
    BY <1>1
  <1>4. cmdQ' = Tail(cmdQ) /\ Len(cmdQ') = Len(cmdQ) - 1 /\ call # "ok"
    BY <1>1, <1>2 DEF Awaits
  <1>5. call = "waiting" => cmdQ[Len(cmdQ)] = CommandAt(pc) /\ pc \notin Local
    BY DEF Awaits
  <1>6. ASSUME Awaited
        PROVE  cmdQ' = <<>> /\ Head(cmdQ) = CommandAt(pc) /\ pc \in Places \ Local /\ call = "waiting"
               /\ call' = IF ok THEN "ok" ELSE "fail"
    <2>1. Len(cmdQ) = 1 /\ call = "waiting"
      BY <1>6 DEF Awaited
    <2>2. Tail(cmdQ) = <<>>
      BY <1>2, <2>1
    <2>3. QED
      BY <1>1, <1>2, <1>4, <1>5, <1>6, <2>1, <2>2
  <1>7. ASSUME ~Awaited, call = "waiting" PROVE cmdQ' # <<>> /\ cmdQ'[Len(cmdQ')] = CommandAt(pc)
    <2>1. Len(cmdQ) > 1
      BY <1>3, <1>7 DEF Awaited
    <2>2. Len(Tail(cmdQ)) \in 1 .. Len(Tail(cmdQ)) /\ Len(Tail(cmdQ)) + 1 = Len(cmdQ)
      BY <1>2, <1>3, <2>1
    <2>3. Tail(cmdQ)[Len(Tail(cmdQ))] = cmdQ[Len(cmdQ)]
      BY <1>2, <2>2
    <2>4. cmdQ'[Len(cmdQ')] = Tail(cmdQ)[Len(Tail(cmdQ))]
      BY <1>4
    <2>5. cmdQ[Len(cmdQ)] = CommandAt(pc)
      BY <1>5, <1>7
    <2>6. Tail(cmdQ) # <<>>
      BY <1>2, <1>3, <2>1
    <2>7. QED
      BY <1>4, <2>3, <2>4, <2>5, <2>6
  <1>8. \A i \in 1 .. Len(cmdQ') : cmdQ'[i] = cmdQ[i + 1] /\ i + 1 \in 1 .. Len(cmdQ)
    BY <1>2, <1>4
  <1>9. cmdQ' \in Seq(Commands) /\ 1 \in 1 .. Len(cmdQ) /\ pc' = pc
    BY <1>2, <1>3, <1>4
  <1>10. ~Awaited => call' = call
    OBVIOUS
  <1>11. Awaited => Len(cmdQ') = 0
    BY <1>6
  <1>12. QED
    BY <1>2, <1>4, <1>6, <1>7, <1>8, <1>9, <1>10, <1>11

LEMMA ExecuteSetStep ==
    ASSUME PairInv, NEW ok \in BOOLEAN, Takes(ok), RunSet(Head(cmdQ), ok)
    PROVE  PairInv'
  <1> DEFINE c == Head(cmdQ)
  <1> USE PairBounds, Taken DEF PairInv, Takes
  <1>a. /\ c \in Commands /\ c.cmd = "set" /\ c = cmdQ[1] /\ 1 \in 1 .. Len(cmdQ)
        /\ IF ok THEN module' = TargetOf(c.net) /\ opNet' = Adopted(c.net)
                 ELSE module' \in {module, TargetOf(c.net)} /\ opNet' = opNet
        /\ settled' = (ok /\ c.net.pan # Rendezvous /\ \A i \in 2..Len(cmdQ) : cmdQ[i].cmd # "set")
        /\ UNCHANGED <<at, primed, op>>
    BY DEF RunSet
  <1>b. ~excused => ~(pc \in Persists \cup {"verify"} \/ Done)
    BY <1>a DEF MovedStay
  <1> HIDE DEF c
  <1>1. PairTypes'
    <2>1. c.net \in Nets \cup RestoreNets
      BY <1>a DEF Commands
    <2>2. TargetOf(c.net) \in Nets /\ Operating(Adopted(c.net))
      BY <2>1 DEF TargetOf, Adopted, RestoreNets, Operating, PairTypes
    <2>3. module' \in Nets \cup {NoNet} /\ Operating(opNet')
      BY <1>a, <2>2 DEF PairTypes
    <2>4. QED
      BY <1>a, <2>3 DEF PairTypes
  <1>2. AskedNets'
    BY DEF AskedNets, Operating, Moves
  <1>3. OpNets'
    BY <1>a DEF OpNets, Operating, Moves
  <1>4. OpTodo'
    BY <1>a DEF OpTodo
  <1>5. OpRound'
    BY <1>a DEF OpRound
  <1>6. PlaceOfKind'
    BY <1>a DEF PlaceOfKind, Moves
  <1>7. Awaits'
    <2>1. CommandAt(pc)' = CommandAt(pc)
      BY <1>a DEF CommandAt, Set, Directed, ToUnit
    <2>2. QED
      BY <2>1 DEF Awaits, Local
  <1>8. Settles'
    <2>1. ASSUME settled' PROVE module' = opNet'
      <3>1. ok /\ c.net.pan # Rendezvous
        BY <1>a, <2>1, Zenon
      <3>2. QED
        BY <1>a, <3>1 DEF TargetOf, Adopted
    <2>2. ASSUME settled', NEW i \in 1 .. Len(cmdQ') PROVE cmdQ'[i].cmd # "set"
      <3>1. cmdQ'[i] = cmdQ[i + 1] /\ i + 1 \in 2 .. Len(cmdQ)
        OBVIOUS
      <3>2. QED
        BY <1>a, <2>2, <3>1
    <2>3. QED
      BY <2>1, <2>2 DEF Settles
  <1>9. Parks'
    BY <1>a DEF Parks, Away
  <1>10. AdoptsInPlace'
    BY DEF AdoptsInPlace, Adopts
  <1>11. Armed'
    <2>1. ASSUME ~excused, pc \in Arms, call' = "ok" PROVE opNet' = op.goal /\ module' = op.goal
      <3>1. Awaited /\ ok /\ c = CommandAt(pc) /\ pc \in Places \ Local
        BY <2>1 DEF c
      <3>2. c.net = Net(op.goal.pan, op.goal.ch)
        BY <2>1, <3>1, CommandKinds
      <3>3. op.goal \in Nets /\ op.goal.pan # Rendezvous /\ op.goal.pan # Restore
        BY <2>1, NetParts DEF OpNets, PlaceOfKind, Moves, Arms, Operating
      <3>4. c.net = op.goal
        BY <3>2, <3>3, NetParts
      <3>5. QED
        BY <1>a, <3>1, <3>3, <3>4 DEF TargetOf, Adopted
    <2>2. QED
      BY <1>a, <1>b, <2>1 DEF Armed
  <1>12. MovedStay'
    BY <1>a, <1>b DEF MovedStay, Done
  <1>13. QED
    BY <1>1, <1>2, <1>3, <1>4, <1>5, <1>6, <1>7, <1>8, <1>9, <1>10, <1>11, <1>12

LEMMA ExecuteFrameStep ==
    ASSUME PairInv, NEW ok \in BOOLEAN, Takes(ok), RunFrame(Head(cmdQ), ok)
    PROVE  PairInv'
  <1> DEFINE c == Head(cmdQ)
  <1> USE PairBounds, Taken DEF PairInv, Takes
  <1>a. /\ c \in Commands /\ c.cmd \in {"prime", "hop", "commit"} /\ c = cmdQ[1] /\ 1 \in 1 .. Len(cmdQ)
        /\ UNCHANGED <<module, opNet, op, settled>>
    BY DEF RunFrame
  <1>b. ~excused => ~(pc \in Persists \cup {"verify"} \/ Done)
    BY <1>a DEF MovedStay
  <1>1. PairTypes'
    <2>1. c.net \in Nets /\ c.serial \in Units
      BY <1>a DEF Commands
    <2>2. at' \in [Units -> Nets] /\ primed' \in [Units -> Nets \cup {NoNet}]
      BY <2>1 DEF RunFrame, PairTypes
    <2>3. QED
      BY <1>a, <2>2 DEF PairTypes
  <1>2. AskedNets'
    BY DEF AskedNets, Operating, Moves
  <1>3. OpNets'
    BY <1>a DEF OpNets, Operating, Moves
  <1>4. OpTodo'
    BY <1>a DEF OpTodo
  <1>5. OpRound'
    BY <1>a DEF OpRound
  <1>6. PlaceOfKind'
    BY <1>a DEF PlaceOfKind, Moves
  <1>7. Awaits'
    <2>1. CommandAt(pc)' = CommandAt(pc)
      BY <1>a DEF CommandAt, Set, Directed, ToUnit
    <2>2. QED
      BY <2>1 DEF Awaits, Local
  <1>8. Settles'
    BY <1>a DEF Settles
  <1>9. Parks'
    BY <1>a DEF Parks, Away
  <1>10. AdoptsInPlace'
    BY DEF AdoptsInPlace, Adopts
  <1>11. Armed'
    <2>1. ASSUME ~excused, pc \in Arms, call' = "ok" PROVE FALSE
      <3>1. Awaited /\ c = CommandAt(pc) /\ pc \in Places \ Local
        BY <2>1
      <3>2. QED
        BY <1>a, <2>1, <3>1, CommandKinds
    <2>2. QED
      BY <1>a, <1>b, <2>1 DEF Armed
  <1>12. MovedStay'
    BY <1>a, <1>b DEF MovedStay, Done
  <1>13. QED
    BY <1>1, <1>2, <1>3, <1>4, <1>5, <1>6, <1>7, <1>8, <1>9, <1>10, <1>11, <1>12

LEMMA ExecuteQueryStep ==
    ASSUME PairInv, NEW ok \in BOOLEAN, Takes(ok), RunQuery(Head(cmdQ), ok)
    PROVE  PairInv'
  <1> DEFINE c == Head(cmdQ)
  <1> USE PairBounds, Taken DEF PairInv, Takes
  <1>a. /\ c \in Commands /\ c.cmd \in {"report", "quiet", "addr", "config"} /\ c = cmdQ[1] /\ 1 \in 1 .. Len(cmdQ)
        /\ UNCHANGED <<module, opNet, at, primed, settled>>
    BY DEF RunQuery, radioVars
  <1>b. \/ op' = op
         \/ /\ Awaited /\ pc \in {"bind.config", "evict.config"} /\ op' \in Operations
            /\ op'.goal \in Nets /\ op'.kind = op.kind /\ op'.list = op.list /\ op.kind \notin Moves \cup {"sweep"}
    <2>1. op \in Operations /\ opNet \in Nets /\ conf \in Nets
      BY DEF PairTypes, Operating
    <2>2. CASE c.cmd # "config"
      BY <2>2 DEF RunQuery
    <2>3. CASE c.cmd = "config" /\ ~Awaited
      <3>1. op' = [op EXCEPT !.goal = op.goal]
        BY <2>3 DEF RunQuery
      <3>2. QED
        BY <2>1, <3>1 DEF Operations
    <2>4. CASE c.cmd = "config" /\ Awaited
      <3>1. c = CommandAt(pc) /\ pc \in Places \ Local
        BY <2>4
      <3>2. pc \in {"bind.config", "evict.config"}
        BY <2>4, <3>1, CommandKinds
      <3>3. op.kind \notin Moves \cup {"sweep"}
        BY <3>2 DEF PlaceOfKind, Moves
      <3>4. PICK n \in Nets : op' = [op EXCEPT !.goal = n]
        BY <2>1, <2>4, NetParts DEF RunQuery
      <3>5. QED
        BY <2>1, <2>4, <3>2, <3>3, <3>4 DEF Operations
    <2>5. QED
      BY <2>2, <2>3, <2>4
  <1> HIDE DEF c
  <1>1. PairTypes'
    BY <1>a, <1>b DEF PairTypes
  <1>2. AskedNets'
    BY DEF AskedNets, Operating, Moves
  <1>3. OpNets'
    BY <1>b DEF OpNets, Operating, Moves
  <1>4. OpTodo'
    BY <1>b DEF OpTodo
  <1>5. OpRound'
    BY <1>b DEF OpRound
  <1>6. PlaceOfKind'
    BY <1>b DEF PlaceOfKind, Moves
  <1>7. Awaits'
    <2>1. CASE op' = op
      <3>1. CommandAt(pc)' = CommandAt(pc)
        BY <2>1 DEF CommandAt, Set, Directed, ToUnit
      <3>2. QED
        BY <3>1 DEF Awaits, Local
    <2>2. CASE Awaited
      BY <2>2 DEF Awaits, Local
    <2>3. QED
      BY <1>b, <2>1, <2>2
  <1>8. Settles'
    BY <1>a DEF Settles
  <1>9. Parks'
    BY <1>a DEF Parks, Away
  <1>10. AdoptsInPlace'
    BY DEF AdoptsInPlace, Adopts
  <1>11. Armed'
    <2>1. ASSUME ~excused, pc \in Arms, call' = "ok" PROVE FALSE
      <3>1. Awaited /\ c = CommandAt(pc) /\ pc \in Places \ Local
        BY <2>1 DEF c
      <3>2. QED
        BY <1>a, <2>1, <3>1, CommandKinds
    <2>2. pc \in Persists \cup {"verify"} => op' = op
      BY <1>b DEF Persists
    <2>3. QED
      BY <1>a, <2>1, <2>2 DEF Armed
  <1>12. MovedStay'
    <2>1. pc \in Persists \cup {"verify", "idle"} => op' = op
      BY <1>b DEF Persists
    <2>2. ASSUME ~excused, pc = "verify", call' = "ok" PROVE at[Head(todo)] = op.goal
      <3>1. Awaited /\ ok /\ c = CommandAt(pc) /\ pc \in Places \ Local /\ call = "waiting"
        BY <2>2 DEF c
      <3>2. todo # <<>>
        BY <2>2, <3>1 DEF OpTodo
      <3>3. c.cmd = "addr" /\ c.serial = Head(todo)
        BY <2>2, <3>1, <3>2, CommandKinds
      <3>4. Hears(Head(todo)) /\ Head(todo) \in Units
        BY <1>a, <3>1, <3>3 DEF RunQuery, c, Commands
      <3>5. module = op.goal /\ op.goal \in Nets /\ op.goal.pan # Rendezvous
        BY <2>2, <3>4 DEF Hears, Armed, OpNets, PlaceOfKind, Operating
      <3>6. at[Head(todo)] \in Nets
        BY <3>4 DEF PairTypes
      <3>7. at[Head(todo)].ch = op.goal.ch /\ at[Head(todo)].pan = op.goal.pan
        BY <3>4, <3>5 DEF Hears
      <3>8. QED
        BY <3>5, <3>6, <3>7, NetParts
    <2>3. ~excused /\ (pc \in Persists \cup {"verify"} \/ Done) => \A i \in 1 .. Len(cmdQ') : cmdQ'[i].cmd = "addr"
      BY DEF MovedStay
    <2>4. QED
      BY <1>a, <2>1, <2>2, <2>3 DEF MovedStay, Done
  <1>13. QED
    BY <1>1, <1>2, <1>3, <1>4, <1>5, <1>6, <1>7, <1>8, <1>9, <1>10, <1>11, <1>12

LEMMA ExecuteStep == PairInv /\ Execute => PairInv'
  <1> SUFFICES ASSUME PairInv, Execute PROVE PairInv'
    OBVIOUS
  <1>1. PICK ok \in BOOLEAN :
          Takes(ok) /\ (RunSet(Head(cmdQ), ok) \/ RunFrame(Head(cmdQ), ok) \/ RunQuery(Head(cmdQ), ok))
    BY DEF Execute, Takes
  <1>2. QED
    BY <1>1, ExecuteSetStep, ExecuteFrameStep, ExecuteQueryStep

(* The invariant holds at first, and every step keeps it.                  *)
LEMMA InitPair == Init => PairInv
  <1> SUFFICES ASSUME Init PROVE PairInv
    OBVIOUS
  <1> USE PairBounds DEF Init
  <1>1. Operating(Home) /\ Home \in Nets
    BY HomeIsOperating DEF Operating
  <1>2. Idle \in Operations /\ Idle.kind = "none" /\ <<>> \in Seq(Units)
    BY DEF Idle, Operations
  <1>3. cmdQ \in Seq(Commands) /\ Len(cmdQ) = 0
    OBVIOUS
  <1>4. at \in [Units -> Nets] /\ primed \in [Units -> Nets \cup {NoNet}]
    <2>1. {Home} \cup ForeignNets \subseteq Nets
      BY <1>1
    <2>2. QED
      BY <2>1
  <1>5. PairTypes
    BY <1>1, <1>2, <1>3, <1>4 DEF PairTypes, Places
  <1>6. AskedNets /\ OpNets /\ OpTodo /\ PlaceOfKind
    BY <1>2 DEF AskedNets, OpNets, OpTodo, PlaceOfKind, Moves
  <1>7. OpRound
    BY DEF OpRound, VerifyRetries
  <1>8. Awaits /\ Settles /\ Parks /\ AdoptsInPlace
    BY <1>3 DEF Awaits, Settles, Parks, AdoptsInPlace, Local
  <1>9. Armed /\ MovedStay
    BY <1>3 DEF Armed, MovedStay, Done, Arms, Persists
  <1>10. QED
    BY <1>5, <1>6, <1>7, <1>8, <1>9 DEF PairInv

LEMMA AskStep ==
    ASSUME PairInv,
           \/ \E k \in Kinds, s \in Units : AskUnit(k, s)
           \/ \E p \in Pans, c \in RekeyChannels : AskRekey(p, c)
           \/ \E c \in Channels : AskChannel(c)
    PROVE  PairInv'
  <1> USE PairBounds, NetParts
  <1>1. /\ opNet \in Nets /\ opNet.pan \in Pans /\ opNet.ch \in Channels
        /\ conf \in Nets /\ conf.ch \in Channels /\ Fleet \in Seq(Units) /\ <<>> \in Seq(Units)
    <2>1. Operating(opNet) /\ Operating(conf)
      BY DEF PairInv, PairTypes
    <2>2. Fleet \in Seq(Units)
      BY KeptIsSeq DEF Fleet
    <2>3. QED
      BY <2>1, <2>2 DEF Operating
  <1>2. \A p \in Pans, c \in Channels : Operating(Net(p, c))
    BY DEF Operating
  <1>3. ASSUME NEW k \in Kinds, NEW s \in Units, AskUnit(k, s) PROVE PairInv'
    <2>1. Net(Rendezvous, conf.ch) \in Nets /\ k \in KindNames /\ k \notin Moves
      BY <1>1, <1>3 DEF AskUnit, Moves
    <2>2. QED
      BY <1>1, <1>3, <2>1, RequestStep DEF AskUnit
  <1>4. ASSUME NEW p \in Pans, NEW c \in RekeyChannels, AskRekey(p, c) PROVE PairInv'
    <2> DEFINE ch == IF c = 0 THEN conf.ch ELSE c
    <2>1. ch \in Channels
      BY <1>1
    <2>2. Request("rekey", Serials[1], Net(opNet.pan, ch), Net(p, ch), Fleet)
      BY <1>4 DEF AskRekey
    <2> HIDE DEF ch
    <2>3. Net(opNet.pan, ch) \in Nets /\ Net(p, ch) \in Nets /\ Operating(Net(opNet.pan, ch)) /\ Operating(Net(p, ch))
      BY <1>1, <1>2, <2>1
    <2>4. "rekey" \in KindNames
      BY DEF KindNames
    <2>5. QED
      BY <1>1, <2>2, <2>3, <2>4, RequestStep
  <1>5. ASSUME NEW c \in Channels, AskChannel(c) PROVE PairInv'
    <2>1. Request("channel", Serials[1], opNet, Net(opNet.pan, c), Fleet)
      BY <1>5 DEF AskChannel
    <2>2. Net(opNet.pan, c) \in Nets /\ Operating(Net(opNet.pan, c)) /\ Operating(opNet)
      BY <1>1, <1>2 DEF PairInv, PairTypes
    <2>3. "channel" \in KindNames
      BY DEF KindNames
    <2>4. QED
      BY <1>1, <2>1, <2>2, <2>3, RequestStep
  <1>6. QED
    BY <1>3, <1>4, <1>5

LEMMA StepPair == PairInv /\ [Next]_vars => PairInv'
  <1> SUFFICES ASSUME PairInv, [Next]_vars PROVE PairInv'
    OBVIOUS
  <1>1. CASE \/ \E k \in Kinds, s \in Units : AskUnit(k, s)
             \/ \E p \in Pans, c \in RekeyChannels : AskRekey(p, c)
             \/ \E c \in Channels : AskChannel(c)
    BY <1>1, AskStep
  <1>2. CASE StartOp \/ Abort \/ Issue \/ GiveUp
    BY <1>2, StartStep, AbortStep, IssueStep, GiveUpStep
  <1>3. CASE Execute
    BY <1>3, ExecuteStep
  <1>4. CASE OpStep
    BY <1>4, FastScanStep, ScanEndStep, SweepStep, BindStep, MigrateStep, ConfigureStep, RemoveStep, RekeyStep,
       ChannelStep, PersistStep, RollbackStep, VerifyStep DEF OpStep
  <1>5. CASE LinkDrop \/ BackendRestart \/ DriverRestart \/ Recover
    BY <1>5, LinkDropStep, BackendStep, DriverStep, RecoverStep
  <1>6. CASE UNCHANGED vars
    <2> USE <1>6 DEF PairInv, vars
    <2>1. PairTypes' /\ AskedNets' /\ OpNets' /\ OpTodo' /\ OpRound' /\ PlaceOfKind'
      BY DEF PairTypes, AskedNets, OpNets, OpTodo, OpRound, PlaceOfKind
    <2>2. CommandAt(pc)' = CommandAt(pc)
      BY DEF CommandAt, Set, Directed, ToUnit
    <2>3. Awaits' /\ Settles' /\ Parks' /\ AdoptsInPlace'
      BY <2>2 DEF Awaits, Settles, Parks, Away, AdoptsInPlace
    <2>4. Armed' /\ MovedStay'
      BY DEF Armed, MovedStay, Done
    <2>5. QED
      BY <2>1, <2>3, <2>4
  <1>7. QED
    BY <1>1, <1>2, <1>3, <1>4, <1>5, <1>6 DEF Next

LEMMA PairingKeepsInv == Spec => []PairInv
  BY InitPair, StepPair, PTL DEF Spec

-----------------------------------------------------------------------------
(* The theorems of the pairing operations.                                 *)

(* ecu-zb never takes the rendezvous PAN for its operating net             *)
(* (ecu-zb/pairing.go:99-116), and however many commands were given up and *)
(* run late, the module is on the operating net once the newest            *)
(* set_module_pan was acked and was no park.                               *)
THEOREM RadioComesHome == Spec => []RadioHome
  <1>1. PairInv => RadioHome
    BY DEF PairInv, PairTypes, Operating, Settles, RadioHome
  <1>2. QED
    BY <1>1, PairingKeepsInv, PTL

(* Scans, migrations and rekeys park the module on the rendezvous PAN; an  *)
(* operation that ends undisturbed has asked for it back, unless it is a   *)
(* fast scan whose park failed (statemachine.go:70-118, 315-339).          *)
THEOREM NoOpStaysParked == Spec => []NoOpEndsParked
  <1>1. PairInv => TypeOK
    BY DEF PairInv, PairTypes, Operating, OpRound, TypeOK
  <1>2. PairInv => (pc = "idle" /\ ~excused => parkedBy \in {"none", "scan"})
    BY DEF PairInv, Parks, Away
  <1>3. PairInv => NoOpEndsParked
    BY <1>1, <1>2 DEF NoOpEndsParked
  <1>4. QED
    BY <1>3, PairingKeepsInv, PTL

(* A rekey or channel change that reports done has moved every inverter of *)
(* its snapshot (pairing.go:355-430): the answers it counted came over the *)
(* new net, and no command that was given up can still move an inverter.   *)
THEOREM DoneHasMoved == Spec => []DoneMeansMoved
  <1>1. PairInv => DoneMeansMoved
    <2> SUFFICES ASSUME PairInv, status = "done", op.kind \in {"rekey", "channel"}, ~excused
                 PROVE  \A s \in Range(op.list) : at[s] = op.goal
      BY DEF DoneMeansMoved
    <2>1. pc = "idle"
      BY DEF PairInv, PlaceOfKind
    <2>2. Done
      BY <2>1 DEF Done, Moves
    <2>3. QED
      BY <2>2 DEF PairInv, MovedStay
  <1>2. QED
    BY <1>1, PairingKeepsInv, PTL

(* The settings are only ever given the PAN or the channel the radio has   *)
(* adopted before (rekey.go:120-131, channel.go:117-131).                  *)
THEOREM PersistsFollow == Spec => PersistFollowsAdoption
  <1> DEFINE A == ~excused => \/ conf' = conf
                              \/ conf'.pan = opNet.pan /\ conf'.ch = conf.ch
                              \/ conf'.ch = opNet.ch /\ conf'.pan = conf.pan
  <1>1. ASSUME PairInv, [Next]_vars PROVE A
    <2>1. CASE Persist /\ ~excused
      <3>1. conf \in Nets /\ conf = [pan |-> conf.pan, ch |-> conf.ch]
        BY <1>1 DEF PairInv, PairTypes, Operating, Nets
      <3>2. opNet = op.goal
        BY <1>1, <2>1 DEF PairInv, Armed, Persist, At, Persists
      <3>3. QED
        BY <2>1, <3>1, <3>2 DEF Persist
    <2>2. CASE ~Persist
      <3>1. conf' = conf
        BY <1>1, <2>2 DEF Next, vars, radioVars, histVars, opVars, AskUnit, AskRekey, AskChannel, Request, StartOp,
           Abort,
           Issue, GiveUp, Execute, OpStep, FastScan, ScanEnd, SweepScan, BindAndMigrate, MigrateOne, Configure,
              RemoveUnit,
           RunRekey, RunChangeChannel, Rollback, RebindVerify, LinkDrop, BackendRestart, DriverRestart, Recover
      <3>2. QED
        BY <3>1
    <2>3. QED
      BY <2>1, <2>2
  <1>2. PairInv /\ [Next]_vars => [A]_vars
    BY <1>1
  <1>3. QED
    BY <1>2, PairingKeepsInv, PTL DEF Spec, PersistFollowsAdoption

-----------------------------------------------------------------------------
(* The settings and the radio, when rekeys keep the channel: what a        *)
(* request recorded, and where the operating net may leave the settings.   *)
AskedKeeps ==
    ask # NoAsk =>
        /\ ask.kind = "rekey" =>
              ask.old.pan = ask.seen[1].pan /\ ask.old.ch = ask.goal.ch /\ ask.goal.ch = ask.seen[2].ch
        /\ ask.kind = "channel" => ask.old = ask.seen[1] /\ ask.goal.pan = ask.seen[1].pan
KeepsNet ==
    ~excused =>
        /\ pc \notin Arms \cup Persists \cup {"rollback"} => conf = opNet
        /\ pc \in Arms /\ call = "ready" => conf = opNet /\ \A i \in 1 .. Len(cmdQ) : ~Adopts(cmdQ[i])
        /\ pc = "rollback" /\ call = "ok" => conf = opNet
        /\ op.kind \in Moves /\ pc \notin {"idle", "verify"} =>
              /\ conf = op.old
              /\ op.kind = "rekey" => op.goal.ch = conf.ch
              /\ op.kind = "channel" => op.goal.pan = conf.pan
KeepInv == PairInv /\ AskedKeeps /\ KeepsNet

LEMMA AskKeepsNet ==
    ASSUME RekeyChannels = {0}, KeepInv,
           \/ \E k \in Kinds, s \in Units : AskUnit(k, s)
           \/ \E p \in Pans, c \in RekeyChannels : AskRekey(p, c)
           \/ \E c \in Channels : AskChannel(c)
    PROVE  AskedKeeps' /\ KeepsNet'
  <1> USE DEF KeepInv, Request, histVars, radioVars
  <1>1. ASSUME NEW k \in Kinds, NEW s \in Units, AskUnit(k, s) PROVE AskedKeeps' /\ KeepsNet'
    BY <1>1 DEF AskUnit, AskedKeeps, KeepsNet
  <1>2. ASSUME NEW p \in Pans, NEW c \in RekeyChannels, AskRekey(p, c) PROVE AskedKeeps' /\ KeepsNet'
    BY <1>2 DEF AskRekey, AskedKeeps, KeepsNet, Net
  <1>3. ASSUME NEW c \in Channels, AskChannel(c) PROVE AskedKeeps' /\ KeepsNet'
    BY <1>3 DEF AskChannel, AskedKeeps, KeepsNet, Net
  <1>4. QED
    BY <1>1, <1>2, <1>3

LEMMA StartKeepsNet ==
    ASSUME KeepInv, StartOp
    PROVE  AskedKeeps' /\ KeepsNet'
  <1> USE PairBounds DEF KeepInv, StartOp, radioVars, opVars
  <1>1. AskedKeeps'
    BY DEF AskedKeeps
  <1>2. CASE pc # "idle"
    BY <1>1, <1>2 DEF KeepsNet
  <1>3. CASE pc = "idle" /\ excused'
    BY <1>1, <1>3 DEF KeepsNet
  <1>4. CASE pc = "idle" /\ ~excused'
    <2>1. ask.seen = <<opNet, conf>> /\ ~excused
      BY <1>4
    <2>2. conf = opNet
      BY <1>4, <2>1 DEF KeepsNet, Arms, Persists
    <2>3. ask \in Asked
      BY DEF PairInv, PairTypes
    <2>4. pc' \notin Arms \cup Persists \cup {"rollback"}
      BY <1>4, <2>3 DEF Asked, KindNames, FirstPlace, Arms, Persists
    <2>5. op'.kind = ask.kind /\ op'.old = ask.old /\ op'.goal = ask.goal
      BY <1>4
    <2>6. ask.old \in Nets /\ conf \in Nets /\ ask.seen[1] = opNet /\ ask.seen[2] = conf
      BY <2>1, <2>3 DEF Asked, PairInv, PairTypes, Operating
    <2>7. ASSUME ask.kind \in Moves
          PROVE  /\ conf = ask.old
                 /\ ask.kind = "rekey" => ask.goal.ch = conf.ch
                 /\ ask.kind = "channel" => ask.goal.pan = conf.pan
      <3>1. ask.old.pan = conf.pan /\ ask.old.ch = conf.ch
        BY <2>2, <2>6, <2>7 DEF AskedKeeps, Moves
      <3>2. conf = ask.old
        BY <2>6, <3>1, NetParts
      <3>3. QED
        BY <2>2, <2>6, <2>7, <3>2 DEF AskedKeeps, Moves
    <2>8. QED
      BY <1>1, <2>2, <2>4, <2>5, <2>7 DEF KeepsNet
  <1>5. QED
    BY <1>1, <1>2, <1>3, <1>4

LEMMA SendKeepsNet ==
    ASSUME KeepInv, Abort \/ Issue \/ GiveUp
    PROVE  AskedKeeps' /\ KeepsNet'
  BY DEF KeepInv, Abort, Issue, GiveUp, radioVars, opVars, histVars, AskedKeeps, KeepsNet

LEMMA ExecuteKeepsNet ==
    ASSUME KeepInv, Execute
    PROVE  AskedKeeps' /\ KeepsNet'
  <1>1. PICK ok \in BOOLEAN :
          Takes(ok) /\ (RunSet(Head(cmdQ), ok) \/ RunFrame(Head(cmdQ), ok) \/ RunQuery(Head(cmdQ), ok))
    BY DEF Execute, Takes
  <1> USE DEF KeepInv
  <1>2. AskedKeeps'
    BY <1>1 DEF Takes, AskedKeeps
  <1>3. /\ UNCHANGED <<conf, pc, excused>> /\ op'.kind = op.kind /\ op'.old = op.old
        /\ op.kind \in Moves => op'.goal = op.goal
    <2>1. op \in Operations
      BY DEF PairInv, PairTypes
    <2>2. CASE op' = op
      BY <1>1, <2>2 DEF Takes
    <2>3. CASE RunQuery(Head(cmdQ), ok) /\ op' # op
      <3>1. op' = [op EXCEPT !.goal = op'.goal] /\ (Awaited \/ op'.goal = op.goal) /\ Head(cmdQ).cmd = "config"
        BY <2>1, <2>3 DEF RunQuery, Operations
      <3>2. Awaited => pc \in {"bind.config", "evict.config"}
        BY <1>1, <3>1, Taken, CommandKinds
      <3>3. QED
        BY <1>1, <2>1, <3>1, <3>2 DEF Takes, Operations, PairInv, PlaceOfKind, Moves
    <2>4. QED
      BY <1>1, <2>2, <2>3 DEF RunSet, RunFrame
  <1>4. ASSUME ~excused, opNet' # opNet
        PROVE  /\ Awaited => pc \in Arms \cup {"rollback"} /\ opNet' = Net(CommandAt(pc).net.pan, CommandAt(pc).net.ch)
               /\ ~(pc \in Arms /\ call = "ready")
               /\ pc \in Arms \cup {"rollback"}
    <2>1. RunSet(Head(cmdQ), ok) /\ opNet' = Head(cmdQ).net /\ Adopts(Head(cmdQ))
      BY <1>1, <1>4 DEF RunSet, RunFrame, RunQuery, radioVars, Adopted, Adopts
    <2>2. Head(cmdQ) = cmdQ[1] /\ 1 \in 1 .. Len(cmdQ) /\ Head(cmdQ) \in Commands
      BY <1>1, Taken
    <2>3. pc \in Arms \cup {"rollback"} /\ ~(pc \in Arms /\ call = "ready")
      BY <1>4, <2>1, <2>2 DEF PairInv, AdoptsInPlace, KeepsNet
    <2>4. Head(cmdQ).net \in Nets
      BY <2>1, <2>2 DEF Commands, RestoreNets, Adopts
    <2>5. QED
      BY <1>1, <2>1, <2>3, <2>4, Taken, NetParts
  <1>5. ASSUME ~excused, pc = "rollback", call' = "ok" PROVE conf = opNet'
    <2>1. Awaited /\ ok /\ Head(cmdQ) = CommandAt(pc) /\ pc \in Places \ Local
      BY <1>1, <1>5, Taken
    <2>2. op.kind \in Moves /\ conf = op.old /\ Operating(op.old)
      BY <1>5 DEF PairInv, PlaceOfKind, OpNets, KeepsNet
    <2>3. Head(cmdQ).cmd = "set" /\ Head(cmdQ).net = op.old
      BY <1>5, <2>1, <2>2, CommandKinds, NetParts DEF Operating
    <2>4. op.old.pan \notin {Restore, Rendezvous}
      BY <2>2, NetParts, PairBounds DEF Operating
    <2>5. QED
      BY <1>1, <2>1, <2>2, <2>3, <2>4 DEF RunSet, RunFrame, RunQuery, Adopted
  <1>6. pc \in Arms /\ call' = "ready" => call = "ready"
    BY <1>1 DEF Takes
  <1>7. \A i \in 1 .. Len(cmdQ') : cmdQ'[i] = cmdQ[i + 1] /\ i + 1 \in 1 .. Len(cmdQ)
    BY <1>1, Taken
  <1>8. KeepsNet'
    BY <1>3, <1>4, <1>5, <1>6, <1>7 DEF KeepsNet, Adopts
  <1>9. QED
    BY <1>2, <1>8

LEMMA OpKeepsNet ==
    ASSUME KeepInv, OpStep
    PROVE  AskedKeeps' /\ KeepsNet'
  <1> USE DEF KeepInv, OpStep, radioVars
  <1>1. AskedKeeps'
    BY DEF AskedKeeps
  <1>2. UNCHANGED <<opNet, cmdQ, op>>
    BY DEF FastScan, ScanEnd, SweepScan, BindAndMigrate, MigrateOne, Configure, RemoveUnit, RunRekey,
       RunChangeChannel,
           Persist, Rollback, RebindVerify, opVars
  <1>3. CASE \/ FastScan \/ ScanEnd \/ SweepScan \/ BindAndMigrate \/ MigrateOne \/ RemoveUnit
             \/ \E old \in Units : Configure(old)
    <2>1. /\ op.kind \notin Moves /\ UNCHANGED <<conf, excused>>
          /\ pc \notin Arms \cup Persists \cup {"rollback"} /\ pc' \notin Arms \cup Persists \cup {"rollback"}
      BY <1>3 DEF FastScan, ScanEnd, SweepScan, BindAndMigrate, MigrateOne, Configure, RemoveUnit, Returned, At, Goto,
         Finish, Fail, FailedMigration, PairInv, PlaceOfKind, Moves, Arms, Persists
    <2>2. QED
      BY <1>1, <1>2, <2>1 DEF KeepsNet
  <1>4. CASE RunRekey \/ RunChangeChannel
    <2>1. UNCHANGED <<conf, excused>> /\ pc \notin {"idle", "verify"} /\ pc # "rollback" /\ call' = "ready"
      BY <1>4 DEF RunRekey, RunChangeChannel, Returned, At, Goto
    <2>2. pc' \notin Persists \cup {"rollback"} => pc \notin Arms \cup Persists \cup {"rollback"}
      BY <1>4 DEF RunRekey, RunChangeChannel, Returned, At, Goto, AfterSettle, Arms, Persists
    <2>3. ASSUME ~excused, pc' \in Arms PROVE \A i \in 1 .. Len(cmdQ) : ~Adopts(cmdQ[i])
      BY <2>2, <2>3 DEF PairInv, AdoptsInPlace, Arms, Persists
    <2>4. QED
      BY <1>1, <1>2, <2>1, <2>2, <2>3 DEF KeepsNet, Arms, Persists
  <1>5. CASE Persist
    <2>1. ASSUME ~excused PROVE conf' = opNet
      <3>1. opNet = op.goal /\ op.goal \in Nets
        BY <1>5, <2>1 DEF Persist, At, Persists, PairInv, Armed, PairTypes, Operating
      <3>2. conf \in Nets
        BY DEF PairInv, PairTypes, Operating
      <3>3. op.kind = "rekey" => op.goal.ch = conf.ch
        BY <1>5, <2>1 DEF Persist, At, KeepsNet, Moves
      <3>4. op.kind = "channel" => op.goal.pan = conf.pan
        BY <1>5, <2>1 DEF Persist, At, KeepsNet, Moves
      <3>5. CASE op.kind = "rekey" /\ conf' = [conf EXCEPT !.pan = op.goal.pan]
        BY <3>1, <3>2, <3>3, <3>5 DEF Nets
      <3>6. CASE op.kind = "channel" /\ conf' = [conf EXCEPT !.ch = op.goal.ch]
        BY <3>1, <3>2, <3>4, <3>6 DEF Nets
      <3>7. QED
        BY <1>5, <3>5, <3>6 DEF Persist, At, PairInv, PlaceOfKind
    <2>2. pc' = "verify" /\ UNCHANGED excused
      BY <1>5 DEF Persist, Goto
    <2>3. QED
      BY <1>1, <1>2, <2>1, <2>2 DEF KeepsNet, Arms, Persists
  <1>6. CASE Rollback
    <2>1. pc = "rollback" /\ pc' = "idle" /\ (call = "ok" \/ excused') /\ (excused => excused') /\ conf' = conf
      BY <1>6 DEF Rollback, Returned, Finish
    <2>2. QED
      BY <1>1, <1>2, <2>1 DEF KeepsNet, Arms, Persists
  <1>7. CASE RebindVerify
    <2>1. pc = "verify" /\ pc' \in {"verify", "idle"} /\ UNCHANGED <<conf, excused>>
      BY <1>7 DEF RebindVerify, Returned, At, Goto, Finish
    <2>2. QED
      BY <1>1, <1>2, <2>1 DEF KeepsNet, Arms, Persists
  <1>8. QED
    BY <1>1, <1>3, <1>4, <1>5, <1>6, <1>7

LEMMA FaultKeepsNet ==
    ASSUME KeepInv, LinkDrop \/ BackendRestart \/ DriverRestart \/ Recover
    PROVE  AskedKeeps' /\ KeepsNet'
  <1> USE DEF KeepInv, Fault, radioVars, opVars, histVars
  <1>1. CASE LinkDrop
    <2>1. PICK k \in 0 .. Len(cmdQ) - 1 : cmdQ' = SubSeq(cmdQ, 1, k)
      BY <1>1 DEF LinkDrop
    <2>2. cmdQ \in Seq(Commands) /\ k \in 0 .. Len(cmdQ)
      BY <2>1 DEF PairInv, PairTypes
    <2>3. \A i \in 1 .. Len(cmdQ') : cmdQ'[i] = cmdQ[i] /\ i \in 1 .. Len(cmdQ)
      BY <2>1, <2>2, PrefixOfQueue
    <2>4. call' = call \/ call' = "orphaned"
      BY <1>1 DEF LinkDrop, Orphaned
    <2>5. UNCHANGED <<conf, opNet, op, pc, ask, excused>>
      BY <1>1 DEF LinkDrop
    <2>6. QED
      BY <2>3, <2>4, <2>5 DEF AskedKeeps, KeepsNet
  <1>2. CASE BackendRestart
    <2>1. UNCHANGED <<conf, op, pc, ask>> /\ opNet' = conf /\ cmdQ' = <<>> /\ (excused => excused')
          /\ (~excused' => pc = "idle")
      BY <1>2 DEF BackendRestart
    <2>2. QED
      BY <2>1 DEF AskedKeeps, KeepsNet
  <1>3. CASE DriverRestart
    BY <1>3 DEF DriverRestart, AskedKeeps, KeepsNet, Arms, Persists
  <1>4. CASE Recover
    BY <1>4 DEF Recover, AskedKeeps, KeepsNet
  <1>5. QED
    BY <1>1, <1>2, <1>3, <1>4

(* Between operations the persisted settings name the net the radio        *)
(* operates on (ecu-zb/main.go:428-431), provided that no rekey names a    *)
(* channel of its own: one that does rolls back to a net the fleet was     *)
(* never on.                                                               *)
THEOREM RestartsKeepNet ==
    ASSUME RekeyChannels = {0}
    PROVE  Spec => []RestartKeepsNet
  <1>1. Init => KeepInv
    <2> SUFFICES ASSUME Init PROVE KeepInv
      OBVIOUS
    <2>1. AskedKeeps /\ KeepsNet
      BY DEF Init, AskedKeeps, KeepsNet, Idle, Moves, Arms, Persists
    <2>2. QED
      BY <2>1, InitPair DEF KeepInv
  <1>2. KeepInv /\ [Next]_vars => KeepInv'
    <2> SUFFICES ASSUME KeepInv, [Next]_vars PROVE KeepInv'
      OBVIOUS
    <2>1. PairInv'
      BY StepPair DEF KeepInv
    <2>2. AskedKeeps' /\ KeepsNet'
      <3>1. CASE UNCHANGED vars
        BY <3>1 DEF vars, KeepInv, AskedKeeps, KeepsNet
      <3>2. CASE Next
        BY <3>2, AskKeepsNet, StartKeepsNet, SendKeepsNet, ExecuteKeepsNet, OpKeepsNet, FaultKeepsNet DEF Next
      <3>3. QED
        BY <3>1, <3>2
    <2>3. QED
      BY <2>1, <2>2 DEF KeepInv
  <1>3. KeepInv => RestartKeepsNet
    BY DEF KeepInv, KeepsNet, RestartKeepsNet, Arms, Persists
  <1>4. QED
    BY <1>1, <1>2, <1>3, PTL DEF Spec

-----------------------------------------------------------------------------
(* Presence: the inductive invariant.                                      *)

(* Every inverter's trackers agree: what the two clocks can differ by, and *)
(* how long the sweep counts an inverter as dark.                          *)
ClocksAgree ==
    \A i \in Inv : seen[i] # Never =>
        \/ armed[i] = Never
        \/ seen[i] <= armed[i] + MaxLate
        \/ frame.inv = i /\ frame.pc = "mark" /\ (frame.hooked \/ seen[i] <= ReseenGap + MaxLate)
DarkSince ==
    \A i \in Inv :
        /\ seen[i] = Never => offSince[i] = Never
        /\ seen[i] # Never /\ offSince[i] # Never =>
              seen[i] = Top \/ offSince[i] + OnlineWindow <= seen[i] \/ seen[i] <= MaxLate + sweepAge
RaisedAfterClear ==
    \A i \in Inv : raiseAge[i] # Never =>
        /\ fault[i].seeded
        /\ ~fault[i].raised => fault[i].cleared # Never /\ fault[i].cleared <= raiseAge[i]
PresInv == PresenceTypeOK /\ ClocksAgree /\ DarkSince /\ RaisedAfterClear

LEMMA AgeBounds ==
    /\ OnlineWindow \in Nat \ {0} /\ OfflineDebounce \in Nat \ {0} /\ ReseenGap \in Nat \ {0}
    /\ CoalesceWindow \in Nat \ {0} /\ SweepEvery \in Nat \ {0} /\ MaxLate \in Nat /\ Never \notin Nat
    /\ OnlineWindow + OfflineDebounce > ReseenGap + MaxLate /\ SweepEvery + MaxLate <= OnlineWindow
    /\ Top = OnlineWindow + OfflineDebounce + 1 /\ Ages = 0 .. Top \cup {Never} /\ Never \notin 0 .. Top
    /\ \A n : Never \notin 0 .. n
  BY ThresholdAssumption, NeverAssumption DEF Top, Ages

FrameStates == [inv : Inv \cup {Never}, late : 0 .. MaxLate, bit : {"set", "clear", "unclassified"},
                hooked : BOOLEAN, pc : {"idle", "first", "mark", "store", "faults"}]
LEMMA NoFrameState == NoFrame \in FrameStates
  BY AgeBounds DEF NoFrame, FrameStates

LEMMA InitPresence == PresenceInit => PresInv
  <1> SUFFICES ASSUME PresenceInit PROVE PresInv
    OBVIOUS
  <1> USE AgeBounds DEF PresenceInit, AllNever
  <1>1. PresenceTypeOK
    <2>1. /\ seen \in [Inv -> Ages] /\ armed \in [Inv -> Ages] /\ offSince \in [Inv -> Ages]
          /\ raiseAge \in [Inv -> 0 .. CoalesceWindow \cup {Never}]
          /\ online \in [Inv -> BOOLEAN] /\ fleetOnline \in BOOLEAN /\ row \in [Inv -> BOOLEAN]
      OBVIOUS
    <2>2. fault \in [Inv -> [seeded : BOOLEAN, raised : BOOLEAN, cleared : 0 .. CoalesceWindow \cup {Never}]]
      BY DEF Unseeded
    <2>3. frame \in FrameStates
      BY NoFrameState
    <2>4. removal \in [inv : Inv \cup {Never}, pc : {"idle", "prot", "online", "faults"}] /\ sweepAge \in 0 .. SweepEvery
      BY DEF NoRemoval
    <2>5. QED
      BY <2>1, <2>2, <2>3, <2>4 DEF PresenceTypeOK, FrameStates
  <1>2. ClocksAgree /\ DarkSince /\ RaisedAfterClear
    BY DEF ClocksAgree, DarkSince, RaisedAfterClear
  <1>3. QED
    BY <1>1, <1>2 DEF PresInv

(* A unit passes for every age alike.                                      *)
LEMMA AgesPass ==
    /\ \A a \in Ages : /\ Older(a) \in Ages /\ (Older(a) = Never <=> a = Never)
                       /\ a # Never => Older(a) = IF a < Top THEN a + 1 ELSE Top
    /\ \A a \in 0 .. CoalesceWindow \cup {Never} :
          LET b == OlderUpTo(a, CoalesceWindow)
          IN  /\ b \in 0 .. CoalesceWindow \cup {Never} /\ (b = Never <=> a = Never)
              /\ a # Never => b = IF a < CoalesceWindow THEN a + 1 ELSE CoalesceWindow
  BY AgeBounds DEF Older, OlderUpTo

LEMMA PassStep ==
    ASSUME PresInv, PassTime
    PROVE  PresInv'
  <1> USE AgeBounds DEF PresInv, PassTime
  <1>1. \A i \in Inv : /\ seen[i] \in Ages /\ armed[i] \in Ages /\ offSince[i] \in Ages
                       /\ raiseAge[i] \in 0 .. CoalesceWindow \cup {Never}
                       /\ fault[i] \in [seeded : BOOLEAN, raised : BOOLEAN, cleared : 0 .. CoalesceWindow \cup {Never}]
    BY DEF PresenceTypeOK
  <1>2. \A i \in Inv : /\ seen'[i] = Older(seen[i]) /\ armed'[i] = Older(armed[i]) /\ offSince'[i] = Older(offSince[i])
                       /\ raiseAge'[i] = OlderUpTo(raiseAge[i], CoalesceWindow)
    OBVIOUS
  <1>3. \A i \in Inv :
          /\ fault'[i] \in [seeded : BOOLEAN, raised : BOOLEAN, cleared : 0 .. CoalesceWindow \cup {Never}]
          /\ fault'[i].seeded = fault[i].seeded /\ fault'[i].raised = fault[i].raised
          /\ fault'[i].cleared = OlderUpTo(fault[i].cleared, CoalesceWindow)
    BY <1>1, AgesPass
  <1>4. PresenceTypeOK'
    <2>1. sweepAge' \in 0 .. SweepEvery
      BY DEF PresenceTypeOK
    <2>2. /\ seen' \in [Inv -> Ages] /\ armed' \in [Inv -> Ages] /\ offSince' \in [Inv -> Ages]
          /\ raiseAge' \in [Inv -> 0 .. CoalesceWindow \cup {Never}]
      BY <1>1, AgesPass
    <2>3. fault' \in [Inv -> [seeded : BOOLEAN, raised : BOOLEAN, cleared : 0 .. CoalesceWindow \cup {Never}]]
      BY <1>3
    <2>4. QED
      BY <2>1, <2>2, <2>3 DEF PresenceTypeOK
  <1>5. ClocksAgree'
    <2>1. frame.pc # "mark" /\ frame' = frame
      BY DEF NoFrame
    <2>2. SUFFICES ASSUME NEW i \in Inv, seen'[i] # Never, armed'[i] # Never PROVE seen'[i] <= armed'[i] + MaxLate
      BY DEF ClocksAgree
    <2>3. seen[i] # Never /\ armed[i] # Never
      BY <1>1, <1>2, <2>2, AgesPass
    <2>4. seen[i] <= armed[i] + MaxLate
      BY <2>1, <2>3 DEF ClocksAgree
    <2>5. QED
      BY <1>1, <1>2, <2>3, <2>4, AgesPass
  <1>6. DarkSince'
    <2>1. SUFFICES ASSUME NEW i \in Inv
                   PROVE  /\ seen'[i] = Never => offSince'[i] = Never
                          /\ seen'[i] # Never /\ offSince'[i] # Never =>
                                \/ seen'[i] = Top \/ offSince'[i] + OnlineWindow <= seen'[i]
                                \/ seen'[i] <= MaxLate + sweepAge'
      BY DEF DarkSince
    <2>2. CASE seen[i] = Never
      BY <1>1, <1>2, <2>2, AgesPass DEF DarkSince
    <2>3. CASE seen[i] # Never /\ offSince[i] = Never
      BY <1>1, <1>2, <2>3, AgesPass
    <2>4. CASE seen[i] # Never /\ offSince[i] # Never
      <3>1. seen[i] = Top \/ offSince[i] + OnlineWindow <= seen[i] \/ seen[i] <= MaxLate + sweepAge
        BY <2>4 DEF DarkSince
      <3>2. sweepAge \in Nat /\ sweepAge' = sweepAge + 1
        BY DEF PresenceTypeOK
      <3>3. QED
        BY <1>1, <1>2, <2>4, <3>1, <3>2, AgesPass
    <2>5. QED
      BY <2>2, <2>3, <2>4
  <1>7. RaisedAfterClear'
    <2>1. SUFFICES ASSUME NEW i \in Inv, raiseAge'[i] # Never
                   PROVE  /\ fault'[i].seeded
                          /\ ~fault'[i].raised => fault'[i].cleared # Never /\ fault'[i].cleared <= raiseAge'[i]
      BY DEF RaisedAfterClear
    <2>2. raiseAge[i] # Never
      BY <1>1, <1>2, <2>1, AgesPass
    <2>3. fault'[i].seeded
      BY <1>3, <2>2 DEF RaisedAfterClear
    <2>4. ASSUME ~fault'[i].raised PROVE fault'[i].cleared # Never /\ fault'[i].cleared <= raiseAge'[i]
      <3>1. fault[i].cleared # Never /\ fault[i].cleared <= raiseAge[i]
        BY <1>3, <2>2, <2>4 DEF RaisedAfterClear
      <3>2. fault[i].cleared \in 0 .. CoalesceWindow \cup {Never}
        BY <1>1
      <3>3. QED
        BY <1>1, <1>2, <1>3, <2>2, <3>1, <3>2, AgesPass
    <2>5. QED
      BY <2>3, <2>4
  <1>8. QED
    BY <1>4, <1>5, <1>6, <1>7

LEMMA ReceiveStep ==
    ASSUME PresInv, NEW i \in Inv, Receive(i)
    PROVE  PresInv'
  <1> USE AgeBounds DEF PresInv, Receive
  <1>1. PresenceTypeOK'
    BY DEF PresenceTypeOK
  <1>2. ClocksAgree'
    BY DEF ClocksAgree, NoFrame
  <1>3. DarkSince' /\ RaisedAfterClear'
    BY DEF DarkSince, RaisedAfterClear
  <1>4. QED
    BY <1>1, <1>2, <1>3

LEMMA FirstSeenStep ==
    ASSUME PresInv, ProtReadOnFirstSeen
    PROVE  PresInv'
  <1> USE AgeBounds DEF PresInv, ProtReadOnFirstSeen
  <1>1. /\ frame'.inv = frame.inv /\ frame'.pc = "mark" /\ frame'.hooked = IsFirstSeen(frame.inv)
        /\ frame'.late = frame.late /\ frame'.bit = frame.bit
    BY DEF PresenceTypeOK
  <1>2. PresenceTypeOK'
    <2>1. IsFirstSeen(frame.inv) \in BOOLEAN
      BY DEF IsFirstSeen
    <2>2. armed' \in [Inv -> Ages]
      <3>1. armed \in [Inv -> Ages] /\ 0 \in Ages
        BY DEF PresenceTypeOK
      <3>2. armed' = [armed EXCEPT ![frame.inv] = 0]
        OBVIOUS
      <3>3. QED
        BY <3>1, <3>2
    <2>3. QED
      BY <2>1, <2>2 DEF PresenceTypeOK
  <1>3. ClocksAgree'
    <2>1. SUFFICES ASSUME NEW i \in Inv, seen[i] # Never
                   PROVE  \/ armed'[i] = Never
                          \/ seen[i] <= armed'[i] + MaxLate
                          \/ i = frame.inv /\ (frame'.hooked \/ seen[i] <= ReseenGap + MaxLate)
      BY <1>1 DEF ClocksAgree
    <2>2. seen[i] \in Nat /\ armed[i] \in Ages
      BY <2>1 DEF PresenceTypeOK
    <2>3. armed[i] = Never \/ seen[i] <= armed[i] + MaxLate
      BY <2>1 DEF ClocksAgree
    <2>4. CASE i # frame.inv
      BY <2>3, <2>4 DEF PresenceTypeOK
    <2>5. CASE i = frame.inv
      <3>1. CASE IsFirstSeen(i)
        BY <1>1, <2>5, <3>1
      <3>2. CASE ~IsFirstSeen(i)
        <4>1. armed[i] # Never /\ armed[i] \in Nat /\ armed[i] <= ReseenGap
          BY <2>2, <3>2 DEF IsFirstSeen
        <4>2. seen[i] <= ReseenGap + MaxLate
          BY <2>2, <2>3, <4>1
        <4>3. QED
          BY <2>5, <4>2
      <3>3. QED
        BY <3>1, <3>2
    <2>6. QED
      BY <2>4, <2>5
  <1>4. DarkSince' /\ RaisedAfterClear'
    BY DEF DarkSince, RaisedAfterClear
  <1>5. QED
    BY <1>2, <1>3, <1>4

LEMMA MarkSeenStep ==
    ASSUME PresInv, MarkSeen
    PROVE  PresInv'
  <1> USE AgeBounds DEF PresInv, MarkSeen
  <1>1. frame'.pc = "store" /\ frame.late \in 0 .. MaxLate /\ sweepAge \in 0 .. SweepEvery
    BY DEF PresenceTypeOK
  <1>2. PresenceTypeOK'
    <2>1. frame.late \in Ages
      BY <1>1
    <2>2. seen' \in [Inv -> Ages]
      BY <2>1 DEF PresenceTypeOK
    <2>3. QED
      BY <2>2 DEF PresenceTypeOK
  <1>3. \A i \in Inv : seen'[i] = IF i = frame.inv THEN frame.late ELSE seen[i]
    BY DEF PresenceTypeOK
  <1>4. ClocksAgree'
    <2>1. SUFFICES ASSUME NEW i \in Inv, seen'[i] # Never PROVE armed[i] = Never \/ seen'[i] <= armed[i] + MaxLate
      BY <1>1 DEF ClocksAgree
    <2>2. armed[i] \in Ages
      BY DEF PresenceTypeOK
    <2>3. CASE i = frame.inv
      BY <1>1, <1>3, <2>2, <2>3
    <2>4. CASE i # frame.inv
      BY <1>3, <2>1, <2>4 DEF ClocksAgree
    <2>5. QED
      BY <2>3, <2>4
  <1>5. DarkSince'
    BY <1>1, <1>3 DEF DarkSince
  <1>6. RaisedAfterClear'
    BY DEF RaisedAfterClear
  <1>7. QED
    BY <1>2, <1>4, <1>5, <1>6

LEMMA StoreStep ==
    ASSUME PresInv, StoreTelemetry
    PROVE  PresInv'
  <1> USE AgeBounds DEF PresInv, StoreTelemetry
  <1>1. frame' \in FrameStates /\ frame'.pc # "mark" /\ frame.pc # "mark"
    <2>1. frame \in FrameStates
      BY DEF PresenceTypeOK, FrameStates
    <2>2. frame' = NoFrame \/ frame' = [frame EXCEPT !.pc = "faults"]
      OBVIOUS
    <2>3. [frame EXCEPT !.pc = "faults"] \in FrameStates /\ [frame EXCEPT !.pc = "faults"].pc = "faults"
      BY <2>1 DEF FrameStates
    <2>4. NoFrame.pc = "idle"
      BY DEF NoFrame
    <2>5. QED
      BY <2>2, <2>3, <2>4, NoFrameState
  <1>2. PresenceTypeOK'
    <2>1. row' \in [Inv -> BOOLEAN]
      BY DEF PresenceTypeOK
    <2>2. QED
      BY <1>1, <2>1 DEF PresenceTypeOK, FrameStates
  <1>3. ClocksAgree'
    BY <1>1 DEF ClocksAgree
  <1>4. DarkSince' /\ RaisedAfterClear'
    BY DEF DarkSince, RaisedAfterClear
  <1>5. QED
    BY <1>2, <1>3, <1>4

LEMMA MarkFaultsStep ==
    ASSUME PresInv, MarkFaults
    PROVE  PresInv'
  <1> DEFINE j == frame.inv
             raises == fault[j].seeded /\ ~fault[j].raised /\ frame.bit = "set"
             clears == fault[j].seeded /\ fault[j].raised /\ frame.bit = "clear"
             F == [seeded : BOOLEAN, raised : BOOLEAN, cleared : 0 .. CoalesceWindow \cup {Never}]
  <1> USE AgeBounds DEF PresInv
  <1>1. /\ fault \in [Inv -> F] /\ raiseAge \in [Inv -> 0 .. CoalesceWindow \cup {Never}]
        /\ frame.bit \in {"set", "clear", "unclassified"} /\ 0 \in 0 .. CoalesceWindow
    BY DEF PresenceTypeOK
  <1>2. frame' = NoFrame /\ UNCHANGED <<seen, armed, online, offSince, fleetOnline, row, removal, sweepAge>>
        /\ frame.pc = "faults"
    BY DEF MarkFaults
  <1>3. raiseAge' = raiseAge \/ (raises /\ raiseAge' = [raiseAge EXCEPT ![j] = 0])
    BY DEF MarkFaults
  <1>4. \/ fault' = fault /\ ~raises
        \/ /\ ~fault[j].seeded
           /\ \E b \in BOOLEAN : fault' = [fault EXCEPT ![j] = [seeded |-> TRUE, raised |-> b, cleared |-> Never]]
        \/ raises /\ fault' = [fault EXCEPT ![j] = [fault[j] EXCEPT !.raised = TRUE]]
        \/ clears /\ fault' = [fault EXCEPT ![j] = [seeded |-> TRUE, raised |-> FALSE, cleared |-> 0]]
    <2>1. CASE frame.bit = "unclassified"
      BY <2>1 DEF MarkFaults
    <2>2. CASE frame.bit # "unclassified" /\ ~fault[j].seeded
      <3>1. fault' = [fault EXCEPT ![j] = [seeded |-> TRUE, raised |-> frame.bit = "set", cleared |-> Never]]
        BY <2>2 DEF MarkFaults
      <3>2. (frame.bit = "set") \in BOOLEAN
        OBVIOUS
      <3>3. QED
        BY <2>2, <3>1, <3>2
    <2>3. CASE frame.bit # "unclassified" /\ raises
      <3>1. fault' = [fault EXCEPT ![j].raised = TRUE]
        BY <2>3 DEF MarkFaults
      <3>2. [fault EXCEPT ![j].raised = TRUE] = [fault EXCEPT ![j] = [fault[j] EXCEPT !.raised = TRUE]]
        OBVIOUS
      <3>3. QED
        BY <2>3, <3>1, <3>2
    <2>4. CASE frame.bit # "unclassified" /\ clears
      BY <2>4 DEF MarkFaults
    <2>5. CASE frame.bit # "unclassified" /\ fault[j].seeded /\ ~raises /\ ~clears
      BY <2>5 DEF MarkFaults
    <2>6. QED
      BY <2>1, <2>2, <2>3, <2>4, <2>5
  <1> HIDE DEF j, F
  <1>5. \/ fault' = fault /\ ~raises
        \/ \E g \in F : /\ fault' = [fault EXCEPT ![j] = g] /\ g.seeded
                        /\ \/ ~fault[j].seeded /\ ~raises
                           \/ g.raised
                           \/ ~raises /\ g.cleared = 0
    <2>1. CASE /\ ~fault[j].seeded
               /\ \E b \in BOOLEAN : fault' = [fault EXCEPT ![j] = [seeded |-> TRUE, raised |-> b, cleared |-> Never]]
      <3>1. PICK b \in BOOLEAN : fault' = [fault EXCEPT ![j] = [seeded |-> TRUE, raised |-> b, cleared |-> Never]]
        BY <2>1
      <3>2. [seeded |-> TRUE, raised |-> b, cleared |-> Never] \in F
        BY DEF F
      <3>3. QED
        BY <2>1, <3>1, <3>2
    <2>2. CASE raises /\ fault' = [fault EXCEPT ![j] = [fault[j] EXCEPT !.raised = TRUE]]
      <3>1. CASE j \in Inv
        <4>1. [fault[j] EXCEPT !.raised = TRUE] \in F /\ [fault[j] EXCEPT !.raised = TRUE].seeded
              /\ [fault[j] EXCEPT !.raised = TRUE].raised
          BY <1>1, <2>2, <3>1 DEF F
        <4>2. QED
          BY <2>2, <4>1
      <3>2. CASE j \notin Inv
        <4> DEFINE g == [seeded |-> TRUE, raised |-> TRUE, cleared |-> Never]
        <4>1. g \in F /\ fault' = fault /\ [fault EXCEPT ![j] = g] = fault
          BY <1>1, <2>2, <3>2 DEF F
        <4>2. QED
          BY <4>1
      <3>3. QED
        BY <3>1, <3>2
    <2>3. CASE clears /\ fault' = [fault EXCEPT ![j] = [seeded |-> TRUE, raised |-> FALSE, cleared |-> 0]]
      <3> DEFINE g == [seeded |-> TRUE, raised |-> FALSE, cleared |-> 0]
      <3>1. g \in F /\ g.seeded /\ g.cleared = 0 /\ ~raises
        BY <1>1, <2>3 DEF F
      <3>2. fault' = [fault EXCEPT ![j] = g]
        BY <2>3
      <3> HIDE DEF g
      <3>3. QED
        BY <3>1, <3>2
    <2>4. QED
      BY <1>4, <2>1, <2>2, <2>3
  <1> HIDE DEF raises
  <1>6. fault' \in [Inv -> F] /\ raiseAge' \in [Inv -> 0 .. CoalesceWindow \cup {Never}]
    BY <1>1, <1>3, <1>5
  <1>7. PresenceTypeOK'
    BY <1>2, <1>6, NoFrameState DEF PresenceTypeOK, FrameStates, F
  <1>8. ClocksAgree' /\ DarkSince'
    BY <1>2 DEF ClocksAgree, DarkSince
  <1>9. RaisedAfterClear'
    <2>1. SUFFICES ASSUME NEW i \in Inv, raiseAge'[i] # Never
                   PROVE  /\ fault'[i].seeded
                          /\ ~fault'[i].raised => fault'[i].cleared # Never /\ fault'[i].cleared <= raiseAge'[i]
      BY DEF RaisedAfterClear
    <2>2. raiseAge'[i] \in Nat
      BY <1>6, <2>1
    <2>3. CASE i # j
      <3>1. fault'[i] = fault[i] /\ raiseAge'[i] = raiseAge[i]
        BY <1>1, <1>3, <1>5, <2>3
      <3>2. QED
        BY <2>1, <3>1 DEF RaisedAfterClear
    <2>4. CASE fault' = fault /\ ~raises
      BY <1>3, <2>1, <2>4 DEF RaisedAfterClear
    <2>5. CASE i = j /\ ~(fault' = fault /\ ~raises)
      <3>0. PICK g \in F : /\ fault' = [fault EXCEPT ![j] = g] /\ g.seeded
                           /\ (~fault[j].seeded /\ ~raises) \/ g.raised \/ (~raises /\ g.cleared = 0)
        BY <1>5, <2>5
      <3>1. fault'[i] = g
        BY <1>1, <2>5, <3>0
      <3>2. ~raises => raiseAge[i] # Never /\ fault[i].seeded
        BY <1>3, <2>1 DEF RaisedAfterClear
      <3>3. g.raised \/ g.cleared = 0
        BY <2>5, <3>0, <3>2
      <3>4. QED
        BY <2>2, <3>0, <3>1, <3>3
    <2>6. QED
      BY <2>3, <2>4, <2>5
  <1>10. QED
    BY <1>7, <1>8, <1>9

(* How long the sweep counts a silent inverter as dark.                    *)
LEMMA DarkFromSilence ==
    ASSUME PresInv, NEW i \in Inv, seen[i] # Never, ~RawOnline(i)
    PROVE  /\ seen[i] \in Nat /\ DarkFor(i) \in Nat /\ DarkFor(i) \in 0 .. Top
           /\ seen[i] = Top \/ DarkFor(i) + OnlineWindow <= seen[i]
  <1> USE AgeBounds DEF PresInv
  <1>1. seen[i] \in 0 .. Top /\ offSince[i] \in 0 .. Top \cup {Never} /\ sweepAge \in 0 .. SweepEvery
    BY DEF PresenceTypeOK
  <1>2. seen[i] > OnlineWindow
    BY <1>1 DEF RawOnline
  <1>3. CASE offSince[i] = Never
    BY <1>1, <1>2, <1>3 DEF DarkFor
  <1>4. CASE offSince[i] # Never
    <2>1. seen[i] = Top \/ offSince[i] + OnlineWindow <= seen[i]
      BY <1>1, <1>2, <1>4 DEF DarkSince
    <2>2. QED
      BY <1>1, <1>2, <1>4, <2>1 DEF DarkFor
  <1>5. QED
    BY <1>3, <1>4

LEMMA SweepOnlineStep ==
    ASSUME PresInv, OnlineSweep
    PROVE  PresInv'
  <1> USE AgeBounds DEF PresInv, OnlineSweep
  <1>1. PresenceTypeOK'
    <2>1. \A i \in Inv : seen[i] # Never /\ ~RawOnline(i) => DarkFor(i) \in Ages
      BY DarkFromSilence
    <2>2. offSince' \in [Inv -> Ages]
      BY <2>1 DEF PresenceTypeOK
    <2>3. online' \in [Inv -> BOOLEAN]
      BY DEF PresenceTypeOK, GoesOffline
    <2>4. fleetOnline' \in BOOLEAN /\ sweepAge' \in 0 .. SweepEvery
      OBVIOUS
    <2>5. QED
      BY <2>2, <2>3, <2>4 DEF PresenceTypeOK
  <1>2. ClocksAgree'
    BY DEF ClocksAgree
  <1>3. DarkSince'
    <2>1. SUFFICES ASSUME NEW i \in Inv
                   PROVE  /\ seen[i] = Never => offSince'[i] = Never
                          /\ seen[i] # Never /\ offSince'[i] # Never =>
                                seen[i] = Top \/ offSince'[i] + OnlineWindow <= seen[i]
      BY DEF DarkSince
    <2>2. offSince'[i] = IF seen[i] = Never THEN offSince[i]
                         ELSE IF RawOnline(i) THEN Never ELSE IF online[i] THEN DarkFor(i) ELSE offSince[i]
      OBVIOUS
    <2>3. CASE seen[i] = Never
      BY <2>2, <2>3 DEF DarkSince
    <2>4. CASE seen[i] # Never /\ RawOnline(i)
      BY <2>2, <2>4
    <2>5. CASE seen[i] # Never /\ ~RawOnline(i) /\ online[i]
      BY <2>2, <2>5, DarkFromSilence
    <2>6. CASE seen[i] # Never /\ ~RawOnline(i) /\ ~online[i]
      <3>1. offSince'[i] = offSince[i]
        BY <2>2, <2>6
      <3>2. seen[i] \in Nat /\ seen[i] > OnlineWindow /\ sweepAge \in 0 .. SweepEvery
        BY <2>6 DEF PresenceTypeOK, RawOnline
      <3>3. QED
        BY <2>6, <3>1, <3>2 DEF DarkSince
    <2>7. QED
      BY <2>3, <2>4, <2>5, <2>6
  <1>4. RaisedAfterClear'
    BY DEF RaisedAfterClear
  <1>5. QED
    BY <1>1, <1>2, <1>3, <1>4

LEMMA RemovalsStep ==
    ASSUME PresInv, (\E i \in Inv : DeleteInverter(i)) \/ RemovalStep
    PROVE  PresInv'
  <1> USE AgeBounds DEF PresInv
  <1>1. ASSUME NEW i \in Inv, DeleteInverter(i) PROVE PresInv'
    <2>1. PresenceTypeOK'
      BY <1>1 DEF DeleteInverter, PresenceTypeOK
    <2>2. ClocksAgree' /\ DarkSince' /\ RaisedAfterClear'
      BY <1>1 DEF DeleteInverter, ClocksAgree, DarkSince, RaisedAfterClear
    <2>3. QED
      BY <2>1, <2>2
  <1>2. CASE ForgetProtection
    <2>1. PresenceTypeOK'
      BY <1>2 DEF ForgetProtection, PresenceTypeOK
    <2>2. \A i \in Inv : armed'[i] = IF i = removal.inv THEN Never ELSE armed[i]
      BY <1>2 DEF ForgetProtection, PresenceTypeOK
    <2>3. ClocksAgree' /\ DarkSince' /\ RaisedAfterClear'
      BY <1>2, <2>2 DEF ForgetProtection, ClocksAgree, DarkSince, RaisedAfterClear
    <2>4. QED
      BY <2>1, <2>3
  <1>3. CASE ForgetOnline
    <2>1. PresenceTypeOK'
      BY <1>3 DEF ForgetOnline, PresenceTypeOK
    <2>2. \A i \in Inv : /\ seen'[i] = IF i = removal.inv THEN Never ELSE seen[i]
                         /\ offSince'[i] = IF i = removal.inv THEN Never ELSE offSince[i]
      BY <1>3 DEF ForgetOnline, PresenceTypeOK
    <2>3. ClocksAgree' /\ DarkSince' /\ RaisedAfterClear'
      BY <1>3, <2>2 DEF ForgetOnline, ClocksAgree, DarkSince, RaisedAfterClear
    <2>4. QED
      BY <2>1, <2>3
  <1>4. CASE ForgetFaults
    <2>1. PresenceTypeOK'
      BY <1>4 DEF ForgetFaults, PresenceTypeOK, Unseeded, NoRemoval
    <2>2. \A i \in Inv : /\ raiseAge'[i] = IF i = removal.inv THEN Never ELSE raiseAge[i]
                         /\ i # removal.inv => fault'[i] = fault[i]
      BY <1>4 DEF ForgetFaults, PresenceTypeOK
    <2>3. ClocksAgree' /\ DarkSince' /\ RaisedAfterClear'
      BY <1>4, <2>2 DEF ForgetFaults, ClocksAgree, DarkSince, RaisedAfterClear
    <2>4. QED
      BY <2>1, <2>3
  <1>5. QED
    BY <1>1, <1>2, <1>3, <1>4 DEF RemovalStep

LEMMA RestartStep ==
    ASSUME PresInv, DaemonRestart
    PROVE  PresInv'
  <1> USE AgeBounds DEF PresInv, DaemonRestart, AllNever
  <1>1. PresenceTypeOK'
    <2>1. /\ seen' \in [Inv -> Ages] /\ armed' \in [Inv -> Ages] /\ offSince' \in [Inv -> Ages]
          /\ raiseAge' \in [Inv -> 0 .. CoalesceWindow \cup {Never}]
          /\ online' \in [Inv -> BOOLEAN] /\ fleetOnline' \in BOOLEAN /\ row' \in [Inv -> BOOLEAN]
      BY DEF PresenceTypeOK
    <2>2. fault' \in [Inv -> [seeded : BOOLEAN, raised : BOOLEAN, cleared : 0 .. CoalesceWindow \cup {Never}]]
      BY DEF Unseeded
    <2>3. frame' \in FrameStates
      BY NoFrameState
    <2>4. removal' \in [inv : Inv \cup {Never}, pc : {"idle", "prot", "online", "faults"}] /\ sweepAge' \in 0 .. SweepEvery
      BY DEF NoRemoval
    <2>5. QED
      BY <2>1, <2>2, <2>3, <2>4 DEF PresenceTypeOK, FrameStates
  <1>2. ClocksAgree' /\ DarkSince' /\ RaisedAfterClear'
    BY DEF ClocksAgree, DarkSince, RaisedAfterClear
  <1>3. QED
    BY <1>1, <1>2

LEMMA StepPresence == PresInv /\ [PresenceNext]_presenceVars => PresInv'
  <1> SUFFICES ASSUME PresInv, [PresenceNext]_presenceVars PROVE PresInv'
    OBVIOUS
  <1>1. CASE UNCHANGED presenceVars
    BY <1>1 DEF presenceVars, PresInv, PresenceTypeOK, ClocksAgree, DarkSince, RaisedAfterClear
  <1>2. CASE PresenceNext
    BY <1>2, PassStep, ReceiveStep, FirstSeenStep, MarkSeenStep, StoreStep, MarkFaultsStep, SweepOnlineStep,
       RemovalsStep, RestartStep DEF PresenceNext, FrameStep
  <1>3. QED
    BY <1>1, <1>2

LEMMA PresenceKeepsInv == PresenceSpec => []PresInv
  BY InitPresence, StepPresence, PTL DEF PresenceSpec

(* An inverter that is logged as offline is first seen again when it       *)
(* comes back (ingest.go protReadOnFirstSeen, online_events.go), for any   *)
(* thresholds that satisfy ThresholdAssumption: its read-back and its      *)
(* settings are asked for anew.                                            *)
THEOREM OfflineRearms == PresenceSpec => OfflineMeansRearm
  <1> DEFINE A == \A i \in Inv : online[i] /\ ~online'[i] /\ seen'[i] # Never =>
                      IsFirstSeen(i) \/ (frame.inv = i /\ frame.hooked)
  <1>1. PresInv => PresenceTypeOK
    BY DEF PresInv
  <1>2. ASSUME PresInv, [PresenceNext]_presenceVars PROVE A
    <2> USE AgeBounds
    <2>1. SUFFICES ASSUME NEW i \in Inv, online[i], ~online'[i], seen'[i] # Never
                   PROVE  IsFirstSeen(i) \/ (frame.inv = i /\ frame.hooked)
      OBVIOUS
    <2>2. OnlineSweep
      <3>1. CASE ForgetOnline
        BY <1>2, <2>1, <3>1 DEF ForgetOnline, PresInv, PresenceTypeOK
      <3>2. CASE DaemonRestart
        BY <2>1, <3>2 DEF DaemonRestart, AllNever
      <3>3. CASE ~ForgetOnline /\ ~DaemonRestart /\ ~OnlineSweep
        <4>1. online' = online
          BY <1>2, <3>3 DEF PresenceNext, presenceVars, PassTime, FrameStep, ProtReadOnFirstSeen, MarkSeen,
             StoreTelemetry,
             MarkFaults, RemovalStep, ForgetProtection, ForgetFaults, Receive, DeleteInverter
        <4>2. QED
          BY <2>1, <4>1
      <3>4. QED
        BY <3>1, <3>2, <3>3
    <2>3. GoesOffline(i) /\ seen[i] # Never
      BY <2>1, <2>2 DEF OnlineSweep
    <2>4. seen[i] \in Nat /\ seen[i] >= OnlineWindow + OfflineDebounce
      BY <1>2, <2>3, DarkFromSilence DEF GoesOffline
    <2>5. armed[i] \in Nat \cup {Never}
      BY <1>2 DEF PresInv, PresenceTypeOK
    <2>6. \/ armed[i] = Never \/ seen[i] <= armed[i] + MaxLate
          \/ frame.inv = i /\ (frame.hooked \/ seen[i] <= ReseenGap + MaxLate)
      BY <1>2, <2>3 DEF PresInv, ClocksAgree
    <2>7. QED
      BY <2>4, <2>5, <2>6 DEF IsFirstSeen
  <1>3. PresInv /\ [PresenceNext]_presenceVars => [A]_presenceVars
    BY <1>2
  <1>4. QED
    BY <1>1, <1>3, PresenceKeepsInv, PTL DEF PresenceSpec, OfflineMeansRearm

(* A fault that flaps is logged as raised at most once per coalesce window *)
(* of a run of the daemon (fault_events.go markFaults), the safety part of *)
(* SilenceIsLogged.  Its clears are all logged.                            *)
THEOREM FlapStaysQuiet == PresenceSpec => FlapIsQuiet
  <1> DEFINE A == \A i \in Inv : raiseAge[i] # 0 /\ raiseAge'[i] = 0 =>
                      raiseAge[i] = Never \/ raiseAge[i] >= CoalesceWindow
  <1>1. ASSUME PresInv, [PresenceNext]_presenceVars PROVE A
    <2> USE AgeBounds
    <2>1. SUFFICES ASSUME NEW i \in Inv, raiseAge[i] # 0, raiseAge'[i] = 0, raiseAge[i] # Never
                   PROVE  raiseAge[i] >= CoalesceWindow
      OBVIOUS
    <2>2. raiseAge[i] \in 0 .. CoalesceWindow /\ raiseAge \in [Inv -> 0 .. CoalesceWindow \cup {Never}]
      BY <1>1, <2>1 DEF PresInv, PresenceTypeOK
    <2>3. MarkFaults
      <3>1. CASE PassTime
        <4>1. raiseAge'[i] = OlderUpTo(raiseAge[i], CoalesceWindow)
          BY <3>1 DEF PassTime
        <4>2. QED
          BY <2>1, <2>2, <4>1, AgesPass
      <3>2. CASE ForgetFaults
        BY <2>1, <2>2, <3>2 DEF ForgetFaults
      <3>3. CASE DaemonRestart
        BY <2>1, <3>3 DEF DaemonRestart, AllNever
      <3>4. CASE ~PassTime /\ ~ForgetFaults /\ ~DaemonRestart /\ ~MarkFaults
        <4>1. raiseAge' = raiseAge
          BY <1>1, <3>4 DEF PresenceNext, presenceVars, FrameStep, ProtReadOnFirstSeen, MarkSeen, StoreTelemetry,
             OnlineSweep, RemovalStep, ForgetProtection, ForgetOnline, Receive, DeleteInverter
        <4>2. QED
          BY <2>1, <4>1
      <3>5. QED
        BY <3>1, <3>2, <3>3, <3>4
    <2>4. fault[i].seeded /\ ~fault[i].raised /\ ~Swallowed(fault[i])
      BY <2>1, <2>2, <2>3 DEF MarkFaults
    <2>5. fault[i].cleared # Never /\ fault[i].cleared <= raiseAge[i]
      BY <1>1, <2>1, <2>4 DEF PresInv, RaisedAfterClear
    <2>6. fault[i].cleared \in Nat
      BY <1>1, <2>5 DEF PresInv, PresenceTypeOK
    <2>7. QED
      BY <2>2, <2>4, <2>5, <2>6 DEF Swallowed
  <1>2. PresInv /\ [PresenceNext]_presenceVars => [A]_presenceVars
    BY <1>1
  <1>3. QED
    BY <1>2, PresenceKeepsInv, PTL DEF PresenceSpec, FlapIsQuiet

=============================================================================
