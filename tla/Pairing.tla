------------------------------ MODULE Pairing ------------------------------
(***************************************************************************)
(* Pairing operations over the air: the operation goroutine of inv-driver  *)
(* (internal/pairing), the command transport to ecu-zb, the pairing        *)
(* adapter of ecu-zb, the radio module and the inverters.                  *)
(*                                                                         *)
(* At most one operation runs (module BusLock).  It issues one command at  *)
(* a time and waits for the result, a timeout or its context; a command    *)
(* that was given up is still on its way.  ecu-zb reads commands in order  *)
(* and runs each to completion before it reads the next.                   *)
(*                                                                         *)
(* A net is a PAN and a channel.  An inverter hears the module when both   *)
(* are on the same channel and on the same PAN, or the module is on the    *)
(* rendezvous PAN.  Directed frames to inverters are not acknowledged and  *)
(* may be lost.                                                            *)
(***************************************************************************)
EXTENDS Naturals, Sequences, SequencesExt

CONSTANTS
    Serials,       \* serials in the order of the inventory, a sequence
    Pans,          \* PANs a fleet may use, as requests name them
    Channels,      \* channels requests name; 0 in RekeyChannels keeps the current one
    RekeyChannels,
    ScanChannels,  \* chan_lo..chan_hi of a slow scan, a sequence
    ForeignNets,   \* where inverters outside the inventory are found at first
    Kinds,         \* the operations that are asked for
    CommitRounds,  \* commitRounds
    MaxOps,        \* bound on the operations asked for
    MaxFaults,     \* bound on restarts, link drops and module wedges
    NoNet, NoAsk

Rendezvous == "FFFF"
Restore == "0"
Nets == [pan : Pans \cup {Rendezvous}, ch : Channels]
Units == Range(Serials)

ASSUME PairingAssumption ==
    /\ Serials \in Seq(Units) \ {<<>>} /\ ScanChannels \in Seq(Channels)
    /\ Rendezvous \notin Pans /\ Restore \notin Pans /\ Pans # {} /\ Channels # {}
    /\ Channels \subseteq Nat \ {0} /\ RekeyChannels \subseteq Channels \cup {0}
    /\ ForeignNets \subseteq Nets /\ NoNet \notin Nets
    /\ CommitRounds \in Nat \ {0} /\ MaxOps \in Nat /\ MaxFaults \in Nat
    /\ Kinds \subseteq {"scan", "sweep", "add", "replace", "rekey", "channel", "remove", "delete"}

VARIABLES
    module,          \* the net the radio is on; NoNet after a reset that was not re-armed
    opNet,           \* pairingAdapter.opPAN and opChannel
    conf,            \* the persisted settings: pan_override and channel
    at, primed,      \* each inverter: its net, the net it is primed with
    inventory,       \* serials with a short address in the store
    cmdQ,            \* commands sent to ecu-zb and not executed yet
    ask,             \* a start request between its snapshot and startOp
    op, pc, call,    \* the operation, its place, the state of its current command
    todo, round, verified, failed, cancelled,
    status,          \* PairingStatus: terminal stage of the last operation
    ops, faults,     \* bounded counters
    parkedBy,        \* history: operation whose last set_module_pan was a park
    settled,         \* history: the last set_module_pan issued was acked and no park
    excused          \* history: an operation was disturbed (Disturbances below)

radioVars == <<module, opNet, at, primed>>
opVars == <<op, todo, round, verified, failed>>
histVars == <<parkedBy, settled, excused>>
vars == <<module, opNet, conf, at, primed, inventory, cmdQ, ask, op, pc, call, todo, round,
          verified, failed, cancelled, status, ops, faults, parkedBy, settled, excused>>

Net(p, c) == [pan |-> p, ch |-> c]
Home == CHOOSE n \in Nets : n.pan \in Pans

\* The members of a set in the order of seq.
Kept(seq, set) ==
    LET upto[n \in 0 .. Len(seq)] ==
            IF n = 0 THEN <<>> ELSE IF seq[n] \in set THEN Append(upto[n - 1], seq[n]) ELSE upto[n - 1]
    IN  upto[Len(seq)]
Fleet == Kept(Serials, inventory)

Idle == [kind |-> "none", serial |-> Serials[1], old |-> NoNet, goal |-> NoNet, list |-> <<>>]

Init ==
    /\ conf = Home /\ opNet = Home /\ module = Home
    /\ \E members \in SUBSET Units :
          /\ inventory = members
          /\ at \in [Units -> {Home} \cup ForeignNets]
          /\ \A s \in Units : s \in members <=> at[s] = Home
    /\ primed = [s \in Units |-> NoNet]
    /\ cmdQ = <<>> /\ ask = NoAsk
    /\ op = Idle /\ pc = "idle" /\ call = "ready"
    /\ todo = <<>> /\ round = 0 /\ verified = {} /\ failed = FALSE /\ cancelled = FALSE
    /\ status = "none" /\ ops = 0 /\ faults = 0
    /\ parkedBy = "none" /\ settled = TRUE /\ excused = FALSE

-----------------------------------------------------------------------------
(* Start requests.  A request takes its snapshots (operating PAN and       *)
(* channel from ecu-zb, channel from the settings, fleet from the store)   *)
(* before startOp, and so before it holds the bus.                         *)

Request(k, s, old, goal, list) ==
    /\ ask = NoAsk /\ ops < MaxOps /\ k \in Kinds
    /\ ask' = [kind |-> k, serial |-> s, old |-> old, goal |-> goal, list |-> list,
               seen |-> <<opNet, conf>>]
    /\ ops' = ops + 1
    /\ UNCHANGED <<radioVars, conf, inventory, cmdQ, op, pc, call, todo, round, verified,
                   failed, cancelled, status, faults, histVars>>

\* startScan, startAdd, startReplace and startRemove: nothing of the radio is
\* read; scans and migrations use the channel of the settings.
AskUnit(k, s) ==
    /\ k \in {"scan", "sweep", "add", "replace", "remove", "delete"}
    /\ Request(k, s, opNet, Net(Rendezvous, conf.ch), <<>>)

\* startRekey: the rollback net has the old PAN but the requested channel.
AskRekey(p, c) ==
    LET ch == IF c = 0 THEN conf.ch ELSE c
    IN  /\ p # opNet.pan /\ Fleet # <<>>
        /\ Request("rekey", Serials[1], Net(opNet.pan, ch), Net(p, ch), Fleet)

\* startChangeChannel's check of the target against the radio's channel.
ChannelAccepted(c) == c # opNet.ch

AskChannel(c) ==
    /\ ChannelAccepted(c) /\ Fleet # <<>>
    /\ Request("channel", Serials[1], opNet, Net(opNet.pan, c), Fleet)

FirstPlace(k) ==
    CASE k = "scan" -> "scan.park"      [] k = "sweep" -> "sweep.park"
      [] k = "add" -> "bind.config"     [] k = "replace" -> "bind.config"
      [] k = "rekey" -> "rekey.park"    [] k = "channel" -> "chan.hop"
      [] k = "remove" -> "evict.config" [] k = "delete" -> "delete"

\* startOp: refused while another operation runs.
StartOp ==
    /\ ask # NoAsk
    /\ ask' = NoAsk
    /\ IF pc # "idle"
       THEN UNCHANGED <<opVars, pc, cancelled, status, excused>>
       ELSE /\ op' = [kind |-> ask.kind, serial |-> ask.serial, old |-> ask.old, goal |-> ask.goal, list |-> ask.list]
            /\ pc' = FirstPlace(ask.kind)
            /\ excused' = (excused \/ ask.seen # <<opNet, conf>>)
            /\ todo' = IF ask.kind = "sweep" THEN ScanChannels ELSE ask.list
            /\ round' = 0 /\ verified' = {} /\ failed' = FALSE /\ cancelled' = FALSE
            /\ status' = "running"
    /\ UNCHANGED <<radioVars, conf, inventory, cmdQ, call, ops, faults, parkedBy, settled>>

\* abort.
Abort ==
    /\ pc # "idle" /\ ~cancelled
    /\ cancelled' = TRUE
    /\ UNCHANGED <<radioVars, conf, inventory, cmdQ, ask, opVars, pc, call, status, ops, faults, histVars>>

-----------------------------------------------------------------------------
(* The transport.                                                          *)

Set(p, c) == [cmd |-> "set", serial |-> Serials[1], net |-> Net(p, c)]
Directed(c, n) == [cmd |-> c, serial |-> IF todo = <<>> THEN op.serial ELSE Head(todo), net |-> n]
ToUnit(c, n) == [cmd |-> c, serial |-> op.serial, net |-> n]

\* The command an operation issues at each of its places.
CommandAt(p) ==
    CASE p \in {"scan.park", "rekey.park", "mig.park"} -> Set(Rendezvous, op.goal.ch)
      [] p = "sweep.park" -> Set(Rendezvous, Head(todo))
      [] p \in {"scan.restore", "mig.restore"} -> Set(Restore, op.goal.ch)
      [] p \in {"rekey.arm", "chan.move"} -> Set(op.goal.pan, op.goal.ch)
      [] p = "rollback" -> Set(op.old.pan, op.old.ch)
      [] p \in {"scan.report", "sweep.report"} -> ToUnit("report", NoNet)
      [] p \in {"bind.config", "evict.config"} -> ToUnit("config", NoNet)
      [] p \in {"bind.addr", "bind.readdr"} -> ToUnit("addr", NoNet)
      [] p = "bind.quiet" -> ToUnit("quiet", NoNet)
      [] p = "mig.prime" -> ToUnit("prime", op.goal)
      [] p \in {"mig.commit", "rekey.commit"} -> ToUnit("commit", op.goal)
      [] p = "rekey.prime" -> Directed("prime", op.goal)
      [] p \in {"chan.hop", "evict.hop"} -> Directed("hop", op.goal)
      [] p = "verify" -> Directed("addr", NoNet)

\* Places at which the operation issues no command.
Local == {"idle", "settle", "rekey.persist", "chan.persist", "configure", "delete"}

\* The loops that check the context before each command, and the loop ends.
AtLoopHead == \/ pc \in {"rekey.prime", "rekey.commit", "chan.hop", "sweep.park", "verify"} /\ cancelled
              \/ pc \in {"rekey.prime", "chan.hop", "sweep.park", "verify"} /\ todo = <<>>

\* Transport.do: the command is queued for ecu-zb, or refused (no backend,
\* queue full).
Issue ==
    LET c == CommandAt(pc)
    IN  /\ pc \notin Local /\ ~AtLoopHead /\ call = "ready"
        /\ \/ cmdQ' = Append(cmdQ, c) /\ call' = "waiting"
           \/ UNCHANGED cmdQ /\ call' = "fail"
        /\ settled' = (settled /\ c.cmd # "set")
        /\ parkedBy' = IF c.cmd # "set" THEN parkedBy
                       ELSE IF c.net.pan = Rendezvous THEN op.kind ELSE "none"
    /\ UNCHANGED <<radioVars, conf, inventory, ask, opVars, pc, cancelled, status, ops, faults, excused>>

\* The timer or the context ends the wait; the command stays where it is.
GiveUp ==
    /\ call \in {"waiting", "orphaned"}
    /\ call' = "fail"
    /\ UNCHANGED <<radioVars, conf, inventory, cmdQ, ask, opVars, pc, cancelled, status, ops, faults, histVars>>

-----------------------------------------------------------------------------
(* ecu-zb: the reader loop runs the oldest command on the radio.           *)

Hears(s) == /\ module # NoNet
            /\ at[s].ch = module.ch /\ (module.pan = Rendezvous \/ module.pan = at[s].pan)

\* pairingAdapter.SetModulePan: the net asked of the module, and (Adopted) the
\* operating net once the module has acked.
TargetOf(n) == IF n.pan = Restore THEN opNet ELSE n
\* Faulty variant: every acked net is adopted.
AdoptedAlways(n) == n

\* Faulty variant: the operating net is only set at start-up.
AdoptedNever(n) == opNet

Adopted(n) == IF n.pan \in {Restore, Rendezvous} THEN opNet ELSE n

\* Faulty variant: any result is taken for the command that is waited for.
AwaitedUnmatched == call = "waiting"

\* Deliver: the result belongs to the command that is waited for, which is the
\* newest one.  Every other result is dropped.
Awaited == call = "waiting" /\ Len(cmdQ) = 1

\* What a command does, and whether ecu-zb reports it as done.  A
\* set_module_pan without an ack may have moved the module; frames to
\* inverters are sent blind; a commit that fails may have gone out once.
RunSet(c, ok) ==
    /\ c.cmd = "set"
    /\ IF ok THEN module' = TargetOf(c.net) /\ opNet' = Adopted(c.net)
              ELSE module' \in {module, TargetOf(c.net)} /\ UNCHANGED opNet
    /\ settled' = /\ ok /\ c.net.pan # Rendezvous
                  /\ \A i \in 2..Len(cmdQ) : cmdQ[i].cmd # "set"
    /\ UNCHANGED <<at, primed, op>>

RunFrame(c, ok) ==
    /\ \/ /\ c.cmd = "prime"
          /\ \/ UNCHANGED primed
             \/ ok /\ Hears(c.serial) /\ primed' = [primed EXCEPT ![c.serial] = c.net]
          /\ UNCHANGED at
       \/ /\ c.cmd = "hop"
          /\ \/ UNCHANGED at
             \/ ok /\ Hears(c.serial) /\ at' = [at EXCEPT ![c.serial] = c.net]
          /\ UNCHANGED primed
       \/ /\ c.cmd = "commit"
          /\ \E moved \in SUBSET {s \in Units : Hears(s) /\ primed[s] = c.net} :
                /\ at' = [s \in Units |-> IF s \in moved THEN c.net ELSE at[s]]
                /\ primed' = [s \in Units |-> IF s \in moved THEN NoNet ELSE primed[s]]
    /\ UNCHANGED <<module, opNet, op, settled>>

RunQuery(c, ok) ==
    /\ \/ c.cmd \in {"report", "quiet"} /\ UNCHANGED op
       \/ c.cmd = "addr" /\ (ok => Hears(c.serial)) /\ UNCHANGED op
       \/ /\ c.cmd = "config"
          /\ op' = [op EXCEPT !.goal = IF ~Awaited THEN @
                                       ELSE IF pc = "evict.config" THEN Net(Rendezvous, opNet.ch)
                                       ELSE Net(opNet.pan, conf.ch)]
    /\ UNCHANGED <<radioVars, settled>>

Execute ==
    /\ cmdQ # <<>>
    /\ \E ok \in BOOLEAN :
          /\ RunSet(Head(cmdQ), ok) \/ RunFrame(Head(cmdQ), ok) \/ RunQuery(Head(cmdQ), ok)
          /\ call' = IF Awaited THEN IF ok THEN "ok" ELSE "fail" ELSE call
    /\ cmdQ' = Tail(cmdQ)
    /\ UNCHANGED <<conf, inventory, ask, pc, todo, round, verified, failed, cancelled,
                   status, ops, faults, parkedBy, excused>>

-----------------------------------------------------------------------------
(* The operation goroutine, between its commands.                          *)

Returned(p, r) == pc = p /\ call = r
At(p) == pc = p /\ call = "ready"
Goto(p) == pc' = p /\ call' = "ready" /\ UNCHANGED status
Finish(st) == pc' = "idle" /\ call' = "ready" /\ status' = st
Outcome(st) == IF cancelled THEN "aborted" ELSE st
Fail == Finish(Outcome("error"))

\* fastScan: a park that fails ends the scan; otherwise the module is restored
\* whatever the scan returned.
FastScan ==
    /\ \/ Returned("scan.park", "ok") /\ Goto("scan.report") /\ UNCHANGED failed
       \/ Returned("scan.park", "fail") /\ Fail /\ UNCHANGED failed
       \/ /\ Returned("scan.report", "ok") \/ Returned("scan.report", "fail")
          /\ failed' = (call = "fail") /\ Goto("scan.restore")
    /\ UNCHANGED <<op, todo, round, verified, inventory, conf, excused>>

\* The end of startScan's function, after either scan has restored the module.
ScanEnd ==
    /\ Returned("scan.restore", "ok") \/ Returned("scan.restore", "fail")
    /\ Finish(Outcome(IF failed THEN "error" ELSE "done"))
    /\ UNCHANGED <<opVars, inventory, conf, excused>>

\* sweepScan: every way out restores the module.
SweepScan ==
    /\ \/ /\ At("sweep.park") /\ AtLoopHead
          /\ failed' = (todo # <<>>) /\ Goto("scan.restore") /\ UNCHANGED todo
       \/ Returned("sweep.park", "ok") /\ Goto("sweep.report") /\ UNCHANGED <<failed, todo>>
       \/ /\ Returned("sweep.park", "fail") \/ Returned("sweep.report", "fail")
          /\ failed' = TRUE /\ Goto("scan.restore") /\ UNCHANGED todo
       \/ /\ Returned("sweep.report", "ok")
          /\ todo' = Tail(todo) /\ Goto("sweep.park") /\ UNCHANGED failed
    /\ UNCHANGED <<op, round, verified, inventory, conf, excused>>

\* bindAndMigrate.  A unit that answers with no short address, or a store that
\* fails, ends the operation.
BindAndMigrate ==
    /\ \/ /\ \/ Returned("bind.config", "fail") \/ Returned("bind.readdr", "fail")
             \/ Returned("bind.addr", "ok") \/ Returned("bind.readdr", "ok")
             \/ Returned("bind.quiet", "fail")
          /\ Fail /\ UNCHANGED inventory
       \/ Returned("bind.config", "ok") /\ Goto("bind.addr") /\ UNCHANGED inventory
       \/ Returned("bind.addr", "fail") /\ Goto("mig.park") /\ UNCHANGED inventory
       \/ /\ Returned("bind.addr", "ok") \/ Returned("bind.readdr", "ok")
          /\ inventory' = inventory \cup {op.serial} /\ Goto("bind.quiet")
       \/ /\ Returned("bind.quiet", "ok") /\ UNCHANGED inventory
          /\ IF op.kind = "add" THEN Finish("done") ELSE Goto("configure")
    /\ UNCHANGED <<opVars, conf, excused>>

\* Faulty variant: a failed step returns without the deferred restore.
FailedMigrationUnrestored == Fail /\ UNCHANGED failed

\* A failed step of migrateOne: the deferred restore runs, then the error.
FailedMigration == failed' = TRUE /\ Goto("mig.restore")

\* migrateOne: every way out restores the module; an error then ends the
\* operation, success queries the unit again.
MigrateOne ==
    /\ \/ Returned("mig.park", "ok") /\ Goto("mig.prime") /\ UNCHANGED failed
       \/ Returned("mig.prime", "ok") /\ Goto("mig.commit") /\ UNCHANGED failed
       \/ Returned("mig.commit", "ok") /\ failed' \in {FALSE, cancelled} /\ Goto("mig.restore")
       \/ /\ \E p \in {"mig.park", "mig.prime", "mig.commit"} : Returned(p, "fail")
          /\ FailedMigration
       \/ /\ Returned("mig.restore", "ok") \/ Returned("mig.restore", "fail")
          /\ UNCHANGED failed
          /\ IF failed THEN Fail ELSE Goto("bind.readdr")
    /\ UNCHANGED <<op, todo, round, verified, inventory, conf, excused>>

\* The rest of startReplace: inherit profile and label, retire the old unit.
Configure(old) ==
    /\ At("configure")
    /\ \/ Fail /\ UNCHANGED inventory
       \/ ~cancelled /\ inventory' = inventory \ {old} /\ Finish("done")
    /\ UNCHANGED <<opVars, conf, excused>>

\* startRemove: whatever the eviction returned, the rows are deleted.
RemoveUnit ==
    /\ \/ Returned("evict.config", "ok") /\ Goto("evict.hop") /\ UNCHANGED inventory
       \/ /\ \/ Returned("evict.config", "fail")
             \/ Returned("evict.hop", "ok") \/ Returned("evict.hop", "fail")
          /\ Goto("delete") /\ UNCHANGED inventory
       \/ At("delete") /\ Fail /\ UNCHANGED inventory
       \/ /\ At("delete") /\ ~cancelled
          /\ inventory' = inventory \ {op.serial} /\ Finish("done")
    /\ UNCHANGED <<opVars, conf, excused>>

\* Faulty variant: the settings are written before the module is re-armed.
AfterSettlePersist == "rekey.persist"

\* Where runRekey goes on after the post-commit pause.
AfterSettle == "rekey.arm"

\* runRekey up to the verification.  The context is looked at before every
\* prime and every commit, and in the settle pause.
RunRekey ==
    /\ \/ Returned("rekey.park", "ok") /\ Goto("rekey.prime") /\ UNCHANGED <<todo, round>>
       \/ At("rekey.prime") /\ todo = <<>> /\ Goto("rekey.commit") /\ UNCHANGED <<todo, round>>
       \/ Returned("rekey.prime", "ok") /\ todo' = Tail(todo) /\ Goto("rekey.prime") /\ UNCHANGED round
       \/ /\ Returned("rekey.commit", "ok") /\ round' = round + 1 /\ UNCHANGED todo
          /\ Goto(IF round + 1 < CommitRounds THEN "rekey.commit" ELSE "settle")
       \/ At("settle") /\ Goto(AfterSettle) /\ UNCHANGED <<todo, round>>
       \/ Returned("rekey.arm", "ok") /\ Goto("rekey.persist") /\ UNCHANGED <<todo, round>>
       \/ /\ \/ At("rekey.prime") /\ cancelled /\ todo # <<>>
             \/ (At("rekey.commit") \/ At("settle")) /\ cancelled
             \/ At("rekey.persist")
             \/ \E p \in {"rekey.park", "rekey.prime", "rekey.commit", "rekey.arm"} : Returned(p, "fail")
          /\ Goto("rollback") /\ UNCHANGED <<todo, round>>
    /\ UNCHANGED <<op, verified, failed, inventory, conf, excused>>

\* runChangeChannel up to the verification.
RunChangeChannel ==
    /\ \/ At("chan.hop") /\ todo = <<>> /\ Goto("chan.move") /\ UNCHANGED todo
       \/ Returned("chan.hop", "ok") /\ todo' = Tail(todo) /\ Goto("chan.hop")
       \/ Returned("chan.move", "ok") /\ Goto("chan.persist") /\ UNCHANGED todo
       \/ /\ \/ At("chan.hop") /\ cancelled /\ todo # <<>>
             \/ At("chan.persist")
             \/ Returned("chan.hop", "fail") \/ Returned("chan.move", "fail")
          /\ Goto("rollback") /\ UNCHANGED todo
    /\ UNCHANGED <<op, round, verified, failed, inventory, conf, excused>>

\* Faulty variant: a channel change does not persist the channel.
PersistPanOnly ==
    /\ At("rekey.persist") \/ At("chan.persist")
    /\ conf' = [conf EXCEPT !.pan = op.goal.pan]
    /\ todo' = op.list /\ round' = 0 /\ verified' = {}
    /\ Goto("verify")
    /\ UNCHANGED <<op, failed, inventory, excused>>

\* SetPANOverride or SetChannel succeeds and the verification begins; when it
\* fails the module is rolled back (above).
Persist ==
    /\ \/ At("rekey.persist") /\ conf' = [conf EXCEPT !.pan = op.goal.pan]
       \/ At("chan.persist") /\ conf' = [conf EXCEPT !.ch = op.goal.ch]
    /\ todo' = op.list /\ round' = 0 /\ verified' = {}
    /\ Goto("verify")
    /\ UNCHANGED <<op, failed, inventory, excused>>

\* rekeyRollback and changeChannelRollback.
Rollback ==
    /\ Returned("rollback", "ok") \/ Returned("rollback", "fail")
    /\ Finish("error")
    /\ excused' = (excused \/ call = "fail")
    /\ UNCHANGED <<opVars, inventory, conf>>

VerifyRetries == 2

\* Faulty variant: retries are not counted.
NextPassUncounted ==
    /\ verified # Range(op.list) /\ round < VerifyRetries /\ ~cancelled
    /\ todo' = Kept(op.list, Range(op.list) \ verified)
    /\ round' = round

\* Another pass of rebindVerify over the units that have not answered.
NextPass ==
    /\ verified # Range(op.list) /\ round < VerifyRetries /\ ~cancelled
    /\ todo' = Kept(op.list, Range(op.list) \ verified)
    /\ round' = round + 1

\* rebindVerify: a silent unit is passed over.
RebindVerify ==
    /\ \/ /\ Returned("verify", "ok")
          /\ verified' = verified \cup {Head(todo)} /\ inventory' = inventory \cup {Head(todo)}
          /\ todo' = Tail(todo) /\ Goto("verify") /\ UNCHANGED round
       \/ /\ Returned("verify", "ok") \/ Returned("verify", "fail")
          /\ todo' = Tail(todo) /\ Goto("verify") /\ UNCHANGED <<verified, inventory, round>>
       \/ /\ At("verify") /\ AtLoopHead
          /\ NextPass /\ Goto("verify") /\ UNCHANGED <<verified, inventory>>
       \/ /\ At("verify") /\ AtLoopHead
          /\ verified = Range(op.list) \/ round = VerifyRetries \/ cancelled
          /\ Finish(IF verified = Range(op.list) THEN "done" ELSE "partial")
          /\ UNCHANGED <<todo, verified, inventory, round>>
    /\ UNCHANGED <<op, failed, conf, excused>>

OpStep ==
    /\ \/ FastScan \/ ScanEnd \/ SweepScan
       \/ BindAndMigrate \/ MigrateOne \/ \E old \in Units : Configure(old)
       \/ RemoveUnit
       \/ RunRekey \/ RunChangeChannel \/ Persist \/ Rollback \/ RebindVerify
    /\ UNCHANGED <<radioVars, cmdQ, ask, cancelled, ops, faults, parkedBy, settled>>

-----------------------------------------------------------------------------
(* Disturbances.  An operation is excused from the properties about the    *)
(* settings and the fleet when its rollback failed, when a process         *)
(* restarted under it, or when the snapshots of its request were stale     *)
(* when it started.                                                        *)

Fault == faults < MaxFaults /\ faults' = faults + 1

\* The command that is waited for is lost.
Orphaned == IF call = "waiting" THEN "orphaned" ELSE call

\* The connection to ecu-zb breaks; some of the newest commands are lost.
LinkDrop ==
    /\ Fault
    /\ \E k \in 0..Len(cmdQ) - 1 : cmdQ' = SubSeq(cmdQ, 1, k)
    /\ call' = Orphaned
    /\ UNCHANGED <<radioVars, conf, inventory, ask, opVars, pc, cancelled, status, ops, histVars>>

\* ecu-zb restarts: bringupModem configures the module from the settings,
\* best effort, and takes them as the operating net whether it acked or not.
BackendRestart ==
    /\ Fault
    /\ opNet' = conf /\ cmdQ' = <<>> /\ call' = Orphaned
    /\ \/ module' = conf /\ settled' = TRUE /\ parkedBy' = "none"
       \/ UNCHANGED <<module, parkedBy>> /\ settled' = FALSE
    /\ excused' = (excused \/ pc # "idle")
    /\ UNCHANGED <<conf, at, primed, inventory, ask, opVars, pc, cancelled, status, ops>>

\* inv-driver restarts: the operation and its status are gone.
DriverRestart ==
    /\ Fault
    /\ ask' = NoAsk /\ op' = Idle /\ pc' = "idle" /\ call' = "ready"
    /\ todo' = <<>> /\ round' = 0 /\ verified' = {} /\ failed' = FALSE /\ cancelled' = FALSE
    /\ status' = "none"
    /\ excused' = (excused \/ pc # "idle")
    /\ UNCHANGED <<radioVars, conf, inventory, cmdQ, ops, parkedBy, settled>>

\* The watchdog finds the module wedged between two commands: a hardware
\* reset, then the operating net again, which may not be acked.
Recover ==
    /\ Fault
    /\ \/ module' = opNet /\ UNCHANGED settled
       \/ module' = NoNet /\ settled' = FALSE
    /\ UNCHANGED <<opNet, at, primed, conf, inventory, cmdQ, ask, opVars, pc, call, cancelled,
                   status, ops, parkedBy, excused>>

Next ==
    \/ \E k \in Kinds, s \in Units : AskUnit(k, s)
    \/ \E p \in Pans, c \in RekeyChannels : AskRekey(p, c)
    \/ \E c \in Channels : AskChannel(c)
    \/ StartOp \/ Abort
    \/ Issue \/ GiveUp \/ Execute \/ OpStep
    \/ LinkDrop \/ BackendRestart \/ DriverRestart \/ Recover

Spec == Init /\ [][Next]_vars

(***************************************************************************)
(* Fairness: the operation goroutine runs when it can, and every wait for  *)
(* a result ends, by its timer if by nothing else.                         *)
(***************************************************************************)
FairSpec == Spec /\ WF_vars(Issue) /\ WF_vars(GiveUp) /\ WF_vars(OpStep)

-----------------------------------------------------------------------------
(* Properties.                                                             *)

Places == {"idle", "settle", "scan.park", "scan.report", "scan.restore", "sweep.park",
           "sweep.report", "bind.config", "bind.addr", "bind.readdr", "bind.quiet", "mig.park",
           "mig.prime", "mig.commit", "mig.restore", "configure", "rekey.park", "rekey.prime",
           "rekey.commit", "rekey.arm", "rekey.persist", "chan.hop", "chan.move", "chan.persist",
           "rollback", "verify", "evict.config", "evict.hop", "delete"}

\* The types, a part of NoOpEndsParked.
TypeOK ==
    /\ module \in Nets \cup {NoNet}
    /\ opNet \in Nets /\ conf \in Nets
    /\ at \in [Units -> Nets] /\ primed \in [Units -> Nets \cup {NoNet}]
    /\ inventory \subseteq Units
    /\ pc \in Places /\ call \in {"ready", "waiting", "orphaned", "ok", "fail"}
    /\ round \in 0..(CommitRounds + VerifyRetries)
    /\ verified \subseteq Range(op.list)
    /\ status \in {"none", "running", "done", "partial", "error", "aborted"}

(* The adapter never takes the rendezvous for its operating net            *)
(* (ecu-zb/pairing.go:99-116), and commands that were given up and run     *)
(* late never displace the radio: once the newest set_module_pan has been  *)
(* acked and was no park, the module is on the operating net.              *)
RadioHome ==
    /\ opNet.pan # Rendezvous
    /\ settled => module = opNet

(* Scans, migrations and rekeys leave the operating PAN.  Each of them     *)
(* sends the module back before it ends, however it ends (statemachine.go  *)
(* 83-118, 315-339, rekey.go:70-160); only the fast scan has a way out     *)
(* without (statemachine.go:70-72).                                        *)
NoOpEndsParked ==
    /\ TypeOK
    /\ pc = "idle" /\ ~excused => parkedBy \in {"none", "scan"}

(* A rekey or channel change that reports done has moved every inverter of *)
(* its snapshot to the new net (pairing.go:355-430), although commands     *)
(* time out, run late and get lost.                                        *)
DoneMeansMoved ==
    status = "done" /\ op.kind \in {"rekey", "channel"} /\ ~excused
        => \A s \in Range(op.list) : at[s] = op.goal

(* Between operations the persisted settings name the net the radio        *)
(* operates on, so an ecu-zb that restarts finds its fleet                 *)
(* (ecu-zb/main.go:428-431, "single source of truth").                     *)
RestartKeepsNet == pc = "idle" /\ ~excused => conf = opNet

(* The settings only ever name a net the radio had adopted before          *)
(* (rekey.go:120-131, channel.go:117-131).                                 *)
PersistFollowsAdoption ==
    [][~excused => \/ conf' = conf
                   \/ conf'.pan = opNet.pan /\ conf'.ch = conf.ch
                   \/ conf'.ch = opNet.ch /\ conf'.pan = conf.pan]_vars

(* Every operation ends, however many commands time out.                   *)
OpEnds == pc # "idle" ~> pc = "idle"

(* rekey.go:145-147: rekeyRollback is "Used on any pre-commit failure (the *)
(* fleet has NOT moved yet".                                               *)
RollbackOnlyBeforeMove ==
    pc = "rollback" /\ op.kind = "rekey" => \A s \in Range(op.list) : at[s] # op.goal

(* channel.go:134-138: after a partial channel change, "recover by         *)
(* re-running the change-channel toward newChannel".                       *)
RerunAccepted ==
    status = "partial" /\ op.kind = "channel" => ChannelAccepted(op.goal.ch)
=============================================================================
