# A TLA+ verification project for OpenAPS

OpenAPS replaces the control software of an APsystems ECU: a small set of Go
daemons talks to micro-inverters over a ZigBee radio, stores what they report,
applies grid-protection profiles to them and exposes them over Modbus/SunSpec
and a web interface.  This directory holds TLA+ models of the parts in which
goroutines, processes and radios interact, the TLC configurations that check
them on small instances, and theorems about them checked by TLAPS.  All paths
are relative to the repository root, which is `src/` here.

## 1. The system

| part | state | operations | talks to |
|---|---|---|---|
| `cmd/inv-driver` | SQLite store, settings, running operations | ingest of telemetry, pairing, grid profiles, power setting, IPC server | ecu-zb, ecu-sunspec, ecu-web over a Unix socket with protobuf envelopes |
| `internal/buslock` | holder, pause count, yield channel | TryAcquire, AcquirePriority, AcquirePolite, Release | shared by the poller, pairing and profile broadcasts |
| `internal/telemetrypoll` | none across rounds | poll round over the inventory | bus lock, IPC server |
| `internal/pairing` | running operation, cancel function, status, transport's waiting command | scan, add, replace, remove, rekey, change channel, abort | bus lock, ecu-zb (PairingCmd), settings, store |
| `internal/gridprofile` | active base, overlays, jobs per inverter, semaphore | select base, set/clear overlay, first-seen reconcile, broadcast | store, ecu-zb, events table, bus lock |
| `cmd/ecu-zb` | the radio's operating PAN and channel, pairing mode, watchdog | bring-up, pairing commands in order, splice of host and modem, recover | inv-driver, radio module |
| `internal/ingest`, `internal/store` | telemetry, online state, energy counters, inventory | decode, accumulate, detect edges, prune | IPC server |
| `cmd/ecu-sunspec`, `internal/sunspec` | snapshot, register banks, write tracker, revert timers, power-limit cache | Modbus reads and writes | inv-driver |
| `cmd/ecu-web` | sessions, credential file, snapshot cache, SSE clients | HTTP API, login, step-up | inv-driver, recoveryd |
| `cmd/recoveryd`, `cmd/openaps-tls-proxy`, tools | files, child processes | SSH recovery, TLS relay, packaging | ecu-web, operating system |

What is hard here: three kinds of goroutine share one radio bus with different
rights (the poller gives way, pairing has priority, a broadcast gives up);
pairing moves a radio and a fleet of inverters between networks with blind,
lossy frames, timeouts, aborts, rollbacks and two processes that restart on
their own; grid-profile jobs supersede each other per inverter while a bounded
semaphore, the store and the audit log are shared; Modbus clients set power
caps that timers lift again.  `PROJECT.json` lists these hazards with their
lines under `hazards`, and every part of the system, modelled or not, under
`components`.

What makes the parts correct:

* bus lock: one user of the radio at a time; an operator never waits for more
  than one more telemetry frame; a pause request never outlives its request;
* pairing: however an operation ends, the radio is sent back to the fleet's
  network; an operation that reports success has moved every inverter; the
  settings name the network the radio is on;
* grid profiles: no stored change stays unapplied; the newest request wins; the
  thresholds sent to an inverter are ordered and inside the certified range;
* SunSpec: a cap with a reversion timeout is lifted when its controller goes
  silent; the read-back names the cap in force; a write changes what its client
  meant, whatever became of the banks since;
* the radio's serial port: injected frames, the host's bytes and a reopening
  never meet on one descriptor; the host gets every reply to its own queries and
  none to ours; a wedged module is reset in time, and ever more rarely;
* telemetry: an inverter that falls silent is logged once and re-armed; energy
  is neither lost nor counted twice; an output cap that drifted is sent again;
* clients of inv-driver: a subscriber and a browser end up with the rows of the
  store, whatever overlaps their replay;
* settings: a save interrupted anywhere leaves a complete file, and the network
  interface is not left down.

## 2. Modules

| module | models | composes |
|---|---|---|
| `BusLock` | `internal/buslock`, `internal/telemetrypoll`, `startOp`/`abort` of `internal/pairing`, `runBroadcastFleet` | the lock with its three users |
| `EffectiveProfile` | `buildDesired`, `intersectRanges`, `clamp`, `CheckConflicts`, `candidateConflicts` as operators | |
| `GridProfile` | manager requests, applier jobs, reconciler, store | extends `EffectiveProfile` |
| `ProfilePush` | broadcast of a base, its follow-up, start-up verification, reconcile, seen from the inverters' registers | |
| `ProtectionCodec` | encoding, framing, page buffer and decoding of protection parameters, ecu-zb's allow list | |
| `Pairing` | operations of `internal/pairing`, transport, ecu-zb's pairing adapter, module, inverters, restarts | operation, link, radio, fleet |
| `Splice` | `internal/zigbee/proxy` copiers, injections, the pairing runner, the modem reopener | threads of ecu-zb on one tty |
| `BusTracker` | `BusTrackerHook`: pending queries, reassembly, attribution | host, bus client, inverters |
| `Watchdog` | radio watchdog with probes, recoveries and back-off | watchdog and module |
| `BackendLink` | settings fetch, session, dial loop; connection handlers, publisher's queue | ecu-zb and inv-driver |
| `Presence` | first-seen gate, online tracker, fault tracker, sweeper, removal | three trackers of `internal/ingest` |
| `Energy` | lifetime counters, period anchors, fleet summaries | store and two builders |
| `OutputCap` | set-power, intent, read-back, drift check, re-assertion | controller, ingest, radio, inverter |
| `Fanout` | publisher, subscriber, replay, eviction, reconnection | writers, inv-driver, a subscriber |
| `Dashboard` | session, snapshot, hub, SSE browsers of ecu-web | |
| `Settings` | settings file, atomic replacement, SET, pairing's saves, `ApplyMAC` | handlers, pairing, file system, eth0 |
| `PowerLease` | abstract specification: a cap with a lease that ends | |
| `PowerLimit` | Model 123 writes of `internal/sunspec/server`, `Reverter`, `PowerLimitCache` | implements `PowerLease` |
| `FaultBits`, `SunSpecBank` | alarm bits; register images of a snapshot, as operators | |
| `SunSpecServer` | refresh loop, Modbus writes into banks that change, write tracker | extends `SunSpecBank` |
| `*Proofs`, `NatInduct` | theorems, section 4 | |
| `MC*` | small instances for TLC, section 3 | several parts each |

### BusLock

`held`, `owner`, `waiting`, `yield` are the fields of `Lock`; every action that
uses them is one critical section of `l.mu`.  `ppc`, `todo`, `revoked` are one
`Poller.poll`: place in the function, inverters left, whether the yield channel
it was given is closed.  `rpc` is the place of a pairing request in `startOp`,
`runMu` the holder of that mutex, `current` the owner of `m.cancel`/`m.done`,
`opc` the operation goroutines, `cpc` the broadcast jobs.  `AcquirePriority` is
split where it gives up `l.mu`: raise (`AcquireStart`), a turn that finds the
lock free (`AcquireClaim`) or the deadline passed (`AcquireTimeout`), and the
deferred decrement (`AcquireReturn`).  `sentWhileWaiting` is a history
variable.

### EffectiveProfile, GridProfile, ProfilePush

A profile is a function from APS codes to points with a range; native values
are integers, because only their order matters.  `BuildDesired` is what a
reconcile sends, `CandidateConflicts` what `setOverlay` checks before it
stores; they differ on purpose, as the code does: the second sees the values
before clamping.  In `GridProfile` a request `h` enqueues for inverter `u` the
job `<<h, u>>`, one goroutine of `applier.run`; `jpc` is its place, `cause` why
its context is cancelled.  Which points a reconcile finds drifted depends on
the inverter's read-back, which is not modelled: any subset may be sent.  A
failed query ends a reconcile, a failed enumeration ends a fleet apply.

`ProfilePush` looks at the same code from the other end, with one parameter per
inverter: `regs` is what the inverter holds, `seen` the last read-back, on
which every decision is taken.  A broadcast reaches inverters of the family
that encodes it first, their overlays are overwritten and put right by the
follow-up; `disturbed` and `unpushed` are history: what the code gives up on.

### ProtectionCodec

`asked` is the value a command was to set, `regs` the register, `pages` and
`protValues` what has come back.  Scales, widths and the frames' layouts are the
tables of `codec/`; floating-point truncation is a choice of two integers where
the exact product is one.  A command is a sequence of frames, sent one by one;
any of them may be lost (`taken` is those that were not), so that the mode of a
QS1, which takes two or three, may be half set.

The tables hold every code the encoders accept, those of one linear scale or a
period and the others: the slope `DD` and the delay `CG` of a DS3, `CA` of a
QS1, the mode `CV` of both.  `DC` is read on both families and `DD` on a QS1
too, but not written there.  Left out, because nothing can be asked of them, are the
other codes that are only read (AS, BN and BO; AT to AX, AZ, BA, BF, BG, BL and
BM of a QS1).  The register an inverter makes of a frame is not in the
repository; three external operators say what is assumed of it.  `Register`: it
keeps the bytes it was sent.  `ModeByte`: a QS1 shows the class and the number of
its mode in the halves of one byte, and the third frame's register nowhere.
`SlopeRegisters`: a DS3 keeps its slope in units of its own, because the repository's
capture shows 16.7 read back as 16.57 (`reconcile.go:88`,
`protection_read_test.go:72`); with the bytes as sent (2733, read with a factor of
0.2716) it would be read as 742.

### Pairing

A net is a PAN and a channel.  `module` is where the radio is, `opNet` what
ecu-zb believes (`pairingAdapter.opPAN/opChannel`), `conf` what the settings
say.  `pc` is the place of the operation goroutine; at every place that issues
a command, `Issue` queues it, `Execute` is ecu-zb's in-order execution on the
radio, `GiveUp` the timer or the context; the result decides the next step.  A
command that was given up stays in the queue and is executed late.  Frames to
inverters are lost at will; a `set_module_pan` without an ack may have been
carried out.  Faults: the link drops with its newest commands, either process
restarts, the watchdog resets the module.  The scans' results and the wording
of the status are left out.

### Splice, BusTracker, Watchdog, BackendLink

`Splice`: `tty` is one state per descriptor ever opened, `where` the place of
each thread (reader, writer, injector, runner), `modemMu` and `portMu` the two
locks with their order.  A write is an action of its own, so that a hang-up, a
close or a pairing session can fall between taking a lock and writing.

`BusTracker`: `pending` is the queue per short address, `radio` the queries
that were really written, in that order; a query is marked first and written
after.  Inverters answer in order, late or never; chunks may be lost or come
between others.  `disturbed` is history: the code cannot know that a reply was
lost, and its queue is then shifted until the unit has been quiet for
`ResponseTTL`.

`Watchdog` counts time in ticks; probes and recoveries take none.

`BackendLink`: `handler[c]` is the goroutine that serves connection `c`,
`publishers` the map entry of ecu-zb's name, `pubQueue`/`pubClosed` its channel.
ecu-zb's side is the fetch and the session with its writer and its reader.

### Presence, Energy, OutputCap

A frame passes `markFirstSeen`, the online tracker and, after its rows are
stored, the fault tracker; these are separate steps of `Presence`, since the
sweeper and a removal run between them.  Times are ages, cut at the largest
threshold.  `Energy` keeps per inverter the counter, the stored row and the
history of what was produced (`made`, `base`, `slack`, `clean`); two builders
read the lifetime and write anchors with a gap between.  In `OutputCap` the
intent is recorded after the frame is routed, read-backs go through a queue of
bounded length, a page is compared with the intent and a drifted cap is sent
again, at most once per interval.

### Fanout, Dashboard

`Fanout`: a writer changes the row, then publishes; `ch` is the subscriber's
buffered channel, `replayRows` what is left of its replay.  The history
`excused` names inverters with overlapping writers and rows deleted while the
subscriber was away.  `Dashboard`: `snap` is the cache, `dirty`/`owed` the hub's
flag and timer, `queue` each browser's channel, `view` what it shows.

### Settings

Names lead to inodes; `dirs` are the states of the directory a power cut may
leave, `content` and `synced` belong to inodes.  `work[t]` is one operation: it
reads the copy in memory, applies a new MAC (four commands and a recovery),
writes the temporary file, syncs it, renames it, syncs the directory and
publishes the copy; nothing keeps two operations apart, because nothing in the
code does.  With no inode left
a save can only fail.

### PowerLimit, SunSpecBank, SunSpecServer

A write `w = <<client, n>>` is one call of `handleWrite`; `wpc` is its place in
`ControlsWriter.Apply`, `targets` what `targetUIDs` made of the snapshot it
loaded, `rest` the targets its loop has left.  Sending a frame (`SendLimit`)
and recording it in the cache (`SetLimit`) are two steps, as in the code.  The
timer a write schedules has the write's name; `tpc` and `trest` are its place
in `fire` and its targets, `timers` the reverter's map.  A timer leaves `armed`
when the runtime starts its goroutine, which is before it takes the mutex.
Commands take effect in the order in which `Send` returns; that inv-driver
keeps this order over one-shot connections is taken for granted.  `leaseOf` and
`stranded` are history: which write's leased cap is in force, and where a
failed send or a restart has lost it.  `PowerLease` says what all this is for: a
leased cap runs until it is replaced or full power is restored, or a failure
loses it, and no cap is below the floor.

`SunSpecBank` builds register images from a snapshot; `SunSpecServer` publishes
them next to the snapshot through two atomic pointers, so that a client may
learn an address from one bank and write into the next.

### Parts that run side by side

An MC module instantiates several parts that do not interact in it; `part`
chooses one, the others rest in an initial state.  The state spaces add up and
each part's fairness is stated for its own steps.

## 3. What TLC checks

Passing runs (distinct states in brackets); two or three of each kind are where
overlap, overtaking and superseding first occur:

* `buslock` / `MCBus` [762 thousand].  `BusLock` with two requests, two broadcasts and
  two inverters: `MutualExclusion`, `PreemptedWithinOneSend`,
  `PauseAccounting`, `AbortReachesRunningOp`; every request is answered
  (`RequestsAnswered`) and the poller is not starved (`PollerNotStarved`).
  `Splice` with two ports, one reopening, two frames and one chunk
  (`RadioShared`); `BusTracker` with three queries to one unit, replies of up to
  three chunks (`RepliesAttributed`); `Watchdog` with windows of two and three
  ticks and a back-off cap of seven, which is no power of two
  (`WatchdogPaced`); `BackendLink` with three connections and queues of one
  frame (`LinkSound`).
* `gridprofile` / `MCProfile` [666 thousand].  `GridProfile` with two requests, two
  inverters, one slot, one base and two overlays, one of which passes the check
  of `setOverlay` and conflicts after clamping.  `NoJobStarves` is a safety form
  of progress: some live job can always move.  `ProfilePush` with one selection,
  two values and inverters of two families (`PushSettles`); `Fanout` with one
  setter, one inverter and a channel of one (`ClosedOnce`,
  `SubscriberCurrent`); `Dashboard` with one browser, one inverter and a channel
  of one (`DashboardCurrent`).  Symmetric in inverters and requests.
* `pairing` / `MCRadio` [324 thousand].  One operation of any kind, two inverters,
  two PANs, two channels, one fault, two commit rounds: `NoOpEndsParked`,
  `DoneMeansMoved`, `PersistFollowsAdoption`, `OpEnds`.  `Presence` with one
  inverter whose thresholds are all two units and one late frame
  (`OfflineMeansRearm`, `SilenceIsLogged`).  The trackers are in memory: an
  inverter that falls silent is logged as offline unless the daemon restarts or
  the inverter is deleted first, and after a restart in the silence nothing is
  logged.  Raises of a fault are coalesced, within one run of the daemon; clears
  never are, so a fault that flaps still logs each of its clears.
* `pairing_twice` / `MCStation` [822 thousand].  Two operations in a row on one
  inverter, so that the second meets late commands of the first, plus one fault
  (`RadioHome`, `RestartKeepsNet`).  `Energy` with two inverters (symmetric)
  and a counter that wraps at three (`EnergyAccounted`); `ProtectionCodec` with values on and
  off the scales' steps, where the volts of AB are furthest off, at the fields'
  width and at the sign bit, slopes around the captured one and at the envelope,
  modes of each curve, one with a fraction and one that does not fit a byte
  (`WriteReadsBack`, `FrameRecognised`); `SunSpecServer` with every fleet of up to
  three inverters out of eight readings (`BanksAgree`) and one write per client
  into a fleet that changes once (`NoStrayWrite`); `Settings` with three
  operations of one handler and pairing or two of any, and one mishap
  (`SettingsSound`).
* `powerlimit` / `MCPower` [179 thousand].  A controller of the whole fleet (one
  write) and one of its first inverter (two writes, so that a lease is
  refreshed), one failed send or restart (`LeaseCovered`, `LeaseSpec`).  The
  fleet does not change between restarts and each unit has one controller, as
  with the controller `reverter.go` names.  `OutputCap` with one inverter and
  three caps (`CapConverges`).

Fairness is weak and only on goroutines and timers that can run; nothing
obliges anyone to make a request, and ecu-zb may be gone.  An operation ends
because each of its commands has a timer (`time.NewTimer`); requests to the bus
are answered because operations end (`OpEnds`).  `PresenceFairness` is the
clock, a frame that is being handled, a removal and the sweep.  `LeaseSpec` is
`PowerLease!Spec` under a refinement mapping, liveness included, from writes in
progress, armed timers and restores.  `CapConverges` needs strong fairness where
frames are lost: a frame that is sent again and again gets through.

An operation is excused from the properties about the settings and the fleet
(`excused`) when its rollback command failed, when a process restarted under
it, or when the snapshot its request had taken before `startOp` was stale: the
code makes no promise for these.  The other histories (`disturbed`, `stranded`,
`unpushed`, `blind`, `missed`) mark in the same way what the code gives up on,
and each property says for how long.  Two things follow.  The reverter's timers
live in memory only, so `LeaseCovered` promises nothing of a cap whose server
restarted: that loss is the code's behaviour (`reverter.go:36`), and no
property covers it.  And `CapConverges` is about the cap that was
recorded: a command that is lost before that is not sent again.

Runs that end in a violation record where the code and its own comments
disagree (`findings` in `PROJECT.json`):

* `gridprofile_apart`: an overlay range disjoint from the base range collapses
  to one point outside the base range.
* `gridprofile_race`: a superseded reconcile goes on sending next to its
  successor; only its settle waits look at the context.
* `pairing_rollback`: a rekey that fails between two commit rounds rolls the
  radio back although inverters have moved.
* `pairing_rerun`: the recovery that the status of a partial channel change
  recommends is refused.
* `pairing_rekey_channel`: a rekey with an explicit channel persists the PAN
  alone.
* `powerlimit_cancel`: `fire` removes its successor from the map, after which
  the successor cannot be cancelled.
* `powerlimit_cache`: overlapping writers leave the read-back wrong.

Every property of a passing run has a mutant in `PROJECT.json`: a faulty
variant of one definition (marked "Faulty variant" in the modules) under which
TLC finds the property violated.

## 4. What is proved

TLAPS checks the theorems for every value of the constants that satisfies the
named assumptions; TLC evaluates those on every run.  Each proof has the same
plan: an inductive invariant (first checked by TLC on a small instance), one
lemma per action with one step per conjunct, and a temporal step at the end.

`BusLockProofs` proves, for any sets of requests and broadcast jobs and any
inventory bound, `TypeOK`, `MutualExclusion`, `PreemptedWithinOneSend`,
`PauseAccounting` and `AbortReachesRunningOp`.  The only assumption is
`BusLockAssumption` (the "nil" request is no request, the bound is a natural
number).  None of these is inductive alone.  The inductive invariant adds who
may be where: a request between `runMu` and its launch owns `runMu`, so there
is at most one; the pause count is then 0 or 1; while it is raised the poller's
yield channel is closed or the poller has not been given one, so at most the
send that was already decided goes out; an operation that is not yet closed is
the current one, because `PreviousDone` refuses every other.  Exclusion needs
that each user releases only what it holds, since `Release` checks no owner.

`GridProfileProofs` proves, for any fleet, any requests, all stored documents,
ordering rules and capability sets, every invariant of `GridProfile` except
`NoJobStarves`.  The assumptions are `ProfileAssumption`,
`GridProfileAssumption` (finite sets of requests and inverters) and
`StoredAssumption`: stored documents have ranges that are not empty, which
`validateRanges` establishes before anything is stored, and so have the forward
map's.  The pure part (`ClampWithin`, `IntersectWithin`, `IntersectOverlap`,
`DesiredHasNoConflict`) shows that a clamped point lies in every range its
effective range was intersected from if those meet pairwise, and that the
capability filter cannot bring a conflict back.  The inductive invariant
`IInv` strengthens the rest: the semaphore is the number of jobs that will
release it (`SlotInv`, which needs that a job is enqueued once, `NewInv`); a
request that has reported never enqueues again (`FleetInv`); a job past its
last agrees with the last read, or a request will enqueue it, or an uncancelled job
has yet to read it (`ReconcileInv`).

And it proves `WriteReadsBack` and `FrameRecognised` of the codec, for every
native value the envelope admits, every writable code of both families, any number
of commands and pages in any order, each frame taken or lost.  The assumptions
are `CodecAssumption` (`Unset` is no number) and the three external operators of
section 2, on what a register becomes.  What reads back how is not
the same for all codes, and `WriteReadsBack` says each:

* The 27 codes that both families write and read with one linear scale or a
  period are read within the reconciler's tolerance if their value can be read at
  all (`Readable`: volts are whole, two bytes are below the sign bit, and not
  `AB` of a DS3, which is rounded down).  Any volts are read between 1.26 V too
  low and 0.5 V too high, 0.72 V for `AB`.
* `DD` of a DS3 is read at most 0.28 off.  That is more than the 0.20 the
  reconciler tolerates, so some slopes are never confirmed.
* A mode is read as its curve on a DS3 and on a QS1 whose page B is of the variant
  'f': 3 and 4 are read as 13 and never confirmed.  On a QS1 of variant 0 it is
  read as its number: 13 and 14 are read as 4 and 1.  Other variants do not show
  the mode.  A mode of a QS1 of which a frame was lost promises nothing, and a lost
  third frame cannot be noticed.
* `CG` of a DS3 and `CA` of a QS1 are on no page: nothing is ever published under
  these codes, so no write of them is confirmed.  (A profile's point for `CA` of a
  QS1 is refused by `familyHardRejects`, a SunSpec write is not.)

The numbers come first: scaling loses at most one unit of the register
(`Truncated`), so each pair of scales is two inequalities and a division
(`VoltsDS3` .. `PowerQS1`, `SlopesHeldDS3`); a frequency of a QS1 is written and
read as a period, and the period of a period is the frequency again although both
divisions lose something, because a period is longer than the frequency is large
(`PeriodOfPeriod`); the bytes make up the register, signed when there are two
(`Read1` .. `Read3`); a mode is five cases on a DS3, and on a QS1 arithmetic on
the halves of its byte (`ModesHeldDS3`, `ModesHeldQS1`).  One lemma for each class
of codes with the same scales then says that a value is `Kept` or held, and one
for each builder that a frame carries its register and is recognised.  `CodecInv`
says of the state that the register holds what was asked, that buffered bytes are
some register's, that a page read after the last write holds this write and is
what is published, that a QS1's mode stays one byte (`ByteKept`) and that nothing
is published without a field (`UnreadUnset`): each page decodes everything that
is buffered, so fields of other pages must keep their bytes.  The proof found
what the run's samples had missed: `AB` of a QS1 is written with 1.332 and read
with 1.3315, so a voltage that is not whole is read up to 0.72 V too high, not
0.5 V as for the other voltages.  The bound in `WriteReadsBack` was corrected and
the voltage added to the run.  Whole volts, which is what profiles hold, are read
back within the tolerance.

`PowerLimitProofs` proves type correctness and that the reverter's map holds
only live timers of the right unit, for any controllers and a fleet that
changes; that every step of `PowerLimit` is a step of `PowerLease` or stutters
under the refinement mapping (`WritesImplementLease`, the safety part of
`LeaseSpec`); and `LeaseCovered`.  The last one assumes that each unit has one
controller and that the fleet stays: the runs `powerlimit_cancel` and
`powerlimit_cache` show what overlapping controllers do.

`RadioProofs` proves `RadioShared`, `RepliesAttributed`, `LinkSound` and
`WatchdogPaced`.  For the splice the invariant says where each thread may be
for each lock it holds, and that the port in use is open unless the reader is
replacing it or a signal came (`PortInUse`).  For the tracker
it says, of each unit that is not `disturbed`, that the unexpired entries are
those of the queries in flight (`EachAwaited`, `NoneInvented`) and that queries
were written in the order of the queue (`SentInOrder`), so the oldest entry is
the one of the query that is answered; that a unit which has been silent for
`ResponseTTL` needs no excuse any more follows because every query is at least
as old as the silence (`QuietFor`).  The time left to a reassembly and the time
since the reply began add up to the deadline while the reply is whole.  For the
link, the publisher's name leads to a handler that serves or is leaving and has
not closed its channel, and to the one registered last while that one is served
(`NameLeads`).  The watchdog's back-off is a recursive
function; its bound is proved with the set-based induction of `NatInduct`.

`DriverProofs` proves `ClosedOnce` and `SubscriberCurrent` of `Fanout`,
`DashboardCurrent` of `Dashboard` and `PushSettles` of `ProfilePush`.  The
subscriber's invariant is a statement about its whole channel: for each
inverter, what the subscriber knows after the frames still queued, the rows
still to be replayed and the publications under way is the row in the
inventory, or a later frame will mend it (`Mended`).  `PushInv` relates the
newest stored base to what a push carries and to which read-backs are stale.
Proving `PushSettles` showed that the history `unpushed` was wrong: it took a
base that returned to an earlier value for pushed while the push of that value
still waited.  It now names the selection whose base is to be pushed, or the push
that has taken it up.

`PairingProofs` proves `NoOpEndsParked`, `RadioHome`, `DoneMeansMoved`,
`PersistFollowsAdoption`, `RestartKeepsNet`, `OfflineMeansRearm` and the safety
part of `SilenceIsLogged` (`FlapIsQuiet`, which is about raises only), for any fleet, nets, number of operations, faults and
commit rounds.  The core of `PairInv` is the relation between the place of the
operation, the command it awaits and ecu-zb's queue (`Awaits`): a command that
is being awaited is the last in the queue and the one of that place, whatever
late commands are still queued before it, and once its result is in, nothing is
left behind it.  On top of that `Parks` and `Away` say at which places a radio
may be off its net, `AdoptsInPlace` and `Armed` that a command which gives
ecu-zb another net is only queued where the operation means it, and `MovedStay`
that an inverter an acked command has moved stays moved.
`RestartKeepsNet` needs `RekeyChannels = {0}`: the run `pairing_rekey_channel`
shows that it fails otherwise.  `PresInv` is about the three trackers of
`Presence`.  Proving it found that two guards of a `CASE` in the model
overlapped, which TLC resolves by order and TLA+ does not.

`StationProofs` proves `EnergyAccounted` for any fleet, register width and
rating.  For one inverter, what was accumulated is covered together with what
the next frame may add, by what was produced or by what a garbage read has set
aside (`Covered`).  The fleet's sum, on which the anchors rest, is
`MapThenSumSet`, a recursion over sets; `NatInduct` proves for it what is needed
(`SumChange`: a function changed at one place changes the sum by the
difference) from the definition, by induction over subsets written with sets
instead of predicates, because the provers cannot instantiate the library's
induction theorems.

It also proves `SettingsSound` for any handlers, MACs, number of inodes, failures
and crashes.  The property is about overlapping operations, the invariant about
those that do not overlap: a save whose operation met no other is the only one at
work (`AloneIsAlone`), and for each of its steps `AloneSaves` says what its inode
holds and whether that is synced; `NameFree` says that the temporary file is none
of the inodes the name may lead to after a power cut, so that writing it touches
no state of the directory that could come back (`WholeFile`).  For the interface,
an undisturbed operation either applies a MAC, and has applied it once it saves,
or saves the one in memory (`MacApplied`).

And it proves `NoStrayWrite` for any fleet, readings, units, writes to the fields
of `WritableFields`, and number of changes and writes.  The client learned an
address from a bank of one kind (fleet or inverter, the models of the second 32
registers further on) and the handler looks it up in a bank of whichever kind it
loads.  `FieldsAre` computes, from the widths in the encoders' layouts, the registers
of every field that is written; `DroopWrites`, `CurveWrites` and `ControlWrites` say
at which registers a writer sets anything, and what; and `LandsWhereMeant` that
none of these is hit by a field of another model, or another field, for any pair
of kinds.  `HandledAsMeant` puts them together for any bank, snapshot and unit.
`SunInv` adds what a step needs to know of the state: the snapshots in use list
the client's UIDs, a client whose unit was not given away still means the
inverter it read, and an entry of the tracker was made by one of the writes that
are over.  The assumption on `Asks` is that a
write starts at a field and has words, one in Model 123, where a longer one may
hold several controls (the subject of `PowerLimit`).

That the models do start where `StartsFrom` says is a theorem of its own,
`BanksAreWalked`: the bank any unit is answered from satisfies `LayoutWalks`, the
part of `BanksAgree` about addresses, for any fleet, protection parameters and
write results.  A layout is as wide as its fields are together, a sum over a set of
places, which `RunsUp` evaluates from the running totals (`WidthIs`, and one lemma
`...Is` for each layout); so the length each emitter declares is what it writes
(`Sound`), and for the lists of Models 160 and 64202 this holds with any number of
rows (`ListingIs`).  A bank whose sections are sound and have different ids is
walked by the lengths it declares (`FoundAtStart`); banks of different ids joined
are such a bank (`BanksJoin`), so that what follows Model 134 moves nothing in
front of it (`ClosedWalks`).  Of the snapshot this needs only that its inverters
are a sequence (`SnapOK`).  Addresses are plain numbers here and 16 bits in the
code: with four inputs to an inverter the bank of a fleet of 276 still ends
below 65536, and Modbus has units for 246.

Changing the model for the provers was needed in six places: the queue of a
unit in `BusTracker` is a set ordered by ids (it was a sequence filtered with
`SelectSeq`), the sum in `Energy` is over a function, the fleet of `Pairing` and
what is left of it are filtered by a function (`Kept`), with no inode left a save
in `Settings` can only fail (it chose an inode that does not exist, out of reach
of the run), and in `SunSpecServer` `FreqDroopWriter` tests its cases in the
order of the code (the guards of its `CASE` overlapped) and the model a write
falls in is an operator of its own (`WrittenModel`), and `ProtectionCodec` writes
its bytes and frames out as tuples, as the builders do (they were computed with
powers of 256 and padding).  The runs' state spaces stayed the same.

Out of the prover's reach, and left to TLC: liveness (`RequestsAnswered`,
`PollerNotStarved`, `OpEnds`, `CapConverges`, the first part of
`SilenceIsLogged`, `LeaseSpec` with its fairness) and `ENABLED`
(`NoJobStarves`).  Only model-checked so far: `BanksAgree` but for its
`LayoutWalks`.  It compares what two encoders compute from the same readings, by
arithmetic that is evaluated for every bank of the run.

## 5. Plan

1. Done: every component of the table in section 1 whose goroutines, processes
   or messages interact, except those of section 6; proofs of the invariants
   named in section 4.
2. Done: `LayoutWalks` as a theorem about the encoders, from the widths of their
   layouts.  Next: the parts of `BanksAgree` whose two sides are sums over the
   same units (the limit of Model 123, the rating of Model 120).
3. Abstract specifications for the bus lock (one user, bounded preemption) and
   for pairing (a change of network that succeeds or is undone), with the
   detailed modules as implementations.
4. `InheritProfile` and a second reconcile source in `GridProfile`.

## 6. Not modelled

The packet tap and the UART's capture mode, ecu-web's authentication and HTTP
API, the browser client, recoveryd, the TLS relay, packaging: they keep no state
that interacts with the parts above, or only through the operating system.
SQLite is an atomic map, except that two statements are two steps.  Wall-clock
time is abstracted to ages or to "the timer may fire".  Generated code
(`wire/*.pb.go`) is what it says.

Observations made while modelling, outside the properties (each is excused,
bounded away or beyond the model):

* Store: a failed `FleetLifetimeWh` counts as 0 and re-anchors the periods at 0;
  a summary may use a lifetime read before a deletion; the lifetime is called
  non-decreasing but `DeleteInverter` lowers it.
* Clients of inv-driver keep inverters removed while they were away until they
  restart; `applyInfo` does not compare timestamps; a frame in flight during a
  removal adds the inverter again.
* Backend link: `FetchSettings` uses the publisher's name, so a late handler may
  remove the name of a live session; commands accepted for the fetch's
  connection are lost; a frame in an old connection's socket may be handled after
  a newer one; `DialLoop` redials at once after a session, though its comment
  says it sleeps.
* Cap intent: recorded after the send; a broadcast schedules no read-back; the
  re-assertion's interval is charged even if routing fails; the protection read
  queue drops beyond 16.
* Fan-out: pairing's `SetInverterShortAddr` and `SetInverterPairingState` write
  rows without publishing them; they are not writers of `Fanout`.
* Codec: `DD` of a DS3 is read with one step of the inverter more than its tolerance
  and `CG` and `CA` are not read at all (section 4); the modes 3 and 4 are
  confirmed by a QS1 of variant 0 only, 13 and 14 not by that one; a lost third frame of a mode cannot be
  noticed; `AB` of a DS3 is truncated; `AH` and `AI` have no tolerance; 16-bit
  registers from 0x8000 are read back negative and dropped; any page advances
  `ReadbackSeq`; a reply that is too short decodes as "no faults".
* SunSpec: the banks are compared in integers, where the code computes sums in
  floating point, so the two encoders agree on rounding by construction; trip
  points are not compared while a snapshot holds parameters of an inverter it does
  not list, and the conversion of trip voltages to per cent is not modelled; some model values are
  published without looking at `Has`; the
  tracker of Model 711 waits for "DC" where the profile writes "CA"; Model 134's
  third frequency points can only end FAILED; the two atomic pointers of bank and
  snapshot may disagree; `NominalVRefV` depends on the order of a map.
* Radio: a host chunk in flight when pairing begins is not held back; after the
  deadline of a reassembly the rest of our reply reaches the host; an ack in the
  middle of a reply is glued to it; a host chunk written to a closed port ends
  the splice although `splice.go` calls this harmless; telemetry does not reset
  the watchdog's count; `busClient.Pairing` is assigned after the client's
  goroutines have started.
* Pairing: `parsePAN` accepts 0 and FFFF; a capped fleet write that fails at its
  second inverter leaves the first one capped without a timer.
* ecu-web: nothing marks the hub dirty when an inverter falls silent; a slow
  browser loses its newest frame; the power history is ordered only if the clock
  never steps back.
* Settings: concurrent saves share one ".tmp" name, so one may fail or be lost; a
  failed save after a successful apply leaves file and interface apart; a process
  killed between "down" and "address" leaves the interface down.
* Profile broadcast: only the first family that can encode a code is sent it,
  but all targeted families count in the confirmation; a busy bus leaves a base
  stored and not applied; `VerifyStartup` compares before its own read is
  answered.
