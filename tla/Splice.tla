------------------------------- MODULE Splice -------------------------------
(***************************************************************************)
(* ecu-zb between the host and the radio: the splice (internal/zigbee/     *)
(* proxy), the modem reopener of cmd/ecu-zb and the pairing runner.  Two   *)
(* copiers move chunks, the bus client injects frames or runs a pairing    *)
(* primitive, the watchdog probes; all of them write to one tty, which may *)
(* hang up and is then replaced.  Ports are descriptors, numbered in the   *)
(* order they are opened; that the host's pty is replaced too is left out. *)
(***************************************************************************)
EXTENDS Naturals

CONSTANTS
    MaxPorts,         \* bound on the ports ever opened
    MaxModemReopens,  \* maxModemReopens
    MaxFrames,        \* most frames of a primitive
    MaxChunks,        \* bound on host chunks, injected frames and primitives
    Nobody            \* no thread, no pairing session

Ports == 1 .. MaxPorts
Workers == {"bus", "dog"}         \* the bus client's reader and the watchdog
Threads == {"reader", "copier"} \cup Workers

ASSUME SpliceAssumption ==
    /\ {MaxPorts, MaxModemReopens, MaxFrames, MaxChunks} \subseteq Nat \ {0}
    /\ Nobody \notin Threads /\ Nobody \notin Nat

VARIABLES
    tty,        \* each port: "none" before it is opened, "open", "hung" or "closed"
    modemPort,  \* the port the splice uses: swappablePort.cur
    portMu,     \* the thread that holds the port's lock for writing
    modemMu,    \* the thread that holds the write lock, ModemWriteMu
    pairMu,     \* the worker that holds the pairing adapter's lock
    runnerFd,   \* PairingRunner.Fd
    session,    \* pairing and sink of the splice: the session it redirects to
    sessions,   \* sessions begun so far
    paused,     \* interceptGate.paused
    reopens,    \* hang-ups in a row without a read
    where,      \* each thread's place
    fd,         \* the port a copier or an injection has resolved
    frames,     \* frames the running primitive has still to send
    done,       \* Run's context is cancelled
    spent,      \* what MaxChunks bounds
    during,     \* history: the session in which the copier's chunk was read
    slipped,    \* history: a chunk of the host was written in the session it was read in
    replaced,   \* history: the port was replaced since the primitive took its descriptor
    signalled   \* history: a shutdown has closed the port

portVars == <<tty, modemPort, portMu, modemMu, reopens>>
pairVars == <<pairMu, runnerFd, session, sessions, paused, frames, replaced>>
spliceVars == <<tty, modemPort, portMu, modemMu, pairMu, runnerFd, session, sessions, paused, reopens, where, fd,
                frames, done, spent, during, slipped, replaced, signalled>>

\* The types, a part of RadioShared.
SpliceTypeOK ==
    /\ tty \in [Ports -> {"none", "open", "hung", "closed"}] /\ {modemPort, runnerFd} \subseteq Ports
    /\ {portMu, modemMu} \subseteq Threads \cup {Nobody} /\ pairMu \in Workers \cup {Nobody}
    /\ {session, during} \subseteq Nat \cup {Nobody} /\ sessions \in Nat /\ paused \in 0 .. 1
    /\ reopens \in 0 .. MaxModemReopens + 1 /\ fd \in [Threads -> Ports] /\ frames \in 0 .. MaxFrames
    /\ {done, slipped, replaced, signalled} \subseteq BOOLEAN

SpliceInit ==
    /\ tty = [p \in Ports |-> IF p = 1 THEN "open" ELSE "none"] /\ modemPort = 1 /\ runnerFd = 1
    /\ portMu = Nobody /\ modemMu = Nobody /\ pairMu = Nobody
    /\ session = Nobody /\ sessions = 0 /\ paused = 0 /\ reopens = 0
    /\ where = [t \in Threads |-> IF t \in Workers THEN "idle" ELSE "top"]
    /\ fd = [t \in Threads |-> 1] /\ frames = 0
    /\ done = FALSE /\ spent = [k \in {"host", "bus", "dog"} |-> 0]
    /\ during = Nobody /\ slipped = FALSE /\ replaced = FALSE /\ signalled = FALSE

Goto(t, from, dest) == where[t] = from /\ where' = [where EXCEPT ![t] = dest]
Spend(kind) == spent[kind] < MaxChunks /\ spent' = [spent EXCEPT ![kind] = @ + 1]

(* currentModem: it waits while the port is being replaced.                *)
Resolve(t, from, dest) ==
    Goto(t, from, dest) /\ portMu = Nobody /\ fd' = [fd EXCEPT ![t] = modemPort]

Lock(t, from, dest) == Goto(t, from, dest) /\ modemMu = Nobody /\ modemMu' = t

\* A copier returns an error: record cancels Run.
Fails(t) == where' = [where EXCEPT ![t] = "ended"] /\ done' = TRUE

-----------------------------------------------------------------------------
(* copyOne from the modem to the host: the one reader of the port.         *)

ReaderTop ==
    /\ IF done THEN Goto("reader", "top", "ended") /\ UNCHANGED fd ELSE Resolve("reader", "top", "read")
    /\ UNCHANGED <<portVars, pairVars, done, spent, during, slipped, signalled>>

ReaderRead ==
    /\ where["reader"] = "read"
    /\ \/ tty[fd["reader"]] = "open" /\ Goto("reader", "read", "got") /\ reopens' = 0 /\ UNCHANGED done
       \/ tty[fd["reader"]] = "hung" /\ Goto("reader", "read", "eof") /\ UNCHANGED <<reopens, done>>
       \/ tty[fd["reader"]] = "closed" /\ Fails("reader") /\ UNCHANGED reopens
    /\ UNCHANGED <<tty, modemPort, portMu, modemMu, pairVars, fd, spent, during, slipped, signalled>>

(* The chunk goes to the sink of a pairing session, if it has room, or to  *)
(* the host, whose pty may fail for good.                                  *)
ReaderForward ==
    /\ where["reader"] = "got"
    /\ \/ Goto("reader", "got", "top") /\ UNCHANGED done
       \/ session = Nobody /\ Fails("reader")
    /\ UNCHANGED <<portVars, pairVars, fd, spent, during, slipped, signalled>>

(* The port has hung up, too often in a row, or fault takes its lock.      *)
ReaderHungUp ==
    /\ where["reader"] = "eof"
    /\ \/ done /\ Goto("reader", "eof", "ended") /\ UNCHANGED <<portMu, reopens, done>>
       \/ ~done /\ reopens = MaxModemReopens /\ reopens' = reopens + 1 /\ Fails("reader") /\ UNCHANGED portMu
       \/ /\ ~done /\ reopens < MaxModemReopens /\ reopens' = reopens + 1
          /\ portMu = Nobody /\ portMu' = "reader" /\ Goto("reader", "eof", "reopen") /\ UNCHANGED done
    /\ UNCHANGED <<tty, modemPort, modemMu, pairVars, fd, spent, during, slipped, signalled>>

(* ModemReopener opens the next port ...                                   *)
Reopen ==
    /\ where["reader"] = "reopen"
    /\ \/ /\ modemPort + 1 \in Ports /\ tty' = [tty EXCEPT ![modemPort + 1] = "open"]
          /\ Goto("reader", "reopen", "close") /\ UNCHANGED <<portMu, done>>
       \/ Fails("reader") /\ portMu' = Nobody /\ UNCHANGED tty
    /\ UNCHANGED <<modemPort, modemMu, reopens, pairVars, fd, spent, during, slipped, signalled>>

\* Faulty variant: the old port is closed without the write lock.
CloseOldUnlocked ==
    /\ Goto("reader", "close", "swap")
    /\ tty' = [tty EXCEPT ![modemPort] = "closed"]
    /\ UNCHANGED <<modemPort, portMu, modemMu, reopens, pairVars, fd, done, spent, during, slipped, signalled>>

(* ... and closes the old one under the write lock.                        *)
CloseOld ==
    /\ Goto("reader", "close", "swap") /\ modemMu = Nobody
    /\ tty' = [tty EXCEPT ![modemPort] = "closed"]
    /\ UNCHANGED <<modemPort, portMu, modemMu, reopens, pairVars, fd, done, spent, during, slipped, signalled>>

(* fault installs the new port, and the copier settles.                    *)
Swap ==
    /\ Goto("reader", "swap", "top")
    /\ modemPort' = modemPort + 1 /\ portMu' = Nobody /\ replaced' = TRUE
    /\ UNCHANGED <<tty, modemMu, reopens, pairMu, runnerFd, session, sessions, paused, frames, fd, done, spent,
                   during, slipped, signalled>>

-----------------------------------------------------------------------------
(* copyOne from the host to the modem.                                     *)

CopierTop ==
    /\ \/ ~done /\ paused = 0 /\ Goto("copier", "top", "read")
       \/ done /\ Goto("copier", "top", "ended")
    /\ UNCHANGED <<portVars, pairVars, fd, done, spent, during, slipped, signalled>>

(* A chunk; the host let go of the pty; an error the reopener cannot mend. *)
CopierRead ==
    /\ where["copier"] = "read"
    /\ \/ Spend("host") /\ Goto("copier", "read", "got") /\ during' = session /\ UNCHANGED done
       \/ Goto("copier", "read", "ended") /\ UNCHANGED <<spent, during, done>>
       \/ Fails("copier") /\ UNCHANGED <<spent, during>>
    /\ UNCHANGED <<portVars, pairVars, fd, slipped, signalled>>

(* pairingState: a chunk that arrives in a pairing session is dropped.     *)
CopierForward ==
    /\ Goto("copier", "got", IF session # Nobody THEN "top" ELSE "resolve")
    /\ UNCHANGED <<portVars, pairVars, fd, done, spent, during, slipped, signalled>>

(* write: the port first, the lock second, both for the copier and for     *)
(* InjectToModem.                                                          *)
WriteResolves(t) ==
    /\ Resolve(t, "resolve", "lock")
    /\ UNCHANGED <<portVars, pairVars, done, spent, during, slipped, signalled>>

WriteLocks(t) ==
    /\ Lock(t, "lock", "write")
    /\ UNCHANGED <<tty, modemPort, portMu, reopens, pairVars, fd, done, spent, during, slipped, signalled>>

\* A hung or closed port fails the write: that ends the copier, and an
\* injection tells its caller.
Write(t) ==
    /\ where[t] = "write" /\ modemMu' = Nobody
    /\ IF t # "copier" THEN Goto(t, "write", "idle") /\ UNCHANGED <<done, slipped>>
       ELSE IF tty[fd[t]] = "open"
       THEN /\ Goto(t, "write", "top") /\ UNCHANGED done
            /\ slipped' = (slipped \/ (session # Nobody /\ during = session))
       ELSE Fails(t) /\ UNCHANGED slipped
    /\ UNCHANGED <<tty, modemPort, portMu, reopens, pairVars, fd, spent, during, signalled>>

-----------------------------------------------------------------------------
(* Workers: the bus client's reader injects or runs a primitive, one thing *)
(* at a time; the watchdog only runs primitives.                           *)

Inject ==
    /\ Spend("bus") /\ Goto("bus", "idle", "resolve")
    /\ UNCHANGED <<portVars, pairVars, fd, done, during, slipped, signalled>>

(* withModem: the pairing lock ...                                         *)
TakePairing(w) ==
    /\ Spend(w) /\ Goto(w, "idle", "modemfd") /\ pairMu = Nobody /\ pairMu' = w
    /\ \E n \in 1 .. MaxFrames : frames' = n
    /\ UNCHANGED <<portVars, runnerFd, session, sessions, paused, replaced, fd, done, during, slipped, signalled>>

\* Faulty variant: the descriptor of the start is kept.
TakeFdOnce(w) ==
    /\ Goto(w, "modemfd", "redirect") /\ portMu = Nobody /\ replaced' = FALSE
    /\ UNCHANGED <<portVars, pairMu, runnerFd, session, sessions, paused, frames, fd, done, spent, during, slipped,
                   signalled>>

(* ... the descriptor of the moment ...                                    *)
TakeFd(w) ==
    /\ Goto(w, "modemfd", "redirect") /\ portMu = Nobody /\ runnerFd' = modemPort /\ replaced' = FALSE
    /\ UNCHANGED <<portVars, pairMu, session, sessions, paused, frames, fd, done, spent, during, slipped, signalled>>

(* ... and BeginPairing: redirect the reader, then pause the copier.       *)
BeginPairing(w) ==
    /\ Goto(w, "redirect", "pause") /\ session' = sessions + 1 /\ sessions' = sessions + 1
    /\ UNCHANGED <<portVars, pairMu, runnerFd, paused, frames, replaced, fd, done, spent, during, slipped, signalled>>
PauseHost(w) ==
    /\ Goto(w, "pause", "frame") /\ paused' = paused + 1
    /\ UNCHANGED <<portVars, pairMu, runnerFd, session, sessions, frames, replaced, fd, done, spent, during, slipped,
                   signalled>>

(* writeFrame: lock, flush, settle, drain, write the raw descriptor.       *)
FrameLocks(w) ==
    /\ Lock(w, "frame", "flush")
    /\ UNCHANGED <<tty, modemPort, portMu, reopens, pairVars, fd, done, spent, during, slipped, signalled>>
Flush(w) ==
    /\ where[w] = "flush"
    /\ IF tty[runnerFd] = "open" THEN Goto(w, "flush", "settle") /\ UNCHANGED modemMu
       ELSE Goto(w, "flush", "resume") /\ modemMu' = Nobody
    /\ UNCHANGED <<tty, modemPort, portMu, reopens, pairVars, fd, done, spent, during, slipped, signalled>>
WriteFrame(w) ==
    /\ where[w] = "settle" /\ modemMu' = Nobody /\ frames' = frames - 1
    /\ Goto(w, "settle", IF tty[runnerFd] = "open" /\ frames > 1 THEN "frame" ELSE "resume")
    /\ UNCHANGED <<tty, modemPort, portMu, reopens, pairMu, runnerFd, session, sessions, paused, replaced, fd, done,
                   spent, during, slipped, signalled>>

(* EndPairing: resume the copier, then stop redirecting.                   *)
ResumeHost(w) ==
    /\ Goto(w, "resume", "restore") /\ paused' = paused - 1
    /\ UNCHANGED <<portVars, pairMu, runnerFd, session, sessions, frames, replaced, fd, done, spent, during, slipped,
                   signalled>>
EndPairing(w) ==
    /\ Goto(w, "restore", "idle") /\ session' = Nobody /\ pairMu' = Nobody
    /\ UNCHANGED <<portVars, runnerFd, sessions, paused, frames, replaced, fd, done, spent, during, slipped, signalled>>

Primitive(w) ==
    \/ TakePairing(w) \/ TakeFd(w) \/ BeginPairing(w) \/ PauseHost(w)
    \/ FrameLocks(w) \/ Flush(w) \/ WriteFrame(w) \/ ResumeHost(w) \/ EndPairing(w)

-----------------------------------------------------------------------------
(* The radio's tty hangs up; a signal cancels Run and closes the port under*)
(* main's own mutex, which the reopener holds.                             *)

HangUp ==
    /\ tty[modemPort] = "open" /\ tty' = [tty EXCEPT ![modemPort] = "hung"]
    /\ UNCHANGED <<modemPort, portMu, modemMu, reopens, pairVars, where, fd, done, spent, during, slipped, signalled>>

CurModem == IF where["reader"] = "swap" THEN modemPort + 1 ELSE modemPort
Signal ==
    /\ ~signalled /\ signalled' = TRUE /\ done' = TRUE
    /\ where["reader"] # "close" /\ tty' = [tty EXCEPT ![CurModem] = "closed"]
    /\ UNCHANGED <<modemPort, portMu, modemMu, reopens, pairVars, where, fd, spent, during, slipped>>

SpliceNext ==
    \/ ReaderTop \/ ReaderRead \/ ReaderForward \/ ReaderHungUp \/ Reopen \/ CloseOld \/ Swap
    \/ CopierTop \/ CopierRead \/ CopierForward
    \/ \E t \in {"copier", "bus"} : WriteResolves(t) \/ WriteLocks(t) \/ Write(t)
    \/ Inject \/ \E w \in Workers : Primitive(w)
    \/ HangUp \/ Signal

SpliceSpec == SpliceInit /\ [][SpliceNext]_spliceVars

-----------------------------------------------------------------------------
(* Properties.                                                             *)

\* Between its flush and its write the runner holds a descriptor that is not
\* closed under it: the number could by then name another file.
NotClosedMidFrame == \A w \in Workers : where[w] = "settle" => tty[runnerFd] # "closed" \/ signalled

\* A primitive meets a closed descriptor only if the port was replaced after
\* it took it.
DescriptorOfTheMoment ==
    \A w \in Workers : where[w] = "flush" /\ tty[runnerFd] = "closed" => replaced \/ signalled \/ portMu = "reader"

\* Whoever holds the write lock does not wait for the port's lock.
NoLockCycle == modemMu # Nobody => where[modemMu] \in {"write", "flush", "settle"}

\* The reader's end ends the proxy: nothing writes on with nobody to read.
NeverWriteOnly == where["reader"] = "ended" => done

(* Sharing the radio (splice.go LOCK ORDER and ModemReopener): while the   *)
(* port hangs up and is replaced under copiers, injections and primitives, *)
(* no descriptor is closed in the middle of a raw write, no primitive      *)
(* starts on an old one, the two locks cannot wait for each other, the     *)
(* proxy does not outlive its reader, and no chunk the host sends in a     *)
(* pairing session reaches the radio in that session.                      *)
RadioShared ==
    /\ SpliceTypeOK /\ NotClosedMidFrame /\ DescriptorOfTheMoment /\ NoLockCycle /\ NeverWriteOnly /\ ~slipped
=============================================================================
