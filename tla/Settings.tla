------------------------------ MODULE Settings ------------------------------
(***************************************************************************)
(* inv-driver's settings (internal/settings, internal/atomicfile, and      *)
(* pairingSettings of cmd/inv-driver): a file that is replaced as a whole, *)
(* its copy in memory, and the network interface that gets the MAC in it.  *)
(* A SET is served by its connection's handler, a pairing operation reads, *)
(* changes and saves; nothing keeps two of them apart.  The daemon may be  *)
(* killed, the power may fail.                                             *)
(*                                                                         *)
(* The file system is the external part: names lead to inodes; a power cut *)
(* leaves any of the directory's states since it was last synced, and what *)
(* was not synced of an inode may be lost.                                 *)
(***************************************************************************)
EXTENDS Naturals

CONSTANTS
    Handlers,   \* handlers of SETs, each of its connection
    Pairer,     \* the pairing operation; there is one at a time
    Main,       \* the daemon's start, which may apply the MAC as well
    Macs,       \* MACs an operator sets
    Firmware,   \* the one macapp provisions at power-up
    Parameters,       \* what pairing persists: PAN, channel and names, as one value
    MaxInodes, MaxSets, MaxMishaps   \* bounds, the last one on failures and crashes

Savers == Handlers \cup {Pairer}
Threads == Savers \cup {Main}
Inodes == 1 .. MaxInodes
NoMac == ""
NoInode == 0
Docs == [mac : Macs \cup {NoMac}, net : Parameters \cup {"unset"}]
FirstRun == [mac |-> NoMac, net |-> "unset"]
Empty == [mac |-> "empty", net |-> "empty"]
Torn == [mac |-> "torn", net |-> "torn"]
NoDoc == [mac |-> "none", net |-> "none"]

ASSUME SettingsAssumption ==
    /\ Pairer \notin Handlers /\ Main \notin Handlers \cup {Pairer} /\ Firmware \notin Macs
    /\ Macs # {} /\ MaxInodes \in Nat \ {0} /\ {MaxSets, MaxMishaps} \subseteq Nat

VARIABLES
    phase,      \* the daemon: "boot", "apply", "serving" or "refused" to start
    mem,        \* Store.s
    work,       \* what each thread does
    eth,        \* eth0
    dir,        \* the directory as processes see it
    dirs,       \* its states since it was last synced
    content,    \* of each inode
    synced,     \* whether that would survive a power cut
    count,      \* operations, and failures and crashes so far
    kept,       \* history: what the last undisturbed Save put into the file for good
    since,      \* history: what was being saved after that
    disturbed,  \* history: two operations overlapped, and no undisturbed one has ended since
    strayed,    \* history: eth0 may have another MAC than the settings
    stranded    \* history: a recovery failed or was cut short

fileVars == <<dir, dirs, content, synced>>
settingsVars == <<phase, mem, work, eth, fileVars, count, kept, since, disturbed, strayed, stranded>>

AtRest == [pc |-> "idle", want |-> FirstRun, fd |-> NoInode, applied |-> FALSE, alone |-> TRUE]
Applying == {"down", "address", "up", "verify", "recover"}
Saving == {"open", "write", "fsync", "rename", "syncdir", "publish"}
Busy(t) == work[t].pc # "idle"

\* The types, a part of SettingsSound.
SettingsTypeOK ==
    /\ phase \in {"boot", "apply", "serving", "refused"} /\ mem \in Docs
    /\ work \in [Threads -> [pc : {"idle"} \cup Applying \cup Saving, want : Docs, fd : Inodes \cup {NoInode},
                             applied : BOOLEAN, alone : BOOLEAN]]
    /\ eth \in [mac : Macs \cup {Firmware}, up : BOOLEAN]
    /\ dir \in dirs /\ dirs \subseteq [path : Inodes \cup {NoInode}, tmp : Inodes \cup {NoInode}]
    /\ content \in [Inodes -> Docs \cup {Empty, Torn}] /\ synced \in [Inodes -> BOOLEAN]
    /\ kept \in Docs \cup {NoDoc} /\ since \subseteq Docs /\ {disturbed, strayed, stranded} \subseteq BOOLEAN

\* A first run, or one with the settings of an earlier one.
SettingsInit ==
    /\ phase = "boot" /\ mem = FirstRun /\ work = [t \in Threads |-> AtRest] /\ eth = [mac |-> Firmware, up |-> TRUE]
    /\ \E first \in {NoDoc, [FirstRun EXCEPT !.mac = CHOOSE m \in Macs : TRUE]} :
          /\ kept = first
          /\ dir = [path |-> IF first = NoDoc THEN NoInode ELSE 1, tmp |-> NoInode]
          /\ content = [i \in Inodes |-> IF i = 1 /\ first # NoDoc THEN first ELSE Empty]
    /\ dirs = {dir} /\ synced = [i \in Inodes |-> TRUE]
    /\ count = [what \in {"op", "mishap"} |-> 0]
    /\ since = {} /\ disturbed = FALSE /\ strayed = FALSE /\ stranded = FALSE

Counted(what, most) == count[what] < most /\ count' = [count EXCEPT ![what] = @ + 1]
Mishap == Counted("mishap", MaxMishaps)

-----------------------------------------------------------------------------
(* The daemon starts: settings.Open, and the MAC if eth0 has another one.  *)

File == IF dir.path = NoInode THEN FirstRun ELSE content[dir.path]

OpenSettings ==
    /\ phase = "boot" /\ File \in Docs /\ mem' = File
    /\ IF File.mac \in {NoMac, eth.mac}
       THEN phase' = "serving" /\ strayed' = FALSE /\ UNCHANGED work
       ELSE /\ phase' = "apply" /\ UNCHANGED strayed
            /\ work' = [work EXCEPT ![Main] = [AtRest EXCEPT !.pc = "down", !.want = File]]
    /\ UNCHANGED <<eth, fileVars, count, kept, since, disturbed, stranded>>
OpenRefuses ==
    /\ phase = "boot" /\ File \notin Docs /\ phase' = "refused"
    /\ UNCHANGED <<mem, work, eth, fileVars, count, kept, since, disturbed, strayed, stranded>>

-----------------------------------------------------------------------------
(* An operation begins: it reads what is in memory.  Any overlap is noted. *)

Begin(w, next) ==
    /\ phase = "serving" /\ ~Busy(w) /\ Counted("op", MaxSets)
    /\ LET others == {o \in Savers : Busy(o)} IN
       /\ work' = [o \in Threads |-> IF o = w THEN [next EXCEPT !.alone = (others = {})]
                                     ELSE [work[o] EXCEPT !.alone = @ /\ o \notin others]]
       /\ disturbed' = (disturbed \/ others # {}) /\ strayed' = (strayed \/ others # {})
    /\ UNCHANGED <<phase, mem, eth, fileVars, kept, since, stranded>>

NeedsApply(s) == s.mac # NoMac /\ s.mac # mem.mac

\* Handle, with settings that validate accepts; the console sends back what
\* it read with the MAC changed.  A new one is applied first.
Handle(w, s) ==
    Begin(w, [AtRest EXCEPT !.pc = IF NeedsApply(s) THEN "down" ELSE "open", !.want = s, !.applied = NeedsApply(s)])
\* SetPANOverride, SetChannel and InheritName change their part of the copy.
PairingPersist(net) == Begin(Pairer, [AtRest EXCEPT !.pc = "open", !.want = [mem EXCEPT !.net = net]])

-----------------------------------------------------------------------------
(* ApplyMAC: three commands, a look at the result, and on any failure a    *)
(* last attempt to bring the link up.                                      *)

Continue(t, pc) == work' = [work EXCEPT ![t].pc = pc]
\* The thread has its answer; the start goes on whatever it is.
Return(t) == /\ work' = [work EXCEPT ![t] = AtRest]
             /\ phase' = IF t = Main THEN "serving" ELSE phase

AfterCommand(t) ==
    CASE work[t].pc = "down" -> [eth EXCEPT !.up = FALSE]
      [] work[t].pc = "address" -> [eth EXCEPT !.mac = work[t].want.mac]
      [] work[t].pc = "up" -> [eth EXCEPT !.up = TRUE]
NextCommand == [down |-> "address", address |-> "up", up |-> "verify"]

RunStep(t) ==
    /\ work[t].pc \in {"down", "address", "up"}
    /\ eth' = AfterCommand(t) /\ Continue(t, NextCommand[work[t].pc])
    /\ UNCHANGED <<phase, mem, fileVars, count, kept, since, disturbed, strayed, stranded>>
\* It is killed after its time, with or without effect; a driver may also
\* refuse an address while the link is up, which it is if two applies meet.
RunStepFails(t) ==
    /\ work[t].pc \in {"down", "address", "up"}
    /\ \/ Mishap /\ eth' \in {eth, AfterCommand(t)}
       \/ work[t].pc = "address" /\ eth.up /\ UNCHANGED <<count, eth>>
    /\ Continue(t, "recover") /\ strayed' = TRUE
    /\ UNCHANGED <<phase, mem, fileVars, kept, since, disturbed, stranded>>

VerifyMAC(t) ==
    /\ work[t].pc = "verify" /\ eth.mac = work[t].want.mac
    /\ IF t = Main
       THEN Return(t) /\ strayed' = FALSE /\ stranded' = FALSE
       ELSE Continue(t, "open") /\ UNCHANGED <<phase, strayed, stranded>>
    /\ UNCHANGED <<mem, eth, fileVars, count, kept, since, disturbed>>
VerifyFails(t) ==
    /\ work[t].pc = "verify" /\ ((eth.mac # work[t].want.mac /\ UNCHANGED count) \/ Mishap)
    /\ Continue(t, "recover") /\ strayed' = TRUE
    /\ UNCHANGED <<phase, mem, eth, fileVars, kept, since, disturbed, stranded>>

UpRecovery(t) ==
    /\ work[t].pc = "recover" /\ Return(t)
    /\ \/ eth' = [eth EXCEPT !.up = TRUE] /\ UNCHANGED <<count, stranded>>
       \/ Mishap /\ stranded' = TRUE /\ UNCHANGED eth
    /\ UNCHANGED <<mem, fileVars, kept, since, disturbed, strayed>>

-----------------------------------------------------------------------------
(* Save: atomicfile.Write, then the copy in memory.  Every save uses the   *)
(* same name for its temporary file.                                       *)

Referenced == UNION {{d.path, d.tmp} : d \in dirs} \cup {work[w].fd : w \in Savers}
Fresh == CHOOSE i \in Inodes : i \notin Referenced

Moved(to) == dir' = to /\ dirs' = dirs \cup {to}
\* What no name and no open file leads to is gone.
Swept(used) == [i \in Inodes |-> IF i \in used THEN content[i] ELSE Empty]

\* OpenFile truncates what an earlier or another save has left there.
OpenTmp(w) ==
    /\ work[w].pc = "open" /\ (dir.tmp # NoInode \/ Inodes \ Referenced # {})
    /\ LET i == IF dir.tmp = NoInode THEN Fresh ELSE dir.tmp IN
       /\ content' = [content EXCEPT ![i] = Empty] /\ synced' = [synced EXCEPT ![i] = FALSE]
       /\ Moved([dir EXCEPT !.tmp = i])
       /\ work' = [work EXCEPT ![w].pc = "write", ![w].fd = i]
    /\ since' = since \cup {work[w].want}
    /\ UNCHANGED <<phase, mem, eth, count, kept, disturbed, strayed, stranded>>

\* Over the longer text of another save, the end of that one remains.
WriteDoc(w) ==
    /\ work[w].pc = "write"
    /\ LET i == work[w].fd IN
       /\ \E left \in {work[w].want} \cup (IF content[i] \in {Empty, work[w].want} THEN {} ELSE {Torn}) :
             content' = [content EXCEPT ![i] = left]
       /\ synced' = [synced EXCEPT ![i] = FALSE]
    /\ Continue(w, "fsync")
    /\ UNCHANGED <<phase, mem, eth, dir, dirs, count, kept, since, disturbed, strayed, stranded>>

\* Faulty variant: the file is renamed and never synced.
FsyncForgotten(w) ==
    /\ work[w].pc = "fsync" /\ Continue(w, "rename")
    /\ UNCHANGED <<phase, mem, eth, dir, dirs, content, synced, count, kept, since, disturbed, strayed, stranded>>

Fsync(w) ==
    /\ work[w].pc = "fsync" /\ synced' = [synced EXCEPT ![work[w].fd] = TRUE] /\ Continue(w, "rename")
    /\ UNCHANGED <<phase, mem, eth, dir, dirs, content, count, kept, since, disturbed, strayed, stranded>>

Rename(w) ==
    /\ work[w].pc = "rename" /\ dir.tmp # NoInode
    /\ Moved([path |-> dir.tmp, tmp |-> NoInode]) /\ Continue(w, "syncdir")
    /\ UNCHANGED <<phase, mem, eth, content, synced, count, kept, since, disturbed, strayed, stranded>>

\* syncDir, whose failure nobody hears of.
SyncDir(w) ==
    /\ work[w].pc = "syncdir" /\ Continue(w, "publish")
    /\ \/ /\ dirs' = {dir} /\ UNCHANGED count
          /\ content' = Swept({dir.path, dir.tmp} \cup {work[o].fd : o \in Savers \ {w}})
          /\ IF work[w].alone
             THEN kept' = work[w].want /\ since' = {} /\ disturbed' = FALSE
             ELSE UNCHANGED <<kept, since, disturbed>>
       \/ Mishap /\ UNCHANGED <<dirs, content, kept, since, disturbed>>
    /\ UNCHANGED <<phase, mem, eth, dir, synced, strayed, stranded>>

Publish(w) ==
    /\ work[w].pc = "publish" /\ mem' = work[w].want /\ Return(w)
    /\ LET settled == work[w].alone /\ work[w].applied IN
       strayed' = (strayed /\ ~settled) /\ stranded' = (stranded /\ ~settled)
    /\ UNCHANGED <<eth, fileVars, count, kept, since, disturbed>>

\* Any step may fail; the temporary file is removed.  Another save may have
\* taken it away already.
SaveFails(w) ==
    /\ \/ work[w].pc \in {"open", "write", "fsync", "rename"} /\ Mishap
       \/ work[w].pc = "rename" /\ dir.tmp = NoInode /\ UNCHANGED count
    /\ Return(w) /\ Moved([dir EXCEPT !.tmp = NoInode]) /\ strayed' = (strayed \/ work[w].applied)
    /\ UNCHANGED <<mem, eth, content, synced, kept, since, disturbed, stranded>>

-----------------------------------------------------------------------------
(* The process is killed and started again; or the power fails, and macapp *)
(* sets the firmware's MAC before the daemon starts.                       *)

Crash == /\ phase # "refused" /\ Mishap
         /\ phase' = "boot" /\ mem' = FirstRun /\ work' = [t \in Threads |-> AtRest]
         /\ UNCHANGED <<kept, since, disturbed, strayed>>

Killed == /\ Crash /\ stranded' = (stranded \/ \E t \in Threads : work[t].pc \in Applying)
          /\ UNCHANGED <<eth, fileVars>>
PowerCut ==
    /\ Crash /\ dir' \in dirs /\ dirs' = {dir'}
    /\ \E lost \in SUBSET {i \in Inodes : ~synced[i]} :
          content' = [i \in Inodes |-> IF i \in lost THEN Torn ELSE content[i]]
    /\ synced' = [i \in Inodes |-> TRUE]
    /\ eth' = [mac |-> Firmware, up |-> TRUE] /\ stranded' = FALSE

SettingsNext ==
    \/ OpenSettings \/ OpenRefuses \/ Killed \/ PowerCut
    \/ \E h \in Handlers, m \in Macs \cup {NoMac} : Handle(h, [mem EXCEPT !.mac = m])
    \/ \E net \in Parameters : PairingPersist(net)
    \/ \E w \in Savers :
          \/ OpenTmp(w) \/ WriteDoc(w) \/ Fsync(w) \/ Rename(w) \/ SyncDir(w) \/ Publish(w) \/ SaveFails(w)
    \/ \E t \in Threads : RunStep(t) \/ RunStepFails(t) \/ VerifyMAC(t) \/ VerifyFails(t) \/ UpRecovery(t)

SettingsSpec == SettingsInit /\ [][SettingsNext]_settingsVars

-----------------------------------------------------------------------------
(* Properties.                                                             *)

Quiet == phase = "serving" /\ \A t \in Threads : ~Busy(t)

\* Whatever a power cut leaves is a complete document: the one that was kept
\* last, or one that was being saved (atomicfile.go:1-6).  Without a crash
\* the file is what is in memory.
FileKept ==
    /\ \A d \in dirs : IF d.path = NoInode THEN kept = NoDoc
                       ELSE synced[d.path] /\ content[d.path] \in {kept} \cup since
    /\ phase # "refused" /\ (Quiet => mem = File)

(* The settings survive (internal/atomicfile, settings.go:82-96): unless   *)
(* two operations overlapped, and again after the next one that did not,   *)
(* the file is whole.  eth0 (applymac.go:64-120) is left up by every mix   *)
(* of failing and overlapping applies, unless a recovery failed or a crash *)
(* cut an apply short; and it has the MAC that is persisted, except after  *)
(* a failure or an overlap since the last apply or start that succeeded.   *)
SettingsSound ==
    /\ SettingsTypeOK
    /\ disturbed \/ FileKept
    /\ stranded \/ eth.up \/ \E t \in Threads : work[t].pc \in Applying
    /\ Quiet /\ ~strayed /\ mem.mac # NoMac => eth.mac = mem.mac
=============================================================================
