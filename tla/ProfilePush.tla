---------------------------- MODULE ProfilePush ----------------------------
(***************************************************************************)
(* What the inverters end up with (internal/gridprofile: broadcast.go,     *)
(* verify.go, the broadcast applier of base_async.go, and ReconcileUID     *)
(* seen from the air).  A base selected by broadcast overwrites what an    *)
(* overlay has set; every decision is made on the last read-back, which is *)
(* older than the registers.  One parameter stands for the profile;        *)
(* GridProfile has the points, the slots and the steps of the requests,    *)
(* and the frames a superseded job still sends.                            *)
(***************************************************************************)
EXTENDS Naturals

CONSTANTS
    Inverters,    \* each with its model family, and read before
    Family,
    Caster,       \* the first family of BroadcastModelCodes that has a frame for the parameter
    Selects,      \* base selections
    BaseValues, OverlayValues,
    Foreign,      \* what an inverter may come back with
    NoValue,
    MaxRequests   \* bound on overlays set and cleared and on first-seens

ASSUME PushAssumption ==
    /\ DOMAIN Family = Inverters /\ NoValue \notin BaseValues \cup OverlayValues \cup {Foreign} /\ MaxRequests \in Nat
    /\ {"nobody", "request"} \cap Selects = {}

VARIABLES
    base, over,   \* gp_active_base and gp_overlays
    regs,         \* the parameter in each inverter
    cache,        \* the last read-back of each
    asked,        \* a read is under way
    rec,          \* ReconcileUID of each inverter: the applier's job and the one of VerifyStartup
    push,         \* runBroadcastFleet of each selection
    requests,
    disturbed,    \* history: inverters with a late or lost read, a lost unicast frame, or
                  \* settings that changed during a reconcile of theirs
    unpushed      \* history: the selection whose base has not been pushed to the end, or the push that has taken it up

pushVars == <<base, over, regs, cache, asked, rec, push, requests, disturbed, unpushed>>

Values == BaseValues \cup OverlayValues \cup {Foreign}
Runs == {"job", "verify"}
Nobody == "nobody"
NoRun == [pc |-> "idle", want |-> NoValue, by |-> Nobody]

\* The types, a part of PushSettles.
PushTypeOK ==
    /\ base \in BaseValues /\ over \in [Inverters -> OverlayValues \cup {NoValue}]
    /\ regs \in [Inverters -> Values] /\ cache \in [Inverters -> Values] /\ asked \in [Inverters -> BOOLEAN]
    /\ rec \in [Inverters -> [Runs -> [pc : {"idle", "sleep", "build", "send", "settle", "read", "hook"},
                                   want : Values \cup {NoValue}, by : Selects \cup {Nobody, "request"}]]]
    /\ push \in [Selects -> [pc : {"none", "acquire", "base", "frames", "settle", "read", "follow", "wait", "ended"},
                             value : BaseValues \cup {NoValue}]]
    /\ requests \in 0 .. MaxRequests
    /\ unpushed \in Selects \cup {Nobody} /\ disturbed \subseteq Inverters

\* buildDesired for the parameter.
Desired(u) == IF over[u] = NoValue THEN base ELSE over[u]

PushInit ==
    /\ base \in BaseValues /\ over \in [Inverters -> OverlayValues \cup {NoValue}]
    /\ regs = [u \in Inverters |-> Desired(u)] /\ cache = regs /\ asked = [u \in Inverters |-> FALSE]
    /\ rec = [u \in Inverters |-> [k \in Runs |-> NoRun]]
    /\ push = [g \in Selects |-> [pc |-> "none", value |-> NoValue]]
    /\ requests = 0 /\ disturbed = {} /\ unpushed = Nobody

Requested == requests < MaxRequests /\ requests' = requests + 1
Unanswered(us) == {u \in us : asked[u]}
InReconcile(u) == \E k \in Runs : rec[u][k].pc # "idle"
\* enqueueInternal: the new job takes the place of an older one.
Enqueued(us, by) ==
    LET job == [pc |-> "build", want |-> NoValue, by |-> by]
    IN  [u \in Inverters |-> IF u \in us THEN [rec[u] EXCEPT !["job"] = job] ELSE rec[u]]

-----------------------------------------------------------------------------
(* Requests: selectBase, setOverlay and clearOverlay.                      *)

Select(g, b) ==
    /\ push[g].pc = "none" /\ push' = [push EXCEPT ![g].pc = "acquire"]
    /\ base' = b /\ unpushed' = g /\ disturbed' = disturbed \cup {u \in Inverters : InReconcile(u)}
    /\ UNCHANGED <<over, regs, cache, asked, rec, requests>>

SetOverlay(u, v) ==
    /\ Requested /\ over[u] # v /\ over' = [over EXCEPT ![u] = v]
    /\ disturbed' = IF InReconcile(u) THEN disturbed \cup {u} ELSE disturbed
    /\ rec' = Enqueued({u}, "request")
    /\ UNCHANGED <<base, regs, cache, asked, push, unpushed>>

-----------------------------------------------------------------------------
(* runBroadcastFleet.                                                      *)

PushTo(g, pc) == push' = [push EXCEPT ![g].pc = pc]

\* TryAcquire: a bus that another selection or a pairing operation has ends it, with the base stored and unapplied.
HasBus(g) == push[g].pc \notin {"none", "acquire", "ended"}
TryAcquireBus(g) ==
    /\ push[g].pc = "acquire"
    /\ \/ PushTo(g, "base") /\ \A h \in Selects : ~HasBus(h)
       \/ PushTo(g, "ended")
    /\ UNCHANGED <<base, over, regs, cache, asked, rec, requests, disturbed, unpushed>>

ApplyBaseBroadcast(g) ==
    /\ push[g].pc = "base" /\ push' = [push EXCEPT ![g] = [pc |-> "frames", value |-> base]]
    /\ unpushed' = IF unpushed = Nobody THEN Nobody ELSE g
    /\ UNCHANGED <<base, over, regs, cache, asked, rec, requests, disturbed>>

\* The frames of one family, which any of its inverters may miss.
BroadcastPoint(g) ==
    /\ push[g].pc = "frames" /\ PushTo(g, "settle")
    /\ \E hit \in SUBSET {u \in Inverters : Family[u] = Caster} :
          regs' = [u \in Inverters |-> IF u \in hit THEN push[g].value ELSE regs[u]]
    /\ UNCHANGED <<base, over, cache, asked, rec, requests, disturbed, unpushed>>
\* No frame left, or no family has one for the parameter: on with the next point.
BroadcastRefused(g) ==
    /\ push[g].pc = "frames" /\ PushTo(g, "follow")
    /\ UNCHANGED <<base, over, regs, cache, asked, rec, requests, disturbed, unpushed>>

BroadcastReads(g) ==
    /\ push[g].pc = "settle" /\ PushTo(g, "read") /\ asked' = [u \in Inverters |-> TRUE]
    /\ UNCHANGED <<base, over, regs, cache, rec, requests, disturbed, unpushed>>
BroadcastConfirmed(g) ==
    /\ push[g].pc = "read" /\ PushTo(g, "follow") /\ disturbed' = disturbed \cup Unanswered(Inverters)
    /\ UNCHANGED <<base, over, regs, cache, asked, rec, requests, unpushed>>

\* Faulty variant: only inverters with an overlay are followed up.
FollowUpOverlays(g) ==
    /\ push[g].pc = "follow" /\ PushTo(g, "wait") /\ rec' = Enqueued({u \in Inverters : over[u] # NoValue}, g)
    /\ UNCHANGED <<base, over, regs, cache, asked, requests, disturbed, unpushed>>

\* Those with an overlay and those the daemon knows, which are all.
FleetUIDs == {u \in Inverters : over[u] # NoValue} \cup DOMAIN Family
\* The unicast follow-up.
FollowUp(g) ==
    /\ push[g].pc = "follow" /\ PushTo(g, "wait") /\ rec' = Enqueued(FleetUIDs, g)
    /\ UNCHANGED <<base, over, regs, cache, asked, requests, disturbed, unpushed>>

PushEnds(g) ==
    /\ push[g].pc = "wait" /\ \A u \in Inverters : rec[u]["job"].by # g
    /\ PushTo(g, "ended") /\ unpushed' = IF unpushed = g THEN Nobody ELSE unpushed
    /\ UNCHANGED <<base, over, regs, cache, asked, rec, requests, disturbed>>

-----------------------------------------------------------------------------
(* ReconcileUID, by the applier or by VerifyStartup.                       *)

RecTo(u, k, run) == rec' = [rec EXCEPT ![u][k] = run]
Done(k) == IF k = "verify" THEN [NoRun EXCEPT !.pc = "hook"] ELSE NoRun

Compare(u, k) ==
    /\ rec[u][k].pc = "build"
    /\ RecTo(u, k, IF cache[u] = Desired(u) THEN Done(k)
                   ELSE [pc |-> "send", want |-> Desired(u), by |-> rec[u][k].by])
    /\ UNCHANGED <<base, over, regs, cache, asked, push, requests, disturbed, unpushed>>
ReconcileSends(u, k) ==
    /\ rec[u][k].pc = "send" /\ RecTo(u, k, [rec[u][k] EXCEPT !.pc = "settle"])
    /\ \/ regs' = [regs EXCEPT ![u] = rec[u][k].want] /\ UNCHANGED disturbed
       \/ disturbed' = disturbed \cup {u} /\ UNCHANGED regs
    /\ UNCHANGED <<base, over, cache, asked, push, requests, unpushed>>
\* send_error: on with the next point.
ReconcileRefused(u, k) ==
    /\ rec[u][k].pc = "send" /\ RecTo(u, k, Done(k)) /\ disturbed' = disturbed \cup {u}
    /\ UNCHANGED <<base, over, regs, cache, asked, push, requests, unpushed>>
Reread(u, k) ==
    /\ rec[u][k].pc = "settle" /\ RecTo(u, k, [rec[u][k] EXCEPT !.pc = "read"]) /\ asked' = [asked EXCEPT ![u] = TRUE]
    /\ UNCHANGED <<base, over, regs, cache, push, requests, disturbed, unpushed>>
Confirm(u, k) ==
    /\ rec[u][k].pc = "read" /\ RecTo(u, k, Done(k)) /\ disturbed' = disturbed \cup Unanswered({u})
    /\ UNCHANGED <<base, over, regs, cache, asked, push, requests, unpushed>>

\* The inverter's answer, outside the program.
Answer(u) ==
    /\ asked[u] /\ asked' = [asked EXCEPT ![u] = FALSE] /\ cache' = [cache EXCEPT ![u] = regs[u]]
    /\ UNCHANGED <<base, over, regs, rec, push, requests, disturbed, unpushed>>

-----------------------------------------------------------------------------
(* OnFirstSeen: an inverter comes back with what it has, the start-up read *)
(* is sent, and after a sleep VerifyStartup looks at the answer.           *)

OnFirstSeen(u) ==
    /\ Requested /\ rec[u]["verify"].pc = "idle"
    /\ \E v \in {regs[u], Foreign} : regs' = [regs EXCEPT ![u] = v]
    /\ asked' = [asked EXCEPT ![u] = TRUE] /\ RecTo(u, "verify", [NoRun EXCEPT !.pc = "sleep"])
    /\ UNCHANGED <<base, over, cache, push, disturbed, unpushed>>
VerifyStartup(u) ==
    /\ rec[u]["verify"].pc = "sleep" /\ asked' = [asked EXCEPT ![u] = TRUE]
    /\ disturbed' = disturbed \cup Unanswered({u})
    /\ RecTo(u, "verify", IF cache[u] = Desired(u) THEN Done("verify") ELSE [NoRun EXCEPT !.pc = "build"])
    /\ UNCHANGED <<base, over, regs, cache, push, requests, unpushed>>
\* ReconcileOverlaysForUID.
ReconcileOverlays(u) ==
    /\ rec[u]["verify"].pc = "hook"
    /\ rec' = [IF over[u] = NoValue THEN rec ELSE Enqueued({u}, "request") EXCEPT ![u]["verify"] = NoRun]
    /\ UNCHANGED <<base, over, regs, cache, asked, push, requests, disturbed, unpushed>>

PushNext ==
    \/ \E g \in Selects :
          \/ \E b \in BaseValues : Select(g, b)
          \/ TryAcquireBus(g) \/ ApplyBaseBroadcast(g) \/ BroadcastPoint(g) \/ BroadcastRefused(g)
          \/ BroadcastReads(g) \/ BroadcastConfirmed(g) \/ FollowUp(g) \/ PushEnds(g)
    \/ \E u \in Inverters :
          \/ \E v \in OverlayValues \cup {NoValue} : SetOverlay(u, v)
          \/ Answer(u) \/ OnFirstSeen(u) \/ VerifyStartup(u) \/ ReconcileOverlays(u)
          \/ \E k \in Runs : Compare(u, k) \/ ReconcileSends(u, k) \/ ReconcileRefused(u, k) \/ Reread(u, k) \/ Confirm(u, k)

PushSpec == PushInit /\ [][PushNext]_pushVars

-----------------------------------------------------------------------------
(* When everything has come to rest, every inverter has its own effective  *)
(* value: what a broadcast overwrote or missed has been put right by its   *)
(* follow-up (base_async.go:157-159), what an inverter came back with by   *)
(* VerifyStartup, in every mix of the two and of overlays.  Excused are a  *)
(* base that was never pushed to the end (the bus was busy), a lost read   *)
(* or unicast frame, and settings that change during a reconcile.          *)
PushSettles ==
    /\ PushTypeOK
    /\ (\A u \in Inverters : ~InReconcile(u)) /\ (\A g \in Selects : push[g].pc \in {"none", "ended"}) /\ unpushed = Nobody
          => \A u \in Inverters \ disturbed : regs[u] = Desired(u)
=============================================================================
