----------------------------- MODULE BusTracker -----------------------------
(***************************************************************************)
(* Whose reply is it (internal/zigbee/proxy/poll.go): BusTrackerHook keeps *)
(* the outstanding queries of each inverter, ours and the host's, in a     *)
(* queue, gives each reply to the oldest, hides the replies to ours from   *)
(* the host and hands every reassembled reply to the sink.  An inverter    *)
(* answers its queries in the order they were written, late, or never.     *)
(***************************************************************************)
EXTENDS Naturals, Sequences, SequencesExt

CONSTANTS
    Units,            \* short addresses of inverters
    Broadcast,        \* short address 0
    ResponseTTL,      \* in time steps, as the next
    DroppingTimeout,
    MaxParts,         \* most chunks of a reply
    MaxQueries,       \* bound on the queries ever sent
    Nothing           \* no query, reply or reassembly

Writers == {"host", "bus"}   \* the host's copier, and InjectTracked

Query == [id : 1 .. MaxQueries, sa : Units \cup {Broadcast}, mine : BOOLEAN, age : 0 .. ResponseTTL]
Pending == [id : 1 .. MaxQueries, mine : BOOLEAN, left : 0 .. ResponseTTL]
Reassembly == [mine : BOOLEAN, left : 0 .. DroppingTimeout + 1]

ASSUME BusTrackerAssumption ==
    /\ {ResponseTTL, DroppingTimeout, MaxParts, MaxQueries} \subseteq Nat \ {0}
    /\ Broadcast \notin Units /\ Nothing \notin Query \cup Reassembly

VARIABLES
    pending,      \* per unit, the entries; a queue in the order of their ids, left is the
                  \* time to the deadline
    assembly,     \* the reassembly in progress, or Nothing
    writing,      \* per writer, the query marked and not yet written
    radio,        \* queries written and not answered, in that order
    reply,        \* the reply that is coming in, chunk by chunk
    issued,       \* queries sent so far
    quiet,        \* history: per unit, time since its last query, up to ResponseTTL
    disturbed,    \* history: a reply of the unit was lost or late or two writes
                  \* overtook each other, and it has not been quiet since
    last          \* history: what became of the last chunk of a reply

trackerVars == <<pending, assembly, writing, radio, reply, issued, quiet, disturbed, last>>

Fate == [mine : BOOLEAN, dropped : BOOLEAN, excused : BOOLEAN, intact : BOOLEAN, split : BOOLEAN, ends : BOOLEAN,
         handed : BOOLEAN]

\* The types, a part of RepliesAttributed.
TrackerTypeOK ==
    /\ pending \in [Units -> SUBSET Pending] /\ assembly \in Reassembly \cup {Nothing}
    /\ writing \in [Writers -> Query \cup {Nothing}] /\ ToSet(radio) \subseteq Query /\ issued \in 0 .. MaxQueries
    /\ quiet \in [Units -> 0 .. ResponseTTL] /\ disturbed \in [Units -> BOOLEAN] /\ last \in Fate \cup {Nothing}

TrackerInit ==
    /\ pending = [u \in Units |-> {}] /\ assembly = Nothing
    /\ writing = [w \in Writers |-> Nothing] /\ radio = <<>> /\ reply = Nothing /\ issued = 0
    /\ quiet = [u \in Units |-> ResponseTTL] /\ disturbed = [u \in Units |-> FALSE] /\ last = Nothing

\* Faulty variant: expired entries are kept.
KeepExpired(entries) == entries

(* gcExpiredLocked, for one unit.                                          *)
Unexpired(entries) == {e \in entries : e.left > 0}

-----------------------------------------------------------------------------
(* Queries.                                                                *)

\* markPending, and the same lines of OnChunk: the entry, then the write.
Mark(w, sa) ==
    /\ writing[w] = Nothing /\ issued < MaxQueries /\ issued' = issued + 1
    /\ writing' = [writing EXCEPT ![w] = [id |-> issued + 1, sa |-> sa, mine |-> w = "bus", age |-> 0]]
    /\ pending' = [u \in Units |->
           IF u # sa THEN pending[u]
           ELSE Unexpired(pending[u]) \cup {[id |-> issued + 1, mine |-> w = "bus", left |-> ResponseTTL]}]
    /\ quiet' = [u \in Units |-> IF u = sa THEN 0 ELSE quiet[u]]
    /\ UNCHANGED <<assembly, radio, reply, disturbed, last>>

(* OnChunk sees a query of the host pass, or one to nobody.                *)
HostQuery == \E sa \in Units \cup {Broadcast} : Mark("host", sa)

(* InjectTracked: a broadcast is not marked, as nobody answers it.         *)
InjectTracked == \E sa \in Units \cup {Broadcast} : Mark("bus", sa)

(* The write succeeds.  The other writer's earlier entry is then younger   *)
(* on the wire than this one.                                              *)
Written(w) ==
    /\ writing[w] # Nothing /\ writing' = [writing EXCEPT ![w] = Nothing]
    /\ radio' = IF writing[w].sa = Broadcast THEN radio ELSE Append(radio, writing[w])
    /\ disturbed' = [u \in Units |->
           \/ disturbed[u]
           \/ \E v \in Writers : writing[v] # Nothing /\ writing[v].sa = u /\ writing[w].sa = u
                                 /\ writing[v].id < writing[w].id]
    /\ UNCHANGED <<pending, assembly, reply, issued, quiet, last>>

\* popMinePending: the newest entry of ours goes.
WithoutNewestMine(entries) == entries \ {e \in entries : e.mine /\ \A f \in entries : f.mine => f.id <= e.id}

(* InjectToModem fails, and InjectTracked takes its entry back.            *)
InjectFails ==
    /\ writing["bus"] # Nothing /\ writing' = [writing EXCEPT !["bus"] = Nothing]
    /\ pending' = [u \in Units |->
           IF u = writing["bus"].sa THEN WithoutNewestMine(pending[u]) ELSE pending[u]]
    /\ UNCHANGED <<assembly, radio, reply, issued, quiet, disturbed, last>>

-----------------------------------------------------------------------------
(* Replies.                                                                *)

\* Faulty variant: the reply goes to the newest query.
NewestFor(entries) == CHOOSE e \in entries : \A f \in entries : f.id <= e.id

(* popOldestForLocked.                                                     *)
OldestFor(entries) == CHOOSE e \in entries : \A f \in entries : e.id <= f.id
Match(entries) == entries # {} /\ OldestFor(entries).mine

Oldest(i) == \A j \in DOMAIN radio : radio[j].sa = radio[i].sa => i <= j

\* What became of a chunk of reply r.
Note(r, dropped, handed) ==
    last' = [mine |-> r.mine, dropped |-> dropped, excused |-> r.excused, intact |-> r.intact,
             split |-> dropped # r.dropped, ends |-> r.next = r.parts, handed |-> handed]

\* The chunk after this one of r, if there is one.
Onward(r) == reply' = IF r.next = r.parts THEN Nothing ELSE [r EXCEPT !.next = @ + 1]

(* An inverter answers: the chunk with the SOF (re)starts a reassembly and *)
(* takes the oldest unexpired entry.                                       *)
StartReassembly ==
    \E i \in DOMAIN radio, parts \in 1 .. MaxParts :
        LET q    == radio[i]
            kept == Unexpired(pending[q.sa])
            r    == [mine |-> q.mine, dropped |-> Match(kept), excused |-> disturbed[q.sa] \/ q.age >= ResponseTTL,
                     intact |-> TRUE, parts |-> parts, next |-> 1, since |-> 0]
        IN  /\ Oldest(i) /\ reply = Nothing /\ radio' = RemoveAt(radio, i) /\ Onward(r)
            /\ pending' = [pending EXCEPT ![q.sa] = {e \in kept : e # OldestFor(kept)}]
            /\ assembly' = IF parts = 1 THEN Nothing ELSE [mine |-> Match(kept), left |-> DroppingTimeout + 1]
            /\ Note(r, Match(kept), parts = 1)
            /\ disturbed' = [disturbed EXCEPT ![q.sa] = @ \/ q.age >= ResponseTTL]
            /\ UNCHANGED <<writing, issued, quiet>>

Wedged == assembly # Nothing /\ assembly.left = 0

(* Mid-reassembly: the chunk goes the way of the first; FE FE hands the    *)
(* frame to the sink; past the deadline this chunk is the last to do so.   *)
Continue ==
    /\ reply # Nothing
    /\ LET dropped == assembly # Nothing /\ assembly.mine
           ends    == reply.next = reply.parts
       IN  /\ Note(reply, dropped, ends /\ assembly # Nothing /\ ~Wedged)
           /\ assembly' = IF ends \/ Wedged THEN Nothing ELSE assembly
    /\ Onward(reply)
    /\ UNCHANGED <<pending, writing, radio, issued, quiet, disturbed>>

(* A chunk that is no part of a reply, such as an ack, is glued to it.     *)
Stray ==
    /\ assembly # Nothing /\ assembly' = IF Wedged THEN Nothing ELSE assembly
    /\ reply' = IF reply = Nothing THEN Nothing ELSE [reply EXCEPT !.intact = FALSE]
    /\ UNCHANGED <<pending, writing, radio, issued, quiet, disturbed, last>>

(* A chunk after the first, or a whole reply, is lost.                     *)
ChunkLost ==
    /\ reply # Nothing /\ Onward([reply EXCEPT !.intact = FALSE])
    /\ UNCHANGED <<pending, assembly, writing, radio, issued, quiet, disturbed, last>>
ReplyLost ==
    \E i \in DOMAIN radio :
        /\ radio' = RemoveAt(radio, i) /\ disturbed' = [disturbed EXCEPT ![radio[i].sa] = TRUE]
        /\ UNCHANGED <<pending, assembly, writing, reply, issued, quiet, last>>

Less(n) == IF n = 0 THEN 0 ELSE n - 1
Aged(q) == [q EXCEPT !.age = IF @ < ResponseTTL THEN @ + 1 ELSE @]

(* Time passes.                                                            *)
Pass ==
    /\ pending' = [u \in Units |-> {[e EXCEPT !.left = Less(@)] : e \in pending[u]}]
    /\ writing' = [w \in Writers |-> IF writing[w] = Nothing THEN Nothing ELSE Aged(writing[w])]
    /\ radio' = [i \in DOMAIN radio |-> Aged(radio[i])]
    /\ assembly' = IF assembly = Nothing THEN Nothing ELSE [assembly EXCEPT !.left = Less(@)]
    /\ reply' = IF reply = Nothing THEN Nothing
                ELSE [reply EXCEPT !.since = IF @ <= DroppingTimeout THEN @ + 1 ELSE @,
                                   !.intact = @ /\ reply.since < DroppingTimeout]
    /\ quiet' = [u \in Units |-> IF quiet[u] < ResponseTTL THEN quiet[u] + 1 ELSE quiet[u]]
    /\ disturbed' = [u \in Units |-> disturbed[u] /\ quiet'[u] < ResponseTTL]
    /\ UNCHANGED <<issued, last>>

TrackerNext ==
    \/ HostQuery \/ InjectTracked \/ (\E w \in Writers : Written(w)) \/ InjectFails
    \/ StartReassembly \/ Continue \/ Stray \/ ChunkLost \/ ReplyLost \/ Pass

TrackerSpec == TrackerInit /\ [][TrackerNext]_trackerVars

-----------------------------------------------------------------------------
(* Properties.                                                             *)

\* The host sees the replies to its own queries and none to ours, but for
\* trouble that has not been followed by a silence of ResponseTTL.
Attributed == last # Nothing /\ last.intact => last.dropped = last.mine \/ last.excused

\* A reply is seen whole or not at all, and the sink gets it whole.
Whole ==
    last # Nothing /\ last.intact => ~last.split /\ (last.ends => last.handed)

(* Telling our replies from the host's (poll.go:17-46): while queries of   *)
(* both overlap, writes fail, replies are late or lost and chunks are lost *)
(* or mixed with acks, a reply is hidden from the host exactly if it is    *)
(* ours, unless a late or lost reply or two overtaking writes have shifted *)
(* the queue, which lasts no longer than it takes the unit to be without a *)
(* query for ResponseTTL; and a reply that arrives whole and in time is    *)
(* kept together, on both ways.                                            *)
RepliesAttributed == TrackerTypeOK /\ Attributed /\ Whole
=============================================================================
