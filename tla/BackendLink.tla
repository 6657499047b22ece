---------------------------- MODULE BackendLink ----------------------------
(***************************************************************************)
(* The link between ecu-zb and inv-driver (internal/zigbee/busmgr client,  *)
(* wire.DialLoop, modem.FetchSettings; internal/ipc server).  ecu-zb reads *)
(* its settings over a connection of its own and then keeps a session up,  *)
(* with a writer and a reader; inv-driver runs a handler and a writer for  *)
(* each connection and keeps one of them as the publisher of ecu-zb's      *)
(* name, to which SendToBackend delivers commands.  Either process may be  *)
(* restarted.  Other backends and the request handlers are left out.       *)
(***************************************************************************)
EXTENDS Naturals, Sequences

CONSTANTS
    MaxConns,    \* bound on connections
    OutboundCap, \* outboundCap: 256
    PubCap,      \* publisherOutCap: 64
    MaxMade,     \* bound on frames made, and on commands
    NoConn

Conns == 1 .. MaxConns

ASSUME LinkAssumption == {MaxConns, OutboundCap, PubCap, MaxMade} \subseteq Nat \ {0} /\ NoConn \notin Conns

VARIABLES
    dialed,      \* connections so far
    ours,        \* each connection's end at ecu-zb: "open" or "closed"
    up, down,    \* what is in each socket, to inv-driver and to ecu-zb
    handler,     \* handleConn: "none", "accepted", "greeted", "serving", "leaving" or "ended"
    publishers,  \* the connection registered under the name
    pubOut,      \* publisherConn.out of each connection
    pubClosed,   \* it is closed
    pubWriter,   \* publisherWriter: "none", "run", "drain" or "done"
    zb,          \* ecu-zb: "boot", "fetch", "dial", "greet" or "session"
    cur,         \* the connection it fetches over, or of its session
    out,         \* Client.out
    zbWriter,    \* each session's writer: "none", "idle", "busy" with a frame, or "ended"
    zbReader,    \* its reader: "none", "read" or "ended"
    made,        \* frames of telemetry and commands made so far
    registered,  \* history: the connection that was registered last
    panicked,    \* history: a send on a closed channel
    mistaken     \* history: a session's writer took a frame after the session had returned

socketVars == <<ours, up, down>>
serverVars == <<handler, publishers, pubOut, pubClosed, pubWriter>>
clientVars == <<zb, cur, out, zbWriter, zbReader>>
linkVars == <<dialed, socketVars, serverVars, clientVars, made, registered, panicked, mistaken>>

\* The types, a part of LinkSound.
LinkTypeOK ==
    /\ dialed \in 0 .. MaxConns /\ ours \in [Conns -> {"open", "closed"}]
    /\ handler \in [Conns -> {"none", "accepted", "greeted", "serving", "leaving", "ended"}]
    /\ publishers \in Conns \cup {NoConn} /\ cur \in Conns \cup {NoConn} /\ registered \in Conns \cup {NoConn}
    /\ pubWriter \in [Conns -> {"none", "run", "drain", "done"}] /\ pubClosed \in [Conns -> BOOLEAN]
    /\ \A c \in Conns : Len(pubOut[c]) <= PubCap
    /\ zb \in {"boot", "fetch", "dial", "greet", "session"} /\ Len(out) <= OutboundCap
    /\ zbWriter \in [Conns -> {"none", "idle", "busy", "ended"}] /\ zbReader \in [Conns -> {"none", "read", "ended"}]
    /\ {panicked, mistaken} \subseteq BOOLEAN

LinkInit ==
    /\ dialed = 0 /\ ours = [c \in Conns |-> "closed"] /\ up = [c \in Conns |-> <<>>] /\ down = [c \in Conns |-> <<>>]
    /\ handler = [c \in Conns |-> "none"] /\ publishers = NoConn
    /\ pubOut = [c \in Conns |-> <<>>] /\ pubClosed = [c \in Conns |-> FALSE] /\ pubWriter = [c \in Conns |-> "none"]
    /\ zb = "boot" /\ cur = NoConn /\ out = <<>>
    /\ zbWriter = [c \in Conns |-> "none"] /\ zbReader = [c \in Conns |-> "none"]
    /\ made = [k \in {"frame", "command"} |-> 0]
    /\ registered = NoConn /\ panicked = FALSE /\ mistaken = FALSE

\* inv-driver has closed its end, or is gone.
Theirs(c) == handler[c] # "ended"

-----------------------------------------------------------------------------
(* ecu-zb: FetchSettings, DialLoop and session.                            *)

Dial(then, first) ==
    /\ dialed < MaxConns /\ dialed' = dialed + 1 /\ cur' = dialed + 1 /\ zb' = then
    /\ ours' = [ours EXCEPT ![dialed + 1] = "open"]
    /\ up' = [up EXCEPT ![dialed + 1] = first]
    /\ handler' = [handler EXCEPT ![dialed + 1] = "accepted"]
    /\ UNCHANGED <<down, publishers, pubOut, pubClosed, pubWriter, out, zbWriter, zbReader, made, registered, panicked,
                   mistaken>>

(* FetchSettings says Hello under the same name and asks ...               *)
Fetch == zb = "boot" /\ Dial("fetch", <<"hello">>)

(* ... and is answered or gives up after settingsTimeout; without a socket *)
(* it is over at once.                                                     *)
FetchEnds ==
    /\ \/ zb = "fetch" /\ ours' = [ours EXCEPT ![cur] = "closed"]
       \/ zb = "boot" /\ UNCHANGED ours
    /\ zb' = "dial" /\ cur' = NoConn
    /\ UNCHANGED <<dialed, up, down, serverVars, out, zbWriter, zbReader, made, registered, panicked, mistaken>>

DialSession == zb = "dial" /\ Dial("greet", <<>>)

(* The session says Hello and starts its goroutines, or fails.             *)
SessionStarts ==
    /\ zb = "greet"
    /\ IF Theirs(cur)
       THEN /\ up' = [up EXCEPT ![cur] = Append(@, "hello")] /\ zb' = "session"
            /\ zbWriter' = [zbWriter EXCEPT ![cur] = "idle"] /\ zbReader' = [zbReader EXCEPT ![cur] = "read"]
            /\ UNCHANGED <<ours, cur>>
       ELSE /\ ours' = [ours EXCEPT ![cur] = "closed"] /\ zb' = "dial" /\ cur' = NoConn
            /\ UNCHANGED <<up, zbWriter, zbReader>>
    /\ UNCHANGED <<dialed, down, serverVars, out, made, registered, panicked, mistaken>>

(* Enqueue: a frame the queue has no room for is dropped.                  *)
Enqueue ==
    /\ made["frame"] < MaxMade /\ zb \in {"dial", "greet", "session"}
    /\ made' = [made EXCEPT !["frame"] = @ + 1]
    /\ out' = IF Len(out) < OutboundCap THEN Append(out, "frame") ELSE out
    /\ UNCHANGED <<dialed, socketVars, serverVars, zb, cur, zbWriter, zbReader, registered, panicked, mistaken>>

\* The session has ended for one of the two, and the connection is closed.
Cancelled(c) == ours[c] = "closed"

(* The writer takes a frame, even in a session that ends: select is free.  *)
WriterTakes(c) ==
    /\ zbWriter[c] = "idle" /\ out # <<>>
    /\ zbWriter' = [zbWriter EXCEPT ![c] = "busy"] /\ out' = Tail(out)
    /\ mistaken' = (mistaken \/ c # cur)
    /\ UNCHANGED <<dialed, socketVars, serverVars, zb, cur, zbReader, made, registered, panicked>>
WriterWrites(c) ==
    /\ zbWriter[c] = "busy"
    /\ IF ours[c] = "open" /\ Theirs(c)
       THEN up' = [up EXCEPT ![c] = Append(@, "frame")] /\ zbWriter' = [zbWriter EXCEPT ![c] = "idle"] /\ UNCHANGED ours
       ELSE zbWriter' = [zbWriter EXCEPT ![c] = "ended"] /\ ours' = [ours EXCEPT ![c] = "closed"] /\ UNCHANGED up
    /\ UNCHANGED <<dialed, down, serverVars, zb, cur, out, zbReader, made, registered, panicked, mistaken>>
WriterStops(c) ==
    /\ zbWriter[c] = "idle" /\ Cancelled(c) /\ zbWriter' = [zbWriter EXCEPT ![c] = "ended"]
    /\ UNCHANGED <<dialed, socketVars, serverVars, zb, cur, out, zbReader, made, registered, panicked, mistaken>>

(* The reader hands a command to handleInbound, or meets the end, or a     *)
(* frame it cannot read.                                                   *)
ReaderReads(c) ==
    /\ zbReader[c] = "read"
    /\ \/ ours[c] = "open" /\ down[c] # <<>> /\ down' = [down EXCEPT ![c] = Tail(@)] /\ UNCHANGED <<ours, zbReader>>
       \/ /\ Cancelled(c) \/ (down[c] = <<>> /\ ~Theirs(c)) \/ down[c] # <<>>
          /\ zbReader' = [zbReader EXCEPT ![c] = "ended"] /\ ours' = [ours EXCEPT ![c] = "closed"] /\ UNCHANGED down
    /\ UNCHANGED <<dialed, up, serverVars, zb, cur, out, zbWriter, made, registered, panicked, mistaken>>

\* Faulty variant: it returns with the first error.
SessionReturnsFirst ==
    /\ zb = "session" /\ (zbWriter[cur] = "ended" \/ zbReader[cur] = "ended")
    /\ zb' = "dial" /\ cur' = NoConn
    /\ UNCHANGED <<dialed, socketVars, serverVars, out, zbWriter, zbReader, made, registered, panicked, mistaken>>

(* session returns when both have ended, and DialLoop dials again.         *)
SessionReturns ==
    /\ zb = "session" /\ zbWriter[cur] = "ended" /\ zbReader[cur] = "ended"
    /\ zb' = "dial" /\ cur' = NoConn
    /\ UNCHANGED <<dialed, socketVars, serverVars, out, zbWriter, zbReader, made, registered, panicked, mistaken>>

(* ecu-zb is restarted: its sockets close, and the queue is lost.          *)
EcuZbRestart ==
    /\ zb # "boot" /\ zb' = "boot" /\ cur' = NoConn /\ out' = <<>>
    /\ ours' = [c \in Conns |-> "closed"]
    /\ zbWriter' = [c \in Conns |-> "none"] /\ zbReader' = [c \in Conns |-> "none"]
    /\ UNCHANGED <<dialed, up, down, serverVars, made, registered, panicked, mistaken>>

-----------------------------------------------------------------------------
(* inv-driver: one goroutine per connection, and one that writes.          *)

(* handleConn: the first frame is Hello; without one in time it ends.      *)
Greeted(c) ==
    /\ handler[c] = "accepted"
    /\ IF up[c] # <<>> THEN up' = [up EXCEPT ![c] = Tail(@)] /\ handler' = [handler EXCEPT ![c] = "greeted"]
       ELSE handler' = [handler EXCEPT ![c] = "ended"] /\ UNCHANGED up
    /\ UNCHANGED <<dialed, ours, down, publishers, pubOut, pubClosed, pubWriter, clientVars, made, registered, panicked,
                   mistaken>>

(* registerPublisher replaces whoever was there.                           *)
RegisterPublisher(c) ==
    /\ handler[c] = "greeted" /\ handler' = [handler EXCEPT ![c] = "serving"]
    /\ publishers' = c /\ registered' = c /\ pubWriter' = [pubWriter EXCEPT ![c] = "run"]
    /\ UNCHANGED <<dialed, socketVars, pubOut, pubClosed, clientVars, made, panicked, mistaken>>

(* handlePublisher: the next frame; the end, an error or idleDeadline.     *)
HandleFrame(c) ==
    /\ handler[c] = "serving" /\ up[c] # <<>> /\ up' = [up EXCEPT ![c] = Tail(@)]
    /\ UNCHANGED <<dialed, ours, down, serverVars, clientVars, made, registered, panicked, mistaken>>
HandlerLeaves(c) ==
    /\ handler[c] = "serving" /\ handler' = [handler EXCEPT ![c] = "leaving"]
    /\ UNCHANGED <<dialed, socketVars, publishers, pubOut, pubClosed, pubWriter, clientVars, made, registered, panicked,
                   mistaken>>

\* Faulty variant: the name is dropped whoever holds it.
UnregisterName(c) ==
    /\ handler[c] = "leaving" /\ ~pubClosed[c]
    /\ publishers' = NoConn /\ pubClosed' = [pubClosed EXCEPT ![c] = TRUE]
    /\ UNCHANGED <<dialed, socketVars, handler, pubOut, pubWriter, clientVars, made, registered, panicked, mistaken>>

(* unregisterAndClose, in one critical section ...                         *)
UnregisterAndClose(c) ==
    /\ handler[c] = "leaving" /\ ~pubClosed[c]
    /\ publishers' = (IF publishers = c THEN NoConn ELSE publishers)
    /\ pubClosed' = [pubClosed EXCEPT ![c] = TRUE]
    /\ UNCHANGED <<dialed, socketVars, handler, pubOut, pubWriter, clientVars, made, registered, panicked, mistaken>>

(* ... then the writer's end is awaited and the connection closed.         *)
HandlerEnds(c) ==
    /\ handler[c] = "leaving" /\ pubWriter[c] = "done" /\ handler' = [handler EXCEPT ![c] = "ended"]
    /\ UNCHANGED <<dialed, socketVars, publishers, pubOut, pubClosed, pubWriter, clientVars, made, registered, panicked,
                   mistaken>>

(* SendToBackend, from the rest of inv-driver.                             *)
SendToBackend ==
    /\ made["command"] < MaxMade /\ made' = [made EXCEPT !["command"] = @ + 1]
    /\ publishers # NoConn
    /\ panicked' = (panicked \/ pubClosed[publishers])
    /\ pubOut' = IF Len(pubOut[publishers]) < PubCap
                 THEN [pubOut EXCEPT ![publishers] = Append(@, "command")] ELSE pubOut
    /\ UNCHANGED <<dialed, socketVars, handler, publishers, pubClosed, pubWriter, clientVars, registered, mistaken>>

(* publisherWriter: after a failed write it only drains.                   *)
PublisherWrites(c) ==
    /\ pubWriter[c] \in {"run", "drain"} /\ pubOut[c] # <<>> /\ pubOut' = [pubOut EXCEPT ![c] = Tail(@)]
    /\ IF pubWriter[c] = "run" /\ ours[c] = "open"
       THEN down' = [down EXCEPT ![c] = Append(@, Head(pubOut[c]))] /\ UNCHANGED pubWriter
       ELSE pubWriter' = [pubWriter EXCEPT ![c] = "drain"] /\ UNCHANGED down
    /\ UNCHANGED <<dialed, ours, up, handler, publishers, pubClosed, clientVars, made, registered, panicked, mistaken>>
PublisherWriterEnds(c) ==
    /\ pubWriter[c] \in {"run", "drain"} /\ pubOut[c] = <<>> /\ pubClosed[c]
    /\ pubWriter' = [pubWriter EXCEPT ![c] = "done"]
    /\ UNCHANGED <<dialed, socketVars, handler, publishers, pubOut, pubClosed, clientVars, made, registered, panicked,
                   mistaken>>

(* inv-driver is restarted: nothing of it is left.                         *)
DriverRestart ==
    /\ handler' = [c \in Conns |-> IF handler[c] = "none" THEN "none" ELSE "ended"]
    /\ publishers' = NoConn /\ registered' = NoConn
    /\ pubOut' = [c \in Conns |-> <<>>] /\ pubClosed' = [c \in Conns |-> FALSE]
    /\ pubWriter' = [c \in Conns |-> "none"]
    /\ UNCHANGED <<dialed, socketVars, clientVars, made, panicked, mistaken>>

LinkNext ==
    \/ Fetch \/ FetchEnds \/ DialSession \/ SessionStarts \/ Enqueue \/ SessionReturns \/ EcuZbRestart
    \/ SendToBackend \/ DriverRestart
    \/ \E c \in Conns :
          \/ WriterTakes(c) \/ WriterWrites(c) \/ WriterStops(c) \/ ReaderReads(c)
          \/ Greeted(c) \/ RegisterPublisher(c) \/ HandleFrame(c) \/ HandlerLeaves(c)
          \/ UnregisterAndClose(c) \/ HandlerEnds(c) \/ PublisherWrites(c) \/ PublisherWriterEnds(c)

LinkSpec == LinkInit /\ [][LinkNext]_linkVars

-----------------------------------------------------------------------------
(* Properties.                                                             *)

(* The name leads to a live handler (server.go:664-688): while ecu-zb      *)
(* fetches, reconnects and restarts and old handlers linger, the           *)
(* connection registered last is the one commands go to for as long as it  *)
(* is served, nobody sends on a closed channel, and the name never leads   *)
(* to a handler that is through with its connection.  At ecu-zb no writer  *)
(* of a session that has returned takes a frame that was meant for the     *)
(* next one (client.go:325-334).                                           *)
LinkSound ==
    /\ LinkTypeOK
    /\ registered # NoConn /\ handler[registered] = "serving" => publishers = registered
    /\ publishers # NoConn => ~pubClosed[publishers]
    /\ ~panicked /\ ~mistaken
=============================================================================
