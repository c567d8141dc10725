--------------------------------- MODULE Hub ---------------------------------
(***************************************************************************)
(* The WebSocket hub (package api, ws.go): goroutines that broadcast, and  *)
(* for every connection the goroutine of its HTTP handler (registration,   *)
(* then readPump) and the goroutine of writePump.  They share the map of   *)
(* clients under a sync.RWMutex, one buffered channel per client, and the  *)
(* connection itself, which either pump closes.                            *)
(*                                                                         *)
(* A critical section of Lock is one step, since nothing else can run in   *)
(* it; its announcement, which keeps new readers out, is a step before     *)
(* it.  A critical section of RLock is many steps, since readers overlap.  *)
(* Nothing in src/ calls Broadcast yet: Broadcasters stands for the        *)
(* subsystems API.Hub hands the hub to.                                    *)
(***************************************************************************)
EXTENDS Naturals, Sequences, FiniteSets

CONSTANTS
    Clients,        \* connections, each a *wsClient once it is upgraded
    Broadcasters,   \* goroutines that call Broadcast
    Cap,            \* capacity of a client's send channel, 16 in the code
    MaxMsgs,        \* bound on the number of broadcasts
    None            \* no client

ASSUME NoneAssumption == None \notin Clients
ASSUME BoundAssumption == Cap \in Nat \ {0} /\ MaxMsgs \in Nat

Msgs == 1..MaxMsgs

VARIABLES
    clients,    \* the keys of Hub.clients
    queue,      \* the messages buffered in each client's send channel
    closed,     \* the clients whose send channel is closed
    pending,    \* the handler that has announced Lock, or None
    bcast,      \* where each broadcaster is: [at, todo, slow, msg]
    handler,    \* where each connection's handler and readPump are
    pump,       \* where each connection's writePump is
    held,       \* the message a writePump is writing, as a sequence
    conn,       \* the connections the server has not closed
    gone,       \* the peers that hung up, or stopped answering pings
    wire,       \* the messages written to each connection
    sent,       \* the number of broadcasts begun
    since,      \* history: the value of sent when a client registered
    panicked    \* a goroutine has panicked, or the runtime has aborted

hubVars == <<clients, queue, closed, pending>>
connVars == <<handler, pump, held, conn, gone, wire>>
vars == <<hubVars, connVars, bcast, sent, since, panicked>>

Readers == {b \in Broadcasters : bcast[b].at # "idle"}
Idle == [at |-> "idle", todo |-> {}, slow |-> None, msg |-> 0]
-----------------------------------------------------------------------------
(* Hub.Broadcast. *)

\* RLock, then the iteration over the map begins.
RLock(b) ==
    /\ bcast[b].at = "idle" /\ pending = None
    /\ sent < MaxMsgs
    /\ sent' = sent + 1
    /\ bcast' = [bcast EXCEPT ![b] = [at |-> "range", todo |-> clients,
                                      slow |-> None, msg |-> sent']]
    /\ UNCHANGED <<hubVars, connVars, since, panicked>>

\* The keys the iteration may still produce: a key deleted before it is
\* reached is not produced.
Ahead(b) == bcast[b].todo \cap clients

Visited(b, c) == [bcast EXCEPT ![b].todo = @ \ {c}]

Enqueue(b, c) == queue' = [queue EXCEPT ![c] = Append(@, bcast[b].msg)]

\* The channel has no room, and a variant that finds room for one more.
FullLate(c) == Len(queue[c]) > Cap
Full(c) == Len(queue[c]) >= Cap

\* A client without room is to be dropped.  Variants: it misses the message;
\* the broadcast tries again until there is room.
DropSkips(b, c) == bcast' = Visited(b, c)
DropWaits(b, c) == UNCHANGED bcast
Drop(b, c) == bcast' = [bcast EXCEPT ![b].at = "close", ![b].slow = c,
                                     ![b].todo = @ \ {c}]

\* The select: send, or find the channel full.  A send to a closed channel
\* panics, in a select too.
Offer(b, c) ==
    /\ bcast[b].at = "range" /\ c \in Ahead(b)
    /\ \/ /\ c \in closed
          /\ panicked' = TRUE /\ UNCHANGED <<queue, bcast>>
       \/ /\ c \notin closed /\ ~Full(c)
          /\ Enqueue(b, c) /\ bcast' = Visited(b, c) /\ UNCHANGED panicked
       \/ /\ c \notin closed /\ Full(c)
          /\ Drop(b, c) /\ UNCHANGED <<queue, panicked>>
    /\ UNCHANGED <<clients, closed, pending, connVars, sent, since>>

\* close(c.send) of the slow client; closing a closed channel panics.
CloseSlow(b) ==
    LET c == bcast[b].slow
    IN  /\ bcast[b].at = "close"
        /\ IF c \in closed
           THEN panicked' = TRUE /\ UNCHANGED <<closed, bcast>>
           ELSE /\ closed' = closed \cup {c}
                /\ bcast' = [bcast EXCEPT ![b].at = "delete"]
                /\ UNCHANGED panicked
        /\ UNCHANGED <<clients, queue, pending, connVars, sent, since>>

\* delete(h.clients, c) under the read lock.  When another broadcaster is
\* iterating, the runtime may detect the concurrent map write and abort.
DeleteSlow(b) ==
    /\ bcast[b].at = "delete"
    /\ clients' = clients \ {bcast[b].slow}
    /\ bcast' = [bcast EXCEPT ![b].at = "range", ![b].slow = None]
    /\ panicked' \in IF Readers = {b} THEN {FALSE} ELSE BOOLEAN
    /\ UNCHANGED <<queue, closed, pending, connVars, sent, since>>

RUnlock(b) ==
    /\ bcast[b].at = "range" /\ Ahead(b) = {}
    /\ bcast' = [bcast EXCEPT ![b] = Idle]
    /\ UNCHANGED <<hubVars, connVars, sent, since, panicked>>

-----------------------------------------------------------------------------
(* handleWS, then readPump. *)

\* The upgrade of an authenticated request.
Upgrade(c) ==
    /\ handler[c] = "none"
    /\ handler' = [handler EXCEPT ![c] = "add"]
    /\ conn' = conn \cup {c}
    /\ UNCHANGED <<hubVars, pump, held, gone, wire, bcast, sent, since, panicked>>

\* Lock: the announcement blocks later RLocks, the section waits for readers.
Lock(c) ==
    /\ handler[c] \in {"add", "remove"} /\ pending = None
    /\ pending' = c
    /\ UNCHANGED <<clients, queue, closed, connVars, bcast, sent, since, panicked>>

\* Hub.add.
Add(c) ==
    /\ handler[c] = "add" /\ pending = c /\ Readers = {}
    /\ clients' = clients \cup {c}
    /\ since' = [since EXCEPT ![c] = sent]
    /\ pending' = None
    /\ handler' = [handler EXCEPT ![c] = "count"]
    /\ UNCHANGED <<queue, closed, pump, held, conn, gone, wire, bcast, sent, panicked>>

\* Hub.Count for the log line, then both pumps start.
Count(c) ==
    /\ handler[c] = "count" /\ pending = None
    /\ handler' = [handler EXCEPT ![c] = "read"]
    /\ pump' = [pump EXCEPT ![c] = "select"]
    /\ UNCHANGED <<hubVars, held, conn, gone, wire, bcast, sent, since, panicked>>

\* ReadMessage fails: the peer hung up, the read deadline passed without a
\* pong, or writePump closed the connection.
ReadFails(c) ==
    /\ handler[c] = "read"
    /\ c \in gone \/ c \notin conn
    /\ handler' = [handler EXCEPT ![c] = "remove"]
    /\ UNCHANGED <<hubVars, pump, held, conn, gone, wire, bcast, sent, since, panicked>>

\* A registered client is deleted and its channel closed.  The variant closes
\* the channel without looking whether the client is registered.
UnregisterAlways(c) ==
    clients' = clients \ {c} /\ closed' = closed \cup {c} /\ panicked' = (c \in closed)
Unregister(c) ==
    \/ /\ c \in clients
       /\ clients' = clients \ {c} /\ closed' = closed \cup {c}
       /\ panicked' = (c \in closed)
    \/ c \notin clients /\ UNCHANGED <<clients, closed, panicked>>

\* Hub.remove.
Remove(c) ==
    /\ handler[c] = "remove" /\ pending = c /\ Readers = {}
    /\ Unregister(c)
    /\ pending' = None
    /\ handler' = [handler EXCEPT ![c] = "close"]
    /\ UNCHANGED <<queue, pump, held, conn, gone, wire, bcast, sent, since>>

\* The deferred conn.Close of readPump.
ReadPumpClose(c) ==
    /\ handler[c] = "close"
    /\ handler' = [handler EXCEPT ![c] = "done"]
    /\ conn' = conn \ {c}
    /\ UNCHANGED <<hubVars, pump, held, gone, wire, bcast, sent, since, panicked>>

-----------------------------------------------------------------------------
(* writePump. *)

\* The channel has ended, and a variant that forgets what is still buffered.
Closed(c) == c \in closed
Ended(c) == c \in closed /\ queue[c] = <<>>

\* Receive from the channel: a message, or its end.
Receive(c) ==
    /\ pump[c] = "select"
    /\ \/ /\ queue[c] # <<>>
          /\ held' = [held EXCEPT ![c] = <<Head(queue[c])>>]
          /\ queue' = [queue EXCEPT ![c] = Tail(@)]
          /\ pump' = [pump EXCEPT ![c] = "write"]
       \/ /\ Ended(c)
          /\ pump' = [pump EXCEPT ![c] = "bye"]
          /\ UNCHANGED <<queue, held>>
    /\ UNCHANGED <<clients, closed, pending, handler, conn, gone, wire, bcast,
                   sent, since, panicked>>

\* WriteMessage succeeds; the kernel may accept what a dead peer never reads.
WriteOK(c) ==
    /\ pump[c] = "write" /\ c \in conn
    /\ wire' = [wire EXCEPT ![c] = @ \o held[c]]
    /\ held' = [held EXCEPT ![c] = <<>>]
    /\ pump' = [pump EXCEPT ![c] = "select"]
    /\ UNCHANGED <<hubVars, handler, conn, gone, bcast, sent, since, panicked>>

\* The deferred conn.Close of writePump, and a variant without it.
LeaveOpen(c) == UNCHANGED conn
Close(c) == conn' = conn \ {c}

\* A message or a ping cannot be written (write deadline, broken or closed
\* connection): writePump returns and closes the connection.  A ping that can
\* be written changes nothing.
WriteFails(c) ==
    /\ pump[c] \in {"select", "write"}
    /\ c \in gone \/ c \notin conn
    /\ held' = [held EXCEPT ![c] = <<>>]
    /\ pump' = [pump EXCEPT ![c] = "done"]
    /\ Close(c)
    /\ UNCHANGED <<hubVars, handler, gone, wire, bcast, sent, since, panicked>>

\* The close frame, written or not, and the deferred conn.Close.
Bye(c) ==
    /\ pump[c] = "bye"
    /\ pump' = [pump EXCEPT ![c] = "done"]
    /\ Close(c)
    /\ UNCHANGED <<hubVars, handler, held, gone, wire, bcast, sent, since, panicked>>

-----------------------------------------------------------------------------

\* The peer hangs up, falls silent, or sends a frame past the read limit.
HangUp(c) ==
    /\ handler[c] # "none" /\ c \notin gone
    /\ gone' = gone \cup {c}
    /\ UNCHANGED <<hubVars, handler, pump, held, conn, wire, bcast, sent, since, panicked>>

Init ==
    /\ clients = {} /\ closed = {} /\ conn = {} /\ gone = {}
    /\ queue = [c \in Clients |-> <<>>]
    /\ held = [c \in Clients |-> <<>>]
    /\ wire = [c \in Clients |-> <<>>]
    /\ since = [c \in Clients |-> 0]
    /\ handler = [c \in Clients |-> "none"]
    /\ pump = [c \in Clients |-> "none"]
    /\ bcast = [b \in Broadcasters |-> Idle]
    /\ pending = None
    /\ sent = 0
    /\ panicked = FALSE

\* The steps of a Broadcast that holds the read lock.
BroadcastStep(b) ==
    (\E c \in Clients : Offer(b, c)) \/ CloseSlow(b) \/ DeleteSlow(b) \/ RUnlock(b)

\* The steps of a connection's handler and readPump.
HandlerStep(c) ==
    Lock(c) \/ Add(c) \/ Count(c) \/ ReadFails(c) \/ Remove(c) \/ ReadPumpClose(c)

PumpStep(c) == Receive(c) \/ WriteOK(c) \/ WriteFails(c) \/ Bye(c)

\* Every broadcast was made and every connection has come and gone.
Quiet ==
    /\ sent = MaxMsgs /\ Readers = {}
    /\ \A c \in Clients : handler[c] = "done" /\ pump[c] = "done"
    /\ UNCHANGED vars

Next ==
    /\ ~panicked
    /\ \/ \E b \in Broadcasters : RLock(b) \/ BroadcastStep(b)
       \/ \E c \in Clients : Upgrade(c) \/ HandlerStep(c) \/ PumpStep(c) \/ HangUp(c)
       \/ Quiet

Spec == Init /\ [][Next]_vars

\* A goroutine that can run is run, and sync.RWMutex hands itself to whoever
\* waits for it.  The read deadline makes every ReadMessage from a silent peer
\* return, and the write deadline every WriteMessage.
FairSpec ==
    /\ Spec
    /\ \A b \in Broadcasters : WF_vars(~panicked /\ BroadcastStep(b))
    /\ \A c \in Clients :
          /\ WF_vars(~panicked /\ (Add(c) \/ Remove(c)))
          /\ WF_vars(~panicked /\ HandlerStep(c))
          /\ WF_vars(~panicked /\ PumpStep(c))

-----------------------------------------------------------------------------
(* Properties. *)

TypeOK ==
    /\ clients \subseteq Clients /\ closed \subseteq Clients
    /\ conn \subseteq Clients /\ gone \subseteq Clients
    /\ queue \in [Clients -> Seq(Msgs)]
    /\ \A c \in Clients : Len(queue[c]) <= Cap
    /\ held \in [Clients -> {<<>>} \cup {<<m>> : m \in Msgs}]
    /\ wire \in [Clients -> Seq(Msgs)]
    /\ since \in [Clients -> 0..MaxMsgs]
    /\ handler \in [Clients -> {"none", "add", "count", "read", "remove",
                                "close", "done"}]
    /\ pump \in [Clients -> {"none", "select", "write", "bye", "done"}]
    /\ bcast \in [Broadcasters -> [at : {"idle", "range", "close", "delete"},
                                   todo : SUBSET Clients,
                                   slow : Clients \cup {None},
                                   msg : 0..MaxMsgs]]
    /\ pending \in Clients \cup {None}
    /\ sent \in 0..MaxMsgs
    /\ panicked \in BOOLEAN

\* ws.go:29-30: "Broadcast sends msg to every connected client. Slow clients that
\* cannot keep up are dropped rather than blocking the broadcast", and the hub is
\* exposed "for other subsystems to broadcast" (api.go:71).  So no goroutine
\* sends to a closed channel, closes one twice, or writes the map while another
\* iterates it: dropping a slow client harms nobody else.
NeverPanics == ~panicked

\* The client a Broadcast is dropping.
Dropping(c) == \E b \in Broadcasters : bcast[b].slow = c

Stream(c) == wire[c] \o held[c] \o queue[c]

Consecutive(c, msgs) == \A i \in 1..Len(msgs) : msgs[i] = since[c] + i

\* A connection carries every broadcast made since it registered, in order and
\* without a gap, up to the moment it is dropped or breaks; while it is
\* registered nothing is missing but the broadcast still under way
\* (Broadcast, writePump).
GapFree ==
    \A c \in Clients :
        /\ Consecutive(c, wire[c])
        /\ pump[c] # "done" =>
              /\ Consecutive(c, Stream(c))
              /\ c \in clients /\ ~Dropping(c)
                    /\ (\A b \in Broadcasters : c \notin bcast[b].todo)
                 => since[c] + Len(Stream(c)) = sent

\* A Broadcast ends, although a client stops reading, breaks or leaves in the
\* middle of it with its channel full ("rather than blocking the broadcast",
\* ws.go:30).
BroadcastCompletes ==
    \A b \in Broadcasters : bcast[b].at # "idle" ~> bcast[b].at = "idle"

\* A connection whose peer is gone or that was dropped is given up entirely:
\* both its goroutines end and the hub forgets it.
NoLeak ==
    \A c \in Clients : c \in gone \cup closed ~>
        handler[c] = "done" /\ pump[c] = "done" /\ c \notin clients \cup conn

-----------------------------------------------------------------------------
(* Refinement: what a connected client sees of the hub is Feed. *)

\* A client is a member until it is dropped or removed, and its connection has
\* ended once its writePump has.
Phase(c) ==
    IF handler[c] \in {"none", "add"} THEN "out"
    ELSE IF pump[c] = "done" THEN "ended"
    ELSE IF c \in clients /\ ~Dropping(c) THEN "in" ELSE "left"

FeedOf == INSTANCE Feed WITH
    Last <- MaxMsgs,
    count <- sent,
    phase <- [c \in Clients |-> Phase(c)],
    joined <- since,
    got <- wire,
    bound <- [c \in Clients |->
                 IF Phase(c) = "left" THEN since[c] + Len(Stream(c)) ELSE 0]

\* ws.go:29-30, as a client sees it: every broadcast since it connected arrives,
\* in order; it is dropped only when it hung up or is more than Cap messages
\* behind; and a dropped client that still reads is sent its whole backlog
\* before its connection is closed (writePump drains a closed channel).
ImplementsFeed == FeedOf!Spec
=============================================================================
