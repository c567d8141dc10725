------------------------------ MODULE Hub_proofs ------------------------------
(* Theorems about Hub, for every value of its constants. *)
EXTENDS Hub, SequenceTheorems, TLAPS

-----------------------------------------------------------------------------
(* The inductive invariants, in the order in which they rest on each other. *)

\* What a broadcaster has at hand where it is.
AtHand ==
    \A b \in Broadcasters :
        /\ bcast[b].at # "idle" => bcast[b].msg \in Msgs
        /\ bcast[b].at \in {"close", "delete"} => bcast[b].slow \in Clients

\* A client is registered between Add and Remove, its writePump starts after it
\* is registered, and only then is there anything for it.
Registration ==
    \A c \in Clients :
        /\ c \in clients => handler[c] \in {"count", "read", "remove"}
        /\ pump[c] = "none" <=> handler[c] \in {"none", "add", "count"}
        /\ handler[c] \in {"none", "add"} => c \notin closed /\ queue[c] = <<>>
        /\ pump[c] = "none" => wire[c] = <<>>
        /\ pump[c] = "write" <=> held[c] # <<>>
        /\ pump[c] = "bye" => c \in closed /\ queue[c] = <<>>

\* The one broadcaster drops a client that is registered and still open, and a
\* client whose channel is closed is registered only while it is being dropped.
Broadcasting ==
    /\ \A b \in Broadcasters :
          /\ bcast[b].at = "idle" => bcast[b].todo = {}
          /\ bcast[b].at \in {"idle", "range"} => bcast[b].slow = None
          /\ bcast[b].at = "close" => bcast[b].slow \in clients \ closed
          /\ bcast[b].at = "delete" => bcast[b].slow \in clients \cap closed
          /\ bcast[b].at # "idle" => bcast[b].msg = sent
          /\ bcast[b].slow \notin bcast[b].todo
          /\ \A c \in bcast[b].todo : handler[c] \notin {"none", "add"}
    /\ \A c \in clients \cap closed :
          \E b \in Broadcasters : bcast[b].at = "delete" /\ bcast[b].slow = c

\* The Broadcast under way has yet to come to the client.
Awaited(c) == \E b \in Broadcasters : c \in bcast[b].todo

Total(c) == Len(wire[c]) + Len(held[c]) + Len(queue[c])

\* Three sequences, one behind the other, count up from n + 1.
Laid(n, w, h, q) ==
    /\ \A i \in 1..Len(w) : w[i] = n + i
    /\ \A i \in 1..Len(h) : h[i] = n + Len(w) + i
    /\ \A i \in 1..Len(q) : q[i] = n + Len(w) + Len(h) + i

\* What is written, held and buffered for a client are the broadcasts since it
\* registered, in order.
Layout(c) == Laid(since[c], wire[c], held[c], queue[c])

\* A registered client that is not being dropped lacks the broadcast under way
\* at most; one that is not registered any more lacks others, but no earlier ones.
StreamOf(c) ==
    /\ Consecutive(c, wire[c])
    /\ since[c] <= sent
    /\ pump[c] # "done" =>
          /\ Layout(c)
          /\ since[c] + Total(c) <= sent
          /\ c \in clients /\ ~Dropping(c) =>
                IF Awaited(c) THEN since[c] + Total(c) = sent - 1
                              ELSE since[c] + Total(c) = sent

Streams == \A c \in Clients : StreamOf(c)

\* A connection that a living writePump has is open, unless its peer hung up.
Connections ==
    \A c \in Clients :
        /\ handler[c] \in {"remove", "close", "done"} /\ pump[c] # "done" => c \in gone
        /\ handler[c] # "none" /\ c \notin conn /\ pump[c] # "done" => c \in gone

-----------------------------------------------------------------------------
(* Types. *)

USE NoneAssumption, BoundAssumption DEF hubVars, connVars, vars, Readers, Idle

Broadcasts == [at : {"idle", "range", "close", "delete"}, todo : SUBSET Clients,
               slow : Clients \cup {None}, msg : 0..MaxMsgs]

\* All of the type invariant but the last conjunct.
Typed ==
    /\ clients \subseteq Clients /\ closed \subseteq Clients
    /\ conn \subseteq Clients /\ gone \subseteq Clients
    /\ queue \in [Clients -> Seq(Msgs)]
    /\ \A c \in Clients : Len(queue[c]) <= Cap
    /\ held \in [Clients -> {<<>>} \cup {<<m>> : m \in Msgs}]
    /\ wire \in [Clients -> Seq(Msgs)]
    /\ since \in [Clients -> 0..MaxMsgs]
    /\ handler \in [Clients -> {"none", "add", "count", "read", "remove",
                                "close", "done"}]
    /\ pump \in [Clients -> {"none", "select", "write", "bye", "done"}]
    /\ bcast \in [Broadcasters -> Broadcasts]
    /\ pending \in Clients \cup {None}
    /\ sent \in 0..MaxMsgs
    /\ AtHand

LEMMA TypedInit == Init => Typed
<1> SUFFICES ASSUME Init PROVE Typed
  OBVIOUS
<1>1. /\ clients = {} /\ closed = {} /\ conn = {} /\ gone = {}
      /\ queue = [c \in Clients |-> <<>>]
      /\ held = [c \in Clients |-> <<>>]
      /\ wire = [c \in Clients |-> <<>>]
      /\ since = [c \in Clients |-> 0]
      /\ handler = [c \in Clients |-> "none"]
      /\ pump = [c \in Clients |-> "none"]
      /\ bcast = [b \in Broadcasters |-> Idle]
      /\ pending = None
      /\ sent = 0
  BY Zenon DEF Init
<1> QED BY <1>1, EmptySeq DEF Typed, AtHand, Broadcasts

\* What a broadcaster does with a client, apart from panicking.
LEMMA OfferCases ==
    ASSUME NEW b \in Broadcasters, NEW c \in Clients, Offer(b, c)
    PROVE  /\ bcast[b].at = "range" /\ c \in bcast[b].todo /\ c \in clients
           /\ \/ c \in closed /\ UNCHANGED <<queue, bcast>>
              \/ /\ c \notin closed /\ ~Full(c)
                 /\ queue' = [queue EXCEPT ![c] = Append(@, bcast[b].msg)]
                 /\ bcast' = [bcast EXCEPT ![b].todo = @ \ {c}]
              \/ /\ c \notin closed /\ Full(c)
                 /\ bcast' = [bcast EXCEPT ![b].at = "close", ![b].slow = c, ![b].todo = @ \ {c}]
                 /\ UNCHANGED queue
           /\ UNCHANGED <<clients, closed, pending, connVars, sent, since>>
<1>1. c \in bcast[b].todo /\ c \in clients
  BY DEF Offer, Ahead
<1> QED BY <1>1, Zenon DEF Offer, Enqueue, Visited, Drop

\* Every step keeps the types, and no channel holds more than it has room for.
LEMMA TypedStep == Typed /\ [Next]_vars => Typed'
<1> SUFFICES ASSUME Typed, [Next]_vars
             PROVE  Typed'
  OBVIOUS
<1> USE DEF Typed, AtHand, Broadcasts
<1>1. ASSUME NEW b \in Broadcasters, RLock(b) PROVE Typed'
  BY <1>1 DEF RLock, Msgs
<1>2. ASSUME NEW b \in Broadcasters, NEW c \in Clients, Offer(b, c) PROVE Typed'
  <2>1. /\ bcast[b].at = "range"
        /\ UNCHANGED <<clients, closed, pending, connVars, sent, since>>
    BY <1>2, OfferCases
  <2>2. CASE UNCHANGED <<queue, bcast>>
    BY <2>1, <2>2
  <2>3. CASE /\ ~Full(c)
             /\ queue' = [queue EXCEPT ![c] = Append(@, bcast[b].msg)]
             /\ bcast' = [bcast EXCEPT ![b].todo = @ \ {c}]
    <3>1. queue[c] \in Seq(Msgs) /\ bcast[b].msg \in Msgs
      BY <2>1
    <3>2. Append(queue[c], bcast[b].msg) \in Seq(Msgs)
      BY <3>1, AppendProperties
    <3>3. Len(Append(queue[c], bcast[b].msg)) <= Cap
      BY <2>3, <3>1, AppendProperties, LenProperties DEF Full
    <3>4. queue' \in [Clients -> Seq(Msgs)] /\ \A d \in Clients : Len(queue'[d]) <= Cap
      BY <2>3, <3>2, <3>3
    <3> QED BY <2>1, <2>3, <3>4
  <2>4. CASE /\ bcast' = [bcast EXCEPT ![b].at = "close", ![b].slow = c, ![b].todo = @ \ {c}]
             /\ UNCHANGED queue
    <3>1. bcast' \in [Broadcasters -> Broadcasts]
      <4> DEFINE new == [bcast[b] EXCEPT !.at = "close", !.slow = c, !.todo = @ \ {c}]
      <4>1. bcast \in [Broadcasters -> Broadcasts]
        OBVIOUS
      <4> HIDE DEF Typed
      <4>2. new \in Broadcasts
        BY <4>1 DEF Broadcasts
      <4>3. bcast' = [bcast EXCEPT ![b] = new]
        BY <2>4, <4>1
      <4> QED BY <4>1, <4>2, <4>3
    <3>2. AtHand'
      BY <2>1, <2>4
    <3> QED BY <2>1, <2>4, <3>1, <3>2
  <2> QED BY <1>2, <2>2, <2>3, <2>4, OfferCases
<1>3. ASSUME NEW b \in Broadcasters, CloseSlow(b) PROVE Typed'
  <2>1. /\ bcast[b].at = "close"
        /\ \/ UNCHANGED <<closed, bcast>>
           \/ /\ closed' = closed \cup {bcast[b].slow}
              /\ bcast' = [bcast EXCEPT ![b].at = "delete"]
        /\ UNCHANGED <<clients, queue, pending, connVars, sent, since>>
    BY <1>3, Zenon DEF CloseSlow
  <2>2. CASE UNCHANGED <<closed, bcast>>
    BY <2>1, <2>2
  <2>3. CASE /\ closed' = closed \cup {bcast[b].slow}
             /\ bcast' = [bcast EXCEPT ![b].at = "delete"]
    <3>1. bcast' \in [Broadcasters -> Broadcasts]
      <4>1. bcast \in [Broadcasters -> Broadcasts]
        OBVIOUS
      <4> HIDE DEF Typed
      <4> QED BY <2>3, <4>1 DEF Broadcasts
    <3>2. AtHand'
      BY <2>1, <2>3
    <3>3. closed' \subseteq Clients
      BY <2>1, <2>3
    <3> QED BY <2>1, <2>3, <3>1, <3>2, <3>3
  <2> QED BY <2>1, <2>2, <2>3
<1>4. ASSUME NEW b \in Broadcasters, DeleteSlow(b) PROVE Typed'
  BY <1>4 DEF DeleteSlow
<1>5. ASSUME NEW b \in Broadcasters, RUnlock(b) PROVE Typed'
  BY <1>5 DEF RUnlock
<1>6. ASSUME NEW c \in Clients, Upgrade(c) \/ Lock(c) \/ HangUp(c) PROVE Typed'
  BY <1>6 DEF Upgrade, Lock, HangUp
<1>7. ASSUME NEW c \in Clients, Add(c) PROVE Typed'
  BY <1>7 DEF Add
<1>8. ASSUME NEW c \in Clients, Count(c) PROVE Typed'
  BY <1>8 DEF Count
<1>9. ASSUME NEW c \in Clients, ReadFails(c) PROVE Typed'
  BY <1>9 DEF ReadFails
<1>10. ASSUME NEW c \in Clients, Remove(c) PROVE Typed'
  BY <1>10 DEF Remove, Unregister
<1>11. ASSUME NEW c \in Clients, ReadPumpClose(c) PROVE Typed'
  BY <1>11 DEF ReadPumpClose
<1>12. ASSUME NEW c \in Clients, Receive(c) PROVE Typed'
  <2>1. CASE queue[c] # <<>> /\ pump'[c] = "write"
    <3>1. /\ <<Head(queue[c])>> \in {<<m>> : m \in Msgs}
          /\ Tail(queue[c]) \in Seq(Msgs) /\ Len(Tail(queue[c])) <= Cap
      BY <2>1, HeadTailProperties, LenProperties
    <3>2. /\ queue' = [queue EXCEPT ![c] = Tail(@)]
          /\ held' = [held EXCEPT ![c] = <<Head(queue[c])>>]
          /\ pump' = [pump EXCEPT ![c] = "write"]
          /\ UNCHANGED <<clients, closed, pending, handler, conn, gone, wire, bcast, sent, since>>
      BY <1>12, <2>1 DEF Receive
    <3> QED BY <3>1, <3>2
  <2>2. CASE Ended(c) /\ pump'[c] = "bye"
    BY <1>12, <2>2 DEF Receive, Ended
  <2> QED BY <1>12, <2>1, <2>2 DEF Receive
<1>13. ASSUME NEW c \in Clients, WriteOK(c) PROVE Typed'
  <2>1. held[c] \in Seq(Msgs)
    <3>1. (\A m \in Msgs : <<m>> \in Seq(Msgs)) /\ <<>> \in Seq(Msgs)
      OBVIOUS
    <3>2. held[c] = <<>> \/ \E m \in Msgs : held[c] = <<m>>
      OBVIOUS
    <3> HIDE DEF Typed
    <3> QED BY <3>1, <3>2
  <2>2. wire[c] \o held[c] \in Seq(Msgs)
    <3>1. wire[c] \in Seq(Msgs)
      OBVIOUS
    <3> QED BY <2>1, <3>1, ConcatProperties
  <2> QED BY <1>13, <2>2 DEF WriteOK
<1>14. ASSUME NEW c \in Clients, WriteFails(c) \/ Bye(c) PROVE Typed'
  BY <1>14 DEF WriteFails, Bye, Close
<1>15. CASE Quiet \/ UNCHANGED vars
  BY <1>15 DEF Quiet
<1> QED BY <1>1, <1>2, <1>3, <1>4, <1>5, <1>6, <1>7, <1>8, <1>9, <1>10, <1>11, <1>12,
           <1>13, <1>14, <1>15 DEF Next, BroadcastStep, HandlerStep, PumpStep

Flag == panicked \in BOOLEAN

LEMMA FlagStep == Flag /\ [Next]_vars => Flag'
<1> SUFFICES ASSUME panicked \in BOOLEAN, [Next]_vars
             PROVE  panicked' \in BOOLEAN
  BY Zenon DEF Flag
<1>1. CASE UNCHANGED panicked
  BY <1>1, Zenon
<1>2. ASSUME NEW c \in Clients, Upgrade(c) \/ HandlerStep(c) \/ PumpStep(c) \/ HangUp(c)
      PROVE  panicked' \in BOOLEAN
  <2>1. CASE Remove(c)
    <3>1. panicked' = (c \in closed) \/ panicked' = panicked
      BY <2>1, Zenon DEF Remove, Unregister
    <3>2. ASSUME NEW e, e = (c \in closed) PROVE e \in BOOLEAN
      BY <3>2
    <3> QED BY <3>1, <3>2, Zenon
  <2>2. UNCHANGED panicked \/ Remove(c)
    BY <1>2, Zenon DEF Upgrade, HandlerStep, PumpStep, HangUp, Lock, Add, Count, ReadFails,
                       ReadPumpClose, Receive, WriteOK, WriteFails, Bye
  <2> QED BY <2>1, <2>2, Zenon
<1>3. ASSUME NEW b \in Broadcasters, RLock(b) \/ BroadcastStep(b) PROVE panicked' \in BOOLEAN
  <2>1. ASSUME NEW c \in Clients, Offer(b, c) PROVE panicked' \in BOOLEAN
    BY <2>1, Zenon DEF Offer
  <2>2. ASSUME CloseSlow(b) PROVE panicked' \in BOOLEAN
    BY <2>2, Zenon DEF CloseSlow
  <2>3. ASSUME DeleteSlow(b) PROVE panicked' \in BOOLEAN
    BY <2>3, Zenon DEF DeleteSlow
  <2> QED BY <1>3, <2>1, <2>2, <2>3, Zenon DEF BroadcastStep, RLock, RUnlock
<1> QED BY <1>1, <1>2, <1>3, Zenon DEF Next, Quiet, vars

\* The type invariant holds for any number of broadcasters.
THEOREM TypeCorrect == Spec => []TypeOK
<1>1. Init => Flag
  BY Zenon DEF Init, Flag
<1>2. Typed /\ Flag => TypeOK
  BY Zenon DEF Typed, Flag, Broadcasts, TypeOK
<1> QED BY <1>1, <1>2, TypedInit, TypedStep, FlagStep, PTL DEF Spec

-----------------------------------------------------------------------------
(* One broadcaster: nothing panics. *)

OneBroadcaster == \A a, b \in Broadcasters : a = b

Sound == Typed /\ Registration /\ Broadcasting

\* What closing and deleting do, apart from panicking.
LEMMA CloseCases ==
    ASSUME Broadcasting, NEW b \in Broadcasters, CloseSlow(b)
    PROVE  /\ bcast[b].at = "close" /\ bcast[b].slow \in clients \ closed
           /\ closed' = closed \cup {bcast[b].slow}
           /\ bcast' = [bcast EXCEPT ![b].at = "delete"]
           /\ UNCHANGED <<clients, queue, pending, connVars, sent, since>>
<1>1. bcast[b].at = "close"
  BY DEF CloseSlow
<1>2. bcast[b].slow \in clients \ closed
  BY <1>1 DEF Broadcasting
<1> QED BY <1>1, <1>2, Zenon DEF CloseSlow

LEMMA DeleteCases ==
    ASSUME NEW b \in Broadcasters, DeleteSlow(b)
    PROVE  /\ bcast[b].at = "delete"
           /\ clients' = clients \ {bcast[b].slow}
           /\ bcast' = [bcast EXCEPT ![b].at = "range", ![b].slow = None]
           /\ UNCHANGED <<queue, closed, pending, connVars, sent, since>>
BY Zenon DEF DeleteSlow

LEMMA RemoveCases ==
    ASSUME NEW c \in Clients, Remove(c)
    PROVE  /\ handler[c] = "remove" /\ Readers = {}
           /\ \/ c \in clients /\ clients' = clients \ {c} /\ closed' = closed \cup {c}
              \/ c \notin clients /\ UNCHANGED <<clients, closed>>
           /\ handler' = [handler EXCEPT ![c] = "close"]
           /\ UNCHANGED <<queue, pump, held, conn, gone, wire, bcast, sent, since>>
BY Zenon DEF Remove, Unregister

\* While the hub is locked no client is both registered and closed.
LEMMA OpenOutside ==
    ASSUME Broadcasting, Readers = {}
    PROVE  clients \cap closed = {}
BY DEF Broadcasting

\* A client that a Broadcast has before it is open.
LEMMA OpenAhead ==
    ASSUME OneBroadcaster, Broadcasting, NEW b \in Broadcasters, bcast[b].at # "delete"
    PROVE  clients \cap closed = {}
BY DEF OneBroadcaster, Broadcasting

LEMMA SoundStep ==
    ASSUME OneBroadcaster
    PROVE  Sound /\ [Next]_vars => Sound'
<1> SUFFICES ASSUME Sound, [Next]_vars
             PROVE  Registration' /\ Broadcasting'
  BY TypedStep DEF Sound
<1> DEFINE Goal == Registration' /\ Broadcasting'
<1>typed. Typed /\ Registration /\ Broadcasting
  BY DEF Sound
<1>only. \A b, d \in Broadcasters : d = b
  BY DEF OneBroadcaster
<1> USE DEF Typed, Broadcasts, Registration, Broadcasting
<1>1. ASSUME NEW b \in Broadcasters, RLock(b) PROVE Goal
  <2>1. /\ clients \cap closed = {}
        /\ clients' = clients /\ closed' = closed /\ handler' = handler
        /\ \A c \in clients : handler[c] \notin {"none", "add"}
        /\ None \notin clients
    BY <1>typed, <1>1, OpenAhead DEF RLock
  <2>2. /\ bcast'[b].at = "range" /\ bcast'[b].todo = clients
        /\ bcast'[b].slow = None /\ bcast'[b].msg = sent'
    BY <1>typed, <1>1 DEF RLock
  <2>3. Registration'
    BY <1>typed, <1>1 DEF RLock
  <2>4. Broadcasting'
    <3> HIDE DEF Typed, Registration
    <3> QED BY <1>only, <2>1, <2>2
  <2> QED BY <2>3, <2>4
<1>2. ASSUME NEW b \in Broadcasters, NEW c \in Clients, Offer(b, c) PROVE Goal
  <2>1. /\ bcast[b].at = "range" /\ c \in bcast[b].todo /\ c \in clients
        /\ UNCHANGED <<clients, closed, pending, connVars, sent, since>>
    BY <1>2, OfferCases
  <2>2. clients \cap closed = {} /\ c # None
    BY <1>typed, <2>1, OpenAhead
  <2>3. CASE UNCHANGED <<queue, bcast>>
    BY <1>typed, <2>1, <2>3
  <2>4. CASE /\ \A d \in Clients : d # c => queue'[d] = queue[d]
             /\ bcast' = [bcast EXCEPT ![b].todo = @ \ {c}]
    <3>1. /\ bcast'[b].at = "range" /\ bcast'[b].todo = bcast[b].todo \ {c}
          /\ bcast'[b].slow = bcast[b].slow /\ bcast'[b].msg = bcast[b].msg
      BY <1>typed, <2>1, <2>4
    <3>2. Registration'
      BY <1>typed, <2>1, <2>2, <2>4
    <3>3. Broadcasting'
      <4> HIDE DEF Typed, Registration
      <4> QED BY <1>typed, <1>only, <2>1, <2>2, <3>1
    <3> QED BY <3>2, <3>3
  <2>5. CASE /\ bcast' = [bcast EXCEPT ![b].at = "close", ![b].slow = c, ![b].todo = @ \ {c}]
             /\ UNCHANGED queue
    <3>1. /\ bcast'[b].at = "close" /\ bcast'[b].todo = bcast[b].todo \ {c}
          /\ bcast'[b].slow = c /\ bcast'[b].msg = bcast[b].msg
      BY <1>typed, <2>5
    <3>2. Registration'
      BY <1>typed, <2>1, <2>5
    <3>3. Broadcasting'
      <4> HIDE DEF Typed, Registration
      <4> QED BY <1>typed, <1>only, <2>1, <2>2, <3>1
    <3> QED BY <3>2, <3>3
  <2>6. queue' = [queue EXCEPT ![c] = Append(@, bcast[b].msg)]
            => \A d \in Clients : d # c => queue'[d] = queue[d]
    BY <1>typed
  <2> HIDE DEF Typed, Registration, Broadcasting
  <2> QED BY <1>2, <2>3, <2>4, <2>5, <2>6, OfferCases
<1>3. ASSUME NEW b \in Broadcasters, CloseSlow(b) PROVE Goal
  <2>1. PICK c \in Clients : c = bcast[b].slow /\ c \in clients \ closed
    BY <1>typed, <1>3, CloseCases
  <2>2. /\ bcast[b].at = "close" /\ closed' = closed \cup {c}
        /\ UNCHANGED <<clients, queue, pending, connVars, sent, since>>
    BY <1>typed, <1>3, <2>1, CloseCases
  <2>3. /\ bcast'[b].at = "delete" /\ bcast'[b].todo = bcast[b].todo
        /\ bcast'[b].slow = c /\ bcast'[b].msg = bcast[b].msg
    BY <1>typed, <1>3, <2>1, CloseCases
  <2>4. clients \cap closed = {}
    BY <1>typed, <2>2, OpenAhead
  <2>5. Registration'
    BY <1>typed, <2>1, <2>2
  <2>6. Broadcasting'
    <3> HIDE DEF Typed, Registration
    <3> QED BY <1>typed, <1>only, <2>1, <2>2, <2>3, <2>4
  <2> QED BY <2>5, <2>6
<1>4. ASSUME NEW b \in Broadcasters, DeleteSlow(b) PROVE Goal
  <2>1. PICK c \in Clients : c = bcast[b].slow /\ c \in clients \cap closed
    BY <1>typed, <1>4, DeleteCases
  <2>2. /\ bcast[b].at = "delete" /\ clients' = clients \ {c}
        /\ UNCHANGED <<queue, closed, pending, connVars, sent, since>>
    BY <1>typed, <1>4, <2>1, DeleteCases
  <2>3. /\ bcast'[b].at = "range" /\ bcast'[b].todo = bcast[b].todo
        /\ bcast'[b].slow = None /\ bcast'[b].msg = bcast[b].msg
        /\ None \notin bcast[b].todo
    <3>1. bcast \in [Broadcasters -> Broadcasts] /\ None \notin bcast[b].todo
      BY <1>typed
    <3>2. bcast' = [bcast EXCEPT ![b].at = "range", ![b].slow = None]
      BY <1>4, DeleteCases
    <3> HIDE DEF Typed, Registration, Broadcasting
    <3> QED BY <3>1, <3>2
  <2>4. clients' \cap closed' = {}
    BY <1>typed, <1>only, <2>1, <2>2
  <2>5. Registration'
    BY <1>typed, <2>1, <2>2
  <2>6. Broadcasting'
    <3> HIDE DEF Typed, Registration
    <3> QED BY <1>typed, <1>only, <2>1, <2>2, <2>3, <2>4
  <2> QED BY <2>5, <2>6
<1>5. ASSUME NEW b \in Broadcasters, RUnlock(b) PROVE Goal
  BY <1>typed, <1>5 DEF RUnlock
<1>6. ASSUME NEW c \in Clients, Upgrade(c) PROVE Goal
  BY <1>typed, <1>6 DEF Upgrade
<1>7. ASSUME NEW c \in Clients, Add(c) PROVE Goal
  BY <1>typed, <1>7 DEF Add
<1>8. ASSUME NEW c \in Clients, Count(c) PROVE Goal
  BY <1>typed, <1>8 DEF Count
<1>9. ASSUME NEW c \in Clients, ReadFails(c) PROVE Goal
  BY <1>typed, <1>9 DEF ReadFails
<1>10. ASSUME NEW c \in Clients, Remove(c) PROVE Goal
  BY <1>typed, <1>10, RemoveCases, OpenOutside
<1>11. ASSUME NEW c \in Clients, ReadPumpClose(c) PROVE Goal
  BY <1>typed, <1>11 DEF ReadPumpClose
<1>12. ASSUME NEW c \in Clients, Receive(c) PROVE Goal
  <2>1. UNCHANGED <<clients, closed, handler, wire, bcast, sent>> /\ pump[c] = "select"
    BY <1>12 DEF Receive
  <2>2. Broadcasting'
    BY <1>typed, <2>1
  <2>3. CASE /\ queue[c] # <<>>
             /\ held' = [held EXCEPT ![c] = <<Head(queue[c])>>]
             /\ queue' = [queue EXCEPT ![c] = Tail(@)]
             /\ pump' = [pump EXCEPT ![c] = "write"]
    BY <1>typed, <2>1, <2>2, <2>3
  <2>4. CASE Ended(c) /\ pump' = [pump EXCEPT ![c] = "bye"] /\ UNCHANGED <<queue, held>>
    BY <1>typed, <2>1, <2>2, <2>4 DEF Ended
  <2> QED BY <1>12, <2>3, <2>4 DEF Receive
<1>13. ASSUME NEW c \in Clients, WriteOK(c) PROVE Goal
  BY <1>typed, <1>13 DEF WriteOK
<1>14. ASSUME NEW c \in Clients, WriteFails(c) \/ Bye(c) PROVE Goal
  BY <1>typed, <1>14 DEF WriteFails, Bye
<1>15. ASSUME NEW c \in Clients, Lock(c) \/ HangUp(c) PROVE Goal
  BY <1>typed, <1>15 DEF Lock, HangUp
<1>16. CASE Quiet \/ UNCHANGED vars
  BY <1>typed, <1>16 DEF Quiet
<1> QED BY <1>1, <1>2, <1>3, <1>4, <1>5, <1>6, <1>7, <1>8, <1>9, <1>10, <1>11, <1>12,
           <1>13, <1>14, <1>15, <1>16 DEF Next, BroadcastStep, HandlerStep, PumpStep

LEMMA SoundInit == Init => Sound
<1> SUFFICES ASSUME Init PROVE Registration /\ Broadcasting
  BY TypedInit DEF Sound
<1>1. /\ clients = {} /\ closed = {}
      /\ queue = [c \in Clients |-> <<>>]
      /\ held = [c \in Clients |-> <<>>]
      /\ wire = [c \in Clients |-> <<>>]
      /\ handler = [c \in Clients |-> "none"]
      /\ pump = [c \in Clients |-> "none"]
      /\ bcast = [b \in Broadcasters |-> Idle]
  BY Zenon DEF Init
<1> QED BY <1>1 DEF Registration, Broadcasting

\* With one broadcaster no step sends to a closed channel, closes one twice or
\* writes the map while it is being read.
LEMMA CalmStep ==
    ASSUME OneBroadcaster
    PROVE  Sound /\ ~panicked /\ [Next]_vars => ~panicked'
<1> SUFFICES ASSUME Sound, ~panicked, [Next]_vars
             PROVE  ~panicked'
  OBVIOUS
<1>sound. Broadcasting
  BY DEF Sound
<1>1. CASE UNCHANGED panicked
  BY <1>1, Zenon
<1>2. ASSUME NEW c \in Clients, Upgrade(c) \/ HandlerStep(c) \/ PumpStep(c) \/ HangUp(c)
      PROVE  ~panicked'
  <2>1. CASE Remove(c)
    <3>1. c \in clients => c \notin closed
      BY <1>sound, <2>1, RemoveCases, OpenOutside
    <3> QED BY <2>1, <3>1, Zenon DEF Remove, Unregister
  <2>2. UNCHANGED panicked \/ Remove(c)
    BY <1>2, Zenon DEF Upgrade, HandlerStep, PumpStep, HangUp, Lock, Add, Count, ReadFails,
                       ReadPumpClose, Receive, WriteOK, WriteFails, Bye
  <2> QED BY <2>1, <2>2, Zenon
<1>3. ASSUME NEW b \in Broadcasters, RLock(b) \/ BroadcastStep(b) PROVE ~panicked'
  <2>1. ASSUME NEW c \in Clients, Offer(b, c) PROVE ~panicked'
    <3>1. c \notin closed
      BY <1>sound, <2>1, OfferCases, OpenAhead
    <3> QED BY <2>1, <3>1, Zenon DEF Offer
  <2>2. ASSUME CloseSlow(b) PROVE ~panicked'
    <3>1. bcast[b].slow \notin closed
      BY <1>sound, <2>2, CloseCases
    <3> QED BY <2>2, <3>1, Zenon DEF CloseSlow
  <2>3. ASSUME DeleteSlow(b) PROVE ~panicked'
    <3>1. Readers = {b}
      BY <2>3, DeleteCases DEF OneBroadcaster
    <3> QED BY <2>3, <3>1, Zenon DEF DeleteSlow
  <2> QED BY <1>3, <2>1, <2>2, <2>3, Zenon DEF BroadcastStep, RLock, RUnlock
<1> QED BY <1>1, <1>2, <1>3, Zenon DEF Next, Quiet, vars

\* One broadcaster harms nobody, however many clients it drops and whenever they
\* come and go.
THEOREM NeverPanicsAlone ==
    ASSUME OneBroadcaster
    PROVE  Spec => []NeverPanics
<1>1. Init => ~panicked
  BY Zenon DEF Init
<1> QED BY <1>1, SoundInit, SoundStep, CalmStep, PTL DEF Spec, NeverPanics

-----------------------------------------------------------------------------
(* Sequences laid one behind the other. *)

\* Where an index past the first of two sequences points.
LEMMA Past == \A m, n \in Nat : \A i \in 1..(m + n) : ~(i <= m) => i - m \in 1..n
OBVIOUS

\* The first of the third goes to the empty second ...
LEMMA LaidReceive ==
    ASSUME NEW S, NEW n \in Nat, NEW w \in Seq(S), NEW q \in Seq(S), q # <<>>,
           Laid(n, w, <<>>, q)
    PROVE  /\ Laid(n, w, <<Head(q)>>, Tail(q))
           /\ Len(<<>>) + Len(q) = Len(<<Head(q)>>) + Len(Tail(q))
<1> DEFINE t == Tail(q)
<1>1. /\ t \in Seq(S) /\ Len(t) = Len(q) - 1
      /\ \A i \in 1..Len(t) : t[i] = q[i + 1]
  BY HeadTailProperties
<1>2. Len(w) \in Nat /\ Len(q) \in Nat /\ Len(q) >= 1 /\ Head(q) = q[1]
  BY LenProperties
<1>3. /\ \A i \in 1..Len(w) : w[i] = n + i
      /\ \A i \in 1..Len(q) : q[i] = n + Len(w) + i
  BY <1>2 DEF Laid
<1> HIDE DEF t
<1>4. q[1] = n + Len(w) + 1
  BY <1>2, <1>3
<1>5. \A i \in 1..Len(t) : t[i] = n + Len(w) + 1 + i
  BY <1>1, <1>2, <1>3
<1>6. Laid(n, w, <<Head(q)>>, t)
  BY <1>2, <1>3, <1>4, <1>5 DEF Laid
<1> QED BY <1>1, <1>2, <1>6 DEF t

\* ... the second is put behind the first ...
LEMMA LaidWrite ==
    ASSUME NEW S, NEW n \in Nat, NEW w \in Seq(S), NEW h \in Seq(S), NEW q \in Seq(S),
           Laid(n, w, h, q)
    PROVE  /\ Laid(n, w \o h, <<>>, q)
           /\ Len(w \o h) + Len(<<>>) = Len(w) + Len(h)
<1> DEFINE t == w \o h
<1>1. /\ t \in Seq(S) /\ Len(t) = Len(w) + Len(h)
      /\ \A i \in 1..(Len(w) + Len(h)) : t[i] = IF i <= Len(w) THEN w[i] ELSE h[i - Len(w)]
  BY ConcatProperties
<1>2. Len(w) \in Nat /\ Len(h) \in Nat /\ Len(q) \in Nat
  BY LenProperties
<1> HIDE DEF t
<1>3. ASSUME NEW i \in 1..Len(t) PROVE t[i] = n + i
  <2>1. CASE i <= Len(w)
    BY <1>1, <1>2, <2>1 DEF Laid
  <2>2. CASE ~(i <= Len(w))
    <3>1. i - Len(w) \in 1..Len(h) /\ t[i] = h[i - Len(w)]
      BY <1>1, <1>2, <2>2, Past
    <3>2. h[i - Len(w)] = n + Len(w) + (i - Len(w))
      BY <3>1, Zenon DEF Laid
    <3> QED BY <1>2, <3>1, <3>2
  <2> QED BY <2>1, <2>2
<1>4. Laid(n, t, <<>>, q)
  BY <1>1, <1>2, <1>3 DEF Laid
<1> QED BY <1>1, <1>2, <1>4 DEF t

\* ... and the next number is appended to the third.
LEMMA LaidSend ==
    ASSUME NEW S, NEW n \in Nat, NEW w \in Seq(S), NEW h \in Seq(S), NEW q \in Seq(S),
           Laid(n, w, h, q), NEW m \in S, m = n + Len(w) + Len(h) + Len(q) + 1
    PROVE  Laid(n, w, h, Append(q, m)) /\ Len(Append(q, m)) = Len(q) + 1
<1> DEFINE t == Append(q, m)
<1>1. /\ t \in Seq(S) /\ Len(t) = Len(q) + 1
      /\ \A i \in 1..Len(q) : t[i] = q[i]
      /\ t[Len(q) + 1] = m
  BY AppendProperties
<1>2. Len(w) \in Nat /\ Len(h) \in Nat /\ Len(q) \in Nat
  BY LenProperties
<1> HIDE DEF t
<1>3. ASSUME NEW i \in 1..Len(t) PROVE t[i] = n + Len(w) + Len(h) + i
  <2>1. CASE i = Len(q) + 1
    BY <1>1, <1>2, <2>1
  <2>2. CASE i \in 1..Len(q)
    <3>1. t[i] = q[i] /\ q[i] = n + Len(w) + Len(h) + i
      BY <1>1, <2>2, Zenon DEF Laid
    <3> QED BY <3>1
  <2> QED BY <1>1, <1>2, <2>1, <2>2
<1>4. Laid(n, w, h, t)
  BY <1>3 DEF Laid
<1> QED BY <1>1, <1>4 DEF t

\* Put together they count up without a gap.
LEMMA LaidStream ==
    ASSUME NEW S, NEW n \in Nat, NEW w \in Seq(S), NEW h \in Seq(S), NEW q \in Seq(S),
           Laid(n, w, h, q)
    PROVE  /\ Len(w \o h \o q) = Len(w) + Len(h) + Len(q)
           /\ \A i \in 1..Len(w \o h \o q) : (w \o h \o q)[i] = n + i
<1> DEFINE t == w \o h
           u == t \o q
<1>1. /\ t \in Seq(S) /\ Len(t) = Len(w) + Len(h)
      /\ \A i \in 1..(Len(w) + Len(h)) : t[i] = IF i <= Len(w) THEN w[i] ELSE h[i - Len(w)]
  BY ConcatProperties
<1>2. Len(w) \in Nat /\ Len(h) \in Nat /\ Len(q) \in Nat
  BY LenProperties
<1> HIDE DEF t
<1>3. /\ Len(u) = Len(t) + Len(q)
      /\ \A i \in 1..(Len(t) + Len(q)) : u[i] = IF i <= Len(t) THEN t[i] ELSE q[i - Len(t)]
  BY <1>1, ConcatProperties
<1> HIDE DEF u
<1>4. \A i \in 1..Len(t) : t[i] = n + i
  BY LaidWrite DEF Laid, t
<1>5. ASSUME NEW i \in 1..Len(u) PROVE u[i] = n + i
  <2>1. CASE i <= Len(t)
    BY <1>1, <1>2, <1>3, <1>4, <2>1
  <2>2. CASE ~(i <= Len(t))
    <3>1. i - Len(t) \in 1..Len(q) /\ u[i] = q[i - Len(t)]
      BY <1>1, <1>2, <1>3, <2>2, Past
    <3>2. q[i - Len(t)] = n + Len(w) + Len(h) + (i - Len(t))
      BY <3>1, Zenon DEF Laid
    <3> QED BY <1>1, <1>2, <3>1, <3>2
  <2> QED BY <2>1, <2>2
<1>6. Len(u) = Len(w) + Len(h) + Len(q)
  BY <1>1, <1>2, <1>3
<1> QED BY <1>5, <1>6 DEF t, u

-----------------------------------------------------------------------------
(* One broadcaster: no client misses a message. *)

\* The message a writePump is writing, as a sequence.
LEMMA HeldFacts ==
    ASSUME Typed, NEW c \in Clients
    PROVE  /\ held[c] = <<>> \/ \E m \in Msgs : held[c] = <<m>>
           /\ wire[c] \in Seq(Msgs) /\ held[c] \in Seq(Msgs) /\ queue[c] \in Seq(Msgs)
           /\ Len(wire[c]) \in Nat /\ Len(held[c]) \in Nat /\ Len(queue[c]) \in Nat
           /\ since[c] \in Nat /\ sent \in Nat
<1>1. held[c] = <<>> \/ \E m \in Msgs : held[c] = <<m>>
  BY DEF Typed
<1>2. (\A m \in Msgs : <<m>> \in Seq(Msgs)) /\ <<>> \in Seq(Msgs)
  OBVIOUS
<1>3. /\ wire[c] \in Seq(Msgs) /\ queue[c] \in Seq(Msgs)
      /\ since[c] \in Nat /\ sent \in Nat
  BY DEF Typed
<1>4. held[c] \in Seq(Msgs)
  BY <1>1, <1>2, Zenon
<1> QED BY <1>1, <1>3, <1>4, LenProperties

LEMMA HeldSequences == Typed => held \in [Clients -> Seq(Msgs)]
BY HeldFacts DEF Typed

\* A step that touches nothing of a client and neither begins nor ends a
\* Broadcast keeps its stream.
LEMMA StreamKept ==
    ASSUME NEW c \in Clients, StreamOf(c),
           wire'[c] = wire[c], held'[c] = held[c], queue'[c] = queue[c],
           since'[c] = since[c], sent' = sent,
           pump'[c] # "done" => pump[c] # "done",
           c \in clients' /\ ~Dropping(c)' =>
               /\ c \in clients /\ ~Dropping(c)
               /\ Awaited(c)' <=> Awaited(c)
    PROVE  StreamOf(c)'
BY DEF StreamOf, Consecutive, Layout, Laid, Total

LEMMA StreamsStep ==
    ASSUME OneBroadcaster
    PROVE  Sound /\ Streams /\ [Next]_vars => Streams'
<1> SUFFICES ASSUME Sound, Streams, [Next]_vars, NEW d \in Clients
             PROVE  StreamOf(d)'
  BY DEF Streams
<1>sound. Typed /\ Registration /\ Broadcasting /\ StreamOf(d)
  BY DEF Sound, Streams
<1>types. /\ queue \in [Clients -> Seq(Msgs)] /\ wire \in [Clients -> Seq(Msgs)]
          /\ held \in [Clients -> {<<>>} \cup {<<m>> : m \in Msgs}]
          /\ since \in [Clients -> 0..MaxMsgs]
          /\ pump \in [Clients -> {"none", "select", "write", "bye", "done"}]
          /\ bcast \in [Broadcasters -> Broadcasts]
  BY <1>sound DEF Typed
<1>next. /\ queue' \in [Clients -> Seq(Msgs)] /\ wire' \in [Clients -> Seq(Msgs)]
         /\ held' \in [Clients -> Seq(Msgs)]
         /\ since' \in [Clients -> Nat] /\ sent' \in Nat
  <2>1. Typed'
    BY <1>sound, TypedStep
  <2>2. Typed' => (held \in [Clients -> Seq(Msgs)])'
    BY HeldSequences, PTL
  <2> QED BY <2>1, <2>2 DEF Typed
<1> USE DEF Broadcasts
<1>only. \A b, e \in Broadcasters : e = b
  BY DEF OneBroadcaster
<1>seqs. wire[d] \in Seq(Msgs) /\ held[d] \in Seq(Msgs) /\ queue[d] \in Seq(Msgs)
  BY <1>sound, HeldFacts
<1>facts. /\ queue \in [Clients -> Seq(Msgs)] /\ wire \in [Clients -> Seq(Msgs)]
          /\ held \in [Clients -> Seq(Msgs)]
          /\ since \in [Clients -> Nat] /\ sent \in Nat
  BY <1>sound, HeldSequences DEF Typed
<1>1. ASSUME NEW b \in Broadcasters, RLock(b) PROVE StreamOf(d)'
  <2>1. /\ UNCHANGED <<clients, wire, held, queue, since, pump>> /\ sent' = sent + 1
        /\ bcast[b].at = "idle"
    BY <1>1 DEF RLock
  <2>2. bcast'[b].todo = clients
    BY <1>types, <1>sound, <1>1 DEF RLock
  <2>3. ~Dropping(d) /\ ~Awaited(d) /\ (d \in clients => Awaited(d)')
    BY <1>sound, <1>only, <2>1, <2>2 DEF Broadcasting, Dropping, Awaited
  <2>4. /\ Consecutive(d, wire[d])' <=> Consecutive(d, wire[d])
        /\ Layout(d)' <=> Layout(d)
        /\ Total(d)' = Total(d)
    BY <2>1 DEF Consecutive, Layout, Total
  <2>5. Total(d) \in Nat
    BY <1>facts DEF Total
  <2> QED BY <1>sound, <1>facts, <2>1, <2>3, <2>4, <2>5 DEF StreamOf
<1>2. ASSUME NEW b \in Broadcasters, NEW c \in Clients, Offer(b, c) PROVE StreamOf(d)'
  <2>1. /\ bcast[b].at = "range" /\ c \in bcast[b].todo /\ c \in clients
        /\ UNCHANGED <<clients, closed, pending, connVars, sent, since>>
    BY <1>2, OfferCases
  <2>2. bcast[b].slow = None /\ bcast[b].msg = sent
    BY <1>sound, <2>1 DEF Broadcasting
  <2>3. ~Dropping(d) /\ (Awaited(d) <=> d \in bcast[b].todo)
    BY <1>only, <2>2 DEF Dropping, Awaited
  <2>4. CASE UNCHANGED <<queue, bcast>>
    BY <1>sound, <2>1, <2>4, StreamKept DEF Dropping, Awaited
  <2>5. CASE /\ queue' = [queue EXCEPT ![c] = Append(@, sent)]
             /\ bcast' = [bcast EXCEPT ![b].todo = @ \ {c}]
    <3>1. bcast'[b].todo = bcast[b].todo \ {c} /\ bcast'[b].slow = None
      BY <1>types, <2>2, <2>5
    <3>2. ~Dropping(d)' /\ (Awaited(d)' <=> d \in bcast[b].todo /\ d # c)
      BY <1>only, <3>1 DEF Dropping, Awaited
    <3>3. CASE d = c
      <4>1. queue'[d] = Append(queue[d], sent) /\ ~Awaited(d)' /\ Awaited(d)
        BY <1>types, <2>1, <2>3, <2>5, <3>2, <3>3
      <4>2. CASE pump[d] = "done"
        BY <1>sound, <2>1, <4>2 DEF StreamOf, Consecutive
      <4>3. CASE pump[d] # "done"
        <5>1. Laid(since[d], wire[d], held[d], queue[d]) /\ since[d] + Total(d) = sent - 1
          BY <1>sound, <2>1, <2>3, <3>3, <4>1, <4>3 DEF StreamOf, Layout
        <5>2. sent = since[d] + Len(wire[d]) + Len(held[d]) + Len(queue[d]) + 1
          <6>1. Total(d) = Len(wire[d]) + Len(held[d]) + Len(queue[d])
            BY DEF Total
          <6>2. Total(d) \in Nat
            BY <1>facts DEF Total
          <6>3. sent = since[d] + Total(d) + 1
            BY <1>facts, <5>1, <6>2
          <6> QED BY <1>facts, <6>1, <6>3
        <5>3. sent \in Msgs
          BY <1>sound, <2>1, <2>2 DEF Typed, AtHand
        <5>4. /\ Laid(since[d], wire[d], held[d], Append(queue[d], sent))
              /\ Len(Append(queue[d], sent)) = Len(queue[d]) + 1
          <6> QED BY <1>facts, <1>seqs, <5>1, <5>2, <5>3, LaidSend
        <5>5. Layout(d)' /\ since'[d] + Total(d)' = sent'
          BY <1>facts, <1>next, <2>1, <4>1, <5>2, <5>4 DEF Layout, Total
        <5>6. Consecutive(d, wire[d])' /\ since'[d] <= sent'
          BY <1>sound, <2>1 DEF StreamOf, Consecutive
        <5>7. since'[d] + Total(d)' <= sent'
          BY <1>next, <5>5
        <5> QED BY <4>1, <5>5, <5>6, <5>7 DEF StreamOf
      <4> QED BY <4>2, <4>3
    <3>4. CASE d # c
      <4>1. queue'[d] = queue[d]
        BY <2>5, <3>4
      <4> QED BY <1>sound, <2>1, <2>3, <3>2, <3>4, <4>1, StreamKept
    <3> QED BY <3>3, <3>4
  <2>6. CASE /\ bcast' = [bcast EXCEPT ![b].at = "close", ![b].slow = c, ![b].todo = @ \ {c}]
             /\ UNCHANGED queue
    <3>1. bcast'[b].todo = bcast[b].todo \ {c} /\ bcast'[b].slow = c
      BY <1>types, <2>6
    <3>2. (Dropping(d)' <=> d = c) /\ (Awaited(d)' <=> d \in bcast[b].todo /\ d # c)
      BY <1>only, <3>1 DEF Dropping, Awaited
    <3> QED BY <1>sound, <2>1, <2>3, <2>6, <3>2, StreamKept
  <2> QED BY <1>2, <2>2, <2>4, <2>5, <2>6, OfferCases
<1>3. ASSUME NEW b \in Broadcasters, CloseSlow(b) PROVE StreamOf(d)'
  <2>1. /\ UNCHANGED <<clients, queue, wire, held, pump, sent, since>>
        /\ bcast' = [bcast EXCEPT ![b].at = "delete"]
    BY <1>sound, <1>3, CloseCases
  <2>2. (Dropping(d)' <=> Dropping(d)) /\ (Awaited(d)' <=> Awaited(d))
    BY <2>1 DEF Dropping, Awaited
  <2> QED BY <1>sound, <2>1, <2>2, StreamKept
<1>4. ASSUME NEW b \in Broadcasters, DeleteSlow(b) PROVE StreamOf(d)'
  <2>1. /\ UNCHANGED <<queue, wire, held, pump, sent, since>>
        /\ clients' = clients \ {bcast[b].slow}
        /\ bcast' = [bcast EXCEPT ![b].at = "range", ![b].slow = None]
    BY <1>4, DeleteCases
  <2>2. Dropping(d) <=> d = bcast[b].slow
    BY <1>only DEF Dropping
  <2>3. Awaited(d)' <=> Awaited(d)
    BY <1>types, <2>1 DEF Awaited
  <2> QED BY <1>sound, <2>1, <2>2, <2>3, StreamKept
<1>5. ASSUME NEW b \in Broadcasters, RUnlock(b) PROVE StreamOf(d)'
  <2>1. /\ UNCHANGED <<clients, queue, wire, held, pump, sent, since>>
        /\ bcast[b].at = "range" /\ bcast[b].todo \cap clients = {}
    BY <1>5 DEF RUnlock, Ahead
  <2>2. bcast'[b].todo = {}
    BY <1>types, <1>5 DEF RUnlock
  <2>3. ~Dropping(d) /\ ~Awaited(d)' /\ (d \in clients => ~Awaited(d))
    BY <1>sound, <1>only, <2>1, <2>2 DEF Broadcasting, Dropping, Awaited
  <2> QED BY <1>sound, <2>1, <2>3, StreamKept
<1>6. ASSUME NEW c \in Clients, Add(c) PROVE StreamOf(d)'
  <2>1. /\ handler[c] = "add" /\ Readers = {} /\ clients' = clients \cup {c}
        /\ since' = [since EXCEPT ![c] = sent]
        /\ UNCHANGED <<queue, wire, held, pump, bcast, sent>>
    BY <1>6 DEF Add
  <2>2. ~Awaited(d) /\ ~Awaited(d)' /\ ~Dropping(d)
    BY <1>sound, <2>1 DEF Broadcasting, Awaited, Dropping
  <2>3. CASE d = c
    <3>1. wire[d] = <<>> /\ held[d] = <<>> /\ queue[d] = <<>> /\ since'[d] = sent
      BY <1>types, <1>sound, <2>1, <2>3 DEF Registration
    <3>2. Len(wire[d]) = 0 /\ Len(held[d]) = 0 /\ Len(queue[d]) = 0
      BY <3>1
    <3> QED BY <1>facts, <2>1, <2>2, <3>1, <3>2
            DEF StreamOf, Consecutive, Layout, Laid, Total
  <2>4. CASE d # c
    <3>1. since'[d] = since[d]
      BY <2>1, <2>4
    <3> QED BY <1>sound, <2>1, <2>2, <2>4, <3>1, StreamKept
  <2> QED BY <2>3, <2>4
<1>7. ASSUME NEW c \in Clients,
             Upgrade(c) \/ Lock(c) \/ ReadFails(c) \/ ReadPumpClose(c) \/ HangUp(c)
      PROVE  StreamOf(d)'
  <2>1. UNCHANGED <<clients, queue, wire, held, pump, bcast, sent, since>>
    BY <1>7 DEF Upgrade, Lock, ReadFails, ReadPumpClose, HangUp
  <2> QED BY <1>sound, <2>1, StreamKept DEF Dropping, Awaited
<1>8. ASSUME NEW c \in Clients, Count(c) PROVE StreamOf(d)'
  <2>1. /\ UNCHANGED <<clients, queue, wire, held, bcast, sent, since>>
        /\ handler[c] = "count" /\ pump' = [pump EXCEPT ![c] = "select"]
    BY <1>8 DEF Count
  <2>2. pump'[d] # "done" => pump[d] # "done"
    BY <1>sound, <2>1 DEF Registration
  <2> QED BY <1>sound, <2>1, <2>2, StreamKept DEF Dropping, Awaited
<1>9. ASSUME NEW c \in Clients, Remove(c) PROVE StreamOf(d)'
  <2>1. /\ UNCHANGED <<queue, wire, held, pump, bcast, sent, since>>
        /\ clients' \subseteq clients
    BY <1>9, RemoveCases
  <2> QED BY <1>sound, <2>1, StreamKept DEF Dropping, Awaited
<1>10. ASSUME NEW c \in Clients, Receive(c) PROVE StreamOf(d)'
  <2>1. /\ UNCHANGED <<clients, wire, bcast, sent, since>> /\ pump[c] = "select"
    BY <1>10 DEF Receive
  <2>2. CASE d = c /\ queue[c] # <<>> /\ held' = [held EXCEPT ![c] = <<Head(queue[c])>>]
             /\ queue' = [queue EXCEPT ![c] = Tail(@)]
    <3>1. held'[d] = <<Head(queue[d])>> /\ queue'[d] = Tail(queue[d])
      BY <1>types, <2>2
    <3>2. held[d] = <<>>
      BY <1>sound, <2>1, <2>2 DEF Registration
    <3>3. Laid(since[d], wire[d], <<>>, queue[d])
      BY <1>sound, <2>1, <2>2, <3>2 DEF StreamOf, Layout
    <3>4. /\ Laid(since[d], wire[d], <<Head(queue[d])>>, Tail(queue[d]))
          /\ Len(<<>>) + Len(queue[d]) = Len(<<Head(queue[d])>>) + Len(Tail(queue[d]))
      <4> QED BY <1>facts, <1>seqs, <2>2, <3>3, LaidReceive
    <3>5. Len(<<Head(queue[d])>>) \in Nat /\ Len(Tail(queue[d])) \in Nat
      <4> QED BY <1>facts, <1>seqs, <2>2, HeadTailProperties, LenProperties
    <3>6. Layout(d)' /\ Total(d)' = Total(d)
      <4>1. Layout(d)'
        BY <2>1, <3>1, <3>4 DEF Layout
      <4>2. Total(d)' = Len(wire[d]) + Len(<<Head(queue[d])>>) + Len(Tail(queue[d]))
        BY <2>1, <3>1 DEF Total
      <4>3. Total(d) = Len(wire[d]) + Len(<<>>) + Len(queue[d])
        BY <3>2 DEF Total
      <4>4. Len(<<>>) \in Nat /\ Len(wire[d]) \in Nat /\ Len(queue[d]) \in Nat
        BY <1>facts
      <4>5. PICK k, i, j, m, n \in Nat :
                /\ k = Len(wire[d]) /\ i = Len(<<>>) /\ j = Len(queue[d])
                /\ m = Len(<<Head(queue[d])>>) /\ n = Len(Tail(queue[d]))
        BY <3>5, <4>4, Zenon
      <4>6. i + j = m + n /\ Total(d)' = k + m + n /\ Total(d) = k + i + j
        BY <3>4, <4>2, <4>3, <4>5, Zenon
      <4>7. Total(d)' = Total(d)
        BY <4>6
      <4> QED BY <4>1, <4>7
    <3> QED BY <1>sound, <2>1, <2>2, <3>6 DEF StreamOf, Consecutive, Dropping, Awaited
  <2>3. CASE UNCHANGED <<queue, held>> \/ /\ d # c
                                          /\ held' = [held EXCEPT ![c] = <<Head(queue[c])>>]
                                          /\ queue' = [queue EXCEPT ![c] = Tail(@)]
    <3>1. /\ held'[d] = held[d] /\ queue'[d] = queue[d]
          /\ pump'[d] # "done" => pump[d] # "done"
      BY <1>types, <1>10, <2>1, <2>3 DEF Receive
    <3> QED BY <1>sound, <2>1, <3>1, StreamKept DEF Dropping, Awaited
  <2> QED BY <1>10, <2>2, <2>3 DEF Receive
<1>11. ASSUME NEW c \in Clients, WriteOK(c) PROVE StreamOf(d)'
  <2>1. /\ UNCHANGED <<clients, queue, bcast, sent, since>> /\ pump[c] = "write"
        /\ wire' = [wire EXCEPT ![c] = @ \o held[c]]
        /\ held' = [held EXCEPT ![c] = <<>>]
        /\ pump' = [pump EXCEPT ![c] = "select"]
    BY <1>11 DEF WriteOK
  <2>2. CASE d = c
    <3>1. wire'[d] = wire[d] \o held[d] /\ held'[d] = <<>>
      BY <1>types, <2>1, <2>2
    <3>2. Laid(since[d], wire[d], held[d], queue[d])
      BY <1>sound, <2>1, <2>2 DEF StreamOf, Layout
    <3>3. /\ Laid(since[d], wire[d] \o held[d], <<>>, queue[d])
          /\ Len(wire[d] \o held[d]) + Len(<<>>) = Len(wire[d]) + Len(held[d])
      BY <1>facts, <1>seqs, <3>2, LaidWrite
    <3>4. Layout(d)' /\ Total(d)' = Total(d)
      BY <1>facts, <2>1, <3>1, <3>3 DEF Layout, Total
    <3>5. Consecutive(d, wire[d])'
      BY <3>4 DEF Layout, Laid, Consecutive
    <3> QED BY <1>sound, <2>1, <2>2, <3>4, <3>5 DEF StreamOf, Dropping, Awaited
  <2>3. CASE d # c
    <3>1. wire'[d] = wire[d] /\ held'[d] = held[d] /\ pump'[d] = pump[d]
      BY <2>1, <2>3
    <3> QED BY <1>sound, <2>1, <3>1, StreamKept DEF Dropping, Awaited
  <2> QED BY <2>2, <2>3
<1>12. ASSUME NEW c \in Clients, WriteFails(c) \/ Bye(c) PROVE StreamOf(d)'
  <2>1. /\ UNCHANGED <<clients, wire, queue, bcast, sent, since>>
        /\ pump' = [pump EXCEPT ![c] = "done"]
        /\ d # c => held'[d] = held[d]
    BY <1>types, <1>12 DEF WriteFails, Bye
  <2>2. CASE d = c
    <3>1. pump'[d] = "done"
      BY <1>types, <2>1, <2>2
    <3> QED BY <1>sound, <2>1, <3>1 DEF StreamOf, Consecutive
  <2>3. CASE d # c
    <3>1. pump'[d] = pump[d]
      BY <2>1, <2>3
    <3> QED BY <1>sound, <2>1, <2>3, <3>1, StreamKept DEF Dropping, Awaited
  <2> QED BY <2>2, <2>3
<1>13. CASE Quiet \/ UNCHANGED vars
  <2>1. UNCHANGED <<clients, queue, wire, held, pump, bcast, sent, since>>
    BY <1>13 DEF Quiet
  <2> QED BY <1>sound, <2>1, StreamKept DEF Dropping, Awaited
<1> QED BY <1>1, <1>2, <1>3, <1>4, <1>5, <1>6, <1>7, <1>8, <1>9, <1>10, <1>11, <1>12,
           <1>13 DEF Next, BroadcastStep, HandlerStep, PumpStep

LEMMA StreamsInit == Init => Streams
<1> SUFFICES ASSUME Init, NEW c \in Clients PROVE StreamOf(c)
  BY DEF Streams
<1>1. /\ clients = {}
      /\ wire[c] = <<>> /\ held[c] = <<>> /\ queue[c] = <<>>
      /\ since[c] = 0 /\ sent = 0
  BY Zenon DEF Init
<1>2. Len(<<>>) = 0
  OBVIOUS
<1> QED BY <1>1, <1>2 DEF StreamOf, Consecutive, Layout, Laid, Total

\* What the stream of a client, put together, contains.
LEMMA StreamFacts ==
    ASSUME Typed, NEW c \in Clients, Layout(c)
    PROVE  Consecutive(c, Stream(c)) /\ Len(Stream(c)) = Total(c)
<1>1. /\ wire[c] \in Seq(Msgs) /\ held[c] \in Seq(Msgs) /\ queue[c] \in Seq(Msgs)
      /\ since[c] \in Nat
  BY HeldFacts
<1>2. Laid(since[c], wire[c], held[c], queue[c])
  BY DEF Layout
<1>3. /\ Len(wire[c] \o held[c] \o queue[c]) = Len(wire[c]) + Len(held[c]) + Len(queue[c])
      /\ \A i \in 1..Len(wire[c] \o held[c] \o queue[c]) :
            (wire[c] \o held[c] \o queue[c])[i] = since[c] + i
  <2> DEFINE w == wire[c]
             h == held[c]
             q == queue[c]
             n == since[c]
  <2>1. w \in Seq(Msgs) /\ h \in Seq(Msgs) /\ q \in Seq(Msgs) /\ n \in Nat /\ Laid(n, w, h, q)
    BY <1>1, <1>2
  <2> HIDE DEF w, h, q, n
  <2>2. /\ Len(w \o h \o q) = Len(w) + Len(h) + Len(q)
        /\ \A i \in 1..Len(w \o h \o q) : (w \o h \o q)[i] = n + i
    BY <2>1, LaidStream
  <2> QED BY <2>2, Zenon DEF w, h, q, n
<1> QED BY <1>3, Zenon DEF Stream, Total, Consecutive

\* With one broadcaster a connection carries every broadcast made since it
\* registered, in order and without a gap.
THEOREM GapFreeAlone ==
    ASSUME OneBroadcaster
    PROVE  Spec => []GapFree
<1>1. Sound /\ Streams => GapFree
  <2> SUFFICES ASSUME Sound, Streams, NEW c \in Clients
               PROVE  /\ Consecutive(c, wire[c])
                      /\ pump[c] # "done" =>
                            /\ Consecutive(c, Stream(c))
                            /\ c \in clients /\ ~Dropping(c)
                                  /\ (\A b \in Broadcasters : c \notin bcast[b].todo)
                               => since[c] + Len(Stream(c)) = sent
    BY DEF GapFree
  <2>1. Typed /\ StreamOf(c)
    BY DEF Sound, Streams
  <2> QED BY <2>1, StreamFacts, Zenon DEF StreamOf, Awaited
<1> QED BY <1>1, SoundInit, SoundStep, StreamsInit, StreamsStep, PTL DEF Spec

-----------------------------------------------------------------------------
(* One broadcaster: the safety part of the refinement of Feed. *)

LEMMA ConnectionsInit == Init => Connections
<1> SUFFICES ASSUME Init PROVE Connections
  OBVIOUS
<1>1. handler = [c \in Clients |-> "none"]
  BY Zenon DEF Init
<1> QED BY <1>1 DEF Connections

LEMMA ConnectionsStep == Sound /\ Connections /\ [Next]_vars => Connections'
<1> SUFFICES ASSUME Typed, Registration, Connections, [Next]_vars PROVE Connections'
  BY DEF Sound
<1> USE DEF Typed, Registration, Connections
<1>1. ASSUME NEW b \in Broadcasters, RLock(b) \/ BroadcastStep(b) PROVE Connections'
  <2>1. UNCHANGED connVars
    BY <1>1, Zenon DEF RLock, BroadcastStep, Offer, CloseSlow, DeleteSlow, RUnlock
  <2> QED BY <2>1
<1>2. ASSUME NEW c \in Clients, Upgrade(c) PROVE Connections'
  BY <1>2 DEF Upgrade
<1>3. ASSUME NEW c \in Clients, Lock(c) \/ HangUp(c) PROVE Connections'
  BY <1>3 DEF Lock, HangUp
<1>4. ASSUME NEW c \in Clients, Add(c) \/ Count(c) PROVE Connections'
  BY <1>4 DEF Add, Count
<1>5. ASSUME NEW c \in Clients, ReadFails(c) \/ ReadPumpClose(c) PROVE Connections'
  BY <1>5 DEF ReadFails, ReadPumpClose
<1>6. ASSUME NEW c \in Clients, Remove(c) PROVE Connections'
  BY <1>6, RemoveCases
<1>7. ASSUME NEW c \in Clients, Receive(c) \/ WriteOK(c) PROVE Connections'
  BY <1>7 DEF Receive, WriteOK
<1>8. ASSUME NEW c \in Clients, WriteFails(c) \/ Bye(c) PROVE Connections'
  BY <1>8 DEF WriteFails, Bye, Close
<1>9. CASE Quiet \/ UNCHANGED vars
  BY <1>9 DEF Quiet
<1> QED BY <1>1, <1>2, <1>3, <1>4, <1>5, <1>6, <1>7, <1>8, <1>9
        DEF Next, HandlerStep, PumpStep

\* The last message owed to a client that left.
Bound(c) == IF Phase(c) = "left" THEN since[c] + Len(Stream(c)) ELSE 0

Bounds == \A c \in Clients :
    Phase(c) = "left" => pump[c] # "done" /\ Layout(c) /\ Bound(c) = since[c] + Total(c)

LEMMA BoundFacts == Typed /\ Streams => Bounds
<1> SUFFICES ASSUME Typed, Streams, NEW c \in Clients, Phase(c) = "left"
             PROVE  pump[c] # "done" /\ Layout(c) /\ Bound(c) = since[c] + Total(c)
  BY DEF Bounds
<1>1. pump[c] # "done"
  BY DEF Phase
<1>2. Layout(c)
  BY <1>1 DEF Streams, StreamOf
<1>3. Len(Stream(c)) = Total(c)
  BY <1>2, StreamFacts
<1> QED BY <1>1, <1>2, <1>3, Zenon DEF Bound

FeedPhase == [c \in Clients |-> Phase(c)]
FeedBound == [c \in Clients |-> Bound(c)]

\* A client that a step does not touch stays as it is.
LEMMA Untouched ==
    ASSUME NEW d \in Clients,
           handler'[d] = handler[d], pump'[d] = pump[d], since'[d] = since[d],
           wire'[d] = wire[d], held'[d] = held[d], queue'[d] = queue[d],
           (d \in clients /\ ~Dropping(d))' <=> (d \in clients /\ ~Dropping(d))
    PROVE  Phase(d)' = Phase(d) /\ Bound(d)' = Bound(d)
<1>1. Phase(d)' = Phase(d)
  BY DEF Phase
<1> QED BY <1>1 DEF Bound, Stream

LEMMA MovesOne ==
    ASSUME NEW c \in Clients,
           \A d \in Clients : d # c => Phase(d)' = Phase(d) /\ Bound(d)' = Bound(d)
    PROVE  /\ FeedPhase' = [FeedPhase EXCEPT ![c] = Phase(c)']
           /\ FeedBound' = [FeedBound EXCEPT ![c] = Bound(c)']
BY DEF FeedPhase, FeedBound

LEMMA MovesNone ==
    ASSUME \A d \in Clients : Phase(d)' = Phase(d) /\ Bound(d)' = Bound(d)
    PROVE  FeedPhase' = FeedPhase /\ FeedBound' = FeedBound
BY DEF FeedPhase, FeedBound

\* The steps of Feed in the terms of the hub.
LEMMA Stutters ==
    ASSUME UNCHANGED <<sent, since, wire, gone>>,
           FeedPhase' = FeedPhase, FeedBound' = FeedBound
    PROVE  UNCHANGED FeedOf!fvars
BY DEF FeedOf!fvars, FeedPhase, FeedBound, Bound

LEMMA Publishes ==
    ASSUME sent < MaxMsgs, sent' = sent + 1, UNCHANGED <<since, wire, gone>>,
           FeedPhase' = FeedPhase, FeedBound' = FeedBound
    PROVE  FeedOf!Next
BY DEF FeedOf!Next, FeedOf!Publish, FeedPhase, FeedBound, Bound

LEMMA HangsUp ==
    ASSUME NEW c \in Clients, gone' = gone \cup {c}, UNCHANGED <<sent, since, wire>>,
           FeedPhase' = FeedPhase, FeedBound' = FeedBound
    PROVE  FeedOf!Next
<1>1. FeedOf!HangUp(c)
  BY DEF FeedOf!HangUp, FeedPhase, FeedBound, Bound
<1> QED BY <1>1, Zenon DEF FeedOf!Next

LEMMA Joins ==
    ASSUME NEW c \in Clients, Phase(c) = "out",
           FeedPhase' = [FeedPhase EXCEPT ![c] = "in"], FeedBound' = FeedBound,
           since' = [since EXCEPT ![c] = sent], UNCHANGED <<sent, wire, gone>>
    PROVE  FeedOf!Next
<1>1. FeedOf!Join(c)
  BY DEF FeedOf!Join, FeedOf!Move, FeedPhase, FeedBound, Bound
<1> QED BY <1>1, Zenon DEF FeedOf!Next

LEMMA Delivers ==
    ASSUME NEW c \in Clients,
           \/ Phase(c) = "in" /\ since[c] + Len(wire[c]) < sent
           \/ Phase(c) = "left" /\ since[c] + Len(wire[c]) < Bound(c),
           wire' = [wire EXCEPT ![c] = Append(@, since[c] + Len(wire[c]) + 1)],
           FeedPhase' = FeedPhase, FeedBound' = FeedBound, UNCHANGED <<sent, since, gone>>
    PROVE  FeedOf!Next
<1>1. FeedOf!Deliver(c)
  BY DEF FeedOf!Deliver, FeedOf!Position, FeedPhase, FeedBound, Bound
<1> QED BY <1>1, Zenon DEF FeedOf!Next

LEMMA Leaves ==
    ASSUME NEW c \in Clients, Phase(c) = "in",
           FeedPhase' = [FeedPhase EXCEPT ![c] = "left"],
           FeedBound' = [FeedBound EXCEPT ![c] = Bound(c)'],
           \/ sent - (since[c] + Len(wire[c])) > Cap /\ Bound(c)' = sent - 1
           \/ c \in gone /\ Bound(c)' = sent,
           UNCHANGED <<sent, since, wire, gone>>
    PROVE  FeedOf!Next
<1>1. FeedOf!Leave(c)
  BY DEF FeedOf!Leave, FeedOf!Move, FeedOf!Position, FeedPhase, FeedBound, Bound
<1> QED BY <1>1, Zenon DEF FeedOf!Next

LEMMA Ends ==
    ASSUME NEW c \in Clients,
           FeedPhase' = [FeedPhase EXCEPT ![c] = "ended"],
           FeedBound' = [FeedBound EXCEPT ![c] = 0],
           \/ Phase(c) = "left" /\ since[c] + Len(wire[c]) = Bound(c)
           \/ Phase(c) \in {"in", "left"} /\ c \in gone,
           UNCHANGED <<sent, since, wire, gone>>
    PROVE  FeedOf!Next
<1>1. FeedOf!End(c) \/ FeedOf!Break(c)
  BY DEF FeedOf!End, FeedOf!Break, FeedOf!Move, FeedOf!Position, FeedPhase, FeedBound, Bound
<1> QED BY <1>1, Zenon DEF FeedOf!Next

\* A client whose channel is full lacks more messages than it has room for.
LEMMA Backlog ==
    ASSUME Typed, NEW c \in Clients, Len(queue[c]) >= Cap,
           since[c] + Total(c) = sent - 1
    PROVE  sent - (since[c] + Len(wire[c])) > Cap
<1>1. PICK w, h, q, n, m \in Nat : /\ w = Len(wire[c]) /\ h = Len(held[c]) /\ q = Len(queue[c])
                                   /\ n = since[c] /\ m = sent
  BY HeldFacts
<1>2. n + (w + h + q) = m - 1 /\ q >= Cap
  BY <1>1 DEF Total
<1>3. m - (n + w) > Cap
  BY <1>2
<1> QED BY <1>1, <1>3

\* The steps of a Broadcast: it begins, and it drops a client that is behind.
LEMMA BroadcastFeeds ==
    ASSUME OneBroadcaster, Sound, Streams, Streams', Bounds, Bounds',
           NEW b \in Broadcasters, RLock(b) \/ BroadcastStep(b)
    PROVE  FeedOf!Next \/ UNCHANGED FeedOf!fvars
<1>sound. /\ Typed /\ Registration /\ Broadcasting
          /\ \A d \in Clients : StreamOf(d) /\ StreamOf(d)'
  BY DEF Sound, Streams
<1>types. bcast \in [Broadcasters -> Broadcasts] /\ queue \in [Clients -> Seq(Msgs)]
  BY <1>sound DEF Typed
<1>only. \A a, e \in Broadcasters : a = e
  BY DEF OneBroadcaster
<1> USE DEF Broadcasts
<1>1. CASE RLock(b)
  <2>1. /\ sent < MaxMsgs /\ sent' = sent + 1 /\ bcast[b].at = "idle"
        /\ UNCHANGED <<hubVars, connVars, since>>
    BY <1>1, Zenon DEF RLock
  <2>2. bcast'[b].slow = None
    BY <1>types, <1>1 DEF RLock
  <2>3. bcast[b].slow = None
    BY <1>sound, <2>1 DEF Broadcasting
  <2>4. \A d \in Clients : ~Dropping(d) /\ ~Dropping(d)'
    BY <1>only, <2>2, <2>3 DEF Dropping
  <2>5. \A d \in Clients : Phase(d)' = Phase(d) /\ Bound(d)' = Bound(d)
    BY <2>1, <2>4, Untouched
  <2> QED BY <2>1, <2>5, MovesNone, Publishes
<1>2. ASSUME NEW c \in Clients, Offer(b, c) PROVE FeedOf!Next \/ UNCHANGED FeedOf!fvars
  <2>1. /\ bcast[b].at = "range" /\ c \in bcast[b].todo /\ c \in clients
        /\ UNCHANGED <<clients, closed, pending, connVars, sent, since>>
    BY <1>2, OfferCases
  <2>2. bcast[b].slow = None /\ handler[c] \notin {"none", "add"}
    BY <1>sound, <2>1 DEF Broadcasting
  <2>3. \A d \in Clients : ~Dropping(d)
    BY <1>only, <2>2 DEF Dropping
  <2>4. Phase(c) = IF pump[c] = "done" THEN "ended" ELSE "in"
    BY <2>1, <2>2, <2>3 DEF Phase
  <2>5. CASE /\ \A d \in Clients : d # c => queue'[d] = queue[d]
             /\ \A d \in Clients : ~Dropping(d)'
    <3>1. \A d \in Clients : d # c => Phase(d)' = Phase(d) /\ Bound(d)' = Bound(d)
      BY <2>1, <2>3, <2>5, Untouched
    <3>2. Phase(c)' = Phase(c)
      BY <2>1, <2>3, <2>5 DEF Phase
    <3>3. Bound(c) = 0 /\ Bound(c)' = 0
      BY <2>4, <3>2 DEF Bound
    <3> QED BY <2>1, <3>1, <3>2, <3>3, MovesNone, Stutters
  <2>6. CASE /\ bcast' = [bcast EXCEPT ![b].at = "close", ![b].slow = c, ![b].todo = @ \ {c}]
             /\ UNCHANGED queue /\ Full(c)
    <3>1. bcast'[b].slow = c
      BY <1>types, <2>6
    <3>2. \A d \in Clients : Dropping(d)' <=> d = c
      BY <1>only, <3>1 DEF Dropping
    <3>3. \A d \in Clients : d # c => Phase(d)' = Phase(d) /\ Bound(d)' = Bound(d)
      BY <2>1, <2>3, <2>6, <3>2, Untouched
    <3>4. Phase(c)' = IF pump[c] = "done" THEN "ended" ELSE "left"
      BY <2>1, <2>2, <3>2 DEF Phase
    <3>5. CASE pump[c] = "done"
      <4>1. Phase(c)' = Phase(c)
        BY <2>4, <3>4, <3>5
      <4>2. Bound(c) = 0 /\ Bound(c)' = 0
        BY <2>4, <3>4, <3>5 DEF Bound
      <4> QED BY <2>1, <3>3, <4>1, <4>2, MovesNone, Stutters
    <3>6. CASE pump[c] # "done"
      <4>1. Phase(c) = "in" /\ Phase(c)' = "left"
        BY <2>4, <3>4, <3>6
      <4>2. since[c] + Total(c) = sent - 1
        BY <1>sound, <2>1, <2>3, <3>6 DEF StreamOf, Awaited
      <4>3. Bound(c)' = since[c] + Total(c)
        BY <2>1, <2>6, <4>1 DEF Bounds, Total
      <4>4. sent - (since[c] + Len(wire[c])) > Cap
        BY <1>sound, <2>6, <4>2, Backlog DEF Full
      <4>5. Bound(c)' = sent - 1
        BY <4>2, <4>3
      <4> QED BY <2>1, <3>3, <4>1, <4>4, <4>5, MovesOne, Leaves
    <3> QED BY <3>5, <3>6
  <2>7. CASE UNCHANGED <<queue, bcast>>
    BY <2>3, <2>5, <2>7 DEF Dropping
  <2>8. CASE /\ queue' = [queue EXCEPT ![c] = Append(@, bcast[b].msg)]
             /\ bcast' = [bcast EXCEPT ![b].todo = @ \ {c}]
    <3>1. bcast'[b].slow = None
      BY <1>types, <2>2, <2>8
    <3>2. \A d \in Clients : ~Dropping(d)'
      BY <1>only, <3>1 DEF Dropping
    <3>3. \A d \in Clients : d # c => queue'[d] = queue[d]
      BY <1>types, <2>8
    <3> QED BY <2>5, <3>2, <3>3
  <2> QED BY <1>2, <2>6, <2>7, <2>8, OfferCases
<1>3. ASSUME CloseSlow(b) \/ DeleteSlow(b) \/ RUnlock(b)
      PROVE  FeedOf!Next \/ UNCHANGED FeedOf!fvars
  <2>1. UNCHANGED <<queue, connVars, sent, since>>
    BY <1>3, Zenon DEF CloseSlow, DeleteSlow, RUnlock
  <2>2. ASSUME NEW d \in Clients
        PROVE  (d \in clients /\ ~Dropping(d))' <=> (d \in clients /\ ~Dropping(d))
    <3>1. CASE CloseSlow(b)
      <4>1. clients' = clients /\ bcast' = [bcast EXCEPT ![b].at = "delete"]
        BY <1>sound, <3>1, CloseCases
      <4> QED BY <1>types, <4>1 DEF Dropping
    <3>2. CASE DeleteSlow(b)
      <4>1. /\ clients' = clients \ {bcast[b].slow}
            /\ bcast' = [bcast EXCEPT ![b].at = "range", ![b].slow = None]
        BY <3>2, DeleteCases
      <4>2. bcast'[b].slow = None
        BY <1>types, <4>1
      <4> QED BY <1>only, <4>1, <4>2 DEF Dropping
    <3>3. CASE RUnlock(b)
      <4>1. clients' = clients /\ bcast[b].at = "range" /\ bcast' = [bcast EXCEPT ![b] = Idle]
        BY <3>3, Zenon DEF RUnlock
      <4>2. bcast'[b].slow = None /\ bcast[b].slow = None
        BY <1>sound, <1>types, <4>1 DEF Broadcasting
      <4> QED BY <1>only, <4>1, <4>2 DEF Dropping
    <3> QED BY <1>3, <3>1, <3>2, <3>3
  <2>3. \A d \in Clients : Phase(d)' = Phase(d) /\ Bound(d)' = Bound(d)
    BY <2>1, <2>2, Untouched
  <2> QED BY <2>1, <2>3, MovesNone, Stutters
<1> QED BY <1>1, <1>2, <1>3 DEF BroadcastStep

LEMMA TotalType ==
    ASSUME Typed, NEW c \in Clients
    PROVE  /\ since[c] + Total(c) \in Nat /\ since[c] + Len(wire[c]) \in Nat
           /\ sent \in Nat
<1>1. PICK w, h, q, n \in Nat : /\ w = Len(wire[c]) /\ h = Len(held[c]) /\ q = Len(queue[c])
                                /\ n = since[c]
  BY HeldFacts
<1>2. since[c] + Total(c) = n + (w + h + q) /\ since[c] + Len(wire[c]) = n + w
  BY <1>1, Zenon DEF Total
<1> QED BY <1>2, HeldFacts

\* A message received is still counted, as held.
LEMMA ReceiveTotal ==
    ASSUME Typed, Registration, NEW c \in Clients, Receive(c)
    PROVE  Total(c)' = Total(c)
<1>1. CASE Ended(c) /\ UNCHANGED <<queue, held>>
  BY <1>1 DEF Receive, Total
<1>2. CASE /\ queue[c] # <<>>
           /\ held' = [held EXCEPT ![c] = <<Head(queue[c])>>]
           /\ queue' = [queue EXCEPT ![c] = Tail(@)]
  <2>1. held[c] = <<>>
    BY DEF Receive, Registration
  <2>2. /\ wire' = wire /\ held'[c] = <<Head(queue[c])>> /\ queue'[c] = Tail(queue[c])
    BY <1>2 DEF Receive, Typed
  <2>3. queue[c] \in Seq(Msgs)
    BY HeldFacts
  <2>4. Len(Tail(queue[c])) = Len(queue[c]) - 1
    BY <1>2, <2>3, HeadTailProperties
  <2>5. Len(<<>>) = 0 /\ Len(<<Head(queue[c])>>) = 1
    OBVIOUS
  <2>6. PICK w, q \in Nat : w = Len(wire[c]) /\ q = Len(queue[c])
    BY HeldFacts
  <2>7. Total(c)' = w + 1 + (q - 1)
    BY <2>2, <2>4, <2>5, <2>6, Zenon DEF Total
  <2>8. Total(c) = w + 0 + q
    BY <2>1, <2>5, <2>6, Zenon DEF Total
  <2> QED BY <2>7, <2>8
<1> QED BY <1>1, <1>2, Zenon DEF Receive

\* The message a writePump holds is the next one.
LEMMA WriteFacts ==
    ASSUME Typed, NEW c \in Clients, Layout(c), held[c] # <<>>
    PROVE  /\ wire[c] \o held[c] = Append(wire[c], since[c] + Len(wire[c]) + 1)
           /\ since[c] + Len(wire[c]) < since[c] + Total(c)
           /\ Len(wire[c] \o held[c]) + Len(<<>>) + Len(queue[c]) = Total(c)
<1>1. PICK m \in Msgs : held[c] = <<m>>
  BY HeldFacts
<1>2. PICK w, q, n \in Nat : w = Len(wire[c]) /\ q = Len(queue[c]) /\ n = since[c]
  BY HeldFacts
<1>3. Len(<<m>>) = 1 /\ <<m>>[1] = m /\ Len(<<>>) = 0
  OBVIOUS
<1>4. m = n + w + 1
  <2>1. 1 \in 1..1
    OBVIOUS
  <2>2. held[c][1] = n + w + 1
    BY <1>1, <1>2, <1>3, <2>1, Zenon DEF Layout, Laid
  <2> QED BY <1>1, <1>3, <2>2
<1>5. wire[c] \in Seq(Msgs)
  BY HeldFacts
<1>6. wire[c] \o <<m>> = Append(wire[c], m) /\ Len(Append(wire[c], m)) = w + 1
  BY <1>2, <1>5, AppendIsConcat, AppendProperties
<1>7. Total(c) = w + 1 + q
  BY <1>1, <1>2, <1>3, Zenon DEF Total
<1>8. Len(wire[c] \o held[c]) + Len(<<>>) + Len(queue[c]) = w + 1 + 0 + q
  BY <1>1, <1>2, <1>3, <1>6, Zenon
<1>9. w + 1 + 0 + q = w + 1 + q /\ n + w < n + (w + 1 + q)
  OBVIOUS
<1> QED BY <1>1, <1>2, <1>4, <1>6, <1>7, <1>8, <1>9, Zenon

LEMMA EmptiedTotal ==
    ASSUME Typed, NEW c \in Clients, held[c] = <<>>, queue[c] = <<>>
    PROVE  Total(c) = Len(wire[c])
<1>1. PICK w \in Nat : w = Len(wire[c])
  BY HeldFacts
<1>2. Len(<<>>) = 0 /\ w + 0 + 0 = w
  OBVIOUS
<1>3. Total(c) = w + 0 + 0
  BY <1>1, <1>2, Zenon DEF Total
<1> QED BY <1>1, <1>2, <1>3, Zenon

\* The steps of a connection: its client joins, is given a message, leaves, and
\* its connection ends.
LEMMA ConnectionFeeds ==
    ASSUME Sound, Streams, Streams', Connections, Bounds, Bounds', Typed',
           NEW c \in Clients, Upgrade(c) \/ HandlerStep(c) \/ PumpStep(c) \/ HangUp(c)
    PROVE  FeedOf!Next \/ UNCHANGED FeedOf!fvars
<1> DEFINE Goal == FeedOf!Next \/ UNCHANGED FeedOf!fvars
<1>sound. /\ Typed /\ Registration /\ Broadcasting
          /\ \A d \in Clients : StreamOf(d) /\ StreamOf(d)'
  BY DEF Sound, Streams
<1>types. /\ queue \in [Clients -> Seq(Msgs)] /\ wire \in [Clients -> Seq(Msgs)]
          /\ held \in [Clients -> {<<>>} \cup {<<m>> : m \in Msgs}]
          /\ since \in [Clients -> 0..MaxMsgs] /\ sent \in 0..MaxMsgs
          /\ handler \in [Clients -> {"none", "add", "count", "read", "remove",
                                      "close", "done"}]
          /\ pump \in [Clients -> {"none", "select", "write", "bye", "done"}]
  BY <1>sound DEF Typed
<1>1. CASE HangUp(c)
  <2>1. gone' = gone \cup {c}
        /\ UNCHANGED <<hubVars, handler, pump, held, wire, bcast, sent, since>>
    BY <1>1, Zenon DEF HangUp
  <2>2. \A d \in Clients : Phase(d)' = Phase(d) /\ Bound(d)' = Bound(d)
    BY <2>1, Untouched DEF Dropping
  <2> QED BY <2>1, <2>2, MovesNone, HangsUp
<1>2. CASE Upgrade(c) \/ Lock(c) \/ Count(c) \/ ReadFails(c) \/ ReadPumpClose(c)
  <2>1. UNCHANGED <<clients, queue, held, gone, wire, bcast, sent, since>>
    BY <1>2, Zenon DEF Upgrade, Lock, Count, ReadFails, ReadPumpClose
  <2>2. ASSUME NEW d \in Clients PROVE Phase(d)' = Phase(d)
    <3>1. handler'[d] \in {"none", "add"} <=> handler[d] \in {"none", "add"}
      BY <1>types, <1>2 DEF Upgrade, Lock, Count, ReadFails, ReadPumpClose
    <3>2. pump'[d] = "done" <=> pump[d] = "done"
      <4>1. CASE Count(c)
        BY <1>sound, <1>types, <4>1 DEF Count, Registration
      <4>2. CASE ~Count(c)
        BY <1>2, <4>2, Zenon DEF Upgrade, Lock, ReadFails, ReadPumpClose
      <4> QED BY <4>1, <4>2
    <3> QED BY <2>1, <3>1, <3>2 DEF Phase, Dropping
  <2>3. \A d \in Clients : Bound(d)' = Bound(d)
    BY <2>1, <2>2 DEF Bound, Stream
  <2> QED BY <2>1, <2>2, <2>3, MovesNone, Stutters
<1>3. CASE Add(c)
  <2>1. /\ handler[c] = "add" /\ Readers = {} /\ clients' = clients \cup {c}
        /\ since' = [since EXCEPT ![c] = sent]
        /\ handler' = [handler EXCEPT ![c] = "count"]
        /\ UNCHANGED <<queue, pump, held, gone, wire, bcast, sent>>
    BY <1>3, Zenon DEF Add
  <2>2. \A d \in Clients : ~Dropping(d) /\ ~Dropping(d)'
    BY <1>sound, <2>1 DEF Broadcasting, Dropping
  <2>3. \A d \in Clients : d # c => Phase(d)' = Phase(d) /\ Bound(d)' = Bound(d)
    BY <1>types, <2>1, <2>2, Untouched
  <2>4. Phase(c) = "out" /\ Phase(c)' = "in"
    BY <1>sound, <1>types, <2>1, <2>2 DEF Phase, Registration
  <2>5. Bound(c) = 0 /\ Bound(c)' = 0
    BY <2>4 DEF Bound
  <2>6. FeedBound' = FeedBound
    BY <2>3, <2>5 DEF FeedBound
  <2> QED BY <2>1, <2>3, <2>4, <2>6, MovesOne, Joins
<1>4. CASE Remove(c)
  <2>1. /\ handler[c] = "remove" /\ Readers = {}
        /\ handler' = [handler EXCEPT ![c] = "close"]
        /\ UNCHANGED <<queue, pump, held, gone, wire, bcast, sent, since>>
        /\ \/ c \in clients /\ clients' = clients \ {c}
           \/ c \notin clients /\ clients' = clients
    BY <1>4, RemoveCases
  <2>2. \A d \in Clients : ~Dropping(d) /\ ~Dropping(d)' /\ ~Awaited(d)
    BY <1>sound, <2>1 DEF Broadcasting, Dropping, Awaited
  <2>3. \A d \in Clients : d # c => Phase(d)' = Phase(d) /\ Bound(d)' = Bound(d)
    BY <1>types, <2>1, <2>2, Untouched
  <2>4. /\ Phase(c) = IF pump[c] = "done" THEN "ended" ELSE IF c \in clients THEN "in" ELSE "left"
        /\ Phase(c)' = IF pump[c] = "done" THEN "ended" ELSE "left"
    BY <1>types, <2>1, <2>2 DEF Phase
  <2>5. CASE pump[c] # "done" /\ c \in clients
    <3>1. Phase(c) = "in" /\ Phase(c)' = "left" /\ c \in gone
      BY <2>1, <2>4, <2>5 DEF Connections
    <3>2. Bound(c)' = since[c] + Total(c)
      BY <2>1, <3>1 DEF Bounds, Total
    <3>3. since[c] + Total(c) = sent
      BY <1>sound, <2>2, <2>5 DEF StreamOf
    <3> QED BY <2>1, <2>3, <3>1, <3>2, <3>3, MovesOne, Leaves
  <2>6. CASE pump[c] = "done" \/ c \notin clients
    <3>1. Phase(c)' = Phase(c)
      BY <2>4, <2>6
    <3>2. Bound(c)' = Bound(c)
      BY <2>1, <3>1 DEF Bound, Stream
    <3> QED BY <2>1, <2>3, <3>1, <3>2, MovesNone, Stutters
  <2> QED BY <2>5, <2>6
<1>5. CASE Receive(c)
  <2>1. /\ pump[c] = "select"
        /\ UNCHANGED <<clients, handler, gone, wire, bcast, sent, since>>
    BY <1>5, Zenon DEF Receive
  <2>2. \A d \in Clients : d # c =>
            pump'[d] = pump[d] /\ held'[d] = held[d] /\ queue'[d] = queue[d]
    BY <1>types, <1>5 DEF Receive
  <2>3. \A d \in Clients : d # c => Phase(d)' = Phase(d) /\ Bound(d)' = Bound(d)
    BY <2>1, <2>2, Untouched DEF Dropping
  <2>4. pump'[c] # "done"
    BY <1>types, <1>5 DEF Receive
  <2>5. Phase(c)' = Phase(c)
    BY <2>1, <2>4 DEF Phase, Dropping
  <2>6. Total(c)' = Total(c)
    BY <1>sound, <1>5, ReceiveTotal
  <2>7. Bound(c)' = Bound(c)
    <3>1. CASE Phase(c) = "left"
      BY <2>1, <2>5, <2>6, <3>1 DEF Bounds
    <3>2. CASE Phase(c) # "left"
      BY <2>5, <3>2 DEF Bound
    <3> QED BY <3>1, <3>2
  <2> QED BY <2>1, <2>3, <2>5, <2>7, MovesNone, Stutters
<1>6. CASE WriteOK(c)
  <2>1. /\ pump[c] = "write"
        /\ wire' = [wire EXCEPT ![c] = @ \o held[c]]
        /\ held' = [held EXCEPT ![c] = <<>>]
        /\ pump' = [pump EXCEPT ![c] = "select"]
        /\ UNCHANGED <<clients, queue, handler, gone, bcast, sent, since>>
    BY <1>6, Zenon DEF WriteOK
  <2>2. \A d \in Clients : d # c => Phase(d)' = Phase(d) /\ Bound(d)' = Bound(d)
    BY <1>types, <2>1, Untouched DEF Dropping
  <2>3. Phase(c)' = Phase(c) /\ Phase(c) \in {"in", "left"}
    BY <1>sound, <1>types, <2>1 DEF Phase, Dropping, Registration
  <2>4. /\ Layout(c) /\ since[c] + Total(c) <= sent /\ held[c] # <<>>
    BY <1>sound, <2>1 DEF StreamOf, Registration
  <2>5. /\ wire[c] \o held[c] = Append(wire[c], since[c] + Len(wire[c]) + 1)
        /\ since[c] + Len(wire[c]) < since[c] + Total(c)
        /\ Len(wire[c] \o held[c]) + Len(<<>>) + Len(queue[c]) = Total(c)
    BY <1>sound, <2>4, WriteFacts
  <2>6. Total(c)' = Total(c)
    BY <1>types, <2>1, <2>5 DEF Total
  <2>7. Bound(c)' = Bound(c)
    <3>1. CASE Phase(c) = "left"
      BY <2>1, <2>3, <2>6, <3>1 DEF Bounds
    <3>2. CASE Phase(c) # "left"
      BY <2>3, <3>2 DEF Bound
    <3> QED BY <3>1, <3>2
  <2>8. wire' = [wire EXCEPT ![c] = Append(@, since[c] + Len(wire[c]) + 1)]
    BY <2>1, <2>5
  <2>9. \/ Phase(c) = "in" /\ since[c] + Len(wire[c]) < sent
        \/ Phase(c) = "left" /\ since[c] + Len(wire[c]) < Bound(c)
    <3>1. PICK k, n, m \in Nat : k = since[c] + Total(c) /\ n = since[c] + Len(wire[c]) /\ m = sent
      BY <1>sound, TotalType
    <3>2. n < m
      BY <2>4, <2>5, <3>1
    <3> QED BY <2>3, <2>5, <3>1, <3>2, Zenon DEF Bounds
  <2> QED BY <2>1, <2>2, <2>3, <2>7, <2>8, <2>9, MovesNone, Delivers
<1>7. CASE WriteFails(c) \/ Bye(c)
  <2>1. /\ pump[c] \in {"select", "write", "bye"}
        /\ pump' = [pump EXCEPT ![c] = "done"]
        /\ \A d \in Clients : d # c => held'[d] = held[d]
        /\ UNCHANGED <<clients, closed, queue, handler, gone, wire, bcast, sent, since>>
    BY <1>types, <1>7 DEF WriteFails, Bye
  <2>2. \A d \in Clients : d # c => Phase(d)' = Phase(d) /\ Bound(d)' = Bound(d)
    BY <1>types, <2>1, Untouched DEF Dropping
  <2>3. handler[c] \notin {"none", "add"}
    BY <1>sound, <2>1 DEF Registration
  <2>4. Phase(c)' = "ended" /\ Phase(c) \in {"in", "left"}
    BY <1>types, <2>1, <2>3 DEF Phase
  <2>5. Bound(c)' = 0
    BY <2>4 DEF Bound
  <2>6. CASE WriteFails(c)
    <3>1. c \in gone
      BY <2>1, <2>3, <2>6 DEF WriteFails, Connections
    <3> QED BY <2>1, <2>2, <2>4, <2>5, <3>1, MovesOne, Ends
  <2>7. CASE Bye(c)
    <3>1. pump[c] = "bye"
      BY <2>7, Zenon DEF Bye
    <3>2. c \in closed /\ queue[c] = <<>> /\ held[c] = <<>>
      BY <1>sound, <3>1 DEF Registration
    <3>3. c \in clients => Dropping(c)
      BY <1>sound, <3>2 DEF Broadcasting, Dropping
    <3>4. Phase(c) = "left"
      BY <2>4, <3>3 DEF Phase
    <3>5. Bound(c) = since[c] + Total(c)
      BY <3>4 DEF Bounds
    <3>6. Total(c) = Len(wire[c])
      BY <1>sound, <3>2, EmptiedTotal
    <3> QED BY <2>1, <2>2, <2>4, <2>5, <3>4, <3>5, <3>6, MovesOne, Ends
  <2> QED BY <1>7, <2>6, <2>7
<1> QED BY <1>1, <1>2, <1>3, <1>4, <1>5, <1>6, <1>7 DEF HandlerStep, PumpStep

LEMMA FeedInit == Init => FeedOf!Init
<1> SUFFICES ASSUME Init PROVE FeedOf!Init
  OBVIOUS
<1>1. /\ handler = [c \in Clients |-> "none"]
      /\ wire = [c \in Clients |-> <<>>]
      /\ since = [c \in Clients |-> 0]
      /\ sent = 0 /\ gone = {}
  BY Zenon DEF Init
<1> QED BY <1>1 DEF FeedOf!Init, Phase

LEMMA FeedStep ==
    ASSUME OneBroadcaster
    PROVE  /\ Sound /\ Streams /\ Connections /\ Bounds
           /\ Typed' /\ Streams' /\ Bounds'
           /\ [Next]_vars
           => [FeedOf!Next]_FeedOf!fvars
<1> SUFFICES ASSUME Sound, Streams, Connections, Bounds, Typed', Streams', Bounds', [Next]_vars
             PROVE  FeedOf!Next \/ UNCHANGED FeedOf!fvars
  OBVIOUS
<1>1. CASE Quiet \/ UNCHANGED vars
  <2>1. UNCHANGED <<clients, handler, pump, held, queue, gone, wire, bcast, sent, since>>
    BY <1>1, Zenon DEF Quiet, vars, hubVars, connVars
  <2>2. \A d \in Clients : Phase(d)' = Phase(d) /\ Bound(d)' = Bound(d)
    BY <2>1, Untouched DEF Dropping
  <2> QED BY <2>1, <2>2, MovesNone, Stutters
<1> QED BY <1>1, BroadcastFeeds, ConnectionFeeds, Zenon DEF Next

\* What a client sees of one broadcaster is Feed, up to the promise that it
\* catches up: a client gets every message published since it joined, in order;
\* it is cut off only when it hung up or is more than Cap behind, and is given
\* what it was owed when it was cut off before its connection ends.
THEOREM ImplementsFeedSafely ==
    ASSUME OneBroadcaster
    PROVE  Spec => FeedOf!Safe
<1>1. Sound => Typed
  BY DEF Sound
<1> QED BY <1>1, SoundInit, SoundStep, StreamsInit, StreamsStep, ConnectionsInit,
           ConnectionsStep, BoundFacts, FeedInit, FeedStep, PTL DEF Spec, FeedOf!Safe
=============================================================================
