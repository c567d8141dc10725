--------------------------------- MODULE Feed ---------------------------------
(***************************************************************************)
(* What the realtime hub promises to a connected client, whatever the      *)
(* goroutines behind it do: a numbered feed.  A client gets every message  *)
(* published since it joined, in order and without a gap; it is cut off    *)
(* only when it hung up or fell more than Cap messages behind; and what    *)
(* was owed to it at that moment is still delivered.                       *)
(***************************************************************************)
EXTENDS Naturals, Sequences

CONSTANTS
    Clients,
    Cap,        \* how far behind a client may fall
    Last        \* the number of messages that may be published

VARIABLES
    count,      \* the messages published
    phase,      \* where each client is: "out", "in", "left" or "ended"
    joined,     \* the number of messages published before it joined
    got,        \* the messages delivered to it
    bound,      \* the last message a client that left is owed, else 0
    gone        \* the clients that hung up

fvars == <<count, phase, joined, got, bound, gone>>

Init ==
    /\ count = 0
    /\ phase = [c \in Clients |-> "out"]
    /\ joined = [c \in Clients |-> 0]
    /\ got = [c \in Clients |-> <<>>]
    /\ bound = [c \in Clients |-> 0]
    /\ gone = {}

Position(c) == joined[c] + Len(got[c])

Move(c, from, to) == phase[c] = from /\ phase' = [phase EXCEPT ![c] = to]

Publish ==
    /\ count < Last
    /\ count' = count + 1
    /\ UNCHANGED <<phase, joined, got, bound, gone>>

Join(c) ==
    /\ Move(c, "out", "in")
    /\ joined' = [joined EXCEPT ![c] = count]
    /\ UNCHANGED <<count, got, bound, gone>>

\* The next message, as long as one is owed.
Deliver(c) ==
    /\ \/ phase[c] = "in" /\ Position(c) < count
       \/ phase[c] = "left" /\ Position(c) < bound[c]
    /\ got' = [got EXCEPT ![c] = Append(@, Position(c) + 1)]
    /\ UNCHANGED <<count, phase, joined, bound, gone>>

\* A client is cut off: it is too far behind to be given the newest message, or
\* it hung up.
Leave(c) ==
    /\ Move(c, "in", "left")
    /\ \/ count - Position(c) > Cap /\ bound' = [bound EXCEPT ![c] = count - 1]
       \/ c \in gone /\ bound' = [bound EXCEPT ![c] = count]
    /\ UNCHANGED <<count, joined, got, gone>>

\* The connection ends: everything owed was delivered ...
End(c) ==
    /\ Move(c, "left", "ended")
    /\ Position(c) = bound[c]
    /\ bound' = [bound EXCEPT ![c] = 0]
    /\ UNCHANGED <<count, joined, got, gone>>

\* ... or there is nobody to deliver to.
Break(c) ==
    /\ c \in gone
    /\ Move(c, "in", "ended") \/ Move(c, "left", "ended")
    /\ bound' = [bound EXCEPT ![c] = 0]
    /\ UNCHANGED <<count, joined, got, gone>>

HangUp(c) ==
    /\ gone' = gone \cup {c}
    /\ UNCHANGED <<count, phase, joined, got, bound>>

Next ==
    \/ Publish
    \/ \E c \in Clients :
          Join(c) \/ Deliver(c) \/ Leave(c) \/ End(c) \/ Break(c) \/ HangUp(c)

\* A member that is behind catches up, unless its connection ends first.
CatchesUp ==
    \A c \in Clients :
        phase[c] = "in" /\ Position(c) < count
            ~> Position(c) = count \/ phase[c] = "ended"

Safe == Init /\ [][Next]_fvars

Spec == Safe /\ CatchesUp
=============================================================================
