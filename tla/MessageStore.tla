---------------------------- MODULE MessageStore ----------------------------
(***************************************************************************)
(* What the receive buffer of eng/atm/at_mqtt.c promises its users, with   *)
(* no slot, index or pointer: a message at_mqtt_input() accepted is handed *)
(* to the client's handlers exactly once, unless the flow control keeps it *)
(* from them, and while the buffer is in service nothing accepted is lost. *)
(* The order of delivery is open.                                          *)
(***************************************************************************)
EXTENDS Naturals, FiniteSets

CONSTANTS
    Message,    \* the messages the broker may publish to this client
    Droppable,  \* those of them that are under flow control
    Capacity    \* how many may wait at a time

VARIABLES
    open,       \* TRUE between the init and the release of a client
    online,     \* the client is connected: only then is the store emptied
    held,       \* accepted, nobody has looked at it yet
    delivered,  \* handed to the handlers
    dropped,    \* kept from the handlers by the flow control
    lost        \* accepted, destroyed before it was looked at

vars == <<open, online, held, delivered, dropped, lost>>

Known == held \cup delivered \cup dropped \cup lost

TypeOK ==
    /\ open \in BOOLEAN
    /\ online \in BOOLEAN
    /\ held \subseteq Message
    /\ delivered \subseteq Message
    /\ dropped \subseteq Droppable
    /\ lost \subseteq Message

Init ==
    /\ open = FALSE /\ online = FALSE
    /\ held = {} /\ delivered = {} /\ dropped = {} /\ lost = {}

\* A message arrives while the buffer serves a client: it is kept, beside
\* everything kept before.
Accept(m) ==
    /\ open
    /\ m \notin Known
    /\ Cardinality(held) < Capacity
    /\ held' = held \cup {m}
    /\ UNCHANGED <<open, online, delivered, dropped, lost>>

\* Before the client exists nothing is promised: the message, and any kept
\* before it, may be destroyed.
AcceptClosed(m) ==
    /\ ~open
    /\ m \notin Known
    /\ \E kept \in SUBSET (held \cup {m}) :
          /\ held' = kept
          /\ lost' = lost \cup ((held \cup {m}) \ kept)
    /\ UNCHANGED <<open, online, delivered, dropped>>

\* The handlers get m; m leaves the store in the same step.
Deliver(m) ==
    /\ delivered' = delivered \cup {m}
    /\ UNCHANGED dropped

Discard(m) ==
    /\ m \in Droppable
    /\ dropped' = dropped \cup {m}
    /\ UNCHANGED delivered

Take(m) ==
    /\ open /\ online
    /\ m \in held
    /\ held' = held \ {m}
    /\ Deliver(m) \/ Discard(m)
    /\ UNCHANGED <<open, online, lost>>

\* The connection comes or goes, and takes nothing along.
Connection ==
    /\ online' = ~online
    /\ UNCHANGED <<open, held, delivered, dropped, lost>>

\* Init, release and reset empty the store; a reset ends the connection.
Wipe(isOpen) ==
    /\ open' = isOpen
    /\ online' \in {online, FALSE}
    /\ held' = {}
    /\ lost' = lost \cup held
    /\ UNCHANGED <<delivered, dropped>>

Next ==
    \/ \E m \in Message : Accept(m) \/ AcceptClosed(m) \/ Take(m)
    \/ Connection
    \/ \E isOpen \in BOOLEAN : Wipe(isOpen)

Spec == Init /\ [][Next]_vars

\* A client that keeps yielding, and stays connected, takes every message
\* waiting for it.
FairSpec == Spec /\ \A m \in Message : WF_vars(Take(m))
=============================================================================
