------------------------------ MODULE Exchange ------------------------------
(***************************************************************************)
(* What the hand-off of the grpc-rpf server promises, without services,    *)
(* channels, tokens or handlers: a connection that an importer opened is   *)
(* queued, then in the care of the server, then in exactly one tunnel.  It *)
(* moves on in this order only, and once the server has taken it from the  *)
(* queue it does not leave the exchange unless it is closed.               *)
(***************************************************************************)
CONSTANTS Conns, Accepts, NoConn

VARIABLES
    open,   \* connections that nobody has closed
    queue,  \* connections waiting for an exporter
    server, \* connections taken from the queue and not yet in a tunnel
    tunnel  \* the connection each AcceptConnection call serves

vars == <<open, queue, server, tunnel>>

Tunnelled == {tunnel[a] : a \in Accepts} \ {NoConn}
Inside == queue \cup server \cup Tunnelled

Init ==
    /\ open = Conns
    /\ queue = {} /\ server = {}
    /\ tunnel = [a \in Accepts |-> NoConn]

\* A new call takes the place of one that is over.
Admit(c) ==
    /\ c \notin Inside
    /\ open' = open \cup {c}
    /\ UNCHANGED <<queue, server, tunnel>>

\* Connections may be closed at any time, wherever they are.
Close(C) ==
    /\ open' = open \ C
    /\ UNCHANGED <<queue, server, tunnel>>

Enter(c) ==
    /\ c \notin Inside
    /\ queue' = queue \cup {c}
    /\ UNCHANGED <<open, server, tunnel>>

Take(c) ==
    /\ c \in queue
    /\ queue' = queue \ {c}
    /\ server' = server \cup {c}
    /\ UNCHANGED <<open, tunnel>>

Bridge(a, c) ==
    /\ c \in server
    /\ tunnel[a] = NoConn
    /\ server' = server \ {c}
    /\ tunnel' = [tunnel EXCEPT ![a] = c]
    /\ UNCHANGED <<open, queue>>

Expire(c) ==
    /\ c \in server
    /\ server' = server \ {c}
    /\ open' = open \ {c}
    /\ UNCHANGED <<queue, tunnel>>

Finish(a) ==
    /\ tunnel[a] # NoConn
    /\ tunnel' = [tunnel EXCEPT ![a] = NoConn]
    /\ open' = open \ {tunnel[a]}
    /\ UNCHANGED <<queue, server>>

Next ==
    \/ \E c \in Conns : Admit(c) \/ Enter(c) \/ Take(c) \/ Expire(c)
    \/ \E C \in SUBSET Conns : Close(C)
    \/ \E a \in Accepts : Finish(a) \/ \E c \in Conns : Bridge(a, c)

Spec == Init /\ [][Next]_vars
=============================================================================
