------------------------------ MODULE Exporter ------------------------------
(***************************************************************************)
(* One service name of the exporter: SetServices, Stop, the loop that      *)
(* listens at a server for announcements, and connect()                    *)
(* (internal/pkg/exporter/client.go).  Names share nothing but client.mu,  *)
(* which SetServices holds while it works on one after the other.          *)
(*                                                                         *)
(* A member of Objs is a *service; a name that is removed and configured   *)
(* again gets another.  A gRPC call on a cancelled context fails.  Servers *)
(* are environment: they come and go, announce, redirect and end streams.  *)
(***************************************************************************)
CONSTANTS
    Objs, NoObj,
    Addrs,        \* addresses connections are forwarded to
    Servers,      \* server addresses
    Home,         \* Config.ServerAddress
    Conns,        \* announcements that are being answered at the same time
    CancelsStream \* TRUE iff the far side (a proxy) may end a stream as Canceled

ASSUME ExporterAssumption ==
    /\ NoObj \notin Objs
    /\ Home \in Servers
    /\ CancelsStream \in BOOLEAN

VARIABLES
    current,       \* client.services[name]
    removed,       \* the object SetServices waits for in stop(); it holds client.mu
    stopPc,        \* Client.Stop: "no", "waiting", "done"
    config,        \* service._config
    cancelled,     \* s.cancel() was called
    loopPc,        \* the goroutine of start()
    err,           \* service.err
    serverAddress, \* service.serverAddress
    up,            \* servers that run
    connPc,        \* connect()
    connObj        \* its service

clientVars == <<current, removed, stopPc, config>>
loopVars == <<loopPc, err, serverAddress>>
connVars == <<connPc, connObj>>
vars == <<clientVars, cancelled, loopVars, up, connVars>>

Active == {"top", "dial", "recv", "sleep"}

TypeOK ==
    /\ current \in Objs \cup {NoObj}
    /\ removed \in Objs \cup {NoObj}
    /\ stopPc \in {"no", "waiting", "done"}
    /\ config \in [Objs -> Addrs]
    /\ cancelled \in [Objs -> BOOLEAN]
    /\ loopPc \in [Objs -> Active \cup {"none", "ending", "released"}]
    /\ err \in [Objs -> {"not started", "none", "failed", "stopped"}]
    /\ serverAddress \in [Objs -> Servers]
    /\ up \subseteq Servers
    /\ connPc \in [Conns -> {"none", "spawned", "opening", "dialing", "tunnel", "closing"}]
    /\ connObj \in [Conns -> Objs \cup {NoObj}]
    /\ \A c \in Conns : connPc[c] = "none" <=> connObj[c] = NoObj

Init ==
    /\ current = NoObj /\ removed = NoObj /\ stopPc = "no"
    /\ config \in [Objs -> Addrs] /\ \A o, p \in Objs : config[o] = config[p]
    /\ cancelled = [o \in Objs |-> FALSE]
    /\ loopPc = [o \in Objs |-> "none"]
    /\ err = [o \in Objs |-> "not started"]
    /\ serverAddress = [o \in Objs |-> Home]
    /\ up = Servers
    /\ connPc = [c \in Conns |-> "none"]
    /\ connObj = [c \in Conns |-> NoObj]

\* Faulty: the context of a service is not a child of the client's.
DoneOwn(o) == cancelled[o]

\* The context of the loop and of its connections.
Done(o) == cancelled[o] \/ stopPc # "no"

-----------------------------------------------------------------------------
(* Client.                                                                 *)

\* SetServices with a name that is new: start().
Add(o, a) ==
    /\ removed = NoObj /\ current = NoObj
    /\ loopPc[o] = "none" /\ \A c \in Conns : connObj[c] # o
    /\ current' = o
    /\ loopPc' = [loopPc EXCEPT ![o] = "top"]
    /\ config' = [config EXCEPT ![o] = a]
    /\ cancelled' = [cancelled EXCEPT ![o] = FALSE]
    /\ err' = [err EXCEPT ![o] = "not started"]
    /\ serverAddress' = [serverAddress EXCEPT ![o] = Home]
    /\ UNCHANGED <<removed, stopPc, up, connVars>>

\* A name that is known: setConfig(), which leaves the loop alone.
SetConfig(a) ==
    /\ removed = NoObj /\ current # NoObj
    /\ config' = [config EXCEPT ![current] = a]
    /\ UNCHANGED <<current, removed, stopPc, cancelled, loopVars, up, connVars>>

\* A name that is not configured any more: delete, cancel() ...
Remove ==
    /\ removed = NoObj /\ current # NoObj
    /\ removed' = current /\ current' = NoObj
    /\ cancelled' = [cancelled EXCEPT ![current] = TRUE]
    /\ UNCHANGED <<stopPc, config, loopVars, up, connVars>>

\* Faulty: only connections are waited for.
WaitedForConns(o) ==
    \A c \in Conns : connObj[c] = o => connPc[c] \in {"none", "spawned"}

\* Faulty: only the loop is waited for.
WaitedForLoop(o) == loopPc[o] \in {"none", "released"}

\* service.wg counts the loop and the connections that have come to line 254.
Waited(o) == WaitedForLoop(o) /\ WaitedForConns(o)

\* ... and wg.Wait().
RemoveReturn ==
    /\ removed # NoObj /\ Waited(removed)
    /\ removed' = NoObj
    /\ UNCHANGED <<current, stopPc, config, cancelled, loopVars, up, connVars>>

Stop ==
    /\ stopPc = "no"
    /\ stopPc' = "waiting"
    /\ UNCHANGED <<current, removed, config, cancelled, loopVars, up, connVars>>

\* client.wg counts the loops.
StopReturn ==
    /\ stopPc = "waiting"
    /\ \A o \in Objs : WaitedForLoop(o)
    /\ stopPc' = "done"
    /\ UNCHANGED <<current, removed, config, cancelled, loopVars, up, connVars>>

-----------------------------------------------------------------------------
(* The goroutine of start().  A Listen stream is open to serverAddress while *)
(* the loop is at "recv".                                                  *)

LoopStep(o, from, to, e, s) ==
    /\ loopPc[o] = from /\ loopPc' = [loopPc EXCEPT ![o] = to]
    /\ err' = [err EXCEPT ![o] = e]
    /\ serverAddress' = [serverAddress EXCEPT ![o] = s]
    /\ UNCHANGED <<clientVars, up, connVars>>

Top(o) ==
    /\ LoopStep(o, "top", IF Done(o) THEN "ending" ELSE "dial", err[o], serverAddress[o])
    /\ UNCHANGED cancelled

\* grpc.Dial and Listen.
Open(o) ==
    /\ ~Done(o) /\ serverAddress[o] \in up
    /\ LoopStep(o, "dial", "recv", "none", serverAddress[o])
    /\ UNCHANGED cancelled

OpenFails(o) ==
    /\ Done(o) \/ serverAddress[o] \notin up
    /\ LoopStep(o, "dial", "sleep", "failed", serverAddress[o])
    /\ UNCHANGED cancelled

Sleep(o) == LoopStep(o, "sleep", "top", err[o], serverAddress[o]) /\ UNCHANGED cancelled

\* Streams break at any moment, and break for certain when the server is gone.
RecvFails(o) == LoopStep(o, "recv", "sleep", "failed", serverAddress[o]) /\ UNCHANGED cancelled

RecvEnds(o) == serverAddress[o] \notin up /\ RecvFails(o)

\* Canceled ends the loop.
RecvCanceled(o) ==
    /\ Done(o) \/ CancelsStream
    /\ LoopStep(o, "recv", "ending", err[o], serverAddress[o])
    /\ UNCHANGED cancelled

\* Faulty: a redirect ends the loop.
RedirectEnds(o, s) == LoopStep(o, "recv", "ending", err[o], s) /\ UNCHANGED cancelled

RecvRedirect(o, s) == LoopStep(o, "recv", "top", err[o], s) /\ UNCHANGED cancelled

RecvAnnouncement(o, c) ==
    /\ loopPc[o] = "recv" /\ connPc[c] = "none"
    /\ connPc' = [connPc EXCEPT ![c] = "spawned"]
    /\ connObj' = [connObj EXCEPT ![c] = o]
    /\ UNCHANGED <<clientVars, cancelled, loopVars, up>>

\* The deferred function: Done() for both wait groups ...
Release(o) == LoopStep(o, "ending", "released", err[o], serverAddress[o]) /\ UNCHANGED cancelled

\* ... then cancel() and the state that is reported.
Finish(o) ==
    /\ LoopStep(o, "released", "none", "stopped", serverAddress[o])
    /\ cancelled' = [cancelled EXCEPT ![o] = TRUE]

-----------------------------------------------------------------------------
(* connect().                                                              *)

ConnStep(c, from, to) ==
    /\ connPc[c] = from /\ connPc' = [connPc EXCEPT ![c] = to]
    /\ UNCHANGED <<clientVars, cancelled, loopVars, up>>

Count(c) == ConnStep(c, "spawned", "opening") /\ UNCHANGED connObj

\* Faulty: AcceptConnection is called with a context of its own.
AcceptDetached(c) == ConnStep(c, "opening", "dialing") /\ UNCHANGED connObj

\* AcceptConnection and Send ...
Accept(c) == ConnStep(c, "opening", "dialing") /\ ~Done(connObj[c]) /\ UNCHANGED connObj

\* ... net.Dial of the address configured now ...
DialService(c) == ConnStep(c, "dialing", "tunnel") /\ UNCHANGED connObj

\* ... and the failures of the three.
Fails(c) ==
    /\ ConnStep(c, "opening", "closing") \/ ConnStep(c, "dialing", "closing")
    /\ UNCHANGED connObj

\* Both pumps are done.
TunnelEnds(c) == ConnStep(c, "tunnel", "closing") /\ UNCHANGED connObj

\* Faulty: nothing but the pumps ends a tunnel.
NotCancelled(c) == TunnelEnds(c) /\ FALSE

TunnelCancelled(c) == TunnelEnds(c) /\ Done(connObj[c])

\* Faulty: connect() returns without its deferred calls.
CloseUncounted(c) == ConnStep(c, "closing", "none") /\ UNCHANGED connObj

Close(c) == ConnStep(c, "closing", "none") /\ connObj' = [connObj EXCEPT ![c] = NoObj]

-----------------------------------------------------------------------------
ServerChange(s) ==
    /\ up' = IF s \in up THEN up \ {s} ELSE up \cup {s}
    /\ UNCHANGED <<clientVars, cancelled, loopVars, connVars>>

Loop(o) ==
    \/ Top(o) \/ Open(o) \/ OpenFails(o) \/ Sleep(o) \/ Release(o) \/ Finish(o)
    \/ RecvEnds(o) \/ (Done(o) /\ RecvCanceled(o))

Connect(c) ==
    \/ Count(c) \/ Accept(c) \/ DialService(c) \/ Fails(c) \/ TunnelCancelled(c) \/ Close(c)

Next ==
    \/ \E o \in Objs, a \in Addrs : Add(o, a)
    \/ \E a \in Addrs : SetConfig(a)
    \/ Remove \/ RemoveReturn \/ Stop \/ StopReturn
    \/ \E o \in Objs : Loop(o) \/ RecvFails(o) \/ RecvCanceled(o)
    \/ \E o \in Objs, s \in Servers : RecvRedirect(o, s)
    \/ \E o \in Objs, c \in Conns : RecvAnnouncement(o, c)
    \/ \E c \in Conns : Connect(c) \/ TunnelEnds(c)
    \/ \E s \in Servers : ServerChange(s)

Spec == Init /\ [][Next]_vars

(* Goroutines run, calls return, and a wait group releases those who wait  *)
(* as soon as its count is zero.  Operators, servers and importers do as   *)
(* they like.                                                              *)
FairSpec ==
    /\ Spec
    /\ SF_vars(RemoveReturn) /\ SF_vars(StopReturn)
    /\ \A o \in Objs : WF_vars(Loop(o))
    /\ \A c \in Conns : WF_vars(Connect(c))

-----------------------------------------------------------------------------
\* SetServices waits for the loop of a service it removes (client.go:156-159): when the
\* name is configured again, no other loop listens for it.
OneLoop ==
    \A o \in Objs : loopPc[o] \in Active => o \in {current, removed}

\* connect() counts itself in a goroutine of its own (client.go:254), so that stop() may
\* return before it does; yet when stop() has returned, nothing is forwarded for a
\* service that was removed.
NothingOutlivesStop ==
    \A c \in Conns : connPc[c] \in {"dialing", "tunnel"} => connObj[c] \in {current, removed}

\* SetServices and Stop may overlap (the debounced reload of a command that shuts down):
\* no service listens after Stop has returned (client.go:77-80).
StoppedIsQuiet == stopPc = "done" => \A o \in Objs : loopPc[o] # "recv"

\* SetServices and Stop return, whatever the servers do, and Stop ends the tunnels,
\* which it does not wait for.
StopsReturn ==
    /\ removed # NoObj ~> removed = NoObj
    /\ stopPc = "waiting" ~> stopPc = "done"
    /\ stopPc # "no" ~> \A c \in Conns : connPc[c] # "tunnel"

\* A configured service is listened for again after every failure and redirect
\* (client.go:186-249), once the server it knows stays up.
ServedAgain ==
    <>[](current # NoObj /\ stopPc = "no" /\ serverAddress[current] \in up)
        => []<>(current # NoObj /\ loopPc[current] = "recv")
=============================================================================
