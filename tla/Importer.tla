------------------------------ MODULE Importer ------------------------------
(***************************************************************************)
(* One service of the importer: SetServices stops and starts it, its       *)
(* goroutine (TcpService) runs connect() for every connection, and those   *)
(* follow redirects and then hold a tunnel                                 *)
(* (internal/pkg/importer/importer.go).                                    *)
(*                                                                         *)
(* Services share nothing but client.mu, which SetServices holds while it  *)
(* works on one after the other: one service stands for any number.        *)
(* A gRPC call on a cancelled context fails.                               *)
(***************************************************************************)
EXTENDS TcpService

CONSTANTS
    Conns,     \* TCP connections that exist at the same time
    Servers,   \* server addresses
    Home,      \* Config.ServerAddress
    NoServer

ASSUME ImporterAssumption == Home \in Servers /\ NoServer \notin Servers

VARIABLES
    reloadPc,      \* SetServices; client.mu is held unless it is "idle"
    present,       \* client.services has the service
    wanted,        \* the configuration of that SetServices call, NoAddr to remove
    ctxDone,       \* the context of a generation's goroutine is cancelled
    connPc,        \* connect()
    connGen,       \* the generation whose context that connection has
    connServer,    \* the server its Connect call goes to
    serverAddress, \* service.serverAddress
    remoteHost     \* the server service.remoteHost is a client of

reloadVars == <<reloadPc, present, wanted>>
connVars == <<connPc, connGen, connServer, serverAddress, remoteHost>>
vars == <<tcpVars, reloadVars, ctxDone, connVars>>

TypeOK ==
    /\ TcpTypeOK
    /\ reloadPc \in {"idle", "stopping", "waiting", "starting"}
    /\ present \in BOOLEAN
    /\ wanted \in Addrs \cup {NoAddr}
    /\ ctxDone \in [Gens -> BOOLEAN]
    /\ connPc \in [Conns -> {"none", "spawned", "handshake", "asking", "tunnel", "closing"}]
    /\ connGen \in [Conns -> Gens \cup {NoGen}]
    /\ connServer \in [Conns -> Servers \cup {NoServer}]
    /\ serverAddress \in Servers
    /\ remoteHost \in Servers \cup {NoServer}

\* Client.Start calls SetServices for a service that is not there yet.
Init ==
    /\ TcpInit
    /\ reloadPc = "idle" /\ present = FALSE /\ wanted = NoAddr
    /\ ctxDone = [g \in Gens |-> TRUE]
    /\ connPc = [c \in Conns |-> "none"]
    /\ connGen = [c \in Conns |-> NoGen]
    /\ connServer = [c \in Conns |-> NoServer]
    /\ serverAddress = Home /\ remoteHost = NoServer

Goto(c, from, to) == connPc[c] = from /\ connPc' = [connPc EXCEPT ![c] = to]

\* service.wg counts the goroutine and the connections that have come to line 264.
Waited == LoopsDone /\ \A c \in Conns : connPc[c] \in {"none", "spawned"}

Cancelled(c) == ctxDone[connGen[c]]

-----------------------------------------------------------------------------
(* SetServices.                                                            *)

\* A new service object.  It is added only when nothing is left of a removed one.
Add(a) ==
    /\ reloadPc = "idle" /\ ~present
    /\ \A c \in Conns : connPc[c] = "none"
    /\ reloadPc' = "starting" /\ present' = TRUE /\ wanted' = a
    /\ config' = a
    /\ serverAddress' = Home /\ remoteHost' = NoServer
    /\ listenerToClose' = NoGen
    /\ UNCHANGED <<stopChan, stopped, loopPc, bound, ctxDone, connPc, connGen, connServer>>

\* A known service: stop() and start() even if its configuration is the same.
Change(a) ==
    /\ reloadPc = "idle" /\ present
    /\ reloadPc' = "stopping" /\ wanted' = a
    /\ UNCHANGED <<tcpVars, present, ctxDone, connVars>>

ReloadStop ==
    /\ reloadPc = "stopping"
    /\ reloadPc' = "waiting"
    /\ Stop
    /\ UNCHANGED <<config, stopChan, listenerToClose, loopPc, present, wanted, ctxDone, connVars>>

StopReturns == Waited

ReloadContinue ==
    /\ reloadPc = "waiting" /\ StopReturns
    /\ IF wanted = NoAddr
         THEN reloadPc' = "idle" /\ present' = FALSE /\ UNCHANGED config
         ELSE reloadPc' = "starting" /\ config' = wanted /\ UNCHANGED present
    /\ UNCHANGED <<stopChan, stopped, listenerToClose, loopPc, bound, wanted, ctxDone, connVars>>

ReloadStart(g) ==
    /\ reloadPc = "starting" /\ \A c \in Conns : connGen[c] # g
    /\ Start(g)
    /\ reloadPc' = "idle"
    /\ ctxDone' = [ctxDone EXCEPT ![g] = FALSE]
    /\ UNCHANGED <<config, listenerToClose, bound, present, wanted, connVars>>

-----------------------------------------------------------------------------
(* The goroutine.                                                          *)

Accept(g, c) ==
    /\ bound[g] # NoAddr
    /\ Step(g, "accept", "check")
    /\ Goto(c, "none", "spawned")
    /\ connGen' = [connGen EXCEPT ![c] = g]
    /\ UNCHANGED <<config, stopChan, stopped, listenerToClose, bound, reloadVars, ctxDone,
                   connServer, serverAddress, remoteHost>>

\* The deferred functions: cancel() ...
Cancel(g) ==
    /\ loopPc[g] = "returning" /\ ~ctxDone[g]
    /\ ctxDone' = [ctxDone EXCEPT ![g] = TRUE]
    /\ UNCHANGED <<tcpVars, reloadVars, connVars>>

\* Faulty: wg.Done() is not preceded by cancel().
DoneEarly(g) == Step(g, "returning", "none") /\ UNCHANGED ctxDone

\* ... and then wg.Done().
WgDone(g) == ctxDone[g] /\ Step(g, "returning", "none") /\ UNCHANGED ctxDone

Done(g) ==
    /\ WgDone(g)
    /\ UNCHANGED <<config, stopChan, stopped, listenerToClose, bound, reloadVars, connVars>>

-----------------------------------------------------------------------------
(* connect().                                                              *)

Count(c) ==
    /\ Goto(c, "spawned", "handshake")
    /\ UNCHANGED <<tcpVars, reloadVars, ctxDone, connGen, connServer, serverAddress, remoteHost>>

\* The cached client, or a new one for the present address.
GetRemoteHost == IF remoteHost # NoServer THEN remoteHost ELSE serverAddress

CanConnect(c) == ~Cancelled(c)

\* GetRemoteHost, Connect and Send ...
Ask(c) ==
    /\ Goto(c, "handshake", "asking")
    /\ CanConnect(c)
    /\ remoteHost' = GetRemoteHost
    /\ connServer' = [connServer EXCEPT ![c] = GetRemoteHost]
    /\ UNCHANGED <<tcpVars, reloadVars, ctxDone, connGen, serverAddress>>

\* ... or one of them fails; GetRemoteHost may have filled the cache.
AskFails(c) ==
    /\ Goto(c, "handshake", "closing")
    /\ remoteHost' \in {remoteHost, GetRemoteHost}
    /\ UNCHANGED <<tcpVars, reloadVars, ctxDone, connGen, connServer, serverAddress>>

\* Faulty: the client of the old address stays.
SetAddressOnly(s) == serverAddress' = s /\ UNCHANGED remoteHost

\* Faulty: the fields are mixed up.
SetSwapped(s) == remoteHost' = s /\ serverAddress' = NoServer

SetServerAddress(s) == serverAddress' = s /\ remoteHost' = NoServer

Redirect(c, s) ==
    /\ Goto(c, "asking", "handshake")
    /\ connServer' = [connServer EXCEPT ![c] = NoServer]
    /\ SetServerAddress(s)
    /\ UNCHANGED <<tcpVars, reloadVars, ctxDone, connGen>>

\* The answer is the empty frame, or an error; an established tunnel ends when both
\* its pumps have ended.
Established(c) ==
    /\ Goto(c, "asking", "tunnel")
    /\ UNCHANGED <<tcpVars, reloadVars, ctxDone, connGen, connServer, serverAddress, remoteHost>>

\* Line 285 prepares CloseSend; conn1.Close() unblocks the other pump.
End(c) ==
    /\ Goto(c, "asking", "closing") \/ Goto(c, "tunnel", "closing")
    /\ connServer' = [connServer EXCEPT ![c] = NoServer]
    /\ UNCHANGED <<tcpVars, reloadVars, ctxDone, connGen, serverAddress, remoteHost>>

\* Faulty: connect() waits for its pumps only.
NeverEnds(c) == End(c) /\ FALSE

\* The goroutine's context is the parent of the connection's.
EndCancelled(c) == End(c) /\ Cancelled(c)

Close(c) ==
    /\ Goto(c, "closing", "none")
    /\ connGen' = [connGen EXCEPT ![c] = NoGen]
    /\ UNCHANGED <<tcpVars, reloadVars, ctxDone, connServer, serverAddress, remoteHost>>

-----------------------------------------------------------------------------
Reload == ReloadStop \/ ReloadContinue \/ \E g \in Gens : ReloadStart(g)

Tcp(g) ==
    /\ Bind(g) \/ Assign(g) \/ Check(g) \/ AcceptEnds(g)
    /\ UNCHANGED <<reloadVars, ctxDone, connVars>>

Break(g) == MayFail /\ AcceptFails(g) /\ UNCHANGED <<reloadVars, ctxDone, connVars>>

Loop(g) == Tcp(g) \/ Cancel(g) \/ Done(g)

Connect(c) == Count(c) \/ Ask(c) \/ AskFails(c) \/ EndCancelled(c) \/ Close(c)

Collect(g) == Finalize(g) /\ UNCHANGED <<reloadVars, ctxDone, connVars>>

Next ==
    \/ \E a \in Addrs : Add(a)
    \/ \E a \in Addrs \cup {NoAddr} : Change(a)
    \/ Reload
    \/ \E g \in Gens : Loop(g) \/ Break(g) \/ Collect(g) \/ \E c \in Conns : Accept(g, c)
    \/ \E c \in Conns : Connect(c) \/ Established(c) \/ End(c) \/ \E s \in Servers : Redirect(c, s)

Spec == Init /\ [][Next]_vars

(* Goroutines run.  Applications, servers and operators do as they like.   *)
FairSpec ==
    /\ Spec
    /\ WF_vars(Reload)
    /\ \A g \in Gens : WF_vars(Loop(g))
    /\ \A c \in Conns : WF_vars(Connect(c))

-----------------------------------------------------------------------------
\* connect() counts itself in a goroutine of its own (importer.go:264), so that stop()
\* may return before it does; yet except while stop() waits, no connection asks a
\* server or holds a tunnel for a generation that has been stopped.
NothingOutlivesStop ==
    reloadPc # "waiting" =>
        \A c \in Conns : connPc[c] \in {"asking", "tunnel"} => ~Closed(connGen[c])

\* Connections that were redirected to different servers share one cached client
\* (importer.go:237-261): it is never that of another address than the one stored.
CachedIsCurrent == remoteHost \in {NoServer, serverAddress}

\* SetServices returns (importer.go:90-119), whatever the servers and the
\* applications do with the tunnels it ends.
ReloadReturns == reloadPc # "idle" ~> reloadPc = "idle"
=============================================================================
