----------------------------- MODULE Rendezvous -----------------------------
(***************************************************************************)
(* The hand-off inside the grpc-rpf server (internal/pkg/server/server.go):*)
(* an importer's Connect call and an exporter's AcceptConnection call meet *)
(* through a service's acceptChan, a Listen stream and a one-use token.    *)
(*                                                                         *)
(* Every goroutine of the server is a process with a program counter: a    *)
(* Connect handler per c \in Conns, a Listen handler per l \in Listens, an *)
(* AcceptConnection handler per a \in Accepts and one AfterFunc goroutine  *)
(* per armed token.  A step is what happens between two points at which    *)
(* another goroutine can observe or change shared state.  A process that   *)
(* returned is "idle" and stands for the next call as well.                *)
(*                                                                         *)
(* Abstracted: the bytes of a tunnel (the two pumps of AcceptConnection    *)
(* end at any moment), and s.mu, whose critical sections are single steps. *)
(* Services here have no Listen address, so that no TCP goroutine feeds    *)
(* acceptChan and the wait group stop() waits for is empty; module         *)
(* ServiceLifecycle treats the services that have one.                     *)
(*                                                                         *)
(* Definitions whose comment starts with "Faulty:" are plausible bugs; no  *)
(* action uses them.  Each shows that a property below can be violated.    *)
(***************************************************************************)
EXTENDS Integers, FiniteSets

CONSTANTS
    Names,         \* service names
    Objs,          \* *service objects that can exist at the same time
    Conns,         \* Connect calls
    Listens,       \* Listen calls
    Accepts,       \* AcceptConnection calls
    Tokens,        \* what GenerateRandomBytes may return
    NoObj, NoConn, NoToken,
    AcceptTimeout, \* TRUE iff Config.AcceptTimeout # 0
    MaxReconfigs   \* bound: SetServices calls after New

ASSUME ConstantsAssumption ==
    /\ NoObj \notin Objs
    /\ NoConn \notin Conns
    /\ NoToken \notin Tokens
    /\ AcceptTimeout \in BOOLEAN
    /\ MaxReconfigs \in Nat

\* Go runs finitely many goroutines at a time; used where they are counted.
ASSUME ListensFinite == IsFiniteSet(Listens)

VARIABLES
    \* Server and its *service objects
    serverPc,       \* "serving", "closing" inside Stop, "stopped"
    services,       \* Server.services, NoObj where the map has no entry
    stopped,        \* isStopped(service.stopChan)
    acceptChan,     \* service.acceptChan, a channel of capacity one
    listenerCount,  \* service.listenerCount
    pendingAccepts, \* Server.pendingAccepts, NoConn where there is no entry
    timers,         \* tokens whose AfterFunc has not run yet
    reconfigs,      \* SetServices calls made so far
    \* Connect handlers
    connPc,
    connSvc,        \* the local variable service of Connect
    connDone,       \* ctx of the connection is done
    \* Listen handlers
    listenPc,
    listenSvc,      \* the local variable svc of Listen
    listenGone,     \* the stream's context is done
    woken,          \* the stopChan the current select waits on is closed
    held,           \* the connection received from acceptChan
    listenTok,      \* the token being announced
    announced,      \* tokens sent to exporters and not yet presented
    \* AcceptConnection handlers
    acceptPc,
    acceptTok,      \* the token the exporter presents
    acceptConn,     \* the local variable conn1 of AcceptConnection
    acceptGone      \* ctx of the AcceptConnection call is done

configVars == <<serverPc, services, reconfigs>>
countVars == <<stopped, listenerCount>>
serverVars == <<configVars, countVars>>
custodyVars == <<acceptChan, held, pendingAccepts, acceptConn>>
tokenVars == <<timers, announced>>
connVars == <<connPc, connSvc, connDone>>
listenVars == <<listenPc, listenSvc, listenGone, woken, listenTok>>
acceptVars == <<acceptPc, acceptTok, acceptGone>>
vars == <<serverVars, custodyVars, tokenVars, connVars, listenVars, acceptVars>>

\* What each kind of handler does not touch except where it says so.
notConn == <<serverVars, tokenVars, listenVars, acceptVars>>
notListen == <<custodyVars, tokenVars, connVars, acceptVars>>
notAccept == <<serverVars, connVars, listenVars>>

ConnPcs == {"idle", "admitted", "offering", "waiting"}
ListenPcs == {"idle", "arrived", "counted", "looping", "select", "took",
              "announcing", "leaving", "stopping"}
AcceptPcs == {"idle", "presenting", "pumping"}

TypeOK ==
    /\ serverPc \in {"serving", "closing", "stopped"}
    /\ services \in [Names -> Objs \cup {NoObj}]
    /\ stopped \in [Objs -> BOOLEAN]
    /\ acceptChan \in [Objs -> Conns \cup {NoConn}]
    /\ listenerCount \in [Objs -> Int]
    /\ pendingAccepts \in [Tokens -> Conns \cup {NoConn}]
    /\ timers \in SUBSET Tokens
    /\ reconfigs \in 0..MaxReconfigs
    /\ connPc \in [Conns -> ConnPcs]
    /\ connSvc \in [Conns -> Objs \cup {NoObj}]
    /\ connDone \in [Conns -> BOOLEAN]
    /\ listenPc \in [Listens -> ListenPcs]
    /\ listenSvc \in [Listens -> Objs \cup {NoObj}]
    /\ listenGone \in [Listens -> BOOLEAN]
    /\ woken \in [Listens -> BOOLEAN]
    /\ held \in [Listens -> Conns \cup {NoConn}]
    /\ listenTok \in [Listens -> Tokens \cup {NoToken}]
    /\ announced \in SUBSET Tokens
    /\ acceptPc \in [Accepts -> AcceptPcs]
    /\ acceptTok \in [Accepts -> Tokens \cup {NoToken}]
    /\ acceptConn \in [Accepts -> Conns \cup {NoConn}]
    /\ acceptGone \in [Accepts -> BOOLEAN]

-----------------------------------------------------------------------------
(* Who refers to what.                                                     *)

\* The four places of the server that can hold a reference to a connection.
InQueue(c)  == \E o \in Objs : acceptChan[o] = c
InListen(c) == \E l \in Listens : held[l] = c
IsPending(c) == \E t \in Tokens : pendingAccepts[t] = c
InTunnel(c) == \E a \in Accepts : acceptConn[a] = c
InCustody(c) == InQueue(c) \/ InListen(c) \/ IsPending(c) \/ InTunnel(c)

\* An object nothing refers to is garbage: a new one may take its place.
Unused(o) ==
    /\ \A n \in Names : services[n] # o
    /\ \A l \in Listens : listenSvc[l] # o
    /\ \A c \in Conns : connSvc[c] # o
    /\ acceptChan[o] = NoConn

\* A token that is no longer pending but that somebody still refers to.  A
\* 16-byte random draw is assumed not to repeat one of these; that it repeats
\* a pending token is the case registerConnection looks for.
Retired(t) ==
    /\ pendingAccepts[t] = NoConn
    /\ \/ t \in timers \cup announced
       \/ \E l \in Listens : listenTok[l] = t
       \/ \E a \in Accepts : acceptTok[a] = t

GenerateRandomBytes == {t \in Tokens : ~Retired(t)}

-----------------------------------------------------------------------------
(* newServiceHandler and stop.                                             *)

\* Objects that some services' entry points to.
Known == {services[n] : n \in Names} \ {NoObj}

\* Faulty: stopChan is replaced by a closed one but not itself closed.
StopServicesWithoutClose(O) ==
    stopped' = [o \in Objs |-> stopped[o] \/ o \in O] /\ UNCHANGED woken

\* s.stop() for every s \in O: close the current stopChan, which wakes the
\* selects that wait on it.
StopServices(O) ==
    /\ stopped' = [o \in Objs |-> stopped[o] \/ o \in O]
    /\ woken' = [l \in Listens |-> woken[l] \/ (listenPc[l] = "select" /\ listenSvc[l] \in O)]

\* The stop channel of a new service is closed, its acceptChan is empty.
Init ==
    /\ serverPc = "serving"
    /\ services \in [Names -> Objs \cup {NoObj}]
    /\ \A n, m \in Names : services[n] = services[m] /\ services[n] # NoObj => n = m
    /\ stopped = [o \in Objs |-> TRUE]
    /\ acceptChan = [o \in Objs |-> NoConn]
    /\ listenerCount = [o \in Objs |-> 0]
    /\ pendingAccepts = [t \in Tokens |-> NoConn]
    /\ timers = {}
    /\ reconfigs = 0
    /\ connPc = [c \in Conns |-> "idle"]
    /\ connSvc = [c \in Conns |-> NoObj]
    /\ connDone = [c \in Conns |-> FALSE]
    /\ listenPc = [l \in Listens |-> "idle"]
    /\ listenSvc = [l \in Listens |-> NoObj]
    /\ listenGone = [l \in Listens |-> FALSE]
    /\ woken = [l \in Listens |-> FALSE]
    /\ held = [l \in Listens |-> NoConn]
    /\ listenTok = [l \in Listens |-> NoToken]
    /\ announced = {}
    /\ acceptPc = [a \in Accepts |-> "idle"]
    /\ acceptTok = [a \in Accepts |-> NoToken]
    /\ acceptConn = [a \in Accepts |-> NoConn]
    /\ acceptGone = [a \in Accepts |-> FALSE]

-----------------------------------------------------------------------------
(* Connect.  Calls that end before they touch the server (a failed Recv, a *)
(* first message without an address, an error or a redirect from           *)
(* OnConnectFunc) leave every variable unchanged.                          *)

\* The first message names a service, OnConnectFunc lets the call through and
\* the empty frame is sent.
ConnectRecv(c) ==
    /\ serverPc = "serving"
    /\ connPc[c] = "idle" /\ ~InCustody(c)
    /\ connPc' = [connPc EXCEPT ![c] = "admitted"]
    /\ connDone' = [connDone EXCEPT ![c] = FALSE]
    /\ UNCHANGED <<notConn, custodyVars, connSvc>>

\* s.services[address.ServiceName] under RLock; NotAcceptingConnections.
ConnectLookup(c, n) ==
    /\ connPc[c] = "admitted"
    /\ connSvc' = [connSvc EXCEPT ![c] = services[n]]
    /\ connPc' = [connPc EXCEPT ![c] = IF services[n] = NoObj THEN "idle" ELSE "offering"]
    /\ UNCHANGED <<notConn, custodyVars, connDone>>

\* service.acceptChan <- conn: blocks while the channel is full, whatever
\* happens to the caller's context or to the service meanwhile.
ConnectOffer(c) ==
    /\ connPc[c] = "offering"
    /\ acceptChan[connSvc[c]] = NoConn
    /\ acceptChan' = [acceptChan EXCEPT ![connSvc[c]] = c]
    /\ connPc' = [connPc EXCEPT ![c] = "waiting"]
    /\ connSvc' = [connSvc EXCEPT ![c] = NoObj]
    /\ UNCHANGED <<notConn, held, pendingAccepts, acceptConn, connDone>>

\* <-ctx.Done().
ConnectReturn(c) ==
    /\ connPc[c] = "waiting" /\ connDone[c]
    /\ connPc' = [connPc EXCEPT ![c] = "idle"]
    /\ UNCHANGED <<notConn, custodyVars, connSvc, connDone>>

\* The importer cancels the call or its connection breaks.
ImporterHangup(c) ==
    /\ connPc[c] # "idle" /\ ~connDone[c]
    /\ connDone' = [connDone EXCEPT ![c] = TRUE]
    /\ UNCHANGED <<notConn, custodyVars, connPc, connSvc>>

-----------------------------------------------------------------------------
(* Listen.  As above, calls refused or redirected by OnListenFunc change   *)
(* nothing.                                                                *)

\* Find the service under s.mu, creating it on the first Listen of its name.
ListenLookup(l, n) ==
    /\ serverPc = "serving"
    /\ listenPc[l] = "idle"
    /\ \/ services[n] # NoObj /\ UNCHANGED <<services, stopped>>
       \/ /\ services[n] = NoObj
          /\ \E o \in Objs :
                /\ Unused(o)
                /\ services' = [services EXCEPT ![n] = o]
                /\ stopped' = [stopped EXCEPT ![o] = TRUE]
    /\ listenSvc' = [listenSvc EXCEPT ![l] = services'[n]]
    /\ listenPc' = [listenPc EXCEPT ![l] = "arrived"]
    /\ UNCHANGED <<notListen, serverPc, listenerCount, reconfigs, listenGone, woken, listenTok>>

\* onListenerConnect, first half: atomic.AddInt32(&s.listenerCount, 1).
ListenCount(l) ==
    /\ listenPc[l] = "arrived"
    /\ listenPc' = [listenPc EXCEPT ![l] = "counted"]
    /\ listenerCount' = [listenerCount EXCEPT ![listenSvc[l]] = @ + 1]
    /\ UNCHANGED <<notListen, configVars, stopped, listenSvc, listenGone, woken, listenTok>>

\* onListenerConnect, second half: start() makes a new stopChan unless the
\* current one is open.
ListenStart(l) ==
    /\ listenPc[l] = "counted"
    /\ listenPc' = [listenPc EXCEPT ![l] = "looping"]
    /\ stopped' = [stopped EXCEPT ![listenSvc[l]] = FALSE]
    /\ UNCHANGED <<notListen, configVars, listenerCount, listenSvc, listenGone, woken, listenTok>>

\* Entering the select evaluates svc.stopChan once.
ListenSelect(l) ==
    /\ listenPc[l] = "looping"
    /\ listenPc' = [listenPc EXCEPT ![l] = "select"]
    /\ woken' = [woken EXCEPT ![l] = stopped[listenSvc[l]]]
    /\ UNCHANGED <<notListen, serverVars, listenSvc, listenGone, listenTok>>

\* Faulty: a disconnect is left to stopChan.
SelectDoneMissing(l) == FALSE

\* The three cases of the select, any ready one of which may be chosen.  Through
\* stopChan the stream ends with ServerShuttingDown.
SelectDone(l) ==
    /\ listenPc[l] = "select" /\ listenGone[l]
    /\ listenPc' = [listenPc EXCEPT ![l] = "leaving"]
    /\ woken' = [woken EXCEPT ![l] = FALSE]
    /\ UNCHANGED <<notListen, serverVars, listenSvc, listenGone, listenTok>>

SelectStopped(l) ==
    /\ listenPc[l] = "select" /\ woken[l]
    /\ listenPc' = [listenPc EXCEPT ![l] = "leaving"]
    /\ woken' = [woken EXCEPT ![l] = FALSE]
    /\ UNCHANGED <<notListen, serverVars, listenSvc, listenGone, listenTok>>

\* Faulty: connections closed while they wait are left to somebody else.
ReceivesLive(o) == acceptChan[o] # NoConn /\ ~connDone[acceptChan[o]]

Receives(o) == acceptChan[o] # NoConn

SelectAccept(l) ==
    /\ listenPc[l] = "select"
    /\ Receives(listenSvc[l])
    /\ held' = [held EXCEPT ![l] = acceptChan[listenSvc[l]]]
    /\ acceptChan' = [acceptChan EXCEPT ![listenSvc[l]] = NoConn]
    /\ listenPc' = [listenPc EXCEPT ![l] = "took"]
    /\ woken' = [woken EXCEPT ![l] = FALSE]
    /\ UNCHANGED <<serverVars, pendingAccepts, acceptConn, tokenVars, connVars, listenSvc,
                   listenGone, listenTok, acceptVars>>

\* Faulty: the token is not looked up first.
FreshTokenUnchecked(t) == t \in GenerateRandomBytes

\* The token of registerConnection: drawn again while it is one that is pending.
FreshToken(t) == t \in GenerateRandomBytes /\ pendingAccepts[t] = NoConn

\* Faulty: the closure captures the address of the Listen call, without token.
ArmTimerOfListenAddress(t) == timers' = IF AcceptTimeout THEN timers \cup {NoToken} ELSE timers

\* Faulty: no timer.
ArmNoTimer(t) == UNCHANGED timers

\* time.AfterFunc(s.acceptTimeout, ...).
ArmTimer(t) == timers' = IF AcceptTimeout THEN timers \cup {t} ELSE timers

\* registerConnection, then the token's timer.
RegisterConnection(l, t) ==
    /\ listenPc[l] = "took"
    /\ FreshToken(t)
    /\ pendingAccepts' = [pendingAccepts EXCEPT ![t] = held[l]]
    /\ held' = [held EXCEPT ![l] = NoConn]
    /\ ArmTimer(t)
    /\ listenTok' = [listenTok EXCEPT ![l] = t]
    /\ listenPc' = [listenPc EXCEPT ![l] = "announcing"]
    /\ UNCHANGED <<serverVars, acceptChan, acceptConn, announced, connVars, listenSvc,
                   listenGone, woken, acceptVars>>

\* listenServer.Send(address): the token is on its way to the exporter ...
AnnounceSent(l) ==
    /\ listenPc[l] = "announcing" /\ ~listenGone[l]
    /\ announced' = announced \cup {listenTok[l]}
    /\ listenTok' = [listenTok EXCEPT ![l] = NoToken]
    /\ listenPc' = [listenPc EXCEPT ![l] = "looping"]
    /\ UNCHANGED <<serverVars, custodyVars, timers, connVars, listenSvc, listenGone, woken,
                   acceptVars>>

\* ... or the stream is broken and the handler returns; the token stays pending.
AnnounceFailed(l) ==
    /\ listenPc[l] = "announcing" /\ listenGone[l]
    /\ listenTok' = [listenTok EXCEPT ![l] = NoToken]
    /\ listenPc' = [listenPc EXCEPT ![l] = "leaving"]
    /\ UNCHANGED <<notListen, serverVars, listenSvc, listenGone, woken>>

\* The handler returns; a new call may follow.
ListenReturns(l) ==
    /\ listenPc' = [listenPc EXCEPT ![l] = "idle"]
    /\ listenSvc' = [listenSvc EXCEPT ![l] = NoObj]
    /\ listenGone' = [listenGone EXCEPT ![l] = FALSE]

\* Faulty: the value before the decrement is compared.
LastToLeaveBefore(o) == listenerCount[o] = 0

\* atomic.AddInt32(&s.listenerCount, -1) == 0.
LastToLeave(o) == listenerCount[o] - 1 = 0

\* onListenerDisconnect, first half: the decrement.
ListenLeave(l) ==
    /\ listenPc[l] = "leaving"
    /\ listenerCount' = [listenerCount EXCEPT ![listenSvc[l]] = @ - 1]
    /\ \/ /\ LastToLeave(listenSvc[l])
          /\ listenPc' = [listenPc EXCEPT ![l] = "stopping"]
          /\ UNCHANGED <<listenSvc, listenGone>>
       \/ ~LastToLeave(listenSvc[l]) /\ ListenReturns(l)
    /\ UNCHANGED <<notListen, configVars, stopped, woken, listenTok>>

\* onListenerDisconnect, second half: s.stop().
ListenStop(l) ==
    /\ listenPc[l] = "stopping"
    /\ StopServices({listenSvc[l]})
    /\ ListenReturns(l)
    /\ UNCHANGED <<notListen, configVars, listenerCount, listenTok>>

\* The exporter of the stream goes away.
ExporterHangup(l) ==
    /\ listenPc[l] # "idle" /\ ~listenGone[l]
    /\ listenGone' = [listenGone EXCEPT ![l] = TRUE]
    /\ UNCHANGED <<notListen, serverVars, listenPc, listenSvc, woken, listenTok>>

-----------------------------------------------------------------------------
(* AcceptConnection and the accept timer.                                  *)

\* An exporter answers an announcement: one call per token it received.
AcceptRecv(a, t) ==
    /\ serverPc = "serving"
    /\ acceptPc[a] = "idle"
    /\ t \in announced
    /\ announced' = announced \ {t}
    /\ acceptTok' = [acceptTok EXCEPT ![a] = t]
    /\ acceptPc' = [acceptPc EXCEPT ![a] = "presenting"]
    /\ UNCHANGED <<notAccept, custodyVars, timers, acceptGone>>

\* The announcement is lost: its stream broke, or the exporter is gone before
\* it could open the call.
AnnouncementLost(t) ==
    /\ t \in announced
    /\ announced' = announced \ {t}
    /\ UNCHANGED <<notAccept, custodyVars, timers, acceptVars>>

\* Faulty: the entry stays.
DeregisterKeeps(t) == UNCHANGED pendingAccepts

\* The map entry goes, in the critical section of s.mu that read it.
DeregisterAccept(t) == pendingAccepts' = [pendingAccepts EXCEPT ![t] = NoConn]

AcceptDeregister(a) ==
    /\ acceptPc[a] = "presenting"
    /\ pendingAccepts[acceptTok[a]] # NoConn
    /\ acceptConn' = [acceptConn EXCEPT ![a] = pendingAccepts[acceptTok[a]]]
    /\ DeregisterAccept(acceptTok[a])
    /\ acceptTok' = [acceptTok EXCEPT ![a] = NoToken]
    /\ acceptPc' = [acceptPc EXCEPT ![a] = "pumping"]
    /\ UNCHANGED <<notAccept, acceptChan, held, tokenVars, acceptGone>>

\* InvalidToken.
AcceptInvalid(a) ==
    /\ acceptPc[a] = "presenting"
    /\ pendingAccepts[acceptTok[a]] = NoConn
    /\ acceptPc' = [acceptPc EXCEPT ![a] = "idle"]
    /\ acceptTok' = [acceptTok EXCEPT ![a] = NoToken]
    /\ acceptGone' = [acceptGone EXCEPT ![a] = FALSE]
    /\ UNCHANGED <<notAccept, custodyVars, tokenVars>>

\* ctx is cancelled: the exporter hung up, or both pumps are done.
TunnelDone(a) ==
    /\ acceptPc[a] = "pumping" /\ ~acceptGone[a]
    /\ acceptGone' = [acceptGone EXCEPT ![a] = TRUE]
    /\ UNCHANGED <<notAccept, custodyVars, tokenVars, acceptPc, acceptTok>>

\* The deferred conn1.Close() and the return of the handler.
AcceptReturn(a) ==
    /\ acceptPc[a] = "pumping" /\ acceptGone[a]
    /\ connDone' = [connDone EXCEPT ![acceptConn[a]] = TRUE]
    /\ acceptConn' = [acceptConn EXCEPT ![a] = NoConn]
    /\ acceptPc' = [acceptPc EXCEPT ![a] = "idle"]
    /\ acceptGone' = [acceptGone EXCEPT ![a] = FALSE]
    /\ UNCHANGED <<serverVars, acceptChan, held, pendingAccepts, tokenVars, connPc, connSvc,
                   listenVars, acceptTok>>

\* The AfterFunc of token t: a connection that is still pending is closed.
TimerFire(t) ==
    /\ t \in timers
    /\ timers' = timers \ {t}
    /\ DeregisterAccept(t)
    /\ connDone' = [c \in Conns |-> connDone[c] \/ c = pendingAccepts[t]]
    /\ UNCHANGED <<serverVars, acceptChan, held, acceptConn, announced, connPc, connSvc,
                   listenVars, acceptVars>>

-----------------------------------------------------------------------------
(* SetServices and Stop.                                                   *)

\* Services already known are stopped whether they stay or go; the stops act
\* on distinct objects that interact only through s.mu, which is held, so that
\* they may be taken together.
SetServices(cfg) ==
    /\ reconfigs < MaxReconfigs
    /\ reconfigs' = reconfigs + 1
    /\ \E new \in [cfg -> Objs] :
          /\ \A n \in cfg : IF services[n] # NoObj THEN new[n] = services[n] ELSE Unused(new[n])
          /\ \A n, m \in cfg : new[n] = new[m] => n = m
          /\ services' = [n \in Names |-> IF n \in cfg THEN new[n] ELSE NoObj]
          /\ StopServices(Known \cup {new[n] : n \in cfg})
    /\ UNCHANGED <<notListen, serverPc, listenerCount, listenPc, listenSvc, listenGone, listenTok>>

\* s.Server.Stop(): every stream breaks and no call is accepted any more.
StopGrpc ==
    /\ serverPc = "serving"
    /\ serverPc' = "closing"
    /\ connDone' = [c \in Conns |-> connDone[c] \/ connPc[c] # "idle"]
    /\ listenGone' = [l \in Listens |-> listenGone[l] \/ listenPc[l] # "idle"]
    /\ acceptGone' = [a \in Accepts |-> acceptGone[a] \/ acceptPc[a] # "idle"]
    /\ announced' = {}
    /\ UNCHANGED <<services, reconfigs, countVars, custodyVars, timers, connPc, connSvc,
                   listenPc, listenSvc, woken, listenTok, acceptPc, acceptTok>>

\* The loop over s.services that follows.
StopAll ==
    /\ serverPc = "closing"
    /\ serverPc' = "stopped"
    /\ StopServices(Known)
    /\ UNCHANGED <<notListen, services, reconfigs, listenerCount, listenPc, listenSvc,
                   listenGone, listenTok>>

\* After Stop everything has returned, except Connect handlers stuck on a full
\* acceptChan that nobody reads any more.
Terminated ==
    /\ serverPc = "stopped" /\ timers = {}
    /\ \A c \in Conns : connPc[c] \in {"idle", "offering"}
    /\ \A l \in Listens : listenPc[l] = "idle"
    /\ \A a \in Accepts : acceptPc[a] = "idle"
    /\ UNCHANGED vars

-----------------------------------------------------------------------------
Connect(c) ==
    \/ ConnectRecv(c)
    \/ \E n \in Names : ConnectLookup(c, n)
    \/ ConnectOffer(c)
    \/ ConnectReturn(c)
    \/ ImporterHangup(c)

ListenStep(l) ==
    \/ ListenCount(l) \/ ListenStart(l) \/ ListenSelect(l)
    \/ SelectDone(l) \/ SelectStopped(l) \/ SelectAccept(l)
    \/ \E t \in Tokens : RegisterConnection(l, t)
    \/ AnnounceSent(l) \/ AnnounceFailed(l)
    \/ ListenLeave(l) \/ ListenStop(l)

Listen(l) ==
    \/ \E n \in Names : ListenLookup(l, n)
    \/ ListenStep(l)
    \/ ExporterHangup(l)

AcceptConnection(a) ==
    \/ \E t \in Tokens : AcceptRecv(a, t)
    \/ AcceptDeregister(a) \/ AcceptInvalid(a)
    \/ TunnelDone(a) \/ AcceptReturn(a)

Next ==
    \/ \E c \in Conns : Connect(c)
    \/ \E l \in Listens : Listen(l)
    \/ \E a \in Accepts : AcceptConnection(a)
    \/ \E t \in Tokens : AnnouncementLost(t) \/ TimerFire(t)
    \/ \E cfg \in SUBSET Names : SetServices(cfg)
    \/ StopGrpc \/ StopAll
    \/ Terminated

Spec == Init /\ [][Next]_vars

(* Goroutines keep running, timers fire and a message on the wire is either *)
(* delivered or lost; importers, exporters and the operator do as they like.*)
(* A select that is entered again and again with two cases ready does not   *)
(* prefer one for ever (Go picks at random), and blocked senders of a       *)
(* channel are served in the order in which they came.                      *)
Fairness ==
    /\ \A c \in Conns :
          /\ WF_vars(\E n \in Names : ConnectLookup(c, n))
          /\ SF_vars(ConnectOffer(c))
          /\ WF_vars(ConnectReturn(c))
    /\ \A l \in Listens :
          /\ WF_vars(ListenStep(l))
          /\ SF_vars(SelectDone(l))
          /\ SF_vars(SelectStopped(l))
    /\ \A a \in Accepts : WF_vars(AcceptDeregister(a) \/ AcceptInvalid(a) \/ AcceptReturn(a))
    /\ \A t \in Tokens :
          /\ WF_vars(TimerFire(t))
          /\ WF_vars(AnnouncementLost(t) \/ \E a \in Accepts : AcceptRecv(a, t))
    /\ WF_vars(StopAll)

FairSpec == Spec /\ Fairness

-----------------------------------------------------------------------------
(* Safety.                                                                 *)

\* A connection is in at most one place of the server, and there only once:
\* it is never announced under two tokens, never given to two exporters, and
\* never both pending (where a timer may close it) and in a tunnel.  Until its
\* Connect handler has put it into acceptChan it is nowhere.
SingleCustody ==
    /\ \A o, p \in Objs : acceptChan[o] = acceptChan[p] /\ acceptChan[o] # NoConn => o = p
    /\ \A l, m \in Listens : held[l] = held[m] /\ held[l] # NoConn => l = m
    /\ \A t, u \in Tokens :
          pendingAccepts[t] = pendingAccepts[u] /\ pendingAccepts[t] # NoConn => t = u
    /\ \A a, b \in Accepts : acceptConn[a] = acceptConn[b] /\ acceptConn[a] # NoConn => a = b
    /\ \A c \in Conns :
          /\ InQueue(c) => ~InListen(c) /\ ~IsPending(c) /\ ~InTunnel(c)
          /\ InListen(c) => ~IsPending(c) /\ ~InTunnel(c)
          /\ IsPending(c) => ~InTunnel(c)
          /\ connPc[c] \in {"admitted", "offering"} => ~InCustody(c)

\* The local variables of the handlers are set in exactly the states in which
\* the code uses them; the invariants above and below rest on it.
LocalsMatchPc ==
    /\ \A c \in Conns : connSvc[c] # NoObj <=> connPc[c] = "offering"
    /\ \A l \in Listens :
          /\ listenSvc[l] # NoObj <=> listenPc[l] # "idle"
          /\ held[l] # NoConn <=> listenPc[l] = "took"
          /\ listenTok[l] # NoToken <=> listenPc[l] = "announcing"
    /\ \A a \in Accepts :
          /\ acceptTok[a] # NoToken <=> acceptPc[a] = "presenting"
          /\ acceptConn[a] # NoConn <=> acceptPc[a] = "pumping"

\* Handlers between the increment and the decrement of listenerCount.
Counted(o) ==
    {l \in Listens :
        /\ listenPc[l] \in {"counted", "looping", "select", "took", "announcing", "leaving"}
        /\ listenSvc[l] = o}

\* listenerCount is exact, and a service whose stopChan is open has a listener
\* or one that is about to stop it: with the increment, the decrement, start()
\* and stop() interleaved in any order, no service keeps running that nobody
\* will ever stop.
ListenerAccounting ==
    \A o \in Objs :
        /\ listenerCount[o] = Cardinality(Counted(o))
        /\ ~stopped[o] =>
              \/ listenerCount[o] > 0
              \/ \E l \in Listens : listenPc[l] = "stopping" /\ listenSvc[l] = o

\* An entry of pendingAccepts is only ever deleted, never overwritten: the
\* connection an exporter gets for its token is the one it was sent for.
PendingNeverReplaced ==
    [][\A t \in Tokens :
          pendingAccepts[t] # NoConn => pendingAccepts'[t] \in {pendingAccepts[t], NoConn}]_vars

\* The timer of a token does not touch a connection that was accepted in time,
\* in whatever order the timer and the AcceptConnection call come.
TimerSparesTunnels ==
    [][\A t \in Tokens :
          TimerFire(t) => \A c \in Conns : InTunnel(c) => connDone'[c] = connDone[c]]_vars

\* The detailed hand-off implements the abstract one.
Exch == INSTANCE Exchange
    WITH open <- {c \in Conns : ~connDone[c]},
         queue <- {c \in Conns : InQueue(c)},
         server <- {c \in Conns : InListen(c) \/ IsPending(c)},
         tunnel <- acceptConn

ImplementsExchange == Exch!Spec

-----------------------------------------------------------------------------
(* Liveness, under FairSpec.                                               *)

\* With an accept timeout, a connection that a Listen handler took from the
\* queue does not stay in the server for ever, whatever exporters do: it gets
\* into a tunnel or its Connect call returns.
TakenIsSettled ==
    \A c \in Conns : InListen(c) \/ IsPending(c) ~> InTunnel(c) \/ connPc[c] = "idle"

Serving(l, o) ==
    /\ listenSvc[l] = o
    /\ listenPc[l] \in {"looping", "select", "took", "announcing"}
    /\ ~listenGone[l]

\* A live Listen stream does not leave a connection in its service's queue.
QueuedIsServed ==
    \A o \in Objs, l \in Listens :
        acceptChan[o] # NoConn /\ Serving(l, o) ~> acceptChan[o] = NoConn \/ ~Serving(l, o)

\* stop() reaches every Listen stream of the service, unless a later start()
\* revives the service first.
StopReachesListeners ==
    \A l \in Listens, o \in Objs :
        stopped[o] /\ Serving(l, o) ~> ~stopped[o] \/ ~Serving(l, o)

\* A Connect call whose importer has left returns, provided that some listener
\* stays with the service: nothing but a listener can release a handler that is
\* blocked on acceptChan.
CancelledConnectReturns ==
    (\A o \in Objs : \E l \in Listens : <>[]Serving(l, o))
        => \A c \in Conns : connDone[c] /\ connPc[c] # "idle" ~> connPc[c] = "idle"

\* After Stop every Listen and AcceptConnection handler returns.
StopDrains ==
    serverPc = "stopped" ~> /\ \A l \in Listens : listenPc[l] = "idle"
                            /\ \A a \in Accepts : acceptPc[a] = "idle"
=============================================================================
