-------------------------- MODULE ServiceLifecycle --------------------------
(***************************************************************************)
(* One service of the server that has a Listen address: Listen handlers    *)
(* start it when they join and stop it when the last one leaves, its       *)
(* goroutine (TcpService) feeds acceptChan, and SetServices stops it while *)
(* it holds Server.mu (internal/pkg/server/server.go).                     *)
(*                                                                         *)
(* Abstracted: what becomes of a connection after registerConnection (see  *)
(* Rendezvous), the services of importers' Connect calls, and the          *)
(* finalizer: as long as the address stays, listenerToClose refers to the  *)
(* only listener that can be open.                                         *)
(***************************************************************************)
EXTENDS TcpService, Naturals, FiniteSets

CONSTANTS
    Listens,   \* Listen calls
    MaxReloads \* bound: SetServices calls

ASSUME LifecycleAssumption == MaxReloads \in Nat /\ IsFiniteSet(Listens)

VARIABLES
    listenPc,      \* the Listen handlers
    listenChan,    \* the stopChan the current select waits on
    listenerCount, \* service.listenerCount
    acceptChan,    \* number of connections in the channel, 0 or 1
    handChan,      \* the stopChan the goroutine's select waits on
    reloadPc,      \* SetServices; Server.mu is held unless it is "idle"
    reloads

handlerVars == <<listenPc, listenChan, listenerCount>>
reloadVars == <<reloadPc, reloads>>
vars == <<tcpVars, handlerVars, acceptChan, handChan, reloadVars>>

TypeOK ==
    /\ TcpTypeOK
    /\ listenPc \in [Listens -> {"idle", "arrived", "starting", "looping", "select",
                                 "register", "leaving", "stopping", "waiting"}]
    /\ listenChan \in [Listens -> Gens \cup {NoGen}]
    /\ listenerCount \in 0..Cardinality(Listens)
    /\ acceptChan \in 0..1
    /\ handChan \in [Gens -> Gens \cup {NoGen}]
    /\ reloadPc \in {"idle", "stopping", "waiting"}
    /\ reloads \in 0..MaxReloads

Init ==
    /\ TcpInit
    /\ listenPc = [l \in Listens |-> "idle"]
    /\ listenChan = [l \in Listens |-> NoGen]
    /\ listenerCount = 0 /\ acceptChan = 0
    /\ handChan = [g \in Gens |-> NoGen]
    /\ reloadPc = "idle" /\ reloads = 0

MuFree == reloadPc = "idle"

Free(g) ==
    /\ \A l \in Listens : listenChan[l] # g
    /\ \A k \in Gens : handChan[k] # g

Goto(l, from, to) == listenPc[l] = from /\ listenPc' = [listenPc EXCEPT ![l] = to]

-----------------------------------------------------------------------------
(* Listen.                                                                 *)

\* s.services[name], under Server.mu.
ListenLookup(l) ==
    /\ MuFree
    /\ Goto(l, "idle", "arrived")
    /\ UNCHANGED <<tcpVars, listenChan, listenerCount, acceptChan, handChan, reloadVars>>

\* Faulty: the stream is not counted.
ListenUncounted(l) ==
    /\ Goto(l, "arrived", "starting")
    /\ UNCHANGED <<tcpVars, listenChan, listenerCount, acceptChan, handChan, reloadVars>>

ListenCount(l) ==
    /\ Goto(l, "arrived", "starting")
    /\ listenerCount' = listenerCount + 1
    /\ UNCHANGED <<tcpVars, listenChan, acceptChan, handChan, reloadVars>>

ListenStart(l) ==
    /\ Goto(l, "starting", "looping")
    /\ \E g \in Gens : Free(g) /\ Start(g)
    /\ UNCHANGED <<config, listenerToClose, bound, listenChan, listenerCount, acceptChan,
                   handChan, reloadVars>>

ListenSelect(l) ==
    /\ Goto(l, "looping", "select")
    /\ listenChan' = [listenChan EXCEPT ![l] = stopChan]
    /\ UNCHANGED <<tcpVars, listenerCount, acceptChan, handChan, reloadVars>>

\* The select ends because the stream is gone, which happens at any moment ...
SelectDone(l) ==
    /\ Goto(l, "select", "leaving")
    /\ listenChan' = [listenChan EXCEPT ![l] = NoGen]
    /\ UNCHANGED <<tcpVars, listenerCount, acceptChan, handChan, reloadVars>>

\* ... because its stopChan is closed ...
SelectStopped(l) == Closed(listenChan[l]) /\ SelectDone(l)

\* ... or with a connection.
SelectAccept(l) ==
    /\ acceptChan = 1
    /\ Goto(l, "select", "register")
    /\ listenChan' = [listenChan EXCEPT ![l] = NoGen]
    /\ acceptChan' = 0
    /\ UNCHANGED <<tcpVars, listenerCount, handChan, reloadVars>>

\* registerConnection needs Server.mu; then Send succeeds or fails.
Register(l) ==
    /\ MuFree
    /\ Goto(l, "register", "looping") \/ Goto(l, "register", "leaving")
    /\ UNCHANGED <<tcpVars, listenChan, listenerCount, acceptChan, handChan, reloadVars>>

\* Faulty: the count is read before the decrement.
LeaveStale(l) ==
    /\ Goto(l, "leaving", IF listenerCount = 0 THEN "stopping" ELSE "idle")
    /\ listenerCount' = listenerCount - 1
    /\ UNCHANGED <<tcpVars, listenChan, acceptChan, handChan, reloadVars>>

\* onListenerDisconnect.
ListenLeave(l) ==
    /\ Goto(l, "leaving", IF listenerCount = 1 THEN "stopping" ELSE "idle")
    /\ listenerCount' = listenerCount - 1
    /\ UNCHANGED <<tcpVars, listenChan, acceptChan, handChan, reloadVars>>

ListenStop(l) ==
    /\ Goto(l, "stopping", "waiting")
    /\ Stop
    /\ UNCHANGED <<config, stopChan, listenerToClose, loopPc, listenChan, listenerCount,
                   acceptChan, handChan, reloadVars>>

ListenReturn(l) ==
    /\ LoopsDone
    /\ Goto(l, "waiting", "idle")
    /\ UNCHANGED <<tcpVars, listenChan, listenerCount, acceptChan, handChan, reloadVars>>

-----------------------------------------------------------------------------
(* The goroutine: what it does with a connection.                          *)

\* Accept returns one and the select that follows evaluates s.stopChan.
Accept(g) ==
    /\ bound[g] # NoAddr
    /\ Step(g, "accept", "hand")
    /\ handChan' = [handChan EXCEPT ![g] = stopChan]
    /\ UNCHANGED <<config, stopChan, stopped, listenerToClose, bound, handlerVars, acceptChan,
                   reloadVars>>

\* Faulty: the send on acceptChan is not part of a select.
HandWaits(g) == acceptChan = 0 /\ acceptChan' = 1

\* s.acceptChan <- conn, or conn.Close() once the stopChan is closed.
HandOver(g) ==
    \/ acceptChan = 0 /\ acceptChan' = 1
    \/ Closed(handChan[g]) /\ UNCHANGED acceptChan

Hand(g) ==
    /\ Step(g, "hand", "check")
    /\ HandOver(g)
    /\ handChan' = [handChan EXCEPT ![g] = NoGen]
    /\ UNCHANGED <<config, stopChan, stopped, listenerToClose, bound, handlerVars, reloadVars>>

\* The deferred wg.Done().
Done(g) ==
    /\ Step(g, "returning", "none")
    /\ UNCHANGED <<config, stopChan, stopped, listenerToClose, bound>>

Loop(g) ==
    \/ Hand(g)
    \/ /\ Bind(g) \/ Assign(g) \/ Check(g) \/ AcceptEnds(g) \/ Done(g)
       /\ UNCHANGED <<handlerVars, acceptChan, handChan, reloadVars>>

Break(g) ==
    /\ MayFail
    /\ AcceptFails(g)
    /\ UNCHANGED <<handlerVars, acceptChan, handChan, reloadVars>>

-----------------------------------------------------------------------------
(* SetServices, for a service it knows: the new configuration, then stop().*)

SetServices(a) ==
    /\ MuFree /\ reloads < MaxReloads
    /\ reloads' = reloads + 1
    /\ reloadPc' = "stopping"
    /\ config' = a
    /\ UNCHANGED <<stopChan, stopped, listenerToClose, loopPc, bound, handlerVars, acceptChan,
                   handChan>>

ReloadStop ==
    /\ reloadPc = "stopping"
    /\ reloadPc' = "waiting"
    /\ Stop
    /\ UNCHANGED <<config, stopChan, listenerToClose, loopPc, handlerVars, acceptChan, handChan,
                   reloads>>

ReloadReturn ==
    /\ reloadPc = "waiting" /\ LoopsDone
    /\ reloadPc' = "idle"
    /\ UNCHANGED <<tcpVars, handlerVars, acceptChan, handChan, reloads>>

-----------------------------------------------------------------------------
Handler(l) ==
    \/ ListenCount(l) \/ ListenStart(l) \/ ListenSelect(l) \/ SelectAccept(l) \/ Register(l)
    \/ ListenLeave(l) \/ ListenStop(l) \/ ListenReturn(l)

Next ==
    \/ \E l \in Listens : ListenLookup(l) \/ SelectDone(l) \/ Handler(l)
    \/ \E g \in Gens : Accept(g) \/ Loop(g) \/ Break(g)
    \/ (\E a \in Addrs : SetServices(a)) \/ ReloadStop \/ ReloadReturn

Spec == Init /\ [][Next]_vars

(* Goroutines run.  Exporters, application connections and operators come  *)
(* and go as they like; Go picks among the ready cases of a select at      *)
(* random, so that none is passed over for ever.                           *)
Fairness ==
    /\ \A l \in Listens : WF_vars(Handler(l)) /\ SF_vars(SelectStopped(l))
    /\ \A g \in Gens : WF_vars(Loop(g))
    /\ WF_vars(ReloadStop \/ ReloadReturn)

FairSpec == Spec /\ Fairness

-----------------------------------------------------------------------------
\* onListenerConnect and onListenerDisconnect (server.go:296-305), two steps each:
\* whenever the service is open there is a handler that will stop it or leave it to
\* the last of the others, however they and SetServices interleave.
OpenHasCaretaker ==
    ~stopped => \E l \in Listens : listenPc[l] \notin {"idle", "arrived", "waiting"}

\* Once no exporter is left, the service is stopped and its goroutines are gone;
\* in particular every stop() has returned.
UnservedIsQuiet ==
    <>[](\A l \in Listens : listenPc[l] \in {"idle", "waiting"})
        => <>[](stopped /\ LoopsDone)

\* The last one to leave does not wait for ever in stop(), unless others serve, or one
\* of them is kept in registerConnection by a reload (see TakenIsAnnounced).
StopReturns ==
    \A l \in Listens :
        listenPc[l] = "waiting" ~>
            \/ listenPc[l] = "idle"
            \/ \E k \in Listens : listenPc[k] \in {"looping", "select", "register"}

\* server.go:462 says "send an event to the client so he can accept the
\* connection": a connection taken from acceptChan is announced.
TakenIsAnnounced ==
    \A l \in Listens : listenPc[l] = "register" ~> listenPc[l] # "register"
=============================================================================
