----------------------------- MODULE TcpService -----------------------------
(***************************************************************************)
(* The TCP side of one service: stop(), start() and the goroutine that     *)
(* start() runs, in internal/pkg/server/server.go and, line by line the    *)
(* same, in internal/pkg/importer/importer.go.  ServiceLifecycle and       *)
(* Importer say who calls stop and start and where connections go.         *)
(*                                                                         *)
(* A member of Gens stands for one generation: the stopChan that a start() *)
(* makes, the goroutine it runs and the net.Listener that goroutine opens. *)
(* svc.mu protects short sections, which are single steps.                 *)
(***************************************************************************)
CONSTANTS
    Gens,    \* generations that exist at the same time
    NoGen,
    Addrs,   \* Listen addresses
    NoAddr,
    MayFail  \* TRUE iff net.Listen and Accept may fail for outside reasons

ASSUME TcpAssumption ==
    /\ NoGen \notin Gens
    /\ NoAddr \notin Addrs
    /\ MayFail \in BOOLEAN

VARIABLES
    config,          \* service.config.Listen
    stopChan,        \* the generation of service.stopChan
    stopped,         \* isStopped(service.stopChan)
    listenerToClose, \* the generation of that listener
    loopPc,          \* the goroutine; "none" when it does not run
    bound            \* address of the open listener, NoAddr when it is closed

tcpVars == <<config, stopChan, stopped, listenerToClose, loopPc, bound>>

LoopPcs == {"none", "bind", "assign", "check", "accept", "hand", "returning"}

TcpTypeOK ==
    /\ config \in Addrs
    /\ stopChan \in Gens \cup {NoGen}
    /\ stopped \in BOOLEAN
    /\ listenerToClose \in Gens \cup {NoGen}
    /\ loopPc \in [Gens -> LoopPcs]
    /\ bound \in [Gens -> Addrs \cup {NoAddr}]

\* newServiceHandler: the first stopChan is made closed.
TcpInit ==
    /\ config \in Addrs
    /\ stopChan = NoGen /\ stopped = TRUE /\ listenerToClose = NoGen
    /\ loopPc = [g \in Gens |-> "none"]
    /\ bound = [g \in Gens |-> NoAddr]

\* The channel of generation g is closed: only the current one can be open.
Closed(g) == g # stopChan \/ stopped

\* A generation nothing refers to any more.
Reusable(g) ==
    loopPc[g] = "none" /\ bound[g] = NoAddr /\ g \notin {stopChan, listenerToClose}

\* service.wg counts the goroutines.
LoopsDone == \A g \in Gens : loopPc[g] = "none"

Step(g, from, to) == loopPc[g] = from /\ loopPc' = [loopPc EXCEPT ![g] = to]

\* Faulty: the listener is left to the goroutine.
StopKeepsListener == stopped' = TRUE /\ UNCHANGED bound

\* stop() up to wg.Wait().
Stop ==
    /\ stopped' = TRUE
    /\ bound' = IF ~stopped /\ listenerToClose # NoGen
                  THEN [bound EXCEPT ![listenerToClose] = NoAddr]
                  ELSE bound

\* start(): nothing to do if the current stopChan is open.
Start(g) ==
    IF stopped
      THEN /\ Reusable(g)
           /\ stopChan' = g /\ stopped' = FALSE
           /\ Step(g, "none", "bind")
      ELSE UNCHANGED <<stopChan, stopped, loopPc>>

-----------------------------------------------------------------------------
(* The goroutine.                                                          *)

\* net.Listen fails if the address is in use.
Bind(g) ==
    /\ \/ /\ \A k \in Gens : bound[k] # config
          /\ Step(g, "bind", "assign")
          /\ bound' = [bound EXCEPT ![g] = config]
       \/ /\ MayFail \/ \E k \in Gens : bound[k] = config
          /\ Step(g, "bind", "returning")
          /\ UNCHANGED bound
    /\ UNCHANGED <<config, stopChan, stopped, listenerToClose>>

\* Faulty: stop() is not told about the listener.
AssignNothing(g) == Step(g, "assign", "check") /\ UNCHANGED listenerToClose

SetListenerToClose(g) == Step(g, "assign", "check") /\ listenerToClose' = g

Assign(g) ==
    SetListenerToClose(g) /\ UNCHANGED <<config, stopChan, stopped, bound>>

\* The stopChan of this moment is looked at, without the lock; a goroutine that
\* finds it closed returns and leaves its listener as it is.
Check(g) ==
    /\ Step(g, "check", IF stopped THEN "returning" ELSE "accept")
    /\ UNCHANGED <<config, stopChan, stopped, listenerToClose, bound>>

\* Accept fails, for want of a resource, and the goroutine returns ...
AcceptFails(g) ==
    /\ Step(g, "accept", "returning")
    /\ UNCHANGED <<config, stopChan, stopped, listenerToClose, bound>>

\* ... as it does, for certain, when the listener has been closed.
AcceptEnds(g) == bound[g] = NoAddr /\ AcceptFails(g)

\* The Go runtime closes a listener that is not referenced any more.
Finalize(g) ==
    /\ bound[g] # NoAddr
    /\ loopPc[g] \in {"none", "returning"} /\ listenerToClose # g
    /\ bound' = [bound EXCEPT ![g] = NoAddr]
    /\ UNCHANGED <<config, stopChan, stopped, listenerToClose, loopPc>>

\* A goroutine that still accepts does so on a listener that stop() closes, or
\* that is closed already: no port stays served behind the back of stop().
\* (In the server this is so while the address stays: there SetServices may find a
\* goroutine of a later start() at work, and two addresses may then be served.)
AcceptingIsClosable ==
    \A g \in Gens :
        loopPc[g] \in {"check", "accept", "hand"} /\ bound[g] # NoAddr
            => listenerToClose = g
=============================================================================
