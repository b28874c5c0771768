--------------------------- MODULE ImporterProofs ---------------------------
(***************************************************************************)
(* Proofs about Importer, for every number of generations, connections,    *)
(* addresses and servers.  Two facts carry them: no goroutine runs but the *)
(* one of the present stopChan, because start() follows a stop() that      *)
(* waited; and a context that is not cancelled has its goroutine, because  *)
(* cancel() precedes wg.Done().                                            *)
(***************************************************************************)
EXTENDS Importer, TLAPS

-----------------------------------------------------------------------------
\* SetServices works on a service it knows, and stop() comes before start().
ReloadOrder ==
    /\ reloadPc # "idle" => present
    /\ ~present \/ reloadPc \in {"waiting", "starting"} => stopped

\* The goroutine that runs is that of the present stopChan; it has been told to
\* stop only while stop() waits for it.
OneGoroutine ==
    \A g \in Gens : loopPc[g] # "none" =>
        /\ g = stopChan /\ present /\ reloadPc # "starting"
        /\ stopped => reloadPc = "waiting"

\* cancel() precedes wg.Done().
EndedIsCancelled == \A g \in Gens : loopPc[g] = "none" => ctxDone[g]

\* A connection that is being served has the context of a goroutine.
ServedHasContext == \A c \in Conns : connPc[c] # "none" => connGen[c] \in Gens

IInv ==
    /\ TypeOK
    /\ ReloadOrder
    /\ OneGoroutine
    /\ EndedIsCancelled
    /\ ServedHasContext
    /\ AcceptingIsClosable
    /\ NothingOutlivesStop
    /\ CachedIsCurrent

\* No service is there at the start, and nothing runs.
LEMMA IInvInit == Init => IInv
  BY TcpAssumption, ImporterAssumption
  DEF Init, TcpInit, IInv, TypeOK, TcpTypeOK, LoopPcs, ReloadOrder, OneGoroutine,
      EndedIsCancelled, ServedHasContext, AcceptingIsClosable, NothingOutlivesStop,
      CachedIsCurrent

\* Every step of SetServices, of the goroutine and of connect() keeps all of it.
LEMMA IInvStep == IInv /\ [Next]_vars => IInv'
  <1> SUFFICES ASSUME IInv, [Next]_vars PROVE IInv'
    OBVIOUS
  <1> USE TcpAssumption, ImporterAssumption
      DEF IInv, TypeOK, TcpTypeOK, LoopPcs, ReloadOrder, OneGoroutine, EndedIsCancelled,
          ServedHasContext, AcceptingIsClosable, NothingOutlivesStop, CachedIsCurrent, Closed,
          tcpVars, reloadVars, connVars
  <1>1. ASSUME NEW a \in Addrs, Add(a) PROVE IInv'
    BY <1>1 DEF Add
  <1>2. ASSUME NEW a \in Addrs \cup {NoAddr}, Change(a) PROVE IInv'
    BY <1>2 DEF Change
  <1>3. CASE ReloadStop
    BY <1>3 DEF ReloadStop, Stop
  <1>4. CASE ReloadContinue
    BY <1>4 DEF ReloadContinue, StopReturns, Waited, LoopsDone
  <1>5. ASSUME NEW g \in Gens, ReloadStart(g) PROVE IInv'
    <2>1. /\ stopped /\ reloadPc = "starting" /\ present
          /\ \A k \in Gens : loopPc[k] = "none"
          /\ \A c \in Conns : connPc[c] \notin {"asking", "tunnel"}
      BY <1>5 DEF ReloadStart
    <2>2. /\ stopChan' = g /\ stopped' = FALSE /\ reloadPc' = "idle"
          /\ loopPc' = [loopPc EXCEPT ![g] = "bind"]
          /\ ctxDone' = [ctxDone EXCEPT ![g] = FALSE]
          /\ UNCHANGED <<config, listenerToClose, bound, present, wanted, connVars>>
      BY <1>5, <2>1 DEF ReloadStart, Start, Step
    <2>3. TypeOK'
      BY <2>1, <2>2
    <2>4. ReloadOrder' /\ OneGoroutine' /\ EndedIsCancelled'
      BY <2>1, <2>2
    <2>5. ServedHasContext' /\ AcceptingIsClosable' /\ NothingOutlivesStop' /\ CachedIsCurrent'
      BY <2>1, <2>2
    <2>6. QED
      BY <2>3, <2>4, <2>5
  <1>6. ASSUME NEW g \in Gens, Tcp(g) PROVE IInv'
    <2>1. CASE Bind(g)
      BY <1>6, <2>1 DEF Tcp, Bind, Step
    <2>2. CASE Assign(g)
      BY <1>6, <2>2 DEF Tcp, Assign, SetListenerToClose, Step
    <2>3. CASE Check(g)
      BY <1>6, <2>3 DEF Tcp, Check, Step
    <2>4. CASE AcceptEnds(g)
      BY <1>6, <2>4 DEF Tcp, AcceptEnds, AcceptFails, Step
    <2>5. QED
      BY <1>6, <2>1, <2>2, <2>3, <2>4 DEF Tcp
  <1>7. ASSUME NEW g \in Gens, Cancel(g) PROVE IInv'
    BY <1>7 DEF Cancel
  <1>8. ASSUME NEW g \in Gens, Done(g) PROVE IInv'
    BY <1>8 DEF Done, WgDone, Step
  <1>9. ASSUME NEW g \in Gens, Break(g) PROVE IInv'
    BY <1>9 DEF Break, AcceptFails, Step
  <1>10. ASSUME NEW g \in Gens, Collect(g) PROVE IInv'
    BY <1>10 DEF Collect, Finalize
  <1>11. ASSUME NEW g \in Gens, NEW c \in Conns, Accept(g, c) PROVE IInv'
    BY <1>11 DEF Accept, Step, Goto
  <1>12. ASSUME NEW c \in Conns, Count(c) PROVE IInv'
    BY <1>12 DEF Count, Goto
  <1>13. ASSUME NEW c \in Conns, Ask(c) PROVE IInv'
    BY <1>13 DEF Ask, Goto, CanConnect, Cancelled, GetRemoteHost
  <1>14. ASSUME NEW c \in Conns, AskFails(c) PROVE IInv'
    BY <1>14 DEF AskFails, Goto, GetRemoteHost
  <1>15. ASSUME NEW c \in Conns, End(c) PROVE IInv'
    BY <1>15 DEF End, Goto
  <1>16. ASSUME NEW c \in Conns, Close(c) PROVE IInv'
    BY <1>16 DEF Close, Goto
  <1>17. ASSUME NEW c \in Conns, Established(c) PROVE IInv'
    BY <1>17 DEF Established, Goto
  <1>18. ASSUME NEW c \in Conns, NEW s \in Servers, Redirect(c, s) PROVE IInv'
    BY <1>18 DEF Redirect, Goto, SetServerAddress
  <1>19. CASE UNCHANGED vars
    BY <1>19 DEF vars
  <1>20. QED
    BY <1>1, <1>2, <1>3, <1>4, <1>5, <1>6, <1>7, <1>8, <1>9, <1>10, <1>11, <1>12, <1>13, <1>14,
       <1>15, <1>16, <1>17, <1>18, <1>19
       DEF Next, Reload, Loop, Connect, EndCancelled

\* The inductive invariant of a service of the importer.
LEMMA Invariance == Spec => []IInv
  BY IInvInit, IInvStep, PTL DEF Spec

-----------------------------------------------------------------------------
\* Every variable keeps its type, in every instance.
THEOREM TypeCorrect == Spec => []TypeOK
  <1>1. IInv => TypeOK
    BY DEF IInv
  <1>2. QED
    BY <1>1, Invariance, PTL

\* stop() closes the listener of every goroutine that still accepts: start() waited for
\* the goroutine before, so that no two of them set listenerToClose.
THEOREM ListenerClosable == Spec => []AcceptingIsClosable
  <1>1. IInv => AcceptingIsClosable
    BY DEF IInv
  <1>2. QED
    BY <1>1, Invariance, PTL

\* A connection that stop() did not wait for finds its context cancelled: no tunnel is
\* left, and none is asked for, once SetServices has stopped the service.
THEOREM StopEndsAll == Spec => []NothingOutlivesStop
  <1>1. IInv => NothingOutlivesStop
    BY DEF IInv
  <1>2. QED
    BY <1>1, Invariance, PTL

\* However redirects of several connections interleave, the client that is cached is
\* that of the address that is stored.
THEOREM CacheCorrect == Spec => []CachedIsCurrent
  <1>1. IInv => CachedIsCurrent
    BY DEF IInv
  <1>2. QED
    BY <1>1, Invariance, PTL
=============================================================================
