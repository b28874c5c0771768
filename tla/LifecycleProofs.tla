-------------------------- MODULE LifecycleProofs ---------------------------
(***************************************************************************)
(* Proofs about ServiceLifecycle, for every number of Listen calls,        *)
(* generations and addresses.  The count of listeners is exact, although   *)
(* it is kept in two steps at each end of a Listen call; hence an open     *)
(* service always has a handler that stops it or leaves that to another.   *)
(***************************************************************************)
EXTENDS ServiceLifecycle, TLAPS, FiniteSetTheorems

-----------------------------------------------------------------------------
(* listenerCount.                                                          *)

\* Handlers between onListenerConnect and onListenerDisconnect.
Counted ==
    {l \in Listens : listenPc[l] \in {"starting", "looping", "select", "register", "leaving"}}

Accounting == listenerCount = Cardinality(Counted)

\* Handlers are some of the finitely many Listen calls.
LEMMA SubsetBound ==
    ASSUME NEW S \in SUBSET Listens
    PROVE  IsFiniteSet(S) /\ Cardinality(S) \in 0..Cardinality(Listens)
  <1>1. IsFiniteSet(S) /\ Cardinality(S) <= Cardinality(Listens)
    BY LifecycleAssumption, FS_Subset
  <1>2. Cardinality(S) \in Nat /\ Cardinality(Listens) \in Nat
    BY <1>1, LifecycleAssumption, FS_CardinalityType
  <1>3. QED
    BY <1>1, <1>2

\* Only the two ends of a Listen call change the count, and the set with it.
LEMMA CountSteps ==
    TypeOK /\ [Next]_vars =>
        \/ UNCHANGED listenerCount /\ Counted' = Counted
        \/ \E l \in Listens \ Counted :
              listenerCount' = listenerCount + 1 /\ Counted' = Counted \cup {l}
        \/ \E l \in Counted :
              listenerCount' = listenerCount - 1 /\ Counted' = Counted \ {l}
  <1> SUFFICES ASSUME TypeOK, [Next]_vars
               PROVE  \/ UNCHANGED listenerCount /\ Counted' = Counted
                      \/ \E l \in Listens \ Counted :
                            listenerCount' = listenerCount + 1 /\ Counted' = Counted \cup {l}
                      \/ \E l \in Counted :
                            listenerCount' = listenerCount - 1 /\ Counted' = Counted \ {l}
    OBVIOUS
  <1> USE DEF TypeOK, Goto, Counted, handlerVars
  <1>1. ASSUME NEW l \in Listens, ListenCount(l)
        PROVE  /\ l \in Listens \ Counted
               /\ listenerCount' = listenerCount + 1 /\ Counted' = Counted \cup {l}
    BY <1>1 DEF ListenCount
  <1>2. ASSUME NEW l \in Listens, ListenLeave(l)
        PROVE  /\ l \in Counted
               /\ listenerCount' = listenerCount - 1 /\ Counted' = Counted \ {l}
    BY <1>2 DEF ListenLeave
  <1>3. ASSUME NEW l \in Listens, ListenLookup(l) \/ SelectDone(l) \/ Handler(l),
               ~ListenCount(l), ~ListenLeave(l)
        PROVE  UNCHANGED listenerCount /\ Counted' = Counted
    BY <1>3 DEF Handler, ListenLookup, SelectDone, ListenStart, ListenSelect, SelectAccept,
       Register, ListenStop, ListenReturn
  <1>4. ASSUME NEW g \in Gens, Accept(g) \/ Loop(g) \/ Break(g)
        PROVE  UNCHANGED listenerCount /\ Counted' = Counted
    BY <1>4 DEF Accept, Loop, Hand, Break
  <1>5. ASSUME (\E a \in Addrs : SetServices(a)) \/ ReloadStop \/ ReloadReturn
        PROVE  UNCHANGED listenerCount /\ Counted' = Counted
    BY <1>5 DEF SetServices, ReloadStop, ReloadReturn
  <1>6. CASE UNCHANGED vars
    BY <1>6 DEF vars
  <1>7. QED
    <2> HIDE DEF TypeOK, Goto, Counted, handlerVars
    <2>1. ASSUME NEW l \in Listens, ListenLookup(l) \/ SelectDone(l) \/ Handler(l)
          PROVE  \/ UNCHANGED listenerCount /\ Counted' = Counted
                 \/ \E k \in Listens \ Counted :
                       listenerCount' = listenerCount + 1 /\ Counted' = Counted \cup {k}
                 \/ \E k \in Counted :
                       listenerCount' = listenerCount - 1 /\ Counted' = Counted \ {k}
      BY <2>1, <1>1, <1>2, <1>3
    <2>2. QED
      BY <2>1, <1>4, <1>5, <1>6 DEF Next

\* The count stays that of the handlers, and within bounds.
LEMMA AccountingStep ==
    TypeOK /\ Accounting /\ [Next]_vars
        => Accounting' /\ listenerCount' \in 0..Cardinality(Listens)
  <1> SUFFICES ASSUME TypeOK, Accounting, [Next]_vars
               PROVE  Accounting' /\ listenerCount' \in 0..Cardinality(Listens)
    OBVIOUS
  <1>1. Counted \in SUBSET Listens /\ Counted' \in SUBSET Listens
    BY DEF Counted
  <1>2. /\ IsFiniteSet(Counted) /\ Cardinality(Counted) \in 0..Cardinality(Listens)
        /\ Cardinality(Counted') \in 0..Cardinality(Listens)
    BY <1>1, SubsetBound
  <1>3. CASE UNCHANGED listenerCount /\ Counted' = Counted
    BY <1>2, <1>3 DEF Accounting
  <1>4. ASSUME NEW l \in Listens \ Counted,
               listenerCount' = listenerCount + 1, Counted' = Counted \cup {l}
        PROVE  listenerCount' = Cardinality(Counted')
    BY <1>2, <1>4, FS_AddElement DEF Accounting
  <1>5. ASSUME NEW l \in Counted,
               listenerCount' = listenerCount - 1, Counted' = Counted \ {l}
        PROVE  listenerCount' = Cardinality(Counted')
    BY <1>2, <1>5, FS_RemoveElement DEF Accounting
  <1>6. listenerCount' = Cardinality(Counted')
    BY <1>3, <1>4, <1>5, CountSteps DEF Accounting
  <1>7. QED
    BY <1>2, <1>6 DEF Accounting

-----------------------------------------------------------------------------
(* Types, and the handler that takes care of an open service.              *)

IInv == TypeOK /\ Accounting /\ OpenHasCaretaker

\* Nobody listens at the start, and the stopChan is closed.
LEMMA IInvInit == Init => IInv
  <1> SUFFICES ASSUME Init PROVE IInv
    OBVIOUS
  <1>1. Counted = {}
    BY DEF Init, Counted
  <1>2. listenerCount = Cardinality(Counted)
    BY <1>1, FS_EmptySet DEF Init
  <1>3. listenerCount \in 0..Cardinality(Listens)
    BY <1>2, SubsetBound DEF Counted
  <1>4. TypeOK
    BY <1>3, LifecycleAssumption DEF Init, TcpInit, TypeOK, TcpTypeOK, LoopPcs
  <1>5. QED
    BY <1>2, <1>4 DEF Init, TcpInit, IInv, Accounting, OpenHasCaretaker

\* Every step keeps the types, given the bounds of the count.
LEMMA TypeStep ==
    TypeOK /\ [Next]_vars /\ listenerCount' \in 0..Cardinality(Listens) => TypeOK'
  <1> SUFFICES ASSUME TypeOK, [Next]_vars, listenerCount' \in 0..Cardinality(Listens)
               PROVE  TypeOK'
    OBVIOUS
  <1> USE TcpAssumption, LifecycleAssumption
      DEF TypeOK, TcpTypeOK, LoopPcs, Goto, Step, tcpVars, handlerVars, reloadVars
  <1>1. ASSUME NEW l \in Listens, ListenLookup(l) \/ SelectDone(l) PROVE TypeOK'
    BY <1>1 DEF ListenLookup, SelectDone
  <1>2. ASSUME NEW l \in Listens, ListenCount(l) \/ ListenSelect(l) \/ SelectAccept(l)
        PROVE  TypeOK'
    BY <1>2 DEF ListenCount, ListenSelect, SelectAccept
  <1>3. ASSUME NEW l \in Listens, ListenStart(l) PROVE TypeOK'
    BY <1>3 DEF ListenStart, Start
  <1>4. ASSUME NEW l \in Listens, Register(l) PROVE TypeOK'
    BY <1>4 DEF Register
  <1>5. ASSUME NEW l \in Listens, ListenLeave(l) \/ ListenReturn(l) PROVE TypeOK'
    BY <1>5 DEF ListenLeave, ListenReturn
  <1>6. ASSUME NEW l \in Listens, ListenStop(l) PROVE TypeOK'
    BY <1>6 DEF ListenStop, Stop
  <1>7. ASSUME NEW g \in Gens, Accept(g) PROVE TypeOK'
    BY <1>7 DEF Accept
  <1>8. ASSUME NEW g \in Gens, Hand(g) PROVE TypeOK'
    BY <1>8 DEF Hand, HandOver
  <1>9. ASSUME NEW g \in Gens, Loop(g), ~Hand(g) PROVE TypeOK'
    <2>1. UNCHANGED <<handlerVars, acceptChan, handChan, reloadVars>>
      BY <1>9 DEF Loop
    <2>2. CASE Bind(g)
      BY <2>1, <2>2 DEF Bind
    <2>3. CASE Assign(g)
      BY <2>1, <2>3 DEF Assign, SetListenerToClose
    <2>4. CASE Check(g) \/ AcceptEnds(g) \/ Done(g)
      BY <2>1, <2>4 DEF Check, AcceptEnds, AcceptFails, Done
    <2>5. QED
      BY <1>9, <2>2, <2>3, <2>4 DEF Loop
  <1>10. ASSUME NEW g \in Gens, Break(g) PROVE TypeOK'
    BY <1>10 DEF Break, AcceptFails
  <1>11. ASSUME NEW a \in Addrs, SetServices(a) PROVE TypeOK'
    BY <1>11 DEF SetServices
  <1>12. CASE ReloadStop
    BY <1>12 DEF ReloadStop, Stop
  <1>13. CASE ReloadReturn
    BY <1>13 DEF ReloadReturn
  <1>14. CASE UNCHANGED vars
    BY <1>14 DEF vars
  <1>15. QED
    BY <1>1, <1>2, <1>3, <1>4, <1>5, <1>6, <1>7, <1>8, <1>9, <1>10, <1>11, <1>12, <1>13, <1>14
       DEF Next, Handler

\* Only the start() of a handler opens a service; the last handler to leave closes it.
LEMMA CaretakerStep == IInv /\ [Next]_vars => OpenHasCaretaker'
  <1> SUFFICES ASSUME IInv, [Next]_vars, ~stopped' PROVE OpenHasCaretaker'
    BY DEF OpenHasCaretaker
  <1> USE DEF IInv, TypeOK, OpenHasCaretaker, Goto
  <1> DEFINE Cares(l) == listenPc[l] \notin {"idle", "arrived", "waiting"}
  <1>1. ASSUME NEW l \in Listens, ListenStart(l) PROVE Cares(l)'
    BY <1>1 DEF ListenStart
  <1>2. ASSUME NEW l \in Listens, ListenLeave(l) PROVE \E k \in Listens : Cares(k)'
    <2>1. CASE listenerCount = 1
      BY <1>2, <2>1 DEF ListenLeave
    <2>2. CASE listenerCount # 1
      <3>1. l \in Counted /\ Counted \in SUBSET Listens
        BY <1>2 DEF ListenLeave, Counted
      <3>2. Counted # {l}
        BY <2>2, <3>1, FS_Singleton DEF Accounting
      <3>3. PICK k \in Counted : k # l
        BY <3>1, <3>2
      <3>4. Cares(k)'
        BY <1>2, <3>3 DEF ListenLeave, Counted
      <3>5. QED
        BY <3>4 DEF Counted
    <2>3. QED
      BY <2>1, <2>2
  <1>3. ASSUME NEW l \in Listens, ListenLookup(l) \/ SelectDone(l) \/ Handler(l),
               ~ListenStart(l), ~ListenLeave(l)
        PROVE  \E k \in Listens : Cares(k)'
    <2>1. ~stopped
      BY <1>3 DEF Handler, ListenLookup, SelectDone, ListenCount, ListenSelect, SelectAccept,
         Register, ListenStop, Stop, ListenReturn, tcpVars
    <2>2. PICK k \in Listens : Cares(k)
      BY <2>1
    <2>3. CASE ListenStop(l)
      BY <2>3 DEF ListenStop, Stop
    <2>4. CASE ListenLookup(l) \/ ListenCount(l) \/ ListenReturn(l)
      BY <2>2, <2>4 DEF ListenLookup, ListenCount, ListenReturn
    <2>5. CASE SelectDone(l) \/ ListenSelect(l) \/ SelectAccept(l) \/ Register(l)
      BY <2>2, <2>5 DEF SelectDone, ListenSelect, SelectAccept, Register
    <2>6. QED
      BY <1>3, <2>3, <2>4, <2>5 DEF Handler
  <1>4. ASSUME UNCHANGED <<stopped, listenPc>> PROVE OpenHasCaretaker'
    BY <1>4
  <1>5. ASSUME NEW g \in Gens, Accept(g) \/ Loop(g) \/ Break(g)
        PROVE  UNCHANGED <<stopped, listenPc>>
    BY <1>5 DEF Accept, Loop, Hand, Break, Bind, Assign, Check, AcceptEnds, AcceptFails, Done,
       handlerVars
  <1>6. ASSUME (\E a \in Addrs : SetServices(a)) \/ ReloadStop \/ ReloadReturn
        PROVE  UNCHANGED <<stopped, listenPc>>
    BY <1>6 DEF SetServices, ReloadStop, Stop, ReloadReturn, handlerVars, tcpVars
  <1>7. CASE UNCHANGED vars
    BY <1>4, <1>7 DEF vars, tcpVars, handlerVars
  <1>8. ASSUME NEW l \in Listens, ListenLookup(l) \/ SelectDone(l) \/ Handler(l)
        PROVE  OpenHasCaretaker'
    BY <1>1, <1>2, <1>3, <1>8
  <1>9. QED
    BY <1>4, <1>5, <1>6, <1>7, <1>8 DEF Next

\* The inductive invariant of the handlers of a service.
LEMMA Invariance == Spec => []IInv
  <1>1. IInv /\ [Next]_vars => IInv'
    BY AccountingStep, TypeStep, CaretakerStep DEF IInv
  <1>2. QED
    BY <1>1, IInvInit, PTL DEF Spec

\* Every variable keeps its type, in every instance; the count of listeners never
\* leaves the range of the calls.
THEOREM TypeCorrect == Spec => []TypeOK
  <1>1. IInv => TypeOK
    BY DEF IInv
  <1>2. QED
    BY <1>1, Invariance, PTL

\* However the handlers and SetServices interleave, somebody will stop an open service.
THEOREM CaretakerSafe == Spec => []OpenHasCaretaker
  <1>1. IInv => OpenHasCaretaker
    BY DEF IInv
  <1>2. QED
    BY <1>1, Invariance, PTL

-----------------------------------------------------------------------------
(* The listener.  A goroutine that is told to stop may still be at work    *)
(* when another handler starts the next one; but while the address stays,  *)
(* only one of them can listen on it.                                      *)

OneListener ==
    /\ \A g \in Gens : bound[g] \in {config, NoAddr}
    /\ \A g, k \in Gens : bound[g] # NoAddr /\ bound[k] # NoAddr => g = k

\* Between net.Listen and the assignment the listener is open: stop() closes only
\* the one it was told about.
UnassignedIsOpen ==
    \A g \in Gens :
        /\ loopPc[g] \in {"bind", "assign"} => listenerToClose # g
        /\ loopPc[g] = "assign" => bound[g] # NoAddr

ListenerInv == OneListener /\ UnassignedIsOpen /\ AcceptingIsClosable

\* No goroutine runs at the start.
LEMMA ListenerInit == Init => ListenerInv
  BY TcpAssumption
  DEF Init, TcpInit, ListenerInv, OneListener, UnassignedIsOpen, AcceptingIsClosable

\* As long as the address stays, every step keeps all of it.
LEMMA ListenerStep ==
    TypeOK /\ ListenerInv /\ [Next]_vars /\ [UNCHANGED config]_vars => ListenerInv'
  <1> SUFFICES ASSUME TypeOK, ListenerInv, [Next]_vars, UNCHANGED config PROVE ListenerInv'
    BY DEF vars, tcpVars
  <1> USE TcpAssumption
      DEF TypeOK, TcpTypeOK, ListenerInv, OneListener, UnassignedIsOpen, AcceptingIsClosable,
          Step
  <1>1. ASSUME NEW l \in Listens, ListenStart(l) PROVE ListenerInv'
    BY <1>1 DEF ListenStart, Start, Reusable
  <1>2. ASSUME Stop, UNCHANGED <<listenerToClose, loopPc>> PROVE ListenerInv'
    BY <1>2 DEF Stop
  <1>3. ASSUME NEW l \in Listens, ListenLookup(l) \/ SelectDone(l) \/ Handler(l),
               ~ListenStart(l), ~ListenStop(l)
        PROVE  UNCHANGED tcpVars
    BY <1>3 DEF Handler, ListenLookup, SelectDone, ListenCount, ListenSelect, SelectAccept,
       Register, ListenLeave, ListenReturn, tcpVars
  <1>4. ASSUME NEW g \in Gens, Accept(g) \/ Hand(g) PROVE ListenerInv'
    BY <1>4 DEF Accept, Hand
  <1>5. ASSUME NEW g \in Gens, Bind(g) PROVE ListenerInv'
    BY <1>5 DEF Bind
  <1>6. ASSUME NEW g \in Gens, Assign(g) PROVE ListenerInv'
    BY <1>6 DEF Assign, SetListenerToClose
  <1>7. ASSUME NEW g \in Gens, Check(g) PROVE ListenerInv'
    BY <1>7 DEF Check
  <1>8. ASSUME NEW g \in Gens, AcceptFails(g) \/ Done(g) PROVE ListenerInv'
    BY <1>8 DEF AcceptFails, Done
  <1>9. ASSUME UNCHANGED <<stopped, listenerToClose, loopPc, bound>> PROVE ListenerInv'
    BY <1>9
  <1>10. ASSUME (\E a \in Addrs : SetServices(a)) \/ ReloadReturn
         PROVE  UNCHANGED <<stopped, listenerToClose, loopPc, bound>>
    BY <1>10 DEF SetServices, ReloadReturn, tcpVars
  <1>11. ASSUME ReloadStop PROVE ListenerInv'
    BY <1>2, <1>11 DEF ReloadStop
  <1>12. ASSUME NEW l \in Listens, ListenLookup(l) \/ SelectDone(l) \/ Handler(l)
         PROVE  ListenerInv'
    BY <1>1, <1>2, <1>3, <1>9, <1>12 DEF ListenStop, tcpVars
  <1>13. ASSUME NEW g \in Gens, Accept(g) \/ Loop(g) \/ Break(g) PROVE ListenerInv'
    BY <1>4, <1>5, <1>6, <1>7, <1>8, <1>13 DEF Loop, Break, AcceptEnds
  <1>14. CASE UNCHANGED vars
    BY <1>9, <1>14 DEF vars, tcpVars
  <1>15. QED
    BY <1>9, <1>10, <1>11, <1>12, <1>13, <1>14 DEF Next

\* While the address of the service stays, a goroutine that accepts does so on the
\* listener that the next stop() closes, although stop() and start() of different
\* handlers overlap.
THEOREM ListenerClosable == Spec /\ [][UNCHANGED config]_vars => []AcceptingIsClosable
  <1>1. IInv => TypeOK
    BY DEF IInv
  <1>2. ListenerInv => AcceptingIsClosable
    BY DEF ListenerInv
  <1>3. QED
    BY <1>1, <1>2, Invariance, ListenerInit, ListenerStep, PTL DEF Spec

\* In particular it is so for a service that has one address, reloads included.
THEOREM OneAddressClosable ==
    ASSUME \A a, b \in Addrs : a = b PROVE Spec => []AcceptingIsClosable
  <1>1. TypeOK /\ TypeOK' => [UNCHANGED config]_vars
    BY DEF TypeOK, TcpTypeOK
  <1>2. QED
    BY <1>1, TypeCorrect, ListenerClosable, PTL
=============================================================================
