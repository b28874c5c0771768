-------------------------- MODULE RendezvousProofs --------------------------
(***************************************************************************)
(* Proofs about Rendezvous, for every number of services, calls and tokens.*)
(* TypeOK and LocalsMatchPc are inductive together; SingleCustody is       *)
(* inductive on top of them, and so is ListenerAccounting.  The refinement *)
(* of Exchange and the two action properties then follow step by step.     *)
(***************************************************************************)
EXTENDS Rendezvous, TLAPS, FiniteSetTheorems

-----------------------------------------------------------------------------
(* Types, and the agreement of local variables with program counters.      *)

Typed == TypeOK /\ LocalsMatchPc

\* The server starts with typed variables and no handler running.
LEMMA TypedInit == Init => Typed
  BY ConstantsAssumption DEF Init, Typed, TypeOK, LocalsMatchPc, ConnPcs, ListenPcs, AcceptPcs

\* Every handler step keeps types and local variables in agreement with the pc.
LEMMA TypedStep == Typed /\ [Next]_vars => Typed'
  <1> SUFFICES ASSUME Typed, [Next]_vars PROVE Typed'
    OBVIOUS
  <1> USE ConstantsAssumption DEF Typed, TypeOK, LocalsMatchPc, ConnPcs, ListenPcs, AcceptPcs,
        configVars, countVars, serverVars, custodyVars, tokenVars, connVars, listenVars,
        acceptVars, notConn, notListen, notAccept
  <1>1. ASSUME NEW c \in Conns, ConnectRecv(c) PROVE Typed'
    BY <1>1 DEF ConnectRecv
  <1>2. ASSUME NEW c \in Conns, NEW n \in Names, ConnectLookup(c, n) PROVE Typed'
    BY <1>2 DEF ConnectLookup
  <1>3. ASSUME NEW c \in Conns, ConnectOffer(c) PROVE Typed'
    BY <1>3 DEF ConnectOffer
  <1>4. ASSUME NEW c \in Conns, ConnectReturn(c) PROVE Typed'
    BY <1>4 DEF ConnectReturn
  <1>5. ASSUME NEW c \in Conns, ImporterHangup(c) PROVE Typed'
    BY <1>5 DEF ImporterHangup
  <1>6. ASSUME NEW l \in Listens, NEW n \in Names, ListenLookup(l, n) PROVE Typed'
    <2>1. services'[n] \in Objs /\ services' \in [Names -> Objs \cup {NoObj}]
      BY <1>6 DEF ListenLookup
    <2>2. QED
      BY <1>6, <2>1 DEF ListenLookup
  <1>7. ASSUME NEW l \in Listens, ListenCount(l) PROVE Typed'
    BY <1>7 DEF ListenCount
  <1>8. ASSUME NEW l \in Listens, ListenStart(l) PROVE Typed'
    BY <1>8 DEF ListenStart
  <1>9. ASSUME NEW l \in Listens, ListenSelect(l) PROVE Typed'
    BY <1>9 DEF ListenSelect
  <1>10. ASSUME NEW l \in Listens, SelectDone(l) PROVE Typed'
    BY <1>10 DEF SelectDone
  <1>11. ASSUME NEW l \in Listens, SelectStopped(l) PROVE Typed'
    BY <1>11 DEF SelectStopped
  <1>12. ASSUME NEW l \in Listens, SelectAccept(l) PROVE Typed'
    BY <1>12 DEF SelectAccept, Receives
  <1>13. ASSUME NEW l \in Listens, NEW t \in Tokens, RegisterConnection(l, t) PROVE Typed'
    BY <1>13 DEF RegisterConnection, FreshToken, ArmTimer
  <1>14. ASSUME NEW l \in Listens, AnnounceSent(l) PROVE Typed'
    BY <1>14 DEF AnnounceSent
  <1>15. ASSUME NEW l \in Listens, AnnounceFailed(l) PROVE Typed'
    BY <1>15 DEF AnnounceFailed
  <1>16. ASSUME NEW l \in Listens, ListenLeave(l) PROVE Typed'
    <2>1. CASE LastToLeave(listenSvc[l])
      BY <1>16, <2>1 DEF ListenLeave
    <2>2. CASE ListenReturns(l)
      BY <1>16, <2>2 DEF ListenLeave, ListenReturns
    <2>3. QED
      BY <1>16, <2>1, <2>2 DEF ListenLeave
  <1>17. ASSUME NEW l \in Listens, ListenStop(l) PROVE Typed'
    BY <1>17 DEF ListenStop, StopServices, ListenReturns
  <1>18. ASSUME NEW l \in Listens, ExporterHangup(l) PROVE Typed'
    BY <1>18 DEF ExporterHangup
  <1>19. ASSUME NEW a \in Accepts, NEW t \in Tokens, AcceptRecv(a, t) PROVE Typed'
    BY <1>19 DEF AcceptRecv
  <1>20. ASSUME NEW a \in Accepts, AcceptDeregister(a) PROVE Typed'
    BY <1>20 DEF AcceptDeregister, DeregisterAccept
  <1>21. ASSUME NEW a \in Accepts, AcceptInvalid(a) PROVE Typed'
    BY <1>21 DEF AcceptInvalid
  <1>22. ASSUME NEW a \in Accepts, TunnelDone(a) PROVE Typed'
    BY <1>22 DEF TunnelDone
  <1>23. ASSUME NEW a \in Accepts, AcceptReturn(a) PROVE Typed'
    BY <1>23 DEF AcceptReturn
  <1>24. ASSUME NEW t \in Tokens, AnnouncementLost(t) PROVE Typed'
    BY <1>24 DEF AnnouncementLost
  <1>25. ASSUME NEW t \in Tokens, TimerFire(t) PROVE Typed'
    BY <1>25 DEF TimerFire, DeregisterAccept
  <1>26. ASSUME NEW cfg \in SUBSET Names, SetServices(cfg) PROVE Typed'
    BY <1>26 DEF SetServices, StopServices
  <1>27. CASE StopGrpc
    BY <1>27 DEF StopGrpc
  <1>28. CASE StopAll
    BY <1>28 DEF StopAll, StopServices
  <1>29. CASE UNCHANGED vars
    BY <1>29 DEF vars
  <1>30. QED
    BY <1>1, <1>2, <1>3, <1>4, <1>5, <1>6, <1>7, <1>8, <1>9, <1>10, <1>11, <1>12, <1>13, <1>14,
       <1>15, <1>16, <1>17, <1>18, <1>19, <1>20, <1>21, <1>22, <1>23, <1>24, <1>25, <1>26,
       <1>27, <1>28, <1>29
       DEF Next, Connect, Listen, ListenStep, AcceptConnection, Terminated

\* Every variable keeps its type, in every instance.
THEOREM TypeCorrect == Spec => []TypeOK
  <1>1. Typed => TypeOK
    BY DEF Typed
  <1>2. QED
    BY <1>1, TypedInit, TypedStep, PTL DEF Spec

-----------------------------------------------------------------------------
\* The steps that move a connection, close it or decide whether it may be moved;
\* all others leave the four places and the state of the Connect calls alone.
quietVars == <<custodyVars, connPc, connDone>>

\* Which steps these are.
LEMMA QuietSteps ==
    [Next]_vars =>
        \/ \E c \in Conns :
              ConnectRecv(c) \/ ConnectOffer(c) \/ ConnectReturn(c) \/ ImporterHangup(c)
        \/ \E c \in Conns, n \in Names : ConnectLookup(c, n)
        \/ \E l \in Listens : SelectAccept(l)
        \/ \E l \in Listens, t \in Tokens : RegisterConnection(l, t)
        \/ \E a \in Accepts : AcceptDeregister(a) \/ AcceptReturn(a)
        \/ \E t \in Tokens : TimerFire(t)
        \/ StopGrpc
        \/ UNCHANGED quietVars
  <1> USE DEF quietVars, vars, connVars, notListen, notAccept
  <1>1. ASSUME NEW l \in Listens, NEW n \in Names, ListenLookup(l, n)
        PROVE  UNCHANGED quietVars
    BY <1>1 DEF ListenLookup
  <1>2. ASSUME NEW l \in Listens, ListenStep(l), ~SelectAccept(l),
               ~\E t \in Tokens : RegisterConnection(l, t)
        PROVE  UNCHANGED quietVars
    BY <1>2 DEF ListenStep, ListenCount, ListenStart, ListenSelect, SelectDone, SelectStopped,
       AnnounceSent, AnnounceFailed, ListenLeave, ListenStop
  <1>3. ASSUME NEW l \in Listens, ExporterHangup(l) PROVE UNCHANGED quietVars
    BY <1>3 DEF ExporterHangup
  <1>4. ASSUME NEW a \in Accepts, NEW t \in Tokens, AcceptRecv(a, t)
        PROVE  UNCHANGED quietVars
    BY <1>4 DEF AcceptRecv
  <1>5. ASSUME NEW a \in Accepts, AcceptInvalid(a) \/ TunnelDone(a)
        PROVE  UNCHANGED quietVars
    BY <1>5 DEF AcceptInvalid, TunnelDone
  <1>6. ASSUME NEW t \in Tokens, AnnouncementLost(t) PROVE UNCHANGED quietVars
    BY <1>6 DEF AnnouncementLost
  <1>7. ASSUME NEW cfg \in SUBSET Names, SetServices(cfg) PROVE UNCHANGED quietVars
    BY <1>7 DEF SetServices
  <1>8. ASSUME StopAll \/ Terminated \/ UNCHANGED vars PROVE UNCHANGED quietVars
    BY <1>8 DEF StopAll, Terminated
  <1>9. QED
    BY <1>1, <1>2, <1>3, <1>4, <1>5, <1>6, <1>7, <1>8
    DEF Next, Connect, Listen, AcceptConnection

-----------------------------------------------------------------------------
(* Custody.  A step moves at most one connection, and it empties the place *)
(* the connection leaves in the step that fills the next one.              *)

\* SingleCustody, place by place.
Apart ==
    /\ \A o, p \in Objs : acceptChan[o] = acceptChan[p] /\ acceptChan[o] # NoConn => o = p
    /\ \A l, m \in Listens : held[l] = held[m] /\ held[l] # NoConn => l = m
    /\ \A t, u \in Tokens :
          pendingAccepts[t] = pendingAccepts[u] /\ pendingAccepts[t] # NoConn => t = u
    /\ \A a, b \in Accepts : acceptConn[a] = acceptConn[b] /\ acceptConn[a] # NoConn => a = b
    /\ \A o \in Objs, l \in Listens : acceptChan[o] = held[l] => held[l] = NoConn
    /\ \A o \in Objs, t \in Tokens : acceptChan[o] = pendingAccepts[t] => acceptChan[o] = NoConn
    /\ \A o \in Objs, a \in Accepts : acceptChan[o] = acceptConn[a] => acceptChan[o] = NoConn
    /\ \A l \in Listens, t \in Tokens : held[l] = pendingAccepts[t] => held[l] = NoConn
    /\ \A l \in Listens, a \in Accepts : held[l] = acceptConn[a] => held[l] = NoConn
    /\ \A t \in Tokens, a \in Accepts : pendingAccepts[t] = acceptConn[a] => acceptConn[a] = NoConn
    /\ \A c \in Conns : connPc[c] \in {"admitted", "offering"} => ~InCustody(c)

\* Comparing the four places pairwise is comparing them through each connection.
LEMMA CustodyApart == TypeOK => (SingleCustody <=> Apart)
  <1> SUFFICES ASSUME TypeOK PROVE SingleCustody <=> Apart
    OBVIOUS
  <1> USE ConstantsAssumption DEF TypeOK, InQueue, InListen, IsPending, InTunnel
  <1>1. SingleCustody => Apart
    BY DEF SingleCustody, Apart
  <1>2. Apart => SingleCustody
    BY DEF SingleCustody, Apart
  <1>3. QED
    BY <1>1, <1>2

\* No place of the server holds a connection at the start.
LEMMA CustodyInit == Init => SingleCustody
  BY ConstantsAssumption
  DEF Init, SingleCustody, InCustody, InQueue, InListen, IsPending, InTunnel

\* A connection is taken out of its place in the step that puts it into another.
LEMMA CustodyStep == Typed /\ Apart /\ [Next]_vars => Apart'
  <1> SUFFICES ASSUME Typed, Apart, [Next]_vars PROVE Apart'
    OBVIOUS
  <1> USE ConstantsAssumption DEF Typed, TypeOK, LocalsMatchPc, Apart, InCustody, InQueue,
        InListen, IsPending, InTunnel, custodyVars
  <1>1. ASSUME NEW c \in Conns, ConnectRecv(c) PROVE Apart'
    BY <1>1 DEF ConnectRecv
  <1>2. ASSUME NEW c \in Conns, NEW n \in Names, ConnectLookup(c, n) PROVE Apart'
    BY <1>2 DEF ConnectLookup
  <1>3. ASSUME NEW c \in Conns, ConnectOffer(c) PROVE Apart'
    BY <1>3 DEF ConnectOffer
  <1>4. ASSUME NEW c \in Conns, ConnectReturn(c) PROVE Apart'
    BY <1>4 DEF ConnectReturn
  <1>5. ASSUME NEW l \in Listens, SelectAccept(l) PROVE Apart'
    <2>1. /\ listenSvc[l] \in Objs
          /\ \A o \in Objs : acceptChan'[o] = IF o = listenSvc[l] THEN NoConn ELSE acceptChan[o]
          /\ \A m \in Listens : held'[m] = IF m = l THEN acceptChan[listenSvc[l]] ELSE held[m]
          /\ UNCHANGED <<pendingAccepts, acceptConn, connPc>>
      BY <1>5 DEF SelectAccept, connVars
    <2>2. QED
      BY <2>1
  <1>6. ASSUME NEW l \in Listens, NEW t \in Tokens, RegisterConnection(l, t) PROVE Apart'
    <2>1. /\ \A m \in Listens : held'[m] = IF m = l THEN NoConn ELSE held[m]
          /\ \A u \in Tokens : pendingAccepts'[u] = IF u = t THEN held[l] ELSE pendingAccepts[u]
          /\ UNCHANGED <<acceptChan, acceptConn, connPc>>
      BY <1>6 DEF RegisterConnection, connVars
    <2>2. QED
      BY <2>1
  <1>7. ASSUME NEW a \in Accepts, AcceptDeregister(a) PROVE Apart'
    <2> DEFINE t == acceptTok[a]
    <2>1. /\ t \in Tokens
          /\ \A u \in Tokens : pendingAccepts'[u] = IF u = t THEN NoConn ELSE pendingAccepts[u]
          /\ \A b \in Accepts : acceptConn'[b] = IF b = a THEN pendingAccepts[t] ELSE acceptConn[b]
          /\ UNCHANGED <<acceptChan, held, connPc>>
      BY <1>7 DEF AcceptDeregister, DeregisterAccept, notAccept, connVars
    <2> HIDE DEF t
    <2>2. QED
      BY <2>1
  <1>8. ASSUME NEW a \in Accepts, AcceptReturn(a) PROVE Apart'
    BY <1>8 DEF AcceptReturn
  <1>9. ASSUME NEW t \in Tokens, TimerFire(t) PROVE Apart'
    BY <1>9 DEF TimerFire, DeregisterAccept
  <1>10. ASSUME NEW c \in Conns, ImporterHangup(c) PROVE Apart'
    BY <1>10 DEF ImporterHangup
  <1>11. CASE StopGrpc
    BY <1>11 DEF StopGrpc
  <1>12. CASE UNCHANGED quietVars
    BY <1>12 DEF quietVars
  <1>13. QED
    BY <1>1, <1>2, <1>3, <1>4, <1>5, <1>6, <1>7, <1>8, <1>9, <1>10, <1>11, <1>12, QuietSteps

\* The inductive invariant of the hand-off.
LEMMA Custody == Spec => [](Typed /\ Apart)
  <1>1. Init => Typed /\ Apart
    BY TypedInit, CustodyInit, CustodyApart DEF Typed
  <1>2. QED
    BY <1>1, TypedStep, CustodyStep, PTL DEF Spec

\* No connection is announced under two tokens, given to two exporters, or both
\* pending and in a tunnel: registerConnection, deregisterAccept and the accept
\* timer hand it on.
THEOREM CustodySafe == Spec => []SingleCustody
  <1>1. Typed /\ Apart => SingleCustody
    BY CustodyApart DEF Typed
  <1>2. QED
    BY <1>1, Custody, PTL

\* registerConnection never overwrites an entry, and nobody else adds one.
THEOREM PendingSafe == Spec => PendingNeverReplaced
  <1>1. ASSUME Typed, [Next]_vars, NEW t \in Tokens, pendingAccepts[t] # NoConn
        PROVE  pendingAccepts'[t] \in {pendingAccepts[t], NoConn}
    <2> USE <1>1 DEF Typed, TypeOK, LocalsMatchPc
    <2>1. ASSUME NEW l \in Listens, NEW u \in Tokens, RegisterConnection(l, u)
          PROVE  pendingAccepts'[t] = pendingAccepts[t]
      BY <2>1 DEF RegisterConnection, FreshToken
    <2>2. ASSUME NEW a \in Accepts, AcceptDeregister(a)
          PROVE  pendingAccepts'[t] \in {pendingAccepts[t], NoConn}
      BY <2>2 DEF AcceptDeregister, DeregisterAccept
    <2>3. ASSUME NEW u \in Tokens, TimerFire(u)
          PROVE  pendingAccepts'[t] \in {pendingAccepts[t], NoConn}
      BY <2>3 DEF TimerFire, DeregisterAccept
    <2>4. ASSUME NEW c \in Conns, NEW n \in Names, ConnectLookup(c, n)
          PROVE  pendingAccepts' = pendingAccepts
      BY <2>4 DEF ConnectLookup, custodyVars
    <2>5. ASSUME NEW c \in Conns,
                 ConnectRecv(c) \/ ConnectOffer(c) \/ ConnectReturn(c) \/ ImporterHangup(c)
          PROVE  pendingAccepts' = pendingAccepts
      BY <2>5 DEF ConnectRecv, ConnectOffer, ConnectReturn, ImporterHangup, custodyVars
    <2>6. ASSUME NEW l \in Listens, SelectAccept(l) PROVE pendingAccepts' = pendingAccepts
      BY <2>6 DEF SelectAccept
    <2>7. ASSUME NEW a \in Accepts, AcceptReturn(a) PROVE pendingAccepts' = pendingAccepts
      BY <2>7 DEF AcceptReturn
    <2>8. CASE StopGrpc \/ UNCHANGED quietVars
      BY <2>8 DEF StopGrpc, quietVars, custodyVars
    <2>9. QED
      BY <2>1, <2>2, <2>3, <2>4, <2>5, <2>6, <2>7, <2>8, QuietSteps
  <1>2. Typed /\ [Next]_vars =>
            [\A t \in Tokens : pendingAccepts[t] # NoConn
                 => pendingAccepts'[t] \in {pendingAccepts[t], NoConn}]_vars
    BY <1>1
  <1>3. QED
    BY <1>2, Custody, PTL DEF Spec, PendingNeverReplaced

\* deregisterAccept takes the entry out before either party acts on it, so that
\* a timer never closes a connection that is in a tunnel.
THEOREM TimerSafe == Spec => TimerSparesTunnels
  <1>1. ASSUME Typed, Apart, NEW t \in Tokens, TimerFire(t), NEW c \in Conns, InTunnel(c)
        PROVE  connDone'[c] = connDone[c]
    <2>1. c # pendingAccepts[t]
      BY <1>1, ConstantsAssumption DEF Apart, InTunnel
    <2>2. QED
      BY <1>1, <2>1 DEF TimerFire, Typed, TypeOK
  <1>2. Typed /\ Apart =>
            [\A t \in Tokens :
                 TimerFire(t) => \A c \in Conns : InTunnel(c) => connDone'[c] = connDone[c]]_vars
    BY <1>1
  <1>3. QED
    BY <1>2, Custody, PTL DEF TimerSparesTunnels

-----------------------------------------------------------------------------
(* listenerCount.  Only ListenCount and ListenLeave change the count and   *)
(* the set of handlers it counts, by the same handler.                     *)

\* No listener is counted and every stopChan is closed at the start.
LEMMA AccountingInit == Init => ListenerAccounting
  <1> SUFFICES ASSUME Init, NEW o \in Objs
               PROVE  listenerCount[o] = Cardinality(Counted(o)) /\ stopped[o]
    BY DEF ListenerAccounting
  <1>1. Counted(o) = {}
    BY DEF Init, Counted
  <1>2. QED
    BY <1>1, FS_EmptySet DEF Init

\* What a step does to the variables that matter to one object.
SameAccount(o) ==
    /\ Counted(o)' = Counted(o)
    /\ listenerCount'[o] = listenerCount[o]
    /\ \/ stopped'[o]
       \/ /\ stopped'[o] = stopped[o]
          /\ \A l \in Listens : listenPc[l] = "stopping" /\ listenSvc[l] = o
                => listenPc'[l] = "stopping" /\ listenSvc'[l] = o

\* The conjunct of ListenerAccounting about o.
Accounted(o) ==
    /\ listenerCount[o] = Cardinality(Counted(o))
    /\ ~stopped[o] =>
          \/ listenerCount[o] > 0
          \/ \E l \in Listens : listenPc[l] = "stopping" /\ listenSvc[l] = o

\* A step that leaves an object's account alone keeps it right.
LEMMA SameAccountStep == ASSUME NEW o \in Objs, Accounted(o), SameAccount(o) PROVE Accounted(o)'
  BY DEF Accounted, SameAccount

\* stop() alone can only close the stopChan, which asks for no listener.
LEMMA SameHandlers ==
    ASSUME NEW o \in Objs, UNCHANGED <<listenerCount, listenPc, listenSvc>>,
           stopped'[o] \/ stopped'[o] = stopped[o]
    PROVE  SameAccount(o)
  BY DEF SameAccount, Counted

\* The counted handlers are some of the finitely many Listen calls.
LEMMA CountedFinite == ASSUME NEW o \in Objs PROVE IsFiniteSet(Counted(o))
  BY ListensFinite, FS_Subset DEF Counted

\* The cardinality after the increment.
LEMMA OneMore ==
    ASSUME NEW S, IsFiniteSet(S), NEW x, x \notin S
    PROVE  Cardinality(S \cup {x}) = Cardinality(S) + 1
  BY FS_AddElement

\* Every step keeps the account of every object right.
LEMMA AccountingStep ==
    ASSUME Typed, [Next]_vars, NEW o \in Objs, Accounted(o) PROVE Accounted(o)'
  <1> USE ConstantsAssumption DEF Typed, TypeOK, LocalsMatchPc, ListenPcs,
        configVars, countVars, serverVars, custodyVars, tokenVars, connVars, listenVars,
        acceptVars, notConn, notListen, notAccept
  <1>1. ASSUME NEW l \in Listens, ListenCount(l) PROVE Accounted(o)'
    <2>1. CASE listenSvc[l] = o
      <3>1. Counted(o)' = Counted(o) \cup {l} /\ l \notin Counted(o)
        BY <1>1, <2>1 DEF ListenCount, Counted
      <3>2. Cardinality(Counted(o)') = Cardinality(Counted(o)) + 1
        BY <3>1, CountedFinite, OneMore
      <3>3. listenerCount'[o] = listenerCount[o] + 1
        BY <1>1, <2>1 DEF ListenCount
      <3>4. Cardinality(Counted(o)) \in Nat
        BY CountedFinite, FS_CardinalityType
      <3>5. QED
        BY <3>2, <3>3, <3>4 DEF Accounted
    <2>2. CASE listenSvc[l] # o
      <3>1. SameAccount(o)
        BY <1>1, <2>2 DEF ListenCount, SameAccount, Counted
      <3>2. QED
        BY <3>1, SameAccountStep
    <2>3. QED
      BY <2>1, <2>2
  <1>2. ASSUME NEW l \in Listens, ListenStart(l) PROVE Accounted(o)'
    <2>1. CASE listenSvc[l] = o
      <3>1. Counted(o)' = Counted(o) /\ l \in Counted(o)
        BY <1>2, <2>1 DEF ListenStart, Counted
      <3>2. Cardinality(Counted(o)) > 0
        BY <3>1, CountedFinite, FS_EmptySet, FS_CardinalityType
      <3>3. listenerCount'[o] = listenerCount[o]
        BY <1>2 DEF ListenStart
      <3>4. QED
        BY <3>1, <3>2, <3>3 DEF Accounted
    <2>2. CASE listenSvc[l] # o
      <3>1. SameAccount(o)
        BY <1>2, <2>2 DEF ListenStart, SameAccount, Counted
      <3>2. QED
        BY <3>1, SameAccountStep
    <2>3. QED
      BY <2>1, <2>2
  <1>3. ASSUME NEW l \in Listens, ListenLeave(l) PROVE Accounted(o)'
    <2>1. CASE listenSvc[l] = o
      <3>1. Counted(o)' = Counted(o) \ {l} /\ l \in Counted(o)
        BY <1>3, <2>1 DEF ListenLeave, ListenReturns, Counted
      <3>2. Cardinality(Counted(o)') = Cardinality(Counted(o)) - 1
        BY <3>1, CountedFinite, FS_RemoveElement
      <3>3. listenerCount'[o] = listenerCount[o] - 1
        BY <1>3, <2>1 DEF ListenLeave
      <3>4. Cardinality(Counted(o)) \in Nat /\ Cardinality(Counted(o)') \in Nat
        BY <3>1, CountedFinite, FS_CardinalityType, FS_RemoveElement
      <3>5. CASE LastToLeave(o)
        <4>1. listenPc'[l] = "stopping" /\ listenSvc'[l] = o
          BY <1>3, <2>1, <3>3, <3>5 DEF ListenLeave, LastToLeave, ListenReturns
        <4>2. QED
          BY <3>2, <3>3, <3>4, <4>1 DEF Accounted
      <3>6. CASE ~LastToLeave(o)
        <4>1. listenerCount'[o] > 0
          BY <3>2, <3>3, <3>4, <3>6 DEF LastToLeave, Accounted
        <4>2. QED
          BY <3>2, <3>3, <3>4, <4>1 DEF Accounted
      <3>7. QED
        BY <3>5, <3>6
    <2>2. CASE listenSvc[l] # o
      <3>1. SameAccount(o)
        BY <1>3, <2>2 DEF ListenLeave, ListenReturns, SameAccount, Counted
      <3>2. QED
        BY <3>1, SameAccountStep
    <2>3. QED
      BY <2>1, <2>2
  <1>4. ASSUME NEW l \in Listens, NEW n \in Names, ListenLookup(l, n) PROVE SameAccount(o)
    BY <1>4 DEF ListenLookup, SameAccount, Counted
  <1>5. ASSUME NEW l \in Listens, ListenStep(l), ~ListenCount(l), ~ListenStart(l),
               ~ListenLeave(l), ~ListenStop(l)
        PROVE  SameAccount(o)
    BY <1>5 DEF ListenStep, ListenSelect, SelectDone, SelectStopped, SelectAccept,
       RegisterConnection, AnnounceSent, AnnounceFailed, SameAccount, Counted
  <1>6. ASSUME NEW l \in Listens, ListenStop(l) PROVE SameAccount(o)
    BY <1>6 DEF ListenStop, ListenReturns, StopServices, SameAccount, Counted
  <1>7. ASSUME NEW l \in Listens, ExporterHangup(l) PROVE SameAccount(o)
    BY <1>7 DEF ExporterHangup, SameAccount, Counted
  <1>8. ASSUME NEW cfg \in SUBSET Names, SetServices(cfg) PROVE SameAccount(o)
    <2>1. UNCHANGED <<listenerCount, listenPc, listenSvc>>
      BY <1>8 DEF SetServices
    <2>2. PICK O : StopServices(O)
      BY <1>8 DEF SetServices
    <2>3. stopped'[o] \/ stopped'[o] = stopped[o]
      BY <2>2 DEF StopServices
    <2>4. QED
      BY <2>1, <2>3, SameHandlers
  <1>9. ASSUME StopAll PROVE SameAccount(o)
    <2>1. UNCHANGED <<listenerCount, listenPc, listenSvc>>
      BY <1>9 DEF StopAll
    <2>2. stopped'[o] \/ stopped'[o] = stopped[o]
      BY <1>9 DEF StopAll, StopServices
    <2>3. QED
      BY <2>1, <2>2, SameHandlers
  <1>10. ASSUME UNCHANGED <<stopped, listenerCount, listenPc, listenSvc>> PROVE SameAccount(o)
    BY <1>10, SameHandlers
  <1>11. ASSUME NEW c \in Conns, Connect(c)
         PROVE  UNCHANGED <<stopped, listenerCount, listenPc, listenSvc>>
    BY <1>11 DEF Connect, ConnectRecv, ConnectLookup, ConnectOffer, ConnectReturn, ImporterHangup
  <1>12. ASSUME NEW a \in Accepts, AcceptConnection(a)
         PROVE  UNCHANGED <<stopped, listenerCount, listenPc, listenSvc>>
    BY <1>12 DEF AcceptConnection, AcceptRecv, AcceptDeregister, AcceptInvalid, TunnelDone,
       AcceptReturn
  <1>13. ASSUME NEW t \in Tokens, AnnouncementLost(t) \/ TimerFire(t)
         PROVE  UNCHANGED <<stopped, listenerCount, listenPc, listenSvc>>
    BY <1>13 DEF AnnouncementLost, TimerFire
  <1>14. ASSUME StopGrpc \/ Terminated \/ UNCHANGED vars
         PROVE  UNCHANGED <<stopped, listenerCount, listenPc, listenSvc>>
    BY <1>14 DEF StopGrpc, Terminated, vars
  <1>15. QED
    <2> HIDE DEF Typed, TypeOK, LocalsMatchPc, ListenPcs, configVars, countVars, serverVars,
         custodyVars, tokenVars, connVars, listenVars, acceptVars, notConn, notListen, notAccept
    <2>1. ASSUME NEW l \in Listens, Listen(l) PROVE Accounted(o)'
      BY <2>1, <1>1, <1>2, <1>3, <1>4, <1>5, <1>6, <1>7, SameAccountStep DEF Listen
    <2>2. QED
      BY <2>1, <1>8, <1>9, <1>10, <1>11, <1>12, <1>13, <1>14, SameAccountStep DEF Next

\* With onListenerConnect and onListenerDisconnect interleaved in any order, the
\* count is exact and no open service is left without somebody who will stop it.
THEOREM AccountingSafe == Spec => []ListenerAccounting
  <1>1. Typed /\ ListenerAccounting /\ [Next]_vars => ListenerAccounting'
    BY AccountingStep DEF ListenerAccounting, Accounted
  <1>2. QED
    BY <1>1, AccountingInit, TypedInit, TypedStep, PTL DEF Spec

-----------------------------------------------------------------------------
(* Rendezvous implements Exchange.                                         *)

\* The exchange starts empty, with every connection open.
LEMMA ExchangeInit == Init => Exch!Init
  BY ConstantsAssumption
  DEF Init, Exch!Init, InQueue, InListen, IsPending

\* Every step of the server is a step of the exchange or a stutter.
LEMMA ExchangeStep == Typed /\ Apart /\ [Next]_vars => [Exch!Next]_(Exch!vars)
  <1> SUFFICES ASSUME Typed, Apart, [Next]_vars PROVE Exch!Next \/ UNCHANGED Exch!vars
    OBVIOUS
  <1> USE ConstantsAssumption DEF Typed, TypeOK, LocalsMatchPc, InQueue, InListen, IsPending,
        custodyVars
  <1>1. ASSUME NEW c \in Conns, ConnectRecv(c) PROVE Exch!Admit(c)
    BY <1>1 DEF ConnectRecv, Exch!Admit, Exch!Inside, Exch!Tunnelled, InCustody, InTunnel
  <1>2. ASSUME NEW c \in Conns, ConnectOffer(c) PROVE Exch!Enter(c)
    BY <1>2 DEF ConnectOffer, Exch!Enter, Exch!Inside, Exch!Tunnelled, InCustody, InTunnel, Apart
  <1>3. ASSUME NEW l \in Listens, SelectAccept(l) PROVE Exch!Take(acceptChan[listenSvc[l]])
    BY <1>3 DEF SelectAccept, Receives, Exch!Take, Apart, connVars
  <1>4. ASSUME NEW a \in Accepts, AcceptDeregister(a)
        PROVE  Exch!Bridge(a, pendingAccepts[acceptTok[a]])
    BY <1>4 DEF AcceptDeregister, DeregisterAccept, Exch!Bridge, Apart, notAccept, connVars
  <1>5. ASSUME NEW a \in Accepts, AcceptReturn(a) PROVE Exch!Finish(a)
    BY <1>5 DEF AcceptReturn, Exch!Finish
  <1>6. ASSUME NEW t \in Tokens, TimerFire(t), pendingAccepts[t] # NoConn
        PROVE  Exch!Expire(pendingAccepts[t])
    <2>1. /\ UNCHANGED <<acceptChan, held, acceptConn>>
          /\ \A u \in Tokens : pendingAccepts'[u] = IF u = t THEN NoConn ELSE pendingAccepts[u]
          /\ \A c \in Conns : connDone'[c] <=> connDone[c] \/ c = pendingAccepts[t]
      BY <1>6 DEF TimerFire, DeregisterAccept
    <2>2. ASSUME NEW c \in Conns
          PROVE  (InListen(c) \/ IsPending(c))'
                     <=> (InListen(c) \/ IsPending(c)) /\ c # pendingAccepts[t]
      BY <1>6, <2>1 DEF Apart
    <2>3. QED
      BY <1>6, <2>1, <2>2 DEF Exch!Expire
  <1>7. ASSUME NEW c \in Conns, ImporterHangup(c) PROVE Exch!Close({c})
    BY <1>7 DEF ImporterHangup, Exch!Close
  <1>8. ASSUME StopGrpc PROVE Exch!Close({c \in Conns : connPc[c] # "idle"})
    BY <1>8 DEF StopGrpc, Exch!Close
  <1>9. ASSUME NEW l \in Listens, NEW t \in Tokens, RegisterConnection(l, t)
        PROVE  UNCHANGED Exch!vars
    <2>1. UNCHANGED <<acceptChan, acceptConn, connDone>>
      BY <1>9 DEF RegisterConnection, connVars
    <2>2. ASSUME NEW c \in Conns
          PROVE  (InListen(c) \/ IsPending(c))' <=> InListen(c) \/ IsPending(c)
      BY <1>9 DEF RegisterConnection, FreshToken
    <2>3. QED
      BY <2>1, <2>2 DEF Exch!vars
  <1>10. ASSUME NEW t \in Tokens, TimerFire(t), pendingAccepts[t] = NoConn
         PROVE  UNCHANGED Exch!vars
    BY <1>10 DEF TimerFire, DeregisterAccept, Exch!vars
  <1>11. ASSUME UNCHANGED <<custodyVars, connDone>> PROVE UNCHANGED Exch!vars
    BY <1>11 DEF Exch!vars
  <1>12. ASSUME NEW c \in Conns, NEW n \in Names, ConnectLookup(c, n)
         PROVE  UNCHANGED <<custodyVars, connDone>>
    BY <1>12 DEF ConnectLookup
  <1>13. ASSUME NEW c \in Conns, ConnectReturn(c) PROVE UNCHANGED <<custodyVars, connDone>>
    BY <1>13 DEF ConnectReturn
  <1>14. CASE UNCHANGED quietVars
    BY <1>11, <1>14 DEF quietVars
  <1>15. ASSUME NEW l \in Listens, SelectAccept(l) PROVE acceptChan[listenSvc[l]] \in Conns
    BY <1>15 DEF SelectAccept, Receives
  <1>16. ASSUME NEW t \in Tokens PROVE pendingAccepts[t] \in Conns \cup {NoConn}
    OBVIOUS
  <1>17. ASSUME NEW a \in Accepts, AcceptDeregister(a) PROVE pendingAccepts[acceptTok[a]] \in Conns
    BY <1>17 DEF AcceptDeregister
  <1> HIDE DEF Typed, TypeOK, LocalsMatchPc, InQueue, InListen, IsPending, custodyVars
  <1>18. ASSUME NEW t \in Tokens, TimerFire(t) PROVE Exch!Next \/ UNCHANGED Exch!vars
    <2>1. CASE pendingAccepts[t] = NoConn
      BY <1>10, <1>18, <2>1
    <2>2. CASE pendingAccepts[t] # NoConn
      <3>1. \E c \in Conns : Exch!Expire(c)
        BY <1>6, <1>16, <1>18, <2>2 DEF Exch!Expire
      <3>2. QED
        BY <3>1 DEF Exch!Next
    <2>3. QED
      BY <2>1, <2>2
  <1>19. ASSUME NEW l \in Listens, SelectAccept(l) PROVE Exch!Next
    BY <1>3, <1>15, <1>19 DEF Exch!Next
  <1>20. ASSUME NEW a \in Accepts, AcceptDeregister(a) \/ AcceptReturn(a) PROVE Exch!Next
    BY <1>4, <1>5, <1>17, <1>20 DEF Exch!Next
  <1>21. ASSUME NEW c \in Conns, ConnectRecv(c) \/ ConnectOffer(c) \/ ImporterHangup(c)
         PROVE  Exch!Next
    BY <1>1, <1>2, <1>7, <1>21 DEF Exch!Next
  <1>22. CASE StopGrpc
    <2>1. {c \in Conns : connPc[c] # "idle"} \in SUBSET Conns
      OBVIOUS
    <2>2. \E C \in SUBSET Conns : Exch!Close(C)
      BY <1>8, <1>22, <2>1 DEF Exch!Close
    <2>3. QED
      BY <2>2 DEF Exch!Next
  <1>23. QED
    BY <1>9, <1>11, <1>12, <1>13, <1>14, <1>18, <1>19, <1>20, <1>21, <1>22, QuietSteps

\* Every behaviour of the detailed hand-off is one of the abstract exchange: what
\* a Listen handler has taken from a queue is tunnelled once or expires.
THEOREM Refinement == Spec => ImplementsExchange
  <1>1. Init => Exch!Init
    BY ExchangeInit
  <1>2. Typed /\ Apart /\ [Next]_vars => [Exch!Next]_(Exch!vars)
    BY ExchangeStep
  <1>3. QED
    BY <1>1, <1>2, Custody, PTL DEF Spec, ImplementsExchange, Exch!Spec

=============================================================================
