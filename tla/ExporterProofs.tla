--------------------------- MODULE ExporterProofs ---------------------------
(***************************************************************************)
(* Proofs about Exporter, for every number of service objects, addresses,  *)
(* servers and announcements.  They rest on the order in which SetServices *)
(* removes a service: delete, cancel(), wait.  What it did not wait for    *)
(* finds a cancelled context.                                              *)
(***************************************************************************)
EXTENDS Exporter, TLAPS

-----------------------------------------------------------------------------
\* A loop that has not released the wait groups is that of the service that is
\* configured, or of the one SetServices waits for.
LoopIsKnown ==
    \A o \in Objs : loopPc[o] \notin {"none", "released"} => o \in {current, removed}

\* stop() calls cancel() before it waits.
RemovedIsCancelled == removed # NoObj => cancelled[removed]

\* An announcement that is still being answered after its service was removed has a
\* context that is cancelled; no new service takes that context over.
OrphanIsCancelled ==
    \A c \in Conns :
        connPc[c] # "none" => connObj[c] \in {current, removed} \/ cancelled[connObj[c]]

IInv ==
    /\ TypeOK
    /\ LoopIsKnown
    /\ RemovedIsCancelled
    /\ OrphanIsCancelled
    /\ NothingOutlivesStop
    /\ StoppedIsQuiet

\* No service is configured at the start, and nothing runs.
LEMMA IInvInit == Init => IInv
  <1> SUFFICES ASSUME Init PROVE IInv
    OBVIOUS
  <1>1. TypeOK
    BY ExporterAssumption DEF Init, TypeOK, Active
  <1>2. LoopIsKnown /\ RemovedIsCancelled /\ OrphanIsCancelled
    BY DEF Init, LoopIsKnown, RemovedIsCancelled, OrphanIsCancelled
  <1>3. NothingOutlivesStop /\ StoppedIsQuiet
    BY DEF Init, NothingOutlivesStop, StoppedIsQuiet
  <1>4. QED
    BY <1>1, <1>2, <1>3 DEF IInv

\* Every step of SetServices, Stop, the loop and connect() keeps all of it.
LEMMA IInvStep == IInv /\ [Next]_vars => IInv'
  <1> SUFFICES ASSUME IInv, [Next]_vars PROVE IInv'
    OBVIOUS
  <1> USE ExporterAssumption
      DEF IInv, TypeOK, Active, LoopIsKnown, RemovedIsCancelled, OrphanIsCancelled,
          NothingOutlivesStop, StoppedIsQuiet, clientVars, loopVars, connVars
  <1>1. ASSUME NEW o \in Objs, NEW a \in Addrs, Add(o, a) PROVE IInv'
    BY <1>1 DEF Add
  <1>2. ASSUME NEW a \in Addrs, SetConfig(a) PROVE IInv'
    BY <1>2 DEF SetConfig
  <1>3. CASE Remove
    BY <1>3 DEF Remove
  <1>4. CASE RemoveReturn
    BY <1>4 DEF RemoveReturn, Waited, WaitedForLoop, WaitedForConns
  <1>5. CASE Stop
    BY <1>5 DEF Stop
  <1>6. CASE StopReturn
    BY <1>6 DEF StopReturn, WaitedForLoop
  <1>7. ASSUME NEW o \in Objs, Top(o) PROVE IInv'
    BY <1>7 DEF Top, LoopStep
  <1>8. ASSUME NEW o \in Objs, Open(o) PROVE IInv'
    BY <1>8 DEF Open, LoopStep, Done
  <1>9. ASSUME NEW o \in Objs, OpenFails(o) \/ RecvFails(o) PROVE IInv'
    <2>1. CASE OpenFails(o)
      BY <2>1 DEF OpenFails, LoopStep
    <2>2. CASE RecvFails(o)
      BY <2>2 DEF RecvFails, LoopStep
    <2>3. QED
      BY <1>9, <2>1, <2>2
  <1>10. ASSUME NEW o \in Objs, Sleep(o) PROVE IInv'
    BY <1>10 DEF Sleep, LoopStep
  <1>11. ASSUME NEW o \in Objs, RecvCanceled(o) PROVE IInv'
    BY <1>11 DEF RecvCanceled, LoopStep
  <1>12. ASSUME NEW o \in Objs, Release(o) PROVE IInv'
    BY <1>12 DEF Release, LoopStep
  <1>13. ASSUME NEW o \in Objs, Finish(o) PROVE IInv'
    BY <1>13 DEF Finish, LoopStep
  <1>14. ASSUME NEW o \in Objs, NEW s \in Servers, RecvRedirect(o, s) PROVE IInv'
    BY <1>14 DEF RecvRedirect, LoopStep
  <1>15. ASSUME NEW o \in Objs, NEW c \in Conns, RecvAnnouncement(o, c) PROVE IInv'
    BY <1>15 DEF RecvAnnouncement
  <1>16. ASSUME NEW c \in Conns, Count(c) PROVE IInv'
    BY <1>16 DEF Count, ConnStep
  <1>17. ASSUME NEW c \in Conns, Accept(c) PROVE IInv'
    BY <1>17 DEF Accept, ConnStep, Done
  <1>18. ASSUME NEW c \in Conns, DialService(c) PROVE IInv'
    BY <1>18 DEF DialService, ConnStep
  <1>19. ASSUME NEW c \in Conns, Fails(c) \/ TunnelEnds(c) PROVE IInv'
    <2>1. CASE Fails(c)
      <3>1. CASE ConnStep(c, "opening", "closing")
        BY <2>1, <3>1 DEF Fails, ConnStep
      <3>2. CASE ConnStep(c, "dialing", "closing")
        BY <2>1, <3>2 DEF Fails, ConnStep
      <3>3. QED
        BY <2>1, <3>1, <3>2 DEF Fails
    <2>2. CASE TunnelEnds(c)
      BY <2>2 DEF TunnelEnds, ConnStep
    <2>3. QED
      BY <1>19, <2>1, <2>2
  <1>20. ASSUME NEW c \in Conns, Close(c) PROVE IInv'
    BY <1>20 DEF Close, ConnStep
  <1>21. ASSUME NEW s \in Servers, ServerChange(s) PROVE IInv'
    BY <1>21 DEF ServerChange
  <1>22. CASE UNCHANGED vars
    BY <1>22 DEF vars
  <1>23. QED
    BY <1>1, <1>2, <1>3, <1>4, <1>5, <1>6, <1>7, <1>8, <1>9, <1>10, <1>11, <1>12, <1>13, <1>14,
       <1>15, <1>16, <1>17, <1>18, <1>19, <1>20, <1>21, <1>22
       DEF Next, Loop, Connect, RecvEnds, TunnelCancelled

\* The inductive invariant of a service name of the exporter.
LEMMA Invariance == Spec => []IInv
  BY IInvInit, IInvStep, PTL DEF Spec

-----------------------------------------------------------------------------
\* Every variable keeps its type, in every instance.
THEOREM TypeCorrect == Spec => []TypeOK
  <1>1. IInv => TypeOK
    BY DEF IInv
  <1>2. QED
    BY <1>1, Invariance, PTL

\* SetServices waits for the loop of a service it removes: no two loops listen for a
\* name.
THEOREM SingleLoop == Spec => []OneLoop
  <1>1. IInv => OneLoop
    BY DEF IInv, TypeOK, LoopIsKnown, OneLoop, Active
  <1>2. QED
    BY <1>1, Invariance, PTL

\* A connect() that stop() did not wait for fails at AcceptConnection: nothing is
\* forwarded for a service that was removed.
THEOREM StopEndsAll == Spec => []NothingOutlivesStop
  <1>1. IInv => NothingOutlivesStop
    BY DEF IInv
  <1>2. QED
    BY <1>1, Invariance, PTL

\* A service that SetServices adds while Stop returns, or later, finds the client's
\* context cancelled and does not listen.
THEOREM QuietAfterStop == Spec => []StoppedIsQuiet
  <1>1. IInv => StoppedIsQuiet
    BY DEF IInv
  <1>2. QED
    BY <1>1, Invariance, PTL
=============================================================================
