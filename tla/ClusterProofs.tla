--------------------------- MODULE ClusterProofs ----------------------------
(***************************************************************************)
(* Proofs about Cluster, for every number of hosts, services, streams,     *)
(* importers, starts and crashes.  Processes and their ids come first:     *)
(* what the clean-up of one server deletes is never the row or a binding   *)
(* of a server that keeps its row.  The bindings follow.                   *)
(***************************************************************************)
EXTENDS Cluster, TLAPS, FiniteSetTheorems, WellFoundedInduction

-----------------------------------------------------------------------------
(* Processes.                                                              *)

\* Ids are drawn once; running processes have different ones.
IdsAreFresh ==
    /\ \A h \in Hosts : id[h] <= started /\ (id[h] = 0 <=> up[h] = "down")
    /\ \A h, k \in Hosts : id[h] = id[k] /\ id[h] # 0 => h = k
    /\ \A n \in rows \cup late : n <= started
    /\ \A h \in Hosts : half[h] <= started /\ \A n \in todo[h] : n <= started
    /\ \A b \in bindings : b.server <= started

\* The bindings of a server are deleted after its row, by others and by itself.
RowGoesFirst ==
    \A h \in Hosts :
        /\ half[h] # 0 => half[h] \notin rows
        /\ up[h] \in {"leaving", "exiting"} => id[h] \notin rows

\* A stream is held by a process.
StreamHasProcess ==
    \A e \in Streams :
        streamPc[e] # "idle" => streamAt[e] \in Hosts /\ up[streamAt[e]] # "down"

Processes == TypeOK /\ IdsAreFresh /\ RowGoesFirst /\ StreamHasProcess

\* No process runs at the start, and the tables are empty.
LEMMA ProcessesInit == Init => Processes
  BY ClusterAssumption
  DEF Init, Processes, TypeOK, Ids, IdsAreFresh, RowGoesFirst, StreamHasProcess

\* The end of a process takes its goroutines and its streams with it.
LEMMA DieStep ==
    ASSUME Processes, NEW h \in Hosts, Die(h), crashes' \in 0..MaxCrashes PROVE Processes'
  <1> USE ClusterAssumption
      DEF Processes, TypeOK, Ids, IdsAreFresh, RowGoesFirst, StreamHasProcess, dbVars, Die
  <1>1. TypeOK'
    OBVIOUS
  <1>2. IdsAreFresh'
    OBVIOUS
  <1>3. RowGoesFirst' /\ StreamHasProcess'
    OBVIOUS
  <1>4. QED
    BY <1>1, <1>2, <1>3

\* What servers do when they start and stop.
LEMMA ServerStep == ASSUME Processes, NEW h \in Hosts, Server(h) PROVE Processes'
  <1> USE ClusterAssumption
      DEF Processes, TypeOK, Ids, IdsAreFresh, RowGoesFirst, StreamHasProcess, dbVars, taskVars,
          streamVars, importVars
  <1>1. CASE Start(h)
    <2>1. /\ started + 1 \in Ids /\ started' = started + 1 /\ up[h] = "down"
          /\ id' = [id EXCEPT ![h] = started + 1] /\ up' = [up EXCEPT ![h] = "up"]
          /\ rows' = rows \cup {started + 1}
          /\ UNCHANGED <<late, bindings, older, crashes, taskPc, todo, half, known, streamPc,
                        streamAt, importPc, importAt, address>>
      BY <1>1 DEF Start
    <2>2. TypeOK'
      BY <2>1
    <2>3. IdsAreFresh'
      <3>1. started' \in Nat /\ started < started' /\ started' # 0
        BY <2>1
      <3>2. \A k \in Hosts : /\ id'[k] = IF k = h THEN started' ELSE id[k]
                             /\ up'[k] = IF k = h THEN "up" ELSE up[k]
        BY <2>1
      <3>3. \A k \in Hosts : id'[k] <= started' /\ (id'[k] = 0 <=> up'[k] = "down")
        BY <3>1, <3>2
      <3>4. \A j, k \in Hosts : id'[j] = id'[k] /\ id'[j] # 0 => j = k
        BY <3>1, <3>2
      <3>5. /\ \A n \in rows' \cup late' : n <= started'
            /\ \A k \in Hosts : half'[k] <= started' /\ \A n \in todo'[k] : n <= started'
        BY <2>1, <3>1
      <3>6. \A b \in bindings' : b.server <= started'
        <4>1. \A b \in bindings : b.server \in Nat /\ b.server <= started
          BY DEF Binding
        <4>2. QED
          BY <2>1, <3>1, <4>1
      <3>7. QED
        BY <3>3, <3>4, <3>5, <3>6
    <2>4. RowGoesFirst' /\ StreamHasProcess'
      BY <2>1
    <2>5. QED
      BY <2>2, <2>3, <2>4
  <1>2. CASE Crash(h)
    BY <1>2, DieStep DEF Crash
  <1>3. CASE StopGrpc(h)
    BY <1>3 DEF StopGrpc
  <1>4. CASE StopRow(h)
    BY <1>4 DEF StopRow
  <1>5. CASE StopBindings(h)
    BY <1>5 DEF StopBindings, Delete
  <1>6. CASE Exit(h)
    BY <1>6, DieStep DEF Exit
  <1>7. QED
    BY <1>1, <1>2, <1>3, <1>4, <1>5, <1>6 DEF Server

\* What their background tasks do.
LEMMA BackgroundStep == ASSUME Processes, NEW h \in Hosts, Background(h) PROVE Processes'
  <1> USE ClusterAssumption
      DEF Processes, TypeOK, Ids, IdsAreFresh, RowGoesFirst, StreamHasProcess, dbVars, procVars,
          streamVars, importVars
  <1>1. CASE HeartbeatSave(h)
    BY <1>1 DEF HeartbeatSave
  <1>2. CASE HeartbeatPanic(h)
    BY <1>2, DieStep DEF HeartbeatPanic
  <1>3. CASE FindDead(h)
    BY <1>3 DEF FindDead, DeadServers
  <1>4. ASSUME NEW n \in Ids, DeleteRow(h, n) PROVE Processes'
    BY <1>4 DEF DeleteRow
  <1>5. CASE DeleteBindings(h)
    BY <1>5 DEF DeleteBindings, Delete
  <1>6. QED
    BY <1>1, <1>2, <1>3, <1>4, <1>5 DEF Background

\* Time passes.
LEMMA LagStep == ASSUME Processes, NEW n \in Ids, Lag(n), n <= started PROVE Processes'
  BY DEF Lag, Processes, TypeOK, IdsAreFresh, RowGoesFirst, StreamHasProcess, procVars,
         taskVars, streamVars, importVars

\* What Listen handlers do.
LEMMA StreamStep == ASSUME Processes, NEW e \in Streams, Stream(e) PROVE Processes'
  <1> USE ClusterAssumption
      DEF Processes, TypeOK, Ids, IdsAreFresh, RowGoesFirst, StreamHasProcess, dbVars, procVars,
          taskVars, importVars
  <1>1. ASSUME NEW h \in Hosts, Open(e, h) PROVE Processes'
    BY <1>1 DEF Open
  <1>2. CASE Bind(e)
    <2> DEFINE b == [stream |-> e, service |-> Exported[e],
                     server |-> id[streamAt[e]], host |-> streamAt[e]]
    <2>1. b \in Binding /\ b.server <= started
      BY <1>2 DEF Bind, Binding
    <2>2. bindings' = bindings \cup {b} /\ older' = older \cup (bindings \X {b})
      BY <1>2 DEF Bind, Insert
    <2> HIDE DEF b
    <2>3. TypeOK'
      BY <1>2, <2>1, <2>2 DEF Bind
    <2>4. IdsAreFresh' /\ RowGoesFirst' /\ StreamHasProcess'
      BY <1>2, <2>1, <2>2 DEF Bind
    <2>5. QED
      BY <2>3, <2>4
  <1>3. CASE Serve(e)
    BY <1>3 DEF Serve
  <1>4. CASE Unbind(e)
    BY <1>4 DEF Unbind, Delete
  <1>5. QED
    BY <1>1, <1>2, <1>3, <1>4 DEF Stream

\* What importers do: processes and records are not theirs to change.
LEMMA ImporterStep ==
    ASSUME Processes, NEW i \in Importers, Importer(i)
    PROVE  Processes' /\ UNCHANGED <<dbVars, procVars, taskVars, known, streamVars>>
  <1> USE ClusterAssumption
      DEF Processes, TypeOK, dbVars, procVars, taskVars, streamVars
  <1>1. UNCHANGED <<dbVars, procVars, taskVars, known, streamVars>>
    BY DEF Importer, Dial, Redirect, DialFails, CountOwn, NotFound, Admit, Hangup
  <1>2. /\ importPc' \in [Importers -> {"idle", "dialing", "asking", "searching", "local", "connected"}]
        /\ importAt' \in [Importers -> Hosts \cup {AnyHost}]
        /\ address' \in [Importers -> Hosts \cup {AnyHost}]
    BY DEF Importer, Dial, Redirect, DialFails, CountOwn, NotFound, Admit, Hangup
  <1>3. TypeOK'
    BY <1>1, <1>2
  <1>4. IdsAreFresh' /\ RowGoesFirst' /\ StreamHasProcess'
    BY <1>1 DEF IdsAreFresh, RowGoesFirst, StreamHasProcess
  <1>5. QED
    BY <1>1, <1>3, <1>4

\* No step disturbs what is known of processes.
LEMMA ProcessesStep == Processes /\ [Next]_vars => Processes'
  <1> SUFFICES ASSUME Processes, [Next]_vars PROVE Processes'
    OBVIOUS
  <1>1. ASSUME NEW h \in Hosts, Server(h) \/ Background(h) PROVE Processes'
    BY <1>1, ServerStep, BackgroundStep
  <1>2. ASSUME NEW n \in Ids, Lag(n) PROVE Processes'
    BY <1>2, LagStep DEF Lag, Processes, IdsAreFresh
  <1>3. ASSUME NEW e \in Streams, Stream(e) PROVE Processes'
    BY <1>3, StreamStep
  <1>4. ASSUME NEW i \in Importers, Importer(i) PROVE Processes'
    BY <1>4, ImporterStep
  <1>5. CASE UNCHANGED vars
    BY <1>5 DEF vars, dbVars, procVars, taskVars, streamVars, importVars, Processes, TypeOK,
                IdsAreFresh, RowGoesFirst, StreamHasProcess
  <1>6. QED
    BY <1>1, <1>2, <1>3, <1>4, <1>5 DEF Next

\* So it always holds.
LEMMA ProcessesAlways == Spec => []Processes
  BY ProcessesInit, ProcessesStep, PTL DEF Spec

\* Every variable keeps its type: in particular no binding is recorded without
\* a server, and none outlives its place in the order of creation.
THEOREM TypeCorrect == Spec => []TypeOK
  <1>1. Processes => TypeOK
    BY DEF Processes
  <1>2. QED
    BY <1>1, ProcessesAlways, PTL

-----------------------------------------------------------------------------
(* Rows of live servers.                                                   *)

\* No server is late, nobody has a live server on its list of dead ones, and
\* the row is there until the server's own Stop deletes it.
Kept ==
    /\ \A h \in Hosts : up[h] # "down" => id[h] \notin late
    /\ \A h, k \in Hosts : up[h] # "down" => id[h] \notin todo[k]
    /\ \A h \in Hosts : up[h] \in {"up", "stopping"} => id[h] \in rows

\* The clean-up spares the servers that send their heartbeats in time.
LEMMA KeptStep ==
    ASSUME Processes, Processes', Kept, ~MayBeSlow, [Next]_vars
    PROVE  Kept'
  <1> USE ClusterAssumption DEF Processes, TypeOK, Ids, IdsAreFresh, Kept
  <1> DEFINE same == UNCHANGED <<rows, late, todo, id, up>>
  <1>1. ASSUME NEW h \in Hosts, Die(h) PROVE Kept'
    BY <1>1 DEF Die, dbVars
  <1>2. ASSUME NEW h \in Hosts, Start(h) PROVE Kept'
    <2>1. /\ started \in Nat /\ id' = [id EXCEPT ![h] = started + 1]
          /\ up' = [up EXCEPT ![h] = "up"] /\ rows' = rows \cup {started + 1}
          /\ UNCHANGED <<late, todo>>
      BY <1>2 DEF Start, taskVars
    <2>2. \A n \in rows \cup late : n # started + 1
      BY <2>1
    <2>3. \A k \in Hosts : started + 1 \notin todo[k]
      BY <2>1
    <2>4. QED
      BY <2>1, <2>2, <2>3
  <1>3. ASSUME NEW h \in Hosts, Server(h) PROVE Kept'
    <2>1. CASE StopGrpc(h)
      BY <2>1 DEF StopGrpc, dbVars, taskVars
    <2>2. CASE StopRow(h)
      BY <2>2 DEF StopRow, taskVars, IdsAreFresh
    <2>3. CASE StopBindings(h)
      BY <2>3 DEF StopBindings, taskVars
    <2>4. QED
      BY <1>1, <1>2, <1>3, <2>1, <2>2, <2>3 DEF Server, Crash, Exit
  <1>4. ASSUME NEW h \in Hosts, Background(h) PROVE Kept'
    <2>1. CASE HeartbeatSave(h)
      BY <2>1 DEF HeartbeatSave, procVars
    <2>2. CASE HeartbeatPanic(h)
      BY <2>2, <1>1 DEF HeartbeatPanic
    <2>3. CASE DeleteBindings(h)
      BY <2>3 DEF DeleteBindings, procVars
    <2>4. CASE FindDead(h)
      BY <2>4 DEF FindDead, DeadServers, procVars, dbVars
    <2>5. ASSUME NEW n \in Ids, DeleteRow(h, n) PROVE Kept'
      BY <2>5 DEF DeleteRow, procVars
    <2>6. QED
      BY <1>4, <2>1, <2>2, <2>3, <2>4, <2>5 DEF Background
  <1>5. ASSUME NEW n \in Ids, Lag(n) PROVE Kept'
    BY <1>5 DEF Lag, Live, procVars, taskVars
  <1>6. ASSUME NEW e \in Streams, Stream(e) PROVE same
    BY <1>6 DEF Stream, Open, Bind, Serve, Unbind, dbVars, procVars, taskVars
  <1>7. ASSUME NEW i \in Importers, Importer(i) PROVE same
    BY <1>7, ImporterStep DEF dbVars, procVars, taskVars
  <1>8. CASE UNCHANGED vars
    BY <1>8 DEF vars, dbVars, procVars, taskVars
  <1>9. QED
    BY <1>3, <1>4, <1>5, <1>6, <1>7, <1>8 DEF Next

\* As long as no live server misses the 20 seconds, none loses its row to the
\* clean-up of another one (backgroundTasks), whatever the order of their
\* statements.
THEOREM LiveRowsKept == Spec => []LiveServersKeepRows
  <1>1. Init => (~MayBeSlow => Kept)
    BY DEF Init, Kept
  <1>2. Processes /\ Processes' /\ (~MayBeSlow => Kept) /\ [Next]_vars => (~MayBeSlow => Kept)'
    BY KeptStep
  <1>3. (~MayBeSlow => Kept) => LiveServersKeepRows
    BY DEF Kept, LiveServersKeepRows
  <1>4. QED
    BY <1>1, <1>2, <1>3, ProcessesAlways, PTL DEF Spec

-----------------------------------------------------------------------------
(* Bindings.                                                               *)

\* A binding of a running server is that of a stream the server holds.
BindingHasStream ==
    \A b \in bindings, h \in Hosts :
        b.server = id[h] =>
            streamAt[b.stream] = h /\ streamPc[b.stream] \in {"bound", "serving"}

Bindings == BindingCoversStream /\ BindingHasStream

\* What Bind records for e.
Recorded(e) ==
    [stream |-> e, service |-> Exported[e], server |-> id[streamAt[e]], host |-> streamAt[e]]

\* A row that a stream adds is one the table does not have.
LEMMA RecordedIsNew ==
    ASSUME Processes, BindingHasStream, NEW e \in Streams, Bind(e)
    PROVE  Recorded(e) \notin bindings /\ Recorded(e) \in Binding
  <1>1. streamPc[e] = "allowed" /\ streamAt[e] \in Hosts /\ id[streamAt[e]] \in Ids
    BY ClusterAssumption DEF Processes, TypeOK, Ids, IdsAreFresh, StreamHasProcess, Bind
  <1>2. Recorded(e).stream = e /\ Recorded(e).server = id[streamAt[e]]
    BY DEF Recorded
  <1>3. Recorded(e) \in Binding
    BY <1>1, ClusterAssumption DEF Recorded, Binding
  <1>4. Recorded(e) \notin bindings
    BY <1>1, <1>2 DEF BindingHasStream
  <1>5. QED
    BY <1>3, <1>4

\* What servers and their background tasks do to bindings.
LEMMA ServerBindings ==
    ASSUME Processes, Bindings, NEW h \in Hosts, Server(h) \/ Background(h)
    PROVE  Bindings'
  <1> USE ClusterAssumption
      DEF Processes, TypeOK, Ids, Binding, IdsAreFresh, RowGoesFirst, StreamHasProcess, Bindings,
          BindingCoversStream, BindingHasStream, dbVars, procVars, taskVars, streamVars,
          importVars
  <1>1. CASE Die(h)
    BY <1>1 DEF Die
  <1>2. CASE Start(h)
    <2>1. /\ started \in Nat /\ id' = [id EXCEPT ![h] = started + 1] /\ up[h] = "down"
          /\ rows' = rows \cup {started + 1} /\ UNCHANGED <<bindings, streamPc, streamAt>>
      BY <1>2 DEF Start
    <2>2. \A b \in bindings : b.server # started + 1
      BY <2>1
    <2>3. \A e \in Streams : streamPc[e] # "idle" => streamAt[e] # h
      BY <2>1
    <2>4. BindingCoversStream'
      BY <2>1, <2>3
    <2>5. BindingHasStream'
      BY <2>1, <2>2
    <2>6. QED
      BY <2>4, <2>5
  <1>3. CASE StopGrpc(h)
    BY <1>3 DEF StopGrpc
  <1>4. CASE StopRow(h)
    BY <1>4 DEF StopRow
  <1>5. CASE StopBindings(h)
    BY <1>5 DEF StopBindings, Delete, OfServer
  <1>6. CASE HeartbeatSave(h) \/ FindDead(h)
    BY <1>6 DEF HeartbeatSave, FindDead
  <1>7. ASSUME NEW n \in Ids, DeleteRow(h, n) PROVE Bindings'
    BY <1>7 DEF DeleteRow
  <1>8. CASE DeleteBindings(h)
    BY <1>8 DEF DeleteBindings, Delete, OfServer
  <1>9. QED
    BY <1>1, <1>2, <1>3, <1>4, <1>5, <1>6, <1>7, <1>8
    DEF Server, Crash, Exit, Background, HeartbeatPanic

\* What Listen handlers do to them.
LEMMA StreamBindings ==
    ASSUME Processes, Bindings, NEW e \in Streams, Stream(e)
    PROVE  Bindings'
  <1> USE ClusterAssumption
      DEF Processes, TypeOK, Ids, Binding, IdsAreFresh, StreamHasProcess, Bindings,
          BindingCoversStream, BindingHasStream, dbVars, procVars, taskVars, importVars
  <1>1. ASSUME NEW h \in Hosts, Open(e, h) PROVE Bindings'
    BY <1>1 DEF Open
  <1>2. CASE Bind(e)
    <2> DEFINE b == Recorded(e)
    <2>1. b.stream = e /\ b.server = id[streamAt[e]]
      BY DEF Recorded
    <2>2. bindings' = bindings \cup {b} /\ UNCHANGED <<id, rows, streamAt>>
          /\ streamPc[e] = "allowed" /\ streamPc' = [streamPc EXCEPT ![e] = "bound"]
      BY <1>2 DEF Bind, Insert, Recorded
    <2> HIDE DEF b
    <2>3. BindingCoversStream'
      BY <2>1, <2>2
    <2>4. BindingHasStream'
      BY <2>1, <2>2
    <2>5. QED
      BY <2>3, <2>4
  <1>3. CASE Serve(e)
    BY <1>3 DEF Serve
  <1>4. CASE Unbind(e)
    BY <1>4 DEF Unbind, Delete, OfStream
  <1>5. QED
    BY <1>1, <1>2, <1>3, <1>4 DEF Stream

\* No step disturbs what is known of bindings.
LEMMA BindingsStep == Processes /\ Bindings /\ [Next]_vars => Bindings'
  <1> SUFFICES ASSUME Processes, Bindings, [Next]_vars PROVE Bindings'
    OBVIOUS
  <1>1. CASE UNCHANGED <<rows, bindings, id, streamPc, streamAt>>
    BY <1>1 DEF Bindings, BindingCoversStream, BindingHasStream
  <1>2. ASSUME NEW h \in Hosts, Server(h) \/ Background(h) PROVE Bindings'
    BY <1>2, ServerBindings
  <1>3. ASSUME NEW n \in Ids, Lag(n) PROVE Bindings'
    BY <1>1, <1>3 DEF Lag, procVars, streamVars
  <1>4. ASSUME NEW e \in Streams, Stream(e) PROVE Bindings'
    BY <1>4, StreamBindings
  <1>5. ASSUME NEW i \in Importers, Importer(i) PROVE Bindings'
    BY <1>1, <1>5, ImporterStep DEF dbVars, procVars, streamVars
  <1>6. CASE UNCHANGED vars
    BY <1>1, <1>6 DEF vars, dbVars, procVars, streamVars
  <1>7. QED
    BY <1>2, <1>3, <1>4, <1>5, <1>6 DEF Next

\* So it always holds.
LEMMA BindingsAlways == Spec => []Bindings
  <1>1. Init => Bindings
    BY DEF Init, Bindings, BindingCoversStream, BindingHasStream
  <1>2. QED
    BY <1>1, BindingsStep, ProcessesAlways, PTL DEF Spec

\* A stream that is served has its binding until the row of its server is
\* deleted: neither the other streams' closeFunc, on the same service and server
\* or not, nor any clean-up takes it away.
THEOREM BindingsCover == Spec => []BindingCoversStream
  <1>1. Bindings => BindingCoversStream
    BY DEF Bindings
  <1>2. QED
    BY <1>1, BindingsAlways, PTL

\* Every binding is a row of its own, as the ids that OnListen draws make it: a
\* stream never records what the table holds already, and so a closeFunc deletes
\* one row.
THEOREM RowOfItsOwn ==
    Spec => [][\A e \in Streams : Bind(e) =>
                  Recorded(e) \in bindings' /\ Recorded(e) \notin bindings]_vars
  <1>1. ASSUME Processes, Bindings, NEW e \in Streams, Bind(e)
        PROVE  Recorded(e) \in bindings' /\ Recorded(e) \notin bindings
    BY <1>1, RecordedIsNew DEF Bindings, Bind, Insert, Recorded
  <1>2. Processes /\ Bindings =>
          [\A e \in Streams : Bind(e) =>
              Recorded(e) \in bindings' /\ Recorded(e) \notin bindings]_vars
    BY <1>1
  <1>3. QED
    BY <1>2, ProcessesAlways, BindingsAlways, PTL DEF Spec

-----------------------------------------------------------------------------
(* The newest binding.                                                     *)

\* Bindings are finitely many, created one after the other.
Dated ==
    /\ IsFiniteSet(bindings)
    /\ \A b \in bindings : <<b, b>> \notin older
    /\ \A b, c \in bindings : b = c \/ <<b, c>> \in older \/ <<c, b>> \in older
    /\ \A a, b, c \in bindings : <<a, b>> \in older /\ <<b, c>> \in older => <<a, c>> \in older
    /\ older \subseteq bindings \X bindings

\* Neither an insertion of a new row nor a deletion disturbs the order.
LEMMA DatedStep == Processes /\ Bindings /\ Dated /\ [Next]_vars => Dated'
  <1> SUFFICES ASSUME Processes, Bindings, Dated, [Next]_vars PROVE Dated'
    OBVIOUS
  <1>1. CASE UNCHANGED <<bindings, older>>
    BY <1>1 DEF Dated
  <1>2. ASSUME NEW B, Delete(B) PROVE Dated'
    <2>1. IsFiniteSet(bindings')
      BY <1>2, FS_Difference DEF Delete, Dated
    <2>2. QED
      BY <1>2, <2>1 DEF Delete, Dated
  <1>3. ASSUME NEW b, b \notin bindings, Insert(b) PROVE Dated'
    <2>1. bindings' = bindings \cup {b} /\ older' = older \cup (bindings \X {b})
      BY <1>3 DEF Insert
    <2>2. IsFiniteSet(bindings')
      BY <2>1, FS_AddElement DEF Dated
    <2>3. \A c, d : <<c, d>> \in older' <=> <<c, d>> \in older \/ (c \in bindings /\ d = b)
      <3>1. \A c, d : <<c, d>> \in bindings \X {b} <=> c \in bindings /\ d = b
        OBVIOUS
      <3>2. QED
        BY <2>1, <3>1
    <2>4. \A c, d : <<c, d>> \in older => c \in bindings /\ d \in bindings
      BY DEF Dated
    <2>5. \A c \in bindings' : <<c, c>> \notin older'
      BY <1>3, <2>1, <2>3, <2>4 DEF Dated
    <2>6. \A c, d \in bindings' : c = d \/ <<c, d>> \in older' \/ <<d, c>> \in older'
      BY <2>1, <2>3 DEF Dated
    <2>7. \A a, c, d \in bindings' :
              <<a, c>> \in older' /\ <<c, d>> \in older' => <<a, d>> \in older'
      BY <1>3, <2>1, <2>3, <2>4 DEF Dated
    <2>8. older' \subseteq bindings' \X bindings'
      BY <2>1, <2>4 DEF Dated
    <2>9. QED
      BY <2>2, <2>5, <2>6, <2>7, <2>8 DEF Dated
  <1>4. ASSUME NEW h \in Hosts, Server(h) PROVE Dated'
    BY <1>1, <1>2, <1>4
    DEF Server, Start, Crash, Exit, Die, StopGrpc, StopRow, StopBindings, dbVars
  <1>5. ASSUME NEW h \in Hosts, Background(h) PROVE Dated'
    BY <1>1, <1>2, <1>5
    DEF Background, HeartbeatSave, HeartbeatPanic, Die, FindDead, DeleteRow, DeleteBindings,
        dbVars
  <1>6. ASSUME NEW e \in Streams, Stream(e) PROVE Dated'
    <2>1. CASE Bind(e)
      <3>1. Insert(Recorded(e))
        BY <2>1 DEF Bind, Recorded
      <3>2. Recorded(e) \notin bindings
        BY <2>1, RecordedIsNew DEF Bindings
      <3>3. QED
        BY <1>3, <3>1, <3>2
    <2>2. CASE Unbind(e)
      BY <1>2, <2>2 DEF Unbind
    <2>3. QED
      BY <1>1, <1>6, <2>1, <2>2 DEF Stream, Open, Serve, dbVars
  <1>7. ASSUME NEW i \in Importers, Importer(i) PROVE Dated'
    BY <1>1, <1>7, ImporterStep DEF dbVars
  <1>8. QED
    BY <1>1, <1>4, <1>5, <1>6, <1>7 DEF Next, Lag, vars, dbVars

\* A finite, nonempty set of bindings has a last one: take one with the fewest
\* younger ones.
LEMMA NewestExists == ASSUME Dated, bindings # {} PROVE \E b \in bindings : Newest(b)
  <1> DEFINE Younger(b) == {c \in bindings : <<b, c>> \in older}
             All == {Younger(b) : b \in bindings}
  <1>1. All \subseteq FiniteSubsetsOf(bindings) /\ All # {}
    <2>1. \A b \in bindings : Younger(b) \subseteq bindings /\ IsFiniteSet(Younger(b))
      BY FS_Subset DEF Dated
    <2> HIDE DEF Younger
    <2>2. QED
      BY <2>1 DEF FiniteSubsetsOf
  <1>2. PICK Y \in All : \A Z \in All : <<Z, Y>> \notin StrictSubsetOrdering(bindings)
    <2> HIDE DEF All
    <2>1. IsWellFoundedOn(StrictSubsetOrdering(bindings), FiniteSubsetsOf(bindings))
      BY FS_StrictSubsetOrderingWellFounded
    <2>2. QED
      BY <1>1, <2>1, WFMin
  <1>3. PICK b \in bindings : Y = Younger(b)
    BY <1>2
  <1>4. ASSUME NEW c \in Younger(b) PROVE FALSE
    <2>1. c \in bindings /\ <<b, c>> \in older
      BY <1>4
    <2>2. Younger(c) \subseteq Younger(b) /\ c \notin Younger(c)
      BY <2>1 DEF Dated
    <2>3. <<Younger(c), Y>> \in StrictSubsetOrdering(bindings)
      BY <1>3, <1>4, <2>2 DEF StrictSubsetOrdering
    <2>4. QED
      BY <1>2, <2>1, <2>3
  <1>5. \A c \in bindings \ {b} : <<c, b>> \in older
    BY <1>4 DEF Dated
  <1>6. QED
    BY <1>3, <1>5 DEF Newest

\* OnConnect has an answer whatever happens to the table between its two
\* statements: there is a newest binding or there is no binding at all, and it
\* is one binding only.
THEOREM SearchAnswers ==
    Spec => [](/\ bindings = {} \/ \E b \in bindings : Newest(b)
               /\ \A b, c \in bindings : Newest(b) /\ Newest(c) => b = c)
  <1>1. Init => Dated
    BY FS_EmptySet DEF Init, Dated
  <1>2. ASSUME Dated, NEW b \in bindings, NEW c \in bindings, Newest(b), Newest(c), b # c
        PROVE  FALSE
    BY <1>2 DEF Dated, Newest
  <1>3. Dated => /\ bindings = {} \/ \E b \in bindings : Newest(b)
                 /\ \A b, c \in bindings : Newest(b) /\ Newest(c) => b = c
    BY <1>2, NewestExists
  <1>4. QED
    BY <1>1, <1>3, DatedStep, ProcessesAlways, BindingsAlways, PTL DEF Spec
=============================================================================
