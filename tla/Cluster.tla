------------------------------ MODULE Cluster -------------------------------
(***************************************************************************)
(* Several grpc-rpf servers that share a database                          *)
(* (internal/pkg/store/store_db.go): each records the Listen streams it    *)
(* holds as bindings, redirects importers to the holder of a binding, and  *)
(* removes the records of servers that stopped refreshing theirs.  The     *)
(* importer's side of a redirect is handshake in                           *)
(* internal/pkg/importer/importer.go.                                      *)
(*                                                                         *)
(* Every statement sent to the database is a step: handlers, background    *)
(* tasks and servers interleave between any two.  A server process has a   *)
(* fresh id (serverId), its host keeps the advertised address.             *)
(*                                                                         *)
(* Abstracted: tokens (only calls that are allowed change anything), other *)
(* columns, and time: the alive_at of a server is late or it is not.  The  *)
(* database itself does not fail, and every server has an advertised       *)
(* address of its own (not "*", which means: never redirect).              *)
(***************************************************************************)
EXTENDS Naturals

CONSTANTS
    Hosts,      \* advertised addresses, one server process each
    Services,
    Streams,    \* Listen streams of exporters
    Importers,  \* importer services, one connection at a time
    Exported,   \* the service of each stream
    Imported,   \* the service of each importer
    AnyHost,    \* the configured address, behind which a load balancer is
    MayBeSlow,  \* TRUE iff a live server may miss the 20 seconds
    MaxStarts,  \* bound: server processes
    MaxCrashes  \* bound: crashes

ASSUME ClusterAssumption ==
    /\ Exported \in [Streams -> Services]
    /\ Imported \in [Importers -> Services]
    /\ AnyHost \notin Hosts
    /\ MayBeSlow \in BOOLEAN
    /\ MaxStarts \in Nat /\ MaxCrashes \in Nat

Ids == 1..MaxStarts

VARIABLES
    \* the database
    rows,     \* ids with a row in table servers
    late,     \* ids whose alive_at is more than 20 seconds old
    bindings, \* table bindings
    older,    \* pairs of bindings: the first was created before the second
    \* server processes
    started,  \* processes started so far
    crashes,
    up,       \* "down", "up", "stopping", "leaving", "exiting" in Stop
    id,       \* serverId of the process of a host, 0 when it is down
    taskPc,   \* backgroundTasks: "waiting", "saved", "deleting"
    todo,     \* deadServers of the current round
    half,     \* the one whose row is deleted and whose bindings are not, or 0
    known,    \* services the process has an entry for
    \* Listen handlers and importers
    streamPc, streamAt,
    importPc, importAt,
    address   \* service.serverAddress of the importer

dbVars == <<rows, late, bindings, older>>
procVars == <<started, crashes, up, id>>
taskVars == <<taskPc, todo, half>>
streamVars == <<streamPc, streamAt>>
importVars == <<importPc, importAt, address>>
vars == <<dbVars, procVars, taskVars, known, streamVars, importVars>>

Binding == [stream : Streams, service : Services, server : Ids, host : Hosts]

TypeOK ==
    /\ rows \subseteq Ids /\ late \subseteq Ids
    /\ bindings \subseteq Binding /\ older \subseteq bindings \X bindings
    /\ started \in 0..MaxStarts /\ crashes \in 0..MaxCrashes
    /\ up \in [Hosts -> {"down", "up", "stopping", "leaving", "exiting"}]
    /\ id \in [Hosts -> 0..MaxStarts]
    /\ taskPc \in [Hosts -> {"waiting", "saved", "deleting"}]
    /\ todo \in [Hosts -> SUBSET Ids] /\ half \in [Hosts -> 0..MaxStarts]
    /\ known \in [Hosts -> SUBSET Services]
    /\ streamPc \in [Streams -> {"idle", "allowed", "bound", "serving"}]
    /\ streamAt \in [Streams -> Hosts \cup {AnyHost}]
    /\ importPc \in [Importers -> {"idle", "dialing", "asking", "searching", "local", "connected"}]
    /\ importAt \in [Importers -> Hosts \cup {AnyHost}]
    /\ address \in [Importers -> Hosts \cup {AnyHost}]

Init ==
    /\ rows = {} /\ late = {} /\ bindings = {} /\ older = {}
    /\ started = 0 /\ crashes = 0
    /\ up = [h \in Hosts |-> "down"] /\ id = [h \in Hosts |-> 0]
    /\ taskPc = [h \in Hosts |-> "waiting"]
    /\ todo = [h \in Hosts |-> {}] /\ half = [h \in Hosts |-> 0]
    /\ known = [h \in Hosts |-> {}]
    /\ streamPc = [e \in Streams |-> "idle"] /\ streamAt = [e \in Streams |-> AnyHost]
    /\ importPc = [i \in Importers |-> "idle"] /\ importAt = [i \in Importers |-> AnyHost]
    /\ address = [i \in Importers |-> AnyHost]

\* Process n still runs.
Live(n) == \E h \in Hosts : id[h] = n

\* created_at is the time of the insertion.
Insert(b) == bindings' = bindings \cup {b} /\ older' = older \cup (bindings \X {b})

Delete(B) == bindings' = bindings \ B /\ older' = older \cap ((bindings \ B) \X (bindings \ B))

\* ORDER BY created_at DESC LIMIT 1.
Newest(b) == b \in bindings /\ \A c \in bindings \ {b} : <<c, b>> \in older

\* WHERE server_id = n.
OfServer(n) == {b \in bindings : b.server = n}

\* Faulty: the service is used where the id of the binding should be.
OfService(e, n) == {b \in bindings : b.service = Exported[e] /\ b.server = n}

\* WHERE id = the one that OnListen drew for e.
OfStream(e, n) == {b \in bindings : b.stream = e /\ b.server = n}

-----------------------------------------------------------------------------
(* Server processes.                                                       *)

\* Start: the row of a new serverId.
Start(h) ==
    /\ up[h] = "down" /\ started < MaxStarts
    /\ started' = started + 1
    /\ up' = [up EXCEPT ![h] = "up"]
    /\ id' = [id EXCEPT ![h] = started']
    /\ rows' = rows \cup {started'}
    /\ UNCHANGED <<late, bindings, older, crashes, taskVars, known, streamVars, importVars>>

\* The process of h is gone, with its goroutines and its connections.
Die(h) ==
    /\ up' = [up EXCEPT ![h] = "down"] /\ id' = [id EXCEPT ![h] = 0]
    /\ taskPc' = [taskPc EXCEPT ![h] = "waiting"]
    /\ todo' = [todo EXCEPT ![h] = {}] /\ half' = [half EXCEPT ![h] = 0]
    /\ known' = [known EXCEPT ![h] = {}]
    /\ streamPc' = [e \in Streams |-> IF streamAt[e] = h THEN "idle" ELSE streamPc[e]]
    /\ streamAt' = [e \in Streams |-> IF streamAt[e] = h THEN AnyHost ELSE streamAt[e]]
    /\ importPc' = [i \in Importers |-> IF importAt[i] = h THEN "idle" ELSE importPc[i]]
    /\ importAt' = [i \in Importers |-> IF importAt[i] = h THEN AnyHost ELSE importAt[i]]
    /\ UNCHANGED <<dbVars, started, address>>

Crash(h) ==
    /\ up[h] # "down" /\ crashes < MaxCrashes
    /\ crashes' = crashes + 1
    /\ Die(h)

\* The server process ends its gRPC server first: calls of importers break, no
\* call is accepted any more; Listen handlers end by themselves.
StopGrpc(h) ==
    /\ up[h] = "up"
    /\ up' = [up EXCEPT ![h] = "stopping"]
    /\ importPc' = [i \in Importers |-> IF importAt[i] = h THEN "idle" ELSE importPc[i]]
    /\ importAt' = [i \in Importers |-> IF importAt[i] = h THEN AnyHost ELSE importAt[i]]
    /\ UNCHANGED <<dbVars, started, crashes, id, taskVars, known, streamVars, address>>

\* Then the store's Stop: wait for backgroundTasks, delete the row ...
StopRow(h) ==
    /\ up[h] = "stopping" /\ taskPc[h] = "waiting"
    /\ up' = [up EXCEPT ![h] = "leaving"]
    /\ rows' = rows \ {id[h]}
    /\ UNCHANGED <<late, bindings, older, started, crashes, id, taskVars, known, streamVars, importVars>>

\* ... and the bindings.
StopBindings(h) ==
    /\ up[h] = "leaving"
    /\ up' = [up EXCEPT ![h] = "exiting"]
    /\ Delete(OfServer(id[h]))
    /\ UNCHANGED <<rows, late, started, crashes, id, taskVars, known, streamVars, importVars>>

Exit(h) == up[h] = "exiting" /\ Die(h) /\ UNCHANGED crashes

-----------------------------------------------------------------------------
(* backgroundTasks, every ten seconds until stopChan is closed.            *)

\* alive_at = now() for the row of this server.
HeartbeatSave(h) ==
    /\ up[h] \in {"up", "stopping"} /\ taskPc[h] = "waiting"
    /\ taskPc' = [taskPc EXCEPT ![h] = "saved"]
    /\ late' = late \ {id[h]}
    /\ UNCHANGED <<rows, bindings, older, procVars, todo, half, known, streamVars, importVars>>

\* Without that row there is nothing to update: what gorm then does may fail, and
\* the process panics.
HeartbeatPanic(h) ==
    /\ up[h] \in {"up", "stopping"} /\ taskPc[h] = "waiting"
    /\ id[h] \notin rows
    /\ Die(h) /\ UNCHANGED crashes

\* Faulty: the servers that are alive are selected.
DeadServersInverted == rows \ late

\* Faulty: the row of every server is refreshed, and so none is found.
NoDeadServers == {}

\* (alive_at + INTERVAL '20 seconds') < now().
DeadServers == rows \cap late

FindDead(h) ==
    /\ taskPc[h] = "saved"
    /\ todo' = [todo EXCEPT ![h] = DeadServers]
    /\ taskPc' = [taskPc EXCEPT ![h] = IF DeadServers = {} THEN "waiting" ELSE "deleting"]
    /\ UNCHANGED <<dbVars, procVars, half, known, streamVars, importVars>>

\* For each of them: delete its row ...
DeleteRow(h, n) ==
    /\ taskPc[h] = "deleting" /\ half[h] = 0 /\ n \in todo[h]
    /\ rows' = rows \ {n}
    /\ half' = [half EXCEPT ![h] = n]
    /\ UNCHANGED <<late, bindings, older, procVars, taskPc, todo, known, streamVars, importVars>>

\* ... and its bindings.
DeleteBindings(h) ==
    /\ taskPc[h] = "deleting" /\ half[h] # 0
    /\ Delete(OfServer(half[h]))
    /\ todo' = [todo EXCEPT ![h] = @ \ {half[h]}]
    /\ half' = [half EXCEPT ![h] = 0]
    /\ taskPc' = [taskPc EXCEPT ![h] = IF todo'[h] = {} THEN "waiting" ELSE "deleting"]
    /\ UNCHANGED <<rows, late, procVars, known, streamVars, importVars>>

\* Twenty seconds pass without a heartbeat of n.
Lag(n) ==
    /\ n \in rows \ late
    /\ Live(n) => MayBeSlow
    /\ late' = late \cup {n}
    /\ UNCHANGED <<rows, bindings, older, procVars, taskVars, known, streamVars, importVars>>

-----------------------------------------------------------------------------
(* A Listen stream: OnListen, the stream, and the closeFunc it returned.   *)

Open(e, h) ==
    /\ streamPc[e] = "idle" /\ up[h] = "up"
    /\ streamPc' = [streamPc EXCEPT ![e] = "allowed"]
    /\ streamAt' = [streamAt EXCEPT ![e] = h]
    /\ UNCHANGED <<dbVars, procVars, taskVars, known, importVars>>

\* Faulty: the configured address is recorded, not the advertised one.
BindConfigured(e) ==
    /\ streamPc[e] = "allowed"
    /\ streamPc' = [streamPc EXCEPT ![e] = "bound"]
    /\ Insert([stream |-> e, service |-> Exported[e], server |-> id[streamAt[e]], host |-> AnyHost])
    /\ UNCHANGED <<rows, late, procVars, taskVars, known, streamAt, importVars>>

\* DB.Create(&Binding{...}).
Bind(e) ==
    /\ streamPc[e] = "allowed"
    /\ streamPc' = [streamPc EXCEPT ![e] = "bound"]
    /\ Insert([stream |-> e, service |-> Exported[e],
               server |-> id[streamAt[e]], host |-> streamAt[e]])
    /\ UNCHANGED <<rows, late, procVars, taskVars, known, streamAt, importVars>>

\* The handler enters the service into the map and waits for connections.
Serve(e) ==
    /\ streamPc[e] = "bound"
    /\ streamPc' = [streamPc EXCEPT ![e] = "serving"]
    /\ known' = [known EXCEPT ![streamAt[e]] = @ \cup {Exported[e]}]
    /\ UNCHANGED <<dbVars, procVars, taskVars, streamAt, importVars>>

\* The stream ends, for whatever reason: closeFunc.
Unbind(e) ==
    /\ streamPc[e] = "serving"
    /\ Delete(OfStream(e, id[streamAt[e]]))
    /\ streamPc' = [streamPc EXCEPT ![e] = "idle"]
    /\ streamAt' = [streamAt EXCEPT ![e] = AnyHost]
    /\ UNCHANGED <<rows, late, procVars, taskVars, known, importVars>>

-----------------------------------------------------------------------------
(* An importer's handshake, and OnConnect on the server it reaches.        *)

\* Connect to the configured address, or to where the last redirect led.
Dial(i, h) ==
    /\ importPc[i] \in {"idle", "dialing"}
    /\ address[i] \in {AnyHost, h} /\ up[h] = "up"
    /\ importPc' = [importPc EXCEPT ![i] = "asking"]
    /\ importAt' = [importAt EXCEPT ![i] = h]
    /\ UNCHANGED <<dbVars, procVars, taskVars, known, streamVars, address>>

\* Nobody answers there: the connection is given up, the address is kept.
DialFails(i) ==
    /\ importPc[i] = "dialing" /\ up[address[i]] # "up"
    /\ importPc' = [importPc EXCEPT ![i] = "idle"]
    /\ UNCHANGED <<dbVars, procVars, taskVars, known, streamVars, importAt, address>>

\* Faulty: the bindings of the other servers are counted.
CountOthers(i) ==
    /\ importPc[i] = "asking"
    /\ LET own == \E b \in bindings : b.server # id[importAt[i]] /\ b.service = Imported[i]
       IN importPc' = [importPc EXCEPT ![i] = IF own THEN "local" ELSE "searching"]
    /\ UNCHANGED <<dbVars, procVars, taskVars, known, streamVars, importAt, address>>

\* Does this server have a binding?
CountOwn(i) ==
    /\ importPc[i] = "asking"
    /\ LET own == \E b \in bindings : b.server = id[importAt[i]] /\ b.service = Imported[i]
       IN importPc' = [importPc EXCEPT ![i] = IF own THEN "local" ELSE "searching"]
    /\ UNCHANGED <<dbVars, procVars, taskVars, known, streamVars, importAt, address>>

\* If not, the newest binding says where to go; without one, ServiceNotFound.
Redirect(i, h) ==
    /\ importPc[i] = "searching"
    /\ \E b \in bindings : Newest(b) /\ h = b.host
    /\ address' = [address EXCEPT ![i] = h]
    /\ importPc' = [importPc EXCEPT ![i] = "dialing"]
    /\ importAt' = [importAt EXCEPT ![i] = AnyHost]
    /\ UNCHANGED <<dbVars, procVars, taskVars, known, streamVars>>

NotFound(i) ==
    /\ importPc[i] = "searching" /\ bindings = {}
    /\ importPc' = [importPc EXCEPT ![i] = "idle"]
    /\ importAt' = [importAt EXCEPT ![i] = AnyHost]
    /\ UNCHANGED <<dbVars, procVars, taskVars, known, streamVars, address>>

\* Connect goes on with the service's entry, or NotAcceptingConnections.
Admit(i) ==
    /\ importPc[i] = "local"
    /\ \/ /\ Imported[i] \in known[importAt[i]]
          /\ importPc' = [importPc EXCEPT ![i] = "connected"]
          /\ UNCHANGED importAt
       \/ /\ Imported[i] \notin known[importAt[i]]
          /\ importPc' = [importPc EXCEPT ![i] = "idle"]
          /\ importAt' = [importAt EXCEPT ![i] = AnyHost]
    /\ UNCHANGED <<dbVars, procVars, taskVars, known, streamVars, address>>

Hangup(i) ==
    /\ importPc[i] = "connected"
    /\ importPc' = [importPc EXCEPT ![i] = "idle"]
    /\ importAt' = [importAt EXCEPT ![i] = AnyHost]
    /\ UNCHANGED <<dbVars, procVars, taskVars, known, streamVars, address>>

-----------------------------------------------------------------------------
Background(h) ==
    HeartbeatSave(h) \/ HeartbeatPanic(h) \/ FindDead(h) \/ DeleteBindings(h)
        \/ \E n \in Ids : DeleteRow(h, n)

Server(h) ==
    Start(h) \/ Crash(h) \/ StopGrpc(h) \/ StopRow(h) \/ StopBindings(h) \/ Exit(h)

Stream(e) == (\E h \in Hosts : Open(e, h)) \/ Bind(e) \/ Serve(e) \/ Unbind(e)

Importer(i) ==
    \/ \E h \in Hosts : Dial(i, h) \/ Redirect(i, h)
    \/ DialFails(i) \/ CountOwn(i) \/ NotFound(i) \/ Admit(i) \/ Hangup(i)

Next ==
    \/ \E h \in Hosts : Server(h) \/ Background(h)
    \/ \E n \in Ids : Lag(n)
    \/ \E e \in Streams : Stream(e)
    \/ \E i \in Importers : Importer(i)

Spec == Init /\ [][Next]_vars

(* A handshake that has begun goes on: the loop of importer.go returns or   *)
(* asks again.  Whether an importer dials at all is up to its clients.      *)
Handshake(i) ==
    \/ importPc[i] = "dialing" /\ \E h \in Hosts : Dial(i, h)
    \/ \E h \in Hosts : Redirect(i, h)
    \/ DialFails(i) \/ CountOwn(i) \/ NotFound(i) \/ Admit(i)

(* Timers fire, statements are answered, time passes.                      *)
Fairness ==
    /\ \A h \in Hosts : WF_vars(Background(h))
    /\ \A n \in Ids : WF_vars(Lag(n))
    /\ \A i \in Importers : WF_vars(Handshake(i))

FairSpec == Spec /\ Fairness

-----------------------------------------------------------------------------
\* A stream that is served has its binding, so that importers find it, until the
\* row of its server is deleted: streams that come and go on the same service
\* and server do not take each other's bindings away.
BindingCoversStream ==
    \A e \in Streams :
        streamPc[e] \in {"bound", "serving"} /\ id[streamAt[e]] \in rows =>
            \E b \in bindings : b.stream = e /\ b.server = id[streamAt[e]]

\* As long as no live server misses the 20 seconds, none loses its row to the
\* clean-up of another one.
LiveServersKeepRows ==
    \A h \in Hosts : up[h] = "up" /\ ~MayBeSlow => id[h] \in rows

\* A crashed server is forgotten if some server stays up.
DeadServersForgotten ==
    (\E h \in Hosts : <>[](up[h] = "up"))
        => \A n \in Ids : n \in rows /\ ~Live(n) ~> n \notin rows

\* Redirects converge: once the bindings no longer change, and are those of
\* running servers for the importer's service, every handshake ends.
RedirectsConverge ==
    \A i \in Importers :
        /\ <>[][UNCHANGED bindings]_vars
        /\ <>[](\A b \in bindings : id[b.host] = b.server /\ b.service = Imported[i])
        => (importPc[i] = "asking" ~> importPc[i] \in {"idle", "connected"})

\* README.md:85-87 says that the redirect names "a server process that is hosting
\* that service".
RedirectsToHost ==
    [][\A i \in Importers, h \in Hosts : Redirect(i, h) =>
          \E b \in bindings : b.host = h /\ b.service = Imported[i]]_vars

\* store_db.go:249 says that a dead server goes with "all it's bindings": a
\* binding without a row of its server should be one that is about to go.
NoOrphanBindings ==
    \A b \in bindings :
        b.server \in rows \/ \E h \in Hosts : b.server \in {half[h], id[h]}
=============================================================================
