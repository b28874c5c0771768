# grpc-rpf: formal models

TLA+ models of `grpc-rpf`, TLC runs that check them on small instances, and
TLAPS proofs for every instance. Paths are relative to the repository
(`src/`); *server.go*, *client.go*, *importer.go* are
`internal/pkg/{server/server,exporter/client,importer/importer}.go`.

## 1. The system

An **importer** wants to reach a service that an **exporter** makes available;
both only dial out, to a **server** that joins them.

```
 app --TCP--> importer --Connect--> server <--Listen-- exporter --TCP--> service
                                    server --token--> exporter
                                    server <--AcceptConnection(token)-- exporter
```

| Component | State | Operations | What is hard | What makes it correct |
|---|---|---|---|---|
| hand-off (server.go `Connect`, `Listen`, `AcceptConnection`) | per service a one-place `acceptChan`; `pendingAccepts`: token to connection; one `AfterFunc` per token | three stream handlers, the accept timer | any number of handlers interleave; streams break between any two steps; timer against accept; a blocked send | a connection is in one place only; a token means the connection it was made for; what was taken is tunnelled or closed |
| life of a service (`start`, `stop`, `onListener*`, `SetServices`, `Stop`) | `services`, `listenerCount`, `stopChan`, `listenerToClose`, wait group, two mutexes | listeners join and leave, reconfiguration, shutdown, TCP accept goroutine | counts and start/stop are separate steps; a channel that is replaced while read; waiting with a lock held | exact count; an open service has somebody who stops it; stop reaches everybody |
| tunnel (`utils/conn.go`, pumps) | a stream with a read buffer, a cancel function, `isClosed` | read, write, close, two pumps per hop | half-close, empty messages, ends of two hops | bytes in order, nothing invented, both sides end |
| exporter (client.go) | map of services, per service a context, server address, error | start, setConfig, stop, listen loop, connect | retry, redirect, stop while connecting | one loop per configured service, each announcement answered once |
| importer (importer.go) | map of services, stopChan, listener, server address | SetServices, start, stop, connect, handshake, `Dial` | reload under traffic, redirect loop, listener races | a configured service listens; handshakes end |
| database store (`store/store_db.go`) | tables servers, bindings, services | OnListen, OnConnect, heartbeat, Stop | crash, slow server, stale bindings, several servers | a redirect leads to a server that hosts the service |
| configuration directories, `WatchDir`, directory store | `config.Services`, an fsnotify watcher, a debounce timer | load, watch, reload | files change while they are read; events are merged; loading and watching are two steps | once the directory rests, what runs is what the files say |
| commands, TLS options, generated code | - | wiring, flags | - | - |

Interaction: handlers share `services` and `pendingAccepts` under `s.mu`,
`stopChan` under `svc.mu` (read without it), `listenerCount` with atomics and
connections through `acceptChan`; stores are called before a handler touches
the server (`OnListenFunc`, `OnConnectFunc`); clients react to redirects that
stores decide.

## 2. The modules

| Module | Contents |
|---|---|
| `Exchange` | abstract: a connection is queued, then in the care of the server, then in one tunnel; once taken it leaves only through a tunnel or by being closed |
| `Rendezvous` | the hand-off and the services without a TCP listener, in the grain of the Go code |
| `MCRendezvous` | symmetry for TLC |
| `Cluster` | several servers, the database they share, and importers that follow redirects |
| `MCCluster` | which service each stream and importer of an instance has |
| `TcpService` | `stop`, `start` and the goroutine of a service with a TCP port, which server.go and importer.go have line by line alike |
| `ServiceLifecycle` | `TcpService` in the server: Listen handlers, `acceptChan`, `SetServices` |
| `Importer` | `TcpService` in the importer: `SetServices`, connections, redirects, the cached client |
| `Exporter` | `SetServices`, `Stop`, the listen loop and `connect` of the exporter |
| `Pipe` | abstract: what is received is a prefix of what was sent |
| `Tunnel` | an established tunnel: two or three hops, two pumps each; implements `Pipe` |
| `ConfigReload` | the configuration directory of a command and its watcher |
| `MCServiceLifecycle`, `MCImporter`, `MCExporter`, `MCTunnel` | symmetry, and what is sent in each direction |
| `RendezvousProofs`, `ClusterProofs`, `LifecycleProofs`, `ImporterProofs`, `ExporterProofs`, `TunnelProofs`, `ReloadProofs` | TLAPS proofs about `Rendezvous`, `Cluster`, `ServiceLifecycle`, `Importer`, `Exporter`, `Tunnel`, `ConfigReload` |

`Exchange` and `Pipe` are the promises; `Rendezvous` says how a connection comes
to an exporter, `Tunnel` what happens to its bytes from then on. `Cluster` and
`Exporter` leave each other's side open: the servers of `Exporter` redirect and
fail as they like, the streams of `Cluster` come and go as they like.

### Rendezvous

One process per goroutine: `connPc[c]` for a `Connect` call, `listenPc[l]` for a
`Listen` call, `acceptPc[a]` for an `AcceptConnection` call, and one `AfterFunc`
goroutine per token in `timers`. A call that returned is "idle" and its identity
is used again for the next call, so bounded sets stand for unboundedly many calls.

| In the code | In the module |
|---|---|
| first message, `OnConnectFunc`, empty frame (307-347) | `ConnectRecv` |
| lookup under RLock, NotAcceptingConnections (349-355) | `ConnectLookup` |
| `service.acceptChan <-` (359), `<-ctx.Done()` (361) | `ConnectOffer`, `ConnectReturn` |
| lookup or creation of the service (425-431) | `ListenLookup` |
| `onListenerConnect`: increment, `start()` (296-299) | `ListenCount`, `ListenStart` |
| entering the select, which reads `svc.stopChan` once (436-441) | `ListenSelect`; `woken[l]` says that the channel it read is closed |
| the three cases (438, 441, 444) | `SelectDone`, `SelectStopped`, `SelectAccept` |
| `registerConnection` and `AfterFunc` (446-460) | `RegisterConnection`, with `FreshToken`, `ArmTimer` |
| `Send` of the token (463) | `AnnounceSent`, `AnnounceFailed` |
| `onListenerDisconnect`: decrement, `stop()` (301-305) | `ListenLeave`, `ListenStop` |
| `deregisterAccept` (178-190) from a call or a timer | `AcceptDeregister`, `AcceptInvalid`, `TimerFire` |
| pumps, deferred `conn1.Close()` (491-514) | `TunnelDone`, `AcceptReturn` |
| `SetServices` (108-135), `Stop` (147-152) | `SetServices`, `StopGrpc`, `StopAll` |
| importers, exporters and the network | `ImporterHangup`, `ExporterHangup`, `AcceptRecv`, `AnnouncementLost` |

`*service` objects have an identity (`Objs`) of their own: a handler may hold one
that `SetServices` has removed from the map, and the name may get another.
A token may be drawn again once nobody refers to it (16 random bytes are assumed
not to repeat one that a timer or an exporter still holds; repeating a *pending*
one is possible, as the code provides for it). `SetServices` stops its services
in one step: it holds `s.mu`, and the single stops touch different objects.
Left out: bytes of tunnels (`Tunnel`), logging, flow control that would make
`Send` block, services with a `Listen` address (`ServiceLifecycle`).

Definitions marked `Faulty:` are plausible bugs. They are used by nothing; put in
the place of the definition that follows them they make a property fail.

### Properties

* `SingleCustody`, `ListenerAccounting`: invariants. `PendingNeverReplaced`,
  `TimerSparesTunnels`: action properties. `ImplementsExchange`: refinement, with
  `queue` the connections in an `acceptChan`, `server` those in the variable
  `accept` of a Listen handler or in `pendingAccepts`, `tunnel` the variable
  `conn1` of each AcceptConnection call.
* `TakenIsSettled`, `QueuedIsServed`, `StopReachesListeners`,
  `CancelledConnectReturns`, `StopDrains`: liveness, under `FairSpec`.

Fairness: goroutines that can run do (weak fairness of each handler's own steps
and of timers). A message on the wire is delivered or lost. Strong fairness of
`SelectDone` and `SelectStopped`: Go chooses among ready cases at random, so a
stream that enters its select again and again does not avoid a ready case for
ever. Strong fairness of `ConnectOffer`: blocked senders of a channel are served
in order. Nothing is assumed of importers, exporters and operators.

### Cluster

One server process per host; `id[h]` is its `serverId`, fresh at every start,
while the advertised address `h` stays. Every SQL statement is one step. `bindings`
is the table of that name; `older` orders its rows as `created_at` does, which is
all that `ORDER BY created_at DESC LIMIT 1` (`Newest`) reads of that column.

| In the code | In the module |
|---|---|
| store_db.go `Start` (189-223), `Stop` (181-187), the deferred calls of the server command | `Start`, `StopGrpc`, `StopRow`, `StopBindings`, `Exit`; `Crash` at any time |
| `backgroundTasks` (225-256) | `HeartbeatSave`, `HeartbeatPanic`, `FindDead`, `DeleteRow`, `DeleteBindings`; `Lag` is the passing of 20 seconds |
| `OnListen` (75-111) and server.go `Listen` around it | `Open`, `Bind`, `Serve`, `Unbind` |
| `OnConnect` (113-156), server.go `Connect` around it | `CountOwn`, `Redirect`, `NotFound`, `Admit`, `Hangup` |
| importer.go `handshake` (306-350), `SetServerAddress` (237-242) | `Dial`, `DialFails`, `Redirect`; `address[i]` is `serverAddress` |

A heartbeat that finds no row has no effect or fails and panics, whichever way
gorm takes; both are in the model, and neither brings the row back. Left out: tokens,
failing SQL statements, an advertised address of "*" (which turns redirects off),
and several connections of an importer at once.

* `BindingCoversStream`, `LiveServersKeepRows`: invariants, the second for
  servers that are never slow. `DeadServersForgotten`, `RedirectsConverge`:
  liveness, under `FairSpec`.

Fairness: weak fairness of the background task of each server (a timer), of the
passing of time, and of a handshake that has begun (its loop returns or asks
again). Nothing is assumed of streams, of importers that have not dialled, and of
operators who start and stop servers. `RedirectsConverge` assumes that the
bindings come to rest and belong to running servers: without the first,
streams that move around can be chased for ever; without the second,
an orphan binding (see the findings) redirects to the same place again and again.

### TcpService and ServiceLifecycle

A member of `Gens` is a generation: what one `start()` makes, that is a stopChan,
a goroutine and the listener this goroutine opens. Generations are used again
once nothing refers to them, so that the runs follow any number of restarts.
`svc.mu` protects short sections without waiting; each is one step. `s.mu` is held
by `SetServices` for as long as `reloadPc` is not "idle".

| In the code (server.go) | In the module |
|---|---|
| `newServiceHandler` (206-215) | `TcpInit` |
| `stop` (226-234), `wg.Wait` (235) | `Stop`; `LoopsDone` |
| `start` (238-252) | `Start` |
| `net.Listen` (257-264), the assignment (265-267) | `Bind`, `SetListenerToClose` |
| the check of `s.stopChan` (271-275) | `Check`: of whatever channel is current, without the lock |
| `Accept` (277), its errors (278-284) | `Accept`; `AcceptEnds` on a closed listener, `AcceptFails` otherwise |
| the select (285-289) | `HandOver`; `handChan[g]` is the channel it evaluated |
| `wg.Done` (254) | `Done` |
| a listener nothing refers to | `Finalize` (in `Importer`): the Go runtime closes it at some time, or never. In the server `listenerToClose` refers to the only open listener while the address stays, so that there is nothing to finalize |
| Listen (425-470), `onListener*` (296-305) | `ListenLookup` to `ListenReturn` |
| `SetServices` for a service it knows (119-123) | `SetServices`, `ReloadStop`, `ReloadReturn` |

`AcceptingIsClosable` (a port that is served is known to `stop()`) is checked and proved
for a fixed address. With an address that changes it does not hold in the server: of
two goroutines in quick succession at two addresses, `stop()` knows one. In the
importer `SetServices` alone calls `stop()` and waits before it starts again, and
the property holds for changing addresses too. Not in the model: the panic of
`sync.WaitGroup` when it is reused while a former `Wait` is about to return.

* `OpenHasCaretaker`, `AcceptingIsClosable`: invariants. `UnservedIsQuiet`,
  `StopReturns`: liveness. `StopReturns` leaves out the deadlock of the findings: a
  `stop()` may wait while a reload keeps another handler in `registerConnection`.

Fairness: goroutines run (weak); `SelectStopped` strong, as in `Rendezvous`.
Nothing is assumed of streams, of TCP connections, of failures and of the finalizer.

### Importer

| In the code (importer.go) | In the module |
|---|---|
| `SetServices` (90-119) | `Add`, `Change`, `ReloadContinue` |
| `stop` (158-168), `start` (170-190) | `ReloadStop`, `StopReturns`; `ReloadStart` |
| the goroutine (184-234) | `TcpService`, `Accept`; its deferred calls `Cancel`, `WgDone` |
| `connect` (263-304) | `Count` (its `wg.Add`), `End`, `EndCancelled`, `Close` |
| `handshake` (306-350) | `Ask`, `AskFails`, `Redirect`, `Established` |
| `GetRemoteHost`, `SetServerAddress` (237-261) | the same |

Services share `client.mu` only, which `SetServices` holds throughout, so one
service stands for all. A service that was removed is added again only once its
connections are gone; the code may keep two objects for a while, which share
nothing but the port. A gRPC call with a cancelled context fails, which is what
makes `NothingOutlivesStop` hold for connections that are counted too late.

* `AcceptingIsClosable`, `NothingOutlivesStop`, `CachedIsCurrent`: invariants;
  `ReloadReturns`: liveness. Fairness: goroutines and `SetServices` go on (weak);
  nothing of applications, servers and operators.

### Exporter

| In the code (client.go) | In the module |
|---|---|
| `SetServices` (86-118), `setConfig` (161-168), `stop` (156-159) | `Add`, `SetConfig`, `Remove`, `RemoveReturn` |
| `Stop` (77-80) | `Stop`, `StopReturn`; may overlap with `SetServices` |
| the loop (185-249) | `Top`, `Open`, `OpenFails`, `Sleep`, `RecvFails`, `RecvCanceled`, `RecvRedirect`, `RecvAnnouncement` |
| the deferred function (176-183) | `Release`: both `Done()`; `Finish`: `cancel()` and `err` |
| `connect` (253-315) | `Count`, `Accept`, `DialService`, `Fails`, `TunnelEnds`, `TunnelCancelled`, `Close` |
| the two wait groups | `Waited`, `WaitedForLoop` |

Servers are environment: `up` changes at any time, and a stream to a server that is
gone ends. A member of `Objs` is a `*service`; two let a name be configured again
while the loop of its former object ends.

* `OneLoop`, `NothingOutlivesStop`, `StoppedIsQuiet`: invariants; `StopsReturn`,
  `ServedAgain`: liveness. `ServedAgain` is claimed where the far side does not end
  streams as Canceled, because that status ends the loop for good (230-231), and of
  the address the service has last been redirected to.

Fairness: goroutines run and calls return (weak). Strong for `RemoveReturn` and
`StopReturn`: a wait group releases its waiters when its count reaches zero, and
they return even if it rises again at once.

### Tunnel

A lane is one direction of one link: TCP at both ends, gRPC streams between them.
It has messages under way, an end that the sender has reached (`eof`) and a
receiver that has left (`deaf`).

| In the code | In the module |
|---|---|
| `WrapperConn.Read` (conn.go:31-45): a message, the end, or no data at all, which `io.Copy` takes for the end | `Read`, `ReadEnds` |
| `WrapperConn.Write` (47-53), errors in `Pump` (60-86) | `Write`, `WriteFails` |
| the first frame in `handshake` (importer.go:333-350) | `Handshake`, `HandshakeFails` |
| "when both transfer pumps are done" (server.go:504-508, importer.go:295-299, client.go:305-309) | `PumpsDone`, `HopEnds` |
| `<-ctx.Done()`, the deferred calls (server.go:491-514 and the like) | `HopReturns`, `AcceptCancelled`, `Stopped` |
| `Dial`, `PipeConn` (importer.go:371-449) | a first hop "dial": no half-close, and nobody waits for its pumps |
| a service of the server with a TCP port | a path without an importer |

A client that returns cancels its context: the stream is reset, and any part of
what is under way may be lost. A server that returns ends its streams after what is
under way. TCP may lose what a side that closes has sent and the other has not read.
A hop that has returned has closed both connections; its pumps end by that, and what
they do until then is left out. Left out: how
reads and writes cut the bytes, and buffers that are full (writes do not block).

* `ImplementsPipe`: refinement, whatever breaks. `PumpsEndForAReason`: action
  property. `Delivered`, `EndsSpread`: liveness, under weak fairness of pumps and
  hops, and of the two ends reading what has arrived. `Delivered` is claimed while
  neither end closes for good, no stream breaks and no service is stopped (`Intact`);
  half-closed connections are included. `EndsSpread` starts from a hop that has ended.

### ConfigReload

A file configures one service. `Edit` changes a file at any time, also between
listing and reading it. `LoadExports`, `LoadImports` and `LoadStore` are the three
commands' loads, `Watch`, `ForwardEvent`, `WatcherFails` and `TimerFires` the watcher
(watchdir.go). `WatchedIsFresh`: once the directory rests, what runs is what the
files say, whatever mixture was loaded before. It is claimed if the watcher and the
last load have not failed, and if at least one change was seen, because
of the gap between the first load and the watch. `NoChangeMissed` is the safety half,
without fairness and without a directory that rests: from the first event on, a
change that does not run yet is in an event, in the timer, or in a load that has
what it needs. Fairness: the
command, its timer and its watcher run. A load is assumed to end within the 500 ms
of the timer; two that overlap would fill `config.Services` together.

## 3. Runs

| Run | Instance | Shows |
|---|---|---|
| `rendezvous_safety` | 1 service with 2 objects, 2 Connect, 2 Listen, 2 AcceptConnection, 1 `SetServices` | the safety properties and the refinement; two of each is what it takes to confuse two connections, two streams or two objects of a name |
| `rendezvous_liveness` | 2 Connect, 1 Listen, 1 AcceptConnection, 1 `SetServices` | live streams drain the queue, `stop()` reaches every stream, what was taken is settled, a cancelled call returns while a listener stays, Stop drains |
| `cluster_safety` | 2 hosts, 2 processes, 2 streams of a service, slow servers, 1 crash | a served stream keeps its binding while its server has a row |
| `cluster_recovery` | 2 hosts, 2 processes, 1 stream, 1 importer, 2 crashes | live servers keep their rows, dead ones lose them, redirects converge |
| `lifecycle` | 2 streams, 1 address, 1 reload, 3 generations, failures of Accept and `net.Listen` | an open service has somebody to stop it, no port is served behind the back of `stop()`, without exporters the goroutines end, `stop()` returns |
| `importer` | 4 generations, 2 addresses, 1 connection, 2 servers | ports, connections and the cached client under any number of reloads, which return |
| `exporter` | 2 objects, 2 addresses, 1 announcement, 2 servers | one loop per name, nothing outlives `stop` and `Stop`, which return; a configured service is listened for again |
| `tunnel` | all paths, 2 messages to the service, everything may close or break | the refinement of `Pipe`, a pump ends for a reason, everything arrives, the end of a hop reaches the next |
| `reload_fresh` | 2 commands and a directory store, 2 files, 2 versions, failures | no change is missed after the first event, the last load sees the last one |
| `finding_redirect` | 2 services, 1 stream, 1 importer | violation, see below |
| `finding_orphan_bindings` | 1 stream, 1 crash | violation, see below |
| `finding_reload_deadlock` | 2 streams, 1 reload, 3 generations | violation, see below |

Bounds. `MaxReconfigs` and `MaxReloads` cap the `SetServices` calls, `MaxStarts` the
server processes, `MaxCrashes` the crashes, `MaxSent` the messages of `Tunnel`;
everything else is bounded by the constant sets, whose members are used again.

* `rendezvous_safety` has one token: two connections cannot then be pending at once,
  but a token can be drawn again, which is what its properties are about. The proofs
  hold for any number of everything.
* Two processes let a host restart under its old address, or another one clean up
  after it.
* `Gens` bounds the generations that exist at the same time: one is current, one is
  `listenerToClose`, one runs its goroutine still, and the others have listeners that
  wait for their finalizer. A `start()` that finds none waits; with 4 in the importer,
  and 3 in the server for a single address, no property is lost by that, and
  with 3 in the importer `ReloadReturns` would be.
* One address is enough for `AcceptingIsClosable` to fail in the server when
  `stop()` is not told of the listener, and all it is claimed for (see `TcpService`).
* One connection of the importer: connections share the cached client and the wait
  group, and each step on those is atomic; two of them were checked at one address,
  and fit no run together with two addresses and the liveness property.
* Two messages in a row are what it takes to repeat, swap or skip one; two files are
  what it takes to mix versions.

The runs of `Cluster` do not check deadlock: with the starts used up the servers
may all be down. Nor do those of `ServiceLifecycle`, where the generations may be used
up and a deadlock is a finding, of `Tunnel`, which ends, and of `ConfigReload`, where
a command exits. `rendezvous_safety` uses symmetry; runs with liveness do not.

`CancelledConnectReturns` assumes a listener that stays: without one the code
leaves a cancelled `Connect` blocked at server.go:359 for ever, and `Terminated`
allows for it after `Stop`. `TakenIsSettled` needs an accept timeout, which
`internal/command/server/server.go` never configures; without it a lost
announcement leaves the importer's call and its token behind for ever.

### Findings

* `RedirectsToHost` (README.md:85-87, store_db.go:145): the redirect names the
  server of the newest binding of *any* service. An importer of a service that
  nobody exports is sent to a server that does not host it, and that server
  redirects it to itself.
* `NoOrphanBindings` (store_db.go:249, 185-186, 250-251): the row of a server is
  deleted before its bindings. A process that dies in between leaves bindings
  that no later round finds; redirects follow them while they are the newest.
* `TakenIsAnnounced` (server.go:462, 123): `SetServices` waits for a goroutine with
  `s.mu` held; the handler that would stop it waits for `s.mu`.

### What the models show besides

These are behaviours of the models that no property claims and no run refutes; each
is the reason why a property above is claimed as narrowly as it is.

* A stream that joins between the decrement to zero and `stop()` (server.go:302-303) is
  told that the server is shutting down although it is not.
* The frame that tells the importer that its connection is established (server.go:347)
  goes out before the service is looked up.
* A stop that comes between `net.Listen` and the assignment (server.go:266,
  importer.go:211) leaves the port open. The next goroutine fails to bind it and
  returns, and nobody tries again while exporters stay, or until the next reload.
* An importer and an exporter keep the address of the last redirect for good
  (importer.go:239, client.go:242), also when that server is gone. The exporter
  reports it, with no error, before it has dialled it.
* When application and service have both hung up, each process waits for a frame that
  the other does not send: a pump that has ended tells nobody (server.go:498-512), and
  the tunnel stays.
* A change between the first load and the watch (command/exporter/exporter.go:82-86) is
  lost until another one comes.
* `NewDirStore` drops its argument (store_file.go:64): a server with a directory store
  does not start.

## 4. Proofs

Every invariant, action property and refinement that a passing run checks is a
theorem: it holds for every value of the constants that the assumptions of its
module allow. These assumptions are the types of the constants, and null values
that are outside their sets; further ones are named below. The property
alone is seldom kept by every step, and each module proves an inductive invariant
that has more parts.

`RendezvousProofs`, for arbitrary sets of names, objects, calls and tokens; the
count needs `ListensFinite`.

* `Typed` = `TypeOK` and `LocalsMatchPc` is inductive: a local variable is set
  exactly in the states in which the code uses it. `TypeOK` alone is not
  inductive, because `SelectAccept` reads `acceptChan[listenSvc[l]]`.
* `Apart` is `SingleCustody` with the places compared pairwise, which is the form
  in which each step preserves it (`CustodyApart` shows that they are the same).
  `Typed /\ Apart` is inductive: each step empties the place a connection leaves
  as it fills the next, `ConnectRecv` admits only connections that are nowhere,
  `FreshToken` never hits a pending entry.
* `CustodySafe`, `PendingSafe`, `TimerSafe` follow; `Refinement` maps each step to
  a step of `Exchange` or a stutter, using `Apart` for "the connection leaves no
  copy behind".
* `AccountingSafe`: per object, only `ListenCount` and `ListenLeave` change the
  count and the counted set, by the same handler; every other step leaves the
  account alone or closes the stopChan.

`LifecycleProofs`, for any finite set of Listen calls, any generations and addresses.

* The count is the number of handlers between the two ends of a call (`Accounting`).
  `OpenHasCaretaker` rests on it: a handler that saw the count at zero stops the
  service, and one that did not leaves another behind.
* `AcceptingIsClosable` for an address that does not change (`ListenerClosable`, with
  that as a hypothesis about the behaviour; `OneAddressClosable` for a configuration
  with a single address). Handlers may stop and start in any order, so several
  goroutines may run at once; what saves the property is `OneListener`: the
  operating system lets only one of them listen. `UnassignedIsOpen` covers the moment
  between `net.Listen` and the assignment.

`ImporterProofs`, for any generations, connections, addresses and servers.

* `OneGoroutine` makes `AcceptingIsClosable` hold for changing addresses: `start()`
  comes after a `stop()` that waited (`ReloadOrder`), so that the goroutine that runs
  is that of the present stopChan.
* `NothingOutlivesStop` needs `EndedIsCancelled`: the goroutine cancels its context
  before it leaves the wait group. A connection that is counted after `wg.Wait` has
  looked is the case that would break it, and finds that context cancelled.
* `CachedIsCurrent` is a part of the same invariant.

`ExporterProofs`, for any objects, addresses, servers and announcements.

* `OneLoop` and `NothingOutlivesStop` rest on the order in which a service is removed:
  out of the map, `cancel()`, wait. `LoopIsKnown`: a loop that still has its wait
  groups is that of the configured service or of the one being removed.
  `OrphanIsCancelled`: an announcement that outlives its service has a cancelled
  context, and no new service takes that over.

`ClusterProofs`, for any hosts, services, streams, importers, starts and crashes.

* `Processes`: ids are drawn once (`IdsAreFresh`), a row goes before its bindings
  (`RowGoesFirst`), and a stream is held by a process. Without `IdsAreFresh` the list of dead
  servers that a clean-up has read could name a server that has started since.
* `LiveServersKeepRows` (for servers that are never slow): no live server is late, and
  none is on anybody's list (`Kept`).
* `BindingCoversStream` is inductive only with its converse `BindingHasStream`, which
  also gives `RowOfItsOwn`: a closeFunc deletes one row, that of its stream.
* `SearchAnswers`: `older` orders the bindings, which are finitely many, so that the
  search of `OnConnect` has exactly one answer unless the table is empty. That the
  code searches the bindings of all services is the finding `RedirectsToHost`.

`TunnelProofs`, for all paths and any number of messages.

* `ImplementsPipe`. The invariant numbers the messages of a side: `n[x]` is the number of the
  last message that was put on lane `x`, an existential witness that the module does
  not have as a variable. What is under way on a lane is consecutive and ends with
  `n[x]`; between the two lanes of a pump there is no gap, unless the hop has ended
  or nobody reads what it writes (`Relayed`). Losing what is under way makes a gap,
  and every step that loses leaves a lane that is `deaf`, or a hop that is gone, behind it.
* `PumpsEndForAReason`: the first frame, which carries no data and would end a pump, is
  taken by `handshake`; `Frames` says that it is there exactly until then.

`ReloadProofs`, for any files and versions.

* `NoChangeMissed`: inductive from `Watch` on (`Watched`); before it the invariant is
  that no watcher runs (`WatchesLater`), and nothing is claimed.

Only model-checked: what must eventually happen, since fairness and ENABLED are
outside the prover's reach (`QueuedIsServed`, `StopReachesListeners`, `TakenIsSettled`,
`CancelledConnectReturns`, `StopDrains`, `DeadServersForgotten`, `RedirectsConverge`,
`UnservedIsQuiet`, `StopReturns`, `ReloadReturns`, `StopsReturn`, `ServedAgain`, `Delivered`,
`EndsSpread`, `WatchedIsFresh`), the absence of deadlock, and the findings, which
are counterexamples.

## 5. Not modelled, and what is next

* Flags, advertised addresses, TLS and dial options, generated gRPC code,
  benchmarks, helm charts: configuration, wiring and generated code.
* The access decisions of the directory store: no program reaches them, because the
  store does not start. The tokens of the database store: `Cluster` has calls that
  are allowed.
* gRPC and TCP below a message: flow control, keepalive, reconnection inside a
  `grpc.ClientConn`. A peer that vanishes without closing is not noticed by the
  code, and such a stream is not in the models.
* Panics of `sync.WaitGroup`, and overlapping loads of a configuration: see
  `ServiceLifecycle` and `ConfigReload`.
* `Listener` in a service configuration, which only tests set: closed by the first
  `stop()`, it cannot be opened again.
* `Stop` of the importer: it cancels a context that nobody uses and waits for
  nobody; the process ends.

Proofs that could follow are the safety facts on which liveness rests, above all for
`ReloadReturns`, `StopsReturn` and `StopReturns`: a wait that has not returned has a
goroutine that it waits for and that has been told to end.
