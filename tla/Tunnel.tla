------------------------------- MODULE Tunnel -------------------------------
(***************************************************************************)
(* One established tunnel: an application and a service, the hops between  *)
(* them, and the two pumps of each hop (internal/pkg/utils/conn.go and the *)
(* ends of the connect and AcceptConnection functions).                    *)
(*                                                                         *)
(*   application -- importer == server == exporter -- service              *)
(*                                                                         *)
(* The first hop is the importer process ("importer"), an application that *)
(* called Dial ("dial"), or missing: the application is connected to a TCP *)
(* port of the server.  Single lines are TCP (for "dial" an io.Pipe),      *)
(* double lines are gRPC streams, whose client is the importer or the      *)
(* exporter.  A lane is one direction of such a link; it keeps the order.  *)
(*                                                                         *)
(* Abstracted: the size of reads and writes, and buffers that are full.    *)
(***************************************************************************)
EXTENDS Naturals, Sequences

CONSTANTS
    FirstHops, \* subset of {"importer", "dial", "none"}
    MaxSent,   \* bound: messages in each direction
    Breaks     \* TRUE iff streams may break and services may be stopped

ASSUME TunnelAssumption ==
    /\ FirstHops \subseteq {"importer", "dial", "none"}
    /\ MaxSent \in [{"down", "up"} -> Nat]
    /\ Breaks \in BOOLEAN

VARIABLES
    path,   \* the hops, from the application to the service
    flight, \* lane -> messages under way
    eof,    \* lane -> its sender has ended it
    deaf,   \* lane -> its receiver has gone: writes to it fail
    pump,   \* the pump of each hop and direction
    buf,    \* the message, if any, between Read and Write of io.Copy
    gone,   \* hops that have returned and closed both their connections
    sent,
    got

laneVars == <<flight, eof, deaf>>
pumpVars == <<pump, buf>>
vars == <<path, laneVars, pumpVars, gone, sent, got>>

Dirs == {"down", "up"} \* to the service, to the application
Lanes == (1..4) \X Dirs
Hops == 1..Len(path)
Links == 1..(Len(path) + 1)
Streams == {l \in Links : {l - 1, l} \subseteq Hops}
Back(d) == IF d = "down" THEN "up" ELSE "down"

In(h, d) == IF d = "down" THEN <<h, d>> ELSE <<h + 1, d>>
Out(h, d) == IF d = "down" THEN <<h + 1, d>> ELSE <<h, d>>

\* The link of the application, or of the service, by the direction it sends in.
EndLink(d) == IF d = "down" THEN 1 ELSE Len(path) + 1
FarLink(d) == EndLink(Back(d))

Empty == 0 \* the frame that reports an established connection
Messages == Nat \* and the number of a message in its direction

\* The hops of a tunnel that begins with f.
Path(f) == IF f = "none" THEN <<"server", "exporter">> ELSE <<f, "server", "exporter">>

TypeOK ==
    /\ path \in {Path(f) : f \in FirstHops}
    /\ flight \in [Lanes -> Seq(Messages)]
    /\ eof \in [Lanes -> BOOLEAN] /\ deaf \in [Lanes -> BOOLEAN]
    /\ pump \in [1..3 -> [Dirs -> {"wait", "run", "done"}]]
    /\ buf \in [1..3 -> [Dirs -> Seq(Messages)]]
    /\ \A h \in Hops, d \in Dirs :
           buf[h][d] # <<>> => Len(buf[h][d]) = 1 /\ pump[h][d] = "run"
    /\ gone \in SUBSET Hops
    /\ sent \in [Dirs -> Seq(Messages)] /\ got \in [Dirs -> Seq(Messages)]

\* The server's first frame is under way to a client that is in handshake().
Init ==
    /\ path \in {Path(f) : f \in FirstHops}
    /\ flight = [x \in Lanes |-> IF x = <<2, "up">> /\ Len(path) = 3 THEN <<Empty>> ELSE <<>>]
    /\ eof = [x \in Lanes |-> FALSE] /\ deaf = [x \in Lanes |-> FALSE]
    /\ pump = [h \in 1..3 |-> [d \in Dirs |-> IF h = 1 /\ Len(path) = 3 THEN "wait" ELSE "run"]]
    /\ buf = [h \in 1..3 |-> [d \in Dirs |-> <<>>]]
    /\ gone = {}
    /\ sent = [d \in Dirs |-> <<>>] /\ got = [d \in Dirs |-> <<>>]

Push(x, m) == flight' = [flight EXCEPT ![x] = Append(@, m)]
Pop(x) == flight' = [flight EXCEPT ![x] = Tail(@)]
SetPump(h, d, p, m) == pump' = [pump EXCEPT ![h][d] = p] /\ buf' = [buf EXCEPT ![h][d] = m]

\* Senders end the lanes E, receivers leave the lanes D, and the lanes R are reset: what
\* is under way on them may be lost.
End(E, D, R) ==
    /\ eof' = [x \in Lanes |-> eof[x] \/ x \in E \cup R]
    /\ deaf' = [x \in Lanes |-> deaf[x] \/ x \in D \cup R]
    /\ \E lost \in SUBSET {x \in R : flight[x] # <<>>} :
           flight' = [x \in Lanes |-> IF x \in D \cup lost THEN <<>> ELSE flight[x]]

-----------------------------------------------------------------------------
(* The application (d = "down") and the service (d = "up").                *)

Send(d) ==
    LET x == <<EndLink(d), d>> IN
    /\ ~eof[x] /\ Len(sent[d]) < MaxSent[d]
    /\ sent' = [sent EXCEPT ![d] = Append(@, Len(@) + 1)]
    /\ IF deaf[x] THEN UNCHANGED flight ELSE Push(x, Len(sent'[d]))
    /\ UNCHANGED <<path, eof, deaf, pumpVars, gone, got>>

Receive(d) ==
    LET x == <<FarLink(d), d>> IN
    /\ ~deaf[x] /\ flight[x] # <<>>
    /\ got' = [got EXCEPT ![d] = Append(@, Head(flight[x]))]
    /\ Pop(x)
    /\ UNCHANGED <<path, eof, deaf, pumpVars, gone, sent>>

\* TCP has a half-close, an io.Pipe does not.
CloseWrite(d) ==
    /\ ~eof[<<EndLink(d), d>>] /\ (d = "up" \/ path[1] # "dial")
    /\ End({<<EndLink(d), d>>}, {}, {})
    /\ UNCHANGED <<path, pumpVars, gone, sent, got>>

\* What the other side of a TCP connection has not read yet may be lost.
Close(d) ==
    LET l == EndLink(d) IN
    /\ ~deaf[<<l, Back(d)>>]
    /\ End({}, {<<l, Back(d)>>}, {<<l, d>>})
    /\ UNCHANGED <<path, pumpVars, gone, sent, got>>

Closed(d) == eof[<<EndLink(d), d>>] /\ deaf[<<EndLink(d), Back(d)>>]

-----------------------------------------------------------------------------
(* Pumps: io.Copy from one connection of the hop to the other.  When the   *)
(* hop has returned both are closed, and what a pump still does is left out.*)

Handshaking(h) == pump[h]["up"] = "wait" /\ h \notin gone

\* Faulty: the established frame is left to the pump.
NoHandshake(h) ==
    /\ Handshaking(h) /\ flight[In(h, "up")] # <<>>
    /\ pump' = [pump EXCEPT ![h] = [d \in Dirs |-> "run"]]
    /\ UNCHANGED <<path, laneVars, buf, gone, sent, got>>

\* handshake() takes the first frame; then the pumps start.
Handshake(h) ==
    /\ Handshaking(h) /\ flight[In(h, "up")] # <<>>
    /\ Pop(In(h, "up"))
    /\ pump' = [pump EXCEPT ![h] = [d \in Dirs |-> "run"]]
    /\ UNCHANGED <<path, eof, deaf, buf, gone, sent, got>>

HandshakeFails(h) ==
    /\ Handshaking(h) /\ flight[In(h, "up")] = <<>> /\ eof[In(h, "up")]
    /\ pump' = [pump EXCEPT ![h] = [d \in Dirs |-> "done"]]
    /\ UNCHANGED <<path, laneVars, buf, gone, sent, got>>

\* Faulty: what was read is read again.
ReadAgain(h, d) ==
    /\ pump[h][d] = "run" /\ buf[h][d] = <<>> /\ h \notin gone /\ flight[In(h, d)] # <<>>
    /\ SetPump(h, d, "run", <<Head(flight[In(h, d)])>>)
    /\ UNCHANGED <<path, laneVars, gone, sent, got>>

\* WrapperConn.Read and TCP; a message without data ends the pump like EOF.
Read(h, d) ==
    /\ pump[h][d] = "run" /\ buf[h][d] = <<>> /\ h \notin gone /\ flight[In(h, d)] # <<>>
    /\ LET m == Head(flight[In(h, d)]) IN
       IF m = Empty THEN SetPump(h, d, "done", <<>>) ELSE SetPump(h, d, "run", <<m>>)
    /\ Pop(In(h, d))
    /\ UNCHANGED <<path, eof, deaf, gone, sent, got>>

ReadEnds(h, d) ==
    /\ pump[h][d] = "run" /\ buf[h][d] = <<>> /\ h \notin gone
    /\ eof[In(h, d)] /\ flight[In(h, d)] = <<>>
    /\ SetPump(h, d, "done", <<>>)
    /\ UNCHANGED <<path, laneVars, gone, sent, got>>

Write(h, d) ==
    /\ buf[h][d] # <<>> /\ ~deaf[Out(h, d)]
    /\ Push(Out(h, d), Head(buf[h][d]))
    /\ SetPump(h, d, "run", <<>>)
    /\ UNCHANGED <<path, eof, deaf, gone, sent, got>>

\* Faulty: a pump that fails keeps its message.
WriteStalls(h, d) ==
    /\ buf[h][d] # <<>> /\ deaf[Out(h, d)]
    /\ SetPump(h, d, "done", buf[h][d])
    /\ UNCHANGED <<path, laneVars, gone, sent, got>>

\* The first write to a TCP connection that the other side has closed succeeds.
AfterError(x) == IF x[1] \in Streams THEN {"done"} ELSE {"run", "done"}

WriteFails(h, d) ==
    /\ buf[h][d] # <<>> /\ deaf[Out(h, d)]
    /\ \E p \in AfterError(Out(h, d)) : SetPump(h, d, p, <<>>)
    /\ UNCHANGED <<path, laneVars, gone, sent, got>>

-----------------------------------------------------------------------------
(* Hops.                                                                   *)

\* Faulty: one pump is enough.
OnePumpDone(h) == \E d \in Dirs : pump[h][d] = "done"

PumpsDone(h) == \A d \in Dirs : pump[h][d] = "done"

\* The deferred functions: conn.Close() of a TCP connection; for the server the end of
\* its handlers, after which clients get what is under way and then EOF; for a client
\* the cancelled context, which resets the stream.
HopReturns(h) ==
    LET reset == CASE path[h] = "importer" -> {h + 1} \X Dirs
                   [] path[h] = "server" -> {}
                   [] path[h] = "exporter" -> {h} \X Dirs
    IN
    /\ h \notin gone
    /\ gone' = gone \cup {h}
    /\ buf' = [buf EXCEPT ![h] = [d \in Dirs |-> <<>>]]
    /\ End({Out(h, d) : d \in Dirs}, {In(h, d) : d \in Dirs}, reset)
    /\ UNCHANGED <<path, pump, sent, got>>

\* "When both transfer pumps are done..."; for a Dial nobody waits.
HopEnds(h) == path[h] # "dial" /\ PumpsDone(h) /\ HopReturns(h)

\* Faulty: the context of the AcceptConnection stream is not looked at.
NobodyListens(h) == FALSE

\* AcceptConnection also ends with its stream.
AcceptCancelled(h) == path[h] = "server" /\ deaf[<<h + 1, "down">>]

ServerEnds(h) == AcceptCancelled(h) /\ HopReturns(h)

\* stop() of the importer's or exporter's service.
Stopped(h) == Breaks /\ path[h] \in {"importer", "exporter"} /\ HopReturns(h)

\* The network, or the one who called Dial.
StreamBreaks(l) ==
    /\ Breaks
    /\ l \in Streams /\ \E d \in Dirs : ~deaf[<<l, d>>]
    /\ End({}, {}, {l} \X Dirs)
    /\ UNCHANGED <<path, pumpVars, gone, sent, got>>

-----------------------------------------------------------------------------
Hop(h) ==
    \/ Handshake(h) \/ HandshakeFails(h)
    \/ HopEnds(h) \/ ServerEnds(h)

Pump(h, d) == Read(h, d) \/ ReadEnds(h, d) \/ Write(h, d) \/ WriteFails(h, d)

Next ==
    \/ \E d \in Dirs : Send(d) \/ Receive(d) \/ CloseWrite(d) \/ Close(d)
    \/ \E h \in Hops : Hop(h) \/ Stopped(h) \/ \E d \in Dirs : Pump(h, d)
    \/ \E l \in Links : StreamBreaks(l)

Spec == Init /\ [][Next]_vars

(* Pumps and hops run, and what arrives is read.                           *)
FairSpec ==
    /\ Spec
    /\ \A d \in Dirs : WF_vars(Receive(d))
    /\ \A h \in 1..3 :
           /\ WF_vars(h \in Hops /\ Hop(h))
           /\ \A d \in Dirs : WF_vars(h \in Hops /\ Pump(h, d))

-----------------------------------------------------------------------------
PipeOfTunnel == INSTANCE Pipe

\* Whatever breaks, closes or is stopped, and in any order, nothing is received that was
\* not sent, twice, out of order or behind a gap (conn.go:60-86).
ImplementsPipe == PipeOfTunnel!Spec

\* A pump ends because one of its connections has ended, and never because of a frame
\* without data (conn.go:44): the one that the server sends (server.go:347) is taken by
\* handshake (importer.go:333).
PumpsEndForAReason ==
    [][\A h \in Hops, d \in Dirs :
           pump[h][d] = "run" /\ pump'[h][d] = "done"
               => eof[In(h, d)] \/ deaf[Out(h, d)]]_vars

\* No stream broke and no service was stopped: a hop returned only as HopEnds and
\* ServerEnds do, and with it went its streams.
Intact ==
    /\ \A h \in gone : PumpsDone(h) \/ AcceptCancelled(h)
    /\ \A l \in Streams : (\E d \in Dirs : deaf[<<l, d>>]) => {l - 1, l} \cap gone # {}

\* Unless the application or the service closes for good, everything arrives; in particular
\* a half-closed connection goes on in the other direction: a hop waits for both its pumps.
Delivered ==
    [](Intact /\ \A d \in Dirs : ~deaf[<<EndLink(d), Back(d)>>]) => <>[](got = sent)

Gone(kind) == \E h \in gone : path[h] = kind

\* When a tunnel has ended at the exporter it ends at the server (server.go:510-513), and
\* from there at both clients, once their own TCP side is closed.
EndsSpread ==
    /\ Gone("exporter") ~> Gone("server")
    /\ Gone("server") /\ Closed("up") ~> Gone("exporter")
    /\ path[1] = "importer" /\ Gone("server") /\ Closed("down") ~> Gone("importer")
=============================================================================
