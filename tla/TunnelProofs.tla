---------------------------- MODULE TunnelProofs ----------------------------
(***************************************************************************)
(* Proofs about Tunnel, for any number of messages and any first hops: its *)
(* variables keep their types, and it implements Pipe.                     *)
(***************************************************************************)
EXTENDS Tunnel, TLAPS

-----------------------------------------------------------------------------
(* Lanes and hops.                                                         *)

\* What is sent in direction d enters the tunnel here ...
EndLane(d) == <<EndLink(d), d>>

\* ... and leaves it here.
FarLane(d) == <<FarLink(d), d>>

\* A tunnel has two or three hops.
Routed ==
    /\ Len(path) \in {2, 3}
    /\ \A h \in Hops : h \in 1..3 /\ path[h] \in {"importer", "dial", "server", "exporter"}

\* Which paths there are.
LEMMA RoutedPath == ASSUME path \in {Path(f) : f \in FirstHops} PROVE Routed
  <1>1. PICK f \in {"importer", "dial", "none"} : path = Path(f)
    BY TunnelAssumption
  <1>2. QED
    BY <1>1 DEF Routed, Path, Hops

\* Every lane is read by one hop, or is the far one, and is written by one hop,
\* or is the first one.
LEMMA LanesOfHops ==
    ASSUME Routed, NEW h \in Hops, NEW d \in Dirs
    PROVE  /\ In(h, d) \in Lanes /\ Out(h, d) \in Lanes /\ In(h, d) # Out(h, d)
           /\ EndLane(d) \in Lanes /\ FarLane(d) \in Lanes
           /\ In(h, d)[2] = d /\ Out(h, d)[2] = d
           /\ \A k \in Hops, c \in Dirs : In(k, c) = In(h, d) => k = h /\ c = d
           /\ \A k \in Hops, c \in Dirs : Out(k, c) = Out(h, d) => k = h /\ c = d
           /\ \A c \in Dirs : EndLane(c) # Out(h, d) /\ FarLane(c) # In(h, d)
  BY DEF Routed, In, Out, Lanes, Dirs, Hops, EndLane, FarLane, EndLink, FarLink, Back

\* A hop that has returned holds no message, and the pumps of a hop start
\* together.
Quiet ==
    /\ \A h \in gone, d \in Dirs : buf[h][d] = <<>>
    /\ \A h \in Hops, d \in Dirs : pump[h]["up"] = "wait" <=> pump[h][d] = "wait"

Typed == TypeOK /\ Quiet

\* A lane that ends keeps what is under way, or loses it and is deaf.
LEMMA EndedLanes ==
    ASSUME TypeOK, NEW E, NEW D, NEW R, End(E, D, R)
    PROVE  /\ flight' \in [Lanes -> Seq(Messages)]
           /\ eof' \in [Lanes -> BOOLEAN] /\ deaf' \in [Lanes -> BOOLEAN]
           /\ \A x \in Lanes : deaf[x] => deaf'[x]
           /\ \A x \in Lanes :
                  flight'[x] = flight[x] \/ (flight'[x] = <<>> /\ deaf'[x])
  <1>1. /\ eof' = [x \in Lanes |-> eof[x] \/ x \in E \cup R]
        /\ deaf' = [x \in Lanes |-> deaf[x] \/ x \in D \cup R]
    BY DEF End
  <1>2. PICK lost \in SUBSET {x \in R : flight[x] # <<>>} :
            flight' = [x \in Lanes |-> IF x \in D \cup lost THEN <<>> ELSE flight[x]]
    BY DEF End
  <1>3. <<>> \in Seq(Messages)
    OBVIOUS
  <1>4. QED
    BY <1>1, <1>2, <1>3 DEF TypeOK

-----------------------------------------------------------------------------
(* Types.                                                                  *)

\* Nothing has been sent at the start, and no pump holds a message.
LEMMA TypedInit == Init => Typed
  <1> SUFFICES ASSUME Init PROVE Typed
    OBVIOUS
  <1>1. Routed
    BY RoutedPath DEF Init
  <1>2. <<>> \in Seq(Messages) /\ <<Empty>> \in Seq(Messages)
    BY DEF Messages, Empty
  <1>3. TypeOK
    BY <1>1, <1>2 DEF Init, TypeOK, Routed
  <1>4. Quiet
    BY <1>1 DEF Init, Quiet, Routed, Dirs
  <1>5. QED
    BY <1>3, <1>4 DEF Typed

\* A step of a pump that keeps the lanes typed.
LEMMA SetPumpTyped ==
    ASSUME Typed, Routed, NEW h \in Hops, NEW d \in Dirs, NEW p \in {"run", "done"},
           NEW m \in Seq(Messages), SetPump(h, d, p, m), pump[h][d] # "wait",
           m # <<>> => Len(m) = 1 /\ p = "run" /\ h \notin gone,
           flight' \in [Lanes -> Seq(Messages)], eof' \in [Lanes -> BOOLEAN],
           deaf' \in [Lanes -> BOOLEAN], UNCHANGED <<path, gone, sent, got>>
    PROVE  Typed'
  <1>1. pump' = [pump EXCEPT ![h][d] = p] /\ buf' = [buf EXCEPT ![h][d] = m] /\ h \in 1..3
    BY DEF SetPump, Routed
  <1>2. pump' \in [1..3 -> [Dirs -> {"wait", "run", "done"}]]
    BY <1>1 DEF Typed, TypeOK
  <1>3. buf' \in [1..3 -> [Dirs -> Seq(Messages)]]
    BY <1>1 DEF Typed, TypeOK
  <1>4. \A k \in Hops, c \in Dirs :
            /\ pump'[k][c] = IF k = h /\ c = d THEN p ELSE pump[k][c]
            /\ buf'[k][c] = IF k = h /\ c = d THEN m ELSE buf[k][c]
    BY <1>1 DEF Typed, TypeOK, Routed
  <1>5. Hops' = Hops
    BY DEF Hops
  <1>6. \A k \in Hops, c \in Dirs :
            buf'[k][c] # <<>> => Len(buf'[k][c]) = 1 /\ pump'[k][c] = "run"
    <2>1. \A k \in Hops, c \in Dirs :
              buf[k][c] # <<>> => Len(buf[k][c]) = 1 /\ pump[k][c] = "run"
      BY DEF Typed, TypeOK
    <2>2. QED
      BY <1>4, <2>1
  <1>7. TypeOK'
    BY <1>2, <1>3, <1>5, <1>6 DEF Typed, TypeOK
  <1>8. \A k \in gone, c \in Dirs : buf'[k][c] = <<>>
    <2>1. \A k \in gone, c \in Dirs : k \in Hops /\ buf[k][c] = <<>>
      BY DEF Typed, TypeOK, Quiet
    <2>2. QED
      BY <1>4, <2>1
  <1>9. \A k \in Hops, c \in Dirs : pump'[k]["up"] = "wait" <=> pump'[k][c] = "wait"
    <2>1. \A c \in Dirs : pump[h][c] # "wait"
      BY DEF Typed, Quiet
    <2>2. "up" \in Dirs
      BY DEF Dirs
    <2>3. QED
      BY <1>4, <2>1, <2>2 DEF Typed, Quiet
  <1>10. QED
    BY <1>5, <1>7, <1>8, <1>9 DEF Typed, Quiet

\* What applications and services do.
LEMMA EndsTyped ==
    ASSUME Typed, Routed, NEW d \in Dirs, Send(d) \/ Receive(d) \/ CloseWrite(d) \/ Close(d)
    PROVE  Typed'
  <1>1. EndLane(d) \in Lanes /\ FarLane(d) \in Lanes
    <2>1. 1 \in Hops
      BY DEF Routed, Hops
    <2>2. QED
      BY <2>1, LanesOfHops
  <1>2. UNCHANGED <<path, pump, buf, gone>> /\ Hops' = Hops
    BY DEF Send, Receive, CloseWrite, Close, pumpVars, Hops
  <1>3. CASE Send(d)
    <2>1. Len(sent[d]) + 1 \in Messages /\ sent[d] \in Seq(Messages)
      BY DEF Typed, TypeOK, Messages
    <2>2. sent' \in [Dirs -> Seq(Messages)] /\ Len(sent'[d]) \in Messages
      BY <1>3, <2>1 DEF Send, Typed, TypeOK, Messages
    <2>3. flight' \in [Lanes -> Seq(Messages)]
      <3>1. flight \in [Lanes -> Seq(Messages)]
        BY DEF Typed, TypeOK
      <3>2. CASE UNCHANGED flight
        BY <3>1, <3>2
      <3>3. CASE Push(EndLane(d), Len(sent'[d]))
        <4>1. Append(flight[EndLane(d)], Len(sent'[d])) \in Seq(Messages)
          BY <1>1, <2>2, <3>1
        <4>2. QED
          BY <1>1, <3>1, <3>3, <4>1 DEF Push
      <3>4. QED
        BY <1>3, <3>2, <3>3 DEF Send, EndLane
    <2>4. QED
      BY <1>2, <1>3, <2>2, <2>3 DEF Send, Typed, TypeOK, Quiet
  <1>4. CASE Receive(d)
    <2>1. flight[FarLane(d)] \in Seq(Messages) /\ flight[FarLane(d)] # <<>>
      BY <1>1, <1>4 DEF Receive, Typed, TypeOK, FarLane
    <2>2. /\ Head(flight[FarLane(d)]) \in Messages
          /\ Tail(flight[FarLane(d)]) \in Seq(Messages)
      BY <2>1
    <2>3. flight' \in [Lanes -> Seq(Messages)]
      BY <1>1, <1>4, <2>2 DEF Receive, Pop, Typed, TypeOK, FarLane
    <2>4. got' \in [Dirs -> Seq(Messages)]
      BY <1>4, <2>2 DEF Receive, Typed, TypeOK, FarLane
    <2>5. QED
      BY <1>2, <1>4, <2>3, <2>4 DEF Receive, Typed, TypeOK, Quiet
  <1>5. CASE CloseWrite(d) \/ Close(d)
    <2>1. /\ flight' \in [Lanes -> Seq(Messages)]
          /\ eof' \in [Lanes -> BOOLEAN] /\ deaf' \in [Lanes -> BOOLEAN]
      BY <1>5, EndedLanes DEF Typed, CloseWrite, Close
    <2>2. UNCHANGED <<sent, got>>
      BY <1>5 DEF CloseWrite, Close
    <2>3. QED
      BY <1>2, <2>1, <2>2 DEF Typed, TypeOK, Quiet
  <1>6. QED
    BY <1>3, <1>4, <1>5

\* What pumps do.
LEMMA PumpTyped ==
    ASSUME Typed, Routed, NEW h \in Hops, NEW d \in Dirs, Pump(h, d)
    PROVE  Typed'
  <1> USE DEF Typed, TypeOK
  <1>1. /\ In(h, d) \in Lanes /\ Out(h, d) \in Lanes /\ h \in 1..3
        /\ UNCHANGED <<path, gone, sent, got>>
        /\ pump[h][d] # "wait"
    BY LanesOfHops DEF Pump, Read, ReadEnds, Write, WriteFails, Routed
  <1>2. <<>> \in Seq(Messages)
    OBVIOUS
  <1>3. CASE Read(h, d)
    <2>1. flight[In(h, d)] \in Seq(Messages) /\ flight[In(h, d)] # <<>>
      BY <1>1, <1>3 DEF Read
    <2> DEFINE m == Head(flight[In(h, d)])
    <2>2. m \in Messages /\ Tail(flight[In(h, d)]) \in Seq(Messages)
      BY <2>1
    <2>3. flight' \in [Lanes -> Seq(Messages)] /\ UNCHANGED <<eof, deaf>> /\ h \notin gone
      BY <1>1, <1>3, <2>2 DEF Read, Pop
    <2>4. SetPump(h, d, "done", <<>>) \/ SetPump(h, d, "run", <<m>>)
      BY <1>3 DEF Read
    <2>5. <<m>> \in Seq(Messages) /\ Len(<<m>>) = 1
      BY <2>2
    <2> HIDE DEF m
    <2>6. QED
      BY <1>1, <1>2, <2>3, <2>4, <2>5, SetPumpTyped
  <1>4. CASE ReadEnds(h, d) \/ WriteFails(h, d)
    <2>1. \E p \in {"run", "done"} : SetPump(h, d, p, <<>>)
      BY <1>4 DEF ReadEnds, WriteFails, AfterError
    <2>2. UNCHANGED <<flight, eof, deaf>>
      BY <1>4 DEF ReadEnds, WriteFails, laneVars
    <2>3. QED
      BY <1>1, <1>2, <2>1, <2>2, SetPumpTyped
  <1>5. CASE Write(h, d)
    <2>1. Head(buf[h][d]) \in Messages
      BY <1>1, <1>5 DEF Write
    <2>2. flight' \in [Lanes -> Seq(Messages)] /\ UNCHANGED <<eof, deaf>>
      BY <1>1, <1>5, <2>1 DEF Write, Push
    <2>3. SetPump(h, d, "run", <<>>)
      BY <1>5 DEF Write
    <2>4. QED
      BY <1>1, <1>2, <2>2, <2>3, SetPumpTyped
  <1>6. QED
    BY <1>3, <1>4, <1>5 DEF Pump

\* What a hop does when it returns: path[h] is never "dial" then.
LEMMA ReturnTyped ==
    ASSUME Typed, Routed, NEW h \in Hops, HopReturns(h)
    PROVE  /\ Typed' /\ UNCHANGED <<path, pump, sent, got>>
           /\ gone' = gone \cup {h} /\ h \notin gone
           /\ \A k \in Hops, c \in Dirs : buf'[k][c] = IF k = h THEN <<>> ELSE buf[k][c]
           /\ \E E, D, R : End(E, D, R)
  <1>1. /\ UNCHANGED <<path, pump, sent, got>> /\ Hops' = Hops
        /\ gone' = gone \cup {h} /\ h \notin gone
        /\ buf' = [buf EXCEPT ![h] = [d \in Dirs |-> <<>>]]
        /\ \E E, D, R : End(E, D, R)
    BY DEF HopReturns, Hops
  <1>2. h \in 1..3 /\ \A k \in Hops : k \in 1..3
    BY DEF Routed
  <1>3. \A k \in Hops, c \in Dirs : buf'[k][c] = IF k = h THEN <<>> ELSE buf[k][c]
    BY <1>1, <1>2 DEF Typed, TypeOK
  <1>4. buf' \in [1..3 -> [Dirs -> Seq(Messages)]]
    BY <1>1, <1>2 DEF Typed, TypeOK
  <1>5. /\ flight' \in [Lanes -> Seq(Messages)]
        /\ eof' \in [Lanes -> BOOLEAN] /\ deaf' \in [Lanes -> BOOLEAN]
    BY <1>1, EndedLanes DEF Typed
  <1>6. TypeOK'
    BY <1>1, <1>3, <1>4, <1>5 DEF Typed, TypeOK
  <1>7. Quiet'
    BY <1>1, <1>3 DEF Typed, TypeOK, Quiet
  <1>8. QED
    BY <1>1, <1>3, <1>6, <1>7 DEF Typed

\* What hops do.
LEMMA HopTyped ==
    ASSUME Typed, Routed, NEW h \in Hops, Hop(h) \/ Stopped(h)
    PROVE  Typed'
  <1> USE DEF Typed, TypeOK
  <1>1. h \in 1..3 /\ In(h, "up") \in Lanes /\ \A k \in Hops : k \in 1..3
    BY LanesOfHops DEF Routed, Dirs
  <1>2. ASSUME NEW p \in {"run", "done"}, Handshaking(h),
               pump' = [pump EXCEPT ![h] = [d \in Dirs |-> p]], flight' \in [Lanes -> Seq(Messages)],
               UNCHANGED <<path, eof, deaf, buf, gone, sent, got>>
        PROVE  Typed'
    <2>1. /\ pump' \in [1..3 -> [Dirs -> {"wait", "run", "done"}]] /\ Hops' = Hops
          /\ \A k \in Hops, c \in Dirs : pump'[k][c] = IF k = h THEN p ELSE pump[k][c]
      BY <1>1, <1>2 DEF Hops
    <2>2. \A c \in Dirs : pump[h][c] = "wait" /\ buf[h][c] = <<>>
      BY <1>2 DEF Handshaking, Quiet
    <2>3. TypeOK'
      BY <1>2, <2>1, <2>2
    <2>4. Quiet'
      BY <1>2, <2>1, <2>2 DEF Quiet, Dirs
    <2>5. QED
      BY <2>3, <2>4
  <1>3. CASE Handshake(h)
    <2>1. flight[In(h, "up")] \in Seq(Messages) /\ flight[In(h, "up")] # <<>>
      BY <1>1, <1>3 DEF Handshake
    <2>2. Tail(flight[In(h, "up")]) \in Seq(Messages)
      BY <2>1
    <2>3. flight' \in [Lanes -> Seq(Messages)]
      BY <1>1, <1>3, <2>2 DEF Handshake, Pop
    <2>4. QED
      BY <1>2, <1>3, <2>3 DEF Handshake
  <1>4. CASE HandshakeFails(h)
    BY <1>2, <1>4 DEF HandshakeFails, laneVars
  <1>5. CASE HopReturns(h)
    BY <1>5, ReturnTyped
  <1>6. QED
    BY <1>3, <1>4, <1>5 DEF Hop, HopEnds, ServerEnds, Stopped

\* No step disturbs the types.
LEMMA TypedStep == Typed /\ [Next]_vars => Typed'
  <1> SUFFICES ASSUME Typed, [Next]_vars PROVE Typed'
    OBVIOUS
  <1>1. Routed
    BY RoutedPath DEF Typed, TypeOK
  <1>2. ASSUME NEW l \in Links, StreamBreaks(l) PROVE Typed'
    <2>1. /\ flight' \in [Lanes -> Seq(Messages)]
          /\ eof' \in [Lanes -> BOOLEAN] /\ deaf' \in [Lanes -> BOOLEAN]
      BY <1>2, EndedLanes DEF Typed, StreamBreaks
    <2>2. UNCHANGED <<path, pump, buf, gone, sent, got>> /\ Hops' = Hops
      BY <1>2 DEF StreamBreaks, pumpVars, Hops
    <2>3. QED
      BY <2>1, <2>2 DEF Typed, TypeOK, Quiet
  <1>3. CASE UNCHANGED vars
    <2>1. UNCHANGED <<path, flight, eof, deaf, pump, buf, gone, sent, got>> /\ Hops' = Hops
      BY <1>3 DEF vars, laneVars, pumpVars, Hops
    <2>2. QED
      BY <2>1 DEF Typed, TypeOK, Quiet
  <1>4. QED
    BY <1>1, <1>2, <1>3, EndsTyped, PumpTyped, HopTyped DEF Next

\* So the types always hold.
LEMMA TypedAlways == Spec => []Typed
  BY TypedInit, TypedStep, PTL DEF Spec

\* Every variable keeps its type: a pump holds at most one message, and only while it
\* runs.
THEOREM TypeCorrect == Spec => []TypeOK
  <1>1. Typed => TypeOK
    BY DEF Typed
  <1>2. QED
    BY <1>1, TypedAlways, PTL

-----------------------------------------------------------------------------
(* The order of messages.  n[x] is the number of the last message that was *)
(* put on lane x, whether it is still there or not.                        *)

\* The messages s end with number k and have no gap.
Consecutive(s, k) == \A i \in 1..Len(s) : s[i] + Len(s) = k + i

\* Taking the first message leaves the others consecutive.
LEMMA TakenConsecutive ==
    ASSUME NEW s \in Seq(Nat), NEW k \in Nat, Consecutive(s, k), s # <<>>
    PROVE  /\ Consecutive(Tail(s), k) /\ Len(s) = Len(Tail(s)) + 1
           /\ Head(s) \in Nat /\ Head(s) + Len(s) = k + 1 /\ Tail(s) \in Seq(Nat)
  <1>1. Len(s) \in Nat /\ Len(s) >= 1 /\ Head(s) = s[1] /\ s[1] \in Nat
    OBVIOUS
  <1>2. /\ Tail(s) \in Seq(Nat) /\ Len(s) = Len(Tail(s)) + 1
        /\ \A i \in 1..Len(Tail(s)) : Tail(s)[i] = s[i + 1] /\ s[i + 1] \in Nat
    OBVIOUS
  <1>3. Consecutive(Tail(s), k)
    <2> SUFFICES ASSUME NEW i \in 1..Len(Tail(s)) PROVE Tail(s)[i] + Len(Tail(s)) = k + i
      BY DEF Consecutive
    <2>1. i \in Nat /\ i + 1 \in 1..Len(s) /\ Len(Tail(s)) \in Nat
      BY <1>1, <1>2
    <2>2. s[i + 1] + Len(s) = k + (i + 1)
      BY <2>1 DEF Consecutive
    <2>3. QED
      BY <1>1, <1>2, <2>1, <2>2
  <1>4. QED
    BY <1>1, <1>2, <1>3 DEF Consecutive

\* Adding the next message does too.
LEMMA AddedConsecutive ==
    ASSUME NEW s \in Seq(Nat), NEW k \in Nat, Consecutive(s, k), NEW m \in Nat, m = k + 1
    PROVE  Consecutive(Append(s, m), m) /\ Len(Append(s, m)) = Len(s) + 1 /\ Append(s, m) # <<>>
  <1>1. /\ Len(s) \in Nat /\ Len(Append(s, m)) = Len(s) + 1
        /\ \A i \in 1..Len(s) : Append(s, m)[i] = s[i] /\ s[i] \in Nat
        /\ Append(s, m)[Len(s) + 1] = m
    OBVIOUS
  <1>2. \A i \in 1..(Len(s) + 1) : i \in 1..Len(s) \/ i = Len(s) + 1
    BY <1>1
  <1>3. Consecutive(Append(s, m), m)
    <2> SUFFICES ASSUME NEW i \in 1..(Len(s) + 1)
                 PROVE  Append(s, m)[i] + (Len(s) + 1) = m + i
      BY <1>1 DEF Consecutive
    <2>1. CASE i = Len(s) + 1
      BY <1>1, <2>1
    <2>2. CASE i \in 1..Len(s)
      <3>1. s[i] + Len(s) = k + i /\ i \in Nat
        BY <2>2 DEF Consecutive
      <3>2. Append(s, m)[i] = s[i] /\ s[i] \in Nat /\ Len(s) \in Nat
        BY <1>1, <2>2
      <3>3. \A a, b, c \in Nat : a + b = k + c => a + (b + 1) = (k + 1) + c
        OBVIOUS
      <3>4. QED
        BY <3>1, <3>2, <3>3
    <2>3. QED
      BY <1>2, <2>1, <2>2
  <1>4. QED
    BY <1>1, <1>3

\* Every side numbers its messages.
Counted == \A d \in Dirs : \A i \in 1..Len(sent[d]) : sent[d][i] = i

\* No message has a number that was not sent.
Known(n) ==
    /\ \A x \in Lanes : n[x] <= Len(sent[x[2]])
    /\ \A h \in Hops, d \in Dirs : buf[h][d] # <<>> => Head(buf[h][d]) <= Len(sent[d])

\* What is under way on a lane has no gap.
Ordered(n) == \A x \in Lanes : Consecutive(flight[x], n[x])

\* As long as the first lane is read, everything that is sent is put on it.
Entered(n) == \A d \in Dirs : ~deaf[EndLane(d)] => n[EndLane(d)] = Len(sent[d])

\* As long as the last lane is read, what was put on it is received or under way.
Left(n) ==
    \A d \in Dirs :
        ~deaf[FarLane(d)] => n[FarLane(d)] = Len(got[d]) + Len(flight[FarLane(d)])

\* The frame that handshake takes is not a message.
Frames(h, d) == IF d = "up" /\ pump[h][d] = "wait" THEN 1 ELSE 0

\* Between the lanes of a pump there is no gap, except where the hop has ended or what it
\* writes is lost.
NoGap(n, h, d) ==
    h \notin gone /\ pump[h][d] # "done" /\ ~deaf[Out(h, d)] =>
        /\ buf[h][d] # <<>> => Head(buf[h][d]) = n[Out(h, d)] + 1
        /\ flight[In(h, d)] # <<>> \/ ~deaf[In(h, d)] =>
              n[In(h, d)] + Frames(h, d)
                  = n[Out(h, d)] + Len(flight[In(h, d)]) + Len(buf[h][d])

Relayed(n) == \A h \in Hops, d \in Dirs : NoGap(n, h, d)

InOrder(n) == Counted /\ Known(n) /\ Ordered(n) /\ Entered(n) /\ Left(n) /\ Relayed(n)

IInv == Typed /\ \E n \in [Lanes -> Nat] : InOrder(n)

\* At the start no message has been put on any lane.
LEMMA IInvInit == Init => IInv
  <1> SUFFICES ASSUME Init PROVE \E n \in [Lanes -> Nat] : InOrder(n)
    BY TypedInit DEF IInv
  <1> DEFINE n == [x \in Lanes |-> 0]
  <1>1. Routed
    BY RoutedPath DEF Init
  <1>2. \A x \in Lanes :
            n[x] = 0 /\ (flight[x] = <<>> \/ (flight[x] = <<Empty>> /\ x = <<2, "up">>))
    BY DEF Init
  <1>3. \A d \in Dirs : EndLane(d) \in Lanes /\ FarLane(d) \in Lanes /\ FarLane(d) # <<2, "up">>
    BY <1>1 DEF Routed, Lanes, Dirs, EndLane, FarLane, EndLink, FarLink, Back, Hops
  <1>4. \A d \in Dirs : sent[d] = <<>> /\ got[d] = <<>>
    BY DEF Init
  <1>5. Counted
    BY <1>4 DEF Counted
  <1>6. Known(n)
    BY <1>1, <1>2, <1>4 DEF Known, Init, Routed, Lanes
  <1>7. Ordered(n)
    <2>1. Consecutive(<<>>, 0) /\ Consecutive(<<0>>, 0)
      BY DEF Consecutive
    <2>2. QED
      BY <1>2, <2>1 DEF Ordered, Empty
  <1>8. Entered(n) /\ Left(n)
    <2>1. \A d \in Dirs : n[EndLane(d)] = 0 /\ n[FarLane(d)] = 0 /\ flight[FarLane(d)] = <<>>
      BY <1>2, <1>3
    <2>2. \A d \in Dirs : Len(sent[d]) = 0 /\ Len(got[d]) = 0 /\ Len(flight[FarLane(d)]) = 0
      BY <1>4, <2>1
    <2> HIDE DEF n
    <2>3. Entered(n)
      BY <2>1, <2>2 DEF Entered
    <2>4. \A d \in Dirs : Len(got[d]) + Len(flight[FarLane(d)]) = 0
      <3>1. \A a, b : a = 0 /\ b = 0 => a + b = 0
        OBVIOUS
      <3>2. QED
        BY <2>2, <3>1, Zenon
    <2>5. Left(n)
      BY <2>1, <2>4 DEF Left
    <2>6. QED
      BY <2>3, <2>5
  <1>9. Relayed(n)
    <2> SUFFICES ASSUME NEW h \in Hops, NEW d \in Dirs
                 PROVE  n[In(h, d)] + Frames(h, d)
                            = n[Out(h, d)] + Len(flight[In(h, d)]) + Len(buf[h][d])
      BY <1>1 DEF Init, Relayed, NoGap, Routed
    <2>1. n[In(h, d)] = 0 /\ n[Out(h, d)] = 0 /\ buf[h][d] = <<>>
      BY <1>1, <1>2, LanesOfHops DEF Init, Routed
    <2>2. Frames(h, d) = IF d = "up" /\ h = 1 /\ Len(path) = 3 THEN 1 ELSE 0
      BY <1>1 DEF Init, Frames, Routed
    <2>3. flight[In(h, d)] = IF d = "up" /\ h = 1 /\ Len(path) = 3 THEN <<Empty>> ELSE <<>>
      <3>1. In(h, d) = <<2, "up">> <=> d = "up" /\ h = 1
        BY <1>1 DEF In, Routed, Dirs
      <3>2. In(h, d) \in Lanes
        BY <1>1, LanesOfHops
      <3>3. QED
        BY <3>1, <3>2 DEF Init
    <2>4. QED
      BY <2>1, <2>2, <2>3
  <1>10. QED
    BY <1>5, <1>6, <1>7, <1>8, <1>9 DEF InOrder

\* Nothing is put anywhere: lanes lose what they carry and are deaf then, pumps lose
\* what they hold and are done then, or their hop is gone, or what they write is lost.
Losing ==
    /\ UNCHANGED <<path, sent, got>> /\ gone \subseteq gone'
    /\ \A x \in Lanes : deaf[x] => deaf'[x]
    /\ \A x \in Lanes : flight'[x] = flight[x] \/ (flight'[x] = <<>> /\ deaf'[x])
    /\ \A h \in Hops, d \in Dirs :
           \/ pump'[h][d] = pump[h][d] /\ buf'[h][d] = buf[h][d]
           \/ /\ buf'[h][d] = <<>>
              /\ h \in gone' \/ pump'[h][d] = "done" \/ deaf'[Out(h, d)]

\* Losing messages leaves gaps only where nobody reads.
LEMMA LosingStep ==
    ASSUME Routed, NEW n \in [Lanes -> Nat], InOrder(n), Losing
    PROVE  InOrder(n)'
  <1>1. UNCHANGED <<path, sent, got>> /\ Hops' = Hops
    BY DEF Losing, Hops
  <1>2. \A d \in Dirs : /\ EndLane(d) \in Lanes /\ FarLane(d) \in Lanes
                        /\ EndLane(d)' = EndLane(d) /\ FarLane(d)' = FarLane(d)
    <2>1. 1 \in Hops
      BY DEF Routed, Hops
    <2>2. QED
      BY <1>1, <2>1, LanesOfHops DEF EndLane, FarLane, EndLink, FarLink
  <1>3. Counted'
    BY <1>1 DEF InOrder, Counted
  <1>4. Known(n)'
    BY <1>1 DEF InOrder, Known, Losing
  <1>5. Ordered(n)'
    <2>1. \A k : Consecutive(<<>>, k)
      BY DEF Consecutive
    <2>2. QED
      BY <2>1 DEF InOrder, Ordered, Losing
  <1>6. Entered(n)'
    BY <1>1, <1>2 DEF InOrder, Entered, Losing
  <1>7. Left(n)'
    BY <1>1, <1>2 DEF InOrder, Left, Losing
  <1>8. Relayed(n)'
    <2> SUFFICES ASSUME NEW h \in Hops, NEW d \in Dirs,
                        (h \notin gone /\ pump[h][d] # "done" /\ ~deaf[Out(h, d)])'
                 PROVE  /\ (buf[h][d] # <<>> => Head(buf[h][d]) = n[Out(h, d)] + 1)'
                        /\ (flight[In(h, d)] # <<>> \/ ~deaf[In(h, d)] =>
                              n[In(h, d)] + Frames(h, d)
                                  = n[Out(h, d)] + Len(flight[In(h, d)]) + Len(buf[h][d]))'
      BY <1>1 DEF Relayed, NoGap, In, Out
    <2>1. In(h, d) \in Lanes /\ Out(h, d) \in Lanes
      BY LanesOfHops
    <2>2. In(h, d)' = In(h, d) /\ Out(h, d)' = Out(h, d)
      BY DEF In, Out
    <2>3. /\ pump'[h][d] = pump[h][d] /\ buf'[h][d] = buf[h][d]
          /\ h \notin gone /\ ~deaf[Out(h, d)]
      BY <2>1, <2>2 DEF Losing
    <2>4. Frames(h, d)' = Frames(h, d)
      BY <2>3 DEF Frames
    <2>5. \/ flight'[In(h, d)] = flight[In(h, d)] /\ (~deaf'[In(h, d)] => ~deaf[In(h, d)])
          \/ flight'[In(h, d)] = <<>> /\ deaf'[In(h, d)]
      BY <2>1 DEF Losing
    <2>6. QED
      BY <2>2, <2>3, <2>4, <2>5 DEF InOrder, Relayed, NoGap
  <1>9. QED
    BY <1>3, <1>4, <1>5, <1>6, <1>7, <1>8 DEF InOrder

\* Taking a message, or the first frame, from the lane that a pump reads.
LEMMA TakingStep ==
    ASSUME Typed, Routed, NEW n \in [Lanes -> Nat], InOrder(n), NEW h \in Hops, NEW d \in Dirs,
           flight[In(h, d)] # <<>>, Pop(In(h, d)), UNCHANGED <<path, deaf, gone, sent, got>>,
           \A k \in Hops, c \in Dirs :
               k # h \/ c # d =>
                   /\ buf'[k][c] = buf[k][c] /\ Frames(k, c)' = Frames(k, c)
                   /\ pump'[k][c] # "done" => pump[k][c] # "done",
           buf[h][d] = <<>>, pump[h][d] # "done",
           \/ pump'[h][d] = "done" /\ buf'[h][d] = <<>>
           \/ Frames(h, d) = 1 /\ Frames(h, d)' = 0 /\ buf'[h][d] = <<>>
           \/ /\ Frames(h, d) = 0 /\ Frames(h, d)' = 0
              /\ buf'[h][d] = <<Head(flight[In(h, d)])>>
    PROVE  InOrder(n)'
  <1> DEFINE x == In(h, d)
             y == Out(h, d)
             m == Head(flight[x])
  <1>1. Hops' = Hops /\ \A k, c : In(k, c)' = In(k, c) /\ Out(k, c)' = Out(k, c)
    BY DEF Hops, In, Out
  <1>2. /\ x \in Lanes /\ y \in Lanes /\ x # y /\ x[2] = d
        /\ \A c \in Dirs : EndLane(c) \in Lanes /\ FarLane(c) \in Lanes /\ FarLane(c) # x
        /\ \A k \in Hops, c \in Dirs : In(k, c) \in Lanes /\ (k # h \/ c # d => In(k, c) # x)
    BY LanesOfHops
  <1>3. /\ \A c \in Dirs : EndLane(c)' = EndLane(c) /\ FarLane(c)' = FarLane(c)
    BY DEF EndLane, FarLane, EndLink, FarLink
  <1>4. /\ flight[x] \in Seq(Nat) /\ n[x] \in Nat /\ n[y] \in Nat /\ flight[x] # <<>>
        /\ Consecutive(flight[x], n[x])
    BY <1>2 DEF Typed, TypeOK, Messages, InOrder, Ordered
  <1>5. /\ Consecutive(Tail(flight[x]), n[x]) /\ Len(flight[x]) = Len(Tail(flight[x])) + 1
        /\ m \in Nat /\ m + Len(flight[x]) = n[x] + 1 /\ Len(Tail(flight[x])) \in Nat
    BY <1>4, TakenConsecutive
  <1>6. \A z \in Lanes : flight'[z] = IF z = x THEN Tail(flight[x]) ELSE flight[z]
    BY <1>2 DEF Pop, Typed, TypeOK
  <1> HIDE DEF x, y, m
  <1>7. Counted' /\ Entered(n)'
    BY <1>3 DEF InOrder, Counted, Entered
  <1>8. Ordered(n)'
    BY <1>5, <1>6 DEF InOrder, Ordered
  <1>9. Left(n)'
    <2>1. \A c \in Dirs : flight'[FarLane(c)] = flight[FarLane(c)]
      BY <1>2, <1>6
    <2> SUFFICES ASSUME NEW c \in Dirs, ~deaf[FarLane(c)]
                 PROVE  n[FarLane(c)] = Len(got[c]) + Len(flight'[FarLane(c)])
      BY <1>3 DEF Left
    <2>2. n[FarLane(c)] = Len(got[c]) + Len(flight[FarLane(c)])
      BY DEF InOrder, Left
    <2>3. QED
      BY <2>1, <2>2
  <1>10. Known(n)'
    <2>1. n[x] <= Len(sent[d]) /\ Len(sent[d]) \in Nat
      BY <1>2 DEF InOrder, Known, Typed, TypeOK
    <2>2. m <= Len(sent[d])
      BY <1>4, <1>5, <2>1
    <2>3. \A k \in Hops, c \in Dirs : buf'[k][c] # <<>> => Head(buf'[k][c]) <= Len(sent[c])
      <3> SUFFICES ASSUME NEW k \in Hops, NEW c \in Dirs, buf'[k][c] # <<>>
                   PROVE  Head(buf'[k][c]) <= Len(sent[c])
        OBVIOUS
      <3>1. CASE k # h \/ c # d
        BY <3>1 DEF InOrder, Known
      <3>2. CASE k = h /\ c = d
        <4>1. buf'[h][d] = <<m>>
          BY <3>2 DEF m, x
        <4>2. QED
          BY <2>2, <3>2, <4>1
      <3>3. QED
        BY <3>1, <3>2
    <2>4. QED
      BY <1>1, <2>3 DEF InOrder, Known
  <1>11. Relayed(n)'
    <2> SUFFICES ASSUME NEW k \in Hops, NEW c \in Dirs PROVE NoGap(n, k, c)'
      BY <1>1 DEF Relayed
    <2>1. NoGap(n, k, c)
      BY DEF InOrder, Relayed
    <2>2. CASE k # h \/ c # d
      <3>1. flight'[In(k, c)] = flight[In(k, c)]
        BY <1>2, <1>6, <2>2
      <3>2. QED
        BY <1>1, <2>1, <2>2, <3>1 DEF NoGap
    <2>3. CASE k = h /\ c = d
      <3> SUFFICES ASSUME h \notin gone, pump'[h][d] # "done", ~deaf[y]
                   PROVE  /\ buf'[h][d] # <<>> => Head(buf'[h][d]) = n[y] + 1
                          /\ n[x] + Frames(h, d)'
                                 = n[y] + Len(flight'[x]) + Len(buf'[h][d])
        BY <1>1, <2>3 DEF NoGap, x, y
      <3>1. Len(flight[x]) = Len(flight'[x]) + 1 /\ Len(flight'[x]) \in Nat
        BY <1>2, <1>5, <1>6
      <3>2. n[x] + Frames(h, d) = n[y] + Len(flight[x]) + Len(buf[h][d]) /\ Len(buf[h][d]) = 0
        BY <1>4, <2>1, <2>3 DEF NoGap, x, y
      <3>3. CASE Frames(h, d) = 1 /\ Frames(h, d)' = 0 /\ buf'[h][d] = <<>>
        <4>1. Len(buf'[h][d]) = 0
          BY <3>3
        <4>2. \A a, e, l \in Nat : a + 1 = e + (l + 1) + 0 => a + 0 = e + l + 0
          OBVIOUS
        <4>3. n[x] + 1 = n[y] + (Len(flight'[x]) + 1) + 0
          BY <3>1, <3>2, <3>3
        <4>4. n[x] + 0 = n[y] + Len(flight'[x]) + 0
          BY <1>4, <3>1, <4>2, <4>3
        <4>5. QED
          BY <3>3, <4>1, <4>4
      <3>4. CASE Frames(h, d) = 0 /\ Frames(h, d)' = 0 /\ buf'[h][d] = <<m>>
        <4>1. Len(buf'[h][d]) = 1 /\ Head(buf'[h][d]) = m
          BY <3>4
        <4>2. m = n[y] + 1
          BY <1>4, <1>5, <3>1, <3>2, <3>4
        <4>3. QED
          BY <1>4, <3>1, <3>2, <3>4, <4>1, <4>2
      <3>5. QED
        BY <3>3, <3>4 DEF m, x
    <2>4. QED
      BY <2>2, <2>3
  <1>12. QED
    BY <1>7, <1>8, <1>9, <1>10, <1>11 DEF InOrder

\* The numbers after message m was put on lane x.
Put(n, x, m) == [n EXCEPT ![x] = m]

\* Putting the next message on a lane that is read leaves no gap there, nor at any
\* pump but the one that put it.
LEMMA PuttingStep ==
    ASSUME Typed, Routed, NEW n \in [Lanes -> Nat], InOrder(n), NEW x \in Lanes, ~deaf[x],
           NEW m \in Nat, m = n[x] + 1, Push(x, m), UNCHANGED <<path, deaf, gone, got>>
    PROVE  /\ Put(n, x, m) \in [Lanes -> Nat]
           /\ Ordered(Put(n, x, m))' /\ Left(Put(n, x, m))'
           /\ \A z \in Lanes : /\ Put(n, x, m)[z] = IF z = x THEN m ELSE n[z]
                               /\ z # x => flight'[z] = flight[z]
           /\ \A k \in Hops, c \in Dirs :
                  /\ Out(k, c) # x
                  /\ buf'[k][c] = buf[k][c] /\ pump'[k][c] = pump[k][c]
                  => NoGap(Put(n, x, m), k, c)'
  <1> DEFINE q == Put(n, x, m)
  <1>1. /\ q \in [Lanes -> Nat] /\ \A z \in Lanes : q[z] = IF z = x THEN m ELSE n[z]
    BY DEF Put
  <1>2. Hops' = Hops /\ \A k, c : In(k, c)' = In(k, c) /\ Out(k, c)' = Out(k, c)
    BY DEF Hops, In, Out
  <1>3. \A z \in Lanes : flight'[z] = IF z = x THEN Append(flight[x], m) ELSE flight[z]
    BY DEF Push, Typed, TypeOK
  <1>4. flight[x] \in Seq(Nat) /\ n[x] \in Nat /\ Consecutive(flight[x], n[x])
    BY DEF Typed, TypeOK, Messages, InOrder, Ordered
  <1>5. /\ Consecutive(flight'[x], m) /\ Len(flight'[x]) = Len(flight[x]) + 1
        /\ Len(flight[x]) \in Nat
    <2>1. flight'[x] = Append(flight[x], m)
      BY <1>3
    <2>2. Len(flight[x]) \in Nat
      BY <1>4
    <2>3. /\ Consecutive(Append(flight[x], m), m)
          /\ Len(Append(flight[x], m)) = Len(flight[x]) + 1
      BY <1>4, AddedConsecutive
    <2>4. QED
      BY <2>1, <2>2, <2>3, Zenon
  <1> HIDE DEF q
  <1>6. Ordered(q)'
    BY <1>1, <1>3, <1>5 DEF InOrder, Ordered
  <1>7. Left(q)'
    <2>1. \A c \in Dirs : FarLane(c)' = FarLane(c) /\ FarLane(c) \in Lanes
      <3>1. 1 \in Hops
        BY DEF Routed, Hops
      <3>2. QED
        BY <3>1, LanesOfHops DEF FarLane, FarLink, EndLink
    <2> SUFFICES ASSUME NEW c \in Dirs, ~deaf[FarLane(c)]
                 PROVE  q[FarLane(c)] = Len(got[c]) + Len(flight'[FarLane(c)])
      BY <2>1 DEF Left
    <2>2. n[FarLane(c)] = Len(got[c]) + Len(flight[FarLane(c)]) /\ Len(got[c]) \in Nat
      BY DEF InOrder, Left, Typed, TypeOK
    <2>3. CASE FarLane(c) = x
      <3>1. q[x] = n[x] + 1
        BY <1>1
      <3>2. n[x] = Len(got[c]) + Len(flight[x])
        BY <2>2, <2>3
      <3>3. \A g, l \in Nat : (g + l) + 1 = g + (l + 1)
        OBVIOUS
      <3>4. (Len(got[c]) + Len(flight[x])) + 1 = Len(got[c]) + (Len(flight[x]) + 1)
        BY <1>5, <2>2, <3>3, Zenon
      <3>5. QED
        BY <1>5, <2>3, <3>1, <3>2, <3>4, Zenon
    <2>4. CASE FarLane(c) # x
      BY <1>1, <1>3, <2>1, <2>2, <2>4
    <2>5. QED
      BY <2>3, <2>4
  <1>8. ASSUME NEW k \in Hops, NEW c \in Dirs, Out(k, c) # x,
               buf'[k][c] = buf[k][c], pump'[k][c] = pump[k][c]
        PROVE  NoGap(q, k, c)'
    <2>1. /\ In(k, c) \in Lanes /\ Out(k, c) \in Lanes /\ q[Out(k, c)] = n[Out(k, c)]
          /\ n[Out(k, c)] \in Nat /\ n[In(k, c)] \in Nat
      BY <1>1, <1>8, LanesOfHops
    <2>2. Frames(k, c)' = Frames(k, c) /\ Frames(k, c) \in Nat
      BY <1>8 DEF Frames
    <2>3. NoGap(n, k, c)
      BY DEF InOrder, Relayed
    <2>4. CASE In(k, c) = x
      <3> SUFFICES ASSUME k \notin gone, pump[k][c] # "done", ~deaf[Out(k, c)]
                   PROVE  /\ buf[k][c] # <<>> => Head(buf[k][c]) = n[Out(k, c)] + 1
                          /\ m + Frames(k, c)
                                 = n[Out(k, c)] + Len(flight'[x]) + Len(buf[k][c])
        BY <1>1, <1>2, <1>8, <2>1, <2>2, <2>4 DEF NoGap
      <3>1. n[x] + Frames(k, c) = n[Out(k, c)] + Len(flight[x]) + Len(buf[k][c])
        BY <2>3, <2>4 DEF NoGap
      <3>2. buf[k][c] \in Seq(Nat) /\ Len(buf[k][c]) \in Nat
        BY DEF Typed, TypeOK, Routed, Messages
      <3>3. (n[x] + 1) + Frames(k, c) = n[Out(k, c)] + (Len(flight[x]) + 1) + Len(buf[k][c])
        <4>1. /\ n[x] \in Nat /\ Frames(k, c) \in Nat /\ n[Out(k, c)] \in Nat
              /\ Len(flight[x]) \in Nat /\ Len(buf[k][c]) \in Nat
          BY <1>4, <1>5, <2>1, <2>2, <3>2
        <4> DEFINE a == n[x]
                   f == Frames(k, c)
                   o == n[Out(k, c)]
                   l == Len(flight[x])
                   b == Len(buf[k][c])
        <4>2. a \in Nat /\ f \in Nat /\ o \in Nat /\ l \in Nat /\ b \in Nat /\ a + f = o + l + b
          BY <3>1, <4>1
        <4> HIDE DEF a, f, o, l, b
        <4>3. (a + 1) + f = o + (l + 1) + b
          BY <4>2
        <4>4. QED
          BY <4>3 DEF a, f, o, l, b
      <3>4. buf[k][c] # <<>> => Head(buf[k][c]) = n[Out(k, c)] + 1
        BY <2>3 DEF NoGap
      <3>5. QED
        BY <1>5, <3>3, <3>4
    <2>5. CASE In(k, c) # x
      <3>1. q[In(k, c)] = n[In(k, c)] /\ flight'[In(k, c)] = flight[In(k, c)]
        BY <1>1, <1>3, <2>1, <2>5
      <3>2. QED
        BY <1>2, <1>8, <2>1, <2>2, <2>3, <3>1 DEF NoGap
    <2>6. QED
      BY <2>4, <2>5
  <1>9. QED
    BY <1>1, <1>3, <1>6, <1>7, <1>8 DEF q

\* What a pump holds is the next message of the lane it writes.
LEMMA WriteStep ==
    ASSUME Typed, Routed, NEW n \in [Lanes -> Nat], InOrder(n), NEW h \in Hops, NEW d \in Dirs,
           Write(h, d)
    PROVE  \E k \in [Lanes -> Nat] : InOrder(k)'
  <1> DEFINE y == Out(h, d)
  <1>1. Hops' = Hops /\ \A k, c : In(k, c)' = In(k, c) /\ Out(k, c)' = Out(k, c)
    BY DEF Hops, In, Out, Write
  <1>2. /\ y \in Lanes /\ In(h, d) \in Lanes /\ In(h, d) # y /\ y[2] = d
        /\ \A k \in Hops, c \in Dirs : k # h \/ c # d => Out(k, c) # y
        /\ \A c \in Dirs : EndLane(c) \in Lanes /\ EndLane(c) # y
    BY LanesOfHops
  <1>3. /\ buf[h][d] \in Seq(Nat) /\ buf[h][d] # <<>> /\ Len(buf[h][d]) = 1
        /\ pump[h][d] = "run" /\ h \notin gone /\ h \in 1..3
    BY DEF Write, Typed, TypeOK, Quiet, Messages, Routed
  <1>4. PICK m \in Nat : m = Head(buf[h][d]) /\ m = n[y] + 1
    <2>1. Head(buf[h][d]) \in Nat
      BY <1>3
    <2>2. NoGap(n, h, d) /\ ~deaf[y]
      BY DEF InOrder, Relayed, Write
    <2>3. Head(buf[h][d]) = n[y] + 1
      BY <1>3, <2>2 DEF NoGap
    <2>4. QED
      BY <2>1, <2>3
  <1> DEFINE q == Put(n, y, m)
  <1>5. /\ Push(y, m) /\ ~deaf[y] /\ UNCHANGED <<path, deaf, gone, sent, got>>
        /\ \A k \in Hops, c \in Dirs :
               /\ buf'[k][c] = IF k = h /\ c = d THEN <<>> ELSE buf[k][c]
               /\ pump'[k][c] = pump[k][c]
    <2>1. /\ pump' = [pump EXCEPT ![h][d] = "run"] /\ buf' = [buf EXCEPT ![h][d] = <<>>]
          /\ Push(y, m) /\ ~deaf[y] /\ UNCHANGED <<path, deaf, gone, sent, got>>
      BY <1>4 DEF Write, SetPump
    <2>2. QED
      BY <1>3, <2>1 DEF Typed, TypeOK, Routed
  <1> HIDE DEF y, q
  <1>6. /\ q \in [Lanes -> Nat] /\ Ordered(q)' /\ Left(q)'
        /\ \A z \in Lanes : q[z] = (IF z = y THEN m ELSE n[z]) /\ (z # y => flight'[z] = flight[z])
        /\ \A k \in Hops, c \in Dirs :
               Out(k, c) # y /\ buf'[k][c] = buf[k][c] /\ pump'[k][c] = pump[k][c]
                   => NoGap(q, k, c)'
    BY <1>2, <1>4, <1>5, PuttingStep DEF q
  <1>7. Counted' /\ Entered(q)'
    <2>1. \A c \in Dirs : EndLane(c)' = EndLane(c)
      BY <1>5 DEF EndLane, EndLink
    <2>2. QED
      BY <1>2, <1>5, <1>6, <2>1 DEF InOrder, Counted, Entered
  <1>8. Known(q)'
    <2>1. m <= Len(sent[d])
      BY <1>3, <1>4 DEF InOrder, Known
    <2>2. \A z \in Lanes : q[z] <= Len(sent[z[2]])
      BY <1>2, <1>6, <2>1 DEF InOrder, Known
    <2>3. \A k \in Hops, c \in Dirs : buf'[k][c] # <<>> => Head(buf'[k][c]) <= Len(sent[c])
      BY <1>5 DEF InOrder, Known
    <2>4. QED
      BY <1>1, <1>5, <2>2, <2>3 DEF Known
  <1>9. NoGap(q, h, d)'
    <2>1. NoGap(n, h, d)
      BY DEF InOrder, Relayed
    <2>2. Frames(h, d) = 0 /\ Frames(h, d)' = 0
      BY <1>3, <1>5 DEF Frames
    <2>3. flight'[In(h, d)] = flight[In(h, d)] /\ q[In(h, d)] = n[In(h, d)] /\ q[y] = n[y] + 1
      BY <1>2, <1>4, <1>6
    <2>4. buf'[h][d] = <<>> /\ Len(buf'[h][d]) = 0
      BY <1>5
    <2>5. Len(flight[In(h, d)]) \in Nat /\ n[y] \in Nat
      BY <1>2 DEF Typed, TypeOK
    <2> SUFFICES ASSUME ~deaf[y], flight[In(h, d)] # <<>> \/ ~deaf[In(h, d)]
                 PROVE  q[In(h, d)] + 0 = q[y] + Len(flight[In(h, d)]) + 0
      BY <1>1, <1>5, <2>2, <2>3, <2>4 DEF NoGap, y
    <2>6. n[In(h, d)] + 0 = n[y] + Len(flight[In(h, d)]) + 1
      BY <1>3, <2>1, <2>2 DEF NoGap, y
    <2>7. \A a, e, l \in Nat : a + 0 = e + l + 1 => a + 0 = (e + 1) + l + 0
      OBVIOUS
    <2>8. n[In(h, d)] \in Nat
      BY <1>2
    <2>9. QED
      BY <2>3, <2>5, <2>6, <2>7, <2>8
  <1>10. Relayed(q)'
    BY <1>1, <1>2, <1>5, <1>6, <1>9 DEF Relayed
  <1>11. QED
    BY <1>6, <1>7, <1>8, <1>10 DEF InOrder

\* The application, or the service, sends its next message, which is lost if the first
\* lane is not read any more.
LEMMA SendStep ==
    ASSUME Typed, Routed, NEW n \in [Lanes -> Nat], InOrder(n), NEW d \in Dirs, Send(d)
    PROVE  \E k \in [Lanes -> Nat] : InOrder(k)'
  <1>1. /\ Hops' = Hops /\ \A k, c : In(k, c)' = In(k, c) /\ Out(k, c)' = Out(k, c)
        /\ \A k, c : Frames(k, c)' = Frames(k, c)
        /\ UNCHANGED <<path, deaf, pump, buf, gone, got>>
    BY DEF Hops, In, Out, Send, pumpVars, Frames
  <1>0. 1 \in Hops
    BY DEF Routed, Hops
  <1>a. PICK x \in Lanes : x = EndLane(d)
    BY <1>0, LanesOfHops
  <1>b. PICK m \in Nat : m = Len(sent[d]) + 1
    BY DEF Typed, TypeOK
  <1> DEFINE q == Put(n, x, m)
  <1>2. /\ \A c \in Dirs : EndLane(c) \in Lanes /\ EndLane(c)[2] = c /\ EndLane(c)' = EndLane(c)
        /\ \A c \in Dirs : FarLane(c)' = FarLane(c)
        /\ \A k \in Hops, c \in Dirs : Out(k, c) # x
    <2>1. /\ \A c \in Dirs : EndLane(c) \in Lanes
          /\ \A k \in Hops, c \in Dirs : Out(k, c) # x
      BY <1>0, <1>a, LanesOfHops
    <2>2. \A c \in Dirs : EndLane(c)[2] = c
      BY DEF EndLane
    <2>3. \A c \in Dirs : EndLane(c)' = EndLane(c) /\ FarLane(c)' = FarLane(c)
      BY <1>1 DEF EndLane, EndLink, FarLane, FarLink
    <2>4. QED
      BY <2>1, <2>2, <2>3
  <1>3. /\ m \in Nat /\ sent[d] \in Seq(Nat) /\ Len(sent'[d]) = m
        /\ \A c \in Dirs : /\ Len(sent[c]) \in Nat
                           /\ sent'[c] = IF c = d THEN Append(sent[d], m) ELSE sent[c]
    <2>1. m \in Nat /\ sent[d] \in Seq(Nat) /\ \A c \in Dirs : Len(sent[c]) \in Nat
      BY DEF Typed, TypeOK, Messages
    <2>2. \A c \in Dirs : sent'[c] = IF c = d THEN Append(sent[d], m) ELSE sent[c]
      BY <1>b DEF Send, Typed, TypeOK
    <2>3. Len(Append(sent[d], m)) = m
      BY <1>b, <2>1
    <2>4. QED
      BY <2>1, <2>2, <2>3, Zenon
  <1>4. \/ deaf[x] /\ UNCHANGED flight
        \/ ~deaf[x] /\ Push(x, m)
    <2>1. x = <<EndLink(d), d>> /\ Len(sent'[d]) = m
      BY <1>3, <1>a DEF EndLane
    <2>2. IF deaf[x] THEN UNCHANGED flight ELSE Push(x, Len(sent'[d]))
      BY <2>1 DEF Send
    <2>3. QED
      BY <2>1, <2>2 DEF Push
  <1> HIDE DEF q
  <1>5. \A c \in Dirs : Len(sent[c]) <= Len(sent'[c])
    <2> SUFFICES ASSUME NEW c \in Dirs PROVE Len(sent[c]) <= Len(sent'[c])
      OBVIOUS
    <2>1. CASE c = d
      BY <1>3, <1>b, <2>1
    <2>2. CASE c # d
      BY <1>3, <2>2
    <2>3. QED
      BY <2>1, <2>2
  <1>6. Counted'
    <2> SUFFICES ASSUME NEW c \in Dirs, NEW i \in 1..Len(sent'[c]) PROVE sent'[c][i] = i
      BY DEF Counted
    <2>1. CASE c # d
      BY <1>3, <2>1 DEF InOrder, Counted
    <2>2. CASE c = d
      <3>1. i \in 1..Len(sent[d]) \/ i = m
        BY <1>3, <1>b, <2>2
      <3>2. /\ \A j \in 1..Len(sent[d]) : Append(sent[d], m)[j] = sent[d][j]
            /\ Append(sent[d], m)[m] = m
        BY <1>3, <1>b
      <3>3. sent'[d] = Append(sent[d], m)
        BY <1>3
      <3>4. QED
        BY <2>2, <3>1, <3>2, <3>3, Zenon DEF InOrder, Counted
    <2>3. QED
      BY <2>1, <2>2
  <1>7. ASSUME NEW k \in [Lanes -> Nat], \A z \in Lanes : k[z] <= Len(sent'[z[2]])
        PROVE  Known(k)'
    <2>1. \A j \in Hops, c \in Dirs : buf[j][c] # <<>> => Head(buf[j][c]) <= Len(sent'[c])
      <3> SUFFICES ASSUME NEW j \in Hops, NEW c \in Dirs, buf[j][c] # <<>>
                   PROVE  Head(buf[j][c]) <= Len(sent'[c])
        OBVIOUS
      <3>1. Head(buf[j][c]) \in Nat
        <4>1. buf[j][c] \in Seq(Nat)
          BY DEF Typed, TypeOK, Routed, Messages
        <4>2. QED
          BY <4>1
      <3>2. Head(buf[j][c]) <= Len(sent[c])
        BY DEF InOrder, Known
      <3>3. Len(sent[c]) \in Nat /\ Len(sent'[c]) \in Nat
        BY <1>3
      <3>4. QED
        BY <1>5, <3>1, <3>2, <3>3
    <2>2. QED
      BY <1>1, <1>7, <2>1 DEF Known
  <1>8. \A z \in Lanes : n[z] <= Len(sent'[z[2]])
    <2> SUFFICES ASSUME NEW z \in Lanes PROVE n[z] <= Len(sent'[z[2]])
      OBVIOUS
    <2>1. z[2] \in Dirs /\ n[z] \in Nat
      BY DEF Lanes
    <2>2. n[z] <= Len(sent[z[2]])
      BY DEF InOrder, Known
    <2>3. Len(sent[z[2]]) \in Nat /\ Len(sent'[z[2]]) \in Nat
      BY <1>3, <2>1
    <2>4. QED
      BY <1>5, <2>1, <2>2, <2>3
  <1>9. CASE deaf[x] /\ UNCHANGED flight
    <2>1. Entered(n)'
      BY <1>1, <1>2, <1>3, <1>9, <1>a DEF InOrder, Entered
    <2>2. Ordered(n)' /\ Left(n)' /\ Relayed(n)'
      BY <1>1, <1>2, <1>9 DEF InOrder, Ordered, Left, Relayed, NoGap
    <2>3. QED
      BY <1>6, <1>7, <1>8, <2>1, <2>2 DEF InOrder
  <1>10. CASE ~deaf[x] /\ Push(x, m)
    <2>1. x \in Lanes /\ m = n[x] + 1 /\ x[2] = d
      BY <1>2, <1>10, <1>a, <1>b DEF InOrder, Entered
    <2>2. /\ q \in [Lanes -> Nat] /\ Ordered(q)' /\ Left(q)'
          /\ \A z \in Lanes : q[z] = IF z = x THEN m ELSE n[z]
          /\ \A k \in Hops, c \in Dirs :
                 Out(k, c) # x /\ buf'[k][c] = buf[k][c] /\ pump'[k][c] = pump[k][c]
                     => NoGap(q, k, c)'
      BY <1>1, <1>3, <1>10, <2>1, PuttingStep DEF q
    <2>3. Relayed(q)'
      BY <1>1, <1>2, <2>2 DEF Relayed
    <2>4. Entered(q)'
      BY <1>1, <1>2, <1>3, <1>a, <2>1, <2>2 DEF InOrder, Entered
    <2>5. Known(q)'
      <3>1. \A z \in Lanes : q[z] <= Len(sent'[z[2]])
        <4>1. m <= Len(sent'[d])
          BY <1>3
        <4>2. QED
          BY <1>8, <2>1, <2>2, <4>1
      <3>2. QED
        BY <1>7, <2>2, <3>1
    <2>6. QED
      BY <1>6, <2>2, <2>3, <2>4, <2>5 DEF InOrder
  <1>11. QED
    BY <1>4, <1>9, <1>10

\* The service, or the application, receives the message after the last one it has.
LEMMA ReceiveStep ==
    ASSUME Typed, Routed, NEW n \in [Lanes -> Nat], InOrder(n), NEW d \in Dirs, Receive(d)
    PROVE  /\ InOrder(n)'
           /\ Len(got[d]) < Len(sent[d])
           /\ got' = [got EXCEPT ![d] = Append(@, sent[d][Len(@) + 1])]
  <1>1. PICK x \in Lanes : x = FarLane(d) /\ \A h \in Hops, c \in Dirs : In(h, c) # x
    <2>1. 1 \in Hops
      BY DEF Routed, Hops
    <2>2. QED
      BY <2>1, LanesOfHops
  <1>2. /\ Hops' = Hops /\ \A k, c : In(k, c)' = In(k, c) /\ Out(k, c)' = Out(k, c)
        /\ \A k, c : Frames(k, c)' = Frames(k, c)
        /\ UNCHANGED <<path, deaf, pump, buf, gone, sent>>
        /\ \A c \in Dirs : EndLane(c)' = EndLane(c) /\ FarLane(c)' = FarLane(c)
    BY DEF Hops, In, Out, Receive, pumpVars, Frames, EndLane, EndLink, FarLane, FarLink
  <1>3. /\ flight[x] # <<>> /\ ~deaf[x] /\ x[2] = d
        /\ Pop(x) /\ got' = [got EXCEPT ![d] = Append(@, Head(flight[x]))]
    BY <1>1 DEF Receive, FarLane
  <1>4. /\ flight[x] \in Seq(Nat) /\ n[x] \in Nat /\ Consecutive(flight[x], n[x])
        /\ got[d] \in Seq(Nat) /\ Len(got[d]) \in Nat /\ Len(sent[d]) \in Nat
        /\ n[x] = Len(got[d]) + Len(flight[x])
        /\ n[x] <= Len(sent[d])
    <2>1. /\ flight[x] \in Seq(Nat) /\ n[x] \in Nat
          /\ got[d] \in Seq(Nat) /\ Len(got[d]) \in Nat /\ Len(sent[d]) \in Nat
      BY DEF Typed, TypeOK, Messages
    <2>2. Consecutive(flight[x], n[x])
      BY DEF InOrder, Ordered
    <2>3. n[x] = Len(got[d]) + Len(flight[x])
      BY <1>1, <1>3 DEF InOrder, Left
    <2>4. n[x] <= Len(sent[d])
      BY <1>3 DEF InOrder, Known
    <2>5. QED
      BY <2>1, <2>2, <2>3, <2>4
  <1>5. /\ Consecutive(Tail(flight[x]), n[x]) /\ Len(flight[x]) = Len(Tail(flight[x])) + 1
        /\ Head(flight[x]) \in Nat /\ Head(flight[x]) + Len(flight[x]) = n[x] + 1
        /\ Len(Tail(flight[x])) \in Nat
    <2>1. /\ Consecutive(Tail(flight[x]), n[x]) /\ Len(flight[x]) = Len(Tail(flight[x])) + 1
          /\ Head(flight[x]) \in Nat /\ Head(flight[x]) + Len(flight[x]) = n[x] + 1
          /\ Tail(flight[x]) \in Seq(Nat)
      BY <1>3, <1>4, TakenConsecutive
    <2>2. Len(Tail(flight[x])) \in Nat
      BY <2>1
    <2>3. QED
      BY <2>1, <2>2
  <1>6. Len(got[d]) < Len(sent[d]) /\ Head(flight[x]) = Len(got[d]) + 1
    <2> DEFINE l == Len(Tail(flight[x]))
               g == Len(got[d])
               m == Head(flight[x])
               k == Len(sent[d])
    <2>1. /\ l \in Nat /\ g \in Nat /\ m \in Nat /\ k \in Nat /\ n[x] \in Nat
          /\ m + (l + 1) = n[x] + 1 /\ n[x] = g + (l + 1) /\ n[x] <= k
      BY <1>4, <1>5
    <2> HIDE DEF l, g, m, k
    <2>2. g < k /\ m = g + 1
      BY <2>1
    <2>3. QED
      BY <2>2 DEF l, g, m, k
  <1>7. sent[d][Len(got[d]) + 1] = Len(got[d]) + 1
    <2>1. Len(got[d]) + 1 \in 1..Len(sent[d])
      BY <1>4, <1>6
    <2>2. QED
      BY <2>1 DEF InOrder, Counted
  <1>8. \A z \in Lanes : flight'[z] = IF z = x THEN Tail(flight[x]) ELSE flight[z]
    BY <1>3 DEF Pop, Typed, TypeOK
  <1>9. Ordered(n)'
    BY <1>5, <1>8 DEF InOrder, Ordered
  <1>10. Counted' /\ Entered(n)' /\ Known(n)'
    BY <1>2 DEF InOrder, Counted, Entered, Known
  <1>11. Relayed(n)'
    <2> SUFFICES ASSUME NEW h \in Hops, NEW c \in Dirs PROVE NoGap(n, h, c)'
      BY <1>2 DEF Relayed
    <2>1. NoGap(n, h, c)
      BY DEF InOrder, Relayed
    <2>2. flight'[In(h, c)] = flight[In(h, c)]
      BY <1>1, <1>8, LanesOfHops
    <2>3. QED
      BY <1>2, <2>1, <2>2 DEF NoGap
  <1>12. Left(n)'
    <2> SUFFICES ASSUME NEW c \in Dirs, ~deaf[FarLane(c)]
                 PROVE  n[FarLane(c)] = Len(got'[c]) + Len(flight'[FarLane(c)])
      BY <1>2 DEF Left
    <2>1. CASE c = d
      <3>1. got'[d] = Append(got[d], Head(flight[x])) /\ flight'[x] = Tail(flight[x])
        BY <1>3, <1>8 DEF Typed, TypeOK
      <3>2. Len(Append(got[d], Head(flight[x]))) = Len(got[d]) + 1
        BY <1>4, <1>5
      <3>3. \A g, l \in Nat : g + (l + 1) = (g + 1) + l
        OBVIOUS
      <3>4. n[x] = Len(got[d]) + (Len(Tail(flight[x])) + 1)
        BY <1>4, <1>5
      <3>5. n[x] = (Len(got[d]) + 1) + Len(Tail(flight[x]))
        BY <1>4, <1>5, <3>3, <3>4, Zenon
      <3>6. QED
        BY <1>1, <2>1, <3>1, <3>2, <3>5
    <2>2. CASE c # d
      <3>1. FarLane(c) # x /\ FarLane(c) \in Lanes
        <4>1. 1 \in Hops
          BY DEF Routed, Hops
        <4>2. QED
          BY <1>1, <2>2, <4>1, LanesOfHops DEF FarLane
      <3>2. flight'[FarLane(c)] = flight[FarLane(c)] /\ got'[c] = got[c]
        BY <1>3, <1>8, <2>2, <3>1 DEF Typed, TypeOK
      <3>3. QED
        BY <3>2 DEF InOrder, Left
    <2>3. QED
      BY <2>1, <2>2
  <1>13. got' = [got EXCEPT ![d] = Append(@, sent[d][Len(@) + 1])]
    BY <1>3, <1>6, <1>7
  <1>14. QED
    BY <1>6, <1>9, <1>10, <1>11, <1>12, <1>13 DEF InOrder

\* Messages are lost where something ends, fails or returns.
LEMMA LossyAction ==
    ASSUME Typed, Routed,
           \/ \E d \in Dirs : CloseWrite(d) \/ Close(d)
           \/ \E l \in Links : StreamBreaks(l)
           \/ \E h \in Hops : HandshakeFails(h) \/ HopReturns(h)
           \/ \E h \in Hops, d \in Dirs : ReadEnds(h, d) \/ WriteFails(h, d)
           \/ UNCHANGED vars
    PROVE  Losing
  <1>1. ASSUME NEW E, NEW D, NEW R, End(E, D, R),
               UNCHANGED <<path, pump, buf, gone, sent, got>>
        PROVE  Losing
    BY <1>1, EndedLanes DEF Losing, Typed
  <1>2. ASSUME NEW d \in Dirs, CloseWrite(d) \/ Close(d) PROVE Losing
    BY <1>1, <1>2 DEF CloseWrite, Close, pumpVars
  <1>3. ASSUME NEW l \in Links, StreamBreaks(l) PROVE Losing
    BY <1>1, <1>3 DEF StreamBreaks, pumpVars
  <1>4. ASSUME NEW h \in Hops, HopReturns(h) PROVE Losing
    <2>1. /\ UNCHANGED <<path, pump, sent, got>> /\ gone' = gone \cup {h}
          /\ \A k \in Hops, c \in Dirs : buf'[k][c] = IF k = h THEN <<>> ELSE buf[k][c]
          /\ \E E, D, R : End(E, D, R)
      BY <1>4, ReturnTyped
    <2>2. /\ \A x \in Lanes : deaf[x] => deaf'[x]
          /\ \A x \in Lanes : flight'[x] = flight[x] \/ (flight'[x] = <<>> /\ deaf'[x])
      BY <2>1, EndedLanes DEF Typed
    <2>3. QED
      BY <2>1, <2>2 DEF Losing
  <1>5. ASSUME NEW h \in Hops, HandshakeFails(h) PROVE Losing
    <2>1. /\ pump' = [pump EXCEPT ![h] = [d \in Dirs |-> "done"]] /\ h \in 1..3
          /\ UNCHANGED <<path, flight, deaf, buf, gone, sent, got>>
          /\ pump[h]["up"] = "wait"
      BY <1>5 DEF HandshakeFails, Handshaking, laneVars, Routed
    <2>2. \A d \in Dirs : pump[h][d] = "wait" /\ buf[h][d] = <<>>
      BY <2>1 DEF Typed, TypeOK, Quiet
    <2>3. \A k \in Hops, c \in Dirs : pump'[k][c] = IF k = h THEN "done" ELSE pump[k][c]
      BY <2>1 DEF Typed, TypeOK, Routed
    <2>4. QED
      BY <2>1, <2>2, <2>3 DEF Losing
  <1>6. ASSUME NEW h \in Hops, NEW d \in Dirs, ReadEnds(h, d) \/ WriteFails(h, d) PROVE Losing
    <2>1. /\ UNCHANGED <<path, flight, deaf, gone, sent, got>>
          /\ \E p \in {"run", "done"} :
                 SetPump(h, d, p, <<>>) /\ (p = "done" \/ deaf[Out(h, d)])
      BY <1>6 DEF ReadEnds, WriteFails, AfterError, laneVars
    <2>2. PICK p \in {"run", "done"} :
              SetPump(h, d, p, <<>>) /\ (p = "done" \/ deaf[Out(h, d)])
      BY <2>1
    <2>3. \A k \in Hops, c \in Dirs :
              /\ pump'[k][c] = IF k = h /\ c = d THEN p ELSE pump[k][c]
              /\ buf'[k][c] = IF k = h /\ c = d THEN <<>> ELSE buf[k][c]
      BY <2>2 DEF SetPump, Typed, TypeOK, Routed
    <2>4. QED
      BY <2>1, <2>2, <2>3 DEF Losing
  <1>7. CASE UNCHANGED vars
    BY <1>7 DEF Losing, vars, laneVars, pumpVars
  <1>8. QED
    BY <1>2, <1>3, <1>4, <1>5, <1>6, <1>7

\* Every step keeps the order, and is a step of Pipe or none that it shows.
LEMMA OrderStep ==
    ASSUME Typed, NEW n \in [Lanes -> Nat], InOrder(n), [Next]_vars
    PROVE  /\ \E k \in [Lanes -> Nat] : InOrder(k)'
           /\ [PipeOfTunnel!Next]_<<sent, got>>
  <1>1. Routed
    BY RoutedPath DEF Typed, TypeOK
  <1>2. ASSUME Losing PROVE InOrder(n)' /\ UNCHANGED <<sent, got>>
    BY <1>1, <1>2, LosingStep DEF Losing
  <1>3. ASSUME NEW d \in Dirs, Send(d)
        PROVE  (\E k \in [Lanes -> Nat] : InOrder(k)') /\ PipeOfTunnel!Send(d)
    BY <1>1, <1>3, SendStep DEF Send, PipeOfTunnel!Send
  <1>4. ASSUME NEW d \in Dirs, Receive(d) PROVE InOrder(n)' /\ PipeOfTunnel!Receive(d)
    BY <1>1, <1>4, ReceiveStep DEF Receive, PipeOfTunnel!Receive
  <1>5. ASSUME NEW h \in Hops, Handshake(h) PROVE InOrder(n)' /\ UNCHANGED <<sent, got>>
    <2>1. /\ UNCHANGED <<path, deaf, buf, gone, sent, got>> /\ flight[In(h, "up")] # <<>>
          /\ Pop(In(h, "up")) /\ pump' = [pump EXCEPT ![h] = [d \in Dirs |-> "run"]]
          /\ pump[h]["up"] = "wait" /\ "up" \in Dirs /\ h \in 1..3
      BY <1>1, <1>5 DEF Handshake, Handshaking, Dirs, Routed
    <2>2. \A c \in Dirs : pump[h][c] = "wait" /\ buf[h][c] = <<>>
      BY <2>1 DEF Typed, TypeOK, Quiet
    <2>3. \A k \in Hops, c \in Dirs : pump'[k][c] = IF k = h THEN "run" ELSE pump[k][c]
      BY <1>1, <2>1 DEF Typed, TypeOK, Routed
    <2>4. Frames(h, "up") = 1 /\ Frames(h, "up")' = 0
      BY <2>1, <2>3 DEF Frames
    <2>5. \A k \in Hops, c \in Dirs : k # h \/ c # "up" => Frames(k, c)' = Frames(k, c)
      BY <2>3 DEF Frames
    <2>6. QED
      BY <1>1, <2>1, <2>2, <2>3, <2>4, <2>5, TakingStep
  <1>6. ASSUME NEW h \in Hops, NEW d \in Dirs, Read(h, d)
        PROVE  InOrder(n)' /\ UNCHANGED <<sent, got>>
    <2> DEFINE m == Head(flight[In(h, d)])
    <2>1. /\ UNCHANGED <<path, deaf, gone, sent, got>> /\ flight[In(h, d)] # <<>>
          /\ Pop(In(h, d)) /\ pump[h][d] = "run" /\ buf[h][d] = <<>>
          /\ SetPump(h, d, "done", <<>>) \/ SetPump(h, d, "run", <<m>>)
      BY <1>6 DEF Read
    <2> HIDE DEF m
    <2>2. \A k \in Hops, c \in Dirs :
              k # h \/ c # d => pump'[k][c] = pump[k][c] /\ buf'[k][c] = buf[k][c]
      BY <1>1, <2>1 DEF SetPump, Typed, TypeOK, Routed
    <2>3. \/ pump'[h][d] = "done" /\ buf'[h][d] = <<>>
          \/ pump'[h][d] = "run" /\ buf'[h][d] = <<m>>
      BY <1>1, <2>1 DEF SetPump, Typed, TypeOK, Routed
    <2>4. Frames(h, d) = 0 /\ (pump'[h][d] = "run" => Frames(h, d)' = 0)
      BY <2>1 DEF Frames
    <2>5. \A k \in Hops, c \in Dirs : k # h \/ c # d => Frames(k, c)' = Frames(k, c)
      BY <2>2 DEF Frames
    <2>6. QED
      BY <1>1, <2>1, <2>2, <2>3, <2>4, <2>5, TakingStep DEF m
  <1>7. ASSUME NEW h \in Hops, NEW d \in Dirs, Write(h, d)
        PROVE  (\E k \in [Lanes -> Nat] : InOrder(k)') /\ UNCHANGED <<sent, got>>
    BY <1>1, <1>7, WriteStep DEF Write
  <1>8. ASSUME NEW d \in Dirs, CloseWrite(d) \/ Close(d) PROVE Losing
    BY <1>1, <1>8, LossyAction
  <1>9. ASSUME NEW l \in Links, StreamBreaks(l) PROVE Losing
    BY <1>1, <1>9, LossyAction
  <1>10. ASSUME NEW h \in Hops, HandshakeFails(h) \/ HopReturns(h) PROVE Losing
    BY <1>1, <1>10, LossyAction
  <1>11. ASSUME NEW h \in Hops, NEW d \in Dirs, ReadEnds(h, d) \/ WriteFails(h, d) PROVE Losing
    BY <1>1, <1>11, LossyAction
  <1>12. CASE UNCHANGED vars
    BY <1>1, <1>2, <1>12, LossyAction
  <1>13. ASSUME NEW h \in Hops, Hop(h) \/ Stopped(h)
         PROVE  InOrder(n)' /\ UNCHANGED <<sent, got>>
    BY <1>2, <1>5, <1>10, <1>13 DEF Hop, HopEnds, ServerEnds, Stopped
  <1>14. ASSUME NEW h \in Hops, NEW d \in Dirs, Pump(h, d)
         PROVE  (\E k \in [Lanes -> Nat] : InOrder(k)') /\ UNCHANGED <<sent, got>>
    BY <1>2, <1>6, <1>7, <1>11, <1>14 DEF Pump
  <1>15. QED
    BY <1>2, <1>3, <1>4, <1>8, <1>9, <1>12, <1>13, <1>14 DEF Next, PipeOfTunnel!Next

\* So the order always holds.
LEMMA Invariance == Spec => []IInv
  <1>1. IInv /\ [Next]_vars => IInv'
    BY TypedStep, OrderStep DEF IInv
  <1>2. QED
    BY <1>1, IInvInit, PTL DEF Spec

\* In each direction the tunnel is a pipe, whatever breaks, closes or is stopped, and in
\* any order: nothing is received that was not sent, twice, out of order or behind a gap
\* (conn.go:60-86), for any number of messages.
THEOREM Refinement == Spec => ImplementsPipe
  <1>1. Init => PipeOfTunnel!Init
    BY DEF Init, PipeOfTunnel!Init
  <1>2. IInv /\ [Next]_vars => [PipeOfTunnel!Next]_<<sent, got>>
    BY OrderStep DEF IInv
  <1>3. QED
    BY <1>1, <1>2, Invariance, PTL DEF Spec, ImplementsPipe, PipeOfTunnel!Spec

-----------------------------------------------------------------------------
(* Why pumps end.                                                          *)

\* What a pump reads is a message, unless nobody reads what it writes.
LEMMA ReadsMessages ==
    ASSUME Typed, Routed, NEW n \in [Lanes -> Nat], InOrder(n), NEW h \in Hops, NEW d \in Dirs,
           pump[h][d] = "run", buf[h][d] = <<>>, h \notin gone,
           flight[In(h, d)] # <<>>, ~deaf[Out(h, d)]
    PROVE  Head(flight[In(h, d)]) # Empty
  <1> DEFINE m == Head(flight[In(h, d)])
             l == Len(flight[In(h, d)])
             i == n[In(h, d)]
             o == n[Out(h, d)]
  <1>1. /\ flight[In(h, d)] \in Seq(Nat) /\ i \in Nat /\ o \in Nat /\ l \in Nat
        /\ Consecutive(flight[In(h, d)], i)
    BY LanesOfHops DEF Typed, TypeOK, Messages, InOrder, Ordered
  <1>2. m \in Nat /\ m + l = i + 1
    BY <1>1, TakenConsecutive
  <1>3. i + 0 = o + l + 0
    <2>1. NoGap(n, h, d) /\ Frames(h, d) = 0 /\ Len(buf[h][d]) = 0
      BY DEF InOrder, Relayed, Frames
    <2>2. QED
      BY <2>1 DEF NoGap
  <1> HIDE DEF m, l, i, o
  <1>4. m # 0
    BY <1>1, <1>2, <1>3
  <1>5. QED
    BY <1>4 DEF m, Empty

\* A pump ends because one of its connections has ended, and never because of a frame
\* without data (conn.go:44): the one that the server sends first (server.go:347) is
\* taken by handshake (importer.go:333) before the pump starts.
THEOREM PumpReasons == Spec => PumpsEndForAReason
  <1> DEFINE reason(h, d) == pump[h][d] = "run" /\ pump'[h][d] = "done"
                                 => eof[In(h, d)] \/ deaf[Out(h, d)]
  <1>1. ASSUME IInv, Next, NEW h \in Hops, NEW d \in Dirs PROVE reason(h, d)
    <2>1. Typed /\ Routed /\ \A k \in Hops : k \in 1..3
      BY <1>1, RoutedPath DEF IInv, Typed, TypeOK, Routed
    <2>2. PICK n \in [Lanes -> Nat] : InOrder(n)
      BY <1>1 DEF IInv
    <2>3. ASSUME NEW p, NEW m, NEW k \in Hops, NEW c \in Dirs, SetPump(k, c, p, m), k # h \/ c # d
          PROVE  pump'[h][d] = pump[h][d]
      BY <2>1, <2>3 DEF SetPump, Typed, TypeOK
    <2>4. CASE UNCHANGED pump
      BY <2>4
    <2>5. ASSUME NEW k \in Hops, Handshake(k) \/ HandshakeFails(k) PROVE reason(h, d)
      <3>1. /\ pump[k]["up"] = "wait"
            /\ pump' = [pump EXCEPT ![k] = [c \in Dirs |-> "run"]]
               \/ pump' = [pump EXCEPT ![k] = [c \in Dirs |-> "done"]]
        BY <2>5 DEF Handshake, HandshakeFails, Handshaking
      <3>2. pump[k][d] = "wait"
        BY <2>1, <3>1 DEF Typed, Quiet
      <3>3. k # h => pump'[h][d] = pump[h][d]
        BY <2>1, <3>1 DEF Typed, TypeOK
      <3>4. QED
        BY <3>2, <3>3
    <2>6. ASSUME NEW k \in Hops, NEW c \in Dirs, Read(k, c) PROVE reason(h, d)
      <3>1. CASE k # h \/ c # d
        BY <2>3, <2>6, <3>1 DEF Read
      <3>2. CASE k = h /\ c = d
        <4> SUFFICES ASSUME pump'[h][d] = "done", ~deaf[Out(h, d)] PROVE FALSE
          OBVIOUS
        <4>1. Head(flight[In(h, d)]) # Empty
          BY <2>1, <2>2, <2>6, <3>2, ReadsMessages DEF Read
        <4>2. pump' = [pump EXCEPT ![h][d] = "run"]
          BY <2>6, <3>2, <4>1 DEF Read, SetPump
        <4>3. QED
          BY <2>1, <4>2 DEF Typed, TypeOK
      <3>3. QED
        BY <3>1, <3>2
    <2>7. ASSUME NEW k \in Hops, NEW c \in Dirs, ReadEnds(k, c) \/ WriteFails(k, c)
          PROVE  reason(h, d)
      BY <2>3, <2>7 DEF ReadEnds, WriteFails
    <2>8. ASSUME NEW k \in Hops, NEW c \in Dirs, Write(k, c) PROVE reason(h, d)
      <3>1. pump' = [pump EXCEPT ![k][c] = "run"]
        BY <2>8 DEF Write, SetPump
      <3>2. pump'[h][d] = "done" => pump[h][d] = "done"
        BY <2>1, <3>1 DEF Typed, TypeOK
      <3>3. QED
        BY <3>2
    <2>9. ASSUME NEW k \in Hops, HopReturns(k) PROVE UNCHANGED pump
      BY <2>9 DEF HopReturns
    <2>10. QED
      BY <1>1, <2>4, <2>5, <2>6, <2>7, <2>8, <2>9
      DEF Next, Send, Receive, CloseWrite, Close, StreamBreaks, Hop, HopEnds, ServerEnds,
          Stopped, Pump, pumpVars
  <1>2. IInv /\ [Next]_vars => [\A h \in Hops, d \in Dirs : reason(h, d)]_vars
    BY <1>1
  <1>3. QED
    BY <1>2, Invariance, PTL DEF Spec, PumpsEndForAReason
=============================================================================
