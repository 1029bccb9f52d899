-------------------------- MODULE Downlink_proofs --------------------------
(***************************************************************************)
(* The downlink, for every capacity of the buffer and of the channels,     *)
(* every batch size, deadline and number of readings: where its packets    *)
(* are, in which order they reach the ground, and that it implements       *)
(* TelemetryLink.                                                          *)
(***************************************************************************)
EXTENDS Downlink, SensorBuffer_proofs

-----------------------------------------------------------------------------
(* The inductive invariant.                                                *)

\* The records the tasks keep, and their channels.
LoopType ==
    /\ loop \in [pc : {"check", "fill", "visibility", "drain", "send", "sleep",
                       "done", "shut"},
                 seq : Nat, popped : 0 .. MaxBatch, opened : BOOLEAN,
                 open_time : Nat, wake : Nat, packet : Packet \union {NoPacket}]
    /\ LoopAt("send") => loop.packet \in Packet

StateType == state \in [packets_sent : Nat, alerts_sent : Nat,
                        degraded_mode : BOOLEAN, gcs_connected : BOOLEAN]

TcpType ==
    /\ tcp \in [pc : {"bind", "accept", "discard", "stream", "write", "ended",
                      "aborted"},
                give_up : Nat, packet : Packet \union {NoPacket}]
    /\ TcpAt("write") => tcp.packet \in Packet

ChannelType == tcp_queue \in Seq(Packet) /\ Len(tcp_queue) <= TcpCapacity

AlertType ==
    /\ udp_queue \in Seq(Message) /\ Len(udp_queue) <= UdpCapacity
    /\ heartbeat \in [pc : {"tick", "send", "ended"}, next : Nat]

Records ==
    /\ now \in Nat /\ cycle \in [Sensors -> Nat] /\ wire \in Seq(Packet)
    /\ LoopType /\ StateType /\ TcpType /\ ChannelType /\ AlertType

\* A packet on its way is on the wire, in the server's hand, in the channel or
\* still the loop's: these four, one after the other, are the stream.
Hand == IF TcpAt("write") THEN <<tcp.packet>> ELSE <<>>
Built == IF LoopAt("send") THEN <<loop.packet>> ELSE <<>>

\* p was built before q, from an older reading if they are of one sensor.
Precedes(p, q) == /\ p.seq < q.seq
                  /\ p.sensor = q.sensor => p.cycle < q.cycle

InOrder(x) == \A i, j \in 1 .. Len(x) : i < j => Precedes(x[i], x[j])
Ahead(x, y) == \A i \in 1 .. Len(x), j \in 1 .. Len(y) : Precedes(x[i], y[j])

StreamInOrder ==
    /\ InOrder(wire) /\ InOrder(tcp_queue)
    /\ Ahead(wire, Hand) /\ Ahead(wire, tcp_queue) /\ Ahead(wire, Built)
    /\ Ahead(Hand, tcp_queue) /\ Ahead(Hand, Built)
    /\ Ahead(tcp_queue, Built)

OnTheWay == Seqs(wire) \union Seqs(Hand) \union Seqs(tcp_queue) \union Seqs(Built)

\* Every packet built is on its way or given up, not both.
OneFate == /\ OnTheWay \union lost = 1 .. loop.seq
           /\ OnTheWay \intersect lost = {}

SentCount == state.packets_sent + Len(Built) = loop.seq

\* The readings queued are of cycles their sensors have begun, ...
QueueInv == /\ Ordered(items)
            /\ \A y \in ToSet(items) :
                 y.sensor \in Sensors /\ y.cycle <= cycle[y.sensor]

\* ... and the packets on their way are from older ones.  (c: the cycles, Q: what
\* is queued.)
OldFor(p, c, Q) == /\ p.sensor \in Sensors /\ p.cycle <= c[p.sensor]
                   /\ \A y \in Q : y.sensor = p.sensor => p.cycle < y.cycle

Older(x, c, Q) == \A i \in 1 .. Len(x) : OldFor(x[i], c, Q)

OlderThanQueued == \A x \in {wire, Hand, tcp_queue, Built} :
                      Older(x, cycle, ToSet(items))

\* The flag is up from the one connection on, and nothing is written before it.
Connection ==
    /\ tcp.pc \in {"bind", "accept", "discard"}
         => ~ state.gcs_connected /\ wire = <<>>
    /\ tcp.pc \in {"stream", "write"} => state.gcs_connected
    /\ TcpAt("ended") /\ state.gcs_connected => LoopAt("done") \/ LoopAt("shut")

Inv == /\ BufferTypeOK /\ Records /\ QueueInv /\ StreamInOrder /\ OneFate
       /\ SentCount /\ OlderThanQueued /\ Connection

-----------------------------------------------------------------------------
(* The order and the contents of a concatenation.                          *)

\* An element of x \o y is one of x or one of y.
LEMMA ConcatElements ==
    ASSUME NEW S, NEW x \in Seq(S), NEW y \in Seq(S)
    PROVE  /\ x \o y \in Seq(S)
           /\ Len(x) \in Nat /\ Len(y) \in Nat
           /\ \A i \in 1 .. Len(x) : i \in 1 .. Len(x \o y) /\ (x \o y)[i] = x[i]
           /\ \A i \in 1 .. Len(y) : /\ Len(x) + i \in 1 .. Len(x \o y)
                                     /\ (x \o y)[Len(x) + i] = y[i]
           /\ \A k \in 1 .. Len(x \o y) :
                \/ k \in 1 .. Len(x) /\ (x \o y)[k] = x[k]
                \/ /\ k > Len(x) /\ k - Len(x) \in 1 .. Len(y)
                   /\ (x \o y)[k] = y[k - Len(x)]
<1>1. /\ x \o y \in Seq(S) /\ Len(x \o y) = Len(x) + Len(y)
      /\ \A i \in 1 .. Len(x) + Len(y) :
           (x \o y)[i] = IF i <= Len(x) THEN x[i] ELSE y[i - Len(x)]
    BY ConcatProperties
<1>2. Len(x) \in Nat /\ Len(y) \in Nat
    OBVIOUS
<1> QED BY <1>1, <1>2

LEMMA OrderOfConcat ==
    ASSUME NEW S, NEW x \in Seq(S), NEW y \in Seq(S)
    PROVE  InOrder(x \o y) <=> InOrder(x) /\ InOrder(y) /\ Ahead(x, y)
<1> DEFINE z == x \o y
<1>1. /\ Len(x) \in Nat /\ Len(y) \in Nat
      /\ \A i \in 1 .. Len(x) : i \in 1 .. Len(z) /\ z[i] = x[i]
      /\ \A i \in 1 .. Len(y) : Len(x) + i \in 1 .. Len(z) /\ z[Len(x) + i] = y[i]
      /\ \A k \in 1 .. Len(z) :
           \/ k \in 1 .. Len(x) /\ z[k] = x[k]
           \/ k > Len(x) /\ k - Len(x) \in 1 .. Len(y) /\ z[k] = y[k - Len(x)]
    BY ConcatElements
<1> HIDE DEF z
<1>2. ASSUME InOrder(z) PROVE InOrder(x) /\ InOrder(y) /\ Ahead(x, y)
    <2>1. InOrder(x)
        BY <1>1, <1>2 DEF InOrder
    <2>2. InOrder(y)
        <3> SUFFICES ASSUME NEW i \in 1 .. Len(y), NEW j \in 1 .. Len(y), i < j
                     PROVE  Precedes(y[i], y[j])
            BY DEF InOrder
        <3>1. Len(x) + i < Len(x) + j
            BY <1>1
        <3>2. Precedes(z[Len(x) + i], z[Len(x) + j])
            BY <1>1, <1>2, <3>1 DEF InOrder
        <3> QED BY <1>1, <3>2
    <2>3. Ahead(x, y)
        <3> SUFFICES ASSUME NEW i \in 1 .. Len(x), NEW j \in 1 .. Len(y)
                     PROVE  Precedes(x[i], y[j])
            BY DEF Ahead
        <3>1. i < Len(x) + j
            BY <1>1
        <3>2. Precedes(z[i], z[Len(x) + j])
            BY <1>1, <1>2, <3>1 DEF InOrder
        <3> QED BY <1>1, <3>2
    <2> QED BY <2>1, <2>2, <2>3
<1>3. ASSUME InOrder(x), InOrder(y), Ahead(x, y) PROVE InOrder(z)
    <2> SUFFICES ASSUME NEW i \in 1 .. Len(z), NEW j \in 1 .. Len(z), i < j
                 PROVE  Precedes(z[i], z[j])
        BY DEF InOrder
    <2>1. CASE i \in 1 .. Len(x) /\ z[i] = x[i]
        <3>1. CASE j \in 1 .. Len(x) /\ z[j] = x[j]
            BY <1>3, <2>1, <3>1 DEF InOrder
        <3>2. CASE j - Len(x) \in 1 .. Len(y) /\ z[j] = y[j - Len(x)]
            BY <1>3, <2>1, <3>2 DEF Ahead
        <3> QED BY <1>1, <3>1, <3>2
    <2>2. CASE /\ i > Len(x) /\ i - Len(x) \in 1 .. Len(y)
               /\ z[i] = y[i - Len(x)]
        <3>1. /\ j - Len(x) \in 1 .. Len(y) /\ z[j] = y[j - Len(x)]
              /\ i - Len(x) < j - Len(x)
            BY <1>1, <2>2
        <3> QED BY <1>3, <2>2, <3>1 DEF InOrder
    <2> QED BY <1>1, <2>1, <2>2
<1> QED BY <1>2, <1>3 DEF z

LEMMA AheadOfConcat ==
    ASSUME NEW S, NEW x \in Seq(S), NEW y \in Seq(S), NEW u
    PROVE  /\ Ahead(x \o y, u) <=> Ahead(x, u) /\ Ahead(y, u)
           /\ Ahead(u, x \o y) <=> Ahead(u, x) /\ Ahead(u, y)
<1> DEFINE z == x \o y
<1>1. /\ \A i \in 1 .. Len(x) : i \in 1 .. Len(z) /\ z[i] = x[i]
      /\ \A i \in 1 .. Len(y) : Len(x) + i \in 1 .. Len(z) /\ z[Len(x) + i] = y[i]
      /\ \A k \in 1 .. Len(z) :
           \/ k \in 1 .. Len(x) /\ z[k] = x[k]
           \/ k - Len(x) \in 1 .. Len(y) /\ z[k] = y[k - Len(x)]
    BY ConcatElements
<1> HIDE DEF z
<1>2. Ahead(z, u) => Ahead(x, u) /\ Ahead(y, u)
    BY <1>1 DEF Ahead
<1>3. Ahead(x, u) /\ Ahead(y, u) => Ahead(z, u)
    BY <1>1 DEF Ahead
<1>4. Ahead(u, z) => Ahead(u, x) /\ Ahead(u, y)
    BY <1>1 DEF Ahead
<1>5. Ahead(u, x) /\ Ahead(u, y) => Ahead(u, z)
    BY <1>1 DEF Ahead
<1> QED BY <1>2, <1>3, <1>4, <1>5 DEF z

LEMMA ContentsOfConcat ==
    ASSUME NEW S, NEW x \in Seq(S), NEW y \in Seq(S), NEW c, NEW Q
    PROVE  /\ Seqs(x \o y) = Seqs(x) \union Seqs(y)
           /\ Older(x \o y, c, Q) <=> Older(x, c, Q) /\ Older(y, c, Q)
<1> DEFINE z == x \o y
<1>1. /\ \A i \in 1 .. Len(x) : i \in 1 .. Len(z) /\ z[i] = x[i]
      /\ \A i \in 1 .. Len(y) : Len(x) + i \in 1 .. Len(z) /\ z[Len(x) + i] = y[i]
      /\ \A k \in 1 .. Len(z) :
           \/ k \in 1 .. Len(x) /\ z[k] = x[k]
           \/ k - Len(x) \in 1 .. Len(y) /\ z[k] = y[k - Len(x)]
    BY ConcatElements
<1> HIDE DEF z
<1>2. Seqs(z) = Seqs(x) \union Seqs(y)
    <2>1. \A i \in 1 .. Len(x) : x[i].seq \in Seqs(z)
        BY <1>1 DEF Seqs
    <2>2. \A i \in 1 .. Len(y) : y[i].seq \in Seqs(z)
        BY <1>1 DEF Seqs
    <2>3. \A k \in 1 .. Len(z) : z[k].seq \in Seqs(x) \union Seqs(y)
        BY <1>1 DEF Seqs
    <2> QED BY <2>1, <2>2, <2>3 DEF Seqs
<1>3. Older(z, c, Q) => Older(x, c, Q) /\ Older(y, c, Q)
    BY <1>1 DEF Older
<1>4. Older(x, c, Q) /\ Older(y, c, Q) => Older(z, c, Q)
    BY <1>1 DEF Older
<1> QED BY <1>2, <1>3, <1>4 DEF z

\* What can be said of a stream cut in two.
LEMMA Parts ==
    ASSUME NEW x \in Seq(Packet), NEW y \in Seq(Packet)
    PROVE  /\ InOrder(x \o y) <=> InOrder(x) /\ InOrder(y) /\ Ahead(x, y)
           /\ \A u : /\ Ahead(x \o y, u) <=> Ahead(x, u) /\ Ahead(y, u)
                     /\ Ahead(u, x \o y) <=> Ahead(u, x) /\ Ahead(u, y)
           /\ Seqs(x \o y) = Seqs(x) \union Seqs(y)
           /\ \A c, Q : Older(x \o y, c, Q) <=> Older(x, c, Q) /\ Older(y, c, Q)
<1>1. InOrder(x \o y) <=> InOrder(x) /\ InOrder(y) /\ Ahead(x, y)
    BY OrderOfConcat
<1>2. \A u : /\ Ahead(x \o y, u) <=> Ahead(x, u) /\ Ahead(y, u)
             /\ Ahead(u, x \o y) <=> Ahead(u, x) /\ Ahead(u, y)
    BY AheadOfConcat
<1>3. Seqs(x \o y) = Seqs(x) \union Seqs(y)
    BY ContentsOfConcat
<1>4. \A c, Q : Older(x \o y, c, Q) <=> Older(x, c, Q) /\ Older(y, c, Q)
    BY ContentsOfConcat
<1> QED BY <1>1, <1>2, <1>3, <1>4

LEMMA ShortStreams ==
    /\ InOrder(<<>>) /\ Seqs(<<>>) = {}
    /\ \A u : Ahead(<<>>, u) /\ Ahead(u, <<>>)
    /\ \A c, Q : Older(<<>>, c, Q)
    /\ \A p : InOrder(<<p>>) /\ Seqs(<<p>>) = {p.seq}
<1>1. Len(<<>>) = 0 /\ 1 .. 0 = {}
    OBVIOUS
<1>2. \A p : Len(<<p>>) = 1 /\ <<p>>[1] = p /\ 1 .. 1 = {1}
    OBVIOUS
<1>3. \A p : InOrder(<<p>>) /\ Seqs(<<p>>) = {p.seq}
    BY <1>2 DEF InOrder, Seqs
<1>4. InOrder(<<>>) /\ Seqs(<<>>) = {} /\ \A c, Q : Older(<<>>, c, Q)
    BY <1>1 DEF InOrder, Seqs, Older
<1>5. \A u : Ahead(<<>>, u) /\ Ahead(u, <<>>)
    BY <1>1 DEF Ahead
<1> QED BY <1>3, <1>4, <1>5

\* A sequence is its head and its tail.
LEMMA HeadAndTail ==
    ASSUME NEW S, NEW x \in Seq(S), x # <<>>
    PROVE  /\ Head(x) \in S /\ Tail(x) \in Seq(S) /\ Len(Tail(x)) = Len(x) - 1
           /\ x = <<Head(x)>> \o Tail(x)
<1>1. /\ Head(x) \in S /\ Tail(x) \in Seq(S) /\ Len(Tail(x)) = Len(x) - 1
      /\ \A i \in 1 .. Len(Tail(x)) : Tail(x)[i] = x[i + 1]
      /\ Len(x) \in Nat \ {0} /\ Head(x) = x[1]
    BY HeadTailProperties, EmptySeq
<1> DEFINE h == <<Head(x)>>
           t == Tail(x)
<1>2. h \in Seq(S) /\ Len(h) = 1 /\ h[1] = x[1]
    BY <1>1
<1>3. t \in Seq(S) /\ Len(t) = Len(x) - 1
      /\ \A i \in 1 .. Len(t) : t[i] = x[i + 1]
    BY <1>1
<1> HIDE DEF h, t
<1>4. /\ h \o t \in Seq(S) /\ Len(h \o t) = Len(h) + Len(t)
      /\ \A i \in 1 .. Len(h) + Len(t) :
           (h \o t)[i] = IF i <= Len(h) THEN h[i] ELSE t[i - Len(h)]
    <2>1. h \in Seq(S) /\ t \in Seq(S)
        BY <1>2, <1>3
    <2> QED BY <2>1, ConcatProperties
<1>5. Len(h \o t) = Len(x)
    BY <1>1, <1>2, <1>3, <1>4
<1>6. \A i \in 1 .. Len(x) : x[i] = (h \o t)[i]
    BY <1>1, <1>2, <1>3, <1>4
<1>7. h \o t \in Seq(S)
    BY <1>4
<1> DEFINE u == h \o t
<1> HIDE DEF u
<1>8. x = u
    <2>1. u \in Seq(S) /\ Len(x) = Len(u) /\ \A i \in 1 .. Len(x) : x[i] = u[i]
        BY <1>5, <1>6, <1>7 DEF u
    <2> QED BY <2>1, SeqEqual
<1> QED BY <1>1, <1>8 DEF h, t, u

-----------------------------------------------------------------------------
(* The records and the queues keep their types.                            *)

\* The reading a sensor pushes is newer than those of its queued.
LEMMA ReadingFacts ==
    ASSUME BufferTypeOK, Records, QueueInv, NEW s \in Sensors, NEW d \in Nat
    PROVE  LET r == [sensor |-> s, cycle |-> cycle[s] + 1, value |-> "number",
                     drift |-> d]
           IN  r \in SensorReading /\ Newest(items, r)
<1> DEFINE r == [sensor |-> s, cycle |-> cycle[s] + 1, value |-> "number",
                 drift |-> d]
<1>1. cycle[s] \in Nat /\ s \in SensorType
    BY DownlinkAssumption DEF Records
<1>2. r \in SensorReading
    BY <1>1 DEF SensorReading
<1>3. \A i \in 1 .. Len(items) :
        items[i] \in ToSet(items) /\ items[i].cycle \in Nat
    <2>1. items \in Seq(SensorReading)
        BY DEF BufferTypeOK
    <2>2. \A i \in 1 .. Len(items) : items[i] \in SensorReading
        BY <2>1, ElementOfSeq
    <2>3. \A i \in 1 .. Len(items) : items[i] \in ToSet(items)
        BY <2>1, ToSetFacts
    <2> QED BY <2>2, <2>3 DEF SensorReading
<1>4. \A i \in 1 .. Len(items) :
        items[i].sensor = s => items[i].cycle < cycle[s] + 1
    BY <1>1, <1>3 DEF QueueInv
<1> QED BY <1>2, <1>4 DEF Newest

\* A push by a sensor thread leaves the queue as PushFacts says.
LEMMA ProduceFacts ==
    ASSUME BufferTypeOK, Records, QueueInv, NEW s \in Sensors, Produce(s)
    PROVE  /\ BufferTypeOK' /\ Ordered(items')
           /\ cycle' \in [Sensors -> Nat] /\ cycle'[s] = cycle[s] + 1
           /\ \A u \in Sensors \ {s} : cycle'[u] = cycle[u]
           /\ \A y \in ToSet(items') :
                \/ y \in ToSet(items)
                \/ y.sensor = s /\ y.cycle = cycle[s] + 1
<1>1. PICK d \in Nat : Push([sensor |-> s, cycle |-> cycle[s] + 1,
                             value |-> "number", drift |-> d])
    BY DEF Produce
<1> DEFINE r == [sensor |-> s, cycle |-> cycle[s] + 1, value |-> "number",
                 drift |-> d]
<1>2. r \in SensorReading /\ Newest(items, r) /\ Push(r)
    BY <1>1, ReadingFacts
<1>3. r.sensor = s /\ r.cycle = cycle[s] + 1
    OBVIOUS
<1> HIDE DEF r
<1>4. /\ BufferTypeOK' /\ Ordered(items')
      /\ \/ Stored(r)
         \/ \E w \in ToSet(items) : Exchanged(w, r)
         \/ Refused(r)
    BY <1>2, PushFacts DEF QueueInv
<1>5. \A y \in ToSet(items') : y \in ToSet(items) \/ y = r
    BY <1>4 DEF Stored, Exchanged, Refused
<1>6. /\ cycle' = [cycle EXCEPT ![s] = cycle[s] + 1]
      /\ cycle \in [Sensors -> Nat] /\ cycle[s] \in Nat
    BY DEF Produce, Records
<1>7. /\ cycle' \in [Sensors -> Nat] /\ cycle'[s] = cycle[s] + 1
      /\ \A u \in Sensors \ {s} : cycle'[u] = cycle[u]
    BY <1>6
<1> QED BY <1>3, <1>4, <1>5, <1>7

LEMMA UnchangedTypes ==
    /\ LoopType /\ UNCHANGED loop => LoopType'
    /\ StateType /\ UNCHANGED state => StateType'
    /\ TcpType /\ UNCHANGED tcp => TcpType'
    /\ ChannelType /\ UNCHANGED tcp_queue => ChannelType'
    /\ AlertType /\ UNCHANGED <<udp_queue, heartbeat>> => AlertType'
BY DEF LoopType, StateType, TcpType, ChannelType, AlertType, LoopAt, TcpAt

\* The packet built of a reading.
LEMMA BuiltFacts ==
    ASSUME LoopType, StateType, NEW r \in SensorReading
    PROVE  [seq |-> loop.seq + 1, sensor |-> r.sensor, cycle |-> r.cycle,
            status |-> Status(r)] \in Packet
<1>1. loop.seq \in Nat /\ state.degraded_mode \in BOOLEAN
    BY DEF LoopType, StateType
<1>2. Status(r) \in {"OK", "JITTER_WARN", "DEGRADED"}
    BY <1>1 DEF Status
<1>3. r.sensor \in SensorType /\ r.cycle \in Nat \ {0}
    BY DEF SensorReading
<1> QED BY <1>1, <1>2, <1>3 DEF Packet

\* What the loop may do with its record.
LEMMA LoopMoves ==
    ASSUME BufferTypeOK, Records, QueueInv, Loop
    PROVE  LoopType'
<1> USE DEF LoopAt
<1>1. /\ LoopType /\ now \in Nat /\ MaxBatch \in Nat \ {0}
      /\ 0 \in 0 .. MaxBatch /\ NoPacket \in Packet \union {NoPacket}
    BY DownlinkAssumption DEF Records
<1>2. CASE CheckTime
    BY <1>1, <1>2 DEF CheckTime, LoopType
<1>3. CASE CheckFill
    BY <1>1, <1>3 DEF CheckFill, LoopType
<1>4. CASE CheckVisibility
    <2>1. /\ loop.seq \in Nat /\ loop.open_time \in Nat /\ loop.wake \in Nat
          /\ loop.packet \in Packet \union {NoPacket}
        BY <1>1 DEF LoopType
    <2>2. PICK t \in Nat :
            loop' = [loop EXCEPT !.pc = "drain", !.popped = 0, !.opened = TRUE,
                                 !.open_time = t]
        BY <1>1, <1>4, <2>1 DEF CheckVisibility
    <2> QED BY <1>1, <2>2 DEF LoopType
<1>5. CASE PopReading
    <2>1. PICK p \in Packet :
            loop' = [loop EXCEPT !.pc = "send", !.popped = loop.popped + 1,
                                 !.seq = loop.seq + 1, !.packet = p]
        <3>1. Pop
            BY <1>5 DEF PopReading
        <3>2. Head(items) \in SensorReading
            BY <3>1, PopFacts DEF QueueInv
        <3> QED BY <1>5, <3>2, BuiltFacts DEF PopReading, Records
    <2>2. loop.popped + 1 \in 0 .. MaxBatch /\ loop.seq + 1 \in Nat
        BY <1>1, <1>5 DEF PopReading, LoopType
    <2>3. loop' \in [pc : {"send"}, seq : Nat, popped : 0 .. MaxBatch,
                     opened : BOOLEAN, open_time : Nat, wake : Nat,
                     packet : Packet]
        BY <1>1, <2>1, <2>2 DEF LoopType
    <2> QED BY <2>3 DEF LoopType
<1>6. CASE SendPacket
    <2>1. loop' = [loop EXCEPT !.pc = "drain", !.packet = NoPacket]
        BY <1>6 DEF SendPacket
    <2> QED BY <1>1, <2>1 DEF LoopType
<1>7. CASE EndDrain
    <2>1. loop' = [loop EXCEPT !.pc = "sleep", !.popped = 0, !.wake = now + 1]
        BY <1>7 DEF EndDrain
    <2>2. now + 1 \in Nat
        BY <1>1
    <2> QED BY <1>1, <2>1, <2>2 DEF LoopType
<1>8. CASE WakeUp
    BY <1>1, <1>8 DEF WakeUp, LoopType
<1>9. CASE Abort
    BY <1>1, <1>9 DEF Abort, LoopType
<1> QED BY <1>2, <1>3, <1>4, <1>5, <1>6, <1>7, <1>8, <1>9 DEF Loop

\* What each task leaves alone.
LEMMA LoopLeaves ==
    ASSUME Loop
    PROVE  /\ UNCHANGED <<now, cycle, wire>>
           /\ \/ SendPacket \/ Abort \/ UNCHANGED <<tcp_queue, tcp, lost>>
           /\ Abort \/ UNCHANGED tcp
           /\ Abort \/ UNCHANGED heartbeat
           /\ PopReading \/ UNCHANGED bufferVars
<1> USE DEF tcpVars
<1>1. CASE CheckTime
    BY <1>1 DEF CheckTime
<1>2. CASE CheckFill
    BY <1>2 DEF CheckFill
<1>3. CASE CheckVisibility
    BY <1>3 DEF CheckVisibility
<1>4. CASE PopReading
    BY <1>4 DEF PopReading
<1>5. CASE SendPacket
    BY <1>5 DEF SendPacket
<1>6. CASE EndDrain
    BY <1>6 DEF EndDrain
<1>7. CASE WakeUp
    BY <1>7 DEF WakeUp
<1>8. CASE Abort
    BY <1>8 DEF Abort
<1> QED BY <1>1, <1>2, <1>3, <1>4, <1>5, <1>6, <1>7, <1>8 DEF Loop

\* Every step of the downlink keeps the types.
LEMMA ChannelKeepsType ==
    ASSUME Records, Loop \/ TcpServer
    PROVE  ChannelType'
<1>1. LoopType /\ ChannelType /\ TcpCapacity \in Nat \ {0}
    BY DownlinkAssumption DEF Records
<1>2. CASE tcp_queue # <<>> /\ tcp_queue' = Tail(tcp_queue)
    <2>1. /\ Tail(tcp_queue) \in Seq(Packet)
          /\ Len(Tail(tcp_queue)) = Len(tcp_queue) - 1
          /\ Len(tcp_queue) \in Nat
        BY <1>1, <1>2, HeadAndTail DEF ChannelType
    <2> QED BY <1>1, <1>2, <2>1 DEF ChannelType
<1>9. CASE tcp_queue' = <<>>
    <2>1. <<>> \in Seq(Packet) /\ Len(<<>>) = 0
        OBVIOUS
    <2> QED BY <1>1, <1>9, <2>1 DEF ChannelType
<1>3. CASE SendPacket
    <2>1. /\ loop.packet \in Packet
          /\ \/ tcp_queue' = tcp_queue
             \/ /\ tcp_queue' = Append(tcp_queue, loop.packet)
                /\ ~ (Len(tcp_queue) >= TcpCapacity)
        BY <1>1, <1>3 DEF SendPacket, LoopType, LoopAt, TcpRefuses
    <2>2. /\ Append(tcp_queue, loop.packet) \in Seq(Packet)
          /\ Len(Append(tcp_queue, loop.packet)) = Len(tcp_queue) + 1
          /\ Len(tcp_queue) \in Nat
        BY <1>1, <2>1, AppendProperties DEF ChannelType
    <2> QED BY <1>1, <2>1, <2>2 DEF ChannelType
<1>4. CASE Loop /\ ~ SendPacket
    <2>1. tcp_queue' = tcp_queue \/ tcp_queue' = <<>>
        BY <1>4, LoopLeaves DEF Abort
    <2> QED BY <1>1, <1>9, <2>1, UnchangedTypes
<1>5. CASE TcpServer
    <2>1. \/ tcp_queue' = tcp_queue
          \/ tcp_queue' = <<>>
          \/ tcp_queue # <<>> /\ tcp_queue' = Tail(tcp_queue)
        BY <1>5 DEF TcpServer, BindTcp, Accept, AcceptError, AcceptTimeout,
                    Discard, Receive, Write, WriteError, EndOfStream, CloseTcp
    <2> QED BY <1>1, <1>2, <1>9, <2>1, UnchangedTypes
<1> QED BY <1>3, <1>4, <1>5

LEMMA StateKeepsType ==
    ASSUME Records, Loop \/ TcpServer
    PROVE  StateType'
<1>1. StateType
    BY DEF Records
<1>2. CASE Loop
    <2>1. Overfull \in BOOLEAN
        BY DEF Overfull
    <2>2. CASE CheckFill
        <3>1. \/ state' = [state EXCEPT !.degraded_mode = TRUE,
                                        !.alerts_sent = state.alerts_sent + 1]
              \/ state' = [state EXCEPT !.degraded_mode = Overfull]
            BY <2>2 DEF CheckFill
        <3>2. CASE state' = [state EXCEPT !.degraded_mode = Overfull]
            <4>1. PICK b \in BOOLEAN : state' = [state EXCEPT !.degraded_mode = b]
                BY <2>1, <3>2
            <4> QED BY <1>1, <4>1 DEF StateType
        <3>3. CASE state' = [state EXCEPT !.degraded_mode = TRUE,
                                          !.alerts_sent = state.alerts_sent + 1]
            <4>1. PICK n \in Nat, b \in BOOLEAN :
                    state' = [state EXCEPT !.degraded_mode = b, !.alerts_sent = n]
                <5>1. state.alerts_sent + 1 \in Nat /\ TRUE \in BOOLEAN
                    BY <1>1 DEF StateType
                <5> QED BY <3>3, <5>1
            <4> QED BY <1>1, <4>1 DEF StateType
        <3> QED BY <3>1, <3>2, <3>3
    <2>3. CASE CheckVisibility
        <3>1. \/ state' = [state EXCEPT !.alerts_sent = state.alerts_sent + 1]
              \/ UNCHANGED state
            BY <2>3 DEF CheckVisibility
        <3> QED BY <1>1, <3>1 DEF StateType
    <2>4. CASE SendPacket
        <3>1. state' = [state EXCEPT !.packets_sent = state.packets_sent + 1]
            BY <2>4 DEF SendPacket
        <3> QED BY <1>1, <3>1 DEF StateType
    <2>5. CASE CheckTime \/ PopReading \/ EndDrain \/ WakeUp \/ Abort
        <3>1. UNCHANGED state
            BY <2>5 DEF CheckTime, PopReading, EndDrain, WakeUp, Abort
        <3> QED BY <1>1, <3>1, UnchangedTypes
    <2> QED BY <1>2, <2>2, <2>3, <2>4, <2>5 DEF Loop
<1>3. CASE TcpServer
    <2>1. \/ UNCHANGED state
          \/ state' = [state EXCEPT !.gcs_connected = TRUE]
          \/ state' = [state EXCEPT !.gcs_connected = FALSE]
        BY <1>3 DEF TcpServer, BindTcp, Accept, AcceptError, AcceptTimeout,
                    Discard, Receive, Write, WriteError, EndOfStream
    <2> QED BY <1>1, <2>1 DEF StateType
<1> QED BY <1>2, <1>3

LEMMA TcpKeepsType ==
    ASSUME Records, Loop \/ TcpServer
    PROVE  TcpType'
<1> USE DEF TcpAt
<1>1. /\ TcpType /\ now + ConnectTimeout \in Nat /\ 0 \in Nat
      /\ NoPacket \in Packet \union {NoPacket}
    BY DownlinkAssumption DEF Records
<1>2. tcp_queue # <<>> => Head(tcp_queue) \in Packet
    BY HeadAndTail DEF Records, ChannelType
<1>3. CASE Loop /\ ~ Abort
    <2>1. UNCHANGED tcp
        BY <1>3, LoopLeaves
    <2> QED BY <1>1, <2>1, UnchangedTypes
<1>4. CASE Abort
    <2>1. tcp' = [tcp EXCEPT !.pc = IF @ = "ended" THEN @ ELSE "aborted",
                             !.packet = NoPacket]
        BY <1>4 DEF Abort
    <2> QED BY <1>1, <2>1 DEF TcpType
<1>5. CASE TcpServer
    <2>1. CASE BindTcp
        <3>1. \/ tcp' = [tcp EXCEPT !.pc = "accept", !.give_up = now + ConnectTimeout]
              \/ tcp' = [pc |-> "ended", give_up |-> 0, packet |-> NoPacket]
            BY <2>1 DEF BindTcp, CloseTcp
        <3>2. CASE tcp' = [tcp EXCEPT !.pc = "accept",
                                      !.give_up = now + ConnectTimeout]
            BY <1>1, <3>2 DEF TcpType
        <3>3. CASE tcp' = [pc |-> "ended", give_up |-> 0, packet |-> NoPacket]
            BY <1>1, <3>3 DEF TcpType
        <3> QED BY <3>1, <3>2, <3>3
    <2>2. CASE Accept
        BY <1>1, <2>2 DEF TcpType, Accept
    <2>3. CASE AcceptTimeout
        BY <1>1, <2>3 DEF TcpType, AcceptTimeout
    <2>4. CASE Discard
        BY <1>1, <2>4, UnchangedTypes DEF Discard
    <2>5. CASE Receive
        BY <1>1, <1>2, <2>5 DEF TcpType, Receive
    <2>6. CASE Write
        BY <1>1, <2>6 DEF TcpType, Write
    <2>7. CASE AcceptError \/ WriteError \/ EndOfStream
        <3>1. tcp' = [pc |-> "ended", give_up |-> 0, packet |-> NoPacket]
            BY <2>7 DEF AcceptError, WriteError, EndOfStream, CloseTcp
        <3> QED BY <1>1, <3>1 DEF TcpType
    <2> QED BY <1>5, <2>1, <2>2, <2>3, <2>4, <2>5, <2>6, <2>7 DEF TcpServer
<1> QED BY <1>3, <1>4, <1>5

\* The alert channel takes a message only where there is room.
LEMMA AlertTaken ==
    ASSUME AlertType, NEW m \in Message, ~ UdpFull
    PROVE  /\ Append(udp_queue, m) \in Seq(Message)
           /\ Len(Append(udp_queue, m)) <= UdpCapacity
<1>1. /\ udp_queue \in Seq(Message) /\ Len(udp_queue) \in Nat
      /\ UdpCapacity \in Nat /\ ~ (Len(udp_queue) >= UdpCapacity)
    BY DownlinkAssumption DEF AlertType, UdpFull
<1>2. /\ Append(udp_queue, m) \in Seq(Message)
      /\ Len(Append(udp_queue, m)) = Len(udp_queue) + 1
    BY <1>1, AppendProperties
<1> QED BY <1>1, <1>2

LEMMA AlertKeepsType ==
    ASSUME Records, Loop \/ UdpBroadcaster \/ Heartbeat
    PROVE  AlertType'
<1>1. /\ AlertType /\ now \in Nat
      /\ heartbeat.next \in Nat /\ heartbeat.next + HeartbeatPeriod \in Nat
    BY DownlinkAssumption DEF Records, AlertType
<1>2. /\ udp_queue \in Seq(Message) /\ Len(udp_queue) <= UdpCapacity
      /\ heartbeat \in [pc : {"tick", "send", "ended"}, next : Nat]
    BY <1>1 DEF AlertType
<1>3. <<>> \in Seq(Message) /\ Len(<<>>) <= UdpCapacity
    <2>1. <<>> \in Seq(Message) /\ Len(<<>>) = 0
        OBVIOUS
    <2> QED BY <2>1, DownlinkAssumption
<1>4. ASSUME NEW m \in Message, SendAlert(m), UNCHANGED heartbeat
      PROVE  AlertType'
    <2>1. CASE UNCHANGED udp_queue
        BY <1>1, <1>4, <2>1, UnchangedTypes
    <2>2. CASE ~ UdpFull /\ udp_queue' = Append(udp_queue, m)
        BY <1>1, <1>2, <1>4, <2>2, AlertTaken DEF AlertType
    <2> QED BY <1>4, <2>1, <2>2 DEF SendAlert
<1>5. CASE Loop
    <2>1. CASE Abort
        <3>1. udp_queue' = <<>> /\ heartbeat' = [heartbeat EXCEPT !.pc = "ended"]
            BY <2>1 DEF Abort
        <3>2. heartbeat' \in [pc : {"tick", "send", "ended"}, next : Nat]
            BY <1>2, <3>1
        <3> QED BY <1>3, <3>1, <3>2 DEF AlertType
    <2>2. CASE CheckFill
        <3>1. /\ SendAlert("BUFFER_OVERFLOW") \/ UNCHANGED udp_queue
              /\ UNCHANGED heartbeat
            BY <2>2 DEF CheckFill
        <3> QED BY <1>1, <1>4, <3>1, UnchangedTypes DEF Message
    <2>3. CASE CheckVisibility
        <3>1. /\ SendAlert("MISSED_COMM") \/ UNCHANGED udp_queue
              /\ UNCHANGED heartbeat
            BY <2>3 DEF CheckVisibility
        <3> QED BY <1>1, <1>4, <3>1, UnchangedTypes DEF Message
    <2>4. CASE CheckTime \/ PopReading \/ SendPacket \/ EndDrain \/ WakeUp
        <3>1. UNCHANGED <<udp_queue, heartbeat>>
            BY <2>4 DEF CheckTime, PopReading, SendPacket, EndDrain, WakeUp, udpVars
        <3> QED BY <1>1, <3>1, UnchangedTypes
    <2> QED BY <1>5, <2>1, <2>2, <2>3, <2>4 DEF Loop
<1>6. CASE UdpBroadcaster
    <2>1. CASE udp_queue # <<>> /\ udp_queue' = Tail(udp_queue)
        <3>1. /\ Tail(udp_queue) \in Seq(Message)
              /\ Len(Tail(udp_queue)) = Len(udp_queue) - 1
              /\ Len(udp_queue) \in Nat /\ UdpCapacity \in Nat
            BY <1>2, <2>1, HeadAndTail, DownlinkAssumption
        <3>2. UNCHANGED heartbeat
            BY <1>6 DEF UdpBroadcaster
        <3> QED BY <1>2, <2>1, <3>1, <3>2 DEF AlertType
    <2>2. CASE udp_queue' = <<>> /\ UNCHANGED heartbeat
        BY <1>2, <1>3, <2>2 DEF AlertType
    <2>3. CASE UNCHANGED <<udp_queue, heartbeat>>
        BY <1>1, <2>3, UnchangedTypes
    <2>4. /\ UNCHANGED heartbeat
          /\ \/ udp_queue # <<>> /\ udp_queue' = Tail(udp_queue)
             \/ udp_queue' = <<>>
             \/ UNCHANGED udp_queue
        BY <1>6 DEF UdpBroadcaster, BindUdp, Broadcast, EndOfAlerts
    <2> QED BY <2>1, <2>2, <2>3, <2>4
<1>7. CASE Heartbeat
    <2>1. CASE HeartbeatTick
        <3>1. CASE heartbeat' = [heartbeat EXCEPT !.pc = "ended"]
            BY <1>2, <2>1, <3>1 DEF HeartbeatTick, AlertType
        <3>2. CASE heartbeat' = [pc |-> "send",
                                 next |-> heartbeat.next + HeartbeatPeriod]
            BY <1>1, <1>2, <2>1, <3>2 DEF HeartbeatTick, AlertType
        <3> QED BY <2>1, <3>1, <3>2 DEF HeartbeatTick
    <2>2. CASE HeartbeatSend
        <3>1. heartbeat' \in [pc : {"tick", "send", "ended"}, next : Nat]
            BY <1>2, <2>2 DEF HeartbeatSend
        <3>2. CASE UNCHANGED udp_queue
            BY <1>2, <3>1, <3>2 DEF AlertType
        <3>3. CASE ~ UdpFull /\ udp_queue' = Append(udp_queue, "STATUS")
            BY <1>1, <3>1, <3>3, AlertTaken DEF AlertType, Message
        <3> QED BY <2>2, <3>2, <3>3 DEF HeartbeatSend
    <2> QED BY <1>7, <2>1, <2>2 DEF Heartbeat
<1> QED BY <1>5, <1>6, <1>7

LEMMA TcpLeaves ==
    ASSUME TcpServer
    PROVE  /\ UNCHANGED <<now, cycle, loop, udp_queue, heartbeat, bufferVars>>
           /\ Write \/ UNCHANGED wire
<1>1. UNCHANGED <<now, cycle, loop, heartbeat, bufferVars>>
    BY DEF TcpServer
<1>2. UNCHANGED udp_queue /\ (Write \/ UNCHANGED wire)
    BY DEF TcpServer, BindTcp, Accept, AcceptError, AcceptTimeout, Discard,
           Receive, Write, WriteError, EndOfStream
<1> QED BY <1>1, <1>2

\* A step of the alert tasks, or of the clock, leaves the stream alone.
LEMMA OthersLeave ==
    ASSUME UdpBroadcaster \/ Heartbeat \/ Tick \/ UNCHANGED vars
    PROVE  UNCHANGED <<bufferVars, cycle, loop, state, tcp_queue, tcp, wire, lost>>
<1> USE DEF loopVars, tcpVars
<1>1. CASE UdpBroadcaster
    BY <1>1 DEF UdpBroadcaster
<1>2. CASE Heartbeat
    BY <1>2 DEF Heartbeat
<1>3. CASE Tick
    BY <1>3 DEF Tick
<1>4. CASE UNCHANGED vars
    BY <1>4 DEF vars, downVars
<1> QED BY <1>1, <1>2, <1>3, <1>4

LEMMA ProduceLeaves ==
    ASSUME NEW s \in Sensors, Produce(s)
    PROVE  UNCHANGED <<now, loop, state, tcp_queue, tcp, udp_queue, heartbeat,
                       wire, lost>>
BY DEF Produce, loopVars, tcpVars, udpVars

LEMMA NextKeepsRecords ==
    ASSUME BufferTypeOK, Records, QueueInv, [Next]_vars
    PROVE  BufferTypeOK' /\ Records'
<1>1. /\ now \in Nat /\ cycle \in [Sensors -> Nat] /\ wire \in Seq(Packet)
      /\ LoopType /\ StateType /\ TcpType /\ ChannelType /\ AlertType
    BY DEF Records
<1>2. UNCHANGED bufferVars => BufferTypeOK'
    BY DEF BufferTypeOK, bufferVars
<1>3. CASE Loop
    <2>1. BufferTypeOK'
        <3>1. PopReading => Pop
            BY DEF PopReading
        <3> QED BY <1>2, <1>3, <3>1, LoopLeaves, PopFacts DEF QueueInv
    <2>2. LoopType' /\ StateType' /\ TcpType' /\ ChannelType' /\ AlertType'
        BY <1>3, LoopMoves, StateKeepsType, TcpKeepsType, ChannelKeepsType,
           AlertKeepsType
    <2> QED BY <1>1, <1>3, <2>1, <2>2, LoopLeaves DEF Records
<1>4. CASE TcpServer
    <2>1. UNCHANGED <<now, cycle, loop, udp_queue, heartbeat, bufferVars>>
        BY <1>4, TcpLeaves
    <2>2. LoopType' /\ StateType' /\ TcpType' /\ ChannelType' /\ AlertType'
        BY <1>1, <1>4, <2>1, UnchangedTypes, StateKeepsType, TcpKeepsType,
           ChannelKeepsType
    <2>3. wire' \in Seq(Packet)
        <3>1. CASE Write
            <4>1. wire' = Append(wire, tcp.packet) /\ tcp.packet \in Packet
                BY <1>1, <3>1 DEF Write, TcpType
            <4> QED BY <1>1, <4>1, AppendProperties
        <3> QED BY <1>1, <1>4, <3>1, TcpLeaves
    <2> QED BY <1>1, <1>2, <2>1, <2>2, <2>3 DEF Records
<1>5. CASE UdpBroadcaster \/ Heartbeat
    <2>1. UNCHANGED <<bufferVars, cycle, loop, state, tcp_queue, tcp, wire>>
        BY <1>5, OthersLeave
    <2>2. UNCHANGED now
        BY <1>5 DEF UdpBroadcaster, Heartbeat
    <2> QED BY <1>1, <1>2, <1>5, <2>1, <2>2, UnchangedTypes, AlertKeepsType
            DEF Records
<1>6. CASE Tick
    <2>1. UNCHANGED <<bufferVars, cycle, loop, state, tcp_queue, tcp, wire>>
        BY <1>6, OthersLeave
    <2>2. now' \in Nat /\ UNCHANGED <<udp_queue, heartbeat>>
        BY <1>1, <1>6 DEF Tick, udpVars
    <2> QED BY <1>1, <1>2, <2>1, <2>2, UnchangedTypes DEF Records
<1>7. ASSUME NEW s \in Sensors, Produce(s)
      PROVE  BufferTypeOK' /\ Records'
    BY <1>1, <1>7, ProduceFacts, ProduceLeaves, UnchangedTypes DEF Records
<1>8. CASE UNCHANGED vars
    <2>1. UNCHANGED <<bufferVars, now, cycle, loop, state, tcp_queue, tcp, wire,
                      udp_queue, heartbeat>>
        BY <1>8 DEF vars, downVars, loopVars, tcpVars, udpVars
    <2> QED BY <1>1, <1>2, <2>1, UnchangedTypes DEF Records
<1> QED BY <1>3, <1>4, <1>5, <1>6, <1>7, <1>8 DEF Next

-----------------------------------------------------------------------------
(* The stream.                                                             *)

Stream == QueueInv /\ StreamInOrder /\ OneFate /\ SentCount /\ OlderThanQueued

LEMMA StreamTypes ==
    ASSUME Records
    PROVE  /\ wire \in Seq(Packet) /\ Hand \in Seq(Packet)
           /\ tcp_queue \in Seq(Packet) /\ Built \in Seq(Packet)
           /\ loop.seq \in Nat /\ state.packets_sent \in Nat
           /\ cycle \in [Sensors -> Nat]
<1>1. Hand \in Seq(Packet)
    BY DEF Hand, Records, TcpType
<1>2. Built \in Seq(Packet)
    BY DEF Built, Records, LoopType
<1> QED BY <1>1, <1>2 DEF Records, ChannelType, LoopType, StateType

\* What is older stays older while cycles go on and newer readings are queued.
LEMMA StillOlder ==
    ASSUME NEW x \in Seq(Packet), NEW Q, NEW R,
           NEW c \in [Sensors -> Nat], NEW d \in [Sensors -> Nat],
           Older(x, c, Q),
           \A s \in Sensors : c[s] <= d[s],
           \A y \in R : y \in Q \/ y.cycle = c[y.sensor] + 1
    PROVE  Older(x, d, R)
<1> SUFFICES ASSUME NEW i \in 1 .. Len(x) PROVE OldFor(x[i], d, R)
    BY DEF Older
<1> DEFINE p == x[i]
<1>1. OldFor(p, c, Q) /\ p \in Packet
    BY ElementOfSeq DEF Older
<1> HIDE DEF p
<1>2. /\ p.sensor \in Sensors /\ p.cycle \in Nat /\ p.cycle <= c[p.sensor]
      /\ \A y \in Q : y.sensor = p.sensor => p.cycle < y.cycle
    BY <1>1 DEF OldFor, Packet
<1>3. c[p.sensor] \in Nat /\ d[p.sensor] \in Nat /\ c[p.sensor] <= d[p.sensor]
    BY <1>2
<1>4. p.cycle <= d[p.sensor]
    BY <1>2, <1>3
<1>5. ASSUME NEW y \in R, y.sensor = p.sensor PROVE p.cycle < y.cycle
    <2>1. CASE y \in Q
        BY <1>2, <1>5, <2>1
    <2>2. CASE y.cycle = c[p.sensor] + 1
        BY <1>2, <1>3, <2>2
    <2> QED BY <1>5, <2>1, <2>2
<1> QED BY <1>2, <1>4, <1>5 DEF OldFor, p

\* A step that touches neither the queue nor the stream.
LEMMA StillStream ==
    ASSUME Stream,
           UNCHANGED <<items, cycle, wire, Hand, tcp_queue, Built, lost, loop.seq,
                       state.packets_sent>>
    PROVE  Stream'
<1>1. QueueInv'
    BY DEF Stream, QueueInv, Ordered
<1>2. StreamInOrder'
    BY DEF Stream, StreamInOrder, InOrder, Ahead
<1>3. OneFate'
    BY DEF Stream, OneFate, OnTheWay, Seqs
<1>4. SentCount' /\ OlderThanQueued'
    BY DEF Stream, SentCount, OlderThanQueued
<1> QED BY <1>1, <1>2, <1>3, <1>4 DEF Stream

\* A sensor thread pushes a reading.
LEMMA ProduceStream ==
    ASSUME BufferTypeOK, Records, Stream, NEW s \in Sensors, Produce(s)
    PROVE  Stream'
<1>1. UNCHANGED <<loop, state, tcp_queue, tcp, wire, lost>>
    BY ProduceLeaves
<1>2. UNCHANGED <<Hand, Built>>
    BY <1>1 DEF Hand, Built, TcpAt, LoopAt
<1>3. /\ Ordered(items') /\ cycle' \in [Sensors -> Nat]
      /\ cycle'[s] = cycle[s] + 1
      /\ \A u \in Sensors \ {s} : cycle'[u] = cycle[u]
      /\ \A y \in ToSet(items') :
            \/ y \in ToSet(items)
            \/ y.sensor = s /\ y.cycle = cycle[s] + 1
    BY ProduceFacts DEF Stream
<1>4. cycle \in [Sensors -> Nat] /\ \A u \in Sensors : cycle[u] <= cycle'[u]
    <2>1. \A u \in Sensors : cycle[u] \in Nat
        BY StreamTypes
    <2>2. \A u \in Sensors : cycle[u] <= cycle'[u]
        BY <1>3, <2>1
    <2> QED BY <2>2, StreamTypes
<1>5. ASSUME NEW y \in ToSet(items')
      PROVE  y.sensor \in Sensors /\ y.cycle <= cycle'[y.sensor]
    <2>1. CASE y \in ToSet(items)
        <3>1. /\ y.sensor \in Sensors /\ y.cycle <= cycle[y.sensor]
              /\ y.cycle \in Nat
            <4>1. y \in SensorReading
                BY <2>1, ToSetFacts DEF BufferTypeOK
            <4> QED BY <2>1, <4>1 DEF Stream, QueueInv, SensorReading
        <3>2. cycle[y.sensor] \in Nat /\ cycle'[y.sensor] \in Nat
            BY <1>3, <1>4, <3>1
        <3> QED BY <1>4, <3>1, <3>2
    <2>2. CASE y.sensor = s /\ y.cycle = cycle[s] + 1
        BY <1>3, <1>4, <2>2
    <2> QED BY <1>3, <2>1, <2>2
<1>6. QueueInv'
    BY <1>3, <1>5 DEF QueueInv
<1>7. OlderThanQueued'
    <2> SUFFICES ASSUME NEW x \in {wire, Hand, tcp_queue, Built}
                 PROVE  Older(x, cycle', ToSet(items'))
        BY <1>1, <1>2 DEF OlderThanQueued
    <2>1. x \in Seq(Packet) /\ Older(x, cycle, ToSet(items))
        BY StreamTypes DEF Stream, OlderThanQueued
    <2>2. \A y \in ToSet(items') :
            y \in ToSet(items) \/ y.cycle = cycle[y.sensor] + 1
        BY <1>3
    <2> QED BY <1>3, <1>4, <2>1, <2>2, StillOlder
<1>8. StreamInOrder' /\ OneFate' /\ SentCount'
    <2>1. StreamInOrder'
        BY <1>1, <1>2 DEF Stream, StreamInOrder, InOrder, Ahead
    <2>2. OneFate' /\ SentCount'
        BY <1>1, <1>2 DEF Stream, OneFate, OnTheWay, Seqs, SentCount
    <2> QED BY <2>1, <2>2
<1> QED BY <1>6, <1>7, <1>8 DEF Stream

LEMMA NextNumber ==
    ASSUME NEW n \in Nat
    PROVE  1 .. n + 1 = (1 .. n) \union {n + 1}
<1>1. \A k \in Int : k \in 1 .. n + 1 <=> k \in 1 .. n \/ k = n + 1
    OBVIOUS
<1> QED BY <1>1

\* The loop builds a packet of the best reading.
LEMMA PopStream ==
    ASSUME BufferTypeOK, Records, Stream, PopReading
    PROVE  Stream'
<1> DEFINE h == Head(items)
           p == [seq |-> loop.seq + 1, sensor |-> h.sensor, cycle |-> h.cycle,
                 status |-> Status(h)]
<1>1. /\ Ordered(items') /\ h \in SensorReading /\ h \in ToSet(items)
      /\ \A y \in ToSet(items') : Before(h, y)
      /\ ToSet(items') = ToSet(items) \ {h}
    BY PopFacts DEF Stream, QueueInv, PopReading
<1>2. p \in Packet
    BY <1>1, BuiltFacts DEF Records
<1>3. p.seq = loop.seq + 1 /\ p.sensor = h.sensor /\ p.cycle = h.cycle
    OBVIOUS
<1>4. /\ loop \in [pc : {"check", "fill", "visibility", "drain", "send", "sleep",
                         "done", "shut"},
                   seq : Nat, popped : 0 .. MaxBatch, opened : BOOLEAN,
                   open_time : Nat, wake : Nat, packet : Packet \union {NoPacket}]
      /\ loop' = [loop EXCEPT !.pc = "send", !.popped = @ + 1, !.seq = @ + 1,
                              !.packet = p]
      /\ loop.pc = "drain"
    BY DEF Records, LoopType, PopReading, LoopAt
<1> HIDE DEF h, p
<1>5. /\ loop'.seq = loop.seq + 1 /\ Built = <<>> /\ Built' = <<p>>
    BY <1>4 DEF Built, LoopAt
<1>6. /\ UNCHANGED <<cycle, state, tcp_queue, wire, lost>> /\ UNCHANGED Hand
    BY DEF PopReading, tcpVars, Hand, TcpAt
<1>7. /\ wire \in Seq(Packet) /\ Hand \in Seq(Packet) /\ tcp_queue \in Seq(Packet)
      /\ loop.seq \in Nat /\ state.packets_sent \in Nat
      /\ cycle \in [Sensors -> Nat]
    BY StreamTypes
<1>8. QueueInv'
    BY <1>1, <1>6 DEF Stream, QueueInv
<1>9. \A u \in {wire, Hand, tcp_queue} : Seqs(u) \subseteq 1 .. loop.seq
    BY DEF Stream, OneFate, OnTheWay
<1>10. ASSUME NEW u \in {wire, Hand, tcp_queue} PROVE Ahead(u, <<p>>)
    <2> SUFFICES ASSUME NEW i \in 1 .. Len(u) PROVE Precedes(u[i], p)
        BY DEF Ahead
    <2>1. u[i].seq \in 1 .. loop.seq
        BY <1>9 DEF Seqs
    <2>2. OldFor(u[i], cycle, ToSet(items))
        BY DEF Stream, OlderThanQueued, Older
    <2>3. u[i].sensor = h.sensor => u[i].cycle < h.cycle
        BY <1>1, <2>2 DEF OldFor
    <2> QED BY <1>3, <1>7, <2>1, <2>3 DEF Precedes
<1>11. StreamInOrder'
    BY <1>5, <1>6, <1>10 DEF Stream, StreamInOrder
<1>12. OneFate'
    <2>1. OnTheWay' = OnTheWay \union {loop.seq + 1}
        BY <1>3, <1>5, <1>6, ShortStreams DEF OnTheWay
    <2>2. 1 .. loop.seq + 1 = (1 .. loop.seq) \union {loop.seq + 1}
        BY <1>7, NextNumber
    <2>3. loop.seq + 1 \notin 1 .. loop.seq
        BY <1>7
    <2> QED BY <1>5, <1>6, <2>1, <2>2, <2>3 DEF Stream, OneFate
<1>13. SentCount'
    BY <1>5, <1>6, <1>7 DEF Stream, SentCount
<1>14. OldFor(p, cycle, ToSet(items'))
    <2>1. h.sensor \in Sensors /\ h.cycle <= cycle[h.sensor]
        BY <1>1 DEF Stream, QueueInv
    <2>2. ASSUME NEW y \in ToSet(items'), y.sensor = h.sensor
          PROVE  h.cycle < y.cycle
        <3>1. PriorityOf(h) \in Nat /\ PriorityOf(y) = PriorityOf(h)
            BY <1>1, <2>2, PriorityOfNat DEF PriorityOf
        <3> QED BY <1>1, <2>2, <3>1 DEF Before
    <2> QED BY <1>3, <2>1, <2>2 DEF OldFor
<1>15. OlderThanQueued'
    <2>1. \A u \in {wire, Hand, tcp_queue} : Older(u, cycle, ToSet(items'))
        <3> SUFFICES ASSUME NEW u \in {wire, Hand, tcp_queue}
                     PROVE  Older(u, cycle, ToSet(items'))
            OBVIOUS
        <3>1. Older(u, cycle, ToSet(items))
            BY DEF Stream, OlderThanQueued
        <3> QED BY <1>1, <3>1 DEF Older, OldFor
    <2>2. Older(<<p>>, cycle, ToSet(items'))
        BY <1>14 DEF Older
    <2> QED BY <1>5, <1>6, <2>1, <2>2 DEF OlderThanQueued
<1> QED BY <1>8, <1>11, <1>12, <1>13, <1>15 DEF Stream

\* No number is in two parts of the stream.
LEMMA ApartStreams ==
    ASSUME Records, StreamInOrder
    PROVE  /\ Seqs(wire) \intersect Seqs(Hand) = {}
           /\ Seqs(wire) \intersect Seqs(tcp_queue) = {}
           /\ Seqs(wire) \intersect Seqs(Built) = {}
           /\ Seqs(Hand) \intersect Seqs(tcp_queue) = {}
           /\ Seqs(Hand) \intersect Seqs(Built) = {}
           /\ Seqs(tcp_queue) \intersect Seqs(Built) = {}
<1>1. ASSUME NEW x \in Seq(Packet), NEW y \in Seq(Packet), Ahead(x, y)
      PROVE  Seqs(x) \intersect Seqs(y) = {}
    <2> SUFFICES ASSUME NEW i \in 1 .. Len(x), NEW j \in 1 .. Len(y),
                        x[i].seq = y[j].seq
                 PROVE  FALSE
        BY DEF Seqs
    <2>1. x[i] \in Packet /\ x[i].seq < y[j].seq
        BY <1>1, ElementOfSeq DEF Ahead, Precedes
    <2> QED BY <2>1 DEF Packet
<1> QED BY <1>1, StreamTypes DEF StreamInOrder

\* A change of the stream that leaves the queue and the numbers alone.
LEMMA MovedStream ==
    ASSUME Stream, UNCHANGED <<items, cycle>>,
           StreamInOrder', OneFate', SentCount',
           \A x \in {wire, Hand, tcp_queue, Built}' : Older(x, cycle, ToSet(items))
    PROVE  Stream'
<1>1. QueueInv'
    BY DEF Stream, QueueInv, Ordered
<1>2. OlderThanQueued'
    BY DEF OlderThanQueued
<1> QED BY <1>1, <1>2 DEF Stream

\* try_send: the packet goes to the channel, or is lost.
LEMMA SendStream ==
    ASSUME Records, Stream, SendPacket
    PROVE  Stream'
<1>1. /\ Built = <<loop.packet>> /\ Built' = <<>>
      /\ UNCHANGED <<items, cycle, wire, Hand, loop.seq>>
      /\ state'.packets_sent = state.packets_sent + 1
    <2>1. /\ loop.pc = "send"
          /\ loop' = [loop EXCEPT !.pc = "drain", !.packet = NoPacket]
          /\ loop \in [pc : {"check", "fill", "visibility", "drain", "send",
                             "sleep", "done", "shut"},
                       seq : Nat, popped : 0 .. MaxBatch, opened : BOOLEAN,
                       open_time : Nat, wake : Nat,
                       packet : Packet \union {NoPacket}]
        BY DEF SendPacket, Records, LoopType, LoopAt
    <2>2. loop'.pc = "drain" /\ loop'.seq = loop.seq
        BY <2>1
    <2>3. UNCHANGED <<items, cycle, wire, tcp>>
        BY DEF SendPacket, bufferVars
    <2>4. state'.packets_sent = state.packets_sent + 1
        BY DEF SendPacket, Records, StateType
    <2> QED BY <2>1, <2>2, <2>3, <2>4 DEF Built, Hand, LoopAt, TcpAt
<1>2. /\ wire \in Seq(Packet) /\ Hand \in Seq(Packet) /\ tcp_queue \in Seq(Packet)
      /\ Built \in Seq(Packet) /\ loop.packet \in Packet
      /\ loop.seq \in Nat /\ state.packets_sent \in Nat
    BY StreamTypes DEF Records, LoopType, SendPacket
<1>3. StreamInOrder /\ OneFate /\ SentCount
      /\ \A x \in {wire, Hand, tcp_queue, Built} : Older(x, cycle, ToSet(items))
    BY DEF Stream, OlderThanQueued
<1>4. SentCount'
    BY <1>1, <1>2, <1>3 DEF SentCount
<1>5. CASE TcpRefuses
    <2>1. UNCHANGED tcp_queue /\ lost' = lost \union {loop.packet.seq}
        BY <1>5 DEF SendPacket
    <2>2. StreamInOrder'
        BY <1>1, <1>3, <2>1, ShortStreams DEF StreamInOrder
    <2>3. OneFate'
        <3>1. Seqs(Built) = {loop.packet.seq} /\ Seqs(<<>>) = {}
            BY <1>1, ShortStreams
        <3>2. Seqs(Built) \intersect (Seqs(wire) \union Seqs(Hand)
                                        \union Seqs(tcp_queue)) = {}
            BY <1>3, ApartStreams
        <3> QED BY <1>1, <1>3, <2>1, <3>1, <3>2 DEF OneFate, OnTheWay
    <2> QED BY <1>1, <1>3, <1>4, <2>1, <2>2, <2>3, ShortStreams, MovedStream
<1>6. CASE ~ TcpRefuses
    <2>1. tcp_queue' = tcp_queue \o Built /\ UNCHANGED lost
        BY <1>1, <1>2, <1>6, AppendIsConcat DEF SendPacket
    <2> DEFINE z == tcp_queue \o Built
    <2>2. /\ InOrder(z) <=> /\ InOrder(tcp_queue) /\ InOrder(Built)
                            /\ Ahead(tcp_queue, Built)
          /\ \A u : /\ Ahead(z, u) <=> Ahead(tcp_queue, u) /\ Ahead(Built, u)
                    /\ Ahead(u, z) <=> Ahead(u, tcp_queue) /\ Ahead(u, Built)
          /\ Seqs(z) = Seqs(tcp_queue) \union Seqs(Built)
          /\ \A c, Q : Older(z, c, Q) <=> Older(tcp_queue, c, Q) /\ Older(Built, c, Q)
        BY <1>2, Parts
    <2> HIDE DEF z
    <2>3. tcp_queue' = z
        BY <2>1 DEF z
    <2>4. StreamInOrder'
        BY <1>1, <1>3, <2>2, <2>3, ShortStreams DEF StreamInOrder
    <2>5. OneFate'
        BY <1>1, <1>3, <2>1, <2>2, <2>3, ShortStreams DEF OneFate, OnTheWay
    <2>6. \A x \in {wire, Hand, tcp_queue, Built}' :
            Older(x, cycle, ToSet(items))
        BY <1>1, <1>3, <2>2, <2>3, ShortStreams
    <2> QED BY <1>1, <1>4, <2>4, <2>5, <2>6, MovedStream
<1> QED BY <1>5, <1>6

\* The server leaves the buffer, the loop and its count alone.
LEMMA ServerLeaves ==
    ASSUME Records, TcpServer
    PROVE  UNCHANGED <<items, cycle, loop.seq, Built, state.packets_sent>>
<1>1. UNCHANGED <<items, cycle, loop>>
    BY TcpLeaves DEF bufferVars
<1>2. \/ UNCHANGED state
      \/ state' = [state EXCEPT !.gcs_connected = TRUE]
      \/ state' = [state EXCEPT !.gcs_connected = FALSE]
    BY DEF TcpServer, BindTcp, Accept, AcceptError, AcceptTimeout, Discard,
           Receive, Write, WriteError, EndOfStream
<1>3. UNCHANGED state.packets_sent
    BY <1>2 DEF Records, StateType
<1> QED BY <1>1, <1>3 DEF Built, LoopAt

\* The server takes a packet out of the channel.
LEMMA ReceiveStream ==
    ASSUME Records, Stream, TcpServer, Receive
    PROVE  Stream'
<1>1. /\ UNCHANGED <<items, cycle, loop.seq, Built, state.packets_sent>>
      /\ UNCHANGED <<wire, lost>>
    BY ServerLeaves, TcpLeaves DEF Receive, Write, TcpAt
<1> DEFINE h == <<Head(tcp_queue)>>
           t == Tail(tcp_queue)
<1>2. Hand = <<>> /\ Hand' = h /\ tcp_queue' = t
    <2>1. /\ tcp.pc = "stream"
          /\ tcp' = [tcp EXCEPT !.pc = "write", !.packet = Head(tcp_queue)]
          /\ tcp \in [pc : {"bind", "accept", "discard", "stream", "write",
                            "ended", "aborted"},
                      give_up : Nat, packet : Packet \union {NoPacket}]
        BY DEF Receive, TcpAt, Records, TcpType
    <2> QED BY <2>1 DEF Hand, TcpAt, Receive
<1>3. h \in Seq(Packet) /\ t \in Seq(Packet) /\ tcp_queue = h \o t
    <2>1. tcp_queue \in Seq(Packet) /\ tcp_queue # <<>>
        BY DEF Receive, Records, ChannelType
    <2>2. Head(tcp_queue) \in Packet /\ t \in Seq(Packet) /\ tcp_queue = h \o t
        BY <2>1, HeadAndTail
    <2> QED BY <2>2
<1> HIDE DEF h, t
<1>4. /\ InOrder(tcp_queue) <=> InOrder(h) /\ InOrder(t) /\ Ahead(h, t)
      /\ \A u : /\ Ahead(tcp_queue, u) <=> Ahead(h, u) /\ Ahead(t, u)
                /\ Ahead(u, tcp_queue) <=> Ahead(u, h) /\ Ahead(u, t)
      /\ Seqs(tcp_queue) = Seqs(h) \union Seqs(t)
      /\ \A c, Q : Older(tcp_queue, c, Q) <=> Older(h, c, Q) /\ Older(t, c, Q)
    BY <1>3, Parts
<1>5. StreamInOrder /\ OneFate /\ SentCount
      /\ \A x \in {wire, Hand, tcp_queue, Built} : Older(x, cycle, ToSet(items))
    BY DEF Stream, OlderThanQueued
<1>6. StreamInOrder'
    <2>1. wire' = wire /\ Built' = Built
        BY <1>1
    <2>2. /\ InOrder(wire) /\ InOrder(tcp_queue)
          /\ Ahead(wire, Hand) /\ Ahead(wire, tcp_queue) /\ Ahead(wire, Built)
          /\ Ahead(tcp_queue, Built)
        BY <1>5 DEF StreamInOrder
    <2>3. InOrder(t) /\ Ahead(h, t)
        BY <1>4, <2>2
    <2>4. Ahead(wire, h) /\ Ahead(wire, t)
        BY <1>4, <2>2
    <2>5. Ahead(h, Built) /\ Ahead(t, Built)
        BY <1>4, <2>2
    <2> QED BY <1>2, <2>1, <2>2, <2>3, <2>4, <2>5 DEF StreamInOrder
<1>7. OneFate'
    <2>1. OnTheWay' = OnTheWay
        BY <1>1, <1>2, <1>4, ShortStreams DEF OnTheWay
    <2> QED BY <1>1, <1>5, <2>1 DEF OneFate
<1>8. SentCount'
    BY <1>1, <1>5 DEF SentCount
<1>9. \A x \in {wire, Hand, tcp_queue, Built}' : Older(x, cycle, ToSet(items))
    BY <1>1, <1>2, <1>4, <1>5
<1> QED BY <1>1, <1>6, <1>7, <1>8, <1>9, MovedStream

\* The server writes the packet in its hand to the connection.
LEMMA WriteStream ==
    ASSUME Records, Stream, TcpServer, Write
    PROVE  Stream'
<1>1. /\ UNCHANGED <<items, cycle, loop.seq, Built, state.packets_sent>>
      /\ UNCHANGED <<tcp_queue, lost>>
    BY ServerLeaves DEF Write
<1>2. wire \in Seq(Packet) /\ Hand \in Seq(Packet)
    BY StreamTypes
<1> DEFINE z == wire \o Hand
<1>3. Hand' = <<>> /\ wire' = z
    <2>1. /\ tcp.pc = "write" /\ tcp.packet \in Packet
          /\ tcp' = [tcp EXCEPT !.pc = "stream", !.packet = NoPacket]
          /\ tcp \in [pc : {"bind", "accept", "discard", "stream", "write",
                            "ended", "aborted"},
                      give_up : Nat, packet : Packet \union {NoPacket}]
        BY DEF Write, TcpAt, Records, TcpType
    <2>2. Hand = <<tcp.packet>> /\ Hand' = <<>>
        BY <2>1 DEF Hand, TcpAt
    <2>3. wire' = wire \o <<tcp.packet>>
        BY <1>2, <2>1, AppendIsConcat DEF Write
    <2> QED BY <2>2, <2>3
<1>4. /\ InOrder(z) <=> InOrder(wire) /\ InOrder(Hand) /\ Ahead(wire, Hand)
      /\ \A u : /\ Ahead(z, u) <=> Ahead(wire, u) /\ Ahead(Hand, u)
                /\ Ahead(u, z) <=> Ahead(u, wire) /\ Ahead(u, Hand)
      /\ Seqs(z) = Seqs(wire) \union Seqs(Hand)
      /\ \A c, Q : Older(z, c, Q) <=> Older(wire, c, Q) /\ Older(Hand, c, Q)
    BY <1>2, Parts
<1> HIDE DEF z
<1>5. StreamInOrder /\ OneFate /\ SentCount /\ InOrder(Hand)
      /\ \A x \in {wire, Hand, tcp_queue, Built} : Older(x, cycle, ToSet(items))
    BY ShortStreams DEF Stream, OlderThanQueued, Hand
<1>6. StreamInOrder'
    BY <1>1, <1>3, <1>4, <1>5, ShortStreams DEF StreamInOrder
<1>7. OneFate'
    <2>1. OnTheWay' = OnTheWay
        BY <1>1, <1>3, <1>4, ShortStreams DEF OnTheWay
    <2> QED BY <1>1, <1>5, <2>1 DEF OneFate
<1>8. SentCount'
    BY <1>1, <1>5 DEF SentCount
<1>9. \A x \in {wire, Hand, tcp_queue, Built}' : Older(x, cycle, ToSet(items))
    BY <1>1, <1>3, <1>4, <1>5, ShortStreams
<1> QED BY <1>1, <1>6, <1>7, <1>8, <1>9, MovedStream

\* With nobody there, the server throws the oldest packet away.
LEMMA DiscardStream ==
    ASSUME Records, Stream, TcpServer, Discard
    PROVE  Stream'
<1>1. /\ UNCHANGED <<items, cycle, loop.seq, Built, state.packets_sent>>
      /\ UNCHANGED <<wire, Hand>>
    <2>1. UNCHANGED <<wire, tcp>>
        BY DEF Discard
    <2> QED BY <2>1, ServerLeaves DEF Hand, TcpAt
<1> DEFINE h == <<Head(tcp_queue)>>
           t == Tail(tcp_queue)
<1>2. h \in Seq(Packet) /\ t \in Seq(Packet) /\ tcp_queue = h \o t
    <2>1. tcp_queue \in Seq(Packet) /\ tcp_queue # <<>>
        BY DEF Discard, Records, ChannelType
    <2>2. Head(tcp_queue) \in Packet /\ t \in Seq(Packet) /\ tcp_queue = h \o t
        BY <2>1, HeadAndTail
    <2> QED BY <2>2
<1>3. tcp_queue' = t /\ lost' = lost \union Seqs(h)
    BY ShortStreams DEF Discard
<1> HIDE DEF h, t
<1>4. /\ InOrder(tcp_queue) <=> InOrder(h) /\ InOrder(t) /\ Ahead(h, t)
      /\ \A u : /\ Ahead(tcp_queue, u) <=> Ahead(h, u) /\ Ahead(t, u)
                /\ Ahead(u, tcp_queue) <=> Ahead(u, h) /\ Ahead(u, t)
      /\ Seqs(tcp_queue) = Seqs(h) \union Seqs(t)
      /\ \A c, Q : Older(tcp_queue, c, Q) <=> Older(h, c, Q) /\ Older(t, c, Q)
    BY <1>2, Parts
<1>5. StreamInOrder /\ OneFate /\ SentCount
      /\ \A x \in {wire, Hand, tcp_queue, Built} : Older(x, cycle, ToSet(items))
    BY DEF Stream, OlderThanQueued
<1>6. StreamInOrder'
    BY <1>1, <1>3, <1>4, <1>5 DEF StreamInOrder
<1>7. OneFate'
    <2>1. Seqs(h) \intersect Seqs(t) = {}
        <3> SUFFICES ASSUME NEW i \in 1 .. Len(h), NEW j \in 1 .. Len(t),
                            h[i].seq = t[j].seq
                     PROVE  FALSE
            BY DEF Seqs
        <3>1. h[i] \in Packet /\ h[i].seq < t[j].seq
            BY <1>2, <1>4, <1>5, ElementOfSeq DEF StreamInOrder, Ahead, Precedes
        <3> QED BY <3>1 DEF Packet
    <2>2. /\ Seqs(h) \intersect Seqs(wire) = {}
          /\ Seqs(h) \intersect Seqs(Hand) = {}
          /\ Seqs(h) \intersect Seqs(Built) = {}
        BY <1>4, <1>5, ApartStreams
    <2> QED BY <1>1, <1>3, <1>4, <1>5, <2>1, <2>2 DEF OneFate, OnTheWay
<1>8. SentCount'
    BY <1>1, <1>5 DEF SentCount
<1>9. \A x \in {wire, Hand, tcp_queue, Built}' : Older(x, cycle, ToSet(items))
    BY <1>1, <1>3, <1>4, <1>5
<1> QED BY <1>1, <1>6, <1>7, <1>8, <1>9, MovedStream

\* The connection goes, and with it what the server holds.
LEMMA HangupStream ==
    ASSUME Records, Stream, Hand' = <<>>, tcp_queue' = <<>>,
           lost' = lost \union Seqs(Hand) \union Seqs(tcp_queue),
           UNCHANGED <<items, cycle, wire, Built, loop.seq, state.packets_sent>>
    PROVE  Stream'
<1>1. StreamInOrder /\ OneFate /\ SentCount
      /\ \A x \in {wire, Hand, tcp_queue, Built} : Older(x, cycle, ToSet(items))
    BY DEF Stream, OlderThanQueued
<1>2. StreamInOrder'
    BY <1>1, ShortStreams DEF StreamInOrder
<1>3. OneFate'
    <2>1. OnTheWay' = Seqs(wire) \union Seqs(Built)
        BY ShortStreams DEF OnTheWay
    <2>2. /\ Seqs(wire) \intersect Seqs(Hand) = {}
          /\ Seqs(wire) \intersect Seqs(tcp_queue) = {}
          /\ Seqs(Hand) \intersect Seqs(Built) = {}
          /\ Seqs(tcp_queue) \intersect Seqs(Built) = {}
        BY <1>1, ApartStreams
    <2> QED BY <1>1, <2>1, <2>2 DEF OneFate, OnTheWay
<1>4. SentCount'
    BY <1>1 DEF SentCount
<1>5. \A x \in {wire, Hand, tcp_queue, Built}' : Older(x, cycle, ToSet(items))
    BY <1>1, ShortStreams
<1> QED BY <1>2, <1>3, <1>4, <1>5, MovedStream

LEMMA LoopKeepsStream ==
    ASSUME BufferTypeOK, Records, Stream, Loop
    PROVE  Stream'
<1> USE DEF LoopAt, TcpAt
<1>1. /\ loop \in [pc : {"check", "fill", "visibility", "drain", "send", "sleep",
                         "done", "shut"},
                   seq : Nat, popped : 0 .. MaxBatch, opened : BOOLEAN,
                   open_time : Nat, wake : Nat, packet : Packet \union {NoPacket}]
      /\ state \in [packets_sent : Nat, alerts_sent : Nat,
                    degraded_mode : BOOLEAN, gcs_connected : BOOLEAN]
    BY DEF Records, LoopType, StateType
<1>2. CASE Abort
    <2>1. /\ loop.pc = "done" /\ loop' = [loop EXCEPT !.pc = "shut"]
          /\ tcp' = [tcp EXCEPT !.pc = IF @ = "ended" THEN @ ELSE "aborted",
                                !.packet = NoPacket]
        BY <1>2 DEF Abort
    <2>2. UNCHANGED <<Built, loop.seq>>
        BY <1>1, <2>1 DEF Built
    <2>3. tcp'.pc # "write"
        BY <2>1 DEF Records, TcpType
    <2>4. Seqs(Hand) = InHand
        BY ShortStreams DEF Hand, InHand
    <2>5. /\ UNCHANGED <<items, cycle, wire, state>>
          /\ tcp_queue' = <<>> /\ lost' = lost \union Seqs(Hand) \union Seqs(tcp_queue)
        BY <1>2, <2>4 DEF Abort, bufferVars
    <2> QED BY <2>2, <2>3, <2>5, HangupStream DEF Hand
<1>3. CASE CheckTime \/ CheckFill \/ CheckVisibility \/ EndDrain \/ WakeUp
    <2>1. /\ UNCHANGED <<items, cycle, wire, tcp, tcp_queue, lost>>
          /\ loop.pc \in {"check", "fill", "visibility", "drain", "sleep"}
        BY <1>3 DEF CheckTime, CheckFill, CheckVisibility, EndDrain, WakeUp, tcpVars,
                    bufferVars
    <2>2. loop'.pc # "send" /\ loop'.seq = loop.seq
        BY <1>1, <1>3 DEF CheckTime, CheckFill, CheckVisibility, EndDrain, WakeUp
    <2>3. UNCHANGED state.packets_sent
        BY <1>1, <1>3 DEF CheckTime, CheckFill, CheckVisibility, EndDrain, WakeUp
    <2>4. UNCHANGED <<Hand, Built>>
        BY <2>1, <2>2 DEF Hand, Built
    <2> QED BY <2>1, <2>2, <2>3, <2>4, StillStream
<1> QED BY <1>2, <1>3, PopStream, SendStream DEF Loop

LEMMA ServerKeepsStream ==
    ASSUME Records, Stream, TcpServer
    PROVE  Stream'
<1> USE DEF TcpAt
<1>1. UNCHANGED <<items, cycle, loop.seq, Built, state.packets_sent>>
    BY ServerLeaves
<1>2. tcp \in [pc : {"bind", "accept", "discard", "stream", "write", "ended",
                     "aborted"},
               give_up : Nat, packet : Packet \union {NoPacket}]
    BY DEF Records, TcpType
<1>3. ASSUME CloseTcp(Seqs(Hand)), ~ Write PROVE Stream'
    <2>1. Hand' = <<>>
        BY <1>3 DEF CloseTcp, Hand
    <2> QED BY <1>1, <1>3, <2>1, TcpLeaves, HangupStream DEF CloseTcp
<1>4. /\ tcp.pc = "write" => Seqs(Hand) = {tcp.packet.seq}
      /\ tcp.pc # "write" => Seqs(Hand) = {}
    BY ShortStreams DEF Hand
<1>5. CASE Accept \/ AcceptTimeout \/ (BindTcp /\ ~ CloseTcp({}))
    <2>1. UNCHANGED <<tcp_queue, lost, wire>>
        BY <1>5 DEF Accept, AcceptTimeout, BindTcp
    <2>2. tcp.pc # "write" /\ tcp'.pc # "write"
        BY <1>2, <1>5 DEF Accept, AcceptTimeout, BindTcp
    <2>3. UNCHANGED Hand
        BY <2>2 DEF Hand
    <2> QED BY <1>1, <2>1, <2>3, StillStream
<1>6. CASE AcceptError \/ EndOfStream \/ (BindTcp /\ CloseTcp({}))
    <2>1. tcp.pc # "write" /\ CloseTcp({})
        BY <1>6 DEF AcceptError, EndOfStream, BindTcp
    <2> QED BY <1>3, <1>4, <2>1 DEF Write
<1>7. CASE WriteError
    <2>1. tcp.pc = "write" /\ CloseTcp({tcp.packet.seq}) /\ UNCHANGED wire
        BY <1>7 DEF WriteError
    <2>2. Hand' = <<>>
        BY <2>1 DEF CloseTcp, Hand
    <2> QED BY <1>1, <1>4, <2>1, <2>2, HangupStream DEF CloseTcp
<1> QED BY <1>5, <1>6, <1>7, ReceiveStream, WriteStream, DiscardStream DEF TcpServer

\* Every step keeps the stream as it should be.
LEMMA NextKeepsStream ==
    ASSUME BufferTypeOK, Records, Stream, [Next]_vars
    PROVE  Stream'
<1>1. CASE UdpBroadcaster \/ Heartbeat \/ Tick \/ UNCHANGED vars
    <2>1. UNCHANGED <<bufferVars, cycle, loop, state, tcp_queue, tcp, wire, lost>>
        BY <1>1, OthersLeave
    <2>2. UNCHANGED <<Hand, Built>>
        BY <2>1 DEF Hand, Built, TcpAt, LoopAt
    <2> QED BY <2>1, <2>2, StillStream DEF bufferVars
<1> QED BY <1>1, LoopKeepsStream, ServerKeepsStream, ProduceStream DEF Next

LEMMA LoopKeepsFlag ==
    ASSUME StateType, Loop
    PROVE  UNCHANGED state.gcs_connected
<1>1. CASE CheckFill
    BY <1>1 DEF CheckFill, StateType
<1>2. CASE CheckVisibility
    BY <1>2 DEF CheckVisibility, StateType
<1>3. CASE SendPacket
    BY <1>3 DEF SendPacket, StateType
<1>4. CASE CheckTime \/ PopReading \/ EndDrain \/ WakeUp \/ Abort
    BY <1>4 DEF CheckTime, PopReading, EndDrain, WakeUp, Abort
<1> QED BY <1>1, <1>2, <1>3, <1>4 DEF Loop

\* The flag and the connection.
LEMMA NextKeepsConnection ==
    ASSUME Records, Connection, [Next]_vars
    PROVE  Connection'
<1> USE DEF LoopAt, TcpAt
<1>1. /\ tcp \in [pc : {"bind", "accept", "discard", "stream", "write", "ended",
                        "aborted"},
                  give_up : Nat, packet : Packet \union {NoPacket}]
      /\ state \in [packets_sent : Nat, alerts_sent : Nat,
                    degraded_mode : BOOLEAN, gcs_connected : BOOLEAN]
      /\ loop \in [pc : {"check", "fill", "visibility", "drain", "send", "sleep",
                         "done", "shut"},
                   seq : Nat, popped : 0 .. MaxBatch, opened : BOOLEAN,
                   open_time : Nat, wake : Nat, packet : Packet \union {NoPacket}]
    BY DEF Records, LoopType, StateType, TcpType
<1>2. CASE Loop
    <2>1. /\ UNCHANGED <<wire, state.gcs_connected>>
          /\ loop.pc = "done" => loop'.pc = "shut"
          /\ loop.pc # "shut"
        <3>1. UNCHANGED state.gcs_connected
            BY <1>2, LoopKeepsFlag DEF Records
        <3>2. /\ loop.pc = "done" => loop'.pc = "shut"
              /\ loop.pc # "shut"
            BY <1>1, <1>2 DEF Loop, CheckTime, CheckFill, CheckVisibility,
                              PopReading, SendPacket, EndDrain, WakeUp, Abort
        <3> QED BY <1>2, <3>1, <3>2, LoopLeaves
    <2>2. CASE Abort
        <3>1. tcp'.pc \in {"ended", "aborted"} /\ loop'.pc = "shut"
            <4>1. /\ tcp' = [tcp EXCEPT !.pc = IF @ = "ended" THEN @ ELSE "aborted",
                                        !.packet = NoPacket]
                  /\ loop' = [loop EXCEPT !.pc = "shut"]
                BY <2>2 DEF Abort
            <4> QED BY <1>1, <4>1
        <3> QED BY <3>1 DEF Connection
    <2>3. CASE ~ Abort
        <3>1. UNCHANGED tcp
            BY <1>2, <2>3, LoopLeaves
        <3> QED BY <2>1, <3>1 DEF Connection
    <2> QED BY <2>2, <2>3
<1>3. CASE TcpServer
    <2>1. UNCHANGED loop
        BY <1>3, TcpLeaves
    <2>2. CASE BindTcp
        <3>1. tcp.pc = "bind" /\ UNCHANGED <<state, wire>>
            BY <2>2 DEF BindTcp
        <3>2. tcp'.pc = "accept" \/ tcp'.pc = "ended"
            <4>1. CASE tcp' = [tcp EXCEPT !.pc = "accept",
                                          !.give_up = now + ConnectTimeout]
                BY <1>1, <4>1
            <4>2. CASE CloseTcp({})
                BY <4>2 DEF CloseTcp
            <4> QED BY <2>2, <4>1, <4>2 DEF BindTcp
        <3> QED BY <2>1, <3>1, <3>2 DEF Connection
    <2>3. CASE Accept
        <3>1. tcp'.pc = "stream" /\ state'.gcs_connected
            BY <1>1, <2>3 DEF Accept
        <3> QED BY <3>1 DEF Connection
    <2>4. CASE AcceptTimeout
        <3>1. tcp'.pc = "discard" /\ tcp.pc = "accept" /\ UNCHANGED <<state, wire>>
            BY <1>1, <2>4 DEF AcceptTimeout
        <3> QED BY <3>1 DEF Connection
    <2>5. CASE AcceptError \/ EndOfStream
        <3>1. /\ tcp'.pc = "ended" /\ UNCHANGED state
              /\ tcp.pc = "accept" \/ loop.pc = "done"
            BY <2>5 DEF AcceptError, EndOfStream, CloseTcp
        <3> QED BY <2>1, <3>1 DEF Connection
    <2>6. CASE WriteError
        <3>1. tcp'.pc = "ended" /\ ~ state'.gcs_connected
            BY <1>1, <2>6 DEF WriteError, CloseTcp
        <3> QED BY <3>1 DEF Connection
    <2>7. CASE Discard
        <3>1. UNCHANGED <<tcp, state, wire>>
            BY <2>7 DEF Discard
        <3> QED BY <2>1, <3>1 DEF Connection
    <2>8. CASE Receive \/ Write
        <3>1. /\ tcp.pc \in {"stream", "write"} /\ tcp'.pc \in {"stream", "write"}
              /\ UNCHANGED state
            BY <1>1, <2>8 DEF Receive, Write
        <3> QED BY <3>1 DEF Connection
    <2> QED BY <1>3, <2>2, <2>3, <2>4, <2>5, <2>6, <2>7, <2>8 DEF TcpServer
<1>4. CASE UdpBroadcaster \/ Heartbeat \/ Tick \/ UNCHANGED vars
    BY <1>4, OthersLeave DEF Connection
<1>5. ASSUME NEW s \in Sensors, Produce(s) PROVE Connection'
    BY <1>5, ProduceLeaves DEF Connection
<1> QED BY <1>2, <1>3, <1>4, <1>5 DEF Next

LEMMA InitInv ==
    ASSUME Init
    PROVE  Inv
<1>1. /\ <<>> \in Seq(SensorReading) /\ <<>> \in Seq(Packet) /\ <<>> \in Seq(Message)
      /\ Len(<<>>) = 0 /\ ToSet(<<>>) = {} /\ 1 .. 0 = {}
    BY DEF ToSet
<1>2. BufferTypeOK
    BY <1>1, CapacityAssumption DEF Init, BufferInit, BufferTypeOK
<1>3. Records
    <2>1. LoopType
        BY DownlinkAssumption DEF Init, LoopType, LoopAt
    <2>2. StateType /\ TcpType
        BY DEF Init, StateType, TcpType, TcpAt
    <2>3. ChannelType /\ AlertType
        BY <1>1, DownlinkAssumption DEF Init, ChannelType, AlertType
    <2>4. now \in Nat /\ cycle \in [Sensors -> Nat] /\ wire \in Seq(Packet)
        BY <1>1 DEF Init
    <2> QED BY <2>1, <2>2, <2>3, <2>4 DEF Records
<1>4. /\ items = <<>> /\ wire = <<>> /\ Hand = <<>> /\ tcp_queue = <<>>
      /\ Built = <<>> /\ lost = {} /\ loop.seq = 0 /\ state.packets_sent = 0
    BY DEF Init, BufferInit, Hand, Built, LoopAt, TcpAt
<1>5. QueueInv
    BY <1>1, <1>4 DEF QueueInv, Ordered
<1>6. StreamInOrder /\ OlderThanQueued
    BY <1>4, ShortStreams DEF StreamInOrder, OlderThanQueued
<1>7. OneFate /\ SentCount
    BY <1>1, <1>4, ShortStreams DEF OneFate, OnTheWay, SentCount
<1>8. Connection
    BY DEF Init, Connection, TcpAt
<1> QED BY <1>2, <1>3, <1>5, <1>6, <1>7, <1>8 DEF Inv

LEMMA NextKeepsInv ==
    ASSUME Inv, [Next]_vars
    PROVE  Inv'
<1>1. BufferTypeOK /\ Records /\ Stream /\ Connection
    BY DEF Inv, Stream
<1>2. BufferTypeOK' /\ Records'
    BY <1>1, NextKeepsRecords DEF Stream
<1>3. Stream' /\ Connection'
    BY <1>1, NextKeepsStream, NextKeepsConnection
<1> QED BY <1>2, <1>3 DEF Inv, Stream

\* The invariant the results about a3_downlink.rs rest on.
THEOREM InvHolds == Spec => []Inv
<1>1. Init => Inv
    BY InitInv
<1>2. Inv /\ [Next]_vars => Inv'
    BY NextKeepsInv
<1> QED BY <1>1, <1>2, PTL DEF Spec

-----------------------------------------------------------------------------
(* What the runs check.                                                    *)

\* The types of the records and channels of a3_downlink.rs, and that the channels
\* hold no more than their capacity.
THEOREM Typed == Spec => []TypeOK
<1>1. Inv => TypeOK
    <2> SUFFICES ASSUME Inv PROVE TypeOK
        OBVIOUS
    <2>1. /\ BufferTypeOK /\ wire \in Seq(Packet)
          /\ LoopType /\ StateType /\ TcpType /\ ChannelType /\ AlertType
        BY DEF Inv, Records
    <2> QED BY <2>1 DEF TypeOK, LoopType, StateType, TcpType, ChannelType, AlertType
<1> QED BY <1>1, InvHolds, PTL

\* Packets reach the ground in the order of their numbers, and the readings of a
\* sensor in the order they were taken, although sensors push while the loop pops,
\* a full buffer evicts, and both ends of the channel may fail.
THEOREM GroundSeesOrder == Spec => []WireInOrder
<1>1. Inv => WireInOrder
    BY DEF Inv, StreamInOrder, InOrder, Precedes, WireInOrder
<1> QED BY <1>1, InvHolds, PTL

\* gcs_connected is up while the server streams, stays down once it has given up
\* waiting, and is left up only by the end of the run.
THEOREM FlagTellsTheTruth == Spec => []ConnectedFlagIsTrue
<1>1. Inv => ConnectedFlagIsTrue
    BY DEF Inv, Connection, ConnectedFlagIsTrue, TcpAt, LoopAt
<1> QED BY <1>1, InvHolds, PTL

\* A stream in order holds as many numbers as packets.
LEMMA CountOfStream ==
    ASSUME NEW x \in Seq(Packet), InOrder(x)
    PROVE  IsFiniteSet(Seqs(x)) /\ Cardinality(Seqs(x)) = Len(x)
<1>1. Len(x) \in Nat /\ \A i \in 1 .. Len(x) : x[i].seq \in Nat
    <2>1. \A i \in 1 .. Len(x) : x[i] \in Packet
        BY ElementOfSeq
    <2> QED BY <2>1 DEF Packet
<1> DEFINE f == [i \in 1 .. Len(x) |-> x[i].seq]
<1>2. /\ f \in [1 .. Len(x) -> Seqs(x)]
      /\ \A n \in Seqs(x) : \E i \in 1 .. Len(x) : f[i] = n
    BY DEF Seqs
<1>3. \A i, j \in 1 .. Len(x) : f[i] = f[j] => i = j
    <2> SUFFICES ASSUME NEW i \in 1 .. Len(x), NEW j \in 1 .. Len(x), i < j
                 PROVE  x[i].seq # x[j].seq
        BY <1>1
    <2> QED BY <1>1 DEF InOrder, Precedes
<1> HIDE DEF f
<1>4. ExistsBijection(1 .. Len(x), Seqs(x))
    BY <1>2, <1>3 DEF ExistsBijection, Bijection, Injection, Surjection,
                      IsInjective
<1>5. Cardinality(Seqs(x)) = Len(x)
    BY <1>1, <1>4, FS_CountingElements
<1>6. IsFiniteSet(Seqs(x))
    BY <1>1, <1>4, FS_NatBijection
<1> QED BY <1>5, <1>6

LEMMA CountOfUnion ==
    ASSUME NEW S, IsFiniteSet(S), NEW T, IsFiniteSet(T), S \intersect T = {}
    PROVE  /\ IsFiniteSet(S \union T)
           /\ Cardinality(S \union T) = Cardinality(S) + Cardinality(T)
<1>1. Cardinality(S \intersect T) = 0
    BY FS_EmptySet
<1>2. Cardinality(S) \in Nat /\ Cardinality(T) \in Nat
    BY FS_CardinalityType
<1>3. /\ IsFiniteSet(S \union T)
      /\ Cardinality(S \union T)
           = Cardinality(S) + Cardinality(T) - Cardinality(S \intersect T)
    BY FS_Union
<1> QED BY <1>1, <1>2, <1>3

\* Every packet that PopReading numbers is in one place only, and the counts of
\* DownlinkState and of the channel add up.
THEOREM NoPacketUnaccounted == Spec => []PacketsAccounted
<1>1. Inv => PacketsAccounted
    <2> SUFFICES ASSUME Inv PROVE PacketsAccounted
        OBVIOUS
    <2>1. Records /\ StreamInOrder /\ OneFate /\ SentCount
        BY DEF Inv
    <2> DEFINE held == IF LoopAt("send") THEN {loop.packet.seq} ELSE {}
    <2>2. InHand = Seqs(Hand) /\ held = Seqs(Built)
        BY ShortStreams DEF InHand, Hand, Built, TcpAt
    <2> HIDE DEF held
    <2>3. /\ wire \in Seq(Packet) /\ Hand \in Seq(Packet)
          /\ tcp_queue \in Seq(Packet) /\ Built \in Seq(Packet)
          /\ loop.seq \in Nat /\ state.packets_sent \in Nat
        BY <2>1, StreamTypes
    <2>4. InOrder(wire) /\ InOrder(tcp_queue) /\ InOrder(Hand) /\ InOrder(Built)
        BY <2>1, ShortStreams DEF StreamInOrder, Hand, Built
    <2> DEFINE W == Seqs(wire)
               H == Seqs(Hand)
               Q == Seqs(tcp_queue)
               B == Seqs(Built)
    <2>5. /\ IsFiniteSet(W) /\ Cardinality(W) = Len(wire)
          /\ IsFiniteSet(H) /\ IsFiniteSet(B)
          /\ IsFiniteSet(Q) /\ Cardinality(Q) = Len(tcp_queue)
          /\ Cardinality(B) = Len(Built)
        BY <2>3, <2>4, CountOfStream
    <2>6. /\ W \intersect H = {} /\ W \intersect Q = {} /\ W \intersect B = {}
          /\ H \intersect Q = {} /\ H \intersect B = {} /\ Q \intersect B = {}
        BY <2>1, ApartStreams
    <2>7. /\ W \union H \union Q \union B \union lost = 1 .. loop.seq
          /\ (W \union H \union Q \union B) \intersect lost = {}
        BY <2>1 DEF OneFate, OnTheWay
    <2> HIDE DEF W, H, Q, B
    <2>8. IsFiniteSet(1 .. loop.seq) /\ Cardinality(1 .. loop.seq) = loop.seq
        <3>1. 1 \in Int /\ loop.seq \in Int /\ (1 > loop.seq <=> loop.seq = 0)
            BY <2>3
        <3>2. /\ IsFiniteSet(1 .. loop.seq)
              /\ Cardinality(1 .. loop.seq)
                   = IF 1 > loop.seq THEN 0 ELSE loop.seq - 1 + 1
            BY <3>1, FS_Interval
        <3> QED BY <2>3, <3>1, <3>2
    <2>9. IsFiniteSet(lost)
        BY <2>7, <2>8, FS_Subset
    <2>10. /\ IsFiniteSet(W \union H)
           /\ Cardinality(W \union H) = Cardinality(W) + Cardinality(H)
        BY <2>5, <2>6, CountOfUnion
    <2>11. /\ IsFiniteSet(W \union H \union Q)
           /\ Cardinality(W \union H \union Q)
                = Cardinality(W \union H) + Cardinality(Q)
        <3>1. (W \union H) \intersect Q = {}
            BY <2>6
        <3> QED BY <2>5, <2>10, <3>1, CountOfUnion
    <2>12. /\ IsFiniteSet(W \union H \union Q \union B)
           /\ Cardinality(W \union H \union Q \union B)
                = Cardinality(W \union H \union Q) + Cardinality(B)
        <3>1. (W \union H \union Q) \intersect B = {}
            BY <2>6
        <3> QED BY <2>5, <2>11, <3>1, CountOfUnion
    <2>13. Cardinality(W \union H \union Q \union B \union lost)
             = Cardinality(W \union H \union Q \union B) + Cardinality(lost)
        BY <2>7, <2>9, <2>12, CountOfUnion
    <2>14. /\ Cardinality(W) \in Nat /\ Cardinality(H) \in Nat
           /\ Cardinality(Q) \in Nat /\ Cardinality(B) \in Nat
           /\ Cardinality(lost) \in Nat
        BY <2>5, <2>9, FS_CardinalityType
    <2>15. loop.seq = Cardinality(W) + Cardinality(H) + Cardinality(Q)
                        + Cardinality(B) + Cardinality(lost)
        BY <2>3, <2>7, <2>8, <2>10, <2>11, <2>12, <2>13, <2>14
    <2>16. Len(wire) + Len(tcp_queue) + Cardinality(InHand)
             + Cardinality(held) + Cardinality(lost) = loop.seq
        BY <2>2, <2>5, <2>14, <2>15 DEF H, B
    <2>17. Seqs(wire) \union Seqs(tcp_queue) \union InHand \union held
             \union lost = 1 .. loop.seq
        BY <2>2, <2>7 DEF W, H, Q, B
    <2>18. state.packets_sent + Cardinality(held) = loop.seq
        BY <2>1, <2>2, <2>5 DEF SentCount, B
    <2> QED BY <2>16, <2>17, <2>18 DEF PacketsAccounted, held
<1> QED BY <1>1, InvHolds, PTL

-----------------------------------------------------------------------------
(* The downlink is the link of TelemetryLink.                              *)

Numbers == [i \in 1 .. Len(wire) |-> wire[i].seq]

\* What TelemetryLink says may still be written or given up is what the server,
\* the channel and the loop hold.
LEMMA PendingIsHeld ==
    ASSUME Records, StreamInOrder, OneFate
    PROVE  Link!Pending = Seqs(Hand) \union Seqs(tcp_queue) \union Seqs(Built)
<1>1. wire \in Seq(Packet)
    BY StreamTypes
<1>2. Len(Numbers) = Len(wire) /\ \A i \in 1 .. Len(wire) : Numbers[i] = wire[i].seq
    BY <1>1 DEF Numbers
<1>3. Link!Written = Seqs(wire)
    BY <1>2 DEF Link!Written, Seqs, Numbers
<1>4. Link!Pending = (1 .. loop.seq) \ (Seqs(wire) \union lost)
    BY <1>3 DEF Link!Pending
<1>5. /\ Seqs(wire) \intersect Seqs(Hand) = {}
      /\ Seqs(wire) \intersect Seqs(tcp_queue) = {}
      /\ Seqs(wire) \intersect Seqs(Built) = {}
    BY ApartStreams
<1> QED BY <1>4, <1>5 DEF OneFate, OnTheWay

LEMMA LinkStutters ==
    ASSUME UNCHANGED <<loop.seq, wire, lost>>, UNCHANGED Phase
    PROVE  UNCHANGED Link!linkVars
<1>1. UNCHANGED Numbers
    BY DEF Numbers
<1> QED BY <1>1 DEF Link!linkVars, Numbers

\* Giving packets up, with the connection or without.
LEMMA LinkGivesUp ==
    ASSUME Records, StreamInOrder, OneFate, UNCHANGED <<loop.seq, wire>>,
           NEW S, lost' = lost \union S,
           S \subseteq Seqs(Hand) \union Seqs(tcp_queue) \union Seqs(Built),
           \/ UNCHANGED Phase
           \/ Phase # "over" /\ Phase' = "over"
    PROVE  Link!LinkNext
<1>1. S \subseteq Link!Pending
    BY PendingIsHeld
<1>2. UNCHANGED Numbers
    BY DEF Numbers
<1>3. Link!GiveUpSome(S)
    BY <1>1, <1>2 DEF Link!GiveUpSome, Numbers
<1>4. Link!Lose(S) \/ Link!Close(S)
    BY <1>3 DEF Link!Lose, Link!Close
<1> QED BY <1>1, <1>4 DEF Link!LinkNext

LEMMA LoopIsLink ==
    ASSUME Inv, Loop
    PROVE  Link!LinkNext \/ UNCHANGED Link!linkVars
<1> USE DEF LoopAt, TcpAt
<1>1. /\ tcp \in [pc : {"bind", "accept", "discard", "stream", "write", "ended",
                        "aborted"},
                  give_up : Nat, packet : Packet \union {NoPacket}]
      /\ loop \in [pc : {"check", "fill", "visibility", "drain", "send", "sleep",
                         "done", "shut"},
                   seq : Nat, popped : 0 .. MaxBatch, opened : BOOLEAN,
                   open_time : Nat, wake : Nat, packet : Packet \union {NoPacket}]
      /\ Records /\ StreamInOrder /\ OneFate
    BY DEF Inv, Records, LoopType, TcpType
<1>2. CASE PopReading
    <2>1. loop'.seq = loop.seq + 1 /\ UNCHANGED <<wire, lost, tcp>>
        BY <1>1, <1>2 DEF PopReading, tcpVars
    <2>2. UNCHANGED Numbers /\ UNCHANGED Phase
        BY <2>1 DEF Numbers, Phase
    <2>3. Link!Issue
        BY <2>1, <2>2 DEF Link!Issue, Numbers
    <2> QED BY <2>3 DEF Link!LinkNext
<1>3. CASE SendPacket
    <2>1. UNCHANGED <<loop.seq, wire>> /\ UNCHANGED Phase
        <3>1. UNCHANGED <<wire, tcp>> /\ loop' = [loop EXCEPT !.pc = "drain",
                                                            !.packet = NoPacket]
            BY <1>3 DEF SendPacket
        <3> QED BY <1>1, <3>1 DEF Phase
    <2>2. Seqs(Built) = {loop.packet.seq}
        BY <1>3, ShortStreams DEF SendPacket, Built
    <2>3. CASE UNCHANGED lost
        BY <2>1, <2>3, LinkStutters
    <2>4. CASE lost' = lost \union {loop.packet.seq}
        BY <1>1, <2>1, <2>2, <2>4, LinkGivesUp
    <2> QED BY <1>3, <2>3, <2>4 DEF SendPacket
<1>4. CASE Abort
    <2>1. /\ tcp' = [tcp EXCEPT !.pc = IF @ = "ended" THEN @ ELSE "aborted",
                                !.packet = NoPacket]
          /\ loop' = [loop EXCEPT !.pc = "shut"]
          /\ lost' = lost \union InHand \union Seqs(tcp_queue)
          /\ UNCHANGED wire
        BY <1>4 DEF Abort
    <2>2. Seqs(Hand) = InHand
        BY ShortStreams DEF Hand, InHand
    <2>3. tcp'.pc \in {"ended", "aborted"}
        BY <1>1, <2>1
    <2>4. Phase' = "over" /\ (UNCHANGED Phase \/ Phase # "over")
        BY <2>3 DEF Phase
    <2>5. UNCHANGED <<loop.seq, wire>>
        BY <1>1, <2>1
    <2> DEFINE S == InHand \union Seqs(tcp_queue)
    <2>6. /\ lost' = lost \union S
          /\ S \subseteq Seqs(Hand) \union Seqs(tcp_queue) \union Seqs(Built)
        BY <2>1, <2>2
    <2> HIDE DEF S
    <2> QED BY <1>1, <2>4, <2>5, <2>6, LinkGivesUp
<1>5. CASE CheckTime \/ CheckFill \/ CheckVisibility \/ EndDrain \/ WakeUp
    <2>1. UNCHANGED <<wire, lost, tcp>>
        BY <1>5 DEF CheckTime, CheckFill, CheckVisibility, EndDrain, WakeUp, tcpVars
    <2>2. UNCHANGED loop.seq
        BY <1>1, <1>5 DEF CheckTime, CheckFill, CheckVisibility, EndDrain, WakeUp
    <2>3. UNCHANGED Phase
        BY <2>1 DEF Phase
    <2> QED BY <2>1, <2>2, <2>3, LinkStutters
<1> QED BY <1>2, <1>3, <1>4, <1>5 DEF Loop

\* What the server writes is the oldest packet not given up.
LEMMA WriteIsDeliver ==
    ASSUME Records, StreamInOrder, OneFate, TcpServer, Write
    PROVE  Link!LinkNext
<1> USE DEF TcpAt
<1>1. /\ tcp \in [pc : {"bind", "accept", "discard", "stream", "write", "ended",
                        "aborted"},
                  give_up : Nat, packet : Packet \union {NoPacket}]
      /\ tcp.pc = "write" /\ tcp.packet \in Packet /\ wire \in Seq(Packet)
      /\ tcp' = [tcp EXCEPT !.pc = "stream", !.packet = NoPacket]
    BY DEF Records, TcpType, Write
<1>2. Phase = "streaming" /\ UNCHANGED Phase
    BY <1>1 DEF Phase
<1> DEFINE n == tcp.packet.seq
<1>3. n \in Nat
    BY <1>1 DEF Packet
<1>4. Hand = <<tcp.packet>> /\ Seqs(Hand) = {n}
    BY <1>1, ShortStreams DEF Hand
<1>5. n \in Link!Pending
    BY <1>4, PendingIsHeld
<1>6. ASSUME NEW m \in Link!Pending PROVE n <= m
    <2>1. CASE m = n
        BY <1>3, <2>1
    <2>2. ASSUME NEW y, Ahead(Hand, y), m \in Seqs(y) PROVE n < m
        <3>1. Len(Hand) = 1 /\ Hand[1] = tcp.packet
            BY <1>4
        <3> QED BY <2>2, <3>1 DEF Ahead, Precedes, Seqs
    <2>3. m \in {n} \union Seqs(tcp_queue) \union Seqs(Built)
        BY <1>4, PendingIsHeld
    <2>4. m \in Nat
        BY StreamTypes DEF Link!Pending
    <2> QED BY <1>3, <2>1, <2>2, <2>3, <2>4 DEF StreamInOrder
<1>7. Numbers' = Append(Numbers, n)
    <2>1. wire' = Append(wire, tcp.packet)
        BY DEF Write
    <2>2. /\ Len(wire') = Len(wire) + 1 /\ Len(wire) \in Nat
          /\ \A i \in 1 .. Len(wire) : wire'[i] = wire[i]
          /\ wire'[Len(wire) + 1] = tcp.packet
        BY <1>1, <2>1, AppendProperties
    <2>3. \A i \in 1 .. Len(wire) : wire[i].seq \in Nat
        <3>1. \A i \in 1 .. Len(wire) : wire[i] \in Packet
            BY <1>1, ElementOfSeq
        <3> QED BY <3>1 DEF Packet
    <2>4. Numbers \in Seq(Nat) /\ Len(Numbers) = Len(wire)
        BY <2>2, <2>3 DEF Numbers
    <2>5. /\ Append(Numbers, n) \in Seq(Nat)
          /\ Len(Append(Numbers, n)) = Len(wire) + 1
          /\ \A i \in 1 .. Len(wire) : Append(Numbers, n)[i] = Numbers[i]
          /\ Append(Numbers, n)[Len(wire) + 1] = n
        BY <1>3, <2>4, AppendProperties
    <2>6. /\ Numbers' \in Seq(Nat) /\ Len(Numbers') = Len(wire) + 1
          /\ \A i \in 1 .. Len(wire) : Numbers'[i] = Numbers[i]
          /\ Numbers'[Len(wire) + 1] = n
        BY <1>3, <2>2, <2>3 DEF Numbers
    <2> HIDE DEF n
    <2>7. \A i \in 1 .. Len(wire) + 1 : Numbers'[i] = Append(Numbers, n)[i]
        BY <2>2, <2>5, <2>6
    <2> QED BY <2>5, <2>6, <2>7, SeqEqual
<1>8. UNCHANGED <<loop.seq, lost>>
    BY TcpLeaves DEF Write
<1> HIDE DEF n
<1>9. Link!Deliver
    BY <1>2, <1>5, <1>6, <1>7, <1>8 DEF Link!Deliver, Numbers
<1> QED BY <1>9 DEF Link!LinkNext

LEMMA ServerIsLink ==
    ASSUME Inv, TcpServer
    PROVE  Link!LinkNext \/ UNCHANGED Link!linkVars
<1> USE DEF TcpAt
<1>1. /\ tcp \in [pc : {"bind", "accept", "discard", "stream", "write", "ended",
                        "aborted"},
                  give_up : Nat, packet : Packet \union {NoPacket}]
      /\ Records /\ StreamInOrder /\ OneFate
    BY DEF Inv, Records, TcpType
<1>2. UNCHANGED loop.seq /\ (Write \/ UNCHANGED wire)
    BY TcpLeaves
<1>3. /\ tcp.pc = "write" => Seqs(Hand) = {tcp.packet.seq}
      /\ tcp.pc # "write" => Seqs(Hand) = {}
    BY ShortStreams DEF Hand
<1>4. ASSUME CloseTcp(Seqs(Hand)), UNCHANGED wire,
             tcp.pc \in {"bind", "accept", "discard", "stream", "write"}
      PROVE  Link!LinkNext
    <2>1. tcp'.pc = "ended"
        BY <1>4 DEF CloseTcp
    <2>2. Phase # "over" /\ Phase' = "over"
        BY <1>4, <2>1 DEF Phase
    <2> DEFINE S == Seqs(Hand) \union Seqs(tcp_queue)
    <2>3. lost' = lost \union S
        BY <1>4 DEF CloseTcp
    <2> QED BY <1>1, <1>2, <1>4, <2>2, <2>3, LinkGivesUp
<1>5. CASE (BindTcp /\ CloseTcp({})) \/ AcceptError \/ EndOfStream \/ WriteError
    <2>1. UNCHANGED wire /\ tcp.pc \in {"bind", "accept", "discard", "stream", "write"}
        BY <1>5 DEF BindTcp, AcceptError, EndOfStream, WriteError
    <2>2. CloseTcp(Seqs(Hand))
        BY <1>3, <1>5 DEF BindTcp, AcceptError, EndOfStream, WriteError
    <2> QED BY <1>4, <2>1, <2>2
<1>6. CASE (BindTcp /\ ~ CloseTcp({})) \/ Accept \/ AcceptTimeout
    <2>1. UNCHANGED <<loop.seq, wire, lost>> /\ UNCHANGED Numbers
        BY <1>2, <1>6 DEF BindTcp, Accept, AcceptTimeout, Numbers
    <2>2. \/ tcp.pc = "bind" /\ tcp'.pc = "accept"
          \/ tcp.pc = "accept" /\ tcp'.pc \in {"stream", "discard"}
        BY <1>1, <1>6 DEF BindTcp, Accept, AcceptTimeout
    <2>3. \/ Phase = "closed" /\ Phase' = "listening"
          \/ Phase = "listening" /\ Phase' \in {"streaming", "deaf"}
        BY <2>2 DEF Phase
    <2>4. Link!Open \/ Link!Connect \/ Link!GoDeaf
        BY <2>1, <2>3 DEF Link!Open, Link!Connect, Link!GoDeaf, Numbers
    <2> QED BY <2>4 DEF Link!LinkNext
<1>7. CASE Discard
    <2>1. /\ UNCHANGED <<tcp, wire>> /\ lost' = lost \union {Head(tcp_queue).seq}
          /\ tcp_queue \in Seq(Packet) /\ tcp_queue # <<>>
        BY <1>1, <1>7 DEF Discard, Records, ChannelType
    <2>2. Head(tcp_queue).seq \in Seqs(tcp_queue)
        BY <2>1, EmptySeq, HeadTailProperties DEF Seqs
    <2>3. UNCHANGED Phase
        BY <2>1 DEF Phase
    <2> DEFINE S == {Head(tcp_queue).seq}
    <2>4. lost' = lost \union S /\ S \subseteq Seqs(tcp_queue)
        BY <2>1, <2>2
    <2> HIDE DEF S
    <2> QED BY <1>1, <1>2, <2>1, <2>3, <2>4, LinkGivesUp
<1>8. CASE Receive
    <2>1. UNCHANGED lost /\ tcp.pc = "stream" /\ tcp'.pc = "write"
        BY <1>1, <1>8 DEF Receive
    <2>2. UNCHANGED Phase
        BY <2>1 DEF Phase
    <2>3. ~ Write
        BY <2>1 DEF Write
    <2> QED BY <1>2, <2>1, <2>2, <2>3, LinkStutters
<1>9. CASE Write
    BY <1>1, <1>9, WriteIsDeliver
<1> QED BY <1>5, <1>6, <1>7, <1>8, <1>9 DEF TcpServer

LEMMA StepIsLink ==
    ASSUME Inv, [Next]_vars
    PROVE  [Link!LinkNext]_(Link!linkVars)
<1>1. CASE UdpBroadcaster \/ Heartbeat \/ Tick \/ UNCHANGED vars
    <2>1. UNCHANGED <<loop, wire, lost, tcp>>
        BY <1>1, OthersLeave
    <2>2. UNCHANGED <<loop.seq, wire, lost>> /\ UNCHANGED Phase
        BY <2>1 DEF Phase
    <2> QED BY <2>2, LinkStutters
<1>2. ASSUME NEW s \in Sensors, Produce(s) PROVE UNCHANGED Link!linkVars
    <2>1. UNCHANGED <<loop, wire, lost, tcp>>
        BY <1>2, ProduceLeaves
    <2>2. UNCHANGED <<loop.seq, wire, lost>> /\ UNCHANGED Phase
        BY <2>1 DEF Phase
    <2> QED BY <2>2, LinkStutters
<1> QED BY <1>1, <1>2, LoopIsLink, ServerIsLink DEF Next

\* The buffer, the channel, downlink_loop and tcp_server together do what
\* TelemetryLink promises the ground.
THEOREM DownlinkIsLink == Spec => ImplementsTelemetryLink
<1>1. Init => Link!LinkInit
    <2> SUFFICES ASSUME Init PROVE Link!LinkInit
        OBVIOUS
    <2>1. loop.seq = 0 /\ wire = <<>> /\ lost = {} /\ tcp.pc = "bind"
        BY DEF Init
    <2>2. Phase = "closed"
        BY <2>1 DEF Phase
    <2>3. Numbers = <<>>
        BY <2>1 DEF Numbers
    <2> QED BY <2>1, <2>2, <2>3 DEF Link!LinkInit, Numbers
<1>2. Inv /\ [Next]_vars => [Link!LinkNext]_(Link!linkVars)
    BY StepIsLink
<1> QED BY <1>1, <1>2, InvHolds, PTL
        DEF Spec, ImplementsTelemetryLink, Link!LinkSpec

LinkTheory == INSTANCE TelemetryLink_proofs WITH
    issued <- loop.seq, lost <- lost, phase <- Phase,
    wire <- [i \in 1 .. Len(wire) |-> wire[i].seq]

\* A gap in the numbers on the wire is a packet that was given up, whatever the
\* tasks and the connection did.
THEOREM GapsOnTheWireAreFinal == Spec => []Link!GapsAreLost
<1>1. Link!LinkInit => LinkTheory!LinkInit
    BY DEF Link!LinkInit, LinkTheory!LinkInit
<1>2. [Link!LinkNext]_(Link!linkVars) => [LinkTheory!LinkNext]_(LinkTheory!linkVars)
    BY DEF Link!linkVars, LinkTheory!linkVars, Link!LinkNext, LinkTheory!LinkNext,
           Link!Issue, LinkTheory!Issue, Link!Open, LinkTheory!Open,
           Link!Connect, LinkTheory!Connect, Link!GoDeaf, LinkTheory!GoDeaf,
           Link!Deliver, LinkTheory!Deliver, Link!Lose, LinkTheory!Lose,
           Link!Close, LinkTheory!Close, Link!GiveUpSome, LinkTheory!GiveUpSome,
           Link!Pending, LinkTheory!Pending, Link!Written, LinkTheory!Written
<1>3. LinkTheory!GapsAreLost => Link!GapsAreLost
    BY DEF Link!GapsAreLost, LinkTheory!GapsAreLost, Link!Written, LinkTheory!Written
<1> QED BY <1>1, <1>2, <1>3, DownlinkIsLink, LinkTheory!GapsAreFinal, PTL
        DEF ImplementsTelemetryLink, Link!LinkSpec, LinkTheory!LinkSpec
=============================================================================
