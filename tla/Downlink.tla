------------------------------ MODULE Downlink ------------------------------
(***************************************************************************)
(* a3_downlink.rs: the tasks that take readings out of the sensor buffer   *)
(* and send them to the ground.  downlink_loop builds packets and puts     *)
(* them in a bounded channel; tcp_server takes them out and writes them to *)
(* the one connection it accepts; alerts and the heartbeat's status        *)
(* packets go through a second channel to udp_broadcaster.                 *)
(*                                                                         *)
(* Time advances by Tick, in units of the loop's drain interval.  Any task *)
(* may be kept waiting for any time; the ground may connect or not, and    *)
(* the connection may break at any write or take a write for ever.         *)
(***************************************************************************)
EXTENDS SensorBuffer

CONSTANTS
    Sensors,              \* the sensors that produce readings
    MaxReadings,          \* bound: how many readings they produce
    TcpCapacity,          \* the telemetry channel, 256 packets in the program
    UdpCapacity,          \* the alert channel, 64
    MaxBatch,             \* readings drained in one round, 8
    ConnectTimeout,       \* CONNECT_TIMEOUT_MS
    VisibilityDeadline,   \* VISIBILITY_DEADLINE_MS
    VisibilityPeriod,     \* a visibility window opens every 500 ms
    HeartbeatPeriod,      \* 1 s
    RunDuration,
    Overrun               \* bound: time modelled after the deadline

ASSUME DownlinkAssumption ==
    /\ Sensors \subseteq SensorType
    /\ TcpCapacity \in Nat \ {0} /\ UdpCapacity \in Nat \ {0}
    /\ MaxBatch \in Nat \ {0} /\ MaxReadings \in Nat
    /\ ConnectTimeout \in Nat /\ HeartbeatPeriod \in Nat \ {0}
    /\ VisibilityDeadline \in Nat /\ VisibilityPeriod \in Nat \ {0}
    /\ RunDuration \in Nat /\ Overrun \in Nat

VARIABLES now,
          cycle,        \* readings each sensor has produced
          loop,         \* the locals of downlink_loop
          state,        \* DownlinkState
          tcp_queue,    \* the channel downlink_loop -> tcp_server
          tcp,          \* tcp_server
          udp_queue,    \* the channel of alerts and status packets
          udp,          \* where udp_broadcaster stands
          heartbeat,    \* the status task
          wire,         \* history: the packets written to the connection
          lost,         \* history: packets given up, by sequence number
          window        \* history: what happened in this visibility window

loopVars == <<loop, state, window>>
tcpVars == <<tcp_queue, tcp>>
udpVars == <<udp_queue, udp>>
downVars == <<now, cycle, loopVars, tcpVars, udpVars, heartbeat, wire, lost>>
vars == <<bufferVars, downVars>>

Packet == [seq : Nat \ {0}, sensor : SensorType, cycle : Nat \ {0},
           status : {"OK", "JITTER_WARN", "DEGRADED"}]
NoPacket == [seq |-> 0]

Message == {"STATUS", "BUFFER_OVERFLOW", "MISSED_COMM"}

Init ==
    /\ BufferInit
    /\ now = 0
    /\ cycle = [s \in Sensors |-> 0]
    /\ loop = [pc |-> "check", seq |-> 0, popped |-> 0, opened |-> FALSE,
               open_time |-> 0, wake |-> 0, packet |-> NoPacket]
    /\ state = [packets_sent |-> 0, alerts_sent |-> 0, degraded_mode |-> FALSE,
                gcs_connected |-> FALSE]
    /\ tcp_queue = <<>>
    /\ tcp = [pc |-> "bind", give_up |-> 0, packet |-> NoPacket]
    /\ udp_queue = <<>>
    /\ udp = "bind"
    /\ heartbeat = [pc |-> "tick", next |-> 0]
    /\ wire = <<>>
    /\ lost = {}
    /\ window = [seq |-> 0, missed |-> FALSE]

-----------------------------------------------------------------------------
(* The sensor threads: a1_sensor.rs in as far as the downlink sees it,     *)
(* which tells a late reading from one on time for critical sensors only.  *)

Produce(s) ==
    /\ loop.seq + Len(items) + TotalDropped < MaxReadings
    /\ cycle' = [cycle EXCEPT ![s] = @ + 1]
    /\ \E drift \in IF IsCritical(s) THEN 0 .. 1 ELSE {0} :
         Push([sensor |-> s, cycle |-> cycle[s] + 1, value |-> "number",
               drift |-> drift])
    /\ UNCHANGED <<now, loopVars, tcpVars, udpVars, heartbeat, wire, lost>>

-----------------------------------------------------------------------------
(* downlink_loop                                                           *)

LoopAt(label) == loop.pc = label

\* Mutant: the telemetry channel takes one packet too many.
TcpRefusesTooLate == \/ Len(tcp_queue) > TcpCapacity
                     \/ tcp.pc \in {"ended", "aborted"}

\* A channel refuses what is sent when it is full, and when its receiver has
\* returned.
TcpRefuses == Len(tcp_queue) >= TcpCapacity \/ tcp.pc \in {"ended", "aborted"}
UdpClosed == udp \in {"ended", "aborted"}
UdpFull == Len(udp_queue) >= UdpCapacity

\* send_alert: the alert is counted whether or not the channel takes it.
SendAlert(kind) ==
    udp_queue' = IF UdpFull \/ UdpClosed THEN udp_queue
                                         ELSE Append(udp_queue, kind)

CheckTime ==
    /\ LoopAt("check")
    /\ loop' = [loop EXCEPT !.pc = IF now >= RunDuration THEN "done" ELSE "fill"]
    /\ UNCHANGED <<bufferVars, now, cycle, state, window, tcpVars, udpVars,
                   heartbeat, wire, lost>>

\* fill_ratio() >= DEGRADED_THRESHOLD, that is 80 %.
Overfull == 5 * Len(items) >= 4 * Capacity

CheckFill ==
    /\ LoopAt("fill")
    /\ loop' = [loop EXCEPT !.pc = "visibility"]
    /\ \/ /\ Overfull /\ ~ state.degraded_mode
          /\ SendAlert("BUFFER_OVERFLOW")
          /\ state' = [state EXCEPT !.degraded_mode = TRUE, !.alerts_sent = @ + 1]
       \/ /\ ~ (Overfull /\ ~ state.degraded_mode)
          /\ state' = [state EXCEPT !.degraded_mode = Overfull]
          /\ UNCHANGED udp_queue
    /\ UNCHANGED <<bufferVars, now, cycle, window, tcpVars, udp, heartbeat,
                   wire, lost>>

\* The first round opens the window; a window open too long with no packet
\* ever sent is a miss; a window is replaced by the next one after its period.
CheckVisibility ==
    /\ LoopAt("visibility")
    /\ LET open_time == IF loop.opened THEN loop.open_time ELSE now
           elapsed == now - open_time
           missed == elapsed > VisibilityDeadline /\ loop.seq = 0
           reopen == elapsed >= VisibilityPeriod
       IN  /\ IF missed
              THEN /\ SendAlert("MISSED_COMM")
                   /\ state' = [state EXCEPT !.alerts_sent = @ + 1]
              ELSE UNCHANGED <<udp_queue, state>>
           /\ loop' = [loop EXCEPT !.pc = "drain", !.popped = 0, !.opened = TRUE,
                                   !.open_time = IF reopen THEN now ELSE open_time]
           /\ window' = IF reopen THEN [seq |-> loop.seq, missed |-> FALSE]
                        ELSE [window EXCEPT !.missed = @ \/ missed]
    /\ UNCHANGED <<bufferVars, now, cycle, tcpVars, udp, heartbeat, wire, lost>>

Status(r) == CASE state.degraded_mode              -> "DEGRADED"
               [] ~ state.degraded_mode
                    /\ IsCritical(r.sensor) /\ r.drift > 0 -> "JITTER_WARN"
               [] OTHER                             -> "OK"

\* Pop a reading and make it the next packet.
PopReading ==
    /\ LoopAt("drain")
    /\ loop.popped < MaxBatch
    /\ Pop
    /\ LET r == Head(items) IN
       loop' = [loop EXCEPT !.pc = "send", !.popped = @ + 1, !.seq = @ + 1,
                  !.packet = [seq |-> loop.seq + 1, sensor |-> r.sensor,
                              cycle |-> r.cycle, status |-> Status(r)]]
    /\ UNCHANGED <<now, cycle, state, window, tcpVars, udpVars, heartbeat,
                   wire, lost>>

\* Mutant: refused packets are not counted.
SendPacketAccepted ==
    /\ LoopAt("send")
    /\ IF TcpRefuses
       THEN lost' = lost \union {loop.packet.seq} /\ UNCHANGED <<tcp_queue, state>>
       ELSE /\ tcp_queue' = Append(tcp_queue, loop.packet)
            /\ state' = [state EXCEPT !.packets_sent = @ + 1]
            /\ UNCHANGED lost
    /\ loop' = [loop EXCEPT !.pc = "drain", !.packet = NoPacket]
    /\ UNCHANGED <<bufferVars, now, cycle, window, tcp, udpVars, heartbeat, wire>>

\* Mutant: the loop waits for room in the channel.
SendPacketWaiting ==
    /\ LoopAt("send")
    /\ ~ TcpRefuses
    /\ tcp_queue' = Append(tcp_queue, loop.packet)
    /\ state' = [state EXCEPT !.packets_sent = @ + 1]
    /\ loop' = [loop EXCEPT !.pc = "drain", !.packet = NoPacket]
    /\ UNCHANGED <<bufferVars, now, cycle, window, tcp, udpVars, heartbeat, wire,
                   lost>>

\* try_send: never waits; the packet counts as sent either way.
SendPacket ==
    /\ LoopAt("send")
    /\ IF TcpRefuses
       THEN lost' = lost \union {loop.packet.seq} /\ UNCHANGED tcp_queue
       ELSE tcp_queue' = Append(tcp_queue, loop.packet) /\ UNCHANGED lost
    /\ state' = [state EXCEPT !.packets_sent = @ + 1]
    /\ loop' = [loop EXCEPT !.pc = "drain", !.packet = NoPacket]
    /\ UNCHANGED <<bufferVars, now, cycle, window, tcp, udpVars, heartbeat, wire>>

\* The batch is complete, or the buffer empty.
EndDrain ==
    /\ LoopAt("drain")
    /\ loop.popped = MaxBatch \/ items = <<>>
    /\ loop' = [loop EXCEPT !.pc = "sleep", !.popped = 0, !.wake = now + 1]
    /\ UNCHANGED <<bufferVars, now, cycle, state, window, tcpVars, udpVars,
                   heartbeat, wire, lost>>

WakeUp ==
    /\ LoopAt("sleep")
    /\ now >= loop.wake
    /\ loop' = [loop EXCEPT !.pc = "check", !.wake = 0]
    /\ UNCHANGED <<bufferVars, now, cycle, state, window, tcpVars, udpVars,
                   heartbeat, wire, lost>>

\* run_downlink: the loop has returned; the two servers are aborted, and the
\* end of the runtime takes the heartbeat with it.
InHand == IF tcp.pc = "write" THEN {tcp.packet.seq} ELSE {}

Seqs(q) == {q[i].seq : i \in 1 .. Len(q)}

Abort ==
    /\ LoopAt("done")
    /\ loop' = [loop EXCEPT !.pc = "shut"]
    /\ lost' = lost \union InHand \union Seqs(tcp_queue)
    /\ tcp' = [tcp EXCEPT !.pc = IF @ = "ended" THEN @ ELSE "aborted",
                          !.packet = NoPacket]
    /\ udp' = IF UdpClosed THEN udp ELSE "aborted"
    /\ tcp_queue' = <<>>
    /\ udp_queue' = <<>>
    /\ heartbeat' = [heartbeat EXCEPT !.pc = "ended"]
    /\ UNCHANGED <<bufferVars, now, cycle, state, window, wire>>

Loop == \/ CheckTime \/ CheckFill \/ CheckVisibility \/ PopReading
        \/ SendPacket \/ EndDrain \/ WakeUp \/ Abort
-----------------------------------------------------------------------------
(* tcp_server                                                              *)

TcpAt(label) == tcp.pc = label

\* When the server returns, what is left in its channel goes with it.
CloseTcp(more) ==
    /\ tcp' = [pc |-> "ended", give_up |-> 0, packet |-> NoPacket]
    /\ lost' = lost \union more \union Seqs(tcp_queue)
    /\ tcp_queue' = <<>>

BindTcp ==
    /\ TcpAt("bind")
    /\ \/ /\ tcp' = [tcp EXCEPT !.pc = "accept", !.give_up = now + ConnectTimeout]
          /\ UNCHANGED <<tcp_queue, lost>>
       \/ CloseTcp({})
    /\ UNCHANGED <<state, udp_queue, wire>>

Accept ==
    /\ TcpAt("accept")
    /\ tcp' = [tcp EXCEPT !.pc = "stream", !.give_up = 0]
    /\ state' = [state EXCEPT !.gcs_connected = TRUE]
    /\ UNCHANGED <<tcp_queue, lost, udp_queue, wire>>

\* An error of accept; the missed communication is reported by a socket of its
\* own, outside the alert channel.
AcceptError ==
    /\ TcpAt("accept")
    /\ CloseTcp({})
    /\ UNCHANGED <<state, udp_queue, wire>>

\* Nobody connected in time: from now on everything is thrown away.
AcceptTimeout ==
    /\ TcpAt("accept")
    /\ now >= tcp.give_up
    /\ tcp' = [tcp EXCEPT !.pc = "discard", !.give_up = 0]
    /\ UNCHANGED <<tcp_queue, lost, state, udp_queue, wire>>

Discard ==
    /\ TcpAt("discard")
    /\ tcp_queue # <<>>
    /\ tcp_queue' = Tail(tcp_queue)
    /\ lost' = lost \union {Head(tcp_queue).seq}
    /\ UNCHANGED <<tcp, state, udp_queue, wire>>

Receive ==
    /\ TcpAt("stream")
    /\ tcp_queue # <<>>
    /\ tcp' = [tcp EXCEPT !.pc = "write", !.packet = Head(tcp_queue)]
    /\ tcp_queue' = Tail(tcp_queue)
    /\ UNCHANGED <<lost, state, udp_queue, wire>>

Write ==
    /\ TcpAt("write")
    /\ wire' = Append(wire, tcp.packet)
    /\ tcp' = [tcp EXCEPT !.pc = "stream", !.packet = NoPacket]
    /\ UNCHANGED <<tcp_queue, lost, state, udp_queue>>

\* Mutant: the broken connection still counts as one.
WriteErrorUnnoticed ==
    /\ TcpAt("write")
    /\ CloseTcp({tcp.packet.seq})
    /\ UNCHANGED <<state, udp_queue, wire>>

\* Mutant: the server waits for the ground to connect anew.
WriteErrorReaccept ==
    /\ TcpAt("write")
    /\ tcp' = [pc |-> "accept", give_up |-> now + ConnectTimeout, packet |-> NoPacket]
    /\ lost' = lost \union {tcp.packet.seq}
    /\ state' = [state EXCEPT !.gcs_connected = FALSE]
    /\ UNCHANGED <<tcp_queue, udp_queue, wire>>

WriteError ==
    /\ TcpAt("write")
    /\ CloseTcp({tcp.packet.seq})
    /\ state' = [state EXCEPT !.gcs_connected = FALSE]
    /\ UNCHANGED <<udp_queue, wire>>

\* Every sender of the telemetry channel is gone and it is empty.
EndOfStream ==
    /\ TcpAt("stream") \/ TcpAt("discard")
    /\ LoopAt("done")
    /\ tcp_queue = <<>>
    /\ CloseTcp({})
    /\ UNCHANGED <<state, udp_queue, wire>>

TcpServer == /\ \/ BindTcp \/ Accept \/ AcceptError \/ AcceptTimeout
                \/ Discard \/ Receive \/ Write \/ WriteError \/ EndOfStream
             /\ UNCHANGED <<bufferVars, now, cycle, loop, window, udp, heartbeat>>
-----------------------------------------------------------------------------
(* udp_broadcaster, and the heartbeat                                      *)

BindUdp == /\ udp = "bind"
           /\ \/ udp' = "recv" /\ UNCHANGED udp_queue
              \/ udp' = "ended" /\ udp_queue' = <<>>

\* A failed send is only logged.
Broadcast == /\ udp = "recv"
             /\ udp_queue # <<>>
             /\ udp_queue' = Tail(udp_queue)
             /\ UNCHANGED udp

\* Both senders of the alert channel are gone and it is empty.
EndOfAlerts == /\ udp = "recv"
               /\ LoopAt("done") /\ heartbeat.pc = "ended"
               /\ udp_queue = <<>>
               /\ udp' = "ended"
               /\ UNCHANGED udp_queue

UdpBroadcaster == /\ BindUdp \/ Broadcast \/ EndOfAlerts
                  /\ UNCHANGED <<bufferVars, now, cycle, loopVars, tcpVars,
                                 heartbeat, wire, lost>>

\* The first tick of an interval comes at once.
HeartbeatTick ==
    /\ heartbeat.pc = "tick"
    /\ now >= heartbeat.next
    /\ heartbeat' = IF now >= RunDuration
                    THEN [heartbeat EXCEPT !.pc = "ended"]
                    ELSE [pc |-> "send", next |-> heartbeat.next + HeartbeatPeriod]
    /\ UNCHANGED udp_queue

\* send().await: waits while the channel is full.
HeartbeatSend ==
    /\ heartbeat.pc = "send"
    /\ UdpClosed \/ ~ UdpFull
    /\ udp_queue' = IF UdpClosed THEN udp_queue ELSE Append(udp_queue, "STATUS")
    /\ heartbeat' = [heartbeat EXCEPT !.pc = "tick"]

Heartbeat == /\ HeartbeatTick \/ HeartbeatSend
             /\ UNCHANGED <<bufferVars, now, cycle, loopVars, tcpVars, udp,
                            wire, lost>>
-----------------------------------------------------------------------------
\* Time passes until Overrun units after the deadline, and until a loop asleep
\* then has woken up.
Tick == /\ ~ LoopAt("shut")
        /\ now < RunDuration + Overrun \/ (LoopAt("sleep") /\ now < loop.wake)
        /\ now' = now + 1
        /\ UNCHANGED <<bufferVars, cycle, loopVars, tcpVars, udpVars, heartbeat,
                       wire, lost>>

Next == \/ Tick \/ Loop \/ TcpServer \/ UdpBroadcaster \/ Heartbeat
        \/ \E s \in Sensors : Produce(s)

Spec == Init /\ [][Next]_vars

\* The loop and the clock go on; nothing is assumed of the ground, of the
\* network or of the tasks that wait for them.
FairSpec == Spec /\ WF_vars(Tick) /\ WF_vars(Loop)
-----------------------------------------------------------------------------
\* Type correctness; the channels never hold more than their capacity.
TypeOK ==
    /\ BufferTypeOK
    /\ loop.pc \in {"check", "fill", "visibility", "drain", "send", "sleep",
                    "done", "shut"}
    /\ loop.popped \in 0 .. MaxBatch
    /\ state.packets_sent \in Nat /\ state.alerts_sent \in Nat
    /\ tcp_queue \in Seq(Packet) /\ Len(tcp_queue) <= TcpCapacity
    /\ udp_queue \in Seq(Message) /\ Len(udp_queue) <= UdpCapacity
    /\ tcp.pc \in {"bind", "accept", "discard", "stream", "write", "ended",
                   "aborted"}
    /\ tcp.packet \in Packet \union {NoPacket}
    /\ wire \in Seq(Packet)

\* Every packet has one fate: on the wire, in the server's hand, in the channel,
\* still in the loop's, or given up.
PacketsAccounted ==
    LET held == IF LoopAt("send") THEN {loop.packet.seq} ELSE {}
    IN  /\ Seqs(wire) \union Seqs(tcp_queue) \union InHand \union held
             \union lost = 1 .. loop.seq
        /\ Len(wire) + Len(tcp_queue) + Cardinality(InHand)
             + Cardinality(held) + Cardinality(lost) = loop.seq
        /\ state.packets_sent + Cardinality(held) = loop.seq

\* The ground receives packets in the order of their sequence numbers, and the
\* readings of each sensor in the order they were taken, through buffer, channel
\* and connection.
WireInOrder ==
    \A i, j \in 1 .. Len(wire) :
        i < j => /\ wire[i].seq < wire[j].seq
                 /\ wire[i].sensor = wire[j].sensor
                      => wire[i].cycle < wire[j].cycle

\* gcs_connected tells the truth: it is up while the server streams and until the
\* end of the run closes the stream, never after a write error, and never once
\* the server has given up waiting for the ground, when nothing is delivered.
ConnectedFlagIsTrue ==
    /\ TcpAt("stream") \/ TcpAt("write") => state.gcs_connected
    /\ TcpAt("discard") => ~ state.gcs_connected /\ wire = <<>>
    /\ TcpAt("ended") /\ state.gcs_connected => LoopAt("done") \/ LoopAt("shut")

\* The loop never waits for the ground: with no help from the servers, the
\* network or the heartbeat it comes to its end and shuts the downlink down.
LoopTerminates == <>LoopAt("shut")

\* Where the connection stands, as TelemetryLink sees it.
Phase == CASE tcp.pc = "bind"               -> "closed"
           [] tcp.pc = "accept"             -> "listening"
           [] tcp.pc \in {"stream", "write"} -> "streaming"
           [] tcp.pc = "discard"            -> "deaf"
           [] OTHER                         -> "over"

Link == INSTANCE TelemetryLink WITH
    issued <- loop.seq, lost <- lost, phase <- Phase,
    wire <- [i \in 1 .. Len(wire) |-> wire[i].seq]

\* The buffer, the two channels, the loop that never waits and the server that
\* accepts once are together the link of TelemetryLink: packets reach the one
\* connection in the order they were numbered, each once or never.
ImplementsTelemetryLink == Link!LinkSpec

-----------------------------------------------------------------------------
(* What comments of the code say and the code does not do.                 *)

\* "Within 30ms of opening, we must start sending or it's a miss", in a window
\* "that opens every 500ms" (a3_downlink.rs:366-367): no window is left behind in
\* which nothing was sent and no miss was reported.
EveryWindowServedOrMissed ==
    [][loop.opened /\ loop'.open_time # loop.open_time
         => loop.seq > window.seq \/ window.missed
              \/ (loop.seq = 0 /\ now - loop.open_time > VisibilityDeadline)]_vars
=============================================================================
