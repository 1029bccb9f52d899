---------------------------- MODULE GroundStation ----------------------------
(***************************************************************************)
(* GCS_mock.rs: the ground station.  Its main thread connects to the       *)
(* satellite, shows the telemetry lines it reads until the stream ends and *)
(* tries again after RETRY_DELAY, for ever; a second thread receives       *)
(* alerts and status packets as datagrams.  The user may stop the program  *)
(* at any time and start it again.                                         *)
(*                                                                         *)
(* The satellite is the link that TelemetryLink promises and Downlink      *)
(* implements, with the data of its packets and the time it waits for the  *)
(* ground.  A connection that the ground has opened first waits in the     *)
(* queue of the satellite's listener; the satellite accepts one.           *)
(***************************************************************************)
EXTENDS TelemetryLink, FiniteSets

CONSTANTS
    Values,            \* what a packet's value may be, of "number" and "NaN"
    Statuses,          \* what its status may be
    ConnectTimeout,    \* CONNECT_TIMEOUT_MS: how long the satellite accepts
    RetryDelay,        \* RETRY_DELAY: between two attempts of the ground
    AttemptTime,       \* how long an attempt to connect may take
    MaxPackets,        \* bound: packets built
    MaxDatagrams,      \* bound: datagrams sent
    MaxStarts          \* bound: how often the ground station is started

ASSUME GroundAssumption ==
    /\ Values \subseteq {"number", "NaN"}
    /\ Statuses \subseteq {"OK", "JITTER_WARN", "DEGRADED"}
    /\ ConnectTimeout \in Nat /\ RetryDelay \in Nat \ {0} /\ AttemptTime \in Nat
    /\ MaxPackets \in Nat /\ MaxDatagrams \in Nat /\ MaxStarts \in Nat

VARIABLES accept_left,  \* time left until the satellite stops waiting
          backlog,      \* connections the satellite has not accepted
          session,      \* the one it accepted, 0 before
          lines,        \* the lines written to the session, one per packet
          cut,          \* the line being written when the stream was closed
          ground,       \* the locals of tcp_receiver
          stats,        \* GcsStats
          udp,          \* where udp_receiver stands
          sent,         \* datagrams sent
          air,          \* those on their way
          broken,       \* the session was cut off on its way
          left,         \* connections whose ground end the user closed
          shown,        \* history: the telemetry lines displayed
          base,         \* history: how many of them by earlier starts
          heard,        \* history: the datagrams displayed since the start
          steady        \* history: up since the port was bound

satelliteVars == <<linkVars, accept_left, session, lines, cut, broken>>
groundVars == <<ground, left, shown, base, stats>>
udpVars == <<udp, sent, air, heard>>
vars == <<satelliteVars, backlog, groundVars, udpVars, steady>>

Counters == {"telemetry", "alerts", "status", "corrupt", "jitter"}
NoCounts == [c \in Counters |-> 0]

\* What extract_f64_field finds for "value": serde writes a NaN as null, and a
\* line that was cut off may hold none of it, a part, or all of it.
Field == {"digits", "null", "some digits", "none"}
Line == [kind : {"TELEMETRY", "none"}, value : Field, status : Statuses \union {""}]
NoLine == [kind |-> "none", value |-> "none", status |-> ""]

Serialise(value, status) ==
    [kind |-> "TELEMETRY", value |-> IF value = "NaN" THEN "null" ELSE "digits",
     status |-> status]

\* What can be left of a line cut off in the middle: the fields come in the order
\* kind, value, status.
CutsOf(line) ==
    {NoLine, line}
      \union {[line EXCEPT !.status = "", !.value = v] :
                v \in {"none", line.value}
                        \union (IF line.value = "digits" THEN {"some digits"}
                                                         ELSE {})}

Init == /\ LinkInit
        /\ accept_left = 0
        /\ backlog = <<>>
        /\ session = 0
        /\ lines = <<>>
        /\ cut = NoLine
        /\ broken = FALSE
        /\ ground = [pc |-> "off", starts |-> 0, conn |-> 0, conns |-> 0,
                     read |-> 0, timer |-> 0, refused |-> FALSE]
        /\ left = {}
        /\ stats = NoCounts
        /\ udp = "off"
        /\ sent = 0
        /\ air = {}
        /\ shown = <<>>
        /\ base = 0
        /\ heard = <<>>
        /\ steady = FALSE

GroundAt(label) == ground.pc = label

\* The listener answers from bind to the return of tcp_server, also when the
\* server no longer accepts.
PortOpen == phase \notin {"closed", "over"}
-----------------------------------------------------------------------------
(* The satellite, by the actions of TelemetryLink.                         *)

SatelliteIssues == /\ issued < MaxPackets
                   /\ Issue
                   /\ UNCHANGED <<backlog, accept_left, session, lines, cut, broken>>

SatelliteLoses == /\ \E S \in SUBSET Pending : S # {} /\ Lose(S)
                  /\ UNCHANGED <<backlog, accept_left, session, lines, cut, broken>>

SatelliteListens == /\ Open
                    /\ accept_left' = ConnectTimeout
                    /\ UNCHANGED <<backlog, session, lines, cut, broken>>

\* Mutant: the server accepts in a loop, one connection after the other.
SatelliteAcceptsAgain ==
    /\ phase \in {"listening", "streaming"} /\ phase' = "streaming"
    /\ backlog # <<>>
    /\ session' = Head(backlog)
    /\ backlog' = Tail(backlog)
    /\ accept_left' = 0
    /\ UNCHANGED <<issued, wire, lost, lines, cut, broken>>

SatelliteAccepts ==
    /\ Connect
    /\ backlog # <<>>
    /\ session' = Head(backlog)
    /\ backlog' = Tail(backlog)
    /\ accept_left' = 0
    /\ UNCHANGED <<lines, cut, broken>>

\* The timeout of the accept is looked at only when no connection waits.
SatelliteGivesUp == /\ GoDeaf
                    /\ accept_left = 0
                    /\ backlog = <<>>
                    /\ UNCHANGED <<backlog, accept_left, session, lines, cut, broken>>

SatelliteWrites ==
    /\ Deliver
    /\ \E v \in Values, s \in Statuses : lines' = Append(lines, Serialise(v, s))
    /\ UNCHANGED <<backlog, accept_left, session, cut, broken>>

SatelliteCloses(S) == /\ Close(S)
                      /\ backlog' = <<>>
                      /\ accept_left' = 0
                      /\ UNCHANGED <<session, lines, broken>>

\* A write to a connection that is gone fails, though not always the first one.
SatelliteFails == /\ phase = "streaming"
                  /\ session \in left \/ broken
                  /\ \E S \in SUBSET Pending : SatelliteCloses(S)
                  /\ UNCHANGED cut

\* The port cannot be bound, or accept fails.
SatelliteNeverServes == /\ phase \in {"closed", "listening"}
                        /\ \E S \in SUBSET Pending : SatelliteCloses(S)
                        /\ UNCHANGED cut

\* The end of the run: what is not written is given up, and a line that the
\* server was in the middle of stays as it is.
SatelliteEnds ==
    /\ SatelliteCloses(Pending)
    /\ \/ UNCHANGED cut
       \/ /\ phase = "streaming" /\ Pending # {}
          /\ \E v \in Values, s \in Statuses : cut' \in CutsOf(Serialise(v, s))

\* The network loses the connection: the ground may still read some of what was
\* written, not all.
Break == /\ session # 0 /\ ground.conn = session
         /\ ~ broken
         /\ broken' = TRUE
         /\ UNCHANGED <<linkVars, backlog, accept_left, session, lines, cut>>

Satellite ==
    /\ \/ SatelliteIssues \/ SatelliteLoses \/ SatelliteListens
       \/ SatelliteAccepts \/ SatelliteGivesUp \/ SatelliteWrites
       \/ SatelliteFails \/ SatelliteNeverServes \/ SatelliteEnds \/ Break
    /\ steady' = IF phase = "closed" /\ phase' = "listening"
                 THEN ~ GroundAt("off") ELSE steady
    /\ UNCHANGED <<groundVars, udpVars>>
-----------------------------------------------------------------------------
(* The ground: depacketise and display_telemetry.                          *)

\* Mutant: what does not parse is taken for zero, as the other numbers are.
ValueReadZero(line) == IF line.value = "digits" THEN "as sent" ELSE "another"

\* Whole digits are the value that was sent, some of them another number, and
\* what does not parse is taken for NaN.
ValueRead(line) == CASE line.value = "digits"      -> "as sent"
                     [] line.value = "some digits" -> "another"
                     [] OTHER                      -> "NaN"

Colour(line) == CASE line.status \in {"JITTER_WARN", "DEGRADED"} -> "YELLOW"
                  [] line.status \notin {"JITTER_WARN", "DEGRADED"}
                       /\ ValueRead(line) = "NaN"               -> "RED"
                  [] OTHER                                      -> "GREEN"

\* The counters that a telemetry line raises.
Counts(line) == {"telemetry"}
    \union {c \in {"jitter"} : line.status = "JITTER_WARN"}
    \union {c \in {"corrupt"} : Colour(line) = "RED"}

\* A line without its kind is reported on the error output only.
Display(line, whole) ==
    IF line.kind = "TELEMETRY"
    THEN /\ stats' = [c \in Counters |-> stats[c] + IF c \in Counts(line) THEN 1
                                                                         ELSE 0]
         /\ shown' = Append(shown, [line |-> line, whole |-> whole,
                                    conn |-> ground.conn])
    ELSE UNCHANGED <<stats, shown>>

\* Mutant: the ground sleeps longer than the satellite waits.
SleepLonger == [ground EXCEPT !.pc = "sleep", !.conn = 0, !.read = 0,
                              !.timer = RetryDelay + ConnectTimeout]

Sleep == [ground EXCEPT !.pc = "sleep", !.conn = 0, !.read = 0,
                        !.timer = RetryDelay]

Attempt(g) == [g EXCEPT !.pc = "connect", !.timer = AttemptTime,
                        !.refused = ~ PortOpen]

Start == /\ GroundAt("off")
         /\ ground.starts < MaxStarts
         /\ ground' = Attempt([ground EXCEPT !.starts = @ + 1])
         /\ stats' = NoCounts
         /\ base' = Len(shown)
         /\ udp' = "bind"
         /\ heard' = <<>>
         /\ UNCHANGED <<backlog, left, shown, sent, air, steady>>

\* Ctrl+C: the process ends where it stands, and its counters with it.
Stop == /\ ~ GroundAt("off")
        /\ ground' = [ground EXCEPT !.pc = "off", !.conn = 0, !.read = 0,
                                    !.timer = 0, !.refused = FALSE]
        /\ left' = left \union ({ground.conn} \ {0})
        /\ udp' = "off"
        /\ steady' = FALSE
        /\ UNCHANGED <<backlog, stats, shown, base, sent, air, heard>>

Connected == /\ GroundAt("connect")
             /\ PortOpen
             /\ ground' = [ground EXCEPT !.pc = "reading", !.conn = ground.conns + 1,
                                         !.conns = @ + 1, !.timer = 0, !.refused = FALSE]
             /\ backlog' = Append(backlog, ground.conns + 1)
             /\ UNCHANGED <<left, stats, shown, base>>

\* Nobody answered when the attempt began, or nobody does now.
Refused == /\ GroundAt("connect")
           /\ ground.refused \/ ~ PortOpen
           /\ ground' = [Sleep EXCEPT !.refused = FALSE]
           /\ UNCHANGED <<backlog, left, stats, shown, base>>

OnSession == GroundAt("reading") /\ ground.conn = session

ReadLine == /\ OnSession
            /\ ground.read < Len(lines)
            /\ ground' = [ground EXCEPT !.read = @ + 1]
            /\ Display(lines[ground.read + 1], TRUE)
            /\ UNCHANGED <<backlog, left, base>>

\* Mutant: the end of the stream is acted on with lines still unread.
EndOfStreamAtOnce ==
    /\ OnSession
    /\ phase = "over" /\ ~ broken
    /\ Display(cut, FALSE)
    /\ ground' = Sleep
    /\ UNCHANGED <<backlog, left, base>>

\* The iterator of lines yields what stands before the end of the stream as a
\* line, also when it has no line break; then it ends.
EndOfStream ==
    /\ OnSession
    /\ phase = "over" /\ ~ broken
    /\ ground.read = Len(lines)
    /\ Display(cut, FALSE)
    /\ ground' = Sleep
    /\ UNCHANGED <<backlog, left, base>>

\* Mutant: the ground gives an error of the connection no thought.
ReadErrorIgnored == /\ OnSession /\ broken
                    /\ UNCHANGED <<ground, backlog, left, stats, shown, base>>

\* The connection was lost, or the listener went while it still waited in its
\* queue.
ReadError == /\ GroundAt("reading")
             /\ \/ ground.conn = session /\ broken
                \/ ground.conn # session /\ phase = "over"
             /\ ground' = Sleep
             /\ UNCHANGED <<backlog, left, stats, shown, base>>

Retry == /\ GroundAt("sleep")
         /\ ground.timer = 0
         /\ ground' = Attempt(ground)
         /\ UNCHANGED <<backlog, left, stats, shown, base>>

TcpReceiver == /\ \/ Connected \/ Refused \/ ReadLine \/ EndOfStream
                  \/ ReadError \/ Retry
               /\ UNCHANGED <<satelliteVars, udpVars, steady>>

User == (Start \/ Stop) /\ UNCHANGED satelliteVars
-----------------------------------------------------------------------------
(* udp_receiver, and the datagrams between the two programs.               *)

\* send_to: alerts and status packets, from the heartbeat and the loop, and from
\* the server when nobody connects.
SendDatagram == /\ sent < MaxDatagrams
                /\ sent' = sent + 1
                /\ \E kind \in {"alerts", "status"} :
                     air' = air \union {[id |-> sent + 1, kind |-> kind]}
                /\ UNCHANGED <<udp, heard, stats>>

\* A port taken by another program panics this thread only.
BindUdp == /\ udp = "bind"
           /\ udp' \in {"recv", "dead"}
           /\ UNCHANGED <<sent, air, heard, stats>>

ReceiveDatagram(d) == /\ udp = "recv"
                      /\ air' = air \ {d}
                      /\ heard' = Append(heard, d)
                      /\ stats' = [stats EXCEPT ![d.kind] = @ + 1]
                      /\ UNCHANGED <<udp, sent>>

LoseDatagram(d) == /\ air' = air \ {d}
                   /\ UNCHANGED <<udp, sent, heard, stats>>

Udp == /\ \/ SendDatagram \/ BindUdp
          \/ \E d \in air : ReceiveDatagram(d) \/ LoseDatagram(d)
       /\ UNCHANGED <<satelliteVars, backlog, ground, left, shown, base, steady>>
-----------------------------------------------------------------------------
\* Time passes while a timer runs; the ground neither sleeps longer than it asks
\* to nor attempts longer than AttemptTime.
Tick ==
    /\ ~ (GroundAt("connect") \/ GroundAt("sleep")) \/ ground.timer > 0
    /\ ground.timer > 0 \/ accept_left > 0
    /\ ground' = [ground EXCEPT !.timer = IF @ > 0 THEN @ - 1 ELSE 0]
    /\ accept_left' = IF accept_left > 0 THEN accept_left - 1 ELSE 0
    /\ UNCHANGED <<linkVars, session, lines, cut, broken, backlog, left, shown,
                   base, stats, udpVars, steady>>

Next == Satellite \/ TcpReceiver \/ User \/ Udp \/ Tick

Spec == Init /\ [][Next]_vars

\* The satellite's run comes to its end, as the loop of Downlink does; the
\* ground's thread runs and the clock goes on.  Nothing is assumed of the user,
\* of the network or of the datagrams.
FairSpec == /\ Spec
            /\ WF_vars(SatelliteEnds /\ Satellite)
            /\ WF_vars(TcpReceiver) /\ WF_vars(Tick)
-----------------------------------------------------------------------------
ShownLine == [line : Line, whole : BOOLEAN, conn : Nat \ {0}]

\* Type correctness; the parts that the two programs keep of one connection fit.
TypeOK ==
    /\ LinkTypeOK
    /\ accept_left \in 0 .. ConnectTimeout
    /\ backlog \in Seq(1 .. ground.conns)
    /\ session \in 0 .. ground.conns
    /\ lines \in Seq(Line) /\ Len(lines) = Len(wire)
    /\ cut \in Line
    /\ ground.pc \in {"off", "connect", "reading", "sleep"}
    /\ ground.timer \in 0 .. IF GroundAt("sleep") THEN RetryDelay ELSE AttemptTime
    /\ ground.read \in 0 .. Len(lines)
    /\ stats \in [Counters -> Nat]
    /\ shown \in Seq(ShownLine) /\ base \in 0 .. Len(shown)

\* What the ground has displayed over all its starts and connections is what the
\* satellite wrote, in that order, each packet once and from one connection, with
\* at most one line more at the end: the one that the end of the run cut off.
ShownIsWritten ==
    /\ \A i \in 1 .. Len(shown) :
         IF shown[i].whole
         THEN i <= Len(lines) /\ shown[i].line = lines[i]
         ELSE i = Len(shown) /\ i = Len(lines) + 1 /\ phase = "over"
    /\ \A i, j \in 1 .. Len(shown) : shown[i].conn = shown[j].conn

\* The display and the printed totals against what the satellite put into the lines
\* displayed since the program was started.  A reading is printed as CORRUPT if and
\* only if it was sent as NaN.  The totals are the numbers of lines, of those sent
\* with a jitter warning, and of those sent as NaN without a warning: a NaN with
\* JITTER_WARN or DEGRADED is printed as CORRUPT, too, but is not in the total of
\* corrupt readings.  A line that was cut off, of which there is at most one, may be
\* missing from the totals of its kind, or be taken for corrupt.  Datagrams count as
\* what they are.
TotalsMatchSent ==
    LET mine == base + 1 .. Len(shown)
        entire == mine \cap 1 .. Len(lines)
        part == Cardinality(mine \ entire)
        Sent(V, S) == {n \in entire : \E v \in V, s \in S : lines[n] = Serialise(v, s)}
        Heard(kind) == {n \in 1 .. Len(heard) : heard[n].kind = kind}
    IN  /\ part <= 1
        /\ stats.telemetry = Cardinality(Sent(Values, Statuses)) + part
        /\ stats.jitter - Cardinality(Sent(Values, {"JITTER_WARN"})) \in 0 .. part
        /\ stats.corrupt
             - Cardinality(Sent({"NaN"}, Statuses \ {"JITTER_WARN", "DEGRADED"}))
               \in 0 .. part
        /\ \A n \in entire :
             ValueRead(shown[n].line) = "NaN" <=> n \in Sent({"NaN"}, Statuses)
        /\ \A kind \in {"alerts", "status"} : stats[kind] = Cardinality(Heard(kind))

\* A ground station that is up when the satellite's port opens, and stays up, is
\* in time: it retries often enough to be connected before the satellite stops
\* waiting.
SteadyGroundIsInTime == steady => phase # "deaf"

\* Nothing the user does serves a second connection: after the first one was
\* accepted, a ground station that connects anew displays nothing.
OneSession ==
    [][session # 0 /\ ground.conn # session => UNCHANGED <<shown, session>>]_vars

\* Every line written reaches the display, unless the connection breaks or the
\* user leaves it.
EveryLineShown ==
    \A n \in 1 .. MaxPackets :
        Len(lines) >= n ~> Len(shown) >= n \/ broken \/ session \in left

\* No connection holds the ground for ever, not even one that the satellite never
\* accepts: it comes back to try again, or the user stops it.
KeepsTrying == []<>(GroundAt("connect") \/ GroundAt("off"))
=============================================================================
