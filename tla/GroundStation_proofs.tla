------------------------ MODULE GroundStation_proofs ------------------------
(***************************************************************************)
(* The satellite of GroundStation is the link of TelemetryLink: nothing    *)
(* the ground, its user or the network does makes it anything else.  What  *)
(* the ground displays is what the satellite wrote, over any number of     *)
(* packets, datagrams, breaks and starts.                                  *)
(***************************************************************************)
EXTENDS GroundStation, TelemetryLink_proofs, SequenceTheorems,
        FiniteSetTheorems

LEMMA SatelliteIsLink == Satellite => LinkNext \/ UNCHANGED linkVars
<1> SUFFICES ASSUME Satellite PROVE LinkNext \/ UNCHANGED linkVars
  OBVIOUS
<1>1. CASE SatelliteIssues
  BY <1>1 DEF SatelliteIssues, LinkNext
<1>2. CASE SatelliteLoses
  BY <1>2 DEF SatelliteLoses, LinkNext
<1>3. CASE SatelliteListens
  BY <1>3 DEF SatelliteListens, LinkNext
<1>4. CASE SatelliteAccepts
  BY <1>4 DEF SatelliteAccepts, LinkNext
<1>5. CASE SatelliteGivesUp
  BY <1>5 DEF SatelliteGivesUp, LinkNext
<1>6. CASE SatelliteWrites
  BY <1>6 DEF SatelliteWrites, LinkNext
<1>7. ASSUME SatelliteFails \/ SatelliteNeverServes \/ SatelliteEnds
      PROVE  LinkNext
  <2>1. PICK S \in SUBSET Pending : Close(S)
    BY <1>7 DEF SatelliteFails, SatelliteNeverServes, SatelliteEnds, SatelliteCloses
  <2> QED BY <2>1 DEF LinkNext
<1>8. CASE Break
  BY <1>8 DEF Break
<1> QED BY <1>1, <1>2, <1>3, <1>4, <1>5, <1>6, <1>7, <1>8 DEF Satellite

LEMMA StepIsLink == [Next]_vars => [LinkNext]_linkVars
<1> SUFFICES ASSUME [Next]_vars PROVE LinkNext \/ UNCHANGED linkVars
  OBVIOUS
<1>1. CASE UNCHANGED vars
  BY <1>1 DEF vars, satelliteVars
<1>2. CASE Satellite
  BY <1>2, SatelliteIsLink
<1>3. CASE TcpReceiver \/ User \/ Udp
  BY <1>3 DEF TcpReceiver, User, Udp, satelliteVars
<1>4. CASE Tick
  BY <1>4 DEF Tick
<1> QED BY <1>1, <1>2, <1>3, <1>4 DEF Next

\* Whatever the ground does, the satellite it talks to keeps the promise of
\* TelemetryLink: each step of the two programs is a step of the link or none.
THEOREM ImplementsLink == Spec => LinkSpec
<1>1. Init => LinkInit
  BY DEF Init
<1> QED BY <1>1, StepIsLink, PTL DEF Spec, LinkSpec

\* A packet missing between two that the ground has been sent never comes, also
\* over restarts of the ground and breaks of the connection.
THEOREM GroundGapsAreFinal == Spec => []GapsAreLost
  BY ImplementsLink, GapsAreFinal, PTL

-----------------------------------------------------------------------------
(* The inductive invariant of the two programs.                            *)

Datagram == [id : Nat, kind : {"alerts", "status"}]

\* What the satellite may write as a line.
LinesSent == {Serialise(v, s) : v \in Values, s \in Statuses}

GroundType ==
    /\ ground \in [pc : {"off", "connect", "reading", "sleep"}, starts : Nat,
                   conn : Nat, conns : Nat, read : Nat, timer : Nat,
                   refused : BOOLEAN]
    /\ ground.timer <= IF GroundAt("sleep") THEN RetryDelay ELSE AttemptTime
    /\ ground.conn <= ground.conns

SatelliteType ==
    /\ accept_left \in 0 .. ConnectTimeout
    /\ backlog \in Seq(Nat)
    /\ \A i \in 1 .. Len(backlog) : backlog[i] \in 1 .. ground.conns
    /\ session \in Nat /\ session <= ground.conns
    /\ lines \in Seq(Line) /\ Len(lines) = Len(wire)
    /\ \A i \in 1 .. Len(lines) : lines[i] \in LinesSent
    /\ cut \in Line

CountType ==
    /\ stats \in [Counters -> Nat]
    /\ shown \in Seq(ShownLine) /\ base \in Nat /\ base <= Len(shown)
    /\ sent \in Nat /\ air \subseteq Datagram /\ heard \in Seq(Datagram)

\* The ground has at most one connection open, and it is the session the satellite
\* accepted only until it leaves it.
Connections ==
    /\ phase \in {"closed", "listening"} => session = 0
    /\ phase = "streaming" => session # 0
    /\ IF GroundAt("reading") THEN ground.conn # 0
                              ELSE ground.conn = 0 /\ ground.read = 0
    /\ ~ OnSession => ground.read = 0

\* What is displayed came over the session; as long as the ground is on it,
\* that is what it has read, and after it has left, what it had read then.
ShownInv ==
    /\ session = 0 => shown = <<>>
    /\ \A i \in 1 .. Len(shown) :
         /\ shown[i].conn = session
         /\ IF shown[i].whole
            THEN i <= Len(lines) /\ shown[i].line = lines[i]
            ELSE i = Len(shown) /\ i = Len(lines) + 1 /\ phase = "over"
    /\ OnSession => /\ Len(shown) = ground.read
                    /\ \A i \in 1 .. Len(shown) : shown[i].whole

\* What the program has displayed of each kind since it was started, and the counters
\* of it.
Displayed ==
    LET mine == base + 1 .. Len(shown)
    IN  [telemetry |-> mine,
         jitter    |-> {i \in mine : shown[i].line.status = "JITTER_WARN"},
         corrupt   |-> {i \in mine : Colour(shown[i].line) = "RED"},
         alerts    |-> {i \in 1 .. Len(heard) : heard[i].kind = "alerts"},
         status    |-> {i \in 1 .. Len(heard) : heard[i].kind = "status"}]

CountsShown == \A k \in Counters : stats[k] = Cardinality(Displayed[k])

Inv == /\ LinkInv /\ GroundType /\ SatelliteType /\ CountType
       /\ Connections /\ ShownInv /\ CountsShown

\* While the satellite waits for a ground station that is up, the time it has
\* left is more than the ground needs to come.
InTime ==
    /\ steady => phase \notin {"closed", "deaf"} /\ ~ GroundAt("off")
    /\ phase = "closed" => /\ ~ GroundAt("reading")
                           /\ GroundAt("connect") => ground.refused
    /\ steady /\ phase = "listening" =>
         \/ backlog # <<>>
         \/ /\ GroundAt("connect") /\ ground.refused
            /\ accept_left > ground.timer + RetryDelay + AttemptTime
         \/ GroundAt("connect") /\ ~ ground.refused /\ accept_left > ground.timer
         \/ GroundAt("sleep") /\ accept_left > ground.timer + AttemptTime

-----------------------------------------------------------------------------
(* The types.                                                              *)

GroundRecord == [pc : {"off", "connect", "reading", "sleep"}, starts : Nat,
                 conn : Nat, conns : Nat, read : Nat, timer : Nat,
                 refused : BOOLEAN]

NextGround(p, c, n, r, t, f) ==
    /\ ground' \in GroundRecord
    /\ ground'.pc = p /\ ground'.conn = c /\ ground'.conns = n
    /\ ground'.read = r /\ ground'.timer = t /\ ground'.refused = f

\* What each action does with the record of tcp_receiver.
LEMMA GroundSteps ==
    ASSUME GroundType
    PROVE  /\ Start \/ Retry => NextGround("connect", ground.conn, ground.conns,
                                           ground.read, AttemptTime, ~ PortOpen)
           /\ Stop => NextGround("off", 0, ground.conns, 0, 0, FALSE)
           /\ Connected => NextGround("reading", ground.conns + 1, ground.conns + 1,
                                      ground.read, 0, FALSE)
           /\ Refused => NextGround("sleep", 0, ground.conns, 0, RetryDelay, FALSE)
           /\ ReadLine => NextGround(ground.pc, ground.conn, ground.conns,
                                     ground.read + 1, ground.timer, ground.refused)
           /\ EndOfStream \/ ReadError =>
                NextGround("sleep", 0, ground.conns, 0, RetryDelay, ground.refused)
           /\ Tick => NextGround(ground.pc, ground.conn, ground.conns, ground.read,
                                 IF ground.timer > 0 THEN ground.timer - 1 ELSE 0,
                                 ground.refused)
           /\ Satellite \/ Udp \/ UNCHANGED vars => UNCHANGED ground
<1>1. ground \in GroundRecord /\ RetryDelay \in Nat /\ AttemptTime \in Nat
    BY GroundAssumption DEF GroundType, GroundRecord
<1> USE DEF GroundRecord, NextGround
<1>2. /\ ground.starts + 1 \in Nat /\ ground.conns + 1 \in Nat
      /\ ground.read + 1 \in Nat
    BY <1>1
<1>3. PICK b \in BOOLEAN : b = ~ PortOpen
    OBVIOUS
<1>4. Start => NextGround("connect", ground.conn, ground.conns, ground.read,
                           AttemptTime, ~ PortOpen)
    <2> SUFFICES ASSUME Start
                 PROVE  NextGround("connect", ground.conn, ground.conns,
                                   ground.read, AttemptTime, ~ PortOpen)
        OBVIOUS
    <2>1. PICK n \in Nat : ground' = [[ground EXCEPT !.starts = n] EXCEPT
            !.pc = "connect", !.timer = AttemptTime, !.refused = b]
        BY <1>2, <1>3 DEF Start, Attempt
    <2> QED BY <1>1, <1>3, <2>1
<1>5. ASSUME Retry
      PROVE  NextGround("connect", ground.conn, ground.conns, ground.read,
                        AttemptTime, ~ PortOpen)
    <2>1. ground' = [ground EXCEPT !.pc = "connect", !.timer = AttemptTime,
                                   !.refused = b]
        BY <1>3, <1>5 DEF Retry, Attempt
    <2> QED BY <1>1, <1>3, <2>1
<1>6. ASSUME Stop PROVE NextGround("off", 0, ground.conns, 0, 0, FALSE)
    <2>1. ground' = [ground EXCEPT !.pc = "off", !.conn = 0, !.read = 0,
                                   !.timer = 0, !.refused = FALSE]
        BY <1>6 DEF Stop
    <2> QED BY <1>1, <2>1
<1>7. ASSUME Connected
      PROVE  NextGround("reading", ground.conns + 1, ground.conns + 1,
                        ground.read, 0, FALSE)
    <2>1. ground' = [ground EXCEPT !.pc = "reading", !.conn = ground.conns + 1,
                                   !.conns = ground.conns + 1, !.timer = 0,
                                   !.refused = FALSE]
        BY <1>7 DEF Connected
    <2> QED BY <1>1, <1>2, <2>1
<1>8. ASSUME Refused
      PROVE  NextGround("sleep", 0, ground.conns, 0, RetryDelay, FALSE)
    <2>1. ground' = [[ground EXCEPT !.pc = "sleep", !.conn = 0, !.read = 0,
                                   !.timer = RetryDelay] EXCEPT !.refused = FALSE]
        BY <1>8 DEF Refused, Sleep
    <2> QED BY <1>1, <2>1
<1>9. ReadLine => NextGround(ground.pc, ground.conn, ground.conns,
                             ground.read + 1, ground.timer, ground.refused)
    BY <1>1, <1>2 DEF ReadLine
<1>10. ASSUME EndOfStream \/ ReadError
       PROVE  NextGround("sleep", 0, ground.conns, 0, RetryDelay, ground.refused)
    <2>1. ground' = [ground EXCEPT !.pc = "sleep", !.conn = 0, !.read = 0,
                                   !.timer = RetryDelay]
        BY <1>10 DEF EndOfStream, ReadError, Sleep
    <2> QED BY <1>1, <2>1
<1>11. ASSUME Tick
       PROVE  NextGround(ground.pc, ground.conn, ground.conns, ground.read,
                         IF ground.timer > 0 THEN ground.timer - 1 ELSE 0,
                         ground.refused)
    <2>1. PICK t \in Nat : /\ t = IF ground.timer > 0 THEN ground.timer - 1 ELSE 0
                           /\ ground' = [ground EXCEPT !.timer = t]
        <3>1. ground.timer \in Nat
            BY <1>1
        <3>2. (IF ground.timer > 0 THEN ground.timer - 1 ELSE 0) \in Nat
            BY <3>1
        <3> QED BY <1>11, <3>2 DEF Tick
    <2> QED BY <1>1, <2>1
<1> HIDE DEF GroundRecord, NextGround
<1>12. Satellite \/ Udp \/ UNCHANGED vars => UNCHANGED ground
    <2>1. Satellite => UNCHANGED ground
        BY DEF Satellite, groundVars
    <2>2. Udp => UNCHANGED ground
        BY DEF Udp
    <2>3. UNCHANGED vars => UNCHANGED ground
        BY DEF vars, groundVars
    <2> QED BY <2>1, <2>2, <2>3
<1> QED BY <1>4, <1>5, <1>6, <1>7, <1>8, <1>9, <1>10, <1>11, <1>12

LEMMA NextKeepsGround ==
    ASSUME GroundType, [Next]_vars
    PROVE  GroundType'
<1>1. /\ ground \in GroundRecord /\ ground.conn <= ground.conns
      /\ ground.timer <= IF GroundAt("sleep") THEN RetryDelay ELSE AttemptTime
      /\ ground.conn \in Nat /\ ground.conns \in Nat /\ ground.timer \in Nat
      /\ RetryDelay \in Nat /\ AttemptTime \in Nat
    BY GroundAssumption DEF GroundType, GroundRecord
<1>2. ASSUME NEW p, NEW c, NEW n, NEW r, NEW t, NEW f, NextGround(p, c, n, r, t, f),
             c <= n, t <= IF p = "sleep" THEN RetryDelay ELSE AttemptTime
      PROVE  GroundType'
    BY <1>2 DEF GroundType, GroundRecord, NextGround, GroundAt
<1>3. CASE Satellite \/ Udp \/ UNCHANGED vars
    BY <1>3, GroundSteps DEF GroundType, GroundAt
<1>4. CASE Tick
    <2>1. PICK t : t = IF ground.timer > 0 THEN ground.timer - 1 ELSE 0
        OBVIOUS
    <2>2. t <= IF ground.pc = "sleep" THEN RetryDelay ELSE AttemptTime
        BY <1>1, <2>1 DEF GroundAt
    <2> QED BY <1>1, <1>2, <1>4, <2>1, <2>2, GroundSteps
<1>5. CASE Start \/ Retry
    <2>1. AttemptTime <= IF "connect" = "sleep" THEN RetryDelay ELSE AttemptTime
        BY <1>1
    <2> QED BY <1>1, <1>2, <1>5, <2>1, GroundSteps
<1>6. CASE Stop
    <2>1. 0 <= ground.conns /\ 0 <= AttemptTime
        BY <1>1
    <2> QED BY <1>2, <1>6, <2>1, GroundSteps
<1>7. CASE Connected
    <2>1. ground.conns + 1 <= ground.conns + 1 /\ 0 <= AttemptTime
        BY <1>1
    <2> QED BY <1>2, <1>7, <2>1, GroundSteps
<1>8. CASE Refused \/ EndOfStream \/ ReadError
    <2>1. 0 <= ground.conns /\ RetryDelay <= RetryDelay
        BY <1>1
    <2> QED BY <1>2, <1>8, <2>1, GroundSteps
<1>9. CASE ReadLine
    BY <1>1, <1>2, <1>9, GroundSteps DEF GroundAt
<1> QED BY <1>3, <1>4, <1>5, <1>6, <1>7, <1>8, <1>9 DEF Next, TcpReceiver, User

\* What each program leaves alone.
LEMMA SatelliteLeaves ==
    ASSUME Satellite
    PROVE  UNCHANGED <<ground, left, shown, base, stats, udp, sent, air, heard>>
BY DEF Satellite, groundVars, udpVars

LEMMA ReceiverLeaves ==
    ASSUME TcpReceiver
    PROVE  UNCHANGED <<issued, wire, lost, phase, accept_left, session, lines, cut,
                       broken, udp, sent, air, heard, steady>>
BY DEF TcpReceiver, satelliteVars, linkVars, udpVars

LEMMA UserLeaves ==
    ASSUME User
    PROVE  UNCHANGED <<issued, wire, lost, phase, accept_left, session, lines, cut,
                       broken, backlog, shown, sent, air>>
BY DEF User, Start, Stop, satelliteVars, linkVars

LEMMA UdpLeaves ==
    ASSUME Udp
    PROVE  UNCHANGED <<issued, wire, lost, phase, accept_left, session, lines, cut,
                       broken, backlog, ground, shown, base, steady>>
BY DEF Udp, satelliteVars, linkVars

LEMMA TickLeaves ==
    ASSUME Tick
    PROVE  UNCHANGED <<issued, wire, lost, phase, session, lines, cut, broken,
                       backlog, shown, base, stats, udp, sent, air, heard, steady>>
BY DEF Tick, linkVars, udpVars

LEMMA NoneLeaves ==
    ASSUME UNCHANGED vars
    PROVE  UNCHANGED <<issued, wire, lost, phase, accept_left, session, lines, cut,
                       broken, backlog, ground, shown, base, stats, udp, sent, air,
                       heard, steady>>
BY DEF vars, satelliteVars, linkVars, groundVars, udpVars

\* Lines, whole and cut off.
LEMMA LineFacts ==
    ASSUME NEW v \in Values, NEW s \in Statuses
    PROVE  /\ Serialise(v, s) \in Line /\ Serialise(v, s).kind = "TELEMETRY"
           /\ CutsOf(Serialise(v, s)) \subseteq Line
<1>1. NoLine \in Line
    BY DEF NoLine, Line, Field
<1>2. Serialise(v, s) \in Line /\ Serialise(v, s).kind = "TELEMETRY"
    BY DEF Serialise, Line, Field
<1>3. ASSUME NEW x \in Line PROVE CutsOf(x) \subseteq Line
    <2>1. \A w \in Field : [x EXCEPT !.status = "", !.value = w] \in Line
        BY DEF Line
    <2>2. {"none", x.value} \union (IF x.value = "digits" THEN {"some digits"}
                                                          ELSE {}) \subseteq Field
        BY DEF Line, Field
    <2> QED BY <1>1, <2>1, <2>2 DEF CutsOf
<1> QED BY <1>2, <1>3

\* What the satellite may do.
LEMMA SatelliteSteps ==
    ASSUME LinkInv, Satellite
    PROVE  /\ accept_left' \in {accept_left, 0, ConnectTimeout}
           /\ \/ UNCHANGED <<lines, wire>>
              \/ /\ phase = "streaming" /\ phase' = "streaming"
                 /\ \E x \in LinesSent : lines' = Append(lines, x)
                 /\ \E n \in Nat : wire' = Append(wire, n)
           /\ cut' = cut \/ cut' \in Line
           /\ \/ UNCHANGED <<backlog, session>>
              \/ backlog' = <<>> /\ UNCHANGED session
              \/ /\ phase = "listening" /\ phase' = "streaming"
                 /\ backlog # <<>> /\ backlog' = Tail(backlog)
                 /\ session' = Head(backlog)
           /\ \/ phase' = phase
              \/ phase' = "over"
              \/ /\ phase = "closed" /\ phase' = "listening"
                 /\ accept_left' = ConnectTimeout /\ UNCHANGED backlog
              \/ /\ phase = "listening" /\ phase' = "streaming"
                 /\ backlog # <<>> /\ session' = Head(backlog)
              \/ phase = "listening" /\ phase' = "deaf"
                 /\ accept_left = 0 /\ backlog = <<>>
           /\ phase = "listening" /\ phase' = "listening" => UNCHANGED accept_left
           /\ phase' = "over" \/ UNCHANGED backlog \/ phase' = "streaming"
           /\ phase = "over" => phase' = "over"
<1> USE DEF linkVars
<1>1. CASE SatelliteIssues \/ SatelliteLoses
    BY <1>1 DEF SatelliteIssues, SatelliteLoses, Issue, Lose, GiveUpSome
<1>2. CASE SatelliteListens
    BY <1>2 DEF SatelliteListens, Open
<1>3. CASE SatelliteAccepts
    BY <1>3 DEF SatelliteAccepts, Connect
<1>4. CASE SatelliteGivesUp
    BY <1>4 DEF SatelliteGivesUp, GoDeaf
<1>5. CASE SatelliteWrites
    <2>1. PICK v \in Values, s \in Statuses : lines' = Append(lines, Serialise(v, s))
        BY <1>5 DEF SatelliteWrites
    <2>2. Serialise(v, s) \in LinesSent
        BY DEF LinesSent
    <2>3. PICK n \in Pending : wire' = Append(wire, n)
        BY <1>5 DEF SatelliteWrites, Deliver
    <2>4. n \in Nat
        BY DEF Pending, LinkInv, LinkTypeOK
    <2>5. /\ phase = "streaming" /\ phase' = "streaming"
          /\ UNCHANGED <<backlog, accept_left, session, cut>>
        BY <1>5 DEF SatelliteWrites, Deliver
    <2> QED BY <2>1, <2>2, <2>3, <2>4, <2>5
<1>6. ASSUME SatelliteFails \/ SatelliteNeverServes \/ SatelliteEnds
      PROVE  /\ phase' = "over" /\ backlog' = <<>> /\ accept_left' = 0
             /\ UNCHANGED <<session, lines, wire>> /\ phase # "over"
    BY <1>6 DEF SatelliteFails, SatelliteNeverServes, SatelliteEnds,
                SatelliteCloses, Close, GiveUpSome
<1>7. CASE SatelliteFails \/ SatelliteNeverServes \/ SatelliteEnds
    <2>1. cut' = cut \/ cut' \in Line
        BY <1>7, LineFacts DEF SatelliteFails, SatelliteNeverServes, SatelliteEnds
    <2> QED BY <1>6, <1>7, <2>1
<1>8. CASE Break
    BY <1>8 DEF Break
<1> QED BY <1>1, <1>2, <1>3, <1>4, <1>5, <1>7, <1>8 DEF Satellite

\* Connections are numbered as they are opened.
LEMMA ConnectionCount ==
    ASSUME GroundType, [Next]_vars
    PROVE  /\ ground.conns \in Nat /\ ground'.conns \in Nat
           /\ Connected \/ ground'.conns = ground.conns
           /\ ground.conns <= ground'.conns
<1>1. ground.conns \in Nat
    BY DEF GroundType
<1>2. Connected \/ ground'.conns = ground.conns
    BY GroundSteps DEF Next, TcpReceiver, User, NextGround
<1>3. Connected => ground'.conns = ground.conns + 1
    BY GroundSteps DEF NextGround
<1> QED BY <1>1, <1>2, <1>3

LEMMA WiderSeq ==
    ASSUME NEW S, NEW T, S \subseteq T, NEW q \in Seq(S)
    PROVE  q \in Seq(T)
<1>1. Len(q) \in Nat /\ q \in [1 .. Len(q) -> S]
    BY LenProperties
<1>2. q \in [1 .. Len(q) -> T]
    BY <1>1
<1> QED BY <1>1, <1>2

LEMMA NextKeepsSatellite ==
    ASSUME LinkInv, GroundType, SatelliteType, [Next]_vars
    PROVE  SatelliteType'
<1>1. /\ accept_left \in 0 .. ConnectTimeout /\ ConnectTimeout \in Nat
      /\ backlog \in Seq(Nat)
      /\ \A i \in 1 .. Len(backlog) : backlog[i] \in 1 .. ground.conns
      /\ session \in Nat /\ session <= ground.conns
      /\ lines \in Seq(Line) /\ Len(lines) = Len(wire)
      /\ \A i \in 1 .. Len(lines) : lines[i] \in LinesSent
      /\ cut \in Line
      /\ wire \in Seq(1 .. issued)
    BY GroundAssumption DEF SatelliteType, LinkInv, LinkTypeOK
<1>2. /\ ground.conns \in Nat /\ ground'.conns \in Nat
      /\ Connected \/ ground'.conns = ground.conns
      /\ ground.conns <= ground'.conns
    BY ConnectionCount
<1>3. CASE Satellite
    <2>1. UNCHANGED ground
        BY <1>3, SatelliteLeaves
    <2>2. accept_left' \in 0 .. ConnectTimeout /\ cut' \in Line
        BY <1>1, <1>3, SatelliteSteps
    <2>3. /\ lines' \in Seq(Line) /\ Len(lines') = Len(wire')
          /\ \A i \in 1 .. Len(lines') : lines'[i] \in LinesSent
        <3>1. CASE UNCHANGED <<lines, wire>>
            BY <1>1, <3>1
        <3>2. ASSUME NEW x \in LinesSent, lines' = Append(lines, x),
                     NEW n \in Nat, wire' = Append(wire, n)
              PROVE  /\ lines' \in Seq(Line) /\ Len(lines') = Len(wire')
                     /\ \A i \in 1 .. Len(lines') : lines'[i] \in LinesSent
            <4>0. x \in Line
                BY <3>2, LineFacts DEF LinesSent
            <4>1. /\ lines' \in Seq(Line) /\ Len(lines') = Len(lines) + 1
                  /\ \A i \in 1 .. Len(lines) : lines'[i] = lines[i]
                  /\ lines'[Len(lines) + 1] = x /\ Len(lines) \in Nat
                BY <1>1, <3>2, <4>0, AppendProperties
            <4>2. Len(wire') = Len(wire) + 1
                <5>1. wire \in Seq(Nat)
                    <6>1. wire \in Seq(1 .. issued) /\ 1 .. issued \subseteq Nat
                        BY <1>1
                    <6> QED BY <6>1, WiderSeq
                <5> QED BY <3>2, <5>1, AppendProperties
            <4> QED BY <1>1, <3>2, <4>1, <4>2
        <3> QED BY <1>3, <3>1, <3>2, SatelliteSteps
    <2>4. /\ backlog' \in Seq(Nat)
          /\ \A i \in 1 .. Len(backlog') : backlog'[i] \in 1 .. ground.conns
          /\ session' \in Nat /\ session' <= ground.conns
        <3>1. CASE UNCHANGED <<backlog, session>>
            BY <1>1, <3>1
        <3>2. CASE backlog' = <<>> /\ UNCHANGED session
            BY <1>1, <3>2
        <3>3. CASE /\ backlog # <<>> /\ backlog' = Tail(backlog)
                   /\ session' = Head(backlog)
            <4>1. /\ Tail(backlog) \in Seq(Nat) /\ Len(Tail(backlog)) = Len(backlog) - 1
                  /\ \A i \in 1 .. Len(Tail(backlog)) : Tail(backlog)[i] = backlog[i + 1]
                  /\ Head(backlog) = backlog[1] /\ Len(backlog) \in Nat \ {0}
                BY <1>1, <3>3, HeadTailProperties, EmptySeq
            <4> QED BY <1>1, <1>2, <3>3, <4>1
        <3> QED BY <1>3, <3>1, <3>2, <3>3, SatelliteSteps
    <2> QED BY <2>1, <2>2, <2>3, <2>4 DEF SatelliteType
<1>4. CASE Connected /\ TcpReceiver
    <2>1. UNCHANGED <<wire, accept_left, session, lines, cut>>
        BY <1>4, ReceiverLeaves
    <2>2. ground'.conns = ground.conns + 1 /\ backlog' = Append(backlog, ground.conns + 1)
        BY <1>4, GroundSteps DEF NextGround, Connected
    <2>3. /\ backlog' \in Seq(Nat) /\ Len(backlog') = Len(backlog) + 1
          /\ \A i \in 1 .. Len(backlog) : backlog'[i] = backlog[i]
          /\ backlog'[Len(backlog) + 1] = ground.conns + 1 /\ Len(backlog) \in Nat
        <3>1. ground.conns + 1 \in Nat
            BY <1>2
        <3> QED BY <1>1, <2>2, <3>1, AppendProperties
    <2>4. \A i \in 1 .. Len(backlog') : backlog'[i] \in 1 .. ground'.conns
        BY <1>1, <1>2, <2>2, <2>3
    <2>5. session <= ground'.conns
        BY <1>1, <1>2
    <2> QED BY <1>1, <2>1, <2>3, <2>4, <2>5 DEF SatelliteType
<1>5. ASSUME UNCHANGED <<wire, session, lines, cut, backlog, ground.conns>>,
             accept_left' \in 0 .. ConnectTimeout
      PROVE  SatelliteType'
    BY <1>1, <1>5 DEF SatelliteType
<1>6. CASE TcpReceiver /\ ~ Connected
    <2>1. UNCHANGED <<wire, accept_left, session, lines, cut>>
        BY <1>6, ReceiverLeaves
    <2>2. UNCHANGED backlog
        BY <1>6 DEF TcpReceiver, Refused, ReadLine, EndOfStream, ReadError, Retry
    <2> QED BY <1>1, <1>2, <1>5, <1>6, <2>1, <2>2
<1>7. CASE User \/ Udp \/ UNCHANGED vars
    <2>1. UNCHANGED <<wire, accept_left, session, lines, cut, backlog>>
        BY <1>7, UserLeaves, UdpLeaves, NoneLeaves
    <2>2. UNCHANGED ground.conns
        BY <1>7, GroundSteps DEF NextGround, User
    <2> QED BY <1>1, <1>5, <2>1, <2>2
<1>8. CASE Tick
    <2>1. UNCHANGED <<wire, session, lines, cut, backlog>>
        BY <1>8, TickLeaves
    <2>2. UNCHANGED ground.conns
        BY <1>8, GroundSteps DEF NextGround
    <2>3. accept_left' \in 0 .. ConnectTimeout
        BY <1>1, <1>8 DEF Tick
    <2> QED BY <1>5, <2>1, <2>2, <2>3
<1> QED BY <1>3, <1>4, <1>6, <1>7, <1>8 DEF Next

\* What is displayed, and counted, in a step of the receiver.
LEMMA DisplayTypes ==
    ASSUME CountType, NEW line \in Line, NEW whole \in BOOLEAN,
           ground.conn \in Nat \ {0}, Display(line, whole)
    PROVE  /\ stats' \in [Counters -> Nat] /\ shown' \in Seq(ShownLine)
           /\ Len(shown) <= Len(shown') /\ Len(shown') \in Nat
<1>1. stats \in [Counters -> Nat] /\ shown \in Seq(ShownLine) /\ Len(shown) \in Nat
    BY DEF CountType
<1>2. CASE line.kind = "TELEMETRY"
    <2>1. \A c \in Counters : stats[c] + (IF c \in Counts(line) THEN 1 ELSE 0) \in Nat
        BY <1>1
    <2>2. stats' \in [Counters -> Nat]
        BY <1>2, <2>1 DEF Display
    <2>3. [line |-> line, whole |-> whole, conn |-> ground.conn] \in ShownLine
        BY DEF ShownLine
    <2>4. shown' = Append(shown, [line |-> line, whole |-> whole,
                                  conn |-> ground.conn])
        BY <1>2 DEF Display
    <2>5. shown' \in Seq(ShownLine) /\ Len(shown') = Len(shown) + 1
        BY <1>1, <2>3, <2>4, AppendProperties
    <2> QED BY <1>1, <2>2, <2>5
<1>3. CASE line.kind # "TELEMETRY"
    BY <1>1, <1>3 DEF Display
<1> QED BY <1>2, <1>3

LEMMA NextKeepsCountType ==
    ASSUME GroundType, SatelliteType, CountType, Connections, [Next]_vars
    PROVE  CountType'
<1>1. /\ stats \in [Counters -> Nat]
      /\ shown \in Seq(ShownLine) /\ base \in Nat /\ base <= Len(shown)
      /\ sent \in Nat /\ air \subseteq Datagram /\ heard \in Seq(Datagram)
      /\ Len(shown) \in Nat
    BY DEF CountType
<1>2. CASE ReadLine /\ TcpReceiver
    <2>1. lines[ground.read + 1] \in Line
        <3>1. ground.read + 1 \in 1 .. Len(lines) /\ lines \in Seq(Line)
            BY <1>2 DEF ReadLine, GroundType, SatelliteType
        <3> QED BY <3>1, ElementOfSeq
    <2>2. ground.conn \in Nat \ {0}
        BY <1>2 DEF ReadLine, OnSession, Connections, GroundType
    <2>3. Display(lines[ground.read + 1], TRUE) /\ UNCHANGED base
        BY <1>2 DEF ReadLine
    <2>4. /\ stats' \in [Counters -> Nat] /\ shown' \in Seq(ShownLine)
          /\ Len(shown) <= Len(shown') /\ Len(shown') \in Nat
        BY <2>1, <2>2, <2>3, DisplayTypes
    <2>5. base' <= Len(shown')
        BY <1>1, <2>3, <2>4
    <2> QED BY <1>1, <1>2, <2>3, <2>4, <2>5, ReceiverLeaves DEF CountType
<1>3. CASE EndOfStream /\ TcpReceiver
    <2>1. cut \in Line
        BY DEF SatelliteType
    <2>2. ground.conn \in Nat \ {0}
        BY <1>3 DEF EndOfStream, OnSession, Connections, GroundType
    <2>3. Display(cut, FALSE) /\ UNCHANGED base
        BY <1>3 DEF EndOfStream
    <2>4. /\ stats' \in [Counters -> Nat] /\ shown' \in Seq(ShownLine)
          /\ Len(shown) <= Len(shown') /\ Len(shown') \in Nat
        BY <2>1, <2>2, <2>3, DisplayTypes
    <2>5. base' <= Len(shown')
        BY <1>1, <2>3, <2>4
    <2> QED BY <1>1, <1>3, <2>3, <2>4, <2>5, ReceiverLeaves DEF CountType
<1>4. CASE TcpReceiver /\ ~ ReadLine /\ ~ EndOfStream
    <2>1. UNCHANGED <<stats, shown, base>>
        BY <1>4 DEF TcpReceiver, Connected, Refused, ReadError, Retry
    <2> QED BY <1>1, <1>4, <2>1, ReceiverLeaves DEF CountType
<1>5. CASE User
    <2>1. /\ stats' = stats \/ stats' = NoCounts
          /\ base' = base \/ base' = Len(shown)
          /\ heard' = heard \/ heard' = <<>>
        BY <1>5 DEF User, Start, Stop
    <2>2. NoCounts \in [Counters -> Nat] /\ <<>> \in Seq(Datagram)
        BY DEF NoCounts
    <2>3. UNCHANGED <<shown, sent, air>>
        BY <1>5, UserLeaves
    <2>4. stats' \in [Counters -> Nat] /\ heard' \in Seq(Datagram)
        BY <1>1, <2>1, <2>2
    <2>5. base' \in Nat /\ base' <= Len(shown)
        BY <1>1, <2>1
    <2> QED BY <1>1, <2>3, <2>4, <2>5 DEF CountType
<1>6. CASE Udp
    <2>1. UNCHANGED <<shown, base>>
        BY <1>6, UdpLeaves
    <2>2. CASE SendDatagram
        <3>1. PICK kind \in {"alerts", "status"} :
                air' = air \union {[id |-> sent + 1, kind |-> kind]}
            BY <2>2 DEF SendDatagram
        <3>2. sent + 1 \in Nat /\ sent' = sent + 1 /\ UNCHANGED <<heard, stats>>
            BY <1>1, <2>2 DEF SendDatagram
        <3>3. [id |-> sent + 1, kind |-> kind] \in Datagram
            BY <3>2 DEF Datagram
        <3> QED BY <1>1, <2>1, <3>1, <3>2, <3>3 DEF CountType
    <2>3. CASE BindUdp
        BY <1>1, <2>1, <2>3 DEF BindUdp, CountType
    <2>4. ASSUME NEW d \in air, ReceiveDatagram(d)
          PROVE  CountType'
        <3>1. /\ d \in Datagram /\ d.kind \in Counters
            BY <1>1 DEF Datagram, Counters
        <3>2. /\ stats' = [stats EXCEPT ![d.kind] = stats[d.kind] + 1]
              /\ heard' = Append(heard, d) /\ air' = air \ {d} /\ UNCHANGED sent
            BY <2>4 DEF ReceiveDatagram
        <3>3. stats' \in [Counters -> Nat]
            BY <1>1, <3>1, <3>2
        <3>4. heard' \in Seq(Datagram)
            BY <1>1, <3>1, <3>2, AppendProperties
        <3> QED BY <1>1, <2>1, <3>2, <3>3, <3>4 DEF CountType
    <2>5. ASSUME NEW d \in air, LoseDatagram(d)
          PROVE  CountType'
        BY <1>1, <2>1, <2>5 DEF LoseDatagram, CountType
    <2> QED BY <1>6, <2>2, <2>3, <2>4, <2>5 DEF Udp
<1>7. CASE Satellite \/ Tick \/ UNCHANGED vars
    <2>1. UNCHANGED <<shown, base, stats, sent, air, heard>>
        BY <1>7, SatelliteLeaves, TickLeaves, NoneLeaves
    <2> QED BY <1>1, <2>1 DEF CountType
<1> QED BY <1>2, <1>3, <1>4, <1>5, <1>6, <1>7 DEF Next, TcpReceiver

-----------------------------------------------------------------------------
(* The connections, and what came over the session.                        *)

\* The session the satellite accepts is a connection of the ground.
LEMMA HeadOfBacklog ==
    ASSUME SatelliteType, backlog # <<>>
    PROVE  Head(backlog) \in 1 .. ground.conns /\ Head(backlog) \in Nat
<1>1. /\ backlog \in Seq(Nat)
      /\ \A i \in 1 .. Len(backlog) : backlog[i] \in 1 .. ground.conns
    BY DEF SatelliteType
<1>2. Head(backlog) = backlog[1] /\ Len(backlog) \in Nat \ {0} /\ Head(backlog) \in Nat
    BY <1>1, HeadTailProperties, EmptySeq
<1> QED BY <1>1, <1>2

\* The session stays the same until the end, and the ground on it until it leaves.
LEMMA SessionStays ==
    ASSUME LinkInv, SatelliteType, Connections, Satellite
    PROVE  /\ session # 0 => UNCHANGED session
           /\ OnSession => OnSession' /\ UNCHANGED session
           /\ UNCHANGED session \/ session = 0
<1>1. UNCHANGED ground
    BY SatelliteLeaves
<1>2. \/ UNCHANGED session
      \/ phase = "listening"
    BY SatelliteSteps
<1>3. phase = "listening" => session = 0
    BY DEF Connections
<1>4. OnSession => session # 0
    BY DEF Connections, OnSession
<1> QED BY <1>1, <1>2, <1>3, <1>4 DEF OnSession, GroundAt

LEMMA NextKeepsConnections ==
    ASSUME LinkInv, GroundType, SatelliteType, Connections, [Next]_vars
    PROVE  Connections'
<1>1. /\ phase \in {"closed", "listening"} => session = 0
      /\ phase = "streaming" => session # 0
      /\ ground.pc = "reading" => ground.conn # 0
      /\ ground.pc # "reading" => ground.conn = 0 /\ ground.read = 0
      /\ ~ (ground.pc = "reading" /\ ground.conn = session) => ground.read = 0
    BY DEF Connections, OnSession, GroundAt
<1>2. CASE Satellite
    <2>1. UNCHANGED ground
        BY <1>2, SatelliteLeaves
    <2>2. phase' \in {"closed", "listening"} => session' = 0
        BY <1>1, <1>2, SatelliteSteps
    <2>3. phase' = "streaming" => session' # 0
        BY <1>1, <1>2, SatelliteSteps, HeadOfBacklog
    <2>4. ~ OnSession' => ground.read = 0
        BY <1>2, SessionStays DEF Connections
    <2> QED BY <1>1, <2>1, <2>2, <2>3, <2>4 DEF Connections, GroundAt
<1>3. ASSUME UNCHANGED <<phase, session>>,
             IF ground'.pc = "reading" THEN ground'.conn # 0
                                       ELSE ground'.conn = 0 /\ ground'.read = 0,
             \/ ground'.pc = "reading" /\ ground'.conn = session
             \/ ground'.read = 0
      PROVE  Connections'
    BY <1>1, <1>3 DEF Connections, OnSession, GroundAt
<1>4. CASE TcpReceiver
    <2>1. UNCHANGED <<phase, session>>
        BY <1>4, ReceiverLeaves
    <2>2. CASE Connected
        <3>1. ground'.pc = "reading" /\ ground'.conn = ground.conns + 1
              /\ ground'.read = ground.read
            BY <2>2, GroundSteps DEF NextGround
        <3>2. ground.pc = "connect" /\ ground.conns \in Nat
            BY <2>2 DEF Connected, GroundAt, GroundType
        <3>3. ground.read = 0
            BY <1>1, <3>2
        <3>4. ground'.conn # 0
            BY <3>1, <3>2
        <3> QED BY <1>3, <2>1, <3>1, <3>3, <3>4
    <2>3. CASE Refused \/ EndOfStream \/ ReadError
        <3>1. ground'.pc = "sleep" /\ ground'.conn = 0 /\ ground'.read = 0
            BY <2>3, GroundSteps DEF NextGround
        <3> QED BY <1>3, <2>1, <3>1
    <2>4. CASE ReadLine
        <3>1. ground'.pc = ground.pc /\ ground'.conn = ground.conn
            BY <2>4, GroundSteps DEF NextGround
        <3>2. ground.pc = "reading" /\ ground.conn = session
            BY <2>4 DEF ReadLine, OnSession, GroundAt
        <3> QED BY <1>1, <1>3, <2>1, <3>1, <3>2
    <2>5. CASE Retry
        <3>1. /\ ground'.pc = "connect" /\ ground'.conn = ground.conn
              /\ ground'.read = ground.read
            BY <2>5, GroundSteps DEF NextGround
        <3>2. ground.pc = "sleep"
            BY <2>5 DEF Retry, GroundAt
        <3> QED BY <1>1, <1>3, <2>1, <3>1, <3>2
    <2> QED BY <1>4, <2>2, <2>3, <2>4, <2>5 DEF TcpReceiver
<1>5. CASE User
    <2>1. UNCHANGED <<phase, session>>
        BY <1>5, UserLeaves
    <2>2. CASE Start
        <3>1. /\ ground'.pc = "connect" /\ ground'.conn = ground.conn
              /\ ground'.read = ground.read
            BY <2>2, GroundSteps DEF NextGround
        <3>2. ground.pc = "off"
            BY <2>2 DEF Start, GroundAt
        <3> QED BY <1>1, <1>3, <2>1, <3>1, <3>2
    <2>3. CASE Stop
        <3>1. ground'.pc = "off" /\ ground'.conn = 0 /\ ground'.read = 0
            BY <2>3, GroundSteps DEF NextGround
        <3> QED BY <1>3, <2>1, <3>1
    <2> QED BY <1>5, <2>2, <2>3 DEF User
<1>6. CASE Udp \/ UNCHANGED vars
    <2>1. UNCHANGED <<phase, session>> /\ UNCHANGED ground
        BY <1>6, UdpLeaves, NoneLeaves
    <2> QED BY <1>1, <1>3, <2>1
<1>7. CASE Tick
    <2>1. UNCHANGED <<phase, session>>
        BY <1>7, TickLeaves
    <2>2. /\ ground'.pc = ground.pc /\ ground'.conn = ground.conn
          /\ ground'.read = ground.read
        BY <1>7, GroundSteps DEF NextGround
    <2> QED BY <1>1, <1>3, <2>1, <2>2
<1> QED BY <1>2, <1>4, <1>5, <1>6, <1>7 DEF Next

\* Steps in which nothing is displayed and the ground gets no further.
LEMMA NothingShown ==
    ASSUME ShownInv, UNCHANGED <<shown, lines, phase, session>>,
           OnSession' => OnSession /\ ground'.read = ground.read
    PROVE  ShownInv'
BY DEF ShownInv

LEMMA SatelliteKeepsShown ==
    ASSUME LinkInv, SatelliteType, CountType, Connections, ShownInv, Satellite
    PROVE  ShownInv'
<1>1. UNCHANGED ground /\ UNCHANGED shown
    BY SatelliteLeaves
<1>2. session = 0 => shown = <<>>
    BY DEF ShownInv
<1>3. /\ session' = 0 => shown' = <<>>
      /\ \A i \in 1 .. Len(shown') : shown'[i].conn = session'
    <2>1. CASE session = 0
        BY <1>1, <1>2, <2>1
    <2>2. CASE session # 0
        BY <1>1, <2>2, SessionStays DEF ShownInv
    <2> QED BY <2>1, <2>2
<1>4. ASSUME NEW i \in 1 .. Len(shown)
      PROVE  IF shown[i].whole
             THEN i <= Len(lines') /\ shown[i].line = lines'[i]
             ELSE i = Len(shown) /\ i = Len(lines') + 1 /\ phase' = "over"
    <2>1. CASE UNCHANGED lines /\ phase' = "over"
        BY <1>4, <2>1 DEF ShownInv
    <2>2. CASE UNCHANGED lines /\ phase # "over"
        BY <1>4, <2>2 DEF ShownInv
    <2>3. ASSUME NEW x \in Line, lines' = Append(lines, x), phase = "streaming"
          PROVE  shown[i].whole /\ i <= Len(lines') /\ shown[i].line = lines'[i]
        <3>1. shown[i].whole /\ i <= Len(lines) /\ shown[i].line = lines[i]
            BY <1>4, <2>3 DEF ShownInv
        <3>2. lines \in Seq(Line) /\ Len(lines) \in Nat
            BY DEF SatelliteType
        <3>3. /\ Len(lines') = Len(lines) + 1
              /\ \A j \in 1 .. Len(lines) : lines'[j] = lines[j]
            BY <2>3, <3>2, AppendProperties
        <3> QED BY <3>1, <3>2, <3>3
    <2>4. LinesSent \subseteq Line
        BY LineFacts DEF LinesSent
    <2> QED BY <2>1, <2>2, <2>3, <2>4, SatelliteSteps
<1>5. OnSession' => /\ Len(shown) = ground.read
                    /\ \A i \in 1 .. Len(shown) : shown[i].whole
    <2>1. CASE OnSession
        BY <2>1 DEF ShownInv
    <2>2. CASE ~ OnSession /\ session # 0
        BY <1>1, <2>2, SessionStays DEF OnSession, GroundAt
    <2>3. CASE ~ OnSession /\ session = 0
        <3>1. shown = <<>> /\ ground.read = 0 /\ Len(<<>>) = 0
            BY <1>2, <2>3 DEF Connections
        <3> QED BY <3>1
    <2> QED BY <2>1, <2>2, <2>3
<1> QED BY <1>1, <1>3, <1>4, <1>5 DEF ShownInv

\* The ground reads a line of the session and displays it.
LEMMA ReadKeepsShown ==
    ASSUME GroundType, SatelliteType, CountType, Connections, ShownInv,
           ReadLine, TcpReceiver
    PROVE  ShownInv'
<1> DEFINE x == lines[ground.read + 1]
           e == [line |-> x, whole |-> TRUE, conn |-> ground.conn]
<1>1. UNCHANGED <<lines, phase, session>>
    BY ReceiverLeaves
<1>2. /\ OnSession /\ ground.conn = session /\ session # 0
      /\ ground.read < Len(lines) /\ Display(x, TRUE)
    BY DEF ReadLine, OnSession, Connections
<1>3. ground.read \in Nat /\ Len(lines) \in Nat /\ lines \in Seq(Line)
    BY DEF GroundType, SatelliteType
<1>4. ground.read + 1 \in 1 .. Len(lines)
    BY <1>2, <1>3
<1>5. x \in Line /\ x.kind = "TELEMETRY"
    <2>1. x \in LinesSent
        BY <1>4 DEF SatelliteType
    <2> QED BY <2>1, LineFacts DEF LinesSent
<1>6. ground.conn \in Nat \ {0}
    BY <1>2 DEF Connections, GroundType
<1>7. e \in ShownLine /\ e.line = x /\ e.whole /\ e.conn = session
    BY <1>2, <1>5, <1>6 DEF ShownLine
<1>8. shown' = Append(shown, e)
    BY <1>2, <1>5 DEF Display
<1> HIDE DEF e, x
<1>9. /\ Len(shown) = ground.read
      /\ \A i \in 1 .. Len(shown) : /\ shown[i].whole /\ shown[i].conn = session
                                    /\ i <= Len(lines) /\ shown[i].line = lines[i]
    BY <1>2 DEF ShownInv
<1>10. /\ Len(shown') = Len(shown) + 1
       /\ \A i \in 1 .. Len(shown) : shown'[i] = shown[i]
       /\ shown'[Len(shown) + 1] = e
    BY <1>7, <1>8, AppendProperties DEF CountType
<1>11. ground'.read = ground.read + 1
    BY GroundSteps DEF NextGround
<1>12. ASSUME NEW i \in 1 .. Len(shown')
       PROVE  /\ shown'[i].whole /\ shown'[i].conn = session
              /\ i <= Len(lines) /\ shown'[i].line = lines[i]
    <2>1. CASE i \in 1 .. Len(shown)
        BY <1>9, <1>10, <2>1
    <2>2. CASE i = Len(shown) + 1
        BY <1>2, <1>3, <1>4, <1>7, <1>9, <1>10, <2>2 DEF x
    <2> QED BY <1>3, <1>9, <1>10, <2>1, <2>2
<1> QED BY <1>1, <1>2, <1>3, <1>9, <1>10, <1>11, <1>12 DEF ShownInv

\* The stream has ended, and what stood before its end is displayed.
LEMMA EndKeepsShown ==
    ASSUME GroundType, SatelliteType, CountType, Connections, ShownInv,
           EndOfStream, TcpReceiver
    PROVE  ShownInv'
<1> DEFINE e == [line |-> cut, whole |-> FALSE, conn |-> ground.conn]
<1>1. UNCHANGED <<lines, phase, session>>
    BY ReceiverLeaves
<1>2. /\ OnSession /\ ground.conn = session /\ session # 0 /\ phase = "over"
      /\ ground.read = Len(lines) /\ Display(cut, FALSE)
    BY DEF EndOfStream, OnSession, Connections
<1>3. ~ OnSession'
    <2>1. ground'.pc = "sleep"
        BY GroundSteps DEF NextGround
    <2> QED BY <2>1 DEF OnSession, GroundAt
<1>4. CASE UNCHANGED shown
    BY <1>1, <1>3, <1>4, NothingShown
<1>5. CASE shown' = Append(shown, e)
    <2>1. e \in ShownLine /\ ~ e.whole /\ e.conn = session
        BY <1>2 DEF ShownLine, SatelliteType, Connections, GroundType
    <2> HIDE DEF e
    <2>2. /\ Len(shown') = Len(shown) + 1
          /\ \A i \in 1 .. Len(shown) : shown'[i] = shown[i]
          /\ shown'[Len(shown) + 1] = e /\ Len(shown) \in Nat
        BY <1>5, <2>1, AppendProperties DEF CountType
    <2>3. /\ Len(shown) = Len(lines)
          /\ \A i \in 1 .. Len(shown) : /\ shown[i].whole /\ shown[i].conn = session
                                        /\ i <= Len(lines) /\ shown[i].line = lines[i]
        BY <1>2 DEF ShownInv
    <2>4. ASSUME NEW i \in 1 .. Len(shown')
          PROVE  /\ shown'[i].conn = session
                 /\ IF shown'[i].whole
                    THEN i <= Len(lines) /\ shown'[i].line = lines[i]
                    ELSE i = Len(shown') /\ i = Len(lines) + 1 /\ phase = "over"
        <3>1. CASE i \in 1 .. Len(shown)
            BY <2>2, <2>3, <3>1
        <3>2. CASE i = Len(shown) + 1
            BY <1>2, <2>1, <2>2, <2>3, <3>2
        <3> QED BY <2>2, <3>1, <3>2
    <2> QED BY <1>1, <1>2, <1>3, <2>4 DEF ShownInv
<1> QED BY <1>2, <1>4, <1>5 DEF Display

LEMMA NextKeepsShown ==
    ASSUME LinkInv, GroundType, SatelliteType, CountType, Connections, ShownInv,
           [Next]_vars
    PROVE  ShownInv'
<1>1. CASE TcpReceiver /\ ~ ReadLine /\ ~ EndOfStream
    <2>1. UNCHANGED <<lines, phase, session, shown>>
        BY <1>1, ReceiverLeaves DEF TcpReceiver, Connected, Refused, ReadError, Retry
    <2>2. ~ OnSession'
        <3>1. CASE Connected
            <4>1. ground'.conn = ground.conns + 1 /\ ground.conns \in Nat
                  /\ session \in Nat /\ session <= ground.conns
                BY <3>1, GroundSteps DEF NextGround, GroundType, SatelliteType
            <4>2. ground'.conn # session
                BY <4>1
            <4> QED BY <2>1, <4>2 DEF OnSession
        <3>2. CASE Refused \/ ReadError \/ Retry
            <4>1. ground'.pc \in {"sleep", "connect"}
                BY <3>2, GroundSteps DEF NextGround
            <4> QED BY <4>1 DEF OnSession, GroundAt
        <3> QED BY <1>1, <3>1, <3>2 DEF TcpReceiver
    <2> QED BY <2>1, <2>2, NothingShown
<1>2. CASE User
    <2>1. UNCHANGED <<lines, phase, session, shown>>
        BY <1>2, UserLeaves
    <2>2. ground'.pc \in {"off", "connect"}
        BY <1>2, GroundSteps DEF NextGround, User
    <2>3. ~ OnSession'
        BY <2>2 DEF OnSession, GroundAt
    <2> QED BY <2>1, <2>3, NothingShown
<1>3. CASE Udp \/ UNCHANGED vars
    <2>1. UNCHANGED <<lines, phase, session, shown>> /\ UNCHANGED ground
        BY <1>3, UdpLeaves, NoneLeaves
    <2>2. OnSession' => OnSession
        BY <2>1 DEF OnSession, GroundAt
    <2> QED BY <2>1, <2>2, NothingShown
<1>4. CASE Tick
    <2>1. UNCHANGED <<lines, phase, session, shown>>
        BY <1>4, TickLeaves
    <2>2. /\ ground'.pc = ground.pc /\ ground'.conn = ground.conn
          /\ ground'.read = ground.read
        BY <1>4, GroundSteps DEF NextGround
    <2>3. OnSession' => OnSession
        BY <2>1, <2>2 DEF OnSession, GroundAt
    <2> QED BY <2>1, <2>2, <2>3, NothingShown
<1> QED BY <1>1, <1>2, <1>3, <1>4, SatelliteKeepsShown, ReadKeepsShown, EndKeepsShown
        DEF Next

-----------------------------------------------------------------------------
(* The totals.                                                             *)

\* A set of indices and the next one.
LEMMA OneMore ==
    ASSUME NEW n \in Nat, NEW S, S \subseteq 1 .. n
    PROVE  /\ Cardinality(S) \in Nat
           /\ Cardinality(S \union {n + 1}) = Cardinality(S) + 1
           /\ S \union {} = S
<1>1. IsFiniteSet(1 .. n)
    <2>1. 1 \in Int /\ n \in Int
        OBVIOUS
    <2> QED BY <2>1, FS_Interval
<1>2. IsFiniteSet(S) /\ Cardinality(S) \in Nat
    <2>1. IsFiniteSet(S)
        BY <1>1, FS_Subset
    <2> QED BY <2>1, FS_CardinalityType
<1>3. n + 1 \notin S
    OBVIOUS
<1>4. Cardinality(S \union {n + 1}) = Cardinality(S) + 1
    BY <1>2, <1>3, FS_AddElement
<1> QED BY <1>2, <1>4

\* Nothing is counted and nothing displayed.
LEMMA SameTotals ==
    ASSUME CountsShown, UNCHANGED <<stats, shown, base, heard>>
    PROVE  CountsShown'
BY DEF CountsShown, Displayed

\* A line is counted as what it is displayed as.
LEMMA DisplayCounts ==
    ASSUME CountType, CountsShown, NEW line \in Line, NEW whole \in BOOLEAN,
           ground.conn \in Nat \ {0}, Display(line, whole), UNCHANGED <<base, heard>>
    PROVE  CountsShown'
<1>1. /\ stats \in [Counters -> Nat] /\ shown \in Seq(ShownLine)
      /\ base \in Nat /\ base <= Len(shown) /\ Len(shown) \in Nat
    BY DEF CountType
<1>2. CASE line.kind # "TELEMETRY"
    BY <1>2, SameTotals DEF Display
<1>3. CASE line.kind = "TELEMETRY"
    <2> DEFINE e == [line |-> line, whole |-> whole, conn |-> ground.conn]
               n == Len(shown)
               mine == base + 1 .. n
               more == base + 1 .. n + 1
    <2>1. e \in ShownLine /\ e.line = line
        BY DEF ShownLine
    <2>2. shown' = Append(shown, e)
        BY <1>3 DEF Display
    <2> HIDE DEF e
    <2>3. /\ Len(shown') = n + 1 /\ \A i \in 1 .. n : shown'[i] = shown[i]
          /\ shown'[n + 1] = e
        BY <1>1, <2>1, <2>2, AppendProperties
    <2>4. \A c \in Counters :
            stats'[c] = stats[c] + (IF c \in Counts(line) THEN 1 ELSE 0)
        BY <1>3 DEF Display
    <2>5. /\ more = mine \union {n + 1} /\ n + 1 \notin mine
          /\ \A i \in mine : i \in 1 .. n
        BY <1>1
    <2> DEFINE J == {i \in mine : shown[i].line.status = "JITTER_WARN"}
               K == {i \in mine : Colour(shown[i].line) = "RED"}
               J2 == {i \in more : shown'[i].line.status = "JITTER_WARN"}
               K2 == {i \in more : Colour(shown'[i].line) = "RED"}
    <2>6. J2 = J \union (IF line.status = "JITTER_WARN" THEN {n + 1} ELSE {})
        BY <2>1, <2>3, <2>5
    <2>7. K2 = K \union (IF Colour(line) = "RED" THEN {n + 1} ELSE {})
        BY <2>1, <2>3, <2>5
    <2>8. /\ Displayed.telemetry = mine /\ Displayed'.telemetry = more
          /\ Displayed.jitter = J /\ Displayed'.jitter = J2
          /\ Displayed.corrupt = K /\ Displayed'.corrupt = K2
          /\ UNCHANGED <<Displayed.alerts, Displayed.status>>
        BY <2>3 DEF Displayed
    <2>9. J \subseteq 1 .. n /\ K \subseteq 1 .. n /\ mine \subseteq 1 .. n
        BY <2>5
    <2> HIDE DEF J, K, J2, K2, mine, more
    <2>11. /\ Cardinality(more) = Cardinality(mine) + 1
           /\ Cardinality(mine) \in Nat
        <3>1. /\ Cardinality(mine) \in Nat
              /\ Cardinality(mine \union {n + 1}) = Cardinality(mine) + 1
            BY <1>1, <2>9, OneMore
        <3> QED BY <2>5, <3>1
    <2>12. /\ Cardinality(J2) = Cardinality(J)
                + IF line.status = "JITTER_WARN" THEN 1 ELSE 0
           /\ Cardinality(J) \in Nat
        <3>1. /\ Cardinality(J) \in Nat /\ J \union {} = J
              /\ Cardinality(J \union {n + 1}) = Cardinality(J) + 1
            BY <1>1, <2>9, OneMore
        <3>2. CASE line.status = "JITTER_WARN"
            BY <2>6, <3>1, <3>2
        <3>3. CASE ~ (line.status = "JITTER_WARN")
            BY <2>6, <3>1, <3>3
        <3> QED BY <3>2, <3>3
    <2>13. /\ Cardinality(K2) = Cardinality(K) + IF Colour(line) = "RED" THEN 1 ELSE 0
           /\ Cardinality(K) \in Nat
        <3>1. /\ Cardinality(K) \in Nat /\ K \union {} = K
              /\ Cardinality(K \union {n + 1}) = Cardinality(K) + 1
            BY <1>1, <2>9, OneMore
        <3>2. CASE Colour(line) = "RED"
            BY <2>7, <3>1, <3>2
        <3>3. CASE ~ (Colour(line) = "RED")
            BY <2>7, <3>1, <3>3
        <3> QED BY <3>2, <3>3
    <2>14. /\ "telemetry" \in Counts(line)
           /\ "jitter" \in Counts(line) <=> line.status = "JITTER_WARN"
           /\ "corrupt" \in Counts(line) <=> Colour(line) = "RED"
           /\ "alerts" \notin Counts(line) /\ "status" \notin Counts(line)
        BY DEF Counts
    <2>15. /\ stats.telemetry = Cardinality(mine) /\ stats.jitter = Cardinality(J)
           /\ stats.corrupt = Cardinality(K)
           /\ stats.alerts = Cardinality(Displayed.alerts)
           /\ stats.status = Cardinality(Displayed.status)
        BY <2>8 DEF CountsShown, Counters
    <2>16. /\ stats'.telemetry = Cardinality(more)
           /\ stats'.jitter = Cardinality(J2) /\ stats'.corrupt = Cardinality(K2)
        BY <2>4, <2>11, <2>12, <2>13, <2>14, <2>15 DEF Counters
    <2>17. stats'.alerts = stats.alerts /\ stats'.status = stats.status
        BY <1>1, <2>4, <2>14 DEF Counters
    <2> QED BY <2>8, <2>15, <2>16, <2>17 DEF CountsShown, Counters
<1> QED BY <1>2, <1>3

\* A datagram is counted as what it is.
LEMMA HeardCounts ==
    ASSUME CountType, CountsShown, NEW d \in Datagram,
           heard' = Append(heard, d), stats' = [stats EXCEPT ![d.kind] = @ + 1],
           UNCHANGED <<shown, base>>
    PROVE  CountsShown'
<1>1. /\ stats \in [Counters -> Nat] /\ heard \in Seq(Datagram) /\ Len(heard) \in Nat
      /\ d.kind \in {"alerts", "status"}
    BY DEF CountType, Datagram
<1> DEFINE n == Len(heard)
           H(k) == {i \in 1 .. Len(heard) : heard[i].kind = k}
           I(k) == {i \in 1 .. Len(heard') : heard'[i].kind = k}
<1>2. /\ Len(heard') = n + 1 /\ \A i \in 1 .. n : heard'[i] = heard[i]
      /\ heard'[n + 1] = d
    BY <1>1, AppendProperties
<1>3. \A k : I(k) = H(k) \union (IF d.kind = k THEN {n + 1} ELSE {})
    BY <1>1, <1>2
<1>4. \A k : H(k) \subseteq 1 .. n /\ n + 1 \notin H(k)
    BY <1>1
<1>5. /\ Displayed.alerts = H("alerts") /\ Displayed'.alerts = I("alerts")
      /\ Displayed.status = H("status") /\ Displayed'.status = I("status")
      /\ UNCHANGED <<Displayed.telemetry, Displayed.jitter, Displayed.corrupt>>
    BY DEF Displayed
<1> HIDE DEF H, I
<1>6. \A k : /\ Cardinality(I(k)) = Cardinality(H(k)) + IF d.kind = k THEN 1 ELSE 0
             /\ Cardinality(H(k)) \in Nat
    <2> SUFFICES ASSUME NEW k
                 PROVE  /\ Cardinality(I(k)) = Cardinality(H(k))
                                                + IF d.kind = k THEN 1 ELSE 0
                        /\ Cardinality(H(k)) \in Nat
        OBVIOUS
    <2>1. H(k) \subseteq 1 .. n
        BY <1>4
    <2>2. /\ Cardinality(H(k)) \in Nat /\ H(k) \union {} = H(k)
          /\ Cardinality(H(k) \union {n + 1}) = Cardinality(H(k)) + 1
        BY <1>1, <2>1, OneMore
    <2>3. CASE d.kind = k
        BY <1>3, <2>2, <2>3
    <2>4. CASE d.kind # k
        <3>1. I(k) = H(k) \union {}
            BY <1>3, <2>4
        <3>2. I(k) = H(k)
            BY <3>1
        <3> QED BY <2>2, <2>4, <3>2
    <2> QED BY <2>3, <2>4
<1>7. /\ stats.telemetry = Cardinality(Displayed.telemetry)
      /\ stats.jitter = Cardinality(Displayed.jitter)
      /\ stats.corrupt = Cardinality(Displayed.corrupt)
      /\ stats.alerts = Cardinality(H("alerts"))
      /\ stats.status = Cardinality(H("status"))
    BY <1>5 DEF CountsShown, Counters
<1>8. \A k \in Counters : stats'[k] = stats[k] + IF d.kind = k THEN 1 ELSE 0
    BY <1>1 DEF Counters
<1>9. stats'.alerts = Cardinality(I("alerts")) /\ stats'.status = Cardinality(I("status"))
    BY <1>6, <1>7, <1>8 DEF Counters
<1>10. /\ stats'.telemetry = stats.telemetry /\ stats'.jitter = stats.jitter
       /\ stats'.corrupt = stats.corrupt
    BY <1>1, <1>8 DEF Counters
<1> QED BY <1>5, <1>7, <1>9, <1>10 DEF CountsShown, Counters

LEMMA NextKeepsTotals ==
    ASSUME GroundType, SatelliteType, CountType, Connections, CountsShown,
           [Next]_vars
    PROVE  CountsShown'
<1>1. CASE ReadLine /\ TcpReceiver
    <2>1. lines[ground.read + 1] \in Line
        <3>1. ground.read + 1 \in 1 .. Len(lines) /\ lines \in Seq(Line)
            BY <1>1 DEF ReadLine, GroundType, SatelliteType
        <3> QED BY <3>1, ElementOfSeq
    <2>2. ground.conn \in Nat \ {0}
        BY <1>1 DEF ReadLine, OnSession, Connections, GroundType
    <2>3. Display(lines[ground.read + 1], TRUE) /\ UNCHANGED <<base, heard>>
        BY <1>1, ReceiverLeaves DEF ReadLine
    <2> QED BY <2>1, <2>2, <2>3, DisplayCounts
<1>2. CASE EndOfStream /\ TcpReceiver
    <2>1. ground.conn \in Nat \ {0} /\ cut \in Line
        BY <1>2 DEF EndOfStream, OnSession, Connections, GroundType, SatelliteType
    <2>2. Display(cut, FALSE) /\ UNCHANGED <<base, heard>>
        BY <1>2, ReceiverLeaves DEF EndOfStream
    <2> QED BY <2>1, <2>2, DisplayCounts
<1>3. CASE TcpReceiver /\ ~ ReadLine /\ ~ EndOfStream
    <2>1. UNCHANGED <<stats, shown, base>>
        BY <1>3 DEF TcpReceiver, Connected, Refused, ReadError, Retry
    <2> QED BY <1>3, <2>1, ReceiverLeaves, SameTotals
<1>4. CASE Start /\ User
    <2>1. /\ stats' = NoCounts /\ base' = Len(shown) /\ heard' = <<>>
          /\ UNCHANGED shown /\ Len(shown) \in Nat /\ Len(<<>>) = 0
        BY <1>4 DEF Start, CountType
    <2>2. Len(shown) + 1 .. Len(shown) = {} /\ 1 .. 0 = {}
        BY <2>1
    <2>3. /\ Displayed'.telemetry = {} /\ Displayed'.jitter = {}
          /\ Displayed'.corrupt = {} /\ Displayed'.alerts = {} /\ Displayed'.status = {}
        BY <2>1, <2>2 DEF Displayed
    <2>4. Cardinality({}) = 0
        BY FS_EmptySet
    <2>5. \A k \in Counters : stats'[k] = 0
        BY <2>1 DEF NoCounts
    <2> QED BY <2>3, <2>4, <2>5 DEF CountsShown, Counters
<1>5. CASE Stop /\ User
    BY <1>5, SameTotals DEF Stop
<1>6. CASE Udp
    <2>1. UNCHANGED <<shown, base>>
        BY <1>6, UdpLeaves
    <2>2. ASSUME NEW d \in air, ReceiveDatagram(d) PROVE CountsShown'
        <3>1. d \in Datagram
            BY DEF CountType
        <3> QED BY <2>1, <2>2, <3>1, HeardCounts DEF ReceiveDatagram
    <2>3. CASE UNCHANGED <<stats, heard>>
        BY <2>1, <2>3, SameTotals
    <2> QED BY <1>6, <2>2, <2>3 DEF Udp, SendDatagram, BindUdp, LoseDatagram
<1>7. CASE Satellite \/ Tick \/ UNCHANGED vars
    BY <1>7, SatelliteLeaves, TickLeaves, NoneLeaves, SameTotals
<1> QED BY <1>1, <1>2, <1>3, <1>4, <1>5, <1>6, <1>7 DEF Next, TcpReceiver, User
-----------------------------------------------------------------------------
(* The theorems.                                                           *)

LEMMA InitInv == Init => Inv
<1> SUFFICES ASSUME Init PROVE Inv
    OBVIOUS
<1>1. LinkInv
    BY InitLinkInv DEF Init
<1>2. /\ wire = <<>> /\ phase = "closed"
      /\ accept_left = 0 /\ backlog = <<>> /\ session = 0 /\ lines = <<>>
      /\ cut = NoLine /\ stats = NoCounts /\ sent = 0 /\ air = {}
      /\ shown = <<>> /\ base = 0 /\ heard = <<>>
    BY DEF Init, LinkInit
<1>3. ground = [pc |-> "off", starts |-> 0, conn |-> 0, conns |-> 0, read |-> 0,
                timer |-> 0, refused |-> FALSE]
    BY DEF Init
<1>4. GroundType
    <2>1. 0 <= AttemptTime
        BY GroundAssumption
    <2> QED BY <1>3, <2>1 DEF GroundType, GroundAt
<1>5. SatelliteType
    <2>1. /\ <<>> \in Seq(Nat) /\ <<>> \in Seq(Line) /\ Len(<<>>) = 0
          /\ 1 .. 0 = {} /\ 0 \in 0 .. ConnectTimeout
        BY GroundAssumption
    <2>2. NoLine \in Line
        BY DEF NoLine, Line, Field
    <2>3. ground.conns = 0
        BY <1>3
    <2> QED BY <1>2, <2>1, <2>2, <2>3 DEF SatelliteType
<1>6. CountType
    <2>1. /\ <<>> \in Seq(ShownLine) /\ <<>> \in Seq(Datagram) /\ Len(<<>>) = 0
        OBVIOUS
    <2>2. NoCounts \in [Counters -> Nat]
        BY DEF NoCounts
    <2> QED BY <1>2, <2>1, <2>2 DEF CountType
<1>7. Connections
    BY <1>2, <1>3 DEF Connections, GroundAt
<1>8. ShownInv
    BY <1>2, <1>3 DEF ShownInv, OnSession, GroundAt
<1>9. CountsShown
    <2>1. base + 1 .. Len(shown) = {} /\ 1 .. Len(heard) = {}
        BY <1>2
    <2>2. /\ Displayed.telemetry = {} /\ Displayed.jitter = {}
          /\ Displayed.corrupt = {} /\ Displayed.alerts = {} /\ Displayed.status = {}
        BY <2>1 DEF Displayed
    <2>3. Cardinality({}) = 0
        BY FS_EmptySet
    <2>4. \A k \in Counters : stats[k] = 0
        BY <1>2 DEF NoCounts
    <2> QED BY <2>2, <2>3, <2>4 DEF CountsShown, Counters
<1> QED BY <1>1, <1>4, <1>5, <1>6, <1>7, <1>8, <1>9 DEF Inv

LEMMA NextKeepsInv == Inv /\ [Next]_vars => Inv'
<1> SUFFICES ASSUME Inv, [Next]_vars PROVE Inv'
    OBVIOUS
<1>1. /\ LinkInv /\ GroundType /\ SatelliteType /\ CountType
      /\ Connections /\ ShownInv /\ CountsShown
    BY DEF Inv
<1>2. LinkInv'
    BY <1>1, StepIsLink, LinkStepInv
<1>3. GroundType' /\ SatelliteType' /\ CountType'
    BY <1>1, NextKeepsGround, NextKeepsSatellite, NextKeepsCountType
<1>4. Connections' /\ ShownInv'
    BY <1>1, NextKeepsConnections, NextKeepsShown
<1>5. CountsShown'
    BY <1>1, NextKeepsTotals
<1> QED BY <1>2, <1>3, <1>4, <1>5 DEF Inv

\* What the two programs keep of one connection agrees in every state.
THEOREM InvHolds == Spec => []Inv
BY InitInv, NextKeepsInv, PTL DEF Spec

\* A sequence of numbers, each of which is in a set.
LEMMA ElementsIn ==
    ASSUME NEW S, NEW T, NEW q \in Seq(T), \A i \in 1 .. Len(q) : q[i] \in S
    PROVE  q \in Seq(S)
<1>1. Len(q) \in Nat /\ q \in [1 .. Len(q) -> T]
    BY LenProperties
<1>2. q \in [1 .. Len(q) -> S]
    BY <1>1
<1> QED BY <1>1, <1>2

\* The records of the two programs are well-formed and fit together: the ground
\* has read no more than was written, and waits no longer than it asks to.
THEOREM Typed == Spec => []TypeOK
<1>1. Inv => TypeOK
    <2> SUFFICES ASSUME Inv PROVE TypeOK
        OBVIOUS
    <2>1. /\ LinkTypeOK /\ GroundType /\ SatelliteType /\ CountType
          /\ Connections /\ ShownInv
        BY DEF Inv, LinkInv
    <2>2. backlog \in Seq(1 .. ground.conns)
        <3>1. /\ backlog \in Seq(Nat)
              /\ \A i \in 1 .. Len(backlog) : backlog[i] \in 1 .. ground.conns
            BY <2>1 DEF SatelliteType
        <3> QED BY <3>1, ElementsIn
    <2>3. /\ accept_left \in 0 .. ConnectTimeout /\ lines \in Seq(Line)
          /\ Len(lines) = Len(wire) /\ cut \in Line
          /\ session \in Nat /\ session <= ground.conns
        BY <2>1 DEF SatelliteType
    <2>4. /\ ground.pc \in {"off", "connect", "reading", "sleep"}
          /\ ground.conns \in Nat /\ ground.read \in Nat /\ ground.timer \in Nat
          /\ ground.timer <= IF GroundAt("sleep") THEN RetryDelay ELSE AttemptTime
        BY <2>1 DEF GroundType
    <2>5. session \in 0 .. ground.conns
        BY <2>3, <2>4
    <2>6. ground.timer \in 0 .. IF GroundAt("sleep") THEN RetryDelay ELSE AttemptTime
        <3>1. RetryDelay \in Nat /\ AttemptTime \in Nat
            BY GroundAssumption
        <3> QED BY <2>4, <3>1
    <2>7. /\ stats \in [Counters -> Nat] /\ shown \in Seq(ShownLine)
          /\ base \in Nat /\ base <= Len(shown) /\ Len(shown) \in Nat
        BY <2>1 DEF CountType
    <2>8. base \in 0 .. Len(shown)
        BY <2>7
    <2>9. ground.read \in 0 .. Len(lines)
        <3>1. Len(lines) \in Nat
            BY <2>3, LenProperties
        <3>2. CASE ~ OnSession
            BY <2>1, <3>1, <3>2 DEF Connections
        <3>3. CASE OnSession
            <4>1. /\ Len(shown) = ground.read
                  /\ \A i \in 1 .. Len(shown) : i <= Len(lines)
                BY <2>1, <3>3 DEF ShownInv
            <4> QED BY <2>4, <3>1, <4>1
        <3> QED BY <3>2, <3>3
    <2> QED BY <2>1, <2>2, <2>3, <2>4, <2>5, <2>6, <2>7, <2>8, <2>9 DEF TypeOK
<1> QED BY <1>1, InvHolds, PTL

\* What is displayed, over any number of starts, stops, attempts and breaks, is
\* what the satellite wrote: in order, each packet once, over one connection.
THEOREM DisplayIsWritten == Spec => []ShownIsWritten
<1>1. Inv => ShownIsWritten
    BY DEF Inv, ShownInv, ShownIsWritten
<1> QED BY <1>1, InvHolds, PTL

\* What a line that arrives whole is read as.
LEMMA ReadAsSent ==
    ASSUME NEW x \in LinesSent, NEW S
    PROVE  /\ ValueRead(x) = "NaN" <=> x.value = "null"
           /\ Colour(x) = "RED" <=> /\ x.value = "null"
                                    /\ x.status \notin {"JITTER_WARN", "DEGRADED"}
           /\ x.value = "null" /\ x.status \in S <=>
                \E v \in {"NaN"}, s \in S : x = Serialise(v, s)
           /\ x.status \in S <=> \E v \in Values, s \in S : x = Serialise(v, s)
           /\ x.status \in Statuses
<1>1. PICK v \in Values, s \in Statuses : x = Serialise(v, s)
    BY DEF LinesSent
<1>2. \A u, r : /\ Serialise(u, r).status = r
                 /\ Serialise(u, r).value = IF u = "NaN" THEN "null" ELSE "digits"
    BY DEF Serialise
<1>3. x.status = s /\ x.value = IF v = "NaN" THEN "null" ELSE "digits"
    BY <1>1, <1>2
<1>4. ValueRead(x) = "NaN" <=> x.value = "null"
    BY <1>3 DEF ValueRead
<1>5. Colour(x) = "RED" <=> /\ x.value = "null"
                            /\ x.status \notin {"JITTER_WARN", "DEGRADED"}
    BY <1>4 DEF Colour
<1>6. x.value = "null" /\ x.status \in S <=> 
        \E u \in {"NaN"}, r \in S : x = Serialise(u, r)
    BY <1>1, <1>2, <1>3
<1>7. x.status \in S <=> \E u \in Values, r \in S : x = Serialise(u, r)
    BY <1>1, <1>2, <1>3
<1> QED BY <1>3, <1>4, <1>5, <1>6, <1>7

\* A set of indices, with the next one or without.
LEMMA OneApart ==
    ASSUME NEW n \in Nat, NEW A, NEW B, A \subseteq 1 .. n,
           B = A \/ B = A \union {n + 1}
    PROVE  Cardinality(B) - Cardinality(A) \in 0 .. 1
<1>1. /\ Cardinality(A) \in Nat
      /\ Cardinality(A \union {n + 1}) = Cardinality(A) + 1
    BY OneMore
<1>2. Cardinality(B) = Cardinality(A) \/ Cardinality(B) = Cardinality(A) + 1
    BY <1>1
<1> QED BY <1>1, <1>2

\* Whoever displays, and however often the ground is started anew: a reading is
\* printed as CORRUPT if and only if the satellite sent a NaN, and the totals printed
\* are the numbers of lines, of jitter warnings and of NaNs without a warning that it
\* sent, but for one line at most that was cut off at the end of the run.
THEOREM TotalsAreTrue == Spec => []TotalsMatchSent
<1>1. Inv => TotalsMatchSent
    <2> SUFFICES ASSUME Inv PROVE TotalsMatchSent
        OBVIOUS
    <2> DEFINE mine == base + 1 .. Len(shown)
               entire == mine \cap 1 .. Len(lines)
               Sent(V, S) == {n \in entire :
                                \E v \in V, s \in S : lines[n] = Serialise(v, s)}
               Heard(kind) == {n \in 1 .. Len(heard) : heard[n].kind = kind}
               Plain == Statuses \ {"JITTER_WARN", "DEGRADED"}
               J == {i \in mine : shown[i].line.status = "JITTER_WARN"}
               K == {i \in mine : Colour(shown[i].line) = "RED"}
               last == Len(lines) + 1
               part == Cardinality(mine \ entire)
               SentJ == Sent(Values, {"JITTER_WARN"})
               SentK == Sent({"NaN"}, Plain)
    <2>1. /\ base \in Nat /\ Len(shown) \in Nat /\ Len(lines) \in Nat
          /\ stats \in [Counters -> Nat]
          /\ \A i \in 1 .. Len(lines) : lines[i] \in LinesSent
        BY LenProperties DEF Inv, CountType, SatelliteType
    <2>2. \A i \in 1 .. Len(shown) : \/ i \in 1 .. Len(lines) /\ shown[i].line = lines[i]
                                     \/ i = last
        BY <2>1 DEF Inv, ShownInv
    <2>3. entire \subseteq 1 .. Len(lines) /\ (mine = entire \/ mine = entire \union {last})
        BY <2>1, <2>2
    <2>4. \A n \in entire : lines[n] \in LinesSent /\ shown[n].line = lines[n]
        BY <2>1, <2>2
    <2>5. /\ stats.telemetry = Cardinality(mine) /\ stats.jitter = Cardinality(J)
          /\ stats.corrupt = Cardinality(K)
          /\ \A kind \in {"alerts", "status"} : stats[kind] = Cardinality(Heard(kind))
        BY DEF Inv, CountsShown, Displayed, Counters
    <2>6. Sent(Values, Statuses) = entire
        BY <2>4 DEF LinesSent
    <2>7. ASSUME NEW n \in entire
          PROVE  /\ shown[n].line.status = "JITTER_WARN" <=> n \in SentJ
                 /\ Colour(shown[n].line) = "RED" <=> n \in SentK
                 /\ ValueRead(shown[n].line) = "NaN" <=> n \in Sent({"NaN"}, Statuses)
        <3>1. lines[n] \in LinesSent /\ shown[n].line = lines[n]
            BY <2>4
        <3>2. lines[n].status = "JITTER_WARN" <=>
                \E v \in Values, s \in {"JITTER_WARN"} : lines[n] = Serialise(v, s)
            <4>1. PICK P : P = {"JITTER_WARN"}
                OBVIOUS
            <4>2. lines[n].status \in P <=>
                    \E v \in Values, s \in P : lines[n] = Serialise(v, s)
                BY <3>1, ReadAsSent
            <4> QED BY <4>1, <4>2
        <3>3. Colour(lines[n]) = "RED" <=> lines[n].value = "null" /\ lines[n].status \in Plain
            BY <3>1, ReadAsSent
        <3>4. lines[n].value = "null" /\ lines[n].status \in Plain <=>
                \E v \in {"NaN"}, s \in Plain : lines[n] = Serialise(v, s)
            <4>1. PICK P : P = Plain
                OBVIOUS
            <4>2. lines[n].value = "null" /\ lines[n].status \in P <=>
                    \E v \in {"NaN"}, s \in P : lines[n] = Serialise(v, s)
                BY <3>1, ReadAsSent
            <4> QED BY <4>1, <4>2
        <3>5. ValueRead(lines[n]) = "NaN" <=>
                \E v \in {"NaN"}, s \in Statuses : lines[n] = Serialise(v, s)
            BY <3>1, ReadAsSent
        <3> QED BY <3>1, <3>2, <3>3, <3>4, <3>5
    <2>8. SentJ \subseteq entire /\ SentK \subseteq entire /\ last \notin entire
        BY <2>1
    <2> HIDE DEF mine, entire, SentJ, SentK, Plain, Sent, J, K, part
    <2>9. /\ Cardinality(entire) \in Nat /\ Cardinality(SentJ) \in Nat
          /\ Cardinality(SentK) \in Nat
          /\ Cardinality(entire \union {last}) = Cardinality(entire) + 1
        <3>1. SentJ \subseteq 1 .. Len(lines) /\ SentK \subseteq 1 .. Len(lines)
            BY <2>3, <2>8
        <3> QED BY <2>1, <2>3, <3>1, OneMore
    <2>10. /\ part <= 1
           /\ stats.telemetry = Cardinality(entire) + part
           /\ stats.jitter - Cardinality(SentJ) \in 0 .. part
           /\ stats.corrupt - Cardinality(SentK) \in 0 .. part
        <3>1. CASE mine = entire
            <4>1. J = SentJ /\ K = SentK
                BY <2>7, <2>8, <3>1 DEF J, K
            <4>2. part = 0
                <5>1. mine \ entire = {}
                    BY <3>1
                <5> QED BY <5>1, FS_EmptySet DEF part
            <4> QED BY <2>5, <2>9, <3>1, <4>1, <4>2
        <3>2. CASE mine = entire \union {last}
            <4>1. /\ J = SentJ \/ J = SentJ \union {last}
                  /\ K = SentK \/ K = SentK \union {last}
                BY <2>7, <2>8, <3>2 DEF J, K
            <4>2. mine \ entire = {last}
                BY <2>8, <3>2
            <4>3. part = 1
                BY <4>2, FS_Singleton DEF part
            <4>4. /\ SentJ \subseteq 1 .. Len(lines) /\ SentK \subseteq 1 .. Len(lines)
                BY <2>3, <2>8
            <4>5. /\ Cardinality(J) - Cardinality(SentJ) \in 0 .. 1
                  /\ Cardinality(K) - Cardinality(SentK) \in 0 .. 1
                BY <2>1, <4>1, <4>4, OneApart
            <4> QED BY <2>5, <2>9, <3>2, <4>3, <4>5
        <3> QED BY <2>3, <3>1, <3>2
    <2>11. /\ \A n \in entire :
                 ValueRead(shown[n].line) = "NaN" <=> n \in Sent({"NaN"}, Statuses)
           /\ \A kind \in {"alerts", "status"} : stats[kind] = Cardinality(Heard(kind))
        BY <2>5, <2>7
    <2> QED BY <2>6, <2>10, <2>11
            DEF TotalsMatchSent, mine, entire, part, Sent, SentJ, SentK, Plain
<1> QED BY <1>1, InvHolds, PTL

\* After the first connection was accepted no other is served: a ground that has
\* connected anew displays nothing, and no step gives it the session.
THEOREM ServedOnce == Spec => OneSession
<1>1. Inv /\ [Next]_vars =>
        [session # 0 /\ ground.conn # session => UNCHANGED <<shown, session>>]_vars
    <2> SUFFICES ASSUME Inv, [Next]_vars, session # 0, ground.conn # session
                 PROVE  UNCHANGED <<shown, session>>
        OBVIOUS
    <2>1. /\ LinkInv /\ SatelliteType /\ Connections
          /\ ~ OnSession
        BY DEF Inv, OnSession
    <2>2. CASE Satellite
        BY <2>1, <2>2, SatelliteLeaves, SessionStays
    <2>3. CASE TcpReceiver
        <3>1. UNCHANGED shown
            BY <2>1, <2>3 DEF TcpReceiver, Connected, Refused, ReadLine, EndOfStream,
                              ReadError, Retry
        <3> QED BY <2>3, <3>1, ReceiverLeaves
    <2>4. CASE User \/ Udp \/ Tick \/ UNCHANGED vars
        BY <2>4, UserLeaves, UdpLeaves, TickLeaves, NoneLeaves
    <2> QED BY <2>2, <2>3, <2>4 DEF Next
<1> QED BY <1>1, InvHolds, PTL DEF Spec, OneSession

-----------------------------------------------------------------------------
(* A ground station that is up is in time.                                 *)

EnoughTime == ConnectTimeout > RetryDelay + 2 * AttemptTime

\* While the satellite waits, the ground that is not yet connected neither reads
\* nor is at the end of a stream.
LEMMA NotYetReading ==
    ASSUME Connections, phase \in {"closed", "listening"}
    PROVE  ~ OnSession /\ ~ ReadLine /\ ~ EndOfStream /\ ~ ReadError
<1>1. session = 0 /\ (ground.pc = "reading" => ground.conn # 0)
    BY DEF Connections, GroundAt
<1>2. ~ OnSession
    BY <1>1 DEF OnSession, GroundAt
<1>3. ~ ReadError
    BY <1>1 DEF ReadError, GroundAt
<1> QED BY <1>2, <1>3 DEF ReadLine, EndOfStream

LEMMA SatelliteKeepsInTime ==
    ASSUME EnoughTime, LinkInv, GroundType, SatelliteType, Connections, InTime, Satellite
    PROVE  InTime'
<1>1. /\ RetryDelay \in Nat /\ AttemptTime \in Nat /\ ConnectTimeout \in Nat
      /\ ground.timer \in Nat /\ accept_left \in Nat
      /\ ground.timer <= IF ground.pc = "sleep" THEN RetryDelay ELSE AttemptTime
      /\ ground.pc \in {"off", "connect", "reading", "sleep"}
    BY GroundAssumption DEF GroundType, SatelliteType, GroundAt
<1>2. UNCHANGED ground
    BY SatelliteLeaves
<1>3. /\ steady => phase \notin {"closed", "deaf"} /\ ground.pc # "off"
      /\ phase = "closed" => /\ ground.pc # "reading"
                             /\ ground.pc = "connect" => ground.refused
      /\ steady /\ phase = "listening" =>
           \/ backlog # <<>>
           \/ /\ ground.pc = "connect" /\ ground.refused
              /\ accept_left > ground.timer + RetryDelay + AttemptTime
           \/ ground.pc = "connect" /\ ~ ground.refused /\ accept_left > ground.timer
           \/ ground.pc = "sleep" /\ accept_left > ground.timer + AttemptTime
    BY DEF InTime, GroundAt
<1>4. CASE phase = "closed" /\ phase' = "listening"
    <2>1. steady' = (ground.pc # "off") /\ accept_left' = ConnectTimeout
        BY <1>4, SatelliteSteps DEF Satellite, GroundAt
    <2>2. ground.pc = "connect" =>
            accept_left' > ground.timer + RetryDelay + AttemptTime
        BY <1>1, <2>1 DEF EnoughTime
    <2>3. ground.pc = "sleep" => accept_left' > ground.timer + AttemptTime
        BY <1>1, <2>1 DEF EnoughTime
    <2> QED BY <1>1, <1>2, <1>3, <1>4, <2>1, <2>2, <2>3 DEF InTime, GroundAt
<1>5. CASE ~ (phase = "closed" /\ phase' = "listening")
    <2>1. steady' = steady
        BY <1>5 DEF Satellite
    <2>2. phase' = "closed" => phase = "closed"
        BY SatelliteSteps
    <2>3. phase' = "listening" => phase = "listening" /\ UNCHANGED <<accept_left, backlog>>
        BY <1>5, SatelliteSteps
    <2>4. phase' = "deaf" => ~ steady
        <3>1. phase' = "deaf" => phase = "deaf" \/ (phase = "listening" /\ accept_left = 0
                                                     /\ backlog = <<>>)
            BY SatelliteSteps
        <3> QED BY <1>1, <1>3, <3>1
    <2>5. phase' = "closed" /\ steady => FALSE
        BY <1>3, <2>2
    <2> QED BY <1>2, <1>3, <2>1, <2>2, <2>3, <2>4, <2>5 DEF InTime, GroundAt
<1> QED BY <1>4, <1>5

LEMMA ReceiverKeepsInTime ==
    ASSUME GroundType, SatelliteType, Connections, InTime, TcpReceiver
    PROVE  InTime'
<1>1. /\ RetryDelay \in Nat /\ AttemptTime \in Nat
      /\ ground.timer \in Nat /\ accept_left \in Nat
      /\ backlog \in Seq(Nat)
    BY GroundAssumption DEF GroundType, SatelliteType
<1>2. UNCHANGED <<phase, accept_left, steady>>
    BY ReceiverLeaves
<1>3. CASE phase \notin {"closed", "listening"}
    <2>1. steady' => phase' \notin {"closed", "deaf"} /\ ground'.pc # "off"
        <3>1. steady => phase # "deaf" /\ ground.pc # "off"
            BY DEF InTime, GroundAt
        <3>2. ground'.pc \in {"reading", "sleep", "connect", ground.pc}
            BY GroundSteps DEF TcpReceiver, NextGround
        <3> QED BY <1>2, <1>3, <3>1, <3>2
    <2> QED BY <1>2, <1>3, <2>1 DEF InTime, GroundAt
<1>4. CASE phase = "closed"
    <2>1. ~ PortOpen /\ ~ steady
        BY <1>4 DEF PortOpen, InTime
    <2>2. Refused \/ Retry
        BY <1>4, <2>1, NotYetReading DEF TcpReceiver, Connected
    <2>3. \/ ground'.pc = "sleep"
          \/ ground'.pc = "connect" /\ ground'.refused
        <3>1. CASE Refused
            <4>1. ground'.pc = "sleep"
                BY <3>1, GroundSteps DEF NextGround
            <4> QED BY <4>1
        <3>2. CASE Retry
            <4>1. ground'.pc = "connect" /\ ground'.refused = ~ PortOpen
                BY <3>2, GroundSteps DEF NextGround
            <4> QED BY <2>1, <4>1
        <3> QED BY <2>2, <3>1, <3>2
    <2> QED BY <1>2, <1>4, <2>1, <2>3 DEF InTime, GroundAt
<1>5. CASE phase = "listening"
    <2>1. PortOpen
        BY <1>5 DEF PortOpen
    <2>2. steady => \/ backlog # <<>>
                    \/ /\ ground.pc = "connect" /\ ground.refused
                       /\ accept_left > ground.timer + RetryDelay + AttemptTime
                    \/ /\ ground.pc = "connect" /\ ~ ground.refused
                       /\ accept_left > ground.timer
                    \/ /\ ground.pc = "sleep" /\ accept_left > ground.timer + AttemptTime
        BY <1>5 DEF InTime, GroundAt
    <2>3. CASE Connected
        <3>1. ground'.pc = "reading"
            BY <2>3, GroundSteps DEF NextGround
        <3>2. backlog' # <<>>
            <4>1. backlog' = Append(backlog, ground.conns + 1) /\ ground.conns + 1 \in Nat
                BY <2>3 DEF Connected, GroundType
            <4>2. Append(backlog, ground.conns + 1) # <<>>
                BY <1>1, <4>1, AppendProperties
            <4> QED BY <4>1, <4>2
        <3> QED BY <1>2, <1>5, <3>1, <3>2 DEF InTime, GroundAt
    <2>4. CASE Refused
        <3>1. ground'.pc = "sleep" /\ ground'.timer = RetryDelay /\ UNCHANGED backlog
            BY <2>4, GroundSteps DEF NextGround, Refused
        <3>2. ground.pc = "connect" /\ ground.refused
            BY <2>1, <2>4 DEF Refused, GroundAt
        <3>3. steady => backlog # <<>> \/ accept_left > RetryDelay + AttemptTime
            BY <1>1, <2>2, <3>2
        <3> QED BY <1>2, <1>5, <3>1, <3>3 DEF InTime, GroundAt
    <2>5. CASE Retry
        <3>1. /\ ground'.pc = "connect" /\ ground'.timer = AttemptTime
              /\ ground'.refused = ~ PortOpen /\ UNCHANGED backlog
            BY <2>5, GroundSteps DEF NextGround, Retry
        <3>2. ground.pc = "sleep" /\ ground.timer = 0
            BY <2>5 DEF Retry, GroundAt
        <3>3. steady => backlog # <<>> \/ accept_left > AttemptTime
            BY <1>1, <2>2, <3>2
        <3> QED BY <1>2, <1>5, <2>1, <3>1, <3>3 DEF InTime, GroundAt
    <2> QED BY <1>5, <2>3, <2>4, <2>5, NotYetReading DEF TcpReceiver
<1> QED BY <1>3, <1>4, <1>5

LEMMA TickKeepsInTime ==
    ASSUME GroundType, SatelliteType, InTime, Tick
    PROVE  InTime'
<1>1. /\ RetryDelay \in Nat /\ AttemptTime \in Nat
      /\ ground.timer \in Nat /\ accept_left \in Nat
    BY GroundAssumption DEF GroundType, SatelliteType
<1>2. /\ UNCHANGED <<phase, backlog, steady>>
      /\ accept_left' = IF accept_left > 0 THEN accept_left - 1 ELSE 0
      /\ ground.pc \in {"connect", "sleep"} => ground.timer > 0
    BY TickLeaves DEF Tick, GroundAt
<1>3. /\ ground'.pc = ground.pc /\ ground'.refused = ground.refused
      /\ ground'.timer = IF ground.timer > 0 THEN ground.timer - 1 ELSE 0
    BY GroundSteps DEF NextGround
<1>4. CASE steady /\ phase = "listening" /\ backlog = <<>>
    <2>1. \/ /\ ground.pc = "connect" /\ ground.refused
             /\ accept_left > ground.timer + RetryDelay + AttemptTime
          \/ ground.pc = "connect" /\ ~ ground.refused /\ accept_left > ground.timer
          \/ ground.pc = "sleep" /\ accept_left > ground.timer + AttemptTime
        BY <1>4 DEF InTime, GroundAt
    <2>2. ground.timer > 0 /\ ground'.timer = ground.timer - 1
        BY <1>2, <1>3, <2>1
    <2>3. accept_left > ground.timer
        BY <1>1, <2>1
    <2>4. accept_left' = accept_left - 1
        BY <1>1, <1>2, <2>2, <2>3
    <2>5. \A n \in Nat : accept_left > ground.timer + n => accept_left' > ground'.timer + n
        BY <1>1, <2>2, <2>4
    <2>6. accept_left' > ground'.timer
        BY <1>1, <2>2, <2>3, <2>4
    <2>7. accept_left > ground.timer + RetryDelay + AttemptTime =>
            accept_left' > ground'.timer + RetryDelay + AttemptTime
        BY <1>1, <2>2, <2>4
    <2>8. accept_left > ground.timer + AttemptTime =>
            accept_left' > ground'.timer + AttemptTime
        BY <1>1, <2>5
    <2> QED BY <1>2, <1>3, <1>4, <2>1, <2>6, <2>7, <2>8 DEF InTime, GroundAt
<1>5. CASE ~ (steady /\ phase = "listening" /\ backlog = <<>>)
    BY <1>2, <1>3, <1>5 DEF InTime, GroundAt
<1> QED BY <1>4, <1>5

LEMMA NextKeepsInTime ==
    ASSUME EnoughTime, Inv, InTime, [Next]_vars
    PROVE  InTime'
<1>1. LinkInv /\ GroundType /\ SatelliteType /\ Connections
    BY DEF Inv
<1>2. CASE Start /\ User
    <2>1. /\ ground'.pc = "connect" /\ ground'.refused = ~ PortOpen
          /\ UNCHANGED <<phase, steady>> /\ ground.pc = "off"
        BY <1>1, <1>2, GroundSteps, UserLeaves DEF NextGround, Start, GroundAt
    <2>2. ~ steady
        BY <2>1 DEF InTime, GroundAt
    <2> QED BY <2>1, <2>2 DEF InTime, GroundAt, PortOpen
<1>3. CASE Stop /\ User
    <2>1. ground'.pc = "off" /\ ~ steady'
        BY <1>1, <1>3, GroundSteps DEF NextGround, Stop
    <2> QED BY <2>1 DEF InTime, GroundAt
<1>4. CASE Udp \/ UNCHANGED vars
    <2>1. UNCHANGED <<phase, accept_left, backlog, ground, steady>>
        BY <1>4, UdpLeaves, NoneLeaves
    <2> QED BY <2>1 DEF InTime, GroundAt
<1> QED BY <1>1, <1>2, <1>3, <1>4, SatelliteKeepsInTime, ReceiverKeepsInTime,
           TickKeepsInTime DEF Next, User

\* A ground station that is up when the port opens, and stays up, is connected
\* before the satellite stops waiting, if the satellite waits for longer than one
\* pause and two attempts take: in the code it waits for 5 s and the pause is 2 s.
THEOREM UpIsInTime ==
    ASSUME ConnectTimeout > RetryDelay + 2 * AttemptTime
    PROVE  Spec => []SteadyGroundIsInTime
<1>1. EnoughTime
    BY DEF EnoughTime
<1>2. Init => InTime
    BY DEF Init, LinkInit, InTime, GroundAt
<1>3. Inv /\ InTime /\ [Next]_vars => InTime'
    BY <1>1, NextKeepsInTime
<1>4. InTime => SteadyGroundIsInTime
    BY DEF InTime, SteadyGroundIsInTime
<1> QED BY <1>2, <1>3, <1>4, InvHolds, PTL DEF Spec

=============================================================================
