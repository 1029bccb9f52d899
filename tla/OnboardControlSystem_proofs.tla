--------------------- MODULE OnboardControlSystem_proofs ---------------------
(***************************************************************************)
(* Proofs about the sensor threads, the fault injector and main, for every *)
(* capacity of the buffer, every duration and whichever threads are        *)
(* prompt.  What is proved of SensorAcquisition holds in the whole program *)
(* as well: both take the steps of AnyStep only.                           *)
(***************************************************************************)
EXTENDS OnboardControlSystem, SensorBuffer_proofs, FunctionTheorems

-----------------------------------------------------------------------------
(* The steps of the two specifications.                                    *)

TimePasses == /\ now' = now + 1
              /\ UNCHANGED <<bufferVars, faultVars, injector, sensor, metrics,
                             delivered>>

AnyStep == \/ TimePasses \/ Drain \/ Injector
           \/ \E s \in SensorType : Sensor(s)
           \/ UNCHANGED vars

LEMMA NextIsAnyStep == [Next]_vars => AnyStep
BY DEF Next, Tick, AnyStep, TimePasses

LEMMA SystemNextIsAnyStep == [SystemNext]_systemVars => AnyStep
<1> SUFFICES ASSUME [SystemNext]_systemVars PROVE AnyStep
    OBVIOUS
<1>1. CASE SystemTick
    BY <1>1 DEF SystemTick, AnyStep, TimePasses
<1>2. CASE Main \/ SchedulerThread \/ UNCHANGED systemVars
    BY <1>2 DEF Main, SchedulerThread, systemVars, AnyStep
<1>3. CASE DownlinkThread
    <2>1. CASE DrainOne
        BY <1>3, <2>1 DEF DownlinkThread, DrainOne, Drain, AnyStep
    <2>2. CASE ~ DrainOne
        BY <1>3, <2>2 DEF DownlinkThread, StartDownlink, CheckDownlinkDeadline,
                          EndRound, NextRound, vars, AnyStep
    <2> QED BY <2>1, <2>2
<1>4. CASE InjectorThread
    BY <1>4 DEF InjectorThread, AnyStep
<1>5. CASE \E s \in SensorType : SensorThread(s)
    BY <1>5 DEF SensorThread, AnyStep
<1> QED BY <1>1, <1>2, <1>3, <1>4, <1>5 DEF SystemNext

-----------------------------------------------------------------------------
(* The threads' records.                                                   *)

SensorPc == {"start", "top", "delay", "stalled", "sleep", "corrupt", "corrupted",
             "push", "done"}

SensorRecord == [pc : SensorPc, cycle : Nat, scheduled : Nat, wake : Nat,
                 miss : Nat, reading : SensorReading]

MetricsRecord == [cycles : Nat, dropped : Nat, alerts : Nat, drift_sum : Nat]

\* Between the head of the loop and the push.
InCycle(s) == sensor[s].pc \in {"delay", "stalled", "sleep", "corrupt",
                                "corrupted", "push"}

\* How many readings s has handed to the buffer.
Pushed(s) == IF InCycle(s) THEN sensor[s].cycle - 1 ELSE sensor[s].cycle

ThreadsTyped ==
    /\ sensor \in [SensorType -> SensorRecord]
    /\ metrics \in [SensorType -> MetricsRecord]
    /\ delivered \subseteq SensorReading
    /\ \A s \in SensorType :
         /\ InCycle(s) => sensor[s].cycle # 0
         /\ sensor[s].reading.sensor = s
         /\ sensor[s].pc \in {"corrupt", "corrupted", "push"}
              => sensor[s].reading.cycle = sensor[s].cycle
         /\ IsCritical(s) => sensor[s].miss <= MissThreshold

InjectorPc == {"start", "check", "wait", "raise", "log", "done"}

InjectorRecord == [pc : InjectorPc, deadline : Nat, next_fault : Nat,
                   event : FaultEvent \union {<<>>}]

\* A fault that has only been made up.
Fresh(e) == /\ e \in FaultEvent
            /\ e.injected_at <= now
            /\ ~ e.recovered /\ ~ e.aborted

FaultsTyped ==
    /\ now \in Nat
    /\ delay_flags \subseteq SensorType /\ corrupt_flags \subseteq SensorType
    /\ fault_log \in Seq(FaultEvent) /\ fault_count \in Nat
    /\ mission_aborted \in BOOLEAN
    /\ injector \in InjectorRecord
    /\ injector.pc \in {"raise", "log"} => Fresh(injector.event)
    /\ \A i \in 1 .. Len(fault_log) : fault_log[i].injected_at <= now

\* What the thread s does with its own record; the others keep theirs.
Moves(s, p, c, d, w, m, r) ==
    /\ sensor' \in [SensorType -> SensorRecord]
    /\ \A t \in SensorType : t # s => sensor'[t] = sensor[t]
    /\ sensor'[s].pc = p /\ sensor'[s].cycle = c /\ sensor'[s].scheduled = d
    /\ sensor'[s].wake = w /\ sensor'[s].miss = m /\ sensor'[s].reading = r

\* A thread that moves to another label and changes nothing else.
Passes(s, from, to) ==
    LET x == sensor[s] IN
    /\ x.pc = from
    /\ Moves(s, to, x.cycle, x.scheduled, x.wake, x.miss, x.reading)

LEMMA RecordFacts ==
    ASSUME ThreadsTyped, NEW s \in SensorType
    PROVE  /\ sensor[s] \in SensorRecord /\ sensor[s].pc \in SensorPc
           /\ sensor[s].cycle \in Nat /\ sensor[s].scheduled \in Nat
           /\ sensor[s].wake \in Nat /\ sensor[s].miss \in Nat
           /\ sensor[s].reading \in SensorReading
           /\ sensor[s] = [pc |-> sensor[s].pc, cycle |-> sensor[s].cycle,
                           scheduled |-> sensor[s].scheduled, wake |-> sensor[s].wake,
                           miss |-> sensor[s].miss, reading |-> sensor[s].reading]
BY DEF ThreadsTyped, SensorRecord

\* What each step of a sensor thread does with its record.
LEMMA SensorSteps ==
    ASSUME ThreadsTyped, FaultsTyped, NEW s \in SensorType
    PROVE  LET x == sensor[s] IN
           /\ StartSensor(s) =>
                /\ x.pc = "start"
                /\ Moves(s, "top", x.cycle, now, x.wake, x.miss, x.reading)
           /\ BeginCycle(s) =>
                \/ Passes(s, "top", "done") /\ now >= RunDuration
                \/ /\ x.pc = "top" /\ now < RunDuration
                   /\ Moves(s, "delay", x.cycle + 1, x.scheduled, x.wake, x.miss,
                            x.reading)
           /\ SufferDelay(s) =>
                /\ x.pc = "delay"
                /\ Moves(s, "stalled", x.cycle, x.scheduled, now + Stall, x.miss,
                         x.reading)
           /\ NoDelay(s) => Passes(s, "delay", "sleep")
           /\ EndStall(s) =>
                /\ x.pc = "stalled"
                /\ Moves(s, "sleep", x.cycle, x.scheduled, 0, x.miss, x.reading)
           /\ Read(s) =>
                /\ x.pc = "sleep" /\ now - x.scheduled \in Nat
                /\ Moves(s, "corrupt", x.cycle, x.scheduled, x.wake, x.miss,
                         [sensor |-> s, cycle |-> x.cycle, value |-> "number",
                          drift |-> now - x.scheduled])
           /\ SufferCorruption(s) => Passes(s, "corrupt", "corrupted")
           /\ NoCorruption(s) => Passes(s, "corrupt", "push")
           /\ EndCorruption(s) =>
                /\ x.pc = "corrupted"
                /\ Moves(s, "push", x.cycle, x.scheduled, x.wake, x.miss,
                         [x.reading EXCEPT !.value = "nan"])
           /\ PushReading(s) =>
                /\ x.pc = "push"
                /\ \E m \in Nat :
                     /\ m = IF Accepts(x.reading) \/ RaisesAlert(s) THEN 0
                                                                    ELSE x.miss + 1
                     /\ Moves(s, "top", x.cycle, x.scheduled + Period[s], x.wake, m,
                              NoReading(s))
<1> DEFINE x == sensor[s]
<1>1. /\ sensor \in [SensorType -> SensorRecord]
      /\ x \in SensorRecord /\ x.pc \in SensorPc /\ x.cycle \in Nat
      /\ x.scheduled \in Nat /\ x.wake \in Nat /\ x.miss \in Nat
      /\ x.reading \in SensorReading
      /\ now \in Nat
    BY RecordFacts DEF ThreadsTyped, FaultsTyped
<1>2. RunDuration \in Nat
    BY CampaignAssumption
<1> USE DEF SensorRecord, SensorPc, Moves, Passes
<1>5. ASSUME StartSensor(s)
      PROVE  /\ x.pc = "start"
             /\ Moves(s, "top", x.cycle, now, x.wake, x.miss, x.reading)
    <2>1. sensor' = [sensor EXCEPT ![s].pc = "top", ![s].scheduled = now]
        BY <1>5 DEF StartSensor
    <2>2. x.pc = "start"
        BY <1>5 DEF StartSensor, At
    <2> QED BY <1>1, <2>1, <2>2
<1>6. ASSUME BeginCycle(s)
      PROVE  \/ Passes(s, "top", "done") /\ now >= RunDuration
             \/ /\ x.pc = "top" /\ now < RunDuration
                /\ Moves(s, "delay", x.cycle + 1, x.scheduled, x.wake, x.miss,
                         x.reading)
    <2>1. CASE now >= RunDuration
        <3>1. sensor' = [sensor EXCEPT ![s].pc = "done"] /\ x.pc = "top"
            BY <1>6, <2>1 DEF BeginCycle, SensorDeadline, At
        <3>2. Passes(s, "top", "done")
            BY <1>1, <3>1
        <3> QED BY <2>1, <3>2
    <2>2. CASE now < RunDuration
        <3>1. x.cycle + 1 \in Nat
            BY <1>1
        <3>2. sensor' = [sensor EXCEPT ![s].pc = "delay", ![s].cycle = x.cycle + 1]
            BY <1>1, <1>2, <1>6, <2>2 DEF BeginCycle, SensorDeadline
        <3>3. x.pc = "top"
            BY <1>6 DEF BeginCycle, At
        <3> QED BY <1>1, <2>2, <3>1, <3>2, <3>3
    <2> QED BY <1>1, <1>2, <2>1, <2>2
<1>7. ASSUME SufferDelay(s)
      PROVE  /\ x.pc = "delay"
             /\ Moves(s, "stalled", x.cycle, x.scheduled, now + Stall, x.miss,
                      x.reading)
    <2>1. now + Stall \in Nat
        BY <1>1 DEF Stall
    <2>2. sensor' = [sensor EXCEPT ![s].pc = "stalled", ![s].wake = now + Stall]
        BY <1>7 DEF SufferDelay
    <2>3. x.pc = "delay"
        BY <1>7 DEF SufferDelay, At
    <2> QED BY <1>1, <2>1, <2>2, <2>3
<1>8. ASSUME NoDelay(s) PROVE Passes(s, "delay", "sleep")
    BY <1>1, <1>8 DEF NoDelay, At
<1>9. ASSUME EndStall(s)
      PROVE  /\ x.pc = "stalled"
             /\ Moves(s, "sleep", x.cycle, x.scheduled, 0, x.miss, x.reading)
    <2>1. sensor' = [sensor EXCEPT ![s].pc = "sleep", ![s].wake = 0]
        BY <1>9 DEF EndStall
    <2>2. x.pc = "stalled"
        BY <1>9 DEF EndStall, At
    <2> QED BY <1>1, <2>1, <2>2
<1>10. ASSUME Read(s)
       PROVE  /\ x.pc = "sleep" /\ now - x.scheduled \in Nat
              /\ Moves(s, "corrupt", x.cycle, x.scheduled, x.wake, x.miss,
                       [sensor |-> s, cycle |-> x.cycle, value |-> "number",
                        drift |-> now - x.scheduled])
    <2> DEFINE r == [sensor |-> s, cycle |-> x.cycle, value |-> "number",
                     drift |-> now - x.scheduled]
    <2>1. now - x.scheduled \in Nat
        BY <1>1, <1>10 DEF Read
    <2>2. x.pc = "sleep" /\ x.cycle \in Nat \ {0}
        BY <1>1, <1>10 DEF Read, At, ThreadsTyped, InCycle
    <2>3. r \in SensorReading
        BY <2>1, <2>2 DEF SensorReading
    <2>4. sensor' = [sensor EXCEPT ![s].pc = "corrupt", ![s].reading = r]
        BY <1>10 DEF Read
    <2> HIDE DEF r
    <2>5. Moves(s, "corrupt", x.cycle, x.scheduled, x.wake, x.miss, r)
        BY <1>1, <2>3, <2>4
    <2> QED BY <2>1, <2>2, <2>5 DEF r
<1>11. ASSUME SufferCorruption(s) PROVE Passes(s, "corrupt", "corrupted")
    BY <1>1, <1>11 DEF SufferCorruption, At
<1>12. ASSUME NoCorruption(s) PROVE Passes(s, "corrupt", "push")
    BY <1>1, <1>12 DEF NoCorruption, At
<1>13. ASSUME EndCorruption(s)
       PROVE  /\ x.pc = "corrupted"
              /\ Moves(s, "push", x.cycle, x.scheduled, x.wake, x.miss,
                       [x.reading EXCEPT !.value = "nan"])
    <2> DEFINE r == [x.reading EXCEPT !.value = "nan"]
    <2>1. r \in SensorReading
        BY <1>1 DEF SensorReading
    <2>2. sensor' = [sensor EXCEPT ![s].pc = "push", ![s].reading.value = "nan"]
        BY <1>13 DEF EndCorruption
    <2>3. sensor' = [sensor EXCEPT ![s].pc = "push", ![s].reading = r]
        BY <1>1, <2>2
    <2> HIDE DEF r
    <2>4. Moves(s, "push", x.cycle, x.scheduled, x.wake, x.miss, r)
        BY <1>1, <2>1, <2>3
    <2> QED BY <1>13, <2>4 DEF r, EndCorruption, At
<1>14. ASSUME PushReading(s)
       PROVE  /\ x.pc = "push"
              /\ \E m \in Nat :
                   /\ m = IF Accepts(x.reading) \/ RaisesAlert(s) THEN 0
                                                                  ELSE x.miss + 1
                   /\ Moves(s, "top", x.cycle, x.scheduled + Period[s], x.wake, m,
                            NoReading(s))
    <2>1. PICK m : m = IF Accepts(x.reading) \/ RaisesAlert(s) THEN 0 ELSE x.miss + 1
        OBVIOUS
    <2>2. m \in Nat
        BY <1>1, <2>1
    <2>3. Period[s] \in Nat /\ NoReading(s) \in SensorReading
        BY DEF Period, SensorType, NoReading, SensorReading
    <2>4. PICK d : d = x.scheduled + Period[s]
        OBVIOUS
    <2>5. sensor' = [sensor EXCEPT ![s].pc = "top", ![s].miss = m,
                                   ![s].scheduled = d, ![s].reading = NoReading(s)]
        <3>1. sensor' = [sensor EXCEPT
                ![s].pc = "top",
                ![s].miss = IF (IF Accepts(x.reading) THEN 0 ELSE 1) = 0
                               \/ (IF ~ Accepts(x.reading) /\ RaisesAlert(s) THEN 1
                                                                          ELSE 0) = 1
                            THEN 0 ELSE @ + 1,
                ![s].scheduled = @ + Period[s],
                ![s].reading = NoReading(s)]
            BY <1>14 DEF PushReading
        <3>2. m = IF (IF Accepts(x.reading) THEN 0 ELSE 1) = 0
                     \/ (IF ~ Accepts(x.reading) /\ RaisesAlert(s) THEN 1 ELSE 0) = 1
                  THEN 0 ELSE x.miss + 1
            BY <2>1
        <3> QED BY <1>1, <2>4, <3>1, <3>2
    <2>6. d \in Nat
        BY <1>1, <2>3, <2>4
    <2>7. Moves(s, "top", x.cycle, d, x.wake, m, NoReading(s))
        BY <1>1, <2>2, <2>3, <2>5, <2>6
    <2> QED BY <1>14, <2>1, <2>2, <2>4, <2>7 DEF PushReading, At
<1> HIDE DEF SensorRecord, SensorPc, Moves, Passes
<1> QED BY <1>5, <1>6, <1>7, <1>8, <1>9, <1>10, <1>11, <1>12, <1>13, <1>14

-----------------------------------------------------------------------------
(* The fault state.                                                        *)

\* Max is the greatest element, of a set of indices.
LEMMA GreatestElement ==
    ASSUME NEW n \in Nat, NEW T, T \subseteq 1 .. n, T # {}
    PROVE  Max(T) \in T /\ \A k \in T : k <= Max(T)
<1> DEFINE U == {n - k : k \in T}
<1>0. \A k \in T : k \in Nat /\ n - k \in Nat
    <2> SUFFICES ASSUME NEW k \in T PROVE k \in Nat /\ n - k \in Nat
        OBVIOUS
    <2>1. k \in 1 .. n
        OBVIOUS
    <2> QED BY <2>1
<1>1. U \subseteq Nat /\ U # {}
    BY <1>0
<1>2. PICK m \in U : \A u \in U : m <= u
    <2> HIDE DEF U
    <2> QED BY <1>1, LeastElement
<1>3. PICK g \in T : m = n - g
    BY <1>2
<1>4. \A k \in T : g >= k
    <2> SUFFICES ASSUME NEW k \in T PROVE g >= k
        OBVIOUS
    <2>1. n - k \in U /\ g \in Nat /\ k \in Nat
        BY <1>0
    <2>2. n - g <= n - k
        BY <1>2, <1>3, <2>1
    <2> QED BY <2>1, <2>2
<1>5. Max(T) \in T /\ \A k \in T : Max(T) >= k
    BY <1>3, <1>4 DEF Max
<1> QED BY <1>0, <1>5

\* The fault i of the log is recovered after ms.
Marked(i, ms) ==
    /\ fault_log' \in Seq(FaultEvent) /\ Len(fault_log') = Len(fault_log)
    /\ \A j \in 1 .. Len(fault_log) : j # i => fault_log'[j] = fault_log[j]
    /\ fault_log'[i].id = fault_log[i].id
    /\ fault_log'[i].fault_type = fault_log[i].fault_type
    /\ fault_log'[i].target = fault_log[i].target
    /\ fault_log'[i].injected_at = fault_log[i].injected_at
    /\ fault_log'[i].recovered /\ fault_log'[i].recovery_ms = ms
    /\ fault_log'[i].aborted <=> Late(ms)

LEMMA LogElement ==
    ASSUME FaultsTyped, NEW i \in 1 .. Len(fault_log)
    PROVE  /\ fault_log[i] \in FaultEvent /\ fault_log[i].injected_at \in Nat
           /\ fault_log[i].injected_at <= now /\ fault_log[i].recovery_ms \in Nat
           /\ fault_log[i].recovered \in BOOLEAN /\ fault_log[i].aborted \in BOOLEAN
           /\ fault_log[i].target \in SensorType
<1>1. fault_log[i] \in FaultEvent
    BY ElementOfSeq DEF FaultsTyped
<1> QED BY <1>1 DEF FaultsTyped, FaultEvent

LEMMA RecoverFacts ==
    ASSUME FaultsTyped, NEW s \in SensorType, NEW type, Recover(s, type)
    PROVE  \/ Unrecovered(s, type) = {} /\ UNCHANGED faultVars
           \/ \E i \in Unrecovered(s, type) :
                /\ i \in 1 .. Len(fault_log) /\ now - fault_log[i].injected_at \in Nat
                /\ Marked(i, now - fault_log[i].injected_at)
                /\ mission_aborted' \in BOOLEAN
                /\ mission_aborted' <=>
                     mission_aborted \/ Late(now - fault_log[i].injected_at)
                /\ UNCHANGED <<delay_flags, corrupt_flags, fault_count>>
<1>1. CASE Unrecovered(s, type) = {}
    BY <1>1 DEF Recover
<1>2. CASE Unrecovered(s, type) # {}
    <2> DEFINE i == Max(Unrecovered(s, type))
    <2>1. /\ fault_log \in Seq(FaultEvent) /\ Len(fault_log) \in Nat /\ now \in Nat
          /\ mission_aborted \in BOOLEAN
        BY DEF FaultsTyped
    <2>2. i \in Unrecovered(s, type) /\ i \in 1 .. Len(fault_log)
        <3>1. Unrecovered(s, type) \subseteq 1 .. Len(fault_log)
            BY DEF Unrecovered
        <3>2. Max(Unrecovered(s, type)) \in Unrecovered(s, type)
            BY <1>2, <2>1, <3>1, GreatestElement
        <3> QED BY <3>1, <3>2
    <2>3. PICK ms : ms = now - fault_log[i].injected_at
        OBVIOUS
    <2>4. PICK late \in BOOLEAN : late = Late(ms)
        <3>1. Late(ms) \in BOOLEAN
            BY DEF Late
        <3> QED BY <3>1
    <2>5. PICK e : e = [fault_log[i] EXCEPT !.recovered = TRUE, !.recovery_ms = ms,
                                            !.aborted = late]
        OBVIOUS
    <2>6. /\ fault_log' = [fault_log EXCEPT ![i].recovered = TRUE,
                                            ![i].recovery_ms = ms,
                                            ![i].aborted = Late(ms)]
          /\ mission_aborted' = (mission_aborted \/ Late(ms))
          /\ UNCHANGED <<delay_flags, corrupt_flags, fault_count>>
        BY <1>2, <2>3 DEF Recover
    <2> HIDE DEF i
    <2>7. ms \in Nat
        BY <2>1, <2>2, <2>3, LogElement
    <2>8. fault_log[i] \in FaultEvent
        BY <2>2, LogElement
    <2>9. /\ e \in FaultEvent /\ e.id = fault_log[i].id
          /\ e.fault_type = fault_log[i].fault_type /\ e.target = fault_log[i].target
          /\ e.injected_at = fault_log[i].injected_at
          /\ e.recovered /\ e.recovery_ms = ms /\ (e.aborted <=> late)
        BY <2>4, <2>5, <2>7, <2>8 DEF FaultEvent
    <2>10. fault_log' = [fault_log EXCEPT ![i] = e]
        <3>1. fault_log' = [fault_log EXCEPT ![i].recovered = TRUE,
                                             ![i].recovery_ms = ms,
                                             ![i].aborted = late]
            BY <2>4, <2>6
        <3>2. fault_log \in [1 .. Len(fault_log) -> FaultEvent]
            BY <2>1
        <3> QED BY <2>2, <2>5, <3>1, <3>2
    <2>11. /\ fault_log' \in Seq(FaultEvent) /\ Len(fault_log') = Len(fault_log)
           /\ fault_log'[i] = e
           /\ \A j \in 1 .. Len(fault_log) : j # i => fault_log'[j] = fault_log[j]
        BY <2>1, <2>2, <2>9, <2>10, ExceptSeq
    <2>12. Marked(i, ms)
        BY <2>4, <2>9, <2>11 DEF Marked
    <2>13. mission_aborted' \in BOOLEAN /\ (mission_aborted' <=> mission_aborted \/ Late(ms))
        BY <2>6
    <2> QED BY <2>2, <2>3, <2>6, <2>7, <2>12, <2>13
<1> QED BY <1>1, <1>2

NextInjector(p, d, n, e) ==
    /\ injector' \in InjectorRecord
    /\ injector'.pc = p /\ injector'.deadline = d /\ injector'.next_fault = n
    /\ injector'.event = e

\* What the injector does with its record and with the fault state.
LEMMA InjectorSteps ==
    ASSUME FaultsTyped
    PROVE  LET x == injector IN
           /\ StartInjector => /\ x.pc = "start" /\ UNCHANGED faultVars
                               /\ NextInjector("check", now + RunDuration,
                                               now + FaultInterval, x.event)
           /\ CheckDeadline =>
                /\ x.pc = "check" /\ UNCHANGED faultVars
                /\ \/ NextInjector("done", x.deadline, x.next_fault, x.event)
                   \/ NextInjector("wait", x.deadline, x.next_fault, x.event)
           /\ SelectFault =>
                /\ x.pc = "wait" /\ now >= x.next_fault
                /\ UNCHANGED <<delay_flags, corrupt_flags, fault_log,
                               mission_aborted>>
                /\ \/ /\ NextInjector("done", x.deadline, x.next_fault, x.event)
                      /\ UNCHANGED fault_count
                   \/ \E e \in FaultEvent :
                        /\ now < x.deadline
                        /\ e = NewEvent(FaultSchedule[(fault_count % 4) + 1])
                        /\ Fresh(e)
                        /\ fault_count' = fault_count + 1
                        /\ NextInjector("raise", x.deadline, x.next_fault, e)
           /\ RaiseFlag =>
                /\ x.pc = "raise" /\ UNCHANGED <<fault_log, fault_count, mission_aborted>>
                /\ NextInjector("log", x.deadline, x.next_fault, x.event)
           /\ LogFault =>
                /\ x.pc = "log" /\ fault_log' = Append(fault_log, x.event)
                /\ UNCHANGED <<delay_flags, corrupt_flags, fault_count, mission_aborted>>
                /\ NextInjector("check", x.deadline, x.next_fault + FaultInterval, x.event)
<1> DEFINE x == injector
<1>1. /\ x \in InjectorRecord /\ now \in Nat /\ fault_count \in Nat
      /\ x.deadline \in Nat /\ x.next_fault \in Nat
      /\ FaultInterval \in Nat /\ RunDuration \in Nat
    BY CampaignAssumption DEF FaultsTyped, InjectorRecord
<1>2. /\ now + RunDuration \in Nat /\ now + FaultInterval \in Nat
      /\ x.next_fault + FaultInterval \in Nat /\ fault_count + 1 \in Nat
    BY <1>1
<1> USE DEF NextInjector, InjectorRecord, InjectorPc
<1>3. ASSUME StartInjector
      PROVE  /\ x.pc = "start" /\ UNCHANGED faultVars
             /\ NextInjector("check", now + RunDuration, now + FaultInterval, x.event)
    <2>1. injector' = [injector EXCEPT !.pc = "check", !.deadline = now + RunDuration,
                                       !.next_fault = now + FaultInterval]
        BY <1>3 DEF StartInjector
    <2>2. x.pc = "start" /\ UNCHANGED faultVars
        BY <1>3 DEF StartInjector, InjectorAt
    <2> QED BY <1>1, <1>2, <2>1, <2>2
<1>4. ASSUME CheckDeadline
      PROVE  /\ x.pc = "check" /\ UNCHANGED faultVars
             /\ \/ NextInjector("done", x.deadline, x.next_fault, x.event)
                \/ NextInjector("wait", x.deadline, x.next_fault, x.event)
    <2>1. \/ injector' = [injector EXCEPT !.pc = "done"]
          \/ injector' = [injector EXCEPT !.pc = "wait"]
        BY <1>4 DEF CheckDeadline
    <2>2. x.pc = "check" /\ UNCHANGED faultVars
        BY <1>4 DEF CheckDeadline, InjectorAt
    <2> QED BY <1>1, <2>1, <2>2
<1>5. ASSUME SelectFault
      PROVE  /\ x.pc = "wait" /\ now >= x.next_fault
             /\ UNCHANGED <<delay_flags, corrupt_flags, fault_log, mission_aborted>>
             /\ \/ /\ NextInjector("done", x.deadline, x.next_fault, x.event)
                   /\ UNCHANGED fault_count
                \/ \E e \in FaultEvent :
                     /\ now < x.deadline
                     /\ e = NewEvent(FaultSchedule[(fault_count % 4) + 1])
                     /\ Fresh(e)
                     /\ fault_count' = fault_count + 1
                     /\ NextInjector("raise", x.deadline, x.next_fault, e)
    <2>1. /\ x.pc = "wait" /\ now >= x.next_fault
          /\ UNCHANGED <<delay_flags, corrupt_flags, fault_log, mission_aborted>>
        BY <1>5 DEF SelectFault, InjectorAt
    <2>2. CASE now >= x.deadline
        <3>1. injector' = [injector EXCEPT !.pc = "done"] /\ UNCHANGED fault_count
            BY <1>5, <2>2 DEF SelectFault
        <3> QED BY <1>1, <2>1, <3>1
    <2>3. CASE ~ (now >= x.deadline)
        <3> DEFINE f == FaultSchedule[(fault_count % 4) + 1]
                   e == NewEvent(f)
        <3>1. Len(FaultSchedule) = 4 /\ (fault_count % 4) + 1 \in 1 .. 4
            BY <1>1 DEF FaultSchedule
        <3>2. f.fault_type \in FaultType /\ f.target \in SensorType
            BY <3>1 DEF FaultSchedule, FaultType, SensorType
        <3>3. e \in FaultEvent /\ Fresh(e)
            <4> HIDE DEF f
            <4>1. e \in FaultEvent
                BY <1>1, <3>2 DEF NewEvent, FaultEvent
            <4> QED BY <1>1, <4>1 DEF NewEvent, Fresh
        <3>4. /\ injector' = [injector EXCEPT !.pc = "raise", !.event = e]
              /\ fault_count' = fault_count + 1
            BY <1>5, <2>3, <3>1 DEF SelectFault
        <3> HIDE DEF e, f
        <3>5. NextInjector("raise", x.deadline, x.next_fault, e)
            BY <1>1, <3>3, <3>4
        <3>6. now < x.deadline
            BY <1>1, <2>3
        <3> QED BY <2>1, <3>3, <3>4, <3>5, <3>6 DEF e, f
    <2> QED BY <2>2, <2>3
<1>6. ASSUME RaiseFlag
      PROVE  /\ x.pc = "raise" /\ UNCHANGED <<fault_log, fault_count, mission_aborted>>
             /\ NextInjector("log", x.deadline, x.next_fault, x.event)
    <2>1. /\ x.pc = "raise" /\ UNCHANGED <<fault_log, fault_count, mission_aborted>>
          /\ injector' = [injector EXCEPT !.pc = "log"]
        BY <1>6 DEF RaiseFlag, InjectorAt
    <2> QED BY <1>1, <2>1
<1>7. ASSUME LogFault
      PROVE  /\ x.pc = "log" /\ fault_log' = Append(fault_log, x.event)
             /\ UNCHANGED <<delay_flags, corrupt_flags, fault_count, mission_aborted>>
             /\ NextInjector("check", x.deadline, x.next_fault + FaultInterval, x.event)
    <2>1. /\ x.pc = "log" /\ fault_log' = Append(fault_log, x.event)
          /\ UNCHANGED <<delay_flags, corrupt_flags, fault_count, mission_aborted>>
          /\ injector' = [injector EXCEPT !.pc = "check",
                                          !.next_fault = @ + FaultInterval]
        BY <1>7 DEF LogFault, InjectorAt
    <2> QED BY <1>1, <1>2, <2>1
<1> HIDE DEF NextInjector, InjectorRecord, InjectorPc
<1> QED BY <1>3, <1>4, <1>5, <1>6, <1>7

\* Every step of a sensor thread moves its own record.
LEMMA SensorMoves ==
    ASSUME ThreadsTyped, FaultsTyped, NEW s \in SensorType, SensorStep(s)
    PROVE  /\ sensor' \in [SensorType -> SensorRecord]
           /\ \A t \in SensorType : t # s => sensor'[t] = sensor[t]
<1>1. ASSUME NEW p, NEW c, NEW d, NEW w, NEW m, NEW r, Moves(s, p, c, d, w, m, r)
      PROVE  /\ sensor' \in [SensorType -> SensorRecord]
             /\ \A t \in SensorType : t # s => sensor'[t] = sensor[t]
    BY <1>1 DEF Moves
<1>2. ASSUME NEW from, NEW to, Passes(s, from, to)
      PROVE  /\ sensor' \in [SensorType -> SensorRecord]
             /\ \A t \in SensorType : t # s => sensor'[t] = sensor[t]
    BY <1>1, <1>2 DEF Passes
<1>3. CASE StartSensor(s) \/ BeginCycle(s) \/ SufferDelay(s) \/ NoDelay(s) \/ EndStall(s)
    BY <1>1, <1>2, <1>3, SensorSteps
<1>4. CASE Read(s) \/ SufferCorruption(s) \/ NoCorruption(s) \/ EndCorruption(s)
    BY <1>1, <1>2, <1>4, SensorSteps
<1>5. CASE PushReading(s)
    BY <1>1, <1>5, SensorSteps
<1> QED BY <1>3, <1>4, <1>5 DEF SensorStep

\* What the counters of metrics.rs become with a push.
LEMMA PushCounts ==
    ASSUME ThreadsTyped, NEW s \in SensorType, PushReading(s)
    PROVE  /\ metrics' \in [SensorType -> MetricsRecord]
           /\ \A t \in SensorType : t # s => metrics'[t] = metrics[t]
           /\ metrics'[s].cycles = metrics[s].cycles + 1
           /\ metrics'[s].drift_sum = metrics[s].drift_sum + sensor[s].reading.drift
           /\ metrics'[s].dropped = metrics[s].dropped
                + IF Accepts(sensor[s].reading) THEN 0 ELSE 1
           /\ metrics'[s].alerts = metrics[s].alerts
                + IF ~ Accepts(sensor[s].reading) /\ RaisesAlert(s) THEN 1 ELSE 0
<1> DEFINE r == sensor[s].reading
<1>1. PICK a \in {0, 1} : a = IF ~ Accepts(r) /\ RaisesAlert(s) THEN 1 ELSE 0
    OBVIOUS
<1>2. PICK d \in {0, 1} : d = IF Accepts(r) THEN 0 ELSE 1
    OBVIOUS
<1>3. metrics' = [metrics EXCEPT ![s].cycles = @ + 1, ![s].drift_sum = @ + r.drift,
                                 ![s].dropped = @ + d, ![s].alerts = @ + a]
    BY <1>1, <1>2 DEF PushReading
<1>4. /\ metrics \in [SensorType -> MetricsRecord] /\ metrics[s] \in MetricsRecord
      /\ r.drift \in Nat
    BY RecordFacts DEF ThreadsTyped, SensorReading
<1> HIDE DEF r
<1>5. /\ metrics[s].cycles + 1 \in Nat /\ metrics[s].drift_sum + r.drift \in Nat
      /\ metrics[s].dropped + d \in Nat /\ metrics[s].alerts + a \in Nat
    BY <1>4 DEF MetricsRecord
<1>6. metrics' = [metrics EXCEPT ![s].cycles = metrics[s].cycles + 1,
                                 ![s].drift_sum = metrics[s].drift_sum + r.drift,
                                 ![s].dropped = metrics[s].dropped + d,
                                 ![s].alerts = metrics[s].alerts + a]
    BY <1>3, <1>4 DEF MetricsRecord
<1>7. /\ metrics' \in [SensorType -> MetricsRecord]
      /\ \A t \in SensorType : t # s => metrics'[t] = metrics[t]
      /\ metrics'[s].cycles = metrics[s].cycles + 1
      /\ metrics'[s].drift_sum = metrics[s].drift_sum + r.drift
      /\ metrics'[s].dropped = metrics[s].dropped + d
      /\ metrics'[s].alerts = metrics[s].alerts + a
    BY <1>4, <1>5, <1>6 DEF MetricsRecord
<1> QED BY <1>1, <1>2, <1>7 DEF r

LEMMA NextKeepsThreads ==
    ASSUME ThreadsTyped, FaultsTyped, BufferTypeOK, AnyStep
    PROVE  ThreadsTyped'
<1> DEFINE Good(t) == /\ InCycle(t)' => sensor'[t].cycle # 0
                      /\ sensor'[t].reading.sensor = t
                      /\ sensor'[t].pc \in {"corrupt", "corrupted", "push"}
                           => sensor'[t].reading.cycle = sensor'[t].cycle
                      /\ IsCritical(t) => sensor'[t].miss <= MissThreshold
<1>1. CASE TimePasses \/ Injector \/ UNCHANGED vars
    BY <1>1 DEF TimePasses, Injector, vars, ThreadsTyped, InCycle
<1>2. CASE Drain
    <2>1. Head(items) \in SensorReading
        BY <1>2, HeadTailProperties, EmptySeq DEF Drain, Pop, BufferTypeOK
    <2>2. delivered' \subseteq SensorReading /\ UNCHANGED <<sensor, metrics>>
        BY <1>2, <2>1 DEF Drain, ThreadsTyped
    <2> QED BY <2>2 DEF ThreadsTyped, InCycle
<1>3. ASSUME NEW s \in SensorType, Sensor(s)
      PROVE  ThreadsTyped'
    <2> DEFINE x == sensor[s]
    <2>1. SensorStep(s) /\ UNCHANGED delivered
        BY <1>3 DEF Sensor
    <2>2. /\ sensor' \in [SensorType -> SensorRecord]
          /\ \A t \in SensorType : t # s => sensor'[t] = sensor[t]
        BY <2>1, SensorMoves
    <2>3. metrics' \in [SensorType -> MetricsRecord]
        <3>1. CASE PushReading(s)
            BY <3>1, PushCounts
        <3>2. CASE UNCHANGED metrics
            BY <3>2 DEF ThreadsTyped
        <3> QED BY <2>1, <3>1, <3>2 DEF SensorStep, StartSensor, BeginCycle, SufferDelay,
                    NoDelay, EndStall, Read, SufferCorruption, NoCorruption, EndCorruption
    <2>4. \A t \in SensorType : t # s => Good(t)
        BY <2>2 DEF ThreadsTyped, InCycle
    <2>5. /\ x.cycle \in Nat /\ x.miss \in Nat /\ x.reading.sensor = s
          /\ x.pc \in {"corrupt", "corrupted", "push"} => x.reading.cycle = x.cycle
          /\ x.pc \in {"delay", "stalled", "sleep", "corrupt", "corrupted", "push"}
               => x.cycle # 0
          /\ IsCritical(s) => x.miss <= 3
          /\ x.reading \in SensorReading
        BY RecordFacts DEF ThreadsTyped, InCycle, MissThreshold
    <2>6. Good(s)
        <3> USE DEF Moves, InCycle, MissThreshold
        <3>6. CASE StartSensor(s)
            <4>1. Moves(s, "top", x.cycle, now, x.wake, x.miss, x.reading)
                BY <3>6, SensorSteps
            <4> QED BY <2>5, <4>1
        <3>7. CASE SufferDelay(s)
            <4>1. /\ x.pc = "delay"
                  /\ Moves(s, "stalled", x.cycle, x.scheduled, now + Stall, x.miss, x.reading)
                BY <3>7, SensorSteps
            <4> QED BY <2>5, <4>1
        <3>8. CASE EndStall(s)
            <4>1. /\ x.pc = "stalled"
                  /\ Moves(s, "sleep", x.cycle, x.scheduled, 0, x.miss, x.reading)
                BY <3>8, SensorSteps
            <4> QED BY <2>5, <4>1
        <3>9. CASE BeginCycle(s)
            <4>1. x.cycle + 1 # 0
                BY <2>5
            <4>2. CASE Passes(s, "top", "done")
                BY <2>5, <4>2 DEF Passes
            <4>3. CASE Moves(s, "delay", x.cycle + 1, x.scheduled, x.wake, x.miss, x.reading)
                BY <2>5, <4>1, <4>3
            <4> QED BY <3>9, <4>2, <4>3, SensorSteps
        <3>10. CASE NoDelay(s) \/ SufferCorruption(s) \/ NoCorruption(s)
            <4>1. \/ Passes(s, "delay", "sleep") \/ Passes(s, "corrupt", "corrupted")
                  \/ Passes(s, "corrupt", "push")
                BY <3>10, SensorSteps
            <4> QED BY <2>5, <4>1 DEF Passes
        <3>11. CASE Read(s)
            <4> DEFINE r == [sensor |-> s, cycle |-> x.cycle, value |-> "number",
                             drift |-> now - x.scheduled]
            <4>1. r.sensor = s /\ r.cycle = x.cycle
                OBVIOUS
            <4>2. /\ x.pc = "sleep"
                  /\ Moves(s, "corrupt", x.cycle, x.scheduled, x.wake, x.miss, r)
                BY <3>11, SensorSteps
            <4> HIDE DEF r
            <4> QED BY <2>5, <4>1, <4>2
        <3>12. CASE EndCorruption(s)
            <4> DEFINE r == [x.reading EXCEPT !.value = "nan"]
            <4>1. r.sensor = x.reading.sensor /\ r.cycle = x.reading.cycle
                BY <2>5 DEF SensorReading
            <4>2. /\ x.pc = "corrupted"
                  /\ Moves(s, "push", x.cycle, x.scheduled, x.wake, x.miss, r)
                BY <3>12, SensorSteps
            <4> HIDE DEF r
            <4> QED BY <2>5, <4>1, <4>2
        <3>13. CASE PushReading(s)
            <4>1. PICK m \in Nat :
                    /\ m = IF Accepts(x.reading) \/ RaisesAlert(s) THEN 0 ELSE x.miss + 1
                    /\ Moves(s, "top", x.cycle, x.scheduled + Period[s], x.wake, m,
                             NoReading(s))
                BY <3>13, SensorSteps
            <4>2. IsCritical(s) => m <= 3
                BY <2>5, <4>1 DEF RaisesAlert
            <4>3. NoReading(s).sensor = s
                BY DEF NoReading
            <4> QED BY <4>1, <4>2, <4>3
        <3> QED BY <2>1, <3>6, <3>7, <3>8, <3>9, <3>10, <3>11, <3>12, <3>13 DEF SensorStep
    <2> HIDE DEF Good
    <2>7. delivered' \subseteq SensorReading
        BY <2>1 DEF ThreadsTyped
    <2>8. \A t \in SensorType : Good(t)
        BY <2>4, <2>6
    <2> QED BY <2>2, <2>3, <2>7, <2>8 DEF ThreadsTyped, Good
<1> QED BY <1>1, <1>2, <1>3 DEF AnyStep

\* What a sensor thread does with the fault state.
LEMMA SensorFaults ==
    ASSUME NEW s \in SensorType, SensorStep(s)
    PROVE  \/ UNCHANGED faultVars
           \/ SufferDelay(s) /\ s \in delay_flags /\ TakeDelay(s)
           \/ SufferCorruption(s) /\ s \in corrupt_flags /\ TakeCorrupt(s)
           \/ EndStall(s) /\ Recover(s, "DelayedSensor")
           \/ EndCorruption(s) /\ Recover(s, "CorruptedData")
BY DEF SensorStep, StartSensor, BeginCycle, SufferDelay, NoDelay, EndStall, Read,
       SufferCorruption, NoCorruption, EndCorruption, PushReading

\* The ways the log changes: nothing, one fault more, one fault recovered.
LEMMA LogSteps ==
    ASSUME FaultsTyped, AnyStep
    PROVE  \/ UNCHANGED <<fault_log, mission_aborted>>
           \/ /\ Injector /\ LogFault /\ injector.pc = "log" /\ Fresh(injector.event)
              /\ fault_log' = Append(fault_log, injector.event)
              /\ UNCHANGED mission_aborted
           \/ \E s \in SensorType, type \in FaultType :
                \E i \in Unrecovered(s, type) :
                  /\ i \in 1 .. Len(fault_log)
                  /\ \/ EndStall(s) /\ type = "DelayedSensor"
                     \/ EndCorruption(s) /\ type = "CorruptedData"
                  /\ now - fault_log[i].injected_at \in Nat
                  /\ Marked(i, now - fault_log[i].injected_at)
                  /\ mission_aborted' \in BOOLEAN
                  /\ mission_aborted' <=>
                       mission_aborted \/ Late(now - fault_log[i].injected_at)
<1>1. CASE TimePasses \/ Drain \/ UNCHANGED vars
    BY <1>1 DEF TimePasses, Drain, vars, faultVars
<1>2. CASE Injector
    <2>1. CASE LogFault
        BY <1>2, <2>1, InjectorSteps DEF FaultsTyped
    <2>2. CASE StartInjector \/ CheckDeadline \/ SelectFault \/ RaiseFlag
        BY <2>2 DEF StartInjector, CheckDeadline, SelectFault, RaiseFlag, faultVars
    <2> QED BY <1>2, <2>1, <2>2 DEF Injector, InjectorStep
<1>3. ASSUME NEW s \in SensorType, Sensor(s)
      PROVE  \/ UNCHANGED <<fault_log, mission_aborted>>
             \/ \E type \in FaultType :
                  \E i \in Unrecovered(s, type) :
                    /\ i \in 1 .. Len(fault_log)
                    /\ \/ EndStall(s) /\ type = "DelayedSensor"
                       \/ EndCorruption(s) /\ type = "CorruptedData"
                    /\ now - fault_log[i].injected_at \in Nat
                    /\ Marked(i, now - fault_log[i].injected_at)
                    /\ mission_aborted' \in BOOLEAN
                    /\ mission_aborted' <=>
                         mission_aborted \/ Late(now - fault_log[i].injected_at)
    <2>1. SensorStep(s)
        BY <1>3 DEF Sensor
    <2>2. CASE UNCHANGED faultVars \/ TakeDelay(s) \/ TakeCorrupt(s)
        BY <2>2 DEF faultVars, TakeDelay, TakeCorrupt
    <2>3. CASE EndStall(s) /\ Recover(s, "DelayedSensor")
        <3>1. "DelayedSensor" \in FaultType
            BY DEF FaultType
        <3>2. CASE UNCHANGED faultVars
            BY <3>2 DEF faultVars
        <3> QED BY <2>3, <3>1, <3>2, RecoverFacts
    <2>4. CASE EndCorruption(s) /\ Recover(s, "CorruptedData")
        <3>1. "CorruptedData" \in FaultType
            BY DEF FaultType
        <3>2. CASE UNCHANGED faultVars
            BY <3>2 DEF faultVars
        <3> QED BY <2>4, <3>1, <3>2, RecoverFacts
    <2> QED BY <2>1, <2>2, <2>3, <2>4, SensorFaults
<1> QED BY <1>1, <1>2, <1>3 DEF AnyStep

LEMMA NextKeepsFaults ==
    ASSUME FaultsTyped, AnyStep
    PROVE  FaultsTyped'
<1>1. /\ now \in Nat /\ delay_flags \subseteq SensorType
      /\ corrupt_flags \subseteq SensorType
      /\ fault_log \in Seq(FaultEvent) /\ fault_count \in Nat
      /\ mission_aborted \in BOOLEAN /\ injector \in InjectorRecord
      /\ injector.pc \in {"raise", "log"} => Fresh(injector.event)
      /\ \A i \in 1 .. Len(fault_log) : fault_log[i].injected_at <= now
    BY DEF FaultsTyped
<1>2. now' \in Nat /\ now <= now'
    BY <1>1 DEF AnyStep, TimePasses, Drain, Injector, Sensor, vars
<1>3. /\ fault_log' \in Seq(FaultEvent) /\ mission_aborted' \in BOOLEAN
      /\ \A i \in 1 .. Len(fault_log') :
            fault_log'[i].injected_at \in Nat /\ fault_log'[i].injected_at <= now
    <2>1. \A i \in 1 .. Len(fault_log) :
            fault_log[i].injected_at \in Nat /\ fault_log[i].injected_at <= now
        BY LogElement
    <2>2. CASE UNCHANGED <<fault_log, mission_aborted>>
        BY <1>1, <2>1, <2>2
    <2>3. CASE /\ Fresh(injector.event) /\ UNCHANGED mission_aborted
               /\ fault_log' = Append(fault_log, injector.event)
        <3>1. injector.event \in FaultEvent /\ injector.event.injected_at <= now
            BY <2>3 DEF Fresh
        <3>2. /\ fault_log' \in Seq(FaultEvent) /\ Len(fault_log') = Len(fault_log) + 1
              /\ \A i \in 1 .. Len(fault_log) : fault_log'[i] = fault_log[i]
              /\ fault_log'[Len(fault_log) + 1] = injector.event
              /\ Len(fault_log) \in Nat
            BY <1>1, <2>3, <3>1, AppendProperties
        <3>3. injector.event.injected_at \in Nat
            BY <3>1 DEF FaultEvent
        <3>4. \A i \in 1 .. Len(fault_log') :
                i \in 1 .. Len(fault_log) \/ i = Len(fault_log) + 1
            BY <3>2
        <3> QED BY <1>1, <2>1, <2>3, <3>1, <3>2, <3>3, <3>4
    <2>4. ASSUME NEW i \in 1 .. Len(fault_log), NEW ms, Marked(i, ms),
                 mission_aborted' \in BOOLEAN
          PROVE  /\ fault_log' \in Seq(FaultEvent) /\ mission_aborted' \in BOOLEAN
                 /\ \A k \in 1 .. Len(fault_log') :
                      /\ fault_log'[k].injected_at \in Nat
                      /\ fault_log'[k].injected_at <= now
        BY <2>1, <2>4 DEF Marked
    <2> QED BY <2>2, <2>3, <2>4, LogSteps
<1>4. \A i \in 1 .. Len(fault_log') : fault_log'[i].injected_at <= now'
    BY <1>1, <1>2, <1>3
<1>5. /\ delay_flags' \subseteq SensorType /\ corrupt_flags' \subseteq SensorType
      /\ fault_count' \in Nat
    <2>1. CASE TimePasses \/ Drain \/ UNCHANGED vars
        BY <1>1, <2>1 DEF TimePasses, Drain, vars, faultVars
    <2>2. CASE Injector
        <3>1. CASE RaiseFlag
            <4>1. injector.event.target \in SensorType
                BY <1>1, <3>1, InjectorSteps DEF Fresh, FaultEvent
            <4> QED BY <1>1, <3>1, <4>1 DEF RaiseFlag
        <3>2. CASE SelectFault
            BY <1>1, <3>2 DEF SelectFault
        <3>3. CASE StartInjector \/ CheckDeadline \/ LogFault
            BY <1>1, <3>3 DEF StartInjector, CheckDeadline, LogFault, faultVars
        <3> QED BY <2>2, <3>1, <3>2, <3>3 DEF Injector, InjectorStep
    <2>3. ASSUME NEW s \in SensorType, Sensor(s)
          PROVE  /\ delay_flags' \subseteq SensorType /\ corrupt_flags' \subseteq SensorType
                 /\ fault_count' \in Nat
        <3>1. SensorStep(s)
            BY <2>3 DEF Sensor
        <3>2. /\ delay_flags' \subseteq delay_flags /\ corrupt_flags' \subseteq corrupt_flags
              /\ fault_count' = fault_count
            BY <3>1, SensorFaults DEF faultVars, TakeDelay, TakeCorrupt, Recover
        <3> QED BY <1>1, <3>2
    <2> QED BY <2>1, <2>2, <2>3 DEF AnyStep
<1>6. /\ injector' \in InjectorRecord
      /\ injector'.pc \in {"raise", "log"} => Fresh(injector.event)'
    <2>1. CASE UNCHANGED injector
        BY <1>1, <1>2, <2>1 DEF Fresh, FaultEvent
    <2>2. CASE Injector
        <3>1. CASE StartInjector \/ CheckDeadline \/ LogFault
            BY <3>1, InjectorSteps DEF NextInjector
        <3>2. CASE RaiseFlag
            <4>1. injector'.event = injector.event /\ injector.pc = "raise"
                  /\ injector' \in InjectorRecord
                BY <3>2, InjectorSteps DEF NextInjector
            <4> QED BY <1>1, <1>2, <4>1 DEF Fresh, FaultEvent
        <3>3. CASE SelectFault
            <4>1. \/ NextInjector("done", injector.deadline, injector.next_fault,
                                  injector.event)
                  \/ \E e \in FaultEvent :
                       /\ Fresh(e)
                       /\ NextInjector("raise", injector.deadline, injector.next_fault, e)
                BY <3>3, InjectorSteps
            <4>2. CASE NextInjector("done", injector.deadline, injector.next_fault,
                                    injector.event)
                BY <4>2 DEF NextInjector
            <4>3. ASSUME NEW e \in FaultEvent, Fresh(e),
                         NextInjector("raise", injector.deadline, injector.next_fault, e)
                  PROVE  injector' \in InjectorRecord /\ Fresh(injector.event)'
                <5>1. injector' \in InjectorRecord /\ injector'.event = e
                    BY <4>3 DEF NextInjector
                <5> QED BY <1>1, <1>2, <4>3, <5>1 DEF Fresh, FaultEvent
            <4> QED BY <4>1, <4>2, <4>3
        <3> QED BY <2>2, <3>1, <3>2, <3>3 DEF Injector, InjectorStep
    <2> QED BY <2>1, <2>2 DEF AnyStep, TimePasses, Drain, Sensor, vars
<1> QED BY <1>2, <1>3, <1>4, <1>5, <1>6 DEF FaultsTyped

-----------------------------------------------------------------------------
(* What becomes of the readings.                                           *)

Sent(s) == CyclesOf(s, delivered)

\* Each reading handed to the buffer is in one place; the latency log knows those
\* that were accepted, and a Thermal reading, once accepted, is never dropped.
Balance(s) ==
    /\ Queued(s) \union Sent(s) \union Dropped(s) = 1 .. Pushed(s)
    /\ Queued(s) \intersect Sent(s) = {}
    /\ (Queued(s) \union Sent(s)) \intersect Dropped(s) = {}
    /\ Queued(s) \union Sent(s) = Logged(s) \ Dropped(s)
    /\ s = "Thermal" => Dropped(s) \intersect Logged(s) = {}

Counted(s) == /\ metrics[s].cycles = Pushed(s)
              /\ metrics[s].dropped = Cardinality(Dropped(s) \ Logged(s))

DeliveredOnce == \A x, y \in delivered : x.sensor = y.sensor /\ x.cycle = y.cycle => x = y

ReadingsInv ==
    /\ BufferTypeOK /\ Ordered(items) /\ DeliveredOnce
    /\ \A s \in SensorType : Balance(s) /\ Counted(s)

\* Only a push changes how many readings a sensor has handed over.
LEMMA PushedSteps ==
    ASSUME ThreadsTyped, FaultsTyped, NEW s \in SensorType, SensorStep(s)
    PROVE  /\ \A t \in SensorType : t # s => Pushed(t)' = Pushed(t)
           /\ PushReading(s) => /\ Pushed(s)' = Pushed(s) + 1
                                /\ sensor[s].reading \in SensorReading
                                /\ sensor[s].reading.sensor = s
                                /\ sensor[s].reading.cycle = Pushed(s) + 1
           /\ ~ PushReading(s) => Pushed(s)' = Pushed(s)
           /\ Pushed(s) \in Nat
<1> DEFINE x == sensor[s]
<1>1. x.cycle \in Nat /\ (InCycle(s) => x.cycle # 0) /\ x.reading \in SensorReading
    BY RecordFacts DEF ThreadsTyped
<1>2. Pushed(s) \in Nat
    BY <1>1 DEF Pushed
<1>3. \A t \in SensorType : t # s => Pushed(t)' = Pushed(t)
    BY SensorMoves DEF Pushed, InCycle
<1>4. CASE PushReading(s)
    <2>1. x.pc = "push" /\ sensor'[s].pc = "top" /\ sensor'[s].cycle = x.cycle
        BY <1>4, SensorSteps DEF Moves
    <2>2. Pushed(s) = x.cycle - 1 /\ Pushed(s)' = x.cycle
        BY <2>1 DEF Pushed, InCycle
    <2>3. x.reading.sensor = s /\ x.reading.cycle = x.cycle
        BY <2>1 DEF ThreadsTyped
    <2> QED BY <1>1, <1>2, <1>3, <1>4, <2>2, <2>3
<1>5. CASE ~ PushReading(s)
    <2>1. Pushed(s)' = Pushed(s)
        <3>1. CASE BeginCycle(s)
            <4>1. CASE Passes(s, "top", "done")
                BY <4>1 DEF Passes, Moves, Pushed, InCycle
            <4>2. CASE /\ x.pc = "top"
                       /\ Moves(s, "delay", x.cycle + 1, x.scheduled, x.wake, x.miss,
                                x.reading)
                <5>1. Pushed(s) = x.cycle /\ Pushed(s)' = (x.cycle + 1) - 1
                    BY <4>2 DEF Moves, Pushed, InCycle
                <5> QED BY <1>1, <5>1
            <4> QED BY <3>1, <4>1, <4>2, SensorSteps
        <3>2. CASE StartSensor(s) \/ SufferDelay(s) \/ EndStall(s)
            BY <3>2, SensorSteps DEF Moves, Pushed, InCycle
        <3>3. CASE NoDelay(s) \/ SufferCorruption(s) \/ NoCorruption(s)
            <4>1. \/ Passes(s, "delay", "sleep") \/ Passes(s, "corrupt", "corrupted")
                  \/ Passes(s, "corrupt", "push")
                BY <3>3, SensorSteps
            <4> QED BY <4>1 DEF Passes, Moves, Pushed, InCycle
        <3>4. CASE Read(s) \/ EndCorruption(s)
            <4>1. /\ x.pc \in {"sleep", "corrupted"}
                  /\ sensor'[s].pc \in {"corrupt", "push"} /\ sensor'[s].cycle = x.cycle
                BY <3>4, SensorSteps DEF Moves
            <4> QED BY <4>1 DEF Pushed, InCycle
        <3> QED BY <1>5, <3>1, <3>2, <3>3, <3>4 DEF SensorStep
    <2> QED BY <1>2, <1>3, <1>5, <2>1
<1> QED BY <1>4, <1>5

\* What push's answer says of the two logs.
LEMMA PushAnswers ==
    ASSUME NEW r, Push(r), NEW u \in SensorType
    PROVE  /\ Accepts(r) => Logged(u)' = Logged(u) \union Just(u, r)
           /\ ~ Accepts(r) => /\ Dropped(u)' = Dropped(u) \union Just(u, r)
                              /\ UNCHANGED <<items, latency_log>>
<1>1. ASSUME Accepts(r) PROVE Logged(u)' = Logged(u) \union Just(u, r)
    <2>1. latency_log' = latency_log \union {Latency(r)}
        BY <1>1 DEF Push, PushRoom, PushEvict, PushDrop, Accepts, InsertSorted, Latency
    <2>2. Just(u, Latency(r)) = Just(u, r)
        BY DEF Just, Latency
    <2>3. CyclesOf(u, latency_log \union {Latency(r)})
            = CyclesOf(u, latency_log) \union Just(u, Latency(r))
        BY CyclesOfMore
    <2> QED BY <2>1, <2>2, <2>3 DEF Logged
<1>2. ASSUME ~ Accepts(r)
      PROVE  /\ Dropped(u)' = Dropped(u) \union Just(u, r)
             /\ UNCHANGED <<items, latency_log>>
    <2> DEFINE d == [sensor |-> r.sensor, cycle |-> r.cycle, buffer_len |-> Len(items)]
    <2>1. dropped_log' = dropped_log \union {d} /\ UNCHANGED <<items, latency_log>>
        BY <1>2 DEF Push, PushRoom, PushEvict, PushDrop, Accepts, LogDrop
    <2>2. Just(u, d) = Just(u, r)
        BY DEF Just
    <2> HIDE DEF d
    <2>3. CyclesOf(u, dropped_log \union {d}) = CyclesOf(u, dropped_log) \union Just(u, d)
        BY CyclesOfMore
    <2> QED BY <2>1, <2>2, <2>3 DEF Dropped
<1> QED BY <1>1, <1>2

\* A push is accounted for.
LEMMA PushKeepsReadings ==
    ASSUME ThreadsTyped, FaultsTyped, ReadingsInv, NEW s \in SensorType,
           PushReading(s), UNCHANGED delivered
    PROVE  ReadingsInv'
<1> DEFINE r == sensor[s].reading
           n == Pushed(s)
<1>1. /\ r \in SensorReading /\ r.sensor = s /\ r.cycle = n + 1 /\ n \in Nat
      /\ Pushed(s)' = n + 1
      /\ \A t \in SensorType : t # s => Pushed(t)' = Pushed(t)
    BY PushedSteps DEF SensorStep
<1>2. Push(r)
    BY DEF PushReading
<1>3. BufferTypeOK /\ Ordered(items) /\ items \in Seq(SensorReading)
    BY DEF ReadingsInv, BufferTypeOK
<1>4. \A u \in SensorType : /\ metrics'[u].cycles = metrics[u].cycles
                                 + IF u = s THEN 1 ELSE 0
                            /\ metrics'[u].dropped = metrics[u].dropped
                                 + IF u = s /\ ~ Accepts(r) THEN 1 ELSE 0
                            /\ metrics[u].cycles \in Nat /\ metrics[u].dropped \in Nat
    <2>1. \A u \in SensorType : metrics[u] \in MetricsRecord
        BY DEF ThreadsTyped
    <2>2. \A u \in SensorType : metrics[u].cycles \in Nat /\ metrics[u].dropped \in Nat
        BY <2>1 DEF MetricsRecord
    <2> QED BY <2>2, PushCounts
<1> HIDE DEF r, n
<1>5. Newest(items, r)
    <2> SUFFICES ASSUME NEW i \in 1 .. Len(items), items[i].sensor = s
                 PROVE  items[i].cycle < n + 1
        BY <1>1 DEF Newest
    <2>1. items[i] \in ToSet(items)
        BY <1>3, ToSetFacts
    <2>2. items[i].cycle \in Queued(s)
        BY <2>1, CyclesOfFacts DEF Queued
    <2>3. Queued(s) \subseteq 1 .. n
        BY DEF ReadingsInv, Balance, n
    <2> QED BY <1>1, <2>2, <2>3
<1>6. /\ BufferTypeOK' /\ Ordered(items')
      /\ Stored(r) \/ (\E w \in ToSet(items) : Exchanged(w, r)) \/ Refused(r)
    BY <1>1, <1>2, <1>3, <1>5, PushFacts
<1>7. ASSUME NEW u \in SensorType
      PROVE  Balance(u)' /\ Counted(u)'
    <2> DEFINE D == Dropped(u)
               L == Logged(u)
               J == Just(u, r)
               k == Pushed(u)
    <2>1. PICK out :
             /\ Queued(u)' = (Queued(u) \union Just(u, r)) \ out
             /\ Dropped(u)' = Dropped(u) \union out
             /\ \/ /\ out \subseteq Queued(u) /\ (u = "Thermal" => out = {})
                   /\ Logged(u)' = Logged(u) \union Just(u, r)
                \/ out = Just(u, r) /\ Queued(u)' = Queued(u)
                   /\ Logged(u)' = Logged(u)
        BY <1>1, <1>3, <1>6, PushMoves
    <2>2. Sent(u)' = Sent(u)
        BY DEF Sent
    <2>3. Balance(u) /\ Counted(u)
        BY DEF ReadingsInv
    <2>4. /\ 1 .. Pushed(u)' = (1 .. k) \union J /\ J \intersect (1 .. k) = {}
          /\ k \in Nat /\ Pushed(u)' = k + IF u = s THEN 1 ELSE 0
          /\ u = s => J = {n + 1}
          /\ u # s => J = {}
        <3>1. CASE u = s
            <4>1. J = {n + 1} /\ k = n /\ Pushed(u)' = n + 1
                BY <1>1, <3>1 DEF Just, n
            <4> QED BY <1>1, <3>1, <4>1
        <3>2. CASE u # s
            <4>1. J = {} /\ Pushed(u)' = k
                BY <1>1, <3>2 DEF Just
            <4>2. k \in Nat
                BY RecordFacts DEF Pushed, ThreadsTyped
            <4> QED BY <3>2, <4>1, <4>2
        <3> QED BY <3>1, <3>2
    <2>5. /\ Queued(u) \union Sent(u) \union D = 1 .. k
          /\ Queued(u) \intersect Sent(u) = {}
          /\ (Queued(u) \union Sent(u)) \intersect D = {}
          /\ Queued(u) \union Sent(u) = L \ D
          /\ u = "Thermal" => D \intersect L = {}
        BY <2>3 DEF Balance
    <2>6. L \subseteq 1 .. k /\ D \subseteq 1 .. k
        BY <2>5
    <2>7. /\ Accepts(r) => L' = L \union J
          /\ ~ Accepts(r) => D' = D \union J /\ L' = L
        BY <1>2, PushAnswers DEF Logged
    <2>8. Pushed(u) = k
        OBVIOUS
    <2> HIDE DEF J, k
    <2>9. Balance(u)'
        BY <2>1, <2>2, <2>4, <2>5, <2>6 DEF Balance, J
    <2>10. metrics'[u].cycles = Pushed(u)'
        BY <1>4, <2>3, <2>4, <2>8 DEF Counted
    <2>11. metrics'[u].dropped = Cardinality(D' \ L')
        <3>1. IsFiniteSet(D \ L)
            <4>1. D \ L \subseteq 1 .. k
                BY <2>6
            <4>2. IsFiniteSet(1 .. k)
                BY <2>4, FS_Interval
            <4> QED BY <4>1, <4>2, FS_Subset
        <3>2. CASE Accepts(r)
            <4>1. D' \ L' = D \ L
                BY <2>1, <2>4, <2>5, <2>6, <2>7, <3>2 DEF J
            <4>2. metrics'[u].dropped = metrics[u].dropped
                BY <1>4, <3>2
            <4> QED BY <2>3, <4>1, <4>2 DEF Counted
        <3>3. CASE ~ Accepts(r) /\ u = s
            <4>1. D' \ L' = (D \ L) \union {n + 1} /\ n + 1 \notin D \ L
                BY <2>4, <2>6, <2>7, <3>3
            <4>2. Cardinality((D \ L) \union {n + 1}) = Cardinality(D \ L) + 1
                BY <3>1, <4>1, FS_AddElement
            <4>3. metrics'[u].dropped = metrics[u].dropped + 1
                BY <1>4, <3>3
            <4> QED BY <2>3, <4>1, <4>2, <4>3 DEF Counted
        <3>4. CASE ~ Accepts(r) /\ u # s
            <4>1. D' \ L' = D \ L
                BY <2>4, <2>7, <3>4
            <4>2. metrics'[u].dropped = metrics[u].dropped
                BY <1>4, <3>4
            <4> QED BY <2>3, <4>1, <4>2 DEF Counted
        <3> QED BY <3>2, <3>3, <3>4
    <2> QED BY <2>9, <2>10, <2>11 DEF Counted
<1>8. DeliveredOnce'
    BY DEF ReadingsInv, DeliveredOnce
<1> QED BY <1>6, <1>7, <1>8 DEF ReadingsInv

LEMMA DrainKeepsReadings ==
    ASSUME ThreadsTyped, ReadingsInv, Drain
    PROVE  ReadingsInv'
<1> DEFINE h == Head(items)
<1>1. BufferTypeOK /\ Ordered(items) /\ Pop
    BY DEF ReadingsInv, Drain
<1>2. /\ BufferTypeOK' /\ Ordered(items')
      /\ h \in SensorReading /\ h \in ToSet(items)
    BY <1>1, PopFacts
<1>3. /\ delivered' = delivered \union {h} /\ UNCHANGED <<sensor, metrics>>
    BY DEF Drain
<1>4. \A u \in SensorType : /\ Queued(u)' = Queued(u) \ Just(u, h)
                            /\ Dropped(u)' = Dropped(u) /\ Logged(u)' = Logged(u)
                            /\ Just(u, h) \subseteq Queued(u)
    BY <1>1, PopMoves
<1> HIDE DEF h
<1>5. ASSUME NEW u \in SensorType
      PROVE  Balance(u)' /\ Counted(u)'
    <2>1. Sent(u)' = Sent(u) \union Just(u, h)
        <3>1. CyclesOf(u, delivered \union {h}) = CyclesOf(u, delivered) \union Just(u, h)
            BY CyclesOfMore
        <3> QED BY <1>3, <3>1 DEF Sent
    <2>2. Pushed(u)' = Pushed(u)
        BY <1>3 DEF Pushed, InCycle
    <2>3. Balance(u) /\ Counted(u)
        BY DEF ReadingsInv
    <2>4. Balance(u)'
        BY <1>4, <2>1, <2>2, <2>3 DEF Balance
    <2>5. Counted(u)'
        BY <1>3, <1>4, <2>2, <2>3 DEF Counted
    <2> QED BY <2>4, <2>5
<1>6. DeliveredOnce'
    <2> SUFFICES ASSUME NEW x \in delivered, x.sensor = h.sensor, x.cycle = h.cycle
                 PROVE  FALSE
        BY <1>3 DEF ReadingsInv, DeliveredOnce
    <2>1. h.sensor \in SensorType
        BY <1>2 DEF SensorReading
    <2>2. h.cycle \in Queued(h.sensor)
        BY <1>2, CyclesOfFacts DEF Queued
    <2>3. h.cycle \in Sent(h.sensor)
        BY CyclesOfFacts DEF Sent
    <2>4. Queued(h.sensor) \intersect Sent(h.sensor) = {}
        BY <2>1 DEF ReadingsInv, Balance
    <2> QED BY <2>2, <2>3, <2>4
<1> QED BY <1>2, <1>5, <1>6 DEF ReadingsInv

LEMMA NextKeepsReadings ==
    ASSUME ThreadsTyped, FaultsTyped, ReadingsInv, AnyStep
    PROVE  ReadingsInv'
<1>1. ASSUME UNCHANGED <<bufferVars, metrics, delivered>>,
             \A u \in SensorType : Pushed(u)' = Pushed(u)
      PROVE  ReadingsInv'
    <2>1. \A u \in SensorType : /\ Queued(u)' = Queued(u) /\ Sent(u)' = Sent(u)
                                /\ Dropped(u)' = Dropped(u) /\ Logged(u)' = Logged(u)
        BY <1>1 DEF bufferVars, Queued, Sent, Dropped, Logged
    <2>2. BufferTypeOK' /\ Ordered(items') /\ DeliveredOnce'
        BY <1>1 DEF ReadingsInv, bufferVars, BufferTypeOK, DeliveredOnce
    <2>3. ASSUME NEW u \in SensorType PROVE Balance(u)' /\ Counted(u)'
        BY <1>1, <2>1 DEF ReadingsInv, Balance, Counted
    <2> QED BY <2>2, <2>3 DEF ReadingsInv
<1>2. CASE TimePasses \/ Injector \/ UNCHANGED vars
    BY <1>1, <1>2 DEF TimePasses, Injector, vars, Pushed, InCycle
<1>3. CASE Drain
    BY <1>3, DrainKeepsReadings
<1>4. ASSUME NEW s \in SensorType, Sensor(s) PROVE ReadingsInv'
    <2>1. CASE PushReading(s)
        BY <1>4, <2>1, PushKeepsReadings DEF Sensor
    <2>2. CASE ~ PushReading(s)
        <3>1. UNCHANGED <<bufferVars, metrics, delivered>>
            BY <1>4, <2>2 DEF Sensor, SensorStep, StartSensor, BeginCycle, SufferDelay,
                              NoDelay, EndStall, Read, SufferCorruption, NoCorruption,
                              EndCorruption
        <3> QED BY <1>1, <1>4, <2>2, <3>1, PushedSteps DEF Sensor
    <2> QED BY <2>1, <2>2
<1> QED BY <1>2, <1>3, <1>4 DEF AnyStep

CoreInv == ThreadsTyped /\ FaultsTyped /\ ReadingsInv

LEMMA InitIsCore == Init => CoreInv
<1> SUFFICES ASSUME Init PROVE CoreInv
    OBVIOUS
<1>1. /\ sensor = [s \in SensorType |->
                     [pc |-> IF s \in Sensors THEN "start" ELSE "done",
                      cycle |-> 0, scheduled |-> 0, wake |-> 0, miss |-> 0,
                      reading |-> NoReading(s)]]
      /\ metrics = [s \in SensorType |->
                      [cycles |-> 0, dropped |-> 0, alerts |-> 0, drift_sum |-> 0]]
      /\ delivered = {} /\ now = 0 /\ BufferInit /\ FaultInit
    BY DEF Init
<1>2. ASSUME NEW s \in SensorType
      PROVE  /\ sensor[s] \in SensorRecord /\ metrics[s] \in MetricsRecord
             /\ ~ InCycle(s) /\ sensor[s].reading.sensor = s /\ sensor[s].miss = 0
             /\ sensor[s].pc \notin {"corrupt", "corrupted", "push"}
             /\ sensor[s].cycle = 0 /\ metrics[s].cycles = 0 /\ metrics[s].dropped = 0
    <2>1. NoReading(s) \in SensorReading /\ NoReading(s).sensor = s
        BY DEF NoReading, SensorReading
    <2>2. PICK p \in {"start", "done"} :
            sensor[s] = [pc |-> p, cycle |-> 0, scheduled |-> 0, wake |-> 0, miss |-> 0,
                         reading |-> NoReading(s)]
        BY <1>1
    <2>3. metrics[s] = [cycles |-> 0, dropped |-> 0, alerts |-> 0, drift_sum |-> 0]
        BY <1>1
    <2> QED BY <2>1, <2>2, <2>3 DEF SensorRecord, SensorPc, MetricsRecord, InCycle
<1>3. ThreadsTyped
    <2>1. sensor \in [SensorType -> SensorRecord] /\ metrics \in [SensorType -> MetricsRecord]
        BY <1>1, <1>2
    <2> QED BY <1>1, <1>2, <2>1 DEF ThreadsTyped, MissThreshold
<1>4. FaultsTyped
    <2>1. injector \in InjectorRecord /\ injector.pc = "start"
        BY <1>1 DEF FaultInit, InjectorRecord, InjectorPc
    <2>2. /\ delay_flags = {} /\ corrupt_flags = {} /\ fault_log = <<>>
          /\ fault_count = 0 /\ mission_aborted = FALSE /\ now = 0
        BY <1>1 DEF FaultInit
    <2>3. fault_log \in Seq(FaultEvent) /\ Len(fault_log) = 0
        BY <2>2
    <2>4. \A i \in 1 .. Len(fault_log) : fault_log[i].injected_at <= now
        BY <2>3
    <2>5. mission_aborted \in BOOLEAN
        BY <2>2
    <2>6. /\ now \in Nat /\ fault_count \in Nat
          /\ delay_flags \subseteq SensorType /\ corrupt_flags \subseteq SensorType
        BY <2>2
    <2> QED BY <2>1, <2>3, <2>4, <2>5, <2>6 DEF FaultsTyped
<1>5. ReadingsInv
    <2>1. /\ items = <<>> /\ dropped_log = {} /\ latency_log = {}
          /\ items \in Seq(SensorReading) /\ Len(items) = 0 /\ ToSet(items) = {}
        BY <1>1 DEF BufferInit, ToSet
    <2>2. BufferTypeOK /\ Ordered(items)
        BY <2>1, CapacityAssumption DEF BufferTypeOK, Ordered
    <2>3. ASSUME NEW s \in SensorType PROVE Balance(s) /\ Counted(s)
        <3>1. /\ Queued(s) = {} /\ Sent(s) = {} /\ Dropped(s) = {} /\ Logged(s) = {}
              /\ Pushed(s) = 0
            BY <1>1, <1>2, <2>1 DEF Queued, Sent, Dropped, Logged, CyclesOf, Pushed
        <3>2. Balance(s)
            BY <3>1 DEF Balance
        <3>3. Counted(s)
            BY <1>2, <3>1, FS_EmptySet DEF Counted
        <3> QED BY <3>2, <3>3
    <2>4. DeliveredOnce
        BY <1>1 DEF DeliveredOnce
    <2> QED BY <2>2, <2>3, <2>4 DEF ReadingsInv
<1> QED BY <1>3, <1>4, <1>5 DEF CoreInv

LEMMA NextKeepsCore == CoreInv /\ AnyStep => CoreInv'
BY NextKeepsThreads, NextKeepsFaults, NextKeepsReadings DEF CoreInv, ReadingsInv

\* The inductive invariant of the sensor threads, alone and in the whole program.
THEOREM CoreHolds == Spec => []CoreInv
<1>1. CoreInv /\ [Next]_vars => CoreInv'
    BY NextIsAnyStep, NextKeepsCore
<1> QED BY <1>1, InitIsCore, PTL DEF Spec

THEOREM SystemCoreHolds == SystemSpec => []CoreInv
<1>1. CoreInv /\ [SystemNext]_systemVars => CoreInv'
    BY SystemNextIsAnyStep, NextKeepsCore
<1>2. SystemInit => CoreInv
    BY InitIsCore DEF SystemInit
<1> QED BY <1>1, <1>2, PTL DEF SystemSpec

LEMMA SubsetOfInterval ==
    ASSUME NEW n \in Nat, NEW T, T \subseteq 1 .. n
    PROVE  IsFiniteSet(T) /\ Cardinality(T) \in Nat /\ Cardinality(T) <= n
<1>1. IsFiniteSet(1 .. n) /\ Cardinality(1 .. n) = n
    BY FS_Interval
<1>2. IsFiniteSet(T) /\ Cardinality(T) <= Cardinality(1 .. n)
    BY <1>1, FS_Subset
<1>3. Cardinality(T) \in Nat
    BY <1>2, FS_CardinalityType
<1> QED BY <1>1, <1>2, <1>3

LEMMA DisjointUnion ==
    ASSUME NEW S, NEW T, IsFiniteSet(S), IsFiniteSet(T), S \intersect T = {}
    PROVE  /\ IsFiniteSet(S \union T)
           /\ Cardinality(S \union T) = Cardinality(S) + Cardinality(T)
<1>1. /\ IsFiniteSet(S \union T)
      /\ Cardinality(S \union T) = Cardinality(S) + Cardinality(T) - Cardinality({})
    BY FS_Union
<1>2. Cardinality({}) = 0
    BY FS_EmptySet
<1>3. Cardinality(S) \in Nat /\ Cardinality(T) \in Nat
    BY FS_CardinalityType
<1> QED BY <1>1, <1>2, <1>3

\* Counting the readings of one sensor is counting their cycle numbers.
LEMMA CountByCycle ==
    ASSUME NEW s, NEW R,
           \A x, y \in R : x.sensor = y.sensor /\ x.cycle = y.cycle => x = y,
           IsFiniteSet(CyclesOf(s, R))
    PROVE  Cardinality({r \in R : r.sensor = s}) = Cardinality(CyclesOf(s, R))
<1> DEFINE A == {r \in R : r.sensor = s}
           f == [r \in A |-> r.cycle]
<1>1. f \in [A -> CyclesOf(s, R)]
    BY CyclesOfFacts
<1>2. \A x, y \in A : f[x] = f[y] => x = y
    OBVIOUS
<1>3. \A n \in CyclesOf(s, R) : \E x \in A : f[x] = n
    BY CyclesOfFacts
<1>4. ExistsBijection(A, CyclesOf(s, R))
    <2> HIDE DEF A, f
    <2>1. f \in Bijection(A, CyclesOf(s, R))
        BY <1>1, <1>2, <1>3, Fun_IsBij
    <2> QED BY <2>1 DEF ExistsBijection
<1>5. IsFiniteSet(A) /\ Cardinality(A) = Cardinality(CyclesOf(s, R))
    <2> HIDE DEF A
    <2>1. ExistsBijection(CyclesOf(s, R), A)
        BY <1>4, Fun_ExistsBijSymmetric
    <2> QED BY <2>1, FS_Bijection
<1> QED BY <1>5

LEMMA CountInQueue ==
    ASSUME NEW s, NEW q \in Seq(SensorReading), Ordered(q),
           IsFiniteSet(CyclesOf(s, ToSet(q)))
    PROVE  Cardinality({i \in 1 .. Len(q) : q[i].sensor = s})
             = Cardinality(CyclesOf(s, ToSet(q)))
<1> DEFINE A == {i \in 1 .. Len(q) : q[i].sensor = s}
           B == CyclesOf(s, ToSet(q))
           f == [i \in A |-> q[i].cycle]
<1>1. f \in [A -> B]
    BY CyclesOfFacts, ToSetFacts
<1>2. \A i, j \in A : f[i] = f[j] => i = j
    BY OrderedDistinct
<1>3. ASSUME NEW n \in B
      PROVE  \E i \in A : f[i] = n
    <2>1. PICK x \in ToSet(q) : x.sensor = s /\ x.cycle = n
        BY <1>3, CyclesOfFacts
    <2>2. PICK i \in 1 .. Len(q) : x = q[i]
        BY ToSetFacts
    <2> QED BY <2>1, <2>2
<1>4. ExistsBijection(A, B)
    <2> HIDE DEF A, B, f
    <2>1. f \in Bijection(A, B)
        BY <1>1, <1>2, <1>3, Fun_IsBij
    <2> QED BY <2>1 DEF ExistsBijection
<1>5. IsFiniteSet(A) /\ Cardinality(A) = Cardinality(B)
    <2> HIDE DEF A, B
    <2>1. ExistsBijection(B, A)
        BY <1>4, Fun_ExistsBijSymmetric
    <2>2. IsFiniteSet(B)
        BY DEF B
    <2> QED BY <2>1, <2>2, FS_Bijection
<1> QED BY <1>5

LEMMA ReadingsAreCounted ==
    ASSUME ThreadsTyped, ReadingsInv
    PROVE  CountersMatchLogs
<1> SUFFICES ASSUME NEW s \in SensorType
             PROVE  /\ metrics[s].cycles =
                         Cardinality(Dropped(s))
                           + Cardinality({i \in 1 .. Len(items) : items[i].sensor = s})
                           + Cardinality({r \in delivered : r.sensor = s})
                    /\ metrics[s].dropped = Cardinality(Dropped(s) \ Logged(s))
    BY DEF CountersMatchLogs
<1> DEFINE Q == Queued(s)
           S == Sent(s)
           D == Dropped(s)
           n == Pushed(s)
<1>1. /\ Q \union S \union D = 1 .. n /\ Q \intersect S = {}
      /\ (Q \union S) \intersect D = {}
      /\ metrics[s].cycles = n
      /\ metrics[s].dropped = Cardinality(Dropped(s) \ Logged(s))
    BY DEF ReadingsInv, Balance, Counted
<1>2. n \in Nat
    BY RecordFacts DEF Pushed, ThreadsTyped
<1>0. IsFiniteSet(Q) /\ IsFiniteSet(S) /\ IsFiniteSet(D)
    <2> HIDE DEF Q, S, D, n
    <2>1. Q \subseteq 1 .. n /\ S \subseteq 1 .. n /\ D \subseteq 1 .. n
        BY <1>1
    <2> QED BY <1>2, <2>1, SubsetOfInterval
<1>3. Cardinality({i \in 1 .. Len(items) : items[i].sensor = s}) = Cardinality(Q)
    <2>1. IsFiniteSet(Q)
        BY <1>0
    <2> QED BY <2>1, CountInQueue DEF ReadingsInv, BufferTypeOK, Queued
<1>4. Cardinality({r \in delivered : r.sensor = s}) = Cardinality(S)
    <2>1. \A x, y \in delivered : x.sensor = y.sensor /\ x.cycle = y.cycle => x = y
        BY DEF ReadingsInv, DeliveredOnce
    <2>2. IsFiniteSet(CyclesOf(s, delivered))
        BY <1>0 DEF Sent
    <2> QED BY <2>1, <2>2, CountByCycle DEF Sent
<1> HIDE DEF Q, S, D, n
<1>5. n = Cardinality(D) + Cardinality(Q) + Cardinality(S)
    <2>1. IsFiniteSet(1 .. n) /\ Cardinality(1 .. n) = n
        BY <1>2, FS_Interval
    <2>2. /\ IsFiniteSet(Q \union S)
          /\ Cardinality(Q \union S) = Cardinality(Q) + Cardinality(S)
        BY <1>0, <1>1, DisjointUnion
    <2>3. Cardinality((Q \union S) \union D)
            = Cardinality(Q \union S) + Cardinality(D)
        BY <1>0, <1>1, <2>2, DisjointUnion
    <2>4. Cardinality(Q) \in Nat /\ Cardinality(S) \in Nat /\ Cardinality(D) \in Nat
        BY <1>0, FS_CardinalityType
    <2>5. Cardinality((Q \union S) \union D) = n
        BY <1>1, <2>1
    <2> QED BY <2>2, <2>3, <2>4, <2>5
<1> QED BY <1>1, <1>3, <1>4, <1>5 DEF D

\* CountersMatchLogs holds of the sensor threads with any downlink that only
\* takes readings, and in the whole program.
THEOREM CountersAgree == /\ Spec => []CountersMatchLogs
                         /\ SystemSpec => []CountersMatchLogs
<1>1. CoreInv => CountersMatchLogs
    BY ReadingsAreCounted DEF CoreInv
<1> QED BY <1>1, CoreHolds, SystemCoreHolds, PTL

\* RecoveryIsFinal: a recovery is never overwritten, not even by one that comes
\* out of the same hook while the injector appends to the log.
THEOREM RecoveriesStand == Spec => RecoveryIsFinal
<1>1. ASSUME FaultsTyped, AnyStep
      PROVE  \A i \in 1 .. Len(fault_log) :
               IF fault_log[i].recovered THEN fault_log'[i] = fault_log[i]
                                         ELSE fault_log'[i].id = fault_log[i].id
    <2>1. CASE UNCHANGED fault_log
        BY <2>1
    <2>2. CASE fault_log' = Append(fault_log, injector.event)
        <3>1. fault_log \in Seq(FaultEvent)
            BY <1>1 DEF FaultsTyped
        <3>2. \A i \in 1 .. Len(fault_log) : fault_log'[i] = fault_log[i]
            BY <2>2, <3>1
        <3> QED BY <3>2
    <2>3. ASSUME NEW s, NEW type, NEW i \in Unrecovered(s, type), NEW ms, Marked(i, ms)
          PROVE  \A j \in 1 .. Len(fault_log) :
                   IF fault_log[j].recovered THEN fault_log'[j] = fault_log[j]
                                             ELSE fault_log'[j].id = fault_log[j].id
        BY <2>3 DEF Unrecovered, Marked
    <2> QED BY <1>1, <2>1, <2>2, <2>3, LogSteps
<1>2. CoreInv /\ [Next]_vars =>
        [\A i \in 1 .. Len(fault_log) :
           IF fault_log[i].recovered THEN fault_log'[i] = fault_log[i]
                                     ELSE fault_log'[i].id = fault_log[i].id]_vars
    BY <1>1, NextIsAnyStep DEF CoreInv
<1> QED BY <1>2, CoreHolds, PTL DEF Spec, RecoveryIsFinal

-----------------------------------------------------------------------------
(* main and the downlink.                                                  *)

Verdict == [nominal : BOOLEAN, mission_status : {"", "DEGRADED", "NOMINAL"},
            zero_drops : BOOLEAN, zero_alerts : BOOLEAN, total_dropped : Nat]

MainRecord == [pc : {"join", "report", "log", "end"}, joined : 0 .. 6, alerts : Nat,
               verdict : Verdict]

DownlinkRecord == [pc : {"start", "check", "drain", "sleep", "done", "panicked"},
                   deadline : Nat, popped : 0 .. MaxBatch]

MainTyped == /\ downlink \in DownlinkRecord
             /\ scheduler \in {"running", "done"}
             /\ main \in MainRecord
             /\ IsFiniteSet(dropped_log)

\* The threads joined have ended; main reports after the last join.
JoinsInv == /\ \A k \in 1 .. main.joined : Ended(JoinOrder[k])
            /\ main.pc # "join" => main.joined = 6

LEMMA EndedFacts ==
    /\ \A s \in SensorType : Ended(s) <=> At(s, "done")
    /\ Ended("scheduler") <=> scheduler = "done"
    /\ Ended("downlink") <=> DownlinkEnded
    /\ Ended("injector") <=> InjectorAt("done")
BY DEF Ended, SensorType

LEMMA JoinOrderFacts ==
    /\ Len(JoinOrder) = 6
    /\ \A k \in 1 .. 6 : JoinOrder[k] \in SensorType \union {"scheduler", "downlink", "injector"}
    /\ \A s \in SensorType : \E k \in 1 .. 6 : JoinOrder[k] = s
    /\ JoinOrder[4] = "scheduler" /\ JoinOrder[5] = "downlink" /\ JoinOrder[6] = "injector"
<1>1. JoinOrder[1] = "Thermal" /\ JoinOrder[2] = "Power" /\ JoinOrder[3] = "Attitude"
    BY DEF JoinOrder
<1>2. /\ JoinOrder[4] = "scheduler" /\ JoinOrder[5] = "downlink"
      /\ JoinOrder[6] = "injector" /\ Len(JoinOrder) = 6
    BY DEF JoinOrder
<1>3. SensorType = {"Thermal", "Power", "Attitude"}
    BY DEF SensorType
<1>4. \A k \in 1 .. 6 : k = 1 \/ k = 2 \/ k = 3 \/ k = 4 \/ k = 5 \/ k = 6
    OBVIOUS
<1> QED BY <1>1, <1>2, <1>3, <1>4

\* A thread that has ended takes no further step.
LEMMA EndedIsFinal ==
    ASSUME ThreadsTyped, FaultsTyped, [SystemNext]_systemVars
    PROVE  /\ \A s \in SensorType : At(s, "done") => At(s, "done")'
           /\ InjectorAt("done") => InjectorAt("done")'
           /\ DownlinkEnded => DownlinkEnded'
           /\ scheduler = "done" => scheduler' = "done"
<1>1. CASE SystemTick \/ Main \/ UNCHANGED systemVars
    BY <1>1 DEF SystemTick, Main, systemVars, vars, At, InjectorAt, DownlinkEnded
<1>2. CASE DownlinkThread
    <2>1. ~ DownlinkEnded
        BY <1>2 DEF DownlinkThread, StartDownlink, CheckDownlinkDeadline, DrainOne,
                    EndRound, NextRound, DownlinkAt, DownlinkEnded
    <2> QED BY <1>2, <2>1 DEF DownlinkThread, At, InjectorAt
<1>3. CASE SchedulerThread
    BY <1>3 DEF SchedulerThread, vars, At, InjectorAt, DownlinkEnded
<1>4. CASE InjectorThread
    <2>1. ~ InjectorAt("done")
        BY <1>4 DEF InjectorThread, Injector, InjectorStep, StartInjector, CheckDeadline,
                    SelectFault, RaiseFlag, LogFault, InjectorAt
    <2> QED BY <1>4, <2>1 DEF InjectorThread, Injector, At, DownlinkEnded
<1>5. ASSUME NEW s \in SensorType, SensorThread(s)
      PROVE  /\ \A t \in SensorType : At(t, "done") => At(t, "done")'
             /\ UNCHANGED <<injector, downlink, scheduler>>
    <2>1. SensorStep(s) /\ UNCHANGED <<injector, downlink, scheduler>>
        BY <1>5 DEF SensorThread, Sensor
    <2>2. ~ At(s, "done")
        BY <2>1 DEF SensorStep, StartSensor, BeginCycle, SufferDelay, NoDelay, EndStall,
                    Read, SufferCorruption, NoCorruption, EndCorruption, PushReading, At
    <2>3. \A t \in SensorType : t # s => sensor'[t] = sensor[t]
        BY <2>1, SensorMoves
    <2> QED BY <2>1, <2>2, <2>3 DEF At
<1> QED BY <1>1, <1>2, <1>3, <1>4, <1>5 DEF SystemNext, InjectorAt, DownlinkEnded

LEMMA JoinFacts ==
    ASSUME ThreadsTyped, MainTyped, Join
    PROVE  /\ main' \in MainRecord /\ main.pc = "join" /\ main'.pc = "join"
           /\ main.joined \in 0 .. 5 /\ main'.joined = main.joined + 1
           /\ Ended(JoinOrder[main.joined + 1])
<1> DEFINE t == JoinOrder[main.joined + 1]
<1>1. PICK a : a = IF t \in SensorType THEN metrics[t].alerts ELSE 0
    OBVIOUS
<1>2. main' = [main EXCEPT !.joined = @ + 1, !.alerts = @ + a]
    BY <1>1 DEF Join
<1>3. main \in MainRecord /\ main.joined \in 0 .. 6 /\ main.alerts \in Nat
    BY DEF MainTyped, MainRecord
<1>4. main.pc = "join" /\ main.joined # 6 /\ Ended(t)
    BY JoinOrderFacts DEF Join, AllJoined
<1>5. a \in Nat
    <2>1. t \in SensorType => metrics[t] \in MetricsRecord
        BY DEF ThreadsTyped
    <2> QED BY <1>1, <2>1 DEF MetricsRecord
<1>6. main.joined + 1 \in 0 .. 6 /\ main.alerts + a \in Nat /\ main.joined \in 0 .. 5
    BY <1>3, <1>4, <1>5
<1>7. main' = [main EXCEPT !.joined = main.joined + 1, !.alerts = main.alerts + a]
    BY <1>2
<1>8. main' \in MainRecord /\ main'.pc = main.pc /\ main'.joined = main.joined + 1
    BY <1>3, <1>6, <1>7 DEF MainRecord
<1> QED BY <1>4, <1>6, <1>8

LEMMA ReportFacts ==
    ASSUME MainTyped, FaultsTyped, ReportReadings \/ ReportBenchmark \/ WriteFinalReport
    PROVE  /\ main' \in MainRecord /\ main'.joined = main.joined
           /\ main.pc = "join" => main.joined = 6
           /\ main.pc \in {"join", "report", "log"}
<1>1. main \in MainRecord /\ main.verdict \in Verdict
    BY DEF MainTyped, MainRecord
<1>2. CASE ReportReadings
    <2>1. TotalDropped \in Nat
        BY FS_CardinalityType DEF MainTyped, TotalDropped
    <2>2. PICK v : v = [main.verdict EXCEPT !.total_dropped = TotalDropped]
        OBVIOUS
    <2>3. main' = [main EXCEPT !.pc = "report", !.verdict = v]
        BY <1>1, <1>2, <2>2 DEF ReportReadings, MainRecord
    <2>4. v \in Verdict
        BY <1>1, <2>1, <2>2 DEF Verdict
    <2>5. main.pc = "join" /\ main.joined = 6
        BY <1>2, JoinOrderFacts DEF ReportReadings, AllJoined
    <2>6. main' \in MainRecord /\ main'.joined = main.joined
        BY <1>1, <2>3, <2>4 DEF MainRecord
    <2> QED BY <2>5, <2>6
<1>3. CASE ReportBenchmark
    <2>1. PICK b \in BOOLEAN : b = ~ mission_aborted
        OBVIOUS
    <2>2. PICK v : v = [main.verdict EXCEPT !.nominal = b]
        OBVIOUS
    <2>3. main' = [main EXCEPT !.pc = "log", !.verdict = v]
        BY <1>1, <1>3, <2>1, <2>2 DEF ReportBenchmark, MainRecord
    <2>4. v \in Verdict
        BY <1>1, <2>2 DEF Verdict
    <2>5. main.pc = "report"
        BY <1>3 DEF ReportBenchmark
    <2>6. main' \in MainRecord /\ main'.joined = main.joined
        BY <1>1, <2>3, <2>4 DEF MainRecord
    <2> QED BY <2>5, <2>6
<1>4. CASE WriteFinalReport
    <2>1. PICK st \in {"DEGRADED", "NOMINAL"} :
            st = IF mission_aborted THEN "DEGRADED" ELSE "NOMINAL"
        OBVIOUS
    <2>2. PICK d \in BOOLEAN : d = \A s \in SensorType : metrics[s].dropped = 0
        OBVIOUS
    <2>3. PICK a \in BOOLEAN : a = \A s \in SensorType : metrics[s].alerts = 0
        OBVIOUS
    <2>4. PICK v : v = [main.verdict EXCEPT !.mission_status = st, !.zero_drops = d,
                                            !.zero_alerts = a]
        OBVIOUS
    <2>5. main' = [main EXCEPT !.pc = "end", !.verdict.mission_status = st,
                               !.verdict.zero_drops = d, !.verdict.zero_alerts = a]
        BY <1>4, <2>1, <2>2, <2>3 DEF WriteFinalReport
    <2>6. main' = [main EXCEPT !.pc = "end", !.verdict = v]
        BY <1>1, <2>4, <2>5 DEF MainRecord, Verdict
    <2>7. v \in Verdict
        BY <1>1, <2>4 DEF Verdict
    <2>8. main.pc = "log"
        BY <1>4 DEF WriteFinalReport
    <2>9. main' \in MainRecord /\ main'.joined = main.joined
        BY <1>1, <2>6, <2>7 DEF MainRecord
    <2> QED BY <2>8, <2>9
<1> QED BY <1>2, <1>3, <1>4

LEMMA MainStays ==
    ASSUME [SystemNext]_systemVars
    PROVE  UNCHANGED main \/ Main
BY DEF SystemNext, SystemTick, Main, DownlinkThread, SchedulerThread, InjectorThread,
       SensorThread, systemVars

LEMMA NextKeepsMain ==
    ASSUME ThreadsTyped, FaultsTyped, MainTyped, [SystemNext]_systemVars
    PROVE  MainTyped'
<1>1. main' \in MainRecord
    BY MainStays, JoinFacts, ReportFacts DEF Main, MainTyped
<1>2. scheduler' \in {"running", "done"}
    BY DEF MainTyped, SystemNext, SystemTick, Main, DownlinkThread, SchedulerThread,
           InjectorThread, SensorThread, systemVars
<1>3. downlink' \in DownlinkRecord
    <2>1. /\ downlink \in DownlinkRecord /\ downlink.popped \in 0 .. MaxBatch
          /\ now + RunDuration \in Nat /\ MaxBatch \in Nat /\ 0 \in 0 .. MaxBatch
        BY CampaignAssumption, SystemAssumption DEF MainTyped, DownlinkRecord, FaultsTyped
    <2>2. CASE UNCHANGED downlink
        BY <2>1, <2>2
    <2>3. CASE StartDownlink
        <3>1. \/ downlink' = [downlink EXCEPT !.pc = "check", !.deadline = now + RunDuration]
              \/ downlink' = [downlink EXCEPT !.pc = "panicked"]
            BY <2>3 DEF StartDownlink
        <3> QED BY <2>1, <3>1 DEF DownlinkRecord
    <2>4. CASE CheckDownlinkDeadline
        <3>1. \/ downlink' = [downlink EXCEPT !.pc = "done"]
              \/ downlink' = [downlink EXCEPT !.pc = "drain", !.popped = 0]
            BY <2>4 DEF CheckDownlinkDeadline
        <3> QED BY <2>1, <3>1 DEF DownlinkRecord
    <2>5. CASE DrainOne
        <3>1. downlink' = [downlink EXCEPT !.popped = downlink.popped + 1]
            BY <2>5 DEF DrainOne
        <3>2. downlink.popped + 1 \in 0 .. MaxBatch
            BY <2>1, <2>5 DEF DrainOne
        <3> QED BY <2>1, <3>1, <3>2 DEF DownlinkRecord
    <2>6. CASE EndRound
        <3>1. downlink' = [downlink EXCEPT !.pc = "sleep", !.popped = 0]
            BY <2>6 DEF EndRound
        <3> QED BY <2>1, <3>1 DEF DownlinkRecord
    <2>7. CASE NextRound
        <3>1. downlink' = [downlink EXCEPT !.pc = "check"]
            BY <2>7 DEF NextRound
        <3> QED BY <2>1, <3>1 DEF DownlinkRecord
    <2>8. UNCHANGED downlink \/ DownlinkThread
        BY DEF SystemNext, SystemTick, Main, SchedulerThread, InjectorThread, SensorThread,
               systemVars
    <2> QED BY <2>2, <2>3, <2>4, <2>5, <2>6, <2>7, <2>8 DEF DownlinkThread
<1>4. IsFiniteSet(dropped_log')
    <2>1. UNCHANGED dropped_log \/ \E d : dropped_log' = dropped_log \union {d}
        <3>1. CASE TimePasses \/ Drain \/ Injector \/ UNCHANGED vars
            BY <3>1 DEF TimePasses, Drain, Pop, Injector, vars, bufferVars
        <3>2. ASSUME NEW s \in SensorType, Sensor(s)
              PROVE  UNCHANGED dropped_log \/ \E d : dropped_log' = dropped_log \union {d}
            <4>1. UNCHANGED bufferVars \/ \E r : Push(r)
                BY <3>2 DEF Sensor, SensorStep, StartSensor, BeginCycle, SufferDelay, NoDelay,
                            EndStall, Read, SufferCorruption, NoCorruption, EndCorruption,
                            PushReading
            <4> QED BY <4>1 DEF bufferVars, Push, PushRoom, PushEvict, PushDrop, LogDrop
        <3> QED BY <3>1, <3>2, SystemNextIsAnyStep DEF AnyStep
    <2> QED BY <2>1, FS_AddElement DEF MainTyped
<1> QED BY <1>1, <1>2, <1>3, <1>4 DEF MainTyped

LEMMA NextKeepsJoins ==
    ASSUME ThreadsTyped, FaultsTyped, MainTyped, JoinsInv, [SystemNext]_systemVars
    PROVE  JoinsInv'
<1>1. main.joined \in 0 .. 6
    BY DEF MainTyped, MainRecord
<1>2. /\ \A s \in SensorType : At(s, "done")' => Ended(s)'
      /\ scheduler' = "done" => Ended("scheduler")'
      /\ DownlinkEnded' => Ended("downlink")'
      /\ InjectorAt("done")' => Ended("injector")'
    BY DEF Ended, SensorType
<1>3. ASSUME NEW k \in 1 .. 6, Ended(JoinOrder[k])
      PROVE  Ended(JoinOrder[k])'
    <2> DEFINE t == JoinOrder[k]
    <2>1. t \in SensorType \union {"scheduler", "downlink", "injector"}
        BY JoinOrderFacts
    <2> HIDE DEF t
    <2>2. Ended(t)
        BY <1>3 DEF t
    <2>3. Ended(t)'
        <3>1. CASE t \in SensorType
            BY <1>2, <2>2, <3>1, EndedFacts, EndedIsFinal
        <3>2. CASE t \in {"scheduler", "downlink", "injector"}
            BY <1>2, <2>2, <3>2, EndedFacts, EndedIsFinal
        <3> QED BY <2>1, <3>1, <3>2
    <2> QED BY <2>3 DEF t
<1>4. CASE Join
    <2>1. /\ main.pc = "join" /\ main'.pc = "join" /\ main.joined \in 0 .. 5
          /\ main'.joined = main.joined + 1 /\ Ended(JoinOrder[main.joined + 1])
        BY <1>4, JoinFacts
    <2>2. ASSUME NEW k \in 1 .. main'.joined PROVE Ended(JoinOrder[k])'
        <3>1. k \in 1 .. 6 /\ (k \in 1 .. main.joined \/ k = main.joined + 1)
            BY <2>1
        <3>2. Ended(JoinOrder[k])
            BY <2>1, <3>1 DEF JoinsInv
        <3> QED BY <1>3, <3>1, <3>2
    <2> QED BY <2>1, <2>2 DEF JoinsInv
<1>5. CASE ~ Join
    <2>1. main'.joined = main.joined /\ (main'.pc # "join" => main.joined = 6)
        BY <1>5, MainStays, ReportFacts DEF Main, JoinsInv
    <2>2. ASSUME NEW k \in 1 .. main'.joined PROVE Ended(JoinOrder[k])'
        <3>1. k \in 1 .. 6 /\ Ended(JoinOrder[k])
            BY <1>1, <2>1 DEF JoinsInv
        <3> QED BY <1>3, <3>1
    <2> QED BY <2>1, <2>2 DEF JoinsInv
<1> QED BY <1>4, <1>5

SystemInv == CoreInv /\ MainTyped /\ JoinsInv

LEMMA InitIsSystem == SystemInit => SystemInv
<1> SUFFICES ASSUME SystemInit PROVE SystemInv
    OBVIOUS
<1>1. CoreInv
    BY InitIsCore DEF SystemInit
<1>2. dropped_log = {}
    BY DEF SystemInit, Init, BufferInit
<1>3. main \in MainRecord /\ main.joined = 0 /\ main.pc = "join"
    <2>1. NoVerdict \in Verdict
        BY DEF NoVerdict, Verdict
    <2>2. main = [pc |-> "join", joined |-> 0, alerts |-> 0, verdict |-> NoVerdict]
        BY DEF SystemInit
    <2> QED BY <2>1, <2>2 DEF MainRecord
<1>4. downlink \in DownlinkRecord /\ scheduler = "running"
    BY SystemAssumption DEF SystemInit, DownlinkRecord
<1>5. MainTyped
    BY <1>2, <1>3, <1>4, FS_EmptySet DEF MainTyped
<1>6. JoinsInv
    BY <1>3 DEF JoinsInv
<1> QED BY <1>1, <1>5, <1>6 DEF SystemInv

\* The inductive invariant of the whole program: that of the sensor threads, and
\* that main has joined only what has ended.
THEOREM SystemInvHolds == SystemSpec => []SystemInv
<1>1. SystemInv /\ [SystemNext]_systemVars => SystemInv'
    BY SystemNextIsAnyStep, NextKeepsCore, NextKeepsMain, NextKeepsJoins
       DEF SystemInv, CoreInv
<1> QED BY <1>1, InitIsSystem, PTL DEF SystemSpec

\* SystemTypeOK: every variable of the program has its type throughout.
THEOREM SystemTyped == SystemSpec => []SystemTypeOK
<1>1. SystemInv => SystemTypeOK
    <2> SUFFICES ASSUME SystemInv PROVE SystemTypeOK
        OBVIOUS
    <2>1. ThreadsTyped /\ FaultsTyped /\ BufferTypeOK /\ MainTyped
        BY DEF SystemInv, CoreInv, ReadingsInv
    <2>2. FaultTypeOK
        BY <2>1 DEF FaultTypeOK, FaultsTyped, InjectorRecord, InjectorPc, Fresh
    <2>3. TypeOK
        BY <2>1, <2>2, RecordFacts DEF TypeOK, ThreadsTyped, SensorPc, MetricsRecord
    <2>4. /\ downlink.pc \in {"start", "check", "drain", "sleep", "done", "panicked"}
          /\ downlink.deadline \in Nat /\ downlink.popped \in 0 .. MaxBatch
        BY <2>1 DEF MainTyped, DownlinkRecord
    <2>5. /\ main.pc \in {"join", "report", "log", "end"} /\ main.joined \in 0 .. 6
          /\ main.alerts \in Nat /\ main.verdict \in Verdict
        BY <2>1 DEF MainTyped, MainRecord
    <2> QED BY <2>1, <2>3, <2>4, <2>5, JoinOrderFacts DEF SystemTypeOK, MainTyped, Verdict
<1> QED BY <1>1, SystemInvHolds, PTL

\* While main reports nobody else takes a step: it has joined every thread before,
\* and a thread that has ended does nothing more.
LEMMA ReportsAreFinal ==
    ASSUME SystemInv, [SystemNext]_systemVars, main.pc # "join"
    PROVE  UNCHANGED <<vars, downlink, scheduler>>
<1>1. \A k \in 1 .. 6 : Ended(JoinOrder[k])
    BY DEF SystemInv, JoinsInv
<1>2. /\ \A s \in SensorType : At(s, "done")
      /\ scheduler = "done" /\ DownlinkEnded /\ InjectorAt("done")
    BY <1>1, JoinOrderFacts, EndedFacts
<1>3. ~ SystemTick
    BY DEF SystemTick
<1>4. ~ DownlinkThread
    BY <1>2 DEF DownlinkThread, StartDownlink, CheckDownlinkDeadline, DrainOne,
                EndRound, NextRound, DownlinkAt, DownlinkEnded
<1>5. ~ SchedulerThread
    BY <1>2 DEF SchedulerThread
<1>6. ~ InjectorThread
    BY <1>2 DEF InjectorThread, Injector, InjectorStep, StartInjector, CheckDeadline,
                SelectFault, RaiseFlag, LogFault, InjectorAt
<1>7. ASSUME NEW s \in SensorType PROVE ~ SensorThread(s)
    BY <1>2 DEF SensorThread, Sensor, SensorStep, StartSensor, BeginCycle, SufferDelay,
                NoDelay, EndStall, Read, SufferCorruption, NoCorruption, EndCorruption,
                PushReading, At
<1> QED BY <1>3, <1>4, <1>5, <1>6, <1>7 DEF SystemNext, Main, systemVars
-----------------------------------------------------------------------------
(* Thermal's safety alerts.                                                *)

\* The cycles of the unbroken row of losses that ends with n.
RunOf(D, n) == {m \in 1 .. n : m .. n \subseteq D}

Fourth(D) == {n \in D : Cardinality(RunOf(D, n)) % 4 = 0}

LEMMA RunFacts ==
    ASSUME NEW n \in Nat, NEW D, D \subseteq 1 .. n
    PROVE  /\ RunOf(D, n + 1) = {}
           /\ RunOf(D \union {n + 1}, n + 1) = RunOf(D, n) \union {n + 1}
           /\ \A k \in 1 .. n : IsFiniteSet(RunOf(D, k))
           /\ IsFiniteSet(RunOf(D, n)) /\ n + 1 \notin RunOf(D, n)
<1>1. n + 1 \notin D /\ n + 1 \in Nat
    OBVIOUS
<1>2. RunOf(D, n + 1) = {}
    <2> SUFFICES ASSUME NEW m \in 1 .. n + 1, m .. n + 1 \subseteq D PROVE FALSE
        BY DEF RunOf
    <2>1. n + 1 \in m .. n + 1
        OBVIOUS
    <2> QED BY <1>1, <2>1
<1>3. ASSUME NEW m
      PROVE  m \in RunOf(D \union {n + 1}, n + 1) <=> m \in RunOf(D, n) \union {n + 1}
    <2>1. CASE m = n + 1
        <3>1. m .. n + 1 = {n + 1}
            BY <2>1
        <3> QED BY <2>1, <3>1 DEF RunOf
    <2>2. CASE m \in 1 .. n
        <3>1. m .. n + 1 = (m .. n) \union {n + 1}
            BY <2>2
        <3>2. n + 1 \notin m .. n
            OBVIOUS
        <3>3. m .. n + 1 \subseteq D \union {n + 1} <=> m .. n \subseteq D
            BY <3>1, <3>2
        <3>4. m # n + 1 /\ m \in 1 .. n + 1
            BY <2>2
        <3> QED BY <2>2, <3>3, <3>4 DEF RunOf
    <2>3. CASE m # n + 1 /\ m \notin 1 .. n
        <3>1. m \notin 1 .. n + 1
            BY <2>3
        <3> QED BY <2>3, <3>1 DEF RunOf
    <2> QED BY <2>1, <2>2, <2>3
<1>5. ASSUME NEW k \in Nat, k <= n PROVE IsFiniteSet(RunOf(D, k))
    <2>1. RunOf(D, k) \subseteq 1 .. k
        BY DEF RunOf
    <2> QED BY <2>1, SubsetOfInterval
<1>6. n + 1 \notin RunOf(D, n)
    BY DEF RunOf
<1>7. /\ \A k \in 1 .. n : IsFiniteSet(RunOf(D, k))
      /\ IsFiniteSet(RunOf(D, n))
    BY <1>5
<1>8. RunOf(D \union {n + 1}, n + 1) = RunOf(D, n) \union {n + 1}
    BY <1>3
<1> QED BY <1>2, <1>6, <1>7, <1>8

\* A later loss leaves the earlier rows as they are.
LEMMA RunStays ==
    ASSUME NEW n \in Nat, NEW D, D \subseteq 1 .. n, NEW k \in D
    PROVE  RunOf(D \union {n + 1}, k) = RunOf(D, k)
<1>1. k \in 1 .. n
    OBVIOUS
<1>2. ASSUME NEW m
      PROVE  m .. k \subseteq D \union {n + 1} <=> m .. k \subseteq D
    <2>1. n + 1 \notin m .. k
        BY <1>1
    <2> QED BY <2>1
<1> QED BY <1>2 DEF RunOf

\* The set of the losses that complete a row of four, with one loss more.
LEMMA FourthFacts ==
    ASSUME NEW n \in Nat, NEW D, D \subseteq 1 .. n
    PROVE  LET c == Cardinality(RunOf(D, n)) IN
           /\ c \in Nat
           /\ Cardinality(RunOf(D, n + 1)) = 0
           /\ Cardinality(RunOf(D \union {n + 1}, n + 1)) = c + 1
           /\ Cardinality(Fourth(D)) \in Nat
           /\ Cardinality(Fourth(D \union {n + 1}))
                = Cardinality(Fourth(D)) + IF (c + 1) % 4 = 0 THEN 1 ELSE 0
<1>0. \A k \in D : RunOf(D \union {n + 1}, k) = RunOf(D, k)
    BY RunStays
<1> DEFINE c == Cardinality(RunOf(D, n))
           E == D \union {n + 1}
<1>1. c \in Nat
    BY RunFacts, FS_CardinalityType
<1>2. Cardinality(RunOf(D, n + 1)) = 0
    BY RunFacts, FS_EmptySet
<1>3. Cardinality(RunOf(E, n + 1)) = c + 1
    <2>1. /\ RunOf(E, n + 1) = RunOf(D, n) \union {n + 1}
          /\ IsFiniteSet(RunOf(D, n)) /\ n + 1 \notin RunOf(D, n)
        BY RunFacts
    <2>2. Cardinality(RunOf(D, n) \union {n + 1}) = Cardinality(RunOf(D, n)) + 1
        BY <2>1, FS_AddElement
    <2> QED BY <2>1, <2>2
<1>4. IsFiniteSet(Fourth(D)) /\ Cardinality(Fourth(D)) \in Nat /\ n + 1 \notin Fourth(D)
    <2>1. Fourth(D) \subseteq 1 .. n
        BY DEF Fourth
    <2> QED BY <2>1, SubsetOfInterval
<1>5. ASSUME NEW m
      PROVE  m \in Fourth(E) <=> \/ m \in Fourth(D)
                                 \/ m = n + 1 /\ (c + 1) % 4 = 0
    <2>1. CASE m \in D
        <3>1. m # n + 1 /\ m \in E
            BY <2>1
        <3>3. RunOf(E, m) = RunOf(D, m)
            BY <1>0, <2>1
        <3> HIDE DEF E, c
        <3>4. m \in Fourth(E) <=> Cardinality(RunOf(E, m)) % 4 = 0
            BY <3>1 DEF Fourth
        <3>5. m \in Fourth(D) <=> Cardinality(RunOf(D, m)) % 4 = 0
            BY <2>1 DEF Fourth
        <3> QED BY <3>1, <3>3, <3>4, <3>5
    <2>2. CASE m = n + 1
        <3>1. n + 1 \notin D
            OBVIOUS
        <3> HIDE DEF c
        <3> QED BY <1>3, <2>2, <3>1 DEF Fourth
    <2>3. CASE m \notin E
        BY <2>3 DEF Fourth
    <2> QED BY <2>1, <2>2, <2>3
<1> HIDE DEF c, E
<1>6. Cardinality(Fourth(E)) = Cardinality(Fourth(D)) + IF (c + 1) % 4 = 0 THEN 1 ELSE 0
    <2>1. CASE (c + 1) % 4 = 0
        <3>1. Fourth(E) = Fourth(D) \union {n + 1}
            BY <1>5, <2>1
        <3>2. Cardinality(Fourth(D) \union {n + 1}) = Cardinality(Fourth(D)) + 1
            BY <1>4, FS_AddElement
        <3> QED BY <2>1, <3>1, <3>2
    <2>2. CASE ~ ((c + 1) % 4 = 0)
        <3>1. Fourth(E) = Fourth(D)
            BY <1>5, <2>2
        <3> QED BY <1>4, <2>2, <3>1
    <2> QED BY <2>1, <2>2
<1> QED BY <1>1, <1>2, <1>3, <1>4, <1>6 DEF c, E

\* Thermal's running count of misses is the length, modulo four, of the row of
\* losses that ends with its last push; each completed four raised an alert.
AlertsInv ==
    LET D == Dropped("Thermal") IN
    /\ sensor["Thermal"].miss = Cardinality(RunOf(D, Pushed("Thermal"))) % 4
    /\ metrics["Thermal"].alerts = Cardinality(Fourth(D))
    /\ \A s \in SensorType \ {"Thermal"} : metrics[s].alerts = 0

LEMMA NoPushFacts ==
    ASSUME ThreadsTyped, FaultsTyped, NEW s \in SensorType, SensorStep(s), ~ PushReading(s)
    PROVE  sensor'[s].miss = sensor[s].miss /\ UNCHANGED <<bufferVars, metrics>>
<1>1. UNCHANGED <<bufferVars, metrics>>
    BY DEF SensorStep, StartSensor, BeginCycle, SufferDelay, NoDelay, EndStall, Read,
           SufferCorruption, NoCorruption, EndCorruption
<1>2. sensor'[s].miss = sensor[s].miss
    <2>1. ASSUME NEW p, NEW c, NEW d, NEW w, NEW r, Moves(s, p, c, d, w, sensor[s].miss, r)
          PROVE  sensor'[s].miss = sensor[s].miss
        BY <2>1 DEF Moves
    <2>2. ASSUME NEW from, NEW to, Passes(s, from, to)
          PROVE  sensor'[s].miss = sensor[s].miss
        BY <2>1, <2>2 DEF Passes
    <2>3. CASE StartSensor(s) \/ BeginCycle(s) \/ SufferDelay(s) \/ NoDelay(s) \/ EndStall(s)
        BY <2>1, <2>2, <2>3, SensorSteps
    <2>4. CASE Read(s) \/ SufferCorruption(s) \/ NoCorruption(s) \/ EndCorruption(s)
        BY <2>1, <2>2, <2>4, SensorSteps
    <2> QED BY <2>3, <2>4 DEF SensorStep
<1> QED BY <1>1, <1>2

\* What a push means for the losses of Thermal.
LEMMA ThermalLosses ==
    ASSUME CoreInv, NEW s \in SensorType, PushReading(s)
    PROVE  LET D == Dropped("Thermal")
               n == Pushed("Thermal")
               r == sensor[s].reading
           IN  /\ n \in Nat /\ D \subseteq 1 .. n
               /\ s # "Thermal" => Dropped("Thermal")' = D
               /\ s = "Thermal" /\ Accepts(r) => Dropped("Thermal")' = D
               /\ s = "Thermal" /\ ~ Accepts(r) => Dropped("Thermal")' = D \union {n + 1}
<1> DEFINE D == Dropped("Thermal")
           L == Logged("Thermal")
           n == Pushed("Thermal")
           r == sensor[s].reading
<1>1. /\ ThreadsTyped /\ FaultsTyped /\ ReadingsInv /\ "Thermal" \in SensorType
      /\ BufferTypeOK /\ Ordered(items) /\ items \in Seq(SensorReading)
    BY DEF CoreInv, ReadingsInv, BufferTypeOK, SensorType
<1>2. /\ r \in SensorReading /\ r.sensor = s /\ r.cycle = Pushed(s) + 1
      /\ Pushed(s) \in Nat /\ Push(r)
    BY <1>1, PushedSteps DEF SensorStep, PushReading
<1>3. n \in Nat
    BY <1>1, RecordFacts DEF Pushed, ThreadsTyped
<1>4. D \subseteq 1 .. n /\ L \subseteq 1 .. n
    BY <1>1 DEF ReadingsInv, Balance
<1> HIDE DEF r
<1>5. Newest(items, r)
    <2> SUFFICES ASSUME NEW i \in 1 .. Len(items), items[i].sensor = s
                 PROVE  items[i].cycle < Pushed(s) + 1
        BY <1>2 DEF Newest
    <2>1. items[i].cycle \in Queued(s)
        BY <1>1, ToSetFacts, CyclesOfFacts DEF Queued
    <2>2. Queued(s) \subseteq 1 .. Pushed(s)
        BY <1>1 DEF ReadingsInv, Balance
    <2> QED BY <1>2, <2>1, <2>2
<1>6. Stored(r) \/ (\E w \in ToSet(items) : Exchanged(w, r)) \/ Refused(r)
    BY <1>1, <1>2, <1>5, PushFacts
<1>7. PICK out :
        /\ Dropped("Thermal")' = D \union out
        /\ \/ out = {} /\ Logged("Thermal")' = L \union Just("Thermal", r)
           \/ out = Just("Thermal", r) /\ Logged("Thermal")' = L
    <2>1. \E out : /\ Dropped("Thermal")' = Dropped("Thermal") \union out
                   /\ \/ out = {} /\ Logged("Thermal")'
                                       = Logged("Thermal") \union Just("Thermal", r)
                      \/ /\ out = Just("Thermal", r)
                         /\ Logged("Thermal")' = Logged("Thermal")
        BY <1>1, <1>2, <1>6, PushMoves
    <2> QED BY <2>1
<1>8. /\ Accepts(r) => Logged("Thermal")' = L \union Just("Thermal", r)
      /\ ~ Accepts(r) => Dropped("Thermal")' = D \union Just("Thermal", r)
    BY <1>1, <1>2, PushAnswers
<1>9. /\ s # "Thermal" => Just("Thermal", r) = {}
      /\ s = "Thermal" => Just("Thermal", r) = {n + 1}
    BY <1>2 DEF Just
<1>10. n + 1 \notin L
    BY <1>3, <1>4
<1> HIDE DEF n, D, L
<1>11. s # "Thermal" => Dropped("Thermal")' = D
    BY <1>7, <1>9
<1>12. s = "Thermal" /\ Accepts(r) => Dropped("Thermal")' = D
    BY <1>7, <1>8, <1>9, <1>10
<1>13. s = "Thermal" /\ ~ Accepts(r) => Dropped("Thermal")' = D \union {n + 1}
    BY <1>8, <1>9
<1> QED BY <1>3, <1>4, <1>11, <1>12, <1>13 DEF n, D, r

LEMMA PushKeepsAlerts ==
    ASSUME CoreInv, AlertsInv, NEW s \in SensorType, PushReading(s)
    PROVE  AlertsInv'
<1> DEFINE D == Dropped("Thermal")
           n == Pushed("Thermal")
           r == sensor[s].reading
           c == Cardinality(RunOf(D, n))
<1>1. /\ ThreadsTyped /\ FaultsTyped /\ SensorStep(s) /\ "Thermal" \in SensorType
    BY DEF CoreInv, SensorStep, SensorType
<1>2. /\ n \in Nat /\ D \subseteq 1 .. n
      /\ s # "Thermal" => Dropped("Thermal")' = D
      /\ s = "Thermal" /\ Accepts(r) => Dropped("Thermal")' = D
      /\ s = "Thermal" /\ ~ Accepts(r) => Dropped("Thermal")' = D \union {n + 1}
    BY ThermalLosses
<1>3. /\ \A t \in SensorType : t # s => /\ sensor'[t] = sensor[t]
                                        /\ Pushed(t)' = Pushed(t)
                                        /\ metrics'[t] = metrics[t]
      /\ Pushed(s)' = Pushed(s) + 1
      /\ metrics'[s].alerts = metrics[s].alerts
           + IF ~ Accepts(r) /\ RaisesAlert(s) THEN 1 ELSE 0
    BY <1>1, SensorMoves, PushedSteps, PushCounts
<1>4. sensor'[s].miss = IF Accepts(r) \/ RaisesAlert(s) THEN 0 ELSE sensor[s].miss + 1
    <2>1. PICK m \in Nat :
            /\ m = IF Accepts(sensor[s].reading) \/ RaisesAlert(s) THEN 0
                                                              ELSE sensor[s].miss + 1
            /\ Moves(s, "top", sensor[s].cycle, sensor[s].scheduled + Period[s],
                     sensor[s].wake, m, NoReading(s))
        BY <1>1, SensorSteps
    <2>2. sensor'[s].miss = m
        BY <2>1 DEF Moves
    <2> QED BY <2>1, <2>2
<1>5. /\ c \in Nat
      /\ Cardinality(RunOf(D, n + 1)) = 0
      /\ Cardinality(RunOf(D \union {n + 1}, n + 1)) = c + 1
      /\ Cardinality(Fourth(D)) \in Nat
      /\ Cardinality(Fourth(D \union {n + 1}))
           = Cardinality(Fourth(D)) + IF (c + 1) % 4 = 0 THEN 1 ELSE 0
    BY <1>2, FourthFacts
<1>6. /\ sensor["Thermal"].miss = c % 4
      /\ metrics["Thermal"].alerts = Cardinality(Fourth(D))
      /\ \A t \in SensorType \ {"Thermal"} : metrics[t].alerts = 0
    BY DEF AlertsInv
<1> HIDE DEF D, n, r, c
<1>7. CASE s # "Thermal"
    <2>1. /\ Dropped("Thermal")' = D /\ Pushed("Thermal")' = n
          /\ sensor'["Thermal"] = sensor["Thermal"]
          /\ metrics'["Thermal"] = metrics["Thermal"]
        BY <1>1, <1>2, <1>3, <1>7 DEF n
    <2>2. \A t \in SensorType \ {"Thermal"} : metrics'[t].alerts = 0
        <3>1. metrics[s].alerts = 0 /\ ~ RaisesAlert(s)
            BY <1>6, <1>7 DEF RaisesAlert, IsCritical
        <3>2. metrics'[s].alerts = 0
            BY <1>3, <3>1
        <3> QED BY <1>3, <1>6, <3>2
    <2> QED BY <1>6, <2>1, <2>2 DEF AlertsInv, c
<1>8. CASE s = "Thermal"
    <2>1. \A t \in SensorType \ {"Thermal"} : metrics'[t].alerts = 0
        BY <1>3, <1>6, <1>8
    <2>2. Pushed("Thermal")' = n + 1
        BY <1>3, <1>8 DEF n
    <2>3. CASE Accepts(r)
        <3>1. Dropped("Thermal")' = D
            BY <1>2, <1>8, <2>3
        <3>2. sensor'["Thermal"].miss = 0 /\ 0 % 4 = 0
            BY <1>4, <1>8, <2>3
        <3>3. metrics'["Thermal"].alerts = Cardinality(Fourth(D))
            BY <1>3, <1>5, <1>6, <1>8, <2>3
        <3>4. sensor'["Thermal"].miss = Cardinality(RunOf(D, n + 1)) % 4
            BY <1>5, <3>2
        <3> QED BY <2>1, <2>2, <3>1, <3>3, <3>4 DEF AlertsInv
    <2>4. CASE ~ Accepts(r)
        <3>1. Dropped("Thermal")' = D \union {n + 1}
            BY <1>2, <1>8, <2>4
        <3>2. RaisesAlert(s) <=> (c % 4) + 1 > 3
            BY <1>6, <1>8 DEF RaisesAlert, IsCritical, MissThreshold
        <3>3. /\ (c % 4) + 1 > 3 <=> (c + 1) % 4 = 0
              /\ ~ ((c % 4) + 1 > 3) => (c + 1) % 4 = (c % 4) + 1
            BY <1>5
        <3>4. sensor'["Thermal"].miss = (c + 1) % 4
            BY <1>4, <1>6, <1>8, <2>4, <3>2, <3>3
        <3>5. metrics'["Thermal"].alerts
                = Cardinality(Fourth(D)) + IF (c + 1) % 4 = 0 THEN 1 ELSE 0
            BY <1>3, <1>6, <1>8, <2>4, <3>2, <3>3
        <3>6. /\ sensor'["Thermal"].miss = Cardinality(RunOf(D \union {n + 1}, n + 1)) % 4
              /\ metrics'["Thermal"].alerts = Cardinality(Fourth(D \union {n + 1}))
            BY <1>5, <3>4, <3>5
        <3> QED BY <2>1, <2>2, <3>1, <3>6 DEF AlertsInv
    <2> QED BY <2>3, <2>4
<1> QED BY <1>7, <1>8

LEMMA NextKeepsAlerts ==
    ASSUME CoreInv, AlertsInv, AnyStep
    PROVE  AlertsInv'
<1>1. ThreadsTyped /\ FaultsTyped /\ "Thermal" \in SensorType
    BY DEF CoreInv, SensorType
<1>2. ASSUME dropped_log' = dropped_log, metrics' = metrics,
             sensor'["Thermal"].miss = sensor["Thermal"].miss,
             Pushed("Thermal")' = Pushed("Thermal")
      PROVE  AlertsInv'
    <2>1. Dropped("Thermal")' = Dropped("Thermal")
        BY <1>2 DEF Dropped
    <2> QED BY <1>2, <2>1 DEF AlertsInv
<1>3. CASE TimePasses \/ Drain \/ Injector \/ UNCHANGED vars
    <2>1. dropped_log' = dropped_log /\ metrics' = metrics /\ sensor' = sensor
        BY <1>3 DEF TimePasses, Drain, Pop, Injector, vars, bufferVars
    <2> QED BY <1>2, <2>1 DEF Pushed, InCycle
<1>4. ASSUME NEW s \in SensorType, Sensor(s) PROVE AlertsInv'
    <2>1. CASE PushReading(s)
        BY <2>1, PushKeepsAlerts
    <2>2. CASE ~ PushReading(s)
        <3>1. SensorStep(s)
            BY <1>4 DEF Sensor
        <3>2. sensor'[s].miss = sensor[s].miss /\ UNCHANGED <<bufferVars, metrics>>
            BY <1>1, <2>2, <3>1, NoPushFacts
        <3>3. /\ \A t \in SensorType : t # s => sensor'[t] = sensor[t]
              /\ \A t \in SensorType : Pushed(t)' = Pushed(t)
            BY <1>1, <2>2, <3>1, SensorMoves, PushedSteps
        <3> QED BY <1>1, <1>2, <3>2, <3>3 DEF bufferVars
    <2> QED BY <2>1, <2>2
<1> QED BY <1>3, <1>4 DEF AnyStep

LEMMA InitIsAlerts == Init => AlertsInv
<1> SUFFICES ASSUME Init PROVE AlertsInv
    OBVIOUS
<1>1. \A s \in SensorType : metrics[s].alerts = 0 /\ sensor[s].miss = 0
    BY DEF Init
<1>2. Dropped("Thermal") = {} /\ "Thermal" \in SensorType
    BY DEF Init, BufferInit, Dropped, CyclesOf, SensorType
<1>3. Pushed("Thermal") = 0
    BY <1>2 DEF Init, Pushed, InCycle
<1>4. RunOf({}, 0) = {} /\ Fourth({}) = {}
    BY DEF RunOf, Fourth
<1>5. Cardinality({}) = 0 /\ 0 % 4 = 0
    BY FS_EmptySet
<1> QED BY <1>1, <1>2, <1>3, <1>4, <1>5 DEF AlertsInv

\* AlertsMatchLosses: whatever the interleaving, the alerts are those that the
\* buffer's own record of its drops calls for.
THEOREM AlertsAreEarned == Spec => []AlertsMatchLosses
<1>1. CoreInv /\ AlertsInv => AlertsMatchLosses
    <2> SUFFICES ASSUME AlertsInv, NEW s \in SensorType
                 PROVE  metrics[s].alerts =
                          IF IsCritical(s)
                          THEN Cardinality({n \in Dropped(s) :
                                 MissesUpTo(s, n) % (MissThreshold + 1) = 0})
                          ELSE 0
        BY DEF AlertsMatchLosses
    <2>1. CASE s # "Thermal"
        BY <2>1 DEF AlertsInv, IsCritical
    <2>2. CASE s = "Thermal"
        <3>1. MissThreshold + 1 = 4 /\ IsCritical(s)
            BY <2>2 DEF MissThreshold, IsCritical
        <3>2. {n \in Dropped(s) : MissesUpTo(s, n) % 4 = 0} = Fourth(Dropped(s))
            BY DEF MissesUpTo, Fourth, RunOf
        <3> QED BY <2>2, <3>1, <3>2 DEF AlertsInv
    <2> QED BY <2>1, <2>2
<1>2. CoreInv /\ AlertsInv /\ [Next]_vars => AlertsInv'
    BY NextIsAnyStep, NextKeepsAlerts
<1> QED BY <1>1, <1>2, InitIsAlerts, CoreHolds, PTL DEF Spec

-----------------------------------------------------------------------------
(* The fault campaign.  The program runs for at most five fault intervals  *)
(* (main.rs:36, a4_benchmark.rs:59: 300 s and 60 s), and so goes through   *)
(* the schedule of four faults once.                                       *)

\* The fault i of the schedule has been raised: its flag is up, or was.
Raised(i) == /\ i \in 1 .. fault_count
             /\ InjectorAt("raise") => i # fault_count

RaisedFor(s, type) ==
    \E i \in 1 .. 4 : /\ Raised(i)
                      /\ FaultSchedule[i].fault_type = type
                      /\ FaultSchedule[i].target = s

IsFault(e, i) == /\ e.fault_type = FaultSchedule[i].fault_type
                 /\ e.target = FaultSchedule[i].target

\* The campaign goes through the schedule at most once, in its order.
CampaignInv ==
    LET n == Len(fault_log) IN
    /\ fault_count <= 4
    /\ fault_count = n + IF injector.pc \in {"raise", "log"} THEN 1 ELSE 0
    /\ injector.pc = "start" => n = 0
    /\ injector.pc # "start" =>
         injector.next_fault + RunDuration = injector.deadline + FaultInterval * (n + 1)
    /\ \A i \in 1 .. n : IsFault(fault_log[i], i)
    /\ injector.pc \in {"raise", "log"} => IsFault(injector.event, fault_count)

IsDelayOf(e, s) == e.fault_type = "DelayedSensor" /\ e.target = s

\* A stall began after the fault that it is for was made up.
StallInv ==
    /\ \A s \in SensorType :
         /\ s \in delay_flags \/ At(s, "stalled") => RaisedFor(s, "DelayedSensor")
         /\ At(s, "stalled") =>
              /\ \A i \in 1 .. Len(fault_log) :
                   IsDelayOf(fault_log[i], s)
                     => fault_log[i].injected_at + Stall <= sensor[s].wake
              /\ InjectorAt("log") /\ IsDelayOf(injector.event, s)
                   => injector.event.injected_at + Stall <= sensor[s].wake
    /\ \A i \in 1 .. Len(fault_log) :
         fault_log[i].recovered /\ fault_log[i].fault_type = "DelayedSensor"
           => fault_log[i].recovery_ms >= Stall

\* The verdict follows the log.
VerdictInv ==
    /\ mission_aborted <=> \E i \in 1 .. Len(fault_log) :
                             fault_log[i].recovered /\ Late(fault_log[i].recovery_ms)
    /\ \A i \in 1 .. Len(fault_log) : fault_log[i].aborted => fault_log[i].recovered

IsNan(r, s) == r.sensor = s /\ r.value = "nan"

InHand(s) == \/ At(s, "corrupted")
             \/ At(s, "push") /\ sensor[s].reading.value = "nan"

Emitted(s) == \E r \in ToSet(items) \union delivered : IsNan(r, s)

\* The corruption fault of s is in one place: its flag is up, or the sensor has it
\* in hand, or the NaN is in the buffer or sent; unless the buffer has dropped it.
NanInv ==
    \A s \in SensorType :
        /\ At(s, "corrupt") => sensor[s].reading.value = "number"
        /\ ~ (s \in corrupt_flags /\ InHand(s)) /\ ~ (s \in corrupt_flags /\ Emitted(s))
        /\ ~ (InHand(s) /\ Emitted(s))
        /\ \A q, r \in ToSet(items) \union delivered :
             IsNan(q, s) /\ IsNan(r, s) => q = r
        /\ s \in corrupt_flags \/ InHand(s) \/ Emitted(s) => RaisedFor(s, "CorruptedData")
        /\ RaisedFor(s, "CorruptedData") /\ Dropped(s) = {}
             => s \in corrupt_flags \/ InHand(s) \/ Emitted(s)

LEMMA ScheduleFacts ==
    /\ \A i \in 1 .. 4 : /\ FaultSchedule[i].fault_type \in FaultType
                         /\ FaultSchedule[i].target \in SensorType
    /\ \A i, j \in 1 .. 4 :
         /\ FaultSchedule[i].fault_type = FaultSchedule[j].fault_type
         /\ FaultSchedule[i].target = FaultSchedule[j].target
         => i = j
<1>1. /\ FaultSchedule[1] = [fault_type |-> "DelayedSensor", target |-> "Thermal"]
      /\ FaultSchedule[2] = [fault_type |-> "CorruptedData", target |-> "Power"]
      /\ FaultSchedule[3] = [fault_type |-> "DelayedSensor", target |-> "Attitude"]
      /\ FaultSchedule[4] = [fault_type |-> "CorruptedData", target |-> "Thermal"]
    BY DEF FaultSchedule
<1>2. \A i \in 1 .. 4 : i = 1 \/ i = 2 \/ i = 3 \/ i = 4
    OBVIOUS
<1> QED BY <1>1, <1>2 DEF FaultType, SensorType

\* A sensor thread takes flags and marks recoveries; it raises and logs nothing.
LEMMA SensorLog ==
    ASSUME FaultsTyped, NEW s \in SensorType, Sensor(s)
    PROVE  /\ UNCHANGED <<injector, fault_count, now>>
           /\ Len(fault_log') = Len(fault_log)
           /\ \A i \in 1 .. Len(fault_log) :
                /\ fault_log'[i].fault_type = fault_log[i].fault_type
                /\ fault_log'[i].target = fault_log[i].target
                /\ fault_log'[i].injected_at = fault_log[i].injected_at
<1>1. SensorStep(s) /\ UNCHANGED <<injector, now>>
    BY DEF Sensor
<1>2. CASE UNCHANGED faultVars \/ TakeDelay(s) \/ TakeCorrupt(s)
    BY <1>1, <1>2 DEF faultVars, TakeDelay, TakeCorrupt
<1>3. ASSUME NEW type, Recover(s, type)
      PROVE  /\ UNCHANGED fault_count
             /\ Len(fault_log') = Len(fault_log)
             /\ \A i \in 1 .. Len(fault_log) :
                  /\ fault_log'[i].fault_type = fault_log[i].fault_type
                  /\ fault_log'[i].target = fault_log[i].target
                  /\ fault_log'[i].injected_at = fault_log[i].injected_at
    <2>1. CASE UNCHANGED faultVars
        BY <2>1 DEF faultVars
    <2>2. ASSUME NEW i \in 1 .. Len(fault_log), NEW ms, Marked(i, ms), UNCHANGED fault_count
          PROVE  /\ UNCHANGED fault_count
                 /\ Len(fault_log') = Len(fault_log)
                 /\ \A j \in 1 .. Len(fault_log) :
                      /\ fault_log'[j].fault_type = fault_log[j].fault_type
                      /\ fault_log'[j].target = fault_log[j].target
                      /\ fault_log'[j].injected_at = fault_log[j].injected_at
        BY <2>2 DEF Marked
    <2> QED BY <1>3, <2>1, <2>2, RecoverFacts
<1> QED BY <1>1, <1>2, <1>3, SensorFaults

\* Five intervals fit into any larger number of them.
LEMMA FiveIntervals ==
    ASSUME NEW i \in Nat, NEW n \in Nat, n >= 5
    PROVE  i * n >= 5 * i
<1>1. n - 5 \in Nat
    OBVIOUS
<1>2. PICK k \in Nat : n = 5 + k
    BY <1>1
<1>3. i * k \in Nat
    OBVIOUS
<1>4. i * (5 + k) = 5 * i + i * k
    OBVIOUS
<1> QED BY <1>2, <1>3, <1>4

\* The log after LogFault.
LEMMA LogGrows ==
    ASSUME FaultsTyped, LogFault
    PROVE  /\ Len(fault_log) \in Nat /\ Len(fault_log') = Len(fault_log) + 1
           /\ \A i \in 1 .. Len(fault_log) : fault_log'[i] = fault_log[i]
           /\ fault_log'[Len(fault_log) + 1] = injector.event
           /\ 1 .. Len(fault_log') = (1 .. Len(fault_log)) \union {Len(fault_log) + 1}
           /\ Fresh(injector.event)
<1>1. fault_log \in Seq(FaultEvent) /\ Fresh(injector.event)
    BY InjectorSteps DEF FaultsTyped
<1>2. fault_log' = Append(fault_log, injector.event) /\ injector.event \in FaultEvent
    BY <1>1 DEF LogFault, Fresh
<1>3. /\ Len(fault_log) \in Nat /\ Len(fault_log') = Len(fault_log) + 1
      /\ \A i \in 1 .. Len(fault_log) : fault_log'[i] = fault_log[i]
      /\ fault_log'[Len(fault_log) + 1] = injector.event
    BY <1>1, <1>2, AppendProperties
<1>4. 1 .. Len(fault_log') = (1 .. Len(fault_log)) \union {Len(fault_log) + 1}
    BY <1>3
<1> QED BY <1>1, <1>3, <1>4

LEMMA NextKeepsCampaign ==
    ASSUME RunDuration <= 5 * FaultInterval, FaultsTyped, CampaignInv, AnyStep
    PROVE  CampaignInv'
<1> DEFINE n == Len(fault_log)
<1>1. /\ n \in Nat /\ fault_count \in Nat /\ now \in Nat
      /\ injector \in InjectorRecord /\ injector.deadline \in Nat /\ injector.next_fault \in Nat
      /\ FaultInterval \in Nat /\ FaultInterval > 0 /\ RunDuration \in Nat
    BY CampaignAssumption DEF FaultsTyped, InjectorRecord
<1>2. CASE UNCHANGED <<fault_log, fault_count, injector>>
    BY <1>2 DEF CampaignInv, IsFault
<1>3. ASSUME NEW s \in SensorType, Sensor(s) PROVE CampaignInv'
    <2>1. /\ UNCHANGED <<injector, fault_count>> /\ Len(fault_log') = n
          /\ \A i \in 1 .. n : fault_log'[i].fault_type = fault_log[i].fault_type
                               /\ fault_log'[i].target = fault_log[i].target
        BY <1>3, SensorLog
    <2> QED BY <2>1 DEF CampaignInv, IsFault
<1>4. CASE Injector
    <2>1. CASE StartInjector
        <3>1. /\ injector.pc = "start" /\ UNCHANGED <<fault_log, fault_count>>
              /\ injector'.pc = "check" /\ injector'.deadline = now + RunDuration
              /\ injector'.next_fault = now + FaultInterval
            BY <2>1, InjectorSteps DEF NextInjector, faultVars
        <3>2. fault_count = n /\ n = 0 /\ \A i \in 1 .. n : IsFault(fault_log[i], i)
            BY <3>1 DEF CampaignInv
        <3>3. injector'.next_fault + RunDuration = injector'.deadline + FaultInterval * (n + 1)
            BY <1>1, <3>1, <3>2
        <3> QED BY <3>1, <3>2, <3>3 DEF CampaignInv, IsFault
    <2>2. CASE CheckDeadline
        <3>1. /\ injector.pc = "check" /\ UNCHANGED <<fault_log, fault_count>>
              /\ injector'.pc \in {"wait", "done"} /\ injector'.deadline = injector.deadline
              /\ injector'.next_fault = injector.next_fault
            BY <2>2, InjectorSteps DEF NextInjector, faultVars
        <3> QED BY <3>1 DEF CampaignInv, IsFault
    <2>3. CASE SelectFault
        <3>1. /\ injector.pc = "wait" /\ now >= injector.next_fault /\ UNCHANGED fault_log
              /\ fault_count = n /\ fault_count <= 4
              /\ injector.next_fault + RunDuration
                   = injector.deadline + FaultInterval * (n + 1)
              /\ \A i \in 1 .. n : IsFault(fault_log[i], i)
            BY <2>3, InjectorSteps DEF CampaignInv
        <3>2. CASE /\ NextInjector("done", injector.deadline, injector.next_fault,
                                   injector.event)
                   /\ UNCHANGED fault_count
            BY <3>1, <3>2 DEF CampaignInv, IsFault, NextInjector
        <3>3. ASSUME NEW e \in FaultEvent, now < injector.deadline,
                     e = NewEvent(FaultSchedule[(fault_count % 4) + 1]),
                     fault_count' = fault_count + 1,
                     NextInjector("raise", injector.deadline, injector.next_fault, e)
              PROVE  CampaignInv'
            <4>1. n < 4
                <5>1. FaultInterval * (n + 1) < 5 * FaultInterval
                    BY <1>1, <3>1, <3>3
                <5>2. CASE n >= 4
                    <6>1. n + 1 \in Nat /\ n + 1 >= 5 /\ FaultInterval \in Nat
                        BY <1>1, <5>2
                    <6>2. FaultInterval * (n + 1) >= 5 * FaultInterval
                        BY <6>1, FiveIntervals
                    <6>3. PICK p \in Nat : p = FaultInterval * (n + 1)
                        BY <6>1
                    <6> QED BY <5>1, <6>1, <6>2, <6>3
                <5> QED BY <1>1, <5>2
            <4>2. (fault_count % 4) + 1 = n + 1
                <5>1. fault_count = n /\ n \in Nat
                    BY <1>1, <3>1
                <5>2. n \in 0 .. 3
                    BY <4>1, <5>1
                <5>3. \A k \in 0 .. 3 : k % 4 = k
                    OBVIOUS
                <5> QED BY <5>1, <5>2, <5>3
            <4>3. IsFault(e, n + 1)
                BY <3>3, <4>2 DEF NewEvent, IsFault
            <4>4. /\ injector'.pc = "raise" /\ injector'.event = e
                  /\ injector'.deadline = injector.deadline
                  /\ injector'.next_fault = injector.next_fault
                BY <3>3 DEF NextInjector
            <4>5. fault_count' = n + 1 /\ n + 1 <= 4
                BY <1>1, <3>1, <3>3, <4>1
            <4> QED BY <3>1, <4>3, <4>4, <4>5 DEF CampaignInv, IsFault
        <3> QED BY <2>3, <3>2, <3>3, InjectorSteps
    <2>4. CASE RaiseFlag
        <3>1. /\ injector.pc = "raise" /\ UNCHANGED <<fault_log, fault_count>>
              /\ injector'.pc = "log" /\ injector'.deadline = injector.deadline
              /\ injector'.next_fault = injector.next_fault
              /\ injector'.event = injector.event
            BY <2>4, InjectorSteps DEF NextInjector
        <3> QED BY <3>1 DEF CampaignInv, IsFault
    <2>5. CASE LogFault
        <3>1. /\ injector.pc = "log" /\ UNCHANGED fault_count
              /\ injector'.pc = "check" /\ injector'.deadline = injector.deadline
              /\ injector'.next_fault = injector.next_fault + FaultInterval
            BY <2>5, InjectorSteps DEF NextInjector
        <3>2. /\ Len(fault_log') = n + 1 /\ fault_log'[n + 1] = injector.event
              /\ \A i \in 1 .. n : fault_log'[i] = fault_log[i]
              /\ 1 .. Len(fault_log') = (1 .. n) \union {n + 1}
            BY <2>5, LogGrows
        <3>3. /\ fault_count <= 4 /\ fault_count = n + 1
              /\ injector.next_fault + RunDuration
                   = injector.deadline + FaultInterval * (n + 1)
              /\ \A i \in 1 .. n : IsFault(fault_log[i], i)
              /\ IsFault(injector.event, n + 1)
            BY <3>1 DEF CampaignInv
        <3>4. /\ FaultInterval * ((n + 1) + 1) = FaultInterval * (n + 1) + FaultInterval
              /\ FaultInterval * (n + 1) \in Nat
            BY <1>1
        <3>5. injector'.next_fault + RunDuration
                = injector'.deadline + FaultInterval * ((n + 1) + 1)
            <4>1. PICK p \in Nat : p = FaultInterval * (n + 1)
                BY <3>4
            <4>2. injector.next_fault + RunDuration = injector.deadline + p
                BY <3>3, <4>1
            <4>3. (injector.next_fault + FaultInterval) + RunDuration
                    = injector.deadline + (p + FaultInterval)
                <5> DEFINE f == injector.next_fault
                           g == injector.deadline
                <5>1. f \in Nat /\ g \in Nat /\ f + RunDuration = g + p
                    BY <1>1, <4>2
                <5> HIDE DEF f, g
                <5>2. (f + FaultInterval) + RunDuration = g + (p + FaultInterval)
                    BY <1>1, <5>1
                <5> QED BY <5>2 DEF f, g
            <4>4. FaultInterval * ((n + 1) + 1) = p + FaultInterval
                BY <3>4, <4>1
            <4> QED BY <3>1, <4>3, <4>4
        <3>6. \A i \in 1 .. Len(fault_log') : IsFault(fault_log'[i], i)
            BY <3>2, <3>3
        <3> QED BY <3>1, <3>2, <3>3, <3>5, <3>6 DEF CampaignInv, IsFault
    <2> QED BY <1>4, <2>1, <2>2, <2>3, <2>4, <2>5 DEF Injector, InjectorStep
<1>5. CASE TimePasses \/ Drain \/ UNCHANGED vars
    BY <1>2, <1>5 DEF TimePasses, Drain, vars, faultVars
<1> QED BY <1>3, <1>4, <1>5 DEF AnyStep

LEMMA NextKeepsVerdict ==
    ASSUME FaultsTyped, VerdictInv, AnyStep
    PROVE  VerdictInv'
<1>1. CASE UNCHANGED <<fault_log, mission_aborted>>
    BY <1>1 DEF VerdictInv, Late
<1>2. CASE LogFault /\ UNCHANGED mission_aborted
    <2>1. /\ \A i \in 1 .. Len(fault_log) : fault_log'[i] = fault_log[i]
          /\ fault_log'[Len(fault_log) + 1] = injector.event
          /\ 1 .. Len(fault_log') = (1 .. Len(fault_log)) \union {Len(fault_log) + 1}
          /\ ~ injector.event.recovered /\ ~ injector.event.aborted
        BY <1>2, LogGrows DEF Fresh
    <2> QED BY <1>2, <2>1 DEF VerdictInv, Late
<1>3. ASSUME NEW s, NEW type, NEW i \in Unrecovered(s, type), i \in 1 .. Len(fault_log),
             NEW ms, Marked(i, ms), mission_aborted' <=> mission_aborted \/ Late(ms)
      PROVE  VerdictInv'
    <2>1. /\ Len(fault_log') = Len(fault_log) /\ ~ fault_log[i].recovered
          /\ fault_log'[i].recovered /\ fault_log'[i].recovery_ms = ms
          /\ \A j \in 1 .. Len(fault_log) : j # i => fault_log'[j] = fault_log[j]
        BY <1>3 DEF Marked, Unrecovered
    <2>2. mission_aborted' <=> \E j \in 1 .. Len(fault_log') :
                                 fault_log'[j].recovered /\ Late(fault_log'[j].recovery_ms)
        <3>1. (\E j \in 1 .. Len(fault_log') :
                 fault_log'[j].recovered /\ Late(fault_log'[j].recovery_ms))
              <=> \/ Late(ms)
                  \/ \E j \in 1 .. Len(fault_log) :
                       fault_log[j].recovered /\ Late(fault_log[j].recovery_ms)
            BY <1>3, <2>1
        <3> QED BY <1>3, <3>1 DEF VerdictInv
    <2>3. \A j \in 1 .. Len(fault_log') : fault_log'[j].aborted => fault_log'[j].recovered
        BY <2>1 DEF VerdictInv
    <2> QED BY <2>2, <2>3 DEF VerdictInv, Late
<1> QED BY <1>1, <1>2, <1>3, LogSteps

\* A fault counts as raised from RaiseFlag on.
LEMMA RaisedSteps ==
    ASSUME FaultsTyped, CampaignInv, AnyStep, NEW s, NEW type
    PROVE  RaisedFor(s, type)' <=>
             \/ RaisedFor(s, type)
             \/ /\ Injector /\ RaiseFlag
                /\ injector.event.fault_type = type /\ injector.event.target = s
<1>1. fault_count \in Nat /\ fault_count <= 4
    BY DEF FaultsTyped, CampaignInv
<1>2. ASSUME \A i \in 1 .. 4 : Raised(i)' <=> Raised(i)
      PROVE  RaisedFor(s, type)' <=> RaisedFor(s, type)
    BY <1>2 DEF RaisedFor
<1>3. CASE ~ Injector
    <2>1. UNCHANGED <<injector, fault_count>>
        BY <1>3, SensorLog DEF AnyStep, TimePasses, Drain, vars, faultVars
    <2> QED BY <1>2, <1>3, <2>1 DEF Raised, InjectorAt
<1>4. CASE Injector /\ ~ RaiseFlag
    <2>1. \A i \in 1 .. 4 : Raised(i)' <=> Raised(i)
        <3>1. CASE StartInjector \/ CheckDeadline \/ LogFault
            <4>1. /\ injector.pc # "raise" /\ injector'.pc # "raise"
                  /\ fault_count' = fault_count
                BY <3>1, InjectorSteps DEF NextInjector, faultVars
            <4> QED BY <4>1 DEF Raised, InjectorAt
        <3>2. CASE SelectFault
            <4>1. /\ injector.pc = "wait"
                  /\ \/ injector'.pc = "done" /\ fault_count' = fault_count
                     \/ injector'.pc = "raise" /\ fault_count' = fault_count + 1
                BY <3>2, InjectorSteps DEF NextInjector
            <4> QED BY <1>1, <4>1 DEF Raised, InjectorAt
        <3> QED BY <1>4, <3>1, <3>2 DEF Injector, InjectorStep
    <2> QED BY <1>2, <1>4, <2>1
<1>5. CASE Injector /\ RaiseFlag
    <2> DEFINE e == injector.event
    <2>1. /\ injector.pc = "raise" /\ injector'.pc = "log" /\ fault_count' = fault_count
        BY <1>5, InjectorSteps DEF NextInjector
    <2>2. fault_count \in 1 .. 4 /\ IsFault(e, fault_count)
        <3>1. Len(fault_log) \in Nat
            BY DEF FaultsTyped
        <3>2. fault_count = Len(fault_log) + 1 /\ IsFault(e, fault_count)
            BY <2>1 DEF CampaignInv
        <3> QED BY <1>1, <3>1, <3>2
    <2>3. \A i \in 1 .. 4 : Raised(i)' <=> Raised(i) \/ i = fault_count
        BY <1>1, <2>1, <2>2 DEF Raised, InjectorAt
    <2>4. RaisedFor(s, type)' <=> \/ RaisedFor(s, type)
                                  \/ /\ FaultSchedule[fault_count].fault_type = type
                                     /\ FaultSchedule[fault_count].target = s
        BY <2>2, <2>3 DEF RaisedFor
    <2> QED BY <1>5, <2>2, <2>4 DEF IsFault
<1> QED BY <1>3, <1>4, <1>5

LEMMA RaisedOnce ==
    ASSUME FaultsTyped, CampaignInv, RaiseFlag
    PROVE  ~ RaisedFor(injector.event.target, injector.event.fault_type)
<1>1. injector.pc = "raise" /\ Len(fault_log) \in Nat
    BY InjectorSteps DEF FaultsTyped
<1>2. fault_count \in 1 .. 4 /\ IsFault(injector.event, fault_count)
    BY <1>1 DEF CampaignInv
<1>3. ASSUME NEW i \in 1 .. 4, Raised(i), IsFault(injector.event, i) PROVE FALSE
    <2>1. i = fault_count
        BY <1>2, <1>3, ScheduleFacts DEF IsFault
    <2> QED BY <1>1, <1>3, <2>1 DEF Raised, InjectorAt
<1> QED BY <1>3 DEF RaisedFor, IsFault

\* What a sensor thread does that StallInv speaks of.
LEMMA StallSteps ==
    ASSUME ThreadsTyped, FaultsTyped, NEW s \in SensorType, Sensor(s)
    PROVE  /\ delay_flags' \subseteq delay_flags
           /\ \A t \in SensorType : t # s => sensor'[t] = sensor[t]
           /\ At(s, "stalled")' => /\ SufferDelay(s) /\ s \in delay_flags
                                   /\ sensor'[s].wake = now + Stall
<1>1. SensorStep(s)
    BY DEF Sensor
<1>2. delay_flags' \subseteq delay_flags
    BY <1>1, SensorFaults DEF faultVars, TakeDelay, TakeCorrupt, Recover
<1>3. \A t \in SensorType : t # s => sensor'[t] = sensor[t]
    BY <1>1, SensorMoves
<1>4. SufferDelay(s) => s \in delay_flags /\ sensor'[s].wake = now + Stall
    BY SensorSteps DEF SufferDelay, Moves
<1>5. ASSUME ~ SufferDelay(s) PROVE sensor'[s].pc # "stalled"
    <2>1. CASE StartSensor(s) \/ BeginCycle(s) \/ NoDelay(s) \/ EndStall(s) \/ Read(s)
        BY <2>1, SensorSteps DEF Moves, Passes
    <2>2. CASE \/ SufferCorruption(s) \/ NoCorruption(s) \/ EndCorruption(s)
               \/ PushReading(s)
        BY <2>2, SensorSteps DEF Moves, Passes
    <2> QED BY <1>1, <1>5, <2>1, <2>2 DEF SensorStep
<1> QED BY <1>2, <1>3, <1>4, <1>5 DEF At

\* A delay fault is recovered by the thread that has just slept through the stall.
LEMMA RecoveryIsSlow ==
    ASSUME ThreadsTyped, FaultsTyped, StallInv, NEW s \in SensorType, Sensor(s)
    PROVE  \A i \in 1 .. Len(fault_log) :
             fault_log'[i].recovered /\ fault_log[i].fault_type = "DelayedSensor"
               => fault_log'[i].recovery_ms >= Stall
<1>1. SensorStep(s) /\ now \in Nat
    BY DEF Sensor, FaultsTyped
<1>2. CASE UNCHANGED fault_log
    BY <1>2 DEF StallInv
<1>3. ASSUME EndStall(s), NEW i \in Unrecovered(s, "DelayedSensor"), i \in 1 .. Len(fault_log),
             Marked(i, now - fault_log[i].injected_at)
      PROVE  \A j \in 1 .. Len(fault_log) :
               fault_log'[j].recovered /\ fault_log[j].fault_type = "DelayedSensor"
                 => fault_log'[j].recovery_ms >= Stall
    <2>1. At(s, "stalled") /\ now >= sensor[s].wake /\ sensor[s].wake \in Nat
        BY <1>3, RecordFacts DEF EndStall
    <2>2. /\ IsDelayOf(fault_log[i], s) /\ fault_log[i].injected_at \in Nat
        BY <1>3, LogElement DEF Unrecovered, IsDelayOf
    <2>3. fault_log[i].injected_at + Stall <= sensor[s].wake
        BY <1>3, <2>1, <2>2 DEF StallInv
    <2>4. now - fault_log[i].injected_at >= Stall
        BY <1>1, <2>1, <2>2, <2>3 DEF Stall
    <2>5. /\ fault_log'[i].recovery_ms = now - fault_log[i].injected_at
          /\ \A j \in 1 .. Len(fault_log) : j # i => fault_log'[j] = fault_log[j]
        BY <1>3 DEF Marked
    <2> QED BY <2>4, <2>5 DEF StallInv
<1>4. ASSUME NEW i \in Unrecovered(s, "CorruptedData"), i \in 1 .. Len(fault_log), NEW ms,
             Marked(i, ms)
      PROVE  \A j \in 1 .. Len(fault_log) :
               fault_log'[j].recovered /\ fault_log[j].fault_type = "DelayedSensor"
                 => fault_log'[j].recovery_ms >= Stall
    <2>1. fault_log[i].fault_type # "DelayedSensor"
        BY <1>4 DEF Unrecovered
    <2>2. \A j \in 1 .. Len(fault_log) : j # i => fault_log'[j] = fault_log[j]
        BY <1>4 DEF Marked
    <2> QED BY <2>1, <2>2 DEF StallInv
<1>5. CASE UNCHANGED faultVars \/ TakeDelay(s) \/ TakeCorrupt(s)
    BY <1>2, <1>5 DEF faultVars, TakeDelay, TakeCorrupt
<1>6. CASE EndStall(s) /\ Recover(s, "DelayedSensor")
    BY <1>2, <1>3, <1>6, RecoverFacts DEF faultVars
<1>7. CASE Recover(s, "CorruptedData")
    BY <1>2, <1>4, <1>7, RecoverFacts DEF faultVars
<1> QED BY <1>1, <1>5, <1>6, <1>7, SensorFaults

LEMMA NextKeepsStall ==
    ASSUME ThreadsTyped, FaultsTyped, CampaignInv, StallInv, AnyStep
    PROVE  StallInv'
<1> DEFINE Early(e, s) == IsDelayOf(e, s) => e.injected_at + Stall <= sensor[s].wake
           n == Len(fault_log)
<1>1. \A s \in SensorType : RaisedFor(s, "DelayedSensor") => RaisedFor(s, "DelayedSensor")'
    BY RaisedSteps
<1>2. CASE TimePasses \/ Drain \/ UNCHANGED vars
    <2>1. UNCHANGED <<sensor, injector, fault_log, delay_flags>>
        BY <1>2 DEF TimePasses, Drain, vars, faultVars
    <2> QED BY <1>1, <2>1 DEF StallInv, At, InjectorAt
<1>3. CASE Injector
    <2>1. sensor' = sensor
        BY <1>3 DEF Injector
    <2>2. CASE StartInjector \/ CheckDeadline \/ SelectFault
        <3>1. /\ UNCHANGED <<fault_log, delay_flags>> /\ injector'.pc # "log"
            BY <2>2, InjectorSteps DEF NextInjector, faultVars
        <3> QED BY <1>1, <2>1, <3>1 DEF StallInv, At, InjectorAt
    <2>3. CASE RaiseFlag
        <3> DEFINE e == injector.event
        <3>1. /\ injector.pc = "raise" /\ injector'.pc = "log" /\ injector'.event = e
              /\ UNCHANGED fault_log
            BY <2>3, InjectorSteps DEF NextInjector
        <3>2. ASSUME NEW s \in SensorType, s \in delay_flags' \/ At(s, "stalled")'
              PROVE  RaisedFor(s, "DelayedSensor")'
            <4>1. CASE s \in delay_flags \/ At(s, "stalled")
                BY <1>1, <4>1 DEF StallInv
            <4>2. CASE s \in delay_flags' /\ s \notin delay_flags
                <5>1. e.fault_type = "DelayedSensor" /\ e.target = s
                    BY <2>3, <4>2 DEF RaiseFlag
                <5> QED BY <1>3, <2>3, <5>1, RaisedSteps
            <4> QED BY <2>1, <3>2, <4>1, <4>2 DEF At
        <3>3. ASSUME NEW s \in SensorType, At(s, "stalled") PROVE ~ IsDelayOf(e, s)
            <4>1. RaisedFor(s, "DelayedSensor")
                BY <3>3 DEF StallInv
            <4> QED BY <2>3, <4>1, RaisedOnce DEF IsDelayOf
        <3> QED BY <2>1, <3>1, <3>2, <3>3 DEF StallInv, At, InjectorAt, IsDelayOf
    <2>4. CASE LogFault
        <3> DEFINE e == injector.event
        <3>1. /\ injector.pc = "log" /\ injector'.pc = "check" /\ UNCHANGED delay_flags
            BY <2>4, InjectorSteps DEF NextInjector
        <3>2. /\ \A i \in 1 .. n : fault_log'[i] = fault_log[i]
              /\ fault_log'[n + 1] = e /\ 1 .. Len(fault_log') = (1 .. n) \union {n + 1}
              /\ ~ e.recovered
            BY <2>4, LogGrows DEF Fresh
        <3>3. ASSUME NEW s \in SensorType, At(s, "stalled"), NEW i \in 1 .. Len(fault_log')
              PROVE  Early(fault_log'[i], s)
            <4>1. CASE i \in 1 .. n
                BY <3>2, <3>3, <4>1 DEF StallInv
            <4>2. CASE i = n + 1
                BY <3>1, <3>2, <3>3, <4>2 DEF StallInv, InjectorAt
            <4> QED BY <3>2, <4>1, <4>2
        <3>4. \A i \in 1 .. Len(fault_log') :
                fault_log'[i].recovered /\ fault_log'[i].fault_type = "DelayedSensor"
                  => fault_log'[i].recovery_ms >= Stall
            BY <3>2 DEF StallInv
        <3>5. \A s \in SensorType : s \in delay_flags' \/ At(s, "stalled")'
                => RaisedFor(s, "DelayedSensor")'
            BY <1>1, <2>1, <3>1 DEF StallInv, At
        <3> QED BY <2>1, <3>1, <3>3, <3>4, <3>5 DEF StallInv, At, InjectorAt, IsDelayOf
    <2> QED BY <1>3, <2>2, <2>3, <2>4 DEF Injector, InjectorStep
<1>4. ASSUME NEW s \in SensorType, Sensor(s) PROVE StallInv'
    <2>1. /\ UNCHANGED <<injector, now>> /\ Len(fault_log') = n
          /\ \A i \in 1 .. n :
               /\ fault_log'[i].fault_type = fault_log[i].fault_type
               /\ fault_log'[i].target = fault_log[i].target
               /\ fault_log'[i].injected_at = fault_log[i].injected_at
        BY <1>4, SensorLog
    <2>2. /\ delay_flags' \subseteq delay_flags
          /\ \A t \in SensorType : t # s => sensor'[t] = sensor[t]
          /\ At(s, "stalled")' => s \in delay_flags /\ sensor'[s].wake = now + Stall
        BY <1>4, StallSteps
    <2>3. ASSUME NEW t \in SensorType, t \in delay_flags' \/ At(t, "stalled")'
          PROVE  RaisedFor(t, "DelayedSensor")'
        <3>1. t \in delay_flags \/ At(t, "stalled")
            BY <2>2, <2>3 DEF At
        <3> QED BY <1>1, <3>1 DEF StallInv
    <2>4. ASSUME NEW t \in SensorType, At(t, "stalled")', NEW i \in 1 .. n,
                 IsDelayOf(fault_log[i], t)
          PROVE  fault_log[i].injected_at + Stall <= sensor'[t].wake
        <3>1. CASE t = s
            <4>1. fault_log[i].injected_at \in Nat /\ fault_log[i].injected_at <= now
                BY LogElement
            <4>2. sensor'[t].wake = now + Stall /\ now \in Nat
                BY <2>2, <2>4, <3>1 DEF FaultsTyped
            <4> QED BY <4>1, <4>2 DEF Stall
        <3>2. CASE t # s
            BY <2>2, <2>4, <3>2 DEF StallInv, At
        <3> QED BY <3>1, <3>2
    <2>5. ASSUME NEW t \in SensorType, At(t, "stalled")', InjectorAt("log"),
                 IsDelayOf(injector.event, t)
          PROVE  injector.event.injected_at + Stall <= sensor'[t].wake
        <3>1. CASE t = s
            <4>1. /\ injector.event.injected_at \in Nat
                  /\ injector.event.injected_at <= now
                BY <2>5 DEF FaultsTyped, InjectorAt, Fresh, FaultEvent
            <4>2. sensor'[t].wake = now + Stall /\ now \in Nat
                BY <2>2, <2>5, <3>1 DEF FaultsTyped
            <4> QED BY <4>1, <4>2 DEF Stall
        <3>2. CASE t # s
            BY <2>2, <2>5, <3>2 DEF StallInv, At
        <3> QED BY <3>1, <3>2
    <2>6. \A i \in 1 .. Len(fault_log') :
            fault_log'[i].recovered /\ fault_log'[i].fault_type = "DelayedSensor"
              => fault_log'[i].recovery_ms >= Stall
        BY <1>4, <2>1, RecoveryIsSlow
    <2>7. \A t \in SensorType, i \in 1 .. n :
            IsDelayOf(fault_log'[i], t) <=> IsDelayOf(fault_log[i], t)
        BY <2>1 DEF IsDelayOf
    <2>8. ASSUME NEW t \in SensorType, At(t, "stalled")'
          PROVE  /\ \A i \in 1 .. Len(fault_log') :
                      IsDelayOf(fault_log'[i], t)
                        => fault_log'[i].injected_at + Stall <= sensor'[t].wake
                 /\ InjectorAt("log")' /\ IsDelayOf(injector.event, t)'
                      => injector'.event.injected_at + Stall <= sensor'[t].wake
        BY <2>1, <2>4, <2>5, <2>7, <2>8 DEF InjectorAt
    <2> QED BY <2>3, <2>6, <2>8 DEF StallInv, IsDelayOf
<1> QED BY <1>2, <1>3, <1>4 DEF AnyStep

FaultsInv == CampaignInv /\ VerdictInv /\ StallInv

LEMMA InitIsFaults == Init => FaultsInv
<1> SUFFICES ASSUME Init PROVE FaultsInv
    OBVIOUS
<1>1. /\ delay_flags = {} /\ fault_log = <<>> /\ fault_count = 0
      /\ mission_aborted = FALSE /\ injector.pc = "start"
    BY DEF Init, FaultInit
<1>2. Len(fault_log) = 0 /\ 1 .. Len(fault_log) = {}
    BY <1>1
<1>3. \A s \in SensorType : ~ At(s, "stalled")
    BY DEF Init, At
<1>4. CampaignInv
    BY <1>1, <1>2 DEF CampaignInv
<1>5. VerdictInv
    BY <1>1, <1>2 DEF VerdictInv
<1>6. StallInv
    BY <1>1, <1>2, <1>3 DEF StallInv
<1> QED BY <1>4, <1>5, <1>6 DEF FaultsInv

\* AbortIffSlow: the verdict on the mission is the log's, and a recovery recorded
\* for a delay fault belongs to a stall that began after the fault was made up,
\* because no sensor is given two delay faults in one campaign.
THEOREM AbortsAreSlow ==
    ASSUME RunDuration <= 5 * FaultInterval
    PROVE  Spec => []AbortIffSlow
<1>1. CoreInv /\ FaultsInv => AbortIffSlow
    <2> SUFFICES ASSUME CoreInv, FaultsInv PROVE AbortIffSlow
        OBVIOUS
    <2>1. mission_aborted \in BOOLEAN
        BY DEF CoreInv, FaultsTyped
    <2>2. mission_aborted <=> \E i \in Recovered : fault_log[i].recovery_ms > RecoveryDeadline
        BY DEF FaultsInv, VerdictInv, Recovered, Late
    <2>3. mission_aborted = \E i \in Recovered : fault_log[i].recovery_ms > RecoveryDeadline
        BY <2>1, <2>2
    <2>4. \A i \in 1 .. Len(fault_log) : fault_log[i].aborted => i \in Recovered
        BY DEF FaultsInv, VerdictInv, Recovered
    <2>5. \A i \in Recovered : fault_log[i].fault_type = "DelayedSensor"
                                 => fault_log[i].recovery_ms >= Stall
        BY DEF FaultsInv, StallInv, Recovered
    <2> QED BY <2>3, <2>4, <2>5 DEF AbortIffSlow
<1>2. CoreInv /\ FaultsInv /\ [Next]_vars => FaultsInv'
    BY NextIsAnyStep, NextKeepsCampaign, NextKeepsVerdict, NextKeepsStall
       DEF CoreInv, FaultsInv
<1> QED BY <1>1, <1>2, InitIsFaults, CoreHolds, PTL DEF Spec

-----------------------------------------------------------------------------
(* What becomes of a corruption.                                           *)

\* The readings of u that are queued or sent.
Kept(u) == {r \in ToSet(items) \union delivered : r.sensor = u}

\* A push adds the reading to those kept of its sensor, or drops one.
LEMMA PushKeeps ==
    ASSUME CoreInv, NEW s \in SensorType, PushReading(s), UNCHANGED delivered,
           NEW u \in SensorType
    PROVE  LET mine == IF u = s THEN {sensor[s].reading} ELSE {} IN
           /\ Kept(u)' \subseteq Kept(u) \union mine
           /\ Dropped(u) \subseteq Dropped(u)'
           /\ Dropped(u)' = {} => Kept(u)' = Kept(u) \union mine
<1> DEFINE r == sensor[s].reading
           mine == IF u = s THEN {r} ELSE {}
<1>1. /\ ThreadsTyped /\ FaultsTyped /\ ReadingsInv
      /\ BufferTypeOK /\ Ordered(items) /\ items \in Seq(SensorReading)
    BY DEF CoreInv, ReadingsInv, BufferTypeOK
<1>2. /\ r \in SensorReading /\ r.sensor = s /\ r.cycle = Pushed(s) + 1
      /\ Pushed(s) \in Nat /\ Push(r)
    BY <1>1, PushedSteps DEF SensorStep, PushReading
<1> HIDE DEF r
<1>3. Newest(items, r)
    <2> SUFFICES ASSUME NEW i \in 1 .. Len(items), items[i].sensor = s
                 PROVE  items[i].cycle < Pushed(s) + 1
        BY <1>2 DEF Newest
    <2>1. items[i].cycle \in Queued(s)
        BY <1>1, ToSetFacts, CyclesOfFacts DEF Queued
    <2>2. Queued(s) \subseteq 1 .. Pushed(s)
        BY <1>1 DEF ReadingsInv, Balance
    <2> QED BY <1>2, <2>1, <2>2
<1>4. Stored(r) \/ (\E w \in ToSet(items) : Exchanged(w, r)) \/ Refused(r)
    BY <1>1, <1>2, <1>3, PushFacts
<1>5. CASE Stored(r)
    <2>1. Kept(u)' = Kept(u) \union mine
        BY <1>2, <1>5 DEF Stored, Kept
    <2>2. Dropped(u)' = Dropped(u)
        BY <1>5 DEF Stored, Dropped
    <2> QED BY <2>1, <2>2 DEF r
<1>6. ASSUME NEW w \in ToSet(items), Exchanged(w, r)
      PROVE  /\ Kept(u)' \subseteq Kept(u) \union mine
             /\ Dropped(u) \subseteq Dropped(u)'
             /\ Dropped(u)' = {} => Kept(u)' = Kept(u) \union mine
    <2>1. Kept(u)' \subseteq Kept(u) \union mine
        BY <1>2, <1>6 DEF Exchanged, Kept
    <2>2. Dropped(u)' = Dropped(u) \union Just(u, w)
        <3>1. dropped_log' = dropped_log \union {Sample(w)}
            BY <1>6 DEF Exchanged
        <3>2. CyclesOf(u, dropped_log \union {Sample(w)})
                = CyclesOf(u, dropped_log) \union Just(u, Sample(w))
            BY CyclesOfMore
        <3>3. Just(u, Sample(w)) = Just(u, w)
            BY DEF Just, Sample
        <3> QED BY <3>1, <3>2, <3>3 DEF Dropped
    <2>3. ASSUME Dropped(u)' = {} PROVE Kept(u)' = Kept(u) \union mine
        <3>1. w.sensor # u
            BY <2>2, <2>3 DEF Just
        <3> QED BY <1>2, <1>6, <3>1 DEF Exchanged, Kept
    <2> QED BY <2>1, <2>2, <2>3
<1>7. CASE Refused(r)
    <2>1. Kept(u)' = Kept(u)
        BY <1>7 DEF Refused, Kept
    <2>2. Dropped(u)' = Dropped(u) \union Just(u, r)
        <3>1. dropped_log' = dropped_log \union {Sample(r)}
            BY <1>7 DEF Refused
        <3>2. CyclesOf(u, dropped_log \union {Sample(r)})
                = CyclesOf(u, dropped_log) \union Just(u, Sample(r))
            BY CyclesOfMore
        <3>3. Just(u, Sample(r)) = Just(u, r)
            BY DEF Just, Sample
        <3> QED BY <3>1, <3>2, <3>3 DEF Dropped
    <2>3. Dropped(u)' = {} => mine = {}
        BY <1>2, <2>2 DEF Just
    <2> QED BY <2>1, <2>2, <2>3 DEF r
<1> QED BY <1>4, <1>5, <1>6, <1>7 DEF r

\* The other steps keep what is queued or sent.
LEMMA OthersKeep ==
    ASSUME CoreInv, Drain \/ UNCHANGED <<bufferVars, delivered>>, NEW u
    PROVE  Kept(u)' = Kept(u) /\ Dropped(u)' = Dropped(u)
<1>1. CASE UNCHANGED <<bufferVars, delivered>>
    BY <1>1 DEF bufferVars, Kept, Dropped
<1>2. CASE Drain
    <2>1. /\ ToSet(items') = ToSet(items) \ {Head(items)} /\ Head(items) \in ToSet(items)
          /\ delivered' = delivered \union {Head(items)} /\ dropped_log' = dropped_log
        BY <1>2, PopFacts DEF Drain, Pop, CoreInv, ReadingsInv
    <2>2. ToSet(items') \union delivered' = ToSet(items) \union delivered
        BY <2>1
    <2> QED BY <2>1, <2>2 DEF Kept, Dropped
<1> QED BY <1>1, <1>2

LEMMA EmittedFacts ==
    ASSUME NEW u
    PROVE  /\ Emitted(u) <=> \E r \in Kept(u) : r.value = "nan"
           /\ (\A q, r \in ToSet(items) \union delivered :
                 IsNan(q, u) /\ IsNan(r, u) => q = r)
              <=> \A q, r \in Kept(u) : q.value = "nan" /\ r.value = "nan" => q = r
BY DEF Emitted, Kept, IsNan

\* NanInv of one sensor, in terms of the readings kept.
NanOf(u) ==
    LET up == u \in corrupt_flags
        emitted == \E r \in Kept(u) : r.value = "nan"
    IN  /\ At(u, "corrupt") => sensor[u].reading.value = "number"
        /\ ~ (up /\ InHand(u)) /\ ~ (up /\ emitted) /\ ~ (InHand(u) /\ emitted)
        /\ \A q, r \in Kept(u) : q.value = "nan" /\ r.value = "nan" => q = r
        /\ up \/ InHand(u) \/ emitted => RaisedFor(u, "CorruptedData")
        /\ RaisedFor(u, "CorruptedData") /\ Dropped(u) = {} => up \/ InHand(u) \/ emitted

LEMMA NanInvByKept == NanInv <=> \A u \in SensorType : NanOf(u)
BY EmittedFacts DEF NanInv, NanOf

\* Which flags a sensor thread takes.
LEMMA CorruptFlags ==
    ASSUME NEW s \in SensorType, SensorStep(s)
    PROVE  \/ corrupt_flags' = corrupt_flags
           \/ SufferCorruption(s) /\ corrupt_flags' = corrupt_flags \ {s}
BY SensorFaults DEF faultVars, TakeDelay, TakeCorrupt, Recover

\* Nothing happens to the sensor u but that the buffer may drop a reading of it.
LEMMA NanOfOther ==
    ASSUME NEW u \in SensorType, NanOf(u),
           u \in corrupt_flags' <=> u \in corrupt_flags,
           sensor'[u].pc = sensor[u].pc, sensor'[u].reading = sensor[u].reading,
           Kept(u)' \subseteq Kept(u), Dropped(u) \subseteq Dropped(u)',
           Dropped(u)' = {} => Kept(u)' = Kept(u),
           RaisedFor(u, "CorruptedData")' <=> RaisedFor(u, "CorruptedData")
    PROVE  NanOf(u)'
<1>1. (At(u, "corrupt")' <=> At(u, "corrupt")) /\ (InHand(u)' <=> InHand(u))
    BY DEF At, InHand
<1>2. (\E r \in Kept(u)' : r.value = "nan") => \E r \in Kept(u) : r.value = "nan"
    OBVIOUS
<1>3. \A q, r \in Kept(u)' : q.value = "nan" /\ r.value = "nan" => q = r
    BY DEF NanOf
<1> QED BY <1>1, <1>2, <1>3 DEF NanOf

LEMMA PushKeepsNan ==
    ASSUME CoreInv, NEW s \in SensorType, PushReading(s), Sensor(s), NanOf(s),
           RaisedFor(s, "CorruptedData")' <=> RaisedFor(s, "CorruptedData")
    PROVE  NanOf(s)'
<1> DEFINE r == sensor[s].reading
<1>1. ThreadsTyped /\ FaultsTyped /\ SensorStep(s) /\ UNCHANGED delivered
    BY DEF CoreInv, Sensor
<1>2. /\ Kept(s)' \subseteq Kept(s) \union {r}
      /\ Dropped(s) \subseteq Dropped(s)'
      /\ Dropped(s)' = {} => Kept(s)' = Kept(s) \union {r}
    BY <1>1, PushKeeps
<1>3. corrupt_flags' = corrupt_flags
    BY DEF PushReading, faultVars
<1>4. sensor[s].pc = "push" /\ sensor'[s].pc = "top"
    BY <1>1, SensorSteps DEF Moves
<1>5. /\ ~ InHand(s)' /\ ~ At(s, "corrupt")' /\ (InHand(s) <=> r.value = "nan")
    BY <1>4 DEF InHand, At
<1> HIDE DEF r
<1>6. CASE r.value = "nan"
    <2>1. /\ s \notin corrupt_flags /\ \A q \in Kept(s) : q.value # "nan"
          /\ RaisedFor(s, "CorruptedData")
        BY <1>5, <1>6 DEF NanOf
    <2>2. \A p, q \in Kept(s)' : p.value = "nan" /\ q.value = "nan" => p = q
        BY <1>2, <2>1
    <2>3. Dropped(s)' = {} => \E q \in Kept(s)' : q.value = "nan"
        BY <1>2, <1>6
    <2> QED BY <1>3, <1>5, <2>1, <2>2, <2>3 DEF NanOf
<1>7. CASE r.value # "nan"
    <2>1. \A q \in Kept(s)' : q.value = "nan" => q \in Kept(s)
        BY <1>2, <1>7
    <2>2. Dropped(s)' = {} => /\ Dropped(s) = {}
                              /\ \A q \in Kept(s) : q \in Kept(s)'
        BY <1>2
    <2>3. \A p, q \in Kept(s)' : p.value = "nan" /\ q.value = "nan" => p = q
        BY <2>1 DEF NanOf
    <2> QED BY <1>3, <1>5, <1>7, <2>1, <2>2, <2>3 DEF NanOf
<1> QED BY <1>6, <1>7

LEMMA SensorKeepsNan ==
    ASSUME CoreInv, NEW s \in SensorType, Sensor(s), ~ PushReading(s), NanOf(s),
           RaisedFor(s, "CorruptedData")' <=> RaisedFor(s, "CorruptedData"),
           Kept(s)' = Kept(s), Dropped(s)' = Dropped(s)
    PROVE  NanOf(s)'
<1>1. ThreadsTyped /\ FaultsTyped /\ SensorStep(s) /\ sensor[s].reading \in SensorReading
    BY RecordFacts DEF CoreInv, Sensor
<1>2. ASSUME s \in corrupt_flags' \/ InHand(s)' <=> s \in corrupt_flags \/ InHand(s),
             ~ (s \in corrupt_flags' /\ InHand(s)'),
             At(s, "corrupt")' => sensor'[s].reading.value = "number"
      PROVE  NanOf(s)'
    BY <1>2 DEF NanOf
<1>3. CASE SufferCorruption(s)
    <2>1. s \in corrupt_flags /\ s \notin corrupt_flags'
        BY <1>3 DEF SufferCorruption, TakeCorrupt
    <2>2. sensor'[s].pc = "corrupted"
        BY <1>1, <1>3, SensorSteps DEF Passes, Moves
    <2> QED BY <1>2, <2>1, <2>2 DEF InHand, At
<1>4. CASE ~ SufferCorruption(s)
    <2>1. corrupt_flags' = corrupt_flags
        BY <1>1, <1>4, CorruptFlags
    <2>2. ASSUME InHand(s)' <=> InHand(s),
                 At(s, "corrupt")' => sensor'[s].reading.value = "number"
          PROVE  NanOf(s)'
        BY <1>2, <2>1, <2>2 DEF NanOf
    <2>3. CASE StartSensor(s) \/ BeginCycle(s) \/ SufferDelay(s) \/ NoDelay(s) \/ EndStall(s)
        <3>1. /\ sensor[s].pc \in {"start", "top", "delay", "stalled"}
              /\ sensor'[s].pc \in {"top", "delay", "done", "stalled", "sleep"}
            BY <1>1, <2>3, SensorSteps DEF Passes, Moves
        <3> QED BY <2>2, <3>1 DEF InHand, At
    <2>4. CASE Read(s)
        <3> DEFINE r == [sensor |-> s, cycle |-> sensor[s].cycle, value |-> "number",
                         drift |-> now - sensor[s].scheduled]
        <3>1. /\ sensor[s].pc = "sleep" /\ sensor'[s].pc = "corrupt"
              /\ sensor'[s].reading.value = "number"
            <4>1. r.value = "number"
                OBVIOUS
            <4>2. sensor[s].pc = "sleep"
                BY <2>4 DEF Read, At
            <4>3. Moves(s, "corrupt", sensor[s].cycle, sensor[s].scheduled, sensor[s].wake,
                        sensor[s].miss, r)
                BY <1>1, <2>4, SensorSteps
            <4> HIDE DEF r
            <4> QED BY <4>1, <4>2, <4>3 DEF Moves
        <3> QED BY <2>2, <3>1 DEF InHand, At
    <2>5. CASE NoCorruption(s)
        <3>1. sensor[s].pc = "corrupt" /\ sensor'[s].pc = "push"
              /\ sensor'[s].reading = sensor[s].reading
            BY <1>1, <2>5, SensorSteps DEF Passes, Moves
        <3>2. sensor[s].reading.value = "number"
            BY <3>1 DEF NanOf, At
        <3> QED BY <2>2, <3>1, <3>2 DEF InHand, At
    <2>6. CASE EndCorruption(s)
        <3>1. /\ sensor[s].pc = "corrupted" /\ sensor'[s].pc = "push"
              /\ sensor'[s].reading = [sensor[s].reading EXCEPT !.value = "nan"]
            BY <1>1, <2>6, SensorSteps DEF Moves
        <3>2. sensor'[s].reading.value = "nan"
            BY <1>1, <3>1 DEF SensorReading
        <3> QED BY <2>2, <3>1, <3>2 DEF InHand, At
    <2> QED BY <1>1, <1>4, <2>3, <2>4, <2>5, <2>6 DEF SensorStep
<1> QED BY <1>3, <1>4

LEMMA NextKeepsNan ==
    ASSUME CoreInv, CampaignInv, NanInv, AnyStep
    PROVE  NanInv'
<1>1. ThreadsTyped /\ FaultsTyped
    BY DEF CoreInv
<1>2. SUFFICES ASSUME NEW u \in SensorType PROVE NanOf(u)'
    <2>1. NanInv' <=> \A u \in SensorType : NanOf(u)'
        <3>1. ASSUME NEW u
              PROVE  /\ Emitted(u)' <=> \E r \in Kept(u)' : r.value = "nan"
                     /\ (\A q, r \in ToSet(items') \union delivered' :
                           IsNan(q, u) /\ IsNan(r, u) => q = r)
                        <=> \A q, r \in Kept(u)' : q.value = "nan" /\ r.value = "nan"
                                                    => q = r
            BY DEF Emitted, Kept, IsNan
        <3> QED BY <3>1 DEF NanInv, NanOf
    <2> QED BY <2>1
<1>3. NanOf(u)
    BY NanInvByKept
<1>4. RaisedFor(u, "CorruptedData")' <=>
        \/ RaisedFor(u, "CorruptedData")
        \/ /\ Injector /\ RaiseFlag
           /\ injector.event.fault_type = "CorruptedData" /\ injector.event.target = u
    BY <1>1, RaisedSteps
<1>5. ASSUME UNCHANGED <<injector, fault_count>>
      PROVE  RaisedFor(u, "CorruptedData")' <=> RaisedFor(u, "CorruptedData")
    BY <1>5 DEF RaisedFor, Raised, InjectorAt
<1>6. CASE TimePasses \/ Drain \/ UNCHANGED vars
    <2>1. UNCHANGED <<sensor, corrupt_flags, injector, fault_count>>
        BY <1>6 DEF TimePasses, Drain, vars, faultVars
    <2>2. Drain \/ UNCHANGED <<bufferVars, delivered>>
        BY <1>6 DEF TimePasses, vars
    <2> QED BY <1>3, <1>5, <2>1, <2>2, OthersKeep, NanOfOther
<1>7. CASE Injector
    <2>1. UNCHANGED <<sensor, bufferVars, delivered>>
        BY <1>7 DEF Injector
    <2>2. Kept(u)' = Kept(u) /\ Dropped(u)' = Dropped(u)
        BY <2>1, OthersKeep
    <2>3. CASE /\ RaiseFlag /\ injector.event.target = u
               /\ injector.event.fault_type = "CorruptedData"
        <3>1. corrupt_flags' = corrupt_flags \union {u} /\ UNCHANGED fault_log
            BY <2>3 DEF RaiseFlag
        <3>2. ~ RaisedFor(u, "CorruptedData") /\ RaisedFor(u, "CorruptedData")'
            BY <1>1, <1>4, <1>7, <2>3, RaisedOnce
        <3>3. ~ InHand(u)' /\ (At(u, "corrupt")' <=> At(u, "corrupt")) /\ sensor' = sensor
            BY <1>3, <2>1, <3>2 DEF NanOf, InHand, At
        <3> QED BY <1>3, <2>2, <3>1, <3>2, <3>3 DEF NanOf
    <2>4. CASE ~ (/\ RaiseFlag /\ injector.event.target = u
                  /\ injector.event.fault_type = "CorruptedData")
        <3>1. u \in corrupt_flags' <=> u \in corrupt_flags
            <4>1. CASE StartInjector \/ CheckDeadline \/ SelectFault \/ LogFault
                BY <4>1 DEF StartInjector, CheckDeadline, SelectFault, LogFault, faultVars
            <4>2. CASE RaiseFlag
                BY <2>4, <4>2 DEF RaiseFlag
            <4> QED BY <1>7, <4>1, <4>2 DEF Injector, InjectorStep
        <3>2. RaisedFor(u, "CorruptedData")' <=> RaisedFor(u, "CorruptedData")
            BY <1>4, <2>4
        <3> QED BY <1>3, <2>1, <2>2, <3>1, <3>2, NanOfOther
    <2> QED BY <2>3, <2>4
<1>8. ASSUME NEW s \in SensorType, Sensor(s) PROVE NanOf(u)'
    <2>1. /\ SensorStep(s) /\ UNCHANGED delivered
          /\ RaisedFor(u, "CorruptedData")' <=> RaisedFor(u, "CorruptedData")
        BY <1>1, <1>5, <1>8, SensorLog DEF Sensor
    <2>2. CASE u = s /\ PushReading(s)
        BY <1>3, <1>8, <2>1, <2>2, PushKeepsNan
    <2>3. ASSUME ~ PushReading(s)
          PROVE  Kept(u)' = Kept(u) /\ Dropped(u)' = Dropped(u)
        <3>1. UNCHANGED <<bufferVars, delivered>>
            BY <1>1, <2>1, <2>3, NoPushFacts
        <3> QED BY <3>1, OthersKeep
    <2>4. CASE u = s /\ ~ PushReading(s)
        BY <1>3, <1>8, <2>1, <2>3, <2>4, SensorKeepsNan
    <2>5. CASE u # s
        <3>1. sensor'[u] = sensor[u] /\ (u \in corrupt_flags' <=> u \in corrupt_flags)
            BY <1>1, <2>1, <2>5, SensorMoves, CorruptFlags
        <3>2. /\ Kept(u)' \subseteq Kept(u) /\ Dropped(u) \subseteq Dropped(u)'
              /\ Dropped(u)' = {} => Kept(u)' = Kept(u)
            <4>1. CASE PushReading(s)
                BY <2>1, <2>5, <4>1, PushKeeps
            <4>2. CASE ~ PushReading(s)
                BY <2>3, <4>2
            <4> QED BY <4>1, <4>2
        <3> QED BY <1>3, <2>1, <3>1, <3>2, NanOfOther
    <2> QED BY <2>2, <2>4, <2>5
<1> QED BY <1>6, <1>7, <1>8 DEF AnyStep

LEMMA InitIsNan == Init => NanInv
<1> SUFFICES ASSUME Init PROVE NanInv
    OBVIOUS
<1>1. /\ corrupt_flags = {} /\ fault_count = 0 /\ items = <<>> /\ delivered = {}
    BY DEF Init, FaultInit, BufferInit
<1>2. ToSet(items) \union delivered = {}
    BY <1>1 DEF ToSet
<1>3. \A s \in SensorType : sensor[s].pc \in {"start", "done"}
    BY DEF Init
<1>4. \A s \in SensorType : ~ InHand(s) /\ ~ At(s, "corrupt") /\ ~ Emitted(s)
    BY <1>2, <1>3 DEF InHand, At, Emitted
<1>5. \A s \in SensorType : ~ RaisedFor(s, "CorruptedData")
    BY <1>1 DEF RaisedFor, Raised
<1> QED BY <1>1, <1>2, <1>4, <1>5 DEF NanInv

\* The corruption faults of one sensor that were logged, or are about to be.
LEMMA CorruptionsRaised ==
    ASSUME FaultsTyped, CampaignInv, NEW s \in SensorType
    PROVE  LET raised == {i \in 1 .. Len(fault_log) :
                            /\ fault_log[i].target = s
                            /\ fault_log[i].fault_type = "CorruptedData"}
               unlogged == IF /\ InjectorAt("log")
                              /\ injector.event.target = s
                              /\ injector.event.fault_type = "CorruptedData"
                           THEN 1 ELSE 0
           IN  Cardinality(raised) + unlogged
                 = IF RaisedFor(s, "CorruptedData") THEN 1 ELSE 0
<1> DEFINE n == Len(fault_log)
           mine(i) == /\ FaultSchedule[i].target = s
                      /\ FaultSchedule[i].fault_type = "CorruptedData"
           raised == {i \in 1 .. n : /\ fault_log[i].target = s
                                     /\ fault_log[i].fault_type = "CorruptedData"}
           last == /\ InjectorAt("log")
                   /\ injector.event.target = s
                   /\ injector.event.fault_type = "CorruptedData"
<1>1. /\ n \in Nat /\ fault_count \in Nat /\ fault_count <= 4
      /\ injector.pc \in {"raise", "log"} => fault_count = n + 1
      /\ injector.pc \notin {"raise", "log"} => fault_count = n
    BY DEF FaultsTyped, CampaignInv
<1>2. n <= 4
    BY <1>1
<1>3. \A i \in 1 .. n : i \in raised <=> mine(i)
    BY DEF CampaignInv, IsFault
<1>4. last <=> InjectorAt("log") /\ mine(n + 1)
    BY <1>1 DEF CampaignInv, IsFault, InjectorAt
<1>5. \A i, j \in 1 .. 4 : mine(i) /\ mine(j) => i = j
    BY ScheduleFacts
<1>6. RaisedFor(s, "CorruptedData") <=> \E i \in 1 .. 4 : Raised(i) /\ mine(i)
    BY DEF RaisedFor
<1>7. \A i \in 1 .. 4 : Raised(i) <=> i \in 1 .. n \/ (i = n + 1 /\ InjectorAt("log"))
    BY <1>1 DEF Raised, InjectorAt
<1>8. raised \subseteq 1 .. n
    OBVIOUS
<1>9. InjectorAt("log") => n + 1 \in 1 .. 4
    BY <1>1 DEF InjectorAt
<1> HIDE DEF mine, raised, last
<1>10. CASE ~ RaisedFor(s, "CorruptedData")
    <2>1. raised = {}
        BY <1>1, <1>2, <1>3, <1>6, <1>7, <1>8, <1>10
    <2>2. ~ last
        BY <1>4, <1>6, <1>7, <1>9, <1>10
    <2>3. Cardinality(raised) + (IF last THEN 1 ELSE 0) = 0
        BY <2>1, <2>2, FS_EmptySet
    <2> QED BY <1>10, <2>3 DEF raised, last
<1>11. ASSUME NEW i \in 1 .. 4, Raised(i), mine(i)
       PROVE  Cardinality(raised) + (IF last THEN 1 ELSE 0) = 1
    <2>1. CASE i \in 1 .. n
        <3>1. raised = {i}
            <4>1. i \in raised
                BY <1>3, <1>11, <2>1
            <4>2. ASSUME NEW j \in raised
                  PROVE  j = i
                <5>1. j \in 1 .. n /\ mine(j)
                    BY <1>3, <1>8
                <5>2. j \in 1 .. 4
                    BY <5>1, <1>1, <1>2
                <5> QED BY <1>5, <1>11, <5>1, <5>2
            <4> QED BY <4>1, <4>2
        <3>2. ~ last
            <4>1. i # n + 1
                BY <1>1, <2>1
            <4> QED BY <1>4, <1>5, <1>9, <1>11, <4>1
        <3> QED BY <3>1, <3>2, FS_Singleton
    <2>2. CASE i = n + 1 /\ InjectorAt("log")
        <3>1. last
            BY <1>4, <1>11, <2>2
        <3>2. raised = {}
            BY <1>1, <1>2, <1>3, <1>5, <1>8, <1>11, <2>2
        <3> QED BY <3>1, <3>2, FS_EmptySet
    <2> QED BY <1>7, <1>11, <2>1, <2>2
<1>12. CASE RaisedFor(s, "CorruptedData")
    <2>1. Cardinality(raised) + (IF last THEN 1 ELSE 0) = 1
        BY <1>6, <1>11, <1>12
    <2> QED BY <1>12, <2>1 DEF raised, last
<1> QED BY <1>10, <1>12

LEMMA NansAreFaults ==
    ASSUME CoreInv, CampaignInv, NanInv
    PROVE  OneNanPerFault
<1> SUFFICES ASSUME NEW s \in SensorType
             PROVE  LET raised == {i \in 1 .. Len(fault_log) :
                                     /\ fault_log[i].target = s
                                     /\ fault_log[i].fault_type = "CorruptedData"}
                        inHand == IF At(s, "corrupted") \/ (At(s, "push")
                                       /\ sensor[s].reading.value = "nan") THEN 1 ELSE 0
                        up == IF s \in corrupt_flags THEN 1 ELSE 0
                        unlogged == IF /\ InjectorAt("log")
                                       /\ injector.event.target = s
                                       /\ injector.event.fault_type = "CorruptedData"
                                    THEN 1 ELSE 0
                        nans == Cardinality({r \in AllReadings :
                                               r.sensor = s /\ r.value = "nan"})
                                  + inHand + up
                    IN  /\ nans <= Cardinality(raised) + unlogged
                        /\ Dropped(s) = {} => nans = Cardinality(raised) + unlogged
    BY DEF OneNanPerFault
<1> DEFINE N == {r \in AllReadings : r.sensor = s /\ r.value = "nan"}
<1>1. AllReadings = ToSet(items) \union delivered
    <2>1. items \in Seq(SensorReading)
        BY DEF CoreInv, ReadingsInv, BufferTypeOK
    <2> QED BY <2>1, ToSetFacts DEF AllReadings
<1>2. /\ Emitted(s) <=> N # {}
      /\ \A q, r \in N : q = r
    BY <1>1 DEF NanInv, Emitted, IsNan
<1>3. Cardinality(N) = IF Emitted(s) THEN 1 ELSE 0
    <2> HIDE DEF N
    <2>1. CASE N = {}
        BY <1>2, <2>1, FS_EmptySet
    <2>2. CASE N # {}
        <3>1. PICK q : N = {q}
            BY <1>2, <2>2
        <3> QED BY <1>2, <2>2, <3>1, FS_Singleton
    <2> QED BY <2>1, <2>2
<1>4. PICK k \in {0, 1} :
        /\ k = IF RaisedFor(s, "CorruptedData") THEN 1 ELSE 0
        /\ k = Cardinality({i \in 1 .. Len(fault_log) :
                              /\ fault_log[i].target = s
                              /\ fault_log[i].fault_type = "CorruptedData"})
                 + IF /\ InjectorAt("log")
                      /\ injector.event.target = s
                      /\ injector.event.fault_type = "CorruptedData"
                   THEN 1 ELSE 0
    BY CorruptionsRaised DEF CoreInv
<1>5. PICK h \in {0, 1}, u \in {0, 1} :
        /\ h = IF InHand(s) THEN 1 ELSE 0
        /\ u = IF s \in corrupt_flags THEN 1 ELSE 0
    OBVIOUS
<1> HIDE DEF N
<1>6. /\ Cardinality(N) + h + u <= k
      /\ Dropped(s) = {} => Cardinality(N) + h + u = k
    BY <1>3, <1>4, <1>5 DEF NanInv
<1> QED BY <1>4, <1>5, <1>6 DEF N, InHand

\* OneNanPerFault: no corruption fault is lost and none is suffered twice, for any
\* interleaving of the injector with the sensors and any loss in the buffer.
THEOREM NansAreEarned ==
    ASSUME RunDuration <= 5 * FaultInterval
    PROVE  (Spec => []OneNanPerFault) /\ (SystemSpec => []OneNanPerFault)
<1> DEFINE J == CampaignInv /\ NanInv
<1>1. Init => J
    BY InitIsFaults, InitIsNan DEF FaultsInv
<1>2. CoreInv /\ J /\ AnyStep => J'
    BY NextKeepsCampaign, NextKeepsNan DEF CoreInv
<1>3. CoreInv /\ J => OneNanPerFault
    BY NansAreFaults
<1>4. CoreInv /\ J /\ [Next]_vars => J'
    BY <1>2, NextIsAnyStep
<1>5. CoreInv /\ J /\ [SystemNext]_systemVars => J'
    BY <1>2, SystemNextIsAnyStep
<1>6. SystemInit => J
    BY <1>1 DEF SystemInit
<1> HIDE DEF J
<1>7. Spec => []OneNanPerFault
    BY <1>1, <1>3, <1>4, CoreHolds, PTL DEF Spec
<1>8. SystemSpec => []OneNanPerFault
    BY <1>3, <1>5, <1>6, SystemCoreHolds, PTL DEF SystemSpec
<1> QED BY <1>7, <1>8


-----------------------------------------------------------------------------
(* What is left in the buffer, with and without a downlink.                *)

\* What a push leaves in the queue, and when it is refused.
LEMMA PushOutcome ==
    ASSUME CoreInv, NEW s \in SensorType, PushReading(s)
    PROVE  LET r == sensor[s].reading
               outranked == \A x \in ToSet(items) : PriorityOf(x) <= PriorityOf(r)
           IN  /\ r \in SensorReading /\ r.sensor = s /\ r.cycle = sensor[s].cycle
               /\ \A x \in ToSet(items') : x \in ToSet(items) \/ x = r
               /\ ~ Accepts(r) <=> Len(items) = Capacity /\ outranked
               /\ ~ Accepts(r) => items' = items
<1> DEFINE r == sensor[s].reading
<1>1. /\ ThreadsTyped /\ FaultsTyped /\ ReadingsInv
      /\ BufferTypeOK /\ Ordered(items) /\ items \in Seq(SensorReading)
      /\ Len(items) <= Capacity /\ Capacity \in Nat \ {0} /\ Len(items) \in Nat
    BY CapacityAssumption DEF CoreInv, ReadingsInv, BufferTypeOK
<1>2. /\ r \in SensorReading /\ r.sensor = s /\ r.cycle = Pushed(s) + 1
      /\ Pushed(s) \in Nat /\ Push(r)
    BY <1>1, PushedSteps DEF SensorStep, PushReading
<1>3. r.cycle = sensor[s].cycle
    BY <1>1, SensorSteps DEF ThreadsTyped
<1> HIDE DEF r
<1>4. Newest(items, r)
    <2> SUFFICES ASSUME NEW i \in 1 .. Len(items), items[i].sensor = s
                 PROVE  items[i].cycle < Pushed(s) + 1
        BY <1>2 DEF Newest
    <2>1. items[i].cycle \in Queued(s)
        BY <1>1, ToSetFacts, CyclesOfFacts DEF Queued
    <2>2. Queued(s) \subseteq 1 .. Pushed(s)
        BY <1>1 DEF ReadingsInv, Balance
    <2> QED BY <1>2, <2>1, <2>2
<1>5. \A x \in ToSet(items') : x \in ToSet(items) \/ x = r
    <2>1. Stored(r) \/ (\E w \in ToSet(items) : Exchanged(w, r)) \/ Refused(r)
        BY <1>1, <1>2, <1>4, PushFacts
    <2> QED BY <2>1 DEF Stored, Exchanged, Refused
<1>6. ~ Accepts(r) => items' = items
    BY <1>1, <1>2, PushAnswers
<1>7. Full <=> Len(items) = Capacity
    BY <1>1 DEF Full
<1>8. ASSUME Full
      PROVE  Outranks(r) <=> ~ \A x \in ToSet(items) : PriorityOf(x) <= PriorityOf(r)
    <2> DEFINE t == Last(items)
    <2>1. Len(items) \in 1 .. Len(items)
        BY <1>1, <1>7, <1>8
    <2>2. t = items[Len(items)]
        BY DEF Last
    <2>3. t \in ToSet(items) /\ t \in SensorReading
        BY <1>1, <2>1, <2>2, ToSetFacts
    <2>4. ASSUME NEW x \in ToSet(items)
          PROVE  x \in SensorReading /\ PriorityOf(x) <= PriorityOf(t)
        <3>1. PICK i \in 1 .. Len(items) : x = items[i]
            BY <1>1, ToSetFacts
        <3>2. x \in SensorReading
            BY <1>1, ToSetFacts
        <3>3. CASE i = Len(items)
            BY <2>2, <2>3, <3>1, <3>2, <3>3, PriorityOfNat
        <3>4. CASE i < Len(items)
            <4>1. Before(x, t)
                BY <1>1, <2>1, <2>2, <3>1, <3>4 DEF Ordered
            <4> QED BY <2>3, <3>2, <4>1, BeforeFacts
        <3> QED BY <1>1, <3>2, <3>3, <3>4
    <2>5. Outranks(r) <=> PriorityOf(r) < PriorityOf(t)
        BY DEF Outranks
    <2>6. /\ PriorityOf(r) \in Nat /\ PriorityOf(t) \in Nat
          /\ \A x \in ToSet(items) : PriorityOf(x) \in Nat
        BY <1>2, <2>3, <2>4, PriorityOfNat
    <2> HIDE DEF t
    <2> QED BY <2>3, <2>4, <2>5, <2>6
<1>9. ~ Accepts(r) <=> /\ Len(items) = Capacity
                       /\ \A x \in ToSet(items) : PriorityOf(x) <= PriorityOf(r)
    BY <1>7, <1>8 DEF Accepts
<1> QED BY <1>2, <1>3, <1>5, <1>6, <1>9 DEF r

\* The cycle a sensor is in changes at the head of the loop only, and not after
\* the end of the run.
LEMMA CycleSteps ==
    ASSUME ThreadsTyped, FaultsTyped, NEW s \in SensorType, SensorStep(s)
    PROVE  sensor'[s].cycle = sensor[s].cycle \/ now < RunDuration
<1> DEFINE x == sensor[s]
<1>1. ASSUME NEW p, NEW d, NEW w, NEW m, NEW r, Moves(s, p, x.cycle, d, w, m, r)
      PROVE  sensor'[s].cycle = x.cycle
    BY <1>1 DEF Moves
<1>2. ASSUME NEW from, NEW to, Passes(s, from, to)
      PROVE  sensor'[s].cycle = x.cycle
    BY <1>1, <1>2 DEF Passes
<1>3. CASE StartSensor(s) \/ BeginCycle(s) \/ SufferDelay(s) \/ NoDelay(s) \/ EndStall(s)
    BY <1>1, <1>2, <1>3, SensorSteps
<1>4. CASE Read(s) \/ SufferCorruption(s) \/ NoCorruption(s) \/ EndCorruption(s)
    BY <1>1, <1>2, <1>4, SensorSteps
<1>5. CASE PushReading(s)
    BY <1>1, <1>5, SensorSteps
<1> QED BY <1>3, <1>4, <1>5 DEF SensorStep

\* While the downlink works, and since it ended, no reading is in the buffer at
\* the end of the run or later but its sensor's last.
StrandedInv ==
    /\ downlink.pc \in {"check", "drain", "sleep"} => downlink.deadline >= RunDuration
    /\ downlink.pc = "done" => now >= RunDuration
    /\ now >= RunDuration /\ downlink.pc # "panicked" =>
         \A r \in ToSet(items) : r.cycle = sensor[r.sensor].cycle

\* How the downlink's label and deadline change.
LEMMA DownlinkSteps ==
    ASSUME FaultsTyped, MainTyped, [SystemNext]_systemVars
    PROVE  \/ UNCHANGED downlink
           \/ /\ downlink.pc = "start" /\ downlink'.pc = "check"
              /\ downlink'.deadline = now + RunDuration /\ now' = now
           \/ downlink.pc = "start" /\ downlink'.pc = "panicked" /\ now' = now
           \/ /\ downlink.pc = "check" /\ downlink'.pc = "done"
              /\ now >= downlink.deadline /\ now' = now
           \/ /\ downlink.pc \in {"check", "drain", "sleep"}
              /\ downlink'.pc \in {"check", "drain", "sleep"}
              /\ downlink'.deadline = downlink.deadline /\ now' = now
<1>1. downlink \in DownlinkRecord /\ now + RunDuration \in Nat
    BY CampaignAssumption DEF MainTyped, FaultsTyped
<1>2. CASE DownlinkThread
    <2>1. now' = now
        BY <1>2 DEF DownlinkThread
    <2>2. CASE StartDownlink
        <3>1. \/ downlink' = [downlink EXCEPT !.pc = "check", !.deadline = now + RunDuration]
              \/ downlink' = [downlink EXCEPT !.pc = "panicked"]
            BY <2>2 DEF StartDownlink
        <3>2. downlink.pc = "start"
            BY <2>2 DEF StartDownlink, DownlinkAt
        <3> QED BY <1>1, <2>1, <3>1, <3>2 DEF DownlinkRecord
    <2>3. CASE CheckDownlinkDeadline
        <3>1. downlink.pc = "check"
            BY <2>3 DEF CheckDownlinkDeadline, DownlinkAt
        <3>2. \/ downlink' = [downlink EXCEPT !.pc = "done"] /\ now >= downlink.deadline
              \/ downlink' = [downlink EXCEPT !.pc = "drain", !.popped = 0]
            BY <2>3 DEF CheckDownlinkDeadline
        <3> QED BY <1>1, <2>1, <3>1, <3>2 DEF DownlinkRecord
    <2>4. CASE DrainOne
        <3>1. downlink' = [downlink EXCEPT !.popped = @ + 1] /\ downlink.pc = "drain"
            BY <2>4 DEF DrainOne, DownlinkAt
        <3> QED BY <1>1, <2>1, <3>1 DEF DownlinkRecord
    <2>5. CASE EndRound
        <3>1. downlink' = [downlink EXCEPT !.pc = "sleep", !.popped = 0]
            BY <2>5 DEF EndRound
        <3>2. downlink.pc = "drain"
            BY <2>5 DEF EndRound, DownlinkAt
        <3> QED BY <1>1, <2>1, <3>1, <3>2 DEF DownlinkRecord
    <2>6. CASE NextRound
        <3>1. downlink' = [downlink EXCEPT !.pc = "check"]
            BY <2>6 DEF NextRound
        <3>2. downlink.pc = "sleep"
            BY <2>6 DEF NextRound, DownlinkAt
        <3> QED BY <1>1, <2>1, <3>1, <3>2 DEF DownlinkRecord
    <2> QED BY <1>2, <2>2, <2>3, <2>4, <2>5, <2>6 DEF DownlinkThread
<1>3. CASE ~ DownlinkThread
    BY <1>3 DEF SystemNext, SystemTick, Main, SchedulerThread, InjectorThread, SensorThread,
                systemVars
<1> QED BY <1>2, <1>3

LEMMA NextKeepsStranded ==
    ASSUME "downlink" \in Prompt, SystemInv, StrandedInv, [SystemNext]_systemVars
    PROVE  StrandedInv'
<1> DEFINE LastOnly == \A r \in ToSet(items) : r.cycle = sensor[r.sensor].cycle
           late == downlink.pc \in {"check", "drain", "sleep"}
                     => downlink.deadline >= RunDuration
           done == downlink.pc = "done" => now >= RunDuration
<1>1. /\ CoreInv /\ ThreadsTyped /\ FaultsTyped /\ MainTyped
      /\ now \in Nat /\ RunDuration \in Nat /\ downlink \in DownlinkRecord
      /\ items \in Seq(SensorReading)
    BY CampaignAssumption DEF SystemInv, CoreInv, FaultsTyped, MainTyped, ReadingsInv,
                              BufferTypeOK
<1>2. now' = now \/ now' = now + 1
    BY SystemNextIsAnyStep DEF AnyStep, TimePasses, Drain, Injector, Sensor, vars
<1>3. late' /\ done'
    <2>1. late /\ done
        BY DEF StrandedInv
    <2>2. downlink.deadline \in Nat
        BY <1>1 DEF DownlinkRecord
    <2>3. CASE UNCHANGED downlink
        BY <1>1, <1>2, <2>1, <2>3
    <2>4. CASE ~ UNCHANGED downlink
        BY <1>1, <2>1, <2>2, <2>4, DownlinkSteps
    <2> QED BY <2>3, <2>4
<1>4. downlink'.pc # "panicked" => downlink.pc # "panicked"
    BY <1>1, DownlinkSteps
<1>5. ASSUME now' >= RunDuration, downlink'.pc # "panicked"
      PROVE  LastOnly'
    <2>1. CASE SystemTick
        <3>1. CASE now >= RunDuration
            BY <1>4, <1>5, <2>1, <3>1 DEF SystemTick, StrandedInv, bufferVars
        <3>2. CASE now < RunDuration
            <4>1. ~ DownlinkBusy /\ downlink.pc # "panicked" /\ downlink.pc # "done"
                BY <1>1, <1>4, <1>5, <2>1, <3>2 DEF SystemTick, StrandedInv
            <4>2. downlink.pc = "sleep"
                BY <1>1, <4>1 DEF DownlinkBusy, DownlinkRecord
            <4>3. items = <<>>
                BY <4>1, <4>2 DEF DownlinkBusy, DownlinkAt
            <4>4. items' = items
                BY <2>1 DEF SystemTick, bufferVars
            <4> QED BY <4>3, <4>4 DEF ToSet
        <3> QED BY <1>1, <3>1, <3>2
    <2>2. ASSUME now' = now PROVE LastOnly
        BY <1>4, <1>5, <2>2 DEF StrandedInv
    <2>3. CASE Main \/ SchedulerThread \/ InjectorThread \/ UNCHANGED systemVars
        BY <2>2, <2>3 DEF Main, SchedulerThread, InjectorThread, Injector, systemVars, vars,
                          bufferVars
    <2>4. CASE DownlinkThread
        <3>1. now' = now /\ sensor' = sensor
            BY <2>4 DEF DownlinkThread
        <3>2. ToSet(items') \subseteq ToSet(items)
            <4>1. CASE DrainOne
                BY <1>1, <4>1, PopFacts DEF DrainOne, CoreInv, ReadingsInv
            <4>2. CASE ~ DrainOne
                BY <2>4, <4>2 DEF DownlinkThread, StartDownlink, CheckDownlinkDeadline,
                                  EndRound, NextRound, bufferVars
            <4> QED BY <4>1, <4>2
        <3> QED BY <2>2, <3>1, <3>2
    <2>5. ASSUME NEW s \in SensorType, SensorThread(s)
          PROVE  LastOnly'
        <3>1. SensorStep(s) /\ now' = now
            BY <2>5 DEF SensorThread, Sensor
        <3>2. \A t \in SensorType : sensor'[t].cycle = sensor[t].cycle
            BY <1>1, <1>5, <3>1, SensorMoves, CycleSteps
        <3>3. \A r \in ToSet(items) : r.sensor \in SensorType
            <4>1. \A r \in ToSet(items) : r \in SensorReading
                BY <1>1, ToSetFacts
            <4> QED BY <4>1 DEF SensorReading
        <3>4. LastOnly
            BY <2>2, <3>1
        <3>5. CASE PushReading(s)
            <4> DEFINE r == sensor[s].reading
            <4>1. /\ r.sensor = s /\ r.cycle = sensor[s].cycle
                  /\ \A x \in ToSet(items') : x \in ToSet(items) \/ x = r
                BY <1>1, <3>5, PushOutcome
            <4> HIDE DEF r
            <4> QED BY <3>2, <3>3, <3>4, <4>1
        <3>6. CASE ~ PushReading(s)
            <4>1. items' = items
                BY <1>1, <3>1, <3>6, NoPushFacts DEF bufferVars
            <4> QED BY <3>2, <3>3, <3>4, <4>1
        <3> QED BY <3>5, <3>6
    <2> QED BY <2>1, <2>3, <2>4, <2>5 DEF SystemNext
<1> QED BY <1>3, <1>5 DEF StrandedInv

\* OnlyLastReadingsStranded: a downlink that is never kept from the processor
\* leaves at most the last reading of each sensor behind, however late the others
\* run and whatever the capacity and the size of a round.
THEOREM LastReadingsOnly ==
    ASSUME "downlink" \in Prompt
    PROVE  SystemSpec => []OnlyLastReadingsStranded
<1>1. SystemInit => StrandedInv
    BY DEF SystemInit, Init, BufferInit, StrandedInv, ToSet
<1>2. SystemInv /\ StrandedInv /\ [SystemNext]_systemVars => StrandedInv'
    BY NextKeepsStranded
<1>3. SystemInv /\ StrandedInv => OnlyLastReadingsStranded
    <2> SUFFICES ASSUME SystemInv, StrandedInv, DownlinkAt("done"),
                        NEW i \in 1 .. Len(items)
                 PROVE  items[i].cycle = sensor[items[i].sensor].cycle
        BY DEF OnlyLastReadingsStranded
    <2>1. items[i] \in ToSet(items)
        BY ToSetFacts DEF SystemInv, CoreInv, ReadingsInv, BufferTypeOK
    <2> QED BY <2>1 DEF StrandedInv, DownlinkAt
<1> QED BY <1>1, <1>2, <1>3, SystemInvHolds, PTL DEF SystemSpec

\* While no downlink has started, the losses of Thermal are those of a buffer that
\* holds nothing but Thermal's readings, and every fourth has raised an alert.
SilentInv ==
    LET m == metrics["Thermal"] IN
    downlink.pc \in {"start", "panicked"} =>
        /\ delivered = {}
        /\ m.dropped = 4 * m.alerts + sensor["Thermal"].miss
        /\ m.dropped # 0 => /\ Len(items) = Capacity
                            /\ \A r \in ToSet(items) : r.sensor = "Thermal"

\* main has collected the alerts of Thermal, which it joins first; there are no
\* others.
CollectedInv ==
    main.alerts = IF main.joined = 0 THEN 0 ELSE metrics["Thermal"].alerts

LEMMA PushKeepsSilent ==
    ASSUME CoreInv, SilentInv, NEW s \in SensorType, PushReading(s),
           UNCHANGED <<delivered, downlink>>
    PROVE  SilentInv'
<1> DEFINE m == metrics["Thermal"]
           x == sensor["Thermal"]
           r == sensor[s].reading
<1>1. /\ ThreadsTyped /\ FaultsTyped /\ "Thermal" \in SensorType /\ SensorStep(s)
      /\ items \in Seq(SensorReading)
    BY DEF CoreInv, ReadingsInv, BufferTypeOK, SensorType, SensorStep
<1>2. /\ r \in SensorReading /\ r.sensor = s
      /\ \A y \in ToSet(items') : y \in ToSet(items) \/ y = r
      /\ ~ Accepts(r) <=> /\ Len(items) = Capacity
                          /\ \A y \in ToSet(items) : PriorityOf(y) <= PriorityOf(r)
      /\ ~ Accepts(r) => items' = items
    BY PushOutcome
<1>3. /\ \A t \in SensorType : t # s => /\ sensor'[t] = sensor[t]
                                        /\ metrics'[t] = metrics[t]
      /\ metrics'[s].dropped = metrics[s].dropped + IF Accepts(r) THEN 0 ELSE 1
      /\ metrics'[s].alerts = metrics[s].alerts
           + IF ~ Accepts(r) /\ RaisesAlert(s) THEN 1 ELSE 0
    BY <1>1, SensorMoves, PushCounts
<1>4. sensor'[s].miss = IF Accepts(r) \/ RaisesAlert(s) THEN 0 ELSE sensor[s].miss + 1
    <2>1. PICK k \in Nat :
            /\ k = IF Accepts(sensor[s].reading) \/ RaisesAlert(s) THEN 0
                                                              ELSE sensor[s].miss + 1
            /\ Moves(s, "top", sensor[s].cycle, sensor[s].scheduled + Period[s],
                     sensor[s].wake, k, NoReading(s))
        BY <1>1, SensorSteps
    <2>2. sensor'[s].miss = k
        BY <2>1 DEF Moves
    <2> QED BY <2>1, <2>2
<1>5. m.dropped \in Nat /\ m.alerts \in Nat /\ x.miss \in Nat /\ x.miss <= 3
    <2>1. m \in MetricsRecord
        BY <1>1 DEF ThreadsTyped
    <2>2. x.miss \in Nat
        BY <1>1, RecordFacts
    <2>3. x.miss <= MissThreshold
        BY <1>1 DEF ThreadsTyped, IsCritical
    <2> QED BY <2>1, <2>2, <2>3 DEF MetricsRecord, MissThreshold
<1>6. RaisesAlert("Thermal") <=> x.miss + 1 > 3
    BY DEF RaisesAlert, IsCritical, MissThreshold
\* Only Thermal's own readings are as important as Thermal's.
<1>7. ASSUME NEW y \in SensorReading, NEW z \in SensorReading, z.sensor = "Thermal"
      PROVE  PriorityOf(y) <= PriorityOf(z) <=> y.sensor = "Thermal"
    <2>1. y.sensor \in {"Thermal", "Power", "Attitude"}
        BY DEF SensorReading, SensorType
    <2>2. PriorityOf(z) = 0 /\ (y.sensor # "Thermal" => PriorityOf(y) \in {1, 2})
          /\ (y.sensor = "Thermal" => PriorityOf(y) = 0)
        BY <1>7, <2>1 DEF PriorityOf, Priority, SensorType
    <2> QED BY <2>2
<1>8. \A y \in ToSet(items) : y \in SensorReading
    BY <1>1, ToSetFacts
<1> SUFFICES ASSUME downlink.pc \in {"start", "panicked"}
             PROVE  /\ delivered' = {}
                    /\ m'.dropped = 4 * m'.alerts + x'.miss
                    /\ m'.dropped # 0 => /\ Len(items') = Capacity
                                         /\ \A y \in ToSet(items') : y.sensor = "Thermal"
    BY DEF SilentInv
<1>9. /\ delivered = {} /\ m.dropped = 4 * m.alerts + x.miss
      /\ m.dropped # 0 => /\ Len(items) = Capacity
                          /\ \A y \in ToSet(items) : y.sensor = "Thermal"
    BY DEF SilentInv
<1>10. m.dropped # 0 => ~ Accepts(r)
    <2> SUFFICES ASSUME m.dropped # 0, NEW y \in ToSet(items)
                 PROVE  PriorityOf(y) <= PriorityOf(r)
        BY <1>2, <1>9
    <2>1. y.sensor = "Thermal" /\ y \in SensorReading
        BY <1>8, <1>9
    <2>2. PriorityOf(y) = 0
        BY <2>1 DEF PriorityOf, Priority, SensorType
    <2>3. PriorityOf(r) \in Nat
        BY <1>2, PriorityOfNat
    <2> QED BY <2>2, <2>3
<1> HIDE DEF r
<1>11. CASE s = "Thermal"
    <2>1. CASE Accepts(r)
        <3>1. m.dropped = 0 /\ m.alerts = 0 /\ x.miss = 0
            BY <1>5, <1>9, <1>10, <2>1
        <3>2. m'.dropped = 0 /\ m'.alerts = 0 /\ x'.miss = 0
            BY <1>3, <1>4, <1>11, <2>1, <3>1
        <3> QED BY <1>9, <3>2
    <2>2. CASE ~ Accepts(r)
        <3>1. /\ m'.dropped = m.dropped + 1
              /\ m'.alerts = m.alerts + IF x.miss + 1 > 3 THEN 1 ELSE 0
              /\ x'.miss = IF x.miss + 1 > 3 THEN 0 ELSE x.miss + 1
            BY <1>3, <1>4, <1>6, <1>11, <2>2
        <3>2. m'.dropped = 4 * m'.alerts + x'.miss
            <4>1. PICK d, a, k : d = m.dropped /\ a = m.alerts /\ k = x.miss
                OBVIOUS
            <4>2. a \in Nat /\ k \in 0 .. 3 /\ d = 4 * a + k
                BY <1>5, <1>9, <4>1
            <4>3. CASE k = 3
                <5>1. /\ m'.dropped = d + 1 /\ m'.alerts = a + 1
                      /\ x'.miss = 0
                    BY <3>1, <4>1, <4>2, <4>3
                <5> QED BY <4>2, <4>3, <5>1
            <4>4. CASE k # 3
                <5>1. /\ m'.dropped = d + 1 /\ m'.alerts = a
                      /\ x'.miss = k + 1
                    BY <3>1, <4>1, <4>2, <4>4
                <5> QED BY <4>2, <5>1
            <4> QED BY <4>3, <4>4
        <3>3. \A y \in ToSet(items) : y.sensor = "Thermal"
            BY <1>2, <1>7, <1>8, <1>11, <2>2
        <3> QED BY <1>2, <1>9, <2>2, <3>2, <3>3
    <2> QED BY <2>1, <2>2
<1>12. CASE s # "Thermal"
    <2>1. m' = m /\ x' = x
        BY <1>1, <1>3, <1>12
    <2>2. m.dropped # 0 => items' = items
        BY <1>2, <1>10
    <2> QED BY <1>9, <2>1, <2>2
<1> QED BY <1>11, <1>12

LEMMA NextKeepsSilent ==
    ASSUME SystemInv, SilentInv, [SystemNext]_systemVars
    PROVE  SilentInv'
<1>1. /\ CoreInv /\ ThreadsTyped /\ FaultsTyped /\ MainTyped /\ "Thermal" \in SensorType
    BY DEF SystemInv, CoreInv, SensorType
<1>2. downlink'.pc \in {"start", "panicked"} => downlink.pc \in {"start", "panicked"}
    BY <1>1, DownlinkSteps
<1>3. ASSUME UNCHANGED <<items, metrics, delivered>>,
             sensor'["Thermal"].miss = sensor["Thermal"].miss
      PROVE  SilentInv'
    BY <1>2, <1>3 DEF SilentInv
<1>4. CASE SystemTick \/ Main \/ SchedulerThread \/ InjectorThread \/ UNCHANGED systemVars
    BY <1>3, <1>4 DEF SystemTick, Main, SchedulerThread, InjectorThread, Injector,
                      systemVars, vars, bufferVars
<1>5. CASE DownlinkThread
    <2>1. CASE DrainOne
        <3>1. downlink.pc = "drain" /\ downlink' = [downlink EXCEPT !.popped = @ + 1]
            BY <2>1 DEF DrainOne, DownlinkAt
        <3>2. downlink'.pc = "drain"
            BY <1>1, <3>1 DEF MainTyped, DownlinkRecord
        <3> QED BY <3>2 DEF SilentInv
    <2>2. CASE ~ DrainOne
        BY <1>3, <1>5, <2>2 DEF DownlinkThread, StartDownlink, CheckDownlinkDeadline,
                                EndRound, NextRound, bufferVars
    <2> QED BY <2>1, <2>2
<1>6. ASSUME NEW s \in SensorType, SensorThread(s)
      PROVE  SilentInv'
    <2>1. SensorStep(s) /\ UNCHANGED <<delivered, downlink>>
        BY <1>6 DEF SensorThread, Sensor
    <2>2. CASE PushReading(s)
        BY <1>1, <2>1, <2>2, PushKeepsSilent
    <2>3. CASE ~ PushReading(s)
        <3>1. sensor'[s].miss = sensor[s].miss /\ UNCHANGED <<bufferVars, metrics>>
            BY <1>1, <2>1, <2>3, NoPushFacts
        <3>2. \A t \in SensorType : t # s => sensor'[t] = sensor[t]
            BY <1>1, <2>1, SensorMoves
        <3>3. sensor'["Thermal"].miss = sensor["Thermal"].miss
            BY <1>1, <3>1, <3>2
        <3> QED BY <1>3, <2>1, <3>1, <3>3 DEF bufferVars
    <2> QED BY <2>2, <2>3
<1> QED BY <1>4, <1>5, <1>6 DEF SystemNext

LEMMA NextKeepsCollected ==
    ASSUME SystemInv, AlertsInv, CollectedInv, [SystemNext]_systemVars
    PROVE  CollectedInv'
<1> DEFINE m == metrics["Thermal"]
<1>1. /\ CoreInv /\ ThreadsTyped /\ FaultsTyped /\ MainTyped /\ JoinsInv
      /\ "Thermal" \in SensorType /\ main \in MainRecord /\ main.joined \in 0 .. 6
      /\ m.alerts \in Nat
    BY DEF SystemInv, CoreInv, SensorType, MainTyped, MainRecord, ThreadsTyped,
           MetricsRecord
<1>2. JoinOrder[1] = "Thermal"
    BY DEF JoinOrder
<1>3. main.joined # 0 => At("Thermal", "done")
    <2> SUFFICES ASSUME main.joined # 0 PROVE At("Thermal", "done")
        OBVIOUS
    <2>1. 1 \in 1 .. main.joined
        BY <1>1
    <2>2. Ended(JoinOrder[1])
        BY <1>1, <2>1 DEF JoinsInv
    <2> QED BY <1>1, <1>2, <2>2, EndedFacts
<1>4. CASE Join
    <2> DEFINE t == JoinOrder[main.joined + 1]
    <2>1. PICK a : a = IF t \in SensorType THEN metrics[t].alerts ELSE 0
        OBVIOUS
    <2>2. main' = [main EXCEPT !.joined = @ + 1, !.alerts = @ + a]
        BY <1>4, <2>1 DEF Join
    <2>3. main'.alerts = main.alerts + a /\ main'.joined = main.joined + 1
        BY <1>1, <2>2 DEF MainRecord
    <2>4. main.joined \in 0 .. 5
        BY <1>1, <1>4, JoinFacts
    <2>5. metrics' = metrics
        <3>1. main' # main
            BY <1>1, <2>3
        <3> QED BY <3>1, MainStays DEF Main, vars
    <2>6. CASE main.joined = 0
        <3>1. t = "Thermal" /\ main.alerts = 0
            BY <1>2, <2>6 DEF CollectedInv
        <3>2. a = m.alerts
            BY <1>1, <2>1, <3>1
        <3>3. main'.alerts = m.alerts
            BY <1>1, <2>3, <3>1, <3>2
        <3>4. main'.joined # 0
            BY <2>3, <2>6
        <3> QED BY <2>5, <3>3, <3>4 DEF CollectedInv
    <2>7. CASE main.joined # 0
        <3>1. t # "Thermal"
            <4>1. main.joined + 1 \in {2, 3, 4, 5, 6}
                BY <2>4, <2>7
            <4> QED BY <4>1 DEF JoinOrder
        <3>2. a = 0
            BY <2>1, <3>1 DEF AlertsInv
        <3>3. main.alerts = m.alerts
            BY <2>7 DEF CollectedInv
        <3>4. main'.alerts = m.alerts /\ main'.joined # 0
            BY <1>1, <2>3, <2>4, <3>2, <3>3
        <3> QED BY <2>5, <3>4 DEF CollectedInv
    <2> QED BY <2>6, <2>7
<1>5. CASE ~ Join
    <2>1. main'.alerts = main.alerts /\ main'.joined = main.joined
        <3>1. CASE UNCHANGED main
            BY <3>1
        <3>2. CASE ReportReadings
            BY <1>1, <3>2 DEF ReportReadings, MainRecord
        <3>3. CASE ReportBenchmark
            BY <1>1, <3>3 DEF ReportBenchmark, MainRecord
        <3>4. CASE WriteFinalReport
            <4>1. PICK st, d, a :
                    main' = [main EXCEPT !.pc = "end", !.verdict.mission_status = st,
                                         !.verdict.zero_drops = d,
                                         !.verdict.zero_alerts = a]
                BY <3>4 DEF WriteFinalReport
            <4> QED BY <1>1, <4>1 DEF MainRecord
        <3> QED BY <1>5, <3>1, <3>2, <3>3, <3>4, MainStays DEF Main
    <2>2. main.joined # 0 => metrics'["Thermal"] = m
        <3> SUFFICES ASSUME At("Thermal", "done") PROVE metrics'["Thermal"] = m
            BY <1>3
        <3>1. CASE UNCHANGED metrics
            BY <3>1
        <3>2. ASSUME NEW s \in SensorType, Sensor(s)
              PROVE  metrics'["Thermal"] = m
            <4>1. SensorStep(s)
                BY <3>2 DEF Sensor
            <4>2. CASE PushReading(s)
                <5>1. s # "Thermal"
                    BY <4>2 DEF PushReading, At
                <5> QED BY <1>1, <4>2, <5>1, PushCounts
            <4>3. CASE ~ PushReading(s)
                BY <1>1, <4>1, <4>3, NoPushFacts
            <4> QED BY <4>2, <4>3
        <3>3. CASE TimePasses \/ Drain \/ Injector \/ UNCHANGED vars
            BY <3>1, <3>3 DEF TimePasses, Drain, Injector, vars
        <3> QED BY <3>2, <3>3, SystemNextIsAnyStep DEF AnyStep
    <2> QED BY <2>1, <2>2 DEF CollectedInv
<1> QED BY <1>4, <1>5

\* What Thermal has lost, when nobody ever took a reading.
LEMMA LossesAreExcess ==
    ASSUME CoreInv, SilentInv, downlink.pc = "panicked"
    PROVE  metrics["Thermal"].dropped = IF Excess > 0 THEN Excess ELSE 0
<1> DEFINE m == metrics["Thermal"]
           Q == {i \in 1 .. Len(items) : items[i].sensor = "Thermal"}
<1>1. /\ "Thermal" \in SensorType /\ ThreadsTyped /\ ReadingsInv
      /\ items \in Seq(SensorReading) /\ Len(items) \in Nat
      /\ Len(items) <= Capacity /\ Capacity \in Nat
      /\ m.dropped \in Nat /\ m.cycles \in Nat
    BY CapacityAssumption DEF CoreInv, ReadingsInv, BufferTypeOK, SensorType,
                              ThreadsTyped, MetricsRecord
<1>2. /\ m.cycles = Cardinality(Dropped("Thermal")) + Cardinality(Q)
                      + Cardinality({r \in delivered : r.sensor = "Thermal"})
      /\ m.dropped = Cardinality(Dropped("Thermal") \ Logged("Thermal"))
    BY <1>1, ReadingsAreCounted DEF CountersMatchLogs
<1>3. Dropped("Thermal") \ Logged("Thermal") = Dropped("Thermal")
    BY <1>1 DEF ReadingsInv, Balance
<1>4. /\ delivered = {}
      /\ m.dropped # 0 => /\ Len(items) = Capacity
                          /\ \A r \in ToSet(items) : r.sensor = "Thermal"
    BY DEF SilentInv
<1>5. Cardinality({r \in delivered : r.sensor = "Thermal"}) = 0
    <2>1. {r \in delivered : r.sensor = "Thermal"} = {}
        BY <1>4
    <2> QED BY <2>1, FS_EmptySet
<1>6. IsFiniteSet(1 .. Len(items)) /\ Cardinality(1 .. Len(items)) = Len(items)
    <2>1. \A n \in Nat : IsFiniteSet(1 .. n) /\ Cardinality(1 .. n) = n
        BY FS_Interval
    <2> QED BY <1>1, <2>1
<1>7. Cardinality(Q) \in Nat /\ Cardinality(Q) <= Len(items)
    <2>1. Q \subseteq 1 .. Len(items)
        OBVIOUS
    <2> HIDE DEF Q
    <2>2. IsFiniteSet(Q) /\ Cardinality(Q) <= Cardinality(1 .. Len(items))
        BY <1>6, <2>1, FS_Subset
    <2> QED BY <1>6, <2>2, FS_CardinalityType
<1>8. m.dropped # 0 => Cardinality(Q) = Capacity
    <2> SUFFICES ASSUME m.dropped # 0 PROVE Cardinality(Q) = Capacity
        OBVIOUS
    <2>1. \A i \in 1 .. Len(items) : items[i].sensor = "Thermal"
        BY <1>1, <1>4, ToSetFacts
    <2>2. Q = 1 .. Len(items)
        BY <2>1
    <2> QED BY <1>4, <1>6, <2>2
<1> HIDE DEF Q
<1>9. m.cycles = m.dropped + Cardinality(Q)
    <2>1. Cardinality(Dropped("Thermal")) = m.dropped
        BY <1>2, <1>3
    <2>2. m.cycles = m.dropped + Cardinality(Q) + 0
        BY <1>2, <1>5, <2>1
    <2> QED BY <1>1, <1>7, <2>2
<1> QED BY <1>1, <1>7, <1>8, <1>9 DEF Excess

\* DeadDownlinkRaisesAlerts: the failure of the downlink shows in the alerts that
\* main collects, one for every four readings beyond the capacity, for every
\* capacity and however the sensor threads are interleaved.
THEOREM DeadDownlinkIsHeard == SystemSpec => []DeadDownlinkRaisesAlerts
<1>1. SystemInit => SilentInv /\ CollectedInv
    <2> SUFFICES ASSUME SystemInit PROVE SilentInv /\ CollectedInv
        OBVIOUS
    <2>1. "Thermal" \in SensorType
        BY DEF SensorType
    <2>2. /\ delivered = {} /\ metrics["Thermal"].dropped = 0
          /\ metrics["Thermal"].alerts = 0 /\ sensor["Thermal"].miss = 0
        BY <2>1 DEF SystemInit, Init
    <2>3. main.alerts = 0 /\ main.joined = 0
        BY DEF SystemInit
    <2> QED BY <2>2, <2>3 DEF SilentInv, CollectedInv
<1>2. SystemInit => AlertsInv
    BY InitIsAlerts DEF SystemInit
<1>3. SystemInv /\ AlertsInv /\ [SystemNext]_systemVars => AlertsInv'
    BY SystemNextIsAnyStep, NextKeepsAlerts DEF SystemInv
<1>4. SystemInv /\ AlertsInv /\ SilentInv /\ CollectedInv /\ [SystemNext]_systemVars
        => SilentInv' /\ CollectedInv'
    BY NextKeepsSilent, NextKeepsCollected
<1>5. SystemInv /\ SilentInv /\ CollectedInv => DeadDownlinkRaisesAlerts
    <2> SUFFICES ASSUME SystemInv, SilentInv, CollectedInv,
                        DownlinkAt("panicked"), main.pc # "join"
                 PROVE  LET losses == IF Excess > 0 THEN Excess ELSE 0
                        IN  /\ metrics["Thermal"].dropped = losses
                            /\ main.alerts = losses \div (MissThreshold + 1)
        BY DEF DeadDownlinkRaisesAlerts
    <2> DEFINE m == metrics["Thermal"]
    <2>1. downlink.pc = "panicked" /\ CoreInv
        BY DEF DownlinkAt, SystemInv
    <2>2. m.dropped = IF Excess > 0 THEN Excess ELSE 0
        BY <2>1, LossesAreExcess
    <2>3. main.alerts = m.alerts
        BY DEF SystemInv, JoinsInv, CollectedInv
    <2>4. m.dropped = 4 * m.alerts + sensor["Thermal"].miss
        BY <2>1 DEF SilentInv
    <2>5. /\ m.alerts \in Nat /\ sensor["Thermal"].miss \in Nat
          /\ sensor["Thermal"].miss <= 3
        <3>1. ThreadsTyped /\ "Thermal" \in SensorType
            BY <2>1 DEF CoreInv, SensorType
        <3>2. m \in MetricsRecord /\ sensor["Thermal"].miss <= MissThreshold
            BY <3>1 DEF ThreadsTyped, IsCritical
        <3>3. sensor["Thermal"].miss \in Nat
            BY <3>1, RecordFacts
        <3> QED BY <3>2, <3>3 DEF MetricsRecord, MissThreshold
    <2>6. \A a, k \in Nat : k <= 3 => (4 * a + k) \div 4 = a
        OBVIOUS
    <2>7. m.alerts = m.dropped \div 4
        BY <2>4, <2>5, <2>6
    <2>8. MissThreshold + 1 = 4
        BY DEF MissThreshold
    <2> QED BY <2>2, <2>3, <2>7, <2>8
<1> QED BY <1>1, <1>2, <1>3, <1>4, <1>5, SystemInvHolds, PTL DEF SystemSpec

-----------------------------------------------------------------------------
(* The verdicts.                                                           *)

\* What main has reported so far is what the records still say.
ReportedInv ==
    LET v == main.verdict IN
    /\ main.pc # "join" => v.total_dropped = TotalDropped
    /\ main.pc \in {"log", "end"} => v.nominal = ~ mission_aborted
    /\ main.pc = "end" =>
         /\ v.mission_status = IF mission_aborted THEN "DEGRADED" ELSE "NOMINAL"
         /\ v.zero_drops <=> \A s \in SensorType : metrics[s].dropped = 0
         /\ v.zero_alerts <=> \A s \in SensorType : metrics[s].alerts = 0

LEMMA MainKeepsReported ==
    ASSUME SystemInv, ReportedInv, Main
    PROVE  ReportedInv'
<1>1. /\ main \in MainRecord /\ main.verdict \in Verdict
      /\ UNCHANGED <<dropped_log, mission_aborted, metrics>>
    BY DEF SystemInv, MainTyped, MainRecord, Main, vars, bufferVars, faultVars
<1>2. TotalDropped' = TotalDropped
    BY <1>1 DEF TotalDropped
<1>3. CASE Join
    <2>1. main'.pc = "join"
        BY <1>3, JoinFacts DEF SystemInv, CoreInv
    <2> QED BY <2>1 DEF ReportedInv
<1>4. CASE ReportReadings
    <2>1. PICK n : n = TotalDropped
        OBVIOUS
    <2>2. main' = [main EXCEPT !.pc = "report", !.verdict.total_dropped = n]
        BY <1>4, <2>1 DEF ReportReadings
    <2>3. main'.pc = "report" /\ main'.verdict.total_dropped = n
        BY <1>1, <2>2 DEF MainRecord, Verdict
    <2> QED BY <1>2, <2>1, <2>3 DEF ReportedInv
<1>5. CASE ReportBenchmark
    <2>1. PICK b : b = ~ mission_aborted
        OBVIOUS
    <2>2. main.pc = "report" /\ main' = [main EXCEPT !.pc = "log", !.verdict.nominal = b]
        BY <1>5, <2>1 DEF ReportBenchmark
    <2>3. /\ main'.pc = "log" /\ main'.verdict.nominal = b
          /\ main'.verdict.total_dropped = main.verdict.total_dropped
        BY <1>1, <2>2 DEF MainRecord, Verdict
    <2> QED BY <1>1, <1>2, <2>1, <2>2, <2>3 DEF ReportedInv
<1>6. CASE WriteFinalReport
    <2>1. PICK st : st = IF mission_aborted THEN "DEGRADED" ELSE "NOMINAL"
        OBVIOUS
    <2>2. PICK d : d = \A s \in SensorType : metrics[s].dropped = 0
        OBVIOUS
    <2>3. PICK a : a = \A s \in SensorType : metrics[s].alerts = 0
        OBVIOUS
    <2>4. main' = [main EXCEPT !.pc = "end", !.verdict.mission_status = st,
                               !.verdict.zero_drops = d, !.verdict.zero_alerts = a]
        BY <1>6, <2>1, <2>2, <2>3 DEF WriteFinalReport
    <2>5. main.pc = "log"
        BY <1>6 DEF WriteFinalReport
    <2>6. /\ main'.pc = "end" /\ main'.verdict.mission_status = st
          /\ main'.verdict.zero_drops = d /\ main'.verdict.zero_alerts = a
          /\ main'.verdict.nominal = main.verdict.nominal
          /\ main'.verdict.total_dropped = main.verdict.total_dropped
        BY <1>1, <2>4 DEF MainRecord, Verdict
    <2>7. /\ main'.verdict.total_dropped = TotalDropped'
          /\ main'.verdict.nominal = ~ mission_aborted'
        BY <1>1, <1>2, <2>5, <2>6 DEF ReportedInv
    <2>8. /\ main'.verdict.mission_status = IF mission_aborted' THEN "DEGRADED" ELSE "NOMINAL"
          /\ main'.verdict.zero_drops <=> \A s \in SensorType : metrics'[s].dropped = 0
          /\ main'.verdict.zero_alerts <=> \A s \in SensorType : metrics'[s].alerts = 0
        BY <1>1, <2>1, <2>2, <2>3, <2>6
    <2> QED BY <2>6, <2>7, <2>8 DEF ReportedInv
<1> QED BY <1>3, <1>4, <1>5, <1>6 DEF Main

LEMMA NextKeepsReported ==
    ASSUME SystemInv, ReportedInv, [SystemNext]_systemVars
    PROVE  ReportedInv'
<1>1. CASE Main
    BY <1>1, MainKeepsReported
<1>2. CASE UNCHANGED main
    <2>1. CASE main.pc = "join"
        BY <1>2, <2>1 DEF ReportedInv
    <2>2. CASE main.pc # "join"
        <3>1. UNCHANGED <<dropped_log, mission_aborted, metrics>>
            BY <2>2, ReportsAreFinal DEF vars, bufferVars, faultVars
        <3>2. TotalDropped' = TotalDropped
            BY <3>1 DEF TotalDropped
        <3> QED BY <1>2, <3>1, <3>2 DEF ReportedInv
    <2> QED BY <2>1, <2>2
<1> QED BY <1>1, <1>2, MainStays

\* What the sensors counted as dropped, the buffer refused.
LEMMA DropsAreRefusals ==
    ASSUME SystemInv, NEW s \in SensorType
    PROVE  metrics[s].dropped = 0 <=> Dropped(s) \subseteq Logged(s)
<1> DEFINE R == Dropped(s) \ Logged(s)
<1>1. metrics[s].dropped = Cardinality(R)
    BY ReadingsAreCounted DEF SystemInv, CoreInv, CountersMatchLogs
<1>2. IsFiniteSet(R)
    <2> DEFINE n == Pushed(s)
    <2>1. ThreadsTyped /\ ReadingsInv
        BY DEF SystemInv, CoreInv
    <2>2. n \in Nat
        BY <2>1, RecordFacts DEF Pushed, ThreadsTyped
    <2>3. Dropped(s) \subseteq 1 .. n
        BY <2>1 DEF ReadingsInv, Balance
    <2> HIDE DEF n
    <2>4. R \subseteq 1 .. n
        BY <2>3
    <2> HIDE DEF R
    <2> QED BY <2>2, <2>4, SubsetOfInterval
<1> HIDE DEF R
<1>3. Cardinality(R) = 0 <=> R = {}
    BY <1>2, FS_EmptySet
<1> QED BY <1>1, <1>3 DEF R

\* ReportsAgree: the verdicts read from the fault log's flag, the sensors' counters,
\* the buffer's log and the alerts handed over say the same, because each pair of
\* records agrees throughout and none of them changes while main reports.
THEOREM VerdictsAgree == SystemSpec => []ReportsAgree
<1> DEFINE AllInv == AlertsInv /\ CollectedInv /\ VerdictInv /\ ReportedInv
<1>1. SystemInit => AllInv
    <2> SUFFICES ASSUME SystemInit PROVE AllInv
        OBVIOUS
    <2>1. AlertsInv /\ VerdictInv
        BY InitIsAlerts, InitIsFaults DEF SystemInit, FaultsInv
    <2>2. main.pc = "join" /\ main.alerts = 0 /\ main.joined = 0
        BY DEF SystemInit
    <2> QED BY <2>1, <2>2 DEF CollectedInv, ReportedInv
<1>2. SystemInv /\ AllInv /\ [SystemNext]_systemVars => AllInv'
    <2> SUFFICES ASSUME SystemInv, AllInv, [SystemNext]_systemVars PROVE AllInv'
        OBVIOUS
    <2>1. AnyStep /\ CoreInv /\ FaultsTyped
        BY SystemNextIsAnyStep DEF SystemInv, CoreInv
    <2>2. AlertsInv' /\ VerdictInv'
        BY <2>1, NextKeepsAlerts, NextKeepsVerdict
    <2>3. CollectedInv' /\ ReportedInv'
        BY NextKeepsCollected, NextKeepsReported
    <2> QED BY <2>2, <2>3
<1>3. SystemInv /\ AllInv => ReportsAgree
    <2> SUFFICES ASSUME SystemInv, AllInv, main.pc = "end" PROVE ReportsAgree
        BY DEF ReportsAgree
    <2> DEFINE v == main.verdict
    <2>1. /\ v.total_dropped = TotalDropped /\ v.nominal = ~ mission_aborted
          /\ v.mission_status = IF mission_aborted THEN "DEGRADED" ELSE "NOMINAL"
        BY DEF ReportedInv
    <2>2. v.zero_drops <=> \A s \in SensorType : Dropped(s) \subseteq Logged(s)
        BY DropsAreRefusals DEF ReportedInv
    <2>3. v.zero_alerts <=> main.alerts = 0
        <3>1. main.alerts = metrics["Thermal"].alerts /\ "Thermal" \in SensorType
            BY DEF SystemInv, JoinsInv, CollectedInv, SensorType
        <3>2. \A s \in SensorType \ {"Thermal"} : metrics[s].alerts = 0
            BY DEF AlertsInv
        <3>3. v.zero_alerts <=> \A s \in SensorType : metrics[s].alerts = 0
            BY DEF ReportedInv
        <3> QED BY <3>1, <3>2, <3>3
    <2>4. mission_aborted <=> \E i \in Recovered : fault_log[i].recovery_ms > RecoveryDeadline
        BY DEF VerdictInv, Recovered, Late
    <2>5. v.nominal <=> \A i \in Recovered : fault_log[i].recovery_ms <= RecoveryDeadline
        <3>1. \A i \in Recovered : fault_log[i].recovery_ms \in Nat
            <4>1. fault_log \in Seq(FaultEvent)
                BY DEF SystemInv, CoreInv, FaultsTyped
            <4>2. \A i \in 1 .. Len(fault_log) : fault_log[i] \in FaultEvent
                BY <4>1
            <4> QED BY <4>2 DEF Recovered, FaultEvent
        <3>2. RecoveryDeadline \in Nat
            BY DEF RecoveryDeadline
        <3>3. ASSUME NEW m \in Nat, NEW n \in Nat PROVE m > n <=> ~ (m <= n)
            OBVIOUS
        <3>4. \A i \in Recovered : fault_log[i].recovery_ms > RecoveryDeadline
                                     <=> ~ (fault_log[i].recovery_ms <= RecoveryDeadline)
            BY <3>1, <3>2, <3>3
        <3> QED BY <2>1, <2>4, <3>4, Zenon
    <2>6. v.total_dropped = 0 => v.zero_drops
        <3> SUFFICES ASSUME v.total_dropped = 0 PROVE v.zero_drops
            OBVIOUS
        <3>1. IsFiniteSet(dropped_log) /\ Cardinality(dropped_log) = 0
            BY <2>1 DEF SystemInv, MainTyped, TotalDropped
        <3>2. dropped_log = {}
            BY <3>1, FS_EmptySet
        <3>3. \A s \in SensorType : Dropped(s) = {}
            BY <3>2 DEF Dropped, CyclesOf
        <3> QED BY <2>2, <3>3
    <2>7. v.nominal <=> v.mission_status = "NOMINAL"
        BY <2>1
    <2> QED BY <2>1, <2>2, <2>3, <2>5, <2>6, <2>7 DEF ReportsAgree
<1> QED BY <1>1, <1>2, <1>3, SystemInvHolds, PTL DEF SystemSpec

-----------------------------------------------------------------------------
(* Times.  What follows is about sensor threads and an injector that get   *)
(* the processor as soon as they are ready, in a campaign of a positive    *)
(* length of at most five intervals, and intervals no shorter than a stall *)
(* (60 s and 150 ms in a4_benchmark.rs).                                   *)

Timely == /\ SensorType \union {"injector"} \subseteq Prompt
          /\ 0 < RunDuration /\ RunDuration <= 5 * FaultInterval
          /\ Stall <= FaultInterval

Quiet == ~ InjectorReady /\ \A s \in SensorType : ~ SensorReady(s)

\* Time passes only while all of them wait.
PromptStep == AnyStep /\ (UNCHANGED now \/ Quiet)

LEMMA BusyThreads ==
    /\ \A s \in SensorType : Busy(s) = SensorReady(s)
    /\ Busy("injector") = InjectorReady
<1>1. ASSUME NEW s \in SensorType PROVE Busy(s) = SensorReady(s)
    <2>1. s # "injector" /\ s # "downlink"
        BY DEF SensorType
    <2> QED BY <2>1 DEF Busy
<1>2. "injector" \notin SensorType
    BY DEF SensorType
<1>3. Busy("injector") = InjectorReady
    BY <1>2 DEF Busy
<1> QED BY <1>1, <1>3

LEMMA NextIsPrompt ==
    ASSUME Timely, [Next]_vars
    PROVE  PromptStep
<1>1. CASE Tick
    <2>1. \A t \in SensorType \union {"injector"} : ~ Busy(t)
        BY <1>1 DEF Timely, Tick
    <2>2. Quiet
        BY <2>1, BusyThreads DEF Quiet
    <2> QED BY <2>2, NextIsAnyStep DEF PromptStep
<1>2. CASE Drain \/ Injector \/ (\E s \in SensorType : Sensor(s)) \/ UNCHANGED vars
    <2>1. UNCHANGED now
        BY <1>2 DEF Drain, Injector, Sensor, vars
    <2> QED BY <2>1, NextIsAnyStep DEF PromptStep
<1> QED BY <1>1, <1>2 DEF Next

LEMMA SystemNextIsPrompt ==
    ASSUME Timely, [SystemNext]_systemVars
    PROVE  PromptStep
<1>1. CASE SystemTick
    <2>1. \A t \in SensorType \union {"injector"} : t # "downlink"
        BY DEF SensorType
    <2>2. \A t \in SensorType \union {"injector"} : ~ Busy(t)
        BY <1>1, <2>1 DEF Timely, SystemTick
    <2>3. Quiet
        BY <2>2, BusyThreads DEF Quiet
    <2> QED BY <2>3, SystemNextIsAnyStep DEF PromptStep
<1>2. CASE Main \/ SchedulerThread \/ UNCHANGED systemVars
    <2>1. UNCHANGED now
        BY <1>2 DEF Main, SchedulerThread, systemVars, vars
    <2> QED BY <2>1, SystemNextIsAnyStep DEF PromptStep
<1>3. CASE DownlinkThread
    <2>1. UNCHANGED now
        BY <1>3 DEF DownlinkThread, StartDownlink, CheckDownlinkDeadline, DrainOne,
                    EndRound, NextRound, vars, Drain
    <2> QED BY <2>1, SystemNextIsAnyStep DEF PromptStep
<1>4. CASE InjectorThread \/ \E s \in SensorType : SensorThread(s)
    <2>1. UNCHANGED now
        BY <1>4 DEF InjectorThread, SensorThread, Injector, Sensor
    <2> QED BY <2>1, SystemNextIsAnyStep DEF PromptStep
<1> QED BY <1>1, <1>2, <1>3, <1>4 DEF SystemNext

\* The cases of a prompt step.
LEMMA PromptSteps ==
    ASSUME FaultsTyped, PromptStep
    PROVE  \/ TimePasses /\ Quiet
           \/ Injector
           \/ \E s \in SensorType : Sensor(s)
           \/ UNCHANGED <<now, faultVars, injector, sensor, metrics>>
<1>1. CASE TimePasses
    <2>1. now' # now
        BY <1>1 DEF TimePasses, FaultsTyped
    <2> QED BY <1>1, <2>1 DEF PromptStep
<1>2. CASE Drain \/ UNCHANGED vars
    BY <1>2 DEF Drain, vars
<1> QED BY <1>1, <1>2 DEF PromptStep, AnyStep

\* The injector raises the fault i at i fault intervals, and logs it at once.
ClockInv ==
    LET n == Len(fault_log) IN
    /\ injector.pc = "start" => now = 0
    /\ injector.pc # "start" => injector.next_fault = (n + 1) * FaultInterval
    /\ injector.pc \in {"check", "wait"} => now <= injector.next_fault
    /\ injector.pc \in {"raise", "log"} =>
         now = injector.next_fault /\ injector.event.injected_at = now
    /\ \A i \in 1 .. n : fault_log[i].injected_at = i * FaultInterval
    /\ fault_count * FaultInterval <= now

LEMMA NextKeepsClock ==
    ASSUME FaultsTyped, CampaignInv, ClockInv, PromptStep
    PROVE  ClockInv'
<1> DEFINE n == Len(fault_log)
<1>1. /\ n \in Nat /\ fault_count \in Nat /\ now \in Nat
      /\ injector.next_fault \in Nat /\ FaultInterval \in Nat /\ FaultInterval > 0
      /\ fault_count = n + IF injector.pc \in {"raise", "log"} THEN 1 ELSE 0
    BY CampaignAssumption DEF FaultsTyped, InjectorRecord, CampaignInv
<1>2. CASE UNCHANGED <<now, faultVars, injector, sensor, metrics>>
    BY <1>2 DEF ClockInv, faultVars
<1>3. CASE TimePasses /\ Quiet
    <2>1. /\ UNCHANGED <<fault_log, fault_count, injector>> /\ now' = now + 1
          /\ \/ injector.pc = "done"
             \/ injector.pc = "wait" /\ ~ (now >= injector.next_fault)
        BY <1>3 DEF TimePasses, faultVars, Quiet, InjectorReady, InjectorAt
    <2>2. PICK p \in Nat : p = fault_count * FaultInterval
        BY <1>1
    <2>3. p <= now + 1 /\ (injector.pc = "wait" => now + 1 <= injector.next_fault)
        BY <1>1, <2>1, <2>2 DEF ClockInv
    <2> QED BY <2>1, <2>2, <2>3 DEF ClockInv
<1>4. ASSUME NEW s \in SensorType, Sensor(s) PROVE ClockInv'
    <2>1. /\ UNCHANGED <<injector, fault_count, now>> /\ Len(fault_log') = n
          /\ \A i \in 1 .. n : fault_log'[i].injected_at = fault_log[i].injected_at
        BY <1>4, SensorLog
    <2> QED BY <2>1 DEF ClockInv
<1>5. CASE Injector
    <2>0. UNCHANGED now
        BY <1>5 DEF Injector
    <2>1. CASE StartInjector
        <3>1. /\ injector.pc = "start" /\ UNCHANGED <<fault_log, fault_count>>
              /\ injector'.pc = "check" /\ injector'.next_fault = now + FaultInterval
            BY <2>1, InjectorSteps DEF NextInjector, faultVars
        <3>2. n = 0 /\ now = 0
            BY <3>1 DEF CampaignInv, ClockInv
        <3>3. now + FaultInterval = (n + 1) * FaultInterval
            BY <1>1, <3>2
        <3>4. now <= now + FaultInterval
            BY <1>1
        <3> QED BY <2>0, <3>1, <3>3, <3>4 DEF ClockInv
    <2>2. CASE CheckDeadline
        <3>1. /\ injector.pc = "check" /\ UNCHANGED <<fault_log, fault_count>>
              /\ injector'.pc \in {"wait", "done"}
              /\ injector'.next_fault = injector.next_fault
            BY <2>2, InjectorSteps DEF NextInjector, faultVars
        <3> QED BY <2>0, <3>1 DEF ClockInv
    <2>3. CASE SelectFault
        <3>1. /\ injector.pc = "wait" /\ now >= injector.next_fault /\ UNCHANGED fault_log
              /\ injector.next_fault = (n + 1) * FaultInterval
              /\ now = injector.next_fault
            <4>1. injector.pc = "wait" /\ now >= injector.next_fault /\ UNCHANGED fault_log
                BY <2>3, InjectorSteps
            <4>2. now <= injector.next_fault
                BY <4>1 DEF ClockInv
            <4> QED BY <1>1, <4>1, <4>2 DEF ClockInv
        <3>2. CASE /\ NextInjector("done", injector.deadline, injector.next_fault,
                                   injector.event)
                   /\ UNCHANGED fault_count
            BY <2>0, <3>1, <3>2 DEF ClockInv, NextInjector
        <3>3. ASSUME NEW e \in FaultEvent,
                     e = NewEvent(FaultSchedule[(fault_count % 4) + 1]),
                     fault_count' = fault_count + 1,
                     NextInjector("raise", injector.deadline, injector.next_fault, e)
              PROVE  ClockInv'
            <4>1. /\ injector'.pc = "raise" /\ injector'.event.injected_at = now
                  /\ injector'.next_fault = injector.next_fault
                BY <3>3 DEF NextInjector, NewEvent
            <4>2. fault_count' = n + 1
                BY <1>1, <3>1, <3>3
            <4>3. fault_count' * FaultInterval <= now
                BY <1>1, <3>1, <4>2
            <4> QED BY <2>0, <3>1, <4>1, <4>3 DEF ClockInv
        <3> QED BY <2>3, <3>2, <3>3, InjectorSteps
    <2>4. CASE RaiseFlag
        <3>1. /\ injector.pc = "raise" /\ UNCHANGED <<fault_log, fault_count>>
              /\ injector'.pc = "log" /\ injector'.next_fault = injector.next_fault
              /\ injector'.event = injector.event
            BY <2>4, InjectorSteps DEF NextInjector
        <3> QED BY <2>0, <3>1 DEF ClockInv
    <2>5. CASE LogFault
        <3>1. /\ injector.pc = "log" /\ UNCHANGED fault_count
              /\ injector'.pc = "check"
              /\ injector'.next_fault = injector.next_fault + FaultInterval
            BY <2>5, InjectorSteps DEF NextInjector
        <3>2. /\ Len(fault_log') = n + 1 /\ fault_log'[n + 1] = injector.event
              /\ \A i \in 1 .. n : fault_log'[i] = fault_log[i]
              /\ 1 .. Len(fault_log') = (1 .. n) \union {n + 1}
            BY <2>5, LogGrows
        <3>3. /\ now = injector.next_fault /\ injector.event.injected_at = now
              /\ injector.next_fault = (n + 1) * FaultInterval
            BY <3>1 DEF ClockInv
        <3>4. injector'.next_fault = ((n + 1) + 1) * FaultInterval
            BY <1>1, <3>1, <3>3
        <3>5. now <= injector'.next_fault
            BY <1>1, <3>1, <3>3
        <3>6. \A i \in 1 .. Len(fault_log') : fault_log'[i].injected_at = i * FaultInterval
            BY <3>2, <3>3 DEF ClockInv
        <3> QED BY <2>0, <3>1, <3>2, <3>4, <3>5, <3>6 DEF ClockInv
    <2> QED BY <1>5, <2>1, <2>2, <2>3, <2>4, <2>5 DEF Injector, InjectorStep
<1> QED BY <1>2, <1>3, <1>4, <1>5, PromptSteps

LEMMA InitIsClock == Init => ClockInv
<1> SUFFICES ASSUME Init PROVE ClockInv
    OBVIOUS
<1>1. /\ fault_log = <<>> /\ fault_count = 0 /\ injector.pc = "start" /\ now = 0
    BY DEF Init, FaultInit
<1>2. Len(fault_log) = 0 /\ 1 .. Len(fault_log) = {} /\ 0 * FaultInterval = 0
    BY <1>1, CampaignAssumption
<1> QED BY <1>1, <1>2 DEF ClockInv

-----------------------------------------------------------------------------
(* Lateness.                                                               *)

\* What a stall leaves of its length when the period has passed.
Lateness(s) == IF Stall > Period[s] THEN Stall - Period[s] ELSE 0

DelayLogged(s) == \E i \in 1 .. Len(fault_log) : IsDelayOf(fault_log[i], s)

DelayUnlogged(s) == InjectorAt("log") /\ IsDelayOf(injector.event, s)

\* The one stall of s lies behind it.
StallOver(s) == DelayLogged(s) /\ s \notin delay_flags /\ ~ At(s, "stalled")

\* How late the reading in hand is, or the next one already.
Behind(s) ==
    LET x == sensor[s] IN
    IF x.pc \in {"corrupt", "corrupted", "push"} THEN x.reading.drift
    ELSE IF x.pc = "sleep" /\ now > x.scheduled THEN now - x.scheduled ELSE 0

\* All the lateness there is comes from the stall.
LateInv(s) ==
    /\ metrics[s].drift_sum + Behind(s) <= IF StallOver(s) THEN Lateness(s) ELSE 0
    /\ ~ (s \in delay_flags /\ At(s, "stalled"))
    /\ DelayUnlogged(s) => s \in delay_flags \/ At(s, "stalled")

\* The reading before has just been pushed, no later than the lateness so far.
Follows(s) ==
    /\ sensor[s].scheduled <= now + Period[s]
    /\ now + Period[s] <= sensor[s].scheduled + metrics[s].drift_sum

\* Where a sensor thread is tells what time it is.
OnTime(s) ==
    LET x == sensor[s] IN
    /\ x.pc = "start" => now = 0 /\ x.cycle = 0
    /\ x.pc = "top" => /\ x.scheduled = x.cycle * Period[s]
                       /\ x.scheduled < RunDuration + 2 * Period[s]
                       /\ IF x.cycle = 0 THEN now = 0 ELSE Follows(s)
    /\ InCycle(s) => /\ x.scheduled + Period[s] = x.cycle * Period[s]
                     /\ x.scheduled < RunDuration + Period[s]
    /\ x.pc = "delay" => IF x.scheduled = 0 THEN now = 0 ELSE Follows(s)
    /\ x.pc = "stalled" => now <= x.wake /\ x.wake + Period[s] = x.scheduled + Stall
    /\ x.pc = "sleep" => x.scheduled <= now + Period[s]
    /\ x.pc \in {"corrupt", "corrupted", "push"} => now = x.scheduled + x.reading.drift
    /\ x.pc = "done" /\ s \in Sensors =>
         /\ x.scheduled = x.cycle * Period[s]
         /\ RunDuration < x.scheduled /\ x.scheduled < RunDuration + 2 * Period[s]
    /\ s \notin Sensors => x.pc = "done"

TimedInv == \A s \in SensorType : LateInv(s) /\ OnTime(s)

LEMMA PeriodFacts ==
    ASSUME NEW s \in SensorType
    PROVE  /\ Period[s] \in Nat /\ 0 < Period[s] /\ Stall = 3
           /\ Lateness(s) \in Nat /\ Lateness(s) < Period[s]
           /\ Period[s] + Lateness(s) = IF Stall > Period[s] THEN Stall ELSE Period[s]
<1>1. /\ Period["Thermal"] = 2 /\ Period["Power"] = 5 /\ Period["Attitude"] = 10
    BY DEF Period, SensorType
<1>2. s = "Thermal" \/ s = "Power" \/ s = "Attitude"
    BY DEF SensorType
<1> QED BY <1>1, <1>2 DEF Lateness, Stall

LEMMA TimeFacts ==
    ASSUME ThreadsTyped, FaultsTyped, NEW s \in SensorType
    PROVE  /\ sensor[s].cycle \in Nat /\ sensor[s].scheduled \in Nat
           /\ sensor[s].wake \in Nat /\ sensor[s].reading.drift \in Nat
           /\ metrics[s].drift_sum \in Nat /\ now \in Nat
           /\ RunDuration \in Nat /\ FaultInterval \in Nat /\ FaultInterval > 0
           /\ Behind(s) \in Nat
<1>1. /\ sensor[s].cycle \in Nat /\ sensor[s].scheduled \in Nat
      /\ sensor[s].wake \in Nat /\ sensor[s].reading.drift \in Nat
    BY RecordFacts DEF SensorReading
<1>2. metrics[s].drift_sum \in Nat
    BY DEF ThreadsTyped, MetricsRecord
<1>3. /\ now \in Nat /\ RunDuration \in Nat /\ FaultInterval \in Nat /\ FaultInterval > 0
    BY CampaignAssumption DEF FaultsTyped
<1>4. Behind(s) \in Nat
    BY <1>1, <1>3 DEF Behind
<1> QED BY <1>1, <1>2, <1>3, <1>4

\* What TimedInv says of s depends on these only.
LEMMA TimedStays ==
    ASSUME NEW s \in SensorType, LateInv(s), OnTime(s), sensor'[s] = sensor[s],
           UNCHANGED now, metrics'[s] = metrics[s],
           s \in delay_flags' <=> s \in delay_flags,
           DelayLogged(s)' <=> DelayLogged(s), DelayUnlogged(s)' <=> DelayUnlogged(s)
    PROVE  LateInv(s)' /\ OnTime(s)'
<1>1. Behind(s)' = Behind(s) /\ (StallOver(s)' <=> StallOver(s))
    BY DEF Behind, StallOver, At
<1>2. LateInv(s)'
    BY <1>1 DEF LateInv, At
<1>3. OnTime(s)'
    BY DEF OnTime, Follows, InCycle
<1> QED BY <1>2, <1>3

\* Fault s is raised when RaiseFlag is taken for it, and not before.
LEMMA NotYetDelayed ==
    ASSUME FaultsTyped, CampaignInv, StallInv, RaiseFlag, NEW s \in SensorType,
           IsDelayOf(injector.event, s)
    PROVE  s \notin delay_flags /\ ~ At(s, "stalled") /\ ~ DelayLogged(s)
<1>1. ~ RaisedFor(s, "DelayedSensor")
    BY RaisedOnce DEF IsDelayOf
<1>2. s \notin delay_flags /\ ~ At(s, "stalled")
    BY <1>1 DEF StallInv
<1>3. ASSUME NEW i \in 1 .. Len(fault_log), IsDelayOf(fault_log[i], s) PROVE FALSE
    <2>1. injector.pc = "raise" /\ Len(fault_log) \in Nat
        BY InjectorSteps DEF FaultsTyped
    <2>2. i \in 1 .. 4 /\ i \in 1 .. fault_count /\ i # fault_count
        BY <2>1 DEF CampaignInv
    <2>3. Raised(i) /\ IsFault(fault_log[i], i)
        BY <2>1, <2>2 DEF Raised, CampaignInv
    <2> QED BY <1>1, <1>3, <2>2, <2>3 DEF RaisedFor, IsFault, IsDelayOf
<1> QED BY <1>2, <1>3 DEF DelayLogged

LEMMA InjectorKeepsTimed ==
    ASSUME ThreadsTyped, FaultsTyped, CampaignInv, StallInv, TimedInv, Injector,
           NEW s \in SensorType
    PROVE  LateInv(s)' /\ OnTime(s)'
<1>1. LateInv(s) /\ OnTime(s) /\ UNCHANGED <<now, sensor, metrics>>
    BY DEF TimedInv, Injector
<1>2. CASE StartInjector \/ CheckDeadline \/ SelectFault
    <2>1. /\ UNCHANGED <<fault_log, delay_flags>>
          /\ injector.pc # "log" /\ injector'.pc # "log"
        BY <1>2, InjectorSteps DEF NextInjector, faultVars
    <2>2. /\ DelayLogged(s)' <=> DelayLogged(s)
          /\ DelayUnlogged(s)' <=> DelayUnlogged(s)
        BY <2>1 DEF DelayLogged, DelayUnlogged, InjectorAt
    <2> QED BY <1>1, <2>1, <2>2, TimedStays
<1>3. CASE RaiseFlag
    <2> DEFINE e == injector.event
    <2>1. /\ injector.pc = "raise" /\ injector'.pc = "log" /\ injector'.event = e
          /\ UNCHANGED fault_log
        BY <1>3, InjectorSteps DEF NextInjector
    <2>2. DelayLogged(s)' <=> DelayLogged(s)
        BY <2>1 DEF DelayLogged
    <2>3. CASE ~ IsDelayOf(e, s)
        <3>1. s \in delay_flags' <=> s \in delay_flags
            BY <1>3, <2>3 DEF RaiseFlag, IsDelayOf
        <3>2. DelayUnlogged(s)' <=> DelayUnlogged(s)
            BY <2>1, <2>3 DEF DelayUnlogged, InjectorAt
        <3> QED BY <1>1, <2>2, <3>1, <3>2, TimedStays
    <2>4. CASE IsDelayOf(e, s)
        <3>1. s \notin delay_flags /\ ~ At(s, "stalled") /\ ~ DelayLogged(s)
            BY <1>3, <2>4, NotYetDelayed
        <3>2. s \in delay_flags' /\ ~ At(s, "stalled")' /\ Behind(s)' = Behind(s)
            BY <1>1, <1>3, <2>4, <3>1 DEF RaiseFlag, IsDelayOf, At, Behind
        <3>3. ~ StallOver(s) /\ ~ StallOver(s)'
            BY <3>1, <3>2 DEF StallOver
        <3>4. LateInv(s)'
            BY <1>1, <3>2, <3>3 DEF LateInv
        <3>5. OnTime(s)'
            BY <1>1 DEF OnTime, Follows, InCycle
        <3> QED BY <3>4, <3>5
    <2> QED BY <2>3, <2>4
<1>4. CASE LogFault
    <2> DEFINE e == injector.event
    <2>1. /\ injector.pc = "log" /\ injector'.pc = "check" /\ UNCHANGED delay_flags
        BY <1>4, InjectorSteps DEF NextInjector
    <2>2. /\ \A i \in 1 .. Len(fault_log) : fault_log'[i] = fault_log[i]
          /\ fault_log'[Len(fault_log) + 1] = e
          /\ 1 .. Len(fault_log') = (1 .. Len(fault_log)) \union {Len(fault_log) + 1}
        BY <1>4, LogGrows
    <2>3. DelayLogged(s)' <=> DelayLogged(s) \/ IsDelayOf(e, s)
        BY <2>2 DEF DelayLogged, IsDelayOf
    <2>4. ~ DelayUnlogged(s)'
        BY <2>1 DEF DelayUnlogged, InjectorAt
    <2>5. StallOver(s)' <=> StallOver(s)
        <3>1. IsDelayOf(e, s) => s \in delay_flags \/ At(s, "stalled")
            BY <1>1, <2>1 DEF LateInv, DelayUnlogged, InjectorAt
        <3> QED BY <1>1, <2>1, <2>3, <3>1 DEF StallOver, At
    <2>6. LateInv(s)'
        <3>1. Behind(s)' = Behind(s)
            BY <1>1 DEF Behind
        <3> QED BY <1>1, <2>1, <2>4, <2>5, <3>1 DEF LateInv, At
    <2>7. OnTime(s)'
        BY <1>1 DEF OnTime, Follows, InCycle
    <2> QED BY <2>6, <2>7
<1> QED BY <1>2, <1>3, <1>4 DEF Injector, InjectorStep

LEMMA TimeKeepsTimed ==
    ASSUME ThreadsTyped, FaultsTyped, TimedInv, TimePasses, Quiet,
           NEW s \in SensorType
    PROVE  LateInv(s)' /\ OnTime(s)'
<1> DEFINE x == sensor[s]
<1>1. /\ LateInv(s) /\ OnTime(s) /\ now' = now + 1
      /\ UNCHANGED <<sensor, metrics, delay_flags, fault_log, injector>>
    BY DEF TimedInv, TimePasses, faultVars
<1>2. /\ x.scheduled \in Nat /\ x.wake \in Nat /\ now \in Nat /\ Period[s] \in Nat
    BY TimeFacts, PeriodFacts
<1>3. \/ x.pc = "done"
      \/ x.pc = "stalled" /\ now < x.wake
      \/ x.pc = "sleep" /\ now < x.scheduled
    BY <1>2 DEF Quiet, SensorReady, At
<1>4. Behind(s)' = Behind(s)
    BY <1>1, <1>2, <1>3 DEF Behind
<1>5. /\ StallOver(s)' <=> StallOver(s)
      /\ DelayUnlogged(s)' <=> DelayUnlogged(s)
    BY <1>1 DEF StallOver, DelayLogged, DelayUnlogged, InjectorAt, At
<1>6. LateInv(s)'
    BY <1>1, <1>4, <1>5 DEF LateInv, At
<1>7. x.pc = "stalled" => now + 1 <= x.wake
    BY <1>2, <1>3
<1>8. x.pc = "sleep" => x.scheduled <= (now + 1) + Period[s]
    BY <1>1, <1>2 DEF OnTime
<1>9. OnTime(s)'
    BY <1>1, <1>3, <1>7, <1>8 DEF OnTime, InCycle
<1> QED BY <1>6, <1>9

\* What no step of a sensor thread changes, and the delay flag of each other one.
LEMMA SensorLeaves ==
    ASSUME ThreadsTyped, FaultsTyped, NEW s \in SensorType, Sensor(s),
           NEW t \in SensorType
    PROVE  /\ UNCHANGED <<now, injector>>
           /\ DelayLogged(t)' <=> DelayLogged(t)
           /\ DelayUnlogged(t)' <=> DelayUnlogged(t)
           /\ t # s => /\ sensor'[t] = sensor[t] /\ metrics'[t] = metrics[t]
                       /\ t \in delay_flags' <=> t \in delay_flags
           /\ ~ SufferDelay(s) => UNCHANGED delay_flags
           /\ ~ PushReading(s) => UNCHANGED metrics
<1>1. /\ UNCHANGED <<now, injector>> /\ SensorStep(s)
      /\ Len(fault_log') = Len(fault_log)
      /\ \A i \in 1 .. Len(fault_log) :
           /\ fault_log'[i].fault_type = fault_log[i].fault_type
           /\ fault_log'[i].target = fault_log[i].target
    BY SensorLog DEF Sensor
<1>2. /\ DelayLogged(t)' <=> DelayLogged(t)
      /\ DelayUnlogged(t)' <=> DelayUnlogged(t)
    BY <1>1 DEF DelayLogged, DelayUnlogged, IsDelayOf, InjectorAt
<1>3. ~ PushReading(s) => UNCHANGED metrics
    BY <1>1 DEF SensorStep, StartSensor, BeginCycle, SufferDelay, NoDelay, EndStall,
                Read, SufferCorruption, NoCorruption, EndCorruption
<1>4. /\ ~ SufferDelay(s) => UNCHANGED delay_flags
      /\ t # s => (t \in delay_flags' <=> t \in delay_flags)
    BY <1>1, SensorFaults DEF faultVars, TakeDelay, TakeCorrupt, Recover
<1>5. t # s => sensor'[t] = sensor[t] /\ metrics'[t] = metrics[t]
    <2>1. PushReading(s) => (t # s => metrics'[t] = metrics[t])
        BY PushCounts
    <2> QED BY <1>1, <1>3, <2>1, SensorMoves
<1> QED BY <1>1, <1>2, <1>3, <1>4, <1>5

\* The start of the thread and the head of the loop.
LEMMA HeadKeepsTimed ==
    ASSUME Timely, ThreadsTyped, FaultsTyped, TimedInv, NEW s \in SensorType,
           Sensor(s), StartSensor(s) \/ BeginCycle(s)
    PROVE  LateInv(s)' /\ OnTime(s)'
<1> DEFINE x == sensor[s]
           y == sensor'[s]
           P == Period[s]
           d == metrics[s].drift_sum
<1>1. LateInv(s) /\ OnTime(s)
    BY DEF TimedInv
<1>2. /\ x.cycle \in Nat /\ x.scheduled \in Nat /\ d \in Nat /\ now \in Nat
      /\ RunDuration \in Nat /\ 0 < RunDuration
      /\ P \in Nat /\ 0 < P /\ Lateness(s) \in Nat /\ Lateness(s) < P /\ Behind(s) \in Nat
    BY TimeFacts, PeriodFacts DEF Timely
<1>3. /\ UNCHANGED <<now, delay_flags, metrics>>
      /\ DelayLogged(s)' <=> DelayLogged(s)
      /\ DelayUnlogged(s)' <=> DelayUnlogged(s)
    BY SensorLeaves DEF StartSensor, BeginCycle, SufferDelay, PushReading, At
<1>4. d < P
    BY <1>1, <1>2 DEF LateInv
<1>5. x.pc \in {"start", "top"} /\ y.pc \in {"top", "done", "delay"}
    BY SensorSteps DEF Moves, Passes
<1>6. LateInv(s)'
    <2>1. Behind(s) = 0 /\ Behind(s)' = 0
        BY <1>5 DEF Behind
    <2>2. ~ At(s, "stalled") /\ ~ At(s, "stalled")'
        BY <1>5 DEF At
    <2>3. StallOver(s)' <=> StallOver(s)
        BY <1>3, <2>2 DEF StallOver
    <2> QED BY <1>1, <1>3, <2>1, <2>2, <2>3 DEF LateInv
<1>7. s \in Sensors
    BY <1>1, <1>5 DEF OnTime
<1>8. CASE StartSensor(s)
    <2>1. /\ x.pc = "start" /\ y.pc = "top" /\ y.cycle = x.cycle /\ y.scheduled = now
        BY <1>8, SensorSteps DEF Moves
    <2>2. now = 0 /\ x.cycle = 0
        BY <1>1, <2>1 DEF OnTime
    <2>3. 0 = 0 * P /\ 0 < RunDuration + 2 * P
        BY <1>2
    <2> QED BY <1>3, <1>6, <1>7, <2>1, <2>2, <2>3 DEF OnTime, InCycle
<1>9. CASE BeginCycle(s)
    <2>1. /\ x.pc = "top" /\ x.scheduled = x.cycle * P
          /\ x.scheduled < RunDuration + 2 * P
          /\ IF x.cycle = 0 THEN now = 0 ELSE Follows(s)
        <3>1. x.pc = "top"
            BY <1>9 DEF BeginCycle, At
        <3> QED BY <1>1, <3>1 DEF OnTime
    <2>2. CASE Passes(s, "top", "done") /\ now >= RunDuration
        <3>1. y.pc = "done" /\ y.scheduled = x.scheduled /\ y.cycle = x.cycle
            BY <2>2 DEF Passes, Moves
        <3>2. x.cycle # 0 /\ Follows(s)
            BY <1>2, <2>1, <2>2
        <3>3. RunDuration < x.scheduled
            BY <1>2, <1>4, <2>2, <3>2 DEF Follows
        <3> QED BY <1>3, <1>6, <2>1, <3>1, <3>3 DEF OnTime, InCycle
    <2>3. CASE /\ now < RunDuration
               /\ Moves(s, "delay", x.cycle + 1, x.scheduled, x.wake, x.miss, x.reading)
        <3>1. y.pc = "delay" /\ y.scheduled = x.scheduled /\ y.cycle = x.cycle + 1
            BY <2>3 DEF Moves
        <3>2. x.scheduled + P = (x.cycle + 1) * P
            BY <1>2, <2>1
        <3>3. CASE x.cycle = 0
            <4>1. x.scheduled = 0 /\ now = 0
                BY <1>2, <2>1, <3>3
            <4>2. 0 < RunDuration + P
                BY <1>2
            <4> QED BY <1>3, <1>6, <1>7, <3>1, <3>2, <4>1, <4>2 DEF OnTime, InCycle
        <3>4. CASE x.cycle # 0
            <4>1. Follows(s) /\ Follows(s)'
                BY <1>3, <2>1, <3>1, <3>4 DEF Follows
            <4>2. x.scheduled < RunDuration + P
                BY <1>2, <2>3, <4>1 DEF Follows
            <4>3. x.scheduled # 0
                BY <1>2, <2>1, <3>4
            <4> QED BY <1>3, <1>6, <1>7, <3>1, <3>2, <4>1, <4>2, <4>3 DEF OnTime, InCycle
        <3> QED BY <3>3, <3>4
    <2> QED BY <1>9, <2>2, <2>3, SensorSteps
<1> QED BY <1>8, <1>9

\* The delay hook, up to the stall.
LEMMA HookKeepsTimed ==
    ASSUME Timely, ThreadsTyped, FaultsTyped, CampaignInv, StallInv, ClockInv, TimedInv,
           NEW s \in SensorType, Sensor(s), SufferDelay(s) \/ NoDelay(s)
    PROVE  LateInv(s)' /\ OnTime(s)'
<1> DEFINE x == sensor[s]
           y == sensor'[s]
           P == Period[s]
           d == metrics[s].drift_sum
<1>1. LateInv(s) /\ OnTime(s)
    BY DEF TimedInv
<1>2. /\ x.cycle \in Nat /\ x.scheduled \in Nat /\ d \in Nat /\ now \in Nat
      /\ P \in Nat /\ 0 < P /\ Lateness(s) \in Nat /\ Lateness(s) < P /\ Stall = 3
    BY TimeFacts, PeriodFacts
<1>3. x.pc = "delay"
    BY DEF SufferDelay, NoDelay, At
<1>4. /\ UNCHANGED <<now, metrics>>
      /\ DelayLogged(s)' <=> DelayLogged(s)
      /\ DelayUnlogged(s)' <=> DelayUnlogged(s)
    BY <1>3, SensorLeaves DEF PushReading, At
<1>5. /\ x.scheduled + P = x.cycle * P /\ x.scheduled < RunDuration + P
      /\ IF x.scheduled = 0 THEN now = 0 ELSE Follows(s)
      /\ s \in Sensors
    BY <1>1, <1>3 DEF OnTime, InCycle
<1>6. /\ d <= IF StallOver(s) THEN Lateness(s) ELSE 0
      /\ DelayUnlogged(s) => s \in delay_flags
    BY <1>1, <1>2, <1>3 DEF LateInv, Behind, At
<1>7. CASE SufferDelay(s)
    <2>1. /\ y.pc = "stalled" /\ y.cycle = x.cycle /\ y.scheduled = x.scheduled
          /\ y.wake = now + Stall
        BY <1>7, SensorSteps DEF Moves
    <2>2. s \in delay_flags /\ s \notin delay_flags'
        BY <1>7 DEF SufferDelay, TakeDelay
    <2>3. d = 0
        BY <1>2, <1>6, <2>2 DEF StallOver
    <2>4. now > 0
        <3>1. RaisedFor(s, "DelayedSensor")
            BY <2>2 DEF StallInv
        <3>2. fault_count \in Nat /\ fault_count > 0
            BY <3>1 DEF RaisedFor, Raised, FaultsTyped
        <3>3. FaultInterval \in Nat /\ FaultInterval > 0
            BY CampaignAssumption
        <3>4. fault_count * FaultInterval > 0
            BY <3>2, <3>3
        <3> QED BY <1>2, <3>2, <3>3, <3>4 DEF ClockInv
    <2>5. now + P = x.scheduled
        BY <1>2, <1>5, <2>3, <2>4 DEF Follows
    <2>6. Behind(s)' = 0 /\ ~ StallOver(s)' /\ At(s, "stalled")'
        BY <2>1 DEF Behind, StallOver, At
    <2>7. LateInv(s)'
        BY <1>4, <2>2, <2>3, <2>6 DEF LateInv
    <2>8. now <= now + Stall /\ (now + Stall) + P = x.scheduled + Stall
        BY <1>2, <2>5
    <2> QED BY <1>4, <1>5, <2>1, <2>7, <2>8 DEF OnTime, InCycle
<1>8. CASE NoDelay(s)
    <2>1. y.pc = "sleep" /\ y.cycle = x.cycle /\ y.scheduled = x.scheduled
        BY <1>8, SensorSteps DEF Passes, Moves
    <2>2. s \notin delay_flags /\ UNCHANGED delay_flags
        BY <1>8 DEF NoDelay, faultVars
    <2>3. d < P
        BY <1>2, <1>6
    <2>4. x.scheduled <= now + P /\ ~ (now > x.scheduled)
        BY <1>2, <1>5, <2>3 DEF Follows
    <2>5. Behind(s)' = 0 /\ ~ At(s, "stalled")'
        BY <1>4, <2>1, <2>4 DEF Behind, At
    <2>6. StallOver(s)' <=> StallOver(s)
        BY <1>3, <1>4, <2>2, <2>5 DEF StallOver, At
    <2>7. LateInv(s)'
        BY <1>2, <1>4, <1>6, <2>2, <2>5, <2>6 DEF LateInv
    <2> QED BY <1>4, <1>5, <2>1, <2>4, <2>7 DEF OnTime, InCycle
<1> QED BY <1>7, <1>8

\* A stalled thread is stalled by a fault that is in the log by the time it wakes.
LEMMA WakesLogged ==
    ASSUME ThreadsTyped, FaultsTyped, CampaignInv, StallInv, ClockInv, NEW s \in SensorType,
           At(s, "stalled"), now >= sensor[s].wake
    PROVE  DelayLogged(s) /\ ~ DelayUnlogged(s)
<1>1. /\ Len(fault_log) \in Nat /\ now \in Nat /\ sensor[s].wake \in Nat
      /\ fault_count = Len(fault_log) + IF injector.pc \in {"raise", "log"} THEN 1 ELSE 0
    BY TimeFacts DEF FaultsTyped, CampaignInv
<1>2. ~ DelayUnlogged(s)
    <2> SUFFICES ASSUME DelayUnlogged(s) PROVE FALSE
        OBVIOUS
    <2>1. injector.event.injected_at = now
        BY DEF DelayUnlogged, ClockInv, InjectorAt
    <2>2. injector.event.injected_at + Stall <= sensor[s].wake
        BY DEF StallInv, DelayUnlogged
    <2> QED BY <1>1, <2>1, <2>2 DEF Stall
<1>3. PICK i \in 1 .. 4 : /\ Raised(i)
                          /\ FaultSchedule[i].fault_type = "DelayedSensor"
                          /\ FaultSchedule[i].target = s
    BY DEF StallInv, RaisedFor
<1>4. CASE i \in 1 .. Len(fault_log)
    BY <1>2, <1>3, <1>4 DEF DelayLogged, CampaignInv, IsFault, IsDelayOf
<1>5. CASE i \notin 1 .. Len(fault_log)
    <2>1. i = fault_count /\ injector.pc = "log"
        BY <1>1, <1>3, <1>5 DEF Raised, InjectorAt
    <2>2. IsFault(injector.event, i)
        BY <2>1 DEF CampaignInv
    <2> QED BY <1>2, <1>3, <2>1, <2>2 DEF DelayUnlogged, InjectorAt, IsFault, IsDelayOf
<1> QED BY <1>4, <1>5

\* The end of the stall, and of the sleep.
LEMMA WakeKeepsTimed ==
    ASSUME ThreadsTyped, FaultsTyped, CampaignInv, StallInv, ClockInv, TimedInv,
           NEW s \in SensorType, Sensor(s), EndStall(s) \/ Read(s)
    PROVE  LateInv(s)' /\ OnTime(s)'
<1> DEFINE x == sensor[s]
           y == sensor'[s]
           P == Period[s]
           d == metrics[s].drift_sum
<1>1. LateInv(s) /\ OnTime(s)
    BY DEF TimedInv
<1>2. /\ x.cycle \in Nat /\ x.scheduled \in Nat /\ x.wake \in Nat
      /\ d \in Nat /\ now \in Nat
      /\ P \in Nat /\ 0 < P /\ Lateness(s) \in Nat /\ Stall = 3
    BY TimeFacts, PeriodFacts
<1>3. x.pc \in {"stalled", "sleep"}
    BY DEF EndStall, Read, At
<1>4. /\ UNCHANGED <<now, metrics, delay_flags>>
      /\ DelayLogged(s)' <=> DelayLogged(s)
      /\ DelayUnlogged(s)' <=> DelayUnlogged(s)
    BY <1>3, SensorLeaves DEF PushReading, SufferDelay, At
<1>5. /\ x.scheduled + P = x.cycle * P /\ x.scheduled < RunDuration + P
      /\ s \in Sensors
    BY <1>1, <1>3 DEF OnTime, InCycle
<1>6. CASE EndStall(s)
    <2>1. /\ x.pc = "stalled" /\ y.pc = "sleep" /\ y.cycle = x.cycle
          /\ y.scheduled = x.scheduled /\ now >= x.wake
        BY <1>6, SensorSteps DEF Moves, EndStall
    <2>2. now = x.wake /\ x.wake + P = x.scheduled + Stall
        BY <1>1, <1>2, <2>1 DEF OnTime
    <2>3. DelayLogged(s) /\ ~ DelayUnlogged(s) /\ s \notin delay_flags
        BY <1>1, <2>1, WakesLogged DEF LateInv, At
    <2>4. d = 0
        BY <1>1, <1>2, <2>1 DEF LateInv, StallOver, Behind, At
    <2>5. Behind(s)' <= Lateness(s)
        <3>1. Behind(s)' = IF now > x.scheduled THEN now - x.scheduled ELSE 0
            BY <1>4, <2>1 DEF Behind
        <3> QED BY <1>2, <2>2, <3>1 DEF Lateness
    <2>6. StallOver(s)'
        BY <1>4, <2>1, <2>3 DEF StallOver, At
    <2>7. 0 + Behind(s)' <= Lateness(s)
        <3>1. Behind(s)' \in Nat
            BY <1>2, <1>4, <2>1 DEF Behind
        <3> QED BY <2>5, <3>1
    <2>8. LateInv(s)'
        BY <1>4, <2>3, <2>4, <2>6, <2>7 DEF LateInv
    <2>9. x.scheduled <= now + P
        BY <1>2, <2>2
    <2> QED BY <1>4, <1>5, <2>1, <2>8, <2>9 DEF OnTime, InCycle
<1>7. CASE Read(s)
    <2>1. /\ x.pc = "sleep" /\ y.pc = "corrupt" /\ y.cycle = x.cycle
          /\ y.scheduled = x.scheduled /\ now - x.scheduled \in Nat
        BY <1>7, SensorSteps DEF Moves
    <2>2. y.reading.drift = now - x.scheduled
        <3>1. y.reading = [sensor |-> s, cycle |-> x.cycle, value |-> "number",
                           drift |-> now - x.scheduled]
            BY <1>7, SensorSteps DEF Moves
        <3> QED BY <3>1
    <2>3. Behind(s) = now - x.scheduled /\ Behind(s)' = now - x.scheduled
        <3>1. Behind(s) = IF now > x.scheduled THEN now - x.scheduled ELSE 0
            BY <2>1 DEF Behind
        <3>2. Behind(s)' = y.reading.drift
            BY <2>1 DEF Behind
        <3> QED BY <1>2, <2>1, <2>2, <3>1, <3>2
    <2>4. ~ At(s, "stalled") /\ ~ At(s, "stalled")'
        BY <2>1 DEF At
    <2>5. StallOver(s)' <=> StallOver(s)
        BY <1>4, <2>4 DEF StallOver
    <2>6. LateInv(s)'
        BY <1>1, <1>4, <2>3, <2>4, <2>5 DEF LateInv
    <2>7. now = x.scheduled + (now - x.scheduled)
        BY <1>2
    <2> QED BY <1>4, <1>5, <2>1, <2>2, <2>6, <2>7 DEF OnTime, InCycle
<1> QED BY <1>6, <1>7

\* The corruption hook.
LEMMA CorruptKeepsTimed ==
    ASSUME ThreadsTyped, FaultsTyped, TimedInv, NEW s \in SensorType, Sensor(s),
           SufferCorruption(s) \/ NoCorruption(s) \/ EndCorruption(s)
    PROVE  LateInv(s)' /\ OnTime(s)'
<1> DEFINE x == sensor[s]
           y == sensor'[s]
<1>1. LateInv(s) /\ OnTime(s)
    BY DEF TimedInv
<1>2. x.pc \in {"corrupt", "corrupted"}
    BY DEF SufferCorruption, NoCorruption, EndCorruption, At
<1>3. /\ UNCHANGED <<now, metrics, delay_flags>>
      /\ DelayLogged(s)' <=> DelayLogged(s)
      /\ DelayUnlogged(s)' <=> DelayUnlogged(s)
    BY <1>2, SensorLeaves DEF PushReading, SufferDelay, At
<1>4. /\ y.pc \in {"corrupted", "push"} /\ y.cycle = x.cycle
      /\ y.scheduled = x.scheduled
    BY SensorSteps DEF Moves, Passes
<1>5. y.reading.drift = x.reading.drift
    <2>1. CASE SufferCorruption(s) \/ NoCorruption(s)
        BY <2>1, SensorSteps DEF Passes, Moves
    <2>2. CASE EndCorruption(s)
        <3>1. y.reading = [x.reading EXCEPT !.value = "nan"]
            BY <2>2, SensorSteps DEF Moves
        <3>2. x.reading \in SensorReading
            BY RecordFacts
        <3> QED BY <3>1, <3>2 DEF SensorReading
    <2> QED BY <2>1, <2>2
<1>6. Behind(s)' = Behind(s)
    BY <1>2, <1>4, <1>5 DEF Behind
<1>7. ~ At(s, "stalled") /\ ~ At(s, "stalled")'
    BY <1>2, <1>4 DEF At
<1>8. StallOver(s)' <=> StallOver(s)
    BY <1>3, <1>7 DEF StallOver
<1>9. LateInv(s)'
    BY <1>1, <1>3, <1>6, <1>7, <1>8 DEF LateInv
<1> QED BY <1>1, <1>2, <1>3, <1>4, <1>5, <1>9 DEF OnTime, InCycle

LEMMA PushKeepsTimed ==
    ASSUME ThreadsTyped, FaultsTyped, TimedInv, NEW s \in SensorType, Sensor(s),
           PushReading(s)
    PROVE  LateInv(s)' /\ OnTime(s)'
<1> DEFINE x == sensor[s]
           y == sensor'[s]
           P == Period[s]
           d == metrics[s].drift_sum
           r == x.reading.drift
<1>1. LateInv(s) /\ OnTime(s)
    BY DEF TimedInv
<1>2. /\ x.cycle \in Nat /\ x.scheduled \in Nat /\ r \in Nat
      /\ d \in Nat /\ now \in Nat /\ RunDuration \in Nat
      /\ P \in Nat /\ 0 < P /\ Lateness(s) \in Nat
    BY TimeFacts, PeriodFacts
<1>3. /\ x.pc = "push" /\ y.pc = "top" /\ y.cycle = x.cycle
      /\ y.scheduled = x.scheduled + P
    BY SensorSteps DEF Moves
<1>4. /\ UNCHANGED <<now, delay_flags>>
      /\ DelayLogged(s)' <=> DelayLogged(s)
      /\ DelayUnlogged(s)' <=> DelayUnlogged(s)
    BY <1>3, SensorLeaves DEF SufferDelay, At
<1>5. metrics'[s].drift_sum = d + r
    BY PushCounts
<1>6. /\ x.scheduled + P = x.cycle * P /\ x.scheduled < RunDuration + P
      /\ s \in Sensors /\ now = x.scheduled + r
    BY <1>1, <1>3 DEF OnTime, InCycle
<1>7. Behind(s) = r /\ Behind(s)' = 0 /\ ~ At(s, "stalled") /\ ~ At(s, "stalled")'
    BY <1>3 DEF Behind, At
<1>8. StallOver(s)' <=> StallOver(s)
    BY <1>4, <1>7 DEF StallOver
<1>9. LateInv(s)'
    <2>1. d + r <= IF StallOver(s) THEN Lateness(s) ELSE 0
        BY <1>1, <1>7 DEF LateInv
    <2>2. (d + r) + 0 = d + r
        BY <1>2
    <2> QED BY <1>1, <1>4, <1>5, <1>7, <1>8, <2>1, <2>2 DEF LateInv
<1>10. InCycle(s)
    BY <1>3 DEF InCycle
<1>11. y.cycle # 0
    BY <1>3, <1>10 DEF ThreadsTyped
<1>12. Follows(s)'
    <2>1. x.scheduled + P <= now + P /\ now + P <= (x.scheduled + P) + (d + r)
        BY <1>2, <1>6
    <2> QED BY <1>3, <1>4, <1>5, <2>1 DEF Follows
<1>13. x.scheduled + P < RunDuration + 2 * P
    BY <1>2, <1>6
<1> QED BY <1>3, <1>4, <1>6, <1>9, <1>11, <1>12, <1>13 DEF OnTime, InCycle

LEMMA NextKeepsTimed ==
    ASSUME Timely, ThreadsTyped, FaultsTyped, CampaignInv, StallInv, ClockInv, TimedInv,
           PromptStep
    PROVE  TimedInv'
<1>1. ASSUME NEW s \in SensorType, NEW t \in SensorType, Sensor(s)
      PROVE  LateInv(t)' /\ OnTime(t)'
    <2>1. CASE t # s
        <3>1. LateInv(t) /\ OnTime(t)
            BY DEF TimedInv
        <3> QED BY <1>1, <2>1, <3>1, SensorLeaves, TimedStays
    <2>2. CASE t = s
        <3>1. SensorStep(s)
            BY <1>1 DEF Sensor
        <3> QED BY <1>1, <2>2, <3>1, HeadKeepsTimed, HookKeepsTimed, WakeKeepsTimed,
                   CorruptKeepsTimed, PushKeepsTimed DEF SensorStep
    <2> QED BY <2>1, <2>2
<1>2. CASE UNCHANGED <<now, faultVars, injector, sensor, metrics>>
    <2>1. ASSUME NEW t \in SensorType PROVE LateInv(t)' /\ OnTime(t)'
        <3>1. LateInv(t) /\ OnTime(t) /\ UNCHANGED <<delay_flags, fault_log, injector>>
            BY <1>2 DEF TimedInv, faultVars
        <3>2. /\ DelayLogged(t)' <=> DelayLogged(t)
              /\ DelayUnlogged(t)' <=> DelayUnlogged(t)
            BY <3>1 DEF DelayLogged, DelayUnlogged, InjectorAt
        <3> QED BY <1>2, <3>1, <3>2, TimedStays
    <2> QED BY <2>1 DEF TimedInv
<1> QED BY <1>1, <1>2, PromptSteps, InjectorKeepsTimed, TimeKeepsTimed DEF TimedInv

LEMMA InitIsTimed == Init => TimedInv
<1> SUFFICES ASSUME Init, NEW s \in SensorType PROVE LateInv(s) /\ OnTime(s)
    BY DEF TimedInv
<1>1. /\ delay_flags = {} /\ injector.pc = "start" /\ now = 0
      /\ metrics[s].drift_sum = 0
    BY DEF Init, FaultInit
<1>2. /\ sensor[s].pc = IF s \in Sensors THEN "start" ELSE "done"
      /\ sensor[s].cycle = 0
    BY DEF Init
<1>3. Behind(s) = 0 /\ ~ At(s, "stalled")
    BY <1>2 DEF Behind, At
<1>4. Lateness(s) \in Nat
    BY PeriodFacts
<1>5. LateInv(s)
    BY <1>1, <1>3, <1>4 DEF LateInv, DelayUnlogged, InjectorAt
<1>6. OnTime(s)
    BY <1>1, <1>2 DEF OnTime, InCycle
<1> QED BY <1>5, <1>6

-----------------------------------------------------------------------------
(* How soon a fault is taken.                                              *)

\* When s looks at its delay flag, and when at its corruption flag.
DelayCheck(s) == IF At(s, "sleep") THEN sensor[s].scheduled ELSE now

CorruptCheck(s) ==
    LET x == sensor[s] IN
    IF x.pc \in {"corrupted", "push"} THEN x.scheduled + Period[s]
    ELSE IF x.pc # "corrupt" /\ x.scheduled > now THEN x.scheduled ELSE now

DelayBy(s, b) ==
    /\ s \in delay_flags /\ ~ At(s, "done") => DelayCheck(s) <= b
    /\ At(s, "stalled") => sensor[s].wake <= b + Stall

CorruptBy(s, b) ==
    /\ s \in corrupt_flags /\ ~ At(s, "done") =>
         s \notin delay_flags /\ ~ At(s, "stalled") /\ CorruptCheck(s) <= b
    /\ At(s, "corrupted") => now <= b

Soon(i) == i * FaultInterval + Period[FaultSchedule[i].target]

\* A fault is taken within one period of its sensor.
PickupInv ==
    \A i \in 1 .. 4 :
        IF FaultSchedule[i].fault_type = "DelayedSensor"
        THEN DelayBy(FaultSchedule[i].target, Soon(i))
        ELSE CorruptBy(FaultSchedule[i].target, Soon(i))

LEMMA ScheduleOrder ==
    \A i, j \in 1 .. 4 :
        /\ FaultSchedule[i].fault_type = "DelayedSensor"
        /\ FaultSchedule[j].fault_type # "DelayedSensor"
        /\ FaultSchedule[i].target = FaultSchedule[j].target
        => j = i + 3
<1>1. /\ FaultSchedule[1] = [fault_type |-> "DelayedSensor", target |-> "Thermal"]
      /\ FaultSchedule[2] = [fault_type |-> "CorruptedData", target |-> "Power"]
      /\ FaultSchedule[3] = [fault_type |-> "DelayedSensor", target |-> "Attitude"]
      /\ FaultSchedule[4] = [fault_type |-> "CorruptedData", target |-> "Thermal"]
    BY DEF FaultSchedule
<1>2. \A i \in 1 .. 4 : i = 1 \/ i = 2 \/ i = 3 \/ i = 4
    OBVIOUS
<1> QED BY <1>1, <1>2

LEMMA SoonFacts ==
    ASSUME NEW i \in 1 .. 4
    PROVE  /\ FaultSchedule[i].target \in SensorType /\ Soon(i) \in Nat
           /\ FaultSchedule[i].fault_type = "DelayedSensor"
                \/ FaultSchedule[i].fault_type = "CorruptedData"
<1>1. FaultSchedule[i].target \in SensorType /\ FaultSchedule[i].fault_type \in FaultType
    BY ScheduleFacts
<1>2. Period[FaultSchedule[i].target] \in Nat
    BY <1>1, PeriodFacts
<1>3. i * FaultInterval \in Nat
    BY CampaignAssumption
<1> QED BY <1>1, <1>2, <1>3 DEF Soon, FaultType

LEMMA CorruptFlagSteps ==
    ASSUME NEW s \in SensorType, Sensor(s), NEW t \in SensorType
    PROVE  /\ ~ SufferCorruption(s) => UNCHANGED corrupt_flags
           /\ t # s => (t \in corrupt_flags' <=> t \in corrupt_flags)
           /\ corrupt_flags' \subseteq corrupt_flags
           /\ delay_flags' \subseteq delay_flags
<1>1. SensorStep(s)
    BY DEF Sensor
<1> QED BY <1>1, SensorFaults DEF faultVars, TakeDelay, TakeCorrupt, Recover

\* What the two bounds say of s depends on these only.
LEMMA PickupStays ==
    ASSUME NEW s \in SensorType, NEW b \in Nat, sensor'[s] = sensor[s], UNCHANGED now,
           s \in delay_flags' => s \in delay_flags
    PROVE  /\ DelayBy(s, b) => DelayBy(s, b)'
           /\ CorruptBy(s, b) /\ (s \in corrupt_flags' => s \in corrupt_flags)
                => CorruptBy(s, b)'
BY DEF DelayBy, CorruptBy, DelayCheck, CorruptCheck, At

LEMMA TimeKeepsPickup ==
    ASSUME ThreadsTyped, FaultsTyped, TimedInv, TimePasses, Quiet,
           NEW s \in SensorType, NEW b \in Nat
    PROVE  /\ DelayBy(s, b) => DelayBy(s, b)'
           /\ CorruptBy(s, b) => CorruptBy(s, b)'
<1> DEFINE x == sensor[s]
<1>1. /\ LateInv(s) /\ now' = now + 1 /\ UNCHANGED <<sensor, delay_flags, corrupt_flags>>
    BY DEF TimedInv, TimePasses, faultVars
<1>2. x.scheduled \in Nat /\ x.wake \in Nat /\ now \in Nat
    BY TimeFacts
<1>3. \/ x.pc = "done"
      \/ x.pc = "stalled"
      \/ x.pc = "sleep" /\ now < x.scheduled
    BY <1>2 DEF Quiet, SensorReady, At
<1>4. ASSUME DelayBy(s, b) PROVE DelayBy(s, b)'
    <2>1. s \in delay_flags => x.pc # "stalled"
        BY <1>1 DEF LateInv, At
    <2>2. s \in delay_flags /\ x.pc # "done" => x.pc = "sleep" /\ x.scheduled <= b
        BY <1>3, <1>4, <2>1 DEF DelayBy, DelayCheck, At
    <2> QED BY <1>1, <1>4, <2>2 DEF DelayBy, DelayCheck, At
<1>5. ASSUME CorruptBy(s, b) PROVE CorruptBy(s, b)'
    <2>1. ASSUME s \in corrupt_flags, x.pc # "done"
          PROVE  /\ s \notin delay_flags /\ x.pc = "sleep" /\ x.scheduled <= b
                 /\ now + 1 <= x.scheduled
        <3>1. s \notin delay_flags /\ x.pc # "stalled" /\ CorruptCheck(s) <= b
            BY <1>5, <2>1 DEF CorruptBy, At
        <3>2. x.pc = "sleep" /\ now < x.scheduled
            BY <1>3, <2>1, <3>1
        <3> QED BY <1>2, <3>1, <3>2 DEF CorruptCheck
    <2>2. ASSUME s \in corrupt_flags, x.pc # "done"
          PROVE  CorruptCheck(s)' <= b
        <3>1. CorruptCheck(s)' = IF x.scheduled > now + 1 THEN x.scheduled ELSE now + 1
            BY <1>1, <2>1, <2>2 DEF CorruptCheck
        <3> QED BY <1>2, <2>1, <2>2, <3>1
    <2> QED BY <1>1, <1>3, <2>1, <2>2 DEF CorruptBy, At
<1> QED BY <1>4, <1>5

LEMMA SensorKeepsDelay ==
    ASSUME ThreadsTyped, FaultsTyped, TimedInv, NEW s \in SensorType, Sensor(s),
           NEW b \in Nat, DelayBy(s, b)
    PROVE  DelayBy(s, b)'
<1> DEFINE x == sensor[s]
           y == sensor'[s]
<1>1. LateInv(s) /\ UNCHANGED now /\ SensorStep(s) /\ delay_flags' \subseteq delay_flags
    BY CorruptFlagSteps DEF TimedInv, Sensor
<1>2. /\ x.scheduled \in Nat /\ x.wake \in Nat /\ now \in Nat
      /\ metrics[s].drift_sum \in Nat /\ Behind(s) \in Nat
    BY TimeFacts
<1>3. CASE \/ StartSensor(s) \/ BeginCycle(s) \/ SufferCorruption(s) \/ NoCorruption(s)
           \/ EndCorruption(s) \/ PushReading(s)
    <2>1. /\ x.pc \notin {"sleep", "done", "stalled"} /\ y.pc \notin {"sleep", "stalled"}
        BY <1>3, SensorSteps DEF Moves, Passes
    <2> QED BY <1>1, <2>1 DEF DelayBy, DelayCheck, At
<1>4. CASE SufferDelay(s)
    <2>1. /\ x.pc = "delay" /\ y.pc = "stalled" /\ y.wake = now + Stall
        BY <1>4, SensorSteps DEF Moves
    <2>2. s \in delay_flags /\ s \notin delay_flags'
        BY <1>4 DEF SufferDelay, TakeDelay
    <2>3. now <= b
        BY <2>1, <2>2 DEF DelayBy, DelayCheck, At
    <2>4. now + Stall <= b + Stall
        BY <1>2, <2>3 DEF Stall
    <2> QED BY <2>1, <2>2, <2>4 DEF DelayBy, At
<1>5. CASE NoDelay(s)
    <2>1. y.pc = "sleep" /\ s \notin delay_flags'
        BY <1>1, <1>5, SensorSteps DEF NoDelay, Passes, Moves
    <2> QED BY <2>1 DEF DelayBy, At
<1>6. CASE EndStall(s)
    <2>1. x.pc = "stalled" /\ y.pc = "sleep"
        BY <1>6, SensorSteps DEF Moves
    <2>2. s \notin delay_flags'
        BY <1>1, <2>1 DEF LateInv, At
    <2> QED BY <2>1, <2>2 DEF DelayBy, At
<1>7. CASE Read(s)
    <2>1. x.pc = "sleep" /\ y.pc = "corrupt"
        BY <1>7, SensorSteps DEF Moves
    <2>2. ASSUME s \in delay_flags PROVE now <= b
        <3>1. metrics[s].drift_sum + Behind(s) <= 0
            BY <1>1, <2>2 DEF LateInv, StallOver
        <3>2. Behind(s) = 0
            BY <1>2, <3>1
        <3>3. Behind(s) = IF now > x.scheduled THEN now - x.scheduled ELSE 0
            BY <2>1 DEF Behind
        <3>4. now <= x.scheduled
            BY <1>2, <3>2, <3>3
        <3>5. x.scheduled <= b
            BY <2>1, <2>2 DEF DelayBy, DelayCheck, At
        <3> QED BY <1>2, <3>4, <3>5
    <2> QED BY <1>1, <2>1, <2>2 DEF DelayBy, DelayCheck, At
<1> QED BY <1>1, <1>3, <1>4, <1>5, <1>6, <1>7 DEF SensorStep

LEMMA SensorKeepsCorrupt ==
    ASSUME ThreadsTyped, FaultsTyped, TimedInv, NEW s \in SensorType, Sensor(s),
           NEW b \in Nat, CorruptBy(s, b)
    PROVE  CorruptBy(s, b)'
<1> DEFINE x == sensor[s]
           y == sensor'[s]
           P == Period[s]
<1>1. /\ LateInv(s) /\ OnTime(s) /\ UNCHANGED now /\ SensorStep(s)
      /\ delay_flags' \subseteq delay_flags /\ corrupt_flags' \subseteq corrupt_flags
      /\ ~ SufferCorruption(s) => UNCHANGED corrupt_flags
    BY CorruptFlagSteps DEF TimedInv, Sensor
<1>2. /\ x.scheduled \in Nat /\ now \in Nat /\ x.reading.drift \in Nat
      /\ metrics[s].drift_sum \in Nat
      /\ P \in Nat /\ Lateness(s) \in Nat /\ Lateness(s) < P
    BY TimeFacts, PeriodFacts
<1>3. s \in corrupt_flags /\ x.pc # "done"
        => s \notin delay_flags /\ x.pc # "stalled" /\ CorruptCheck(s) <= b
    BY DEF CorruptBy, At
<1>4. CASE StartSensor(s)
    <2>1. x.pc = "start" /\ y.pc = "top" /\ y.scheduled = now
        BY <1>4, SensorSteps DEF Moves
    <2>2. CorruptCheck(s) >= now /\ CorruptCheck(s) \in Nat
        BY <1>2, <2>1 DEF CorruptCheck
    <2>3. CorruptCheck(s)' = now
        BY <1>1, <1>2, <2>1 DEF CorruptCheck
    <2>4. s \in corrupt_flags => now <= b
        BY <1>2, <1>3, <2>1, <2>2
    <2> QED BY <1>1, <1>3, <2>1, <2>3, <2>4 DEF CorruptBy, At
<1>5. CASE BeginCycle(s) \/ NoDelay(s)
    <2>1. /\ x.pc \in {"top", "delay"} /\ y.pc \in {"done", "delay", "sleep"}
          /\ y.scheduled = x.scheduled
        BY <1>5, SensorSteps DEF Moves, Passes
    <2>2. CorruptCheck(s)' = CorruptCheck(s)
        BY <1>1, <2>1 DEF CorruptCheck
    <2> QED BY <1>1, <1>3, <2>1, <2>2 DEF CorruptBy, At
<1>6. CASE SufferDelay(s) \/ EndStall(s)
    <2>1. x.pc \in {"delay", "stalled"} /\ y.pc \in {"stalled", "sleep"}
        BY <1>6, SensorSteps DEF Moves
    <2>2. s \in delay_flags \/ x.pc = "stalled"
        BY <1>6 DEF SufferDelay, EndStall, At
    <2>3. s \notin corrupt_flags'
        BY <1>1, <1>3, <2>1, <2>2
    <2> QED BY <2>1, <2>3 DEF CorruptBy, At
<1>7. CASE Read(s)
    <2>1. x.pc = "sleep" /\ y.pc = "corrupt" /\ now >= x.scheduled
        BY <1>7, SensorSteps DEF Moves, Read
    <2>2. CorruptCheck(s) = now /\ CorruptCheck(s)' = now
        BY <1>1, <1>2, <2>1 DEF CorruptCheck
    <2> QED BY <1>1, <1>3, <2>1, <2>2 DEF CorruptBy, At
<1>8. CASE SufferCorruption(s)
    <2>1. x.pc = "corrupt" /\ y.pc = "corrupted"
        BY <1>8, SensorSteps DEF Passes, Moves
    <2>2. s \in corrupt_flags /\ s \notin corrupt_flags'
        BY <1>8 DEF SufferCorruption, TakeCorrupt
    <2>3. now <= b
        BY <1>3, <2>1, <2>2 DEF CorruptCheck
    <2> QED BY <1>1, <2>2, <2>3 DEF CorruptBy
<1>9. CASE NoCorruption(s)
    <2>1. y.pc = "push" /\ s \notin corrupt_flags'
        BY <1>1, <1>9, SensorSteps DEF NoCorruption, Passes, Moves
    <2> QED BY <2>1 DEF CorruptBy, At
<1>10. CASE EndCorruption(s)
    <2>1. x.pc = "corrupted" /\ y.pc = "push" /\ y.scheduled = x.scheduled
        BY <1>10, SensorSteps DEF Moves
    <2>2. CorruptCheck(s)' = CorruptCheck(s)
        BY <2>1 DEF CorruptCheck
    <2> QED BY <1>1, <1>3, <2>1, <2>2 DEF CorruptBy, At
<1>11. CASE PushReading(s)
    <2>1. x.pc = "push" /\ y.pc = "top" /\ y.scheduled = x.scheduled + P
        BY <1>11, SensorSteps DEF Moves
    <2>2. now = x.scheduled + x.reading.drift
        BY <1>1, <2>1 DEF OnTime
    <2>3. x.reading.drift < P
        <3>1. Behind(s) = x.reading.drift
            BY <2>1 DEF Behind
        <3> QED BY <1>1, <1>2, <3>1 DEF LateInv
    <2>4. CorruptCheck(s) = x.scheduled + P /\ CorruptCheck(s)' = x.scheduled + P
        <3>1. x.scheduled + P > now
            BY <1>2, <2>2, <2>3
        <3> QED BY <1>1, <2>1, <3>1 DEF CorruptCheck
    <2> QED BY <1>1, <1>3, <2>1, <2>4 DEF CorruptBy, At
<1> QED BY <1>1, <1>4, <1>5, <1>6, <1>7, <1>8, <1>9, <1>10, <1>11 DEF SensorStep

\* The next look at either flag is no more than a period away.
LEMMA ChecksSoon ==
    ASSUME ThreadsTyped, FaultsTyped, TimedInv, now > 0, NEW s \in SensorType,
           ~ At(s, "done")
    PROVE  /\ DelayCheck(s) <= now + Period[s]
           /\ ~ At(s, "stalled") => CorruptCheck(s) <= now + Period[s]
<1> DEFINE x == sensor[s]
           P == Period[s]
<1>1. /\ x.scheduled \in Nat /\ now \in Nat /\ P \in Nat /\ x.reading.drift \in Nat
      /\ metrics[s].drift_sum \in Nat /\ x.cycle \in Nat
    BY TimeFacts, PeriodFacts
<1>2. OnTime(s)
    BY DEF TimedInv
<1>3. x.pc \in SensorPc /\ x.pc \notin {"start", "done"}
    <2>1. x.pc \in SensorPc
        BY RecordFacts
    <2>2. x.pc # "start"
        BY <1>1, <1>2 DEF OnTime
    <2> QED BY <2>1, <2>2 DEF At
<1>4. x.pc \in {"top", "delay", "sleep"} => x.scheduled <= now + P
    <2>1. CASE x.pc = "top"
        BY <1>1, <1>2, <2>1 DEF OnTime, Follows
    <2>2. CASE x.pc = "delay"
        BY <1>1, <1>2, <2>2 DEF OnTime, Follows
    <2>3. CASE x.pc = "sleep"
        BY <1>2, <2>3 DEF OnTime
    <2> QED BY <2>1, <2>2, <2>3
<1>5. DelayCheck(s) <= now + P
    BY <1>1, <1>4 DEF DelayCheck, At
<1>6. CASE x.pc \in {"corrupted", "push"}
    <2>1. now = x.scheduled + x.reading.drift /\ CorruptCheck(s) = x.scheduled + P
        BY <1>2, <1>6 DEF OnTime, CorruptCheck
    <2> QED BY <1>1, <1>5, <2>1
<1>7. CASE x.pc \notin {"corrupted", "push", "stalled"}
    <2>1. CorruptCheck(s) = IF x.pc # "corrupt" /\ x.scheduled > now THEN x.scheduled
                                                                    ELSE now
        BY <1>7 DEF CorruptCheck
    <2>2. x.pc # "corrupt" => x.scheduled <= now + P
        BY <1>3, <1>4, <1>7 DEF SensorPc
    <2> QED BY <1>1, <1>5, <2>1, <2>2
<1> QED BY <1>5, <1>6, <1>7 DEF At

\* A fault that is raised finds its sensor on its way to the check, and no delay
\* fault of the sensor pending from three intervals before.
LEMMA RaiseKeepsPickup ==
    ASSUME Timely, ThreadsTyped, FaultsTyped, CampaignInv, StallInv, NanInv, ClockInv,
           TimedInv, PickupInv, Injector, RaiseFlag
    PROVE  PickupInv'
<1> DEFINE e == injector.event
           k == fault_count
           Target(i) == FaultSchedule[i].target
           Type(i) == FaultSchedule[i].fault_type
<1>1. /\ injector.pc = "raise" /\ UNCHANGED <<now, sensor>>
      /\ Len(fault_log) \in Nat /\ now \in Nat
      /\ FaultInterval \in Nat /\ 3 <= FaultInterval
    BY InjectorSteps, CampaignAssumption DEF Injector, FaultsTyped, Timely, Stall
<1>2. /\ k \in 1 .. 4 /\ IsFault(e, k) /\ now = k * FaultInterval
    <2>1. k = Len(fault_log) + 1 /\ k <= 4 /\ IsFault(e, k)
        BY <1>1 DEF CampaignInv
    <2>2. now = (Len(fault_log) + 1) * FaultInterval
        BY <1>1 DEF ClockInv
    <2> QED BY <1>1, <2>1, <2>2
<1>3. now > 0
    BY <1>1, <1>2
<1>4. /\ Type(k) = "DelayedSensor" =>
           delay_flags' = delay_flags \union {Target(k)} /\ UNCHANGED corrupt_flags
      /\ Type(k) # "DelayedSensor" =>
           corrupt_flags' = corrupt_flags \union {Target(k)} /\ UNCHANGED delay_flags
    BY <1>2, ScheduleFacts DEF RaiseFlag, IsFault, FaultType
<1>5. \A i \in 1 .. 4 : Type(i) = Type(k) /\ Target(i) = Target(k) => i = k
    BY <1>2, ScheduleFacts
<1>6. ASSUME NEW i \in 1 .. 4, Type(i) = "DelayedSensor"
      PROVE  DelayBy(Target(i), Soon(i))'
    <2> DEFINE s == Target(i)
    <2>1. s \in SensorType /\ Soon(i) \in Nat /\ DelayBy(s, Soon(i))
        BY <1>6, SoonFacts DEF PickupInv
    <2>2. CASE i # k
        <3>1. s \in delay_flags' => s \in delay_flags
            BY <1>4, <1>5, <1>6, <2>2
        <3> HIDE DEF s
        <3>2. DelayBy(s, Soon(i))'
            BY <1>1, <2>1, <3>1, PickupStays
        <3> QED BY <3>2 DEF s
    <2>3. CASE i = k
        <3>1. IsDelayOf(e, s)
            BY <1>2, <1>6, <2>3 DEF IsFault, IsDelayOf
        <3>2. ~ At(s, "stalled")
            BY <2>1, <3>1, NotYetDelayed
        <3>3. Soon(i) = now + Period[s]
            BY <1>2, <2>3 DEF Soon
        <3> HIDE DEF s
        <3>4. ~ At(s, "done") => DelayCheck(s) <= Soon(i)
            BY <1>3, <2>1, <3>3, ChecksSoon
        <3>5. DelayBy(s, Soon(i))'
            BY <1>1, <3>2, <3>4 DEF DelayBy, DelayCheck, At
        <3> QED BY <3>5 DEF s
    <2> QED BY <2>2, <2>3
<1>7. ASSUME NEW i \in 1 .. 4, Type(i) # "DelayedSensor"
      PROVE  CorruptBy(Target(i), Soon(i))'
    <2> DEFINE s == Target(i)
    <2>1. /\ s \in SensorType /\ Soon(i) \in Nat /\ CorruptBy(s, Soon(i))
          /\ Type(i) = "CorruptedData"
        BY <1>7, SoonFacts DEF PickupInv
    <2>2. CASE i # k
        <3>1. s \in corrupt_flags' => s \in corrupt_flags
            BY <1>2, <1>4, <1>5, <1>7, <2>1, <2>2, SoonFacts
        <3>2. s \in corrupt_flags => k # i - 3
            <4> SUFFICES ASSUME s \in corrupt_flags PROVE k # i - 3
                OBVIOUS
            <4>1. RaisedFor(s, "CorruptedData")
                BY <2>1 DEF NanInv
            <4>2. PICK j \in 1 .. 4 : Raised(j) /\ Type(j) = "CorruptedData" /\ Target(j) = s
                BY <4>1 DEF RaisedFor
            <4>3. j = i
                BY <2>1, <4>2, ScheduleFacts
            <4> QED BY <1>2, <4>2, <4>3 DEF Raised
        <3>3. s \in corrupt_flags => (s \in delay_flags' => s \in delay_flags)
            <4>1. Type(k) = "DelayedSensor" /\ Target(k) = s => i = k + 3
                BY <1>2, <1>7, ScheduleOrder
            <4> QED BY <1>2, <1>4, <3>2, <4>1
        <3> HIDE DEF s
        <3>4. CorruptBy(s, Soon(i))'
            <4>1. CASE s \in corrupt_flags
                BY <1>1, <2>1, <3>1, <3>3, <4>1, PickupStays
            <4>2. CASE s \notin corrupt_flags
                BY <1>1, <2>1, <3>1, <4>2 DEF CorruptBy, At
            <4> QED BY <4>1, <4>2
        <3> QED BY <3>4 DEF s
    <2>3. CASE i = k
        <3>1. UNCHANGED delay_flags /\ Soon(i) = now + Period[s]
            BY <1>2, <1>4, <1>7, <2>3 DEF Soon
        <3>2. ASSUME s \in delay_flags \/ At(s, "stalled"), ~ At(s, "done") PROVE FALSE
            <4>1. RaisedFor(s, "DelayedSensor")
                BY <2>1, <3>2 DEF StallInv
            <4>2. PICK j \in 1 .. 4 : Type(j) = "DelayedSensor" /\ Target(j) = s
                BY <4>1 DEF RaisedFor
            <4>3. k = j + 3
                BY <1>7, <2>3, <4>2, ScheduleOrder
            <4>4. DelayBy(s, Soon(j))
                BY <4>2 DEF PickupInv
            <4>5. Soon(j) = FaultInterval + 2 /\ now = 4 * FaultInterval
                <5>1. j = 1 /\ k = 4
                    BY <1>2, <4>3
                <5>2. FaultSchedule[1].target = "Thermal" /\ Period["Thermal"] = 2
                    BY DEF FaultSchedule, Period, SensorType
                <5> QED BY <1>1, <1>2, <5>1, <5>2 DEF Soon
            <4>6. LateInv(s) /\ OnTime(s)
                BY <2>1 DEF TimedInv
            <4>7. now <= Soon(j) + Stall
                <5>1. /\ sensor[s].scheduled \in Nat /\ sensor[s].wake \in Nat
                      /\ metrics[s].drift_sum \in Nat /\ Behind(s) \in Nat
                    BY <2>1, TimeFacts
                <5>2. CASE At(s, "stalled")
                    <6>1. now <= sensor[s].wake /\ sensor[s].wake <= Soon(j) + Stall
                        BY <4>4, <4>6, <5>2 DEF OnTime, DelayBy, At
                    <6> QED BY <1>1, <4>5, <5>1, <6>1 DEF Stall
                <5>3. CASE s \in delay_flags /\ ~ At(s, "stalled")
                    <6>1. DelayCheck(s) <= Soon(j)
                        BY <3>2, <4>4, <5>3 DEF DelayBy
                    <6>2. metrics[s].drift_sum + Behind(s) <= 0
                        BY <4>6, <5>3 DEF LateInv, StallOver
                    <6>3. Behind(s) = 0
                        BY <5>1, <6>2
                    <6>4. now <= DelayCheck(s) /\ DelayCheck(s) \in Nat
                        BY <1>1, <5>1, <6>3 DEF DelayCheck, Behind, At
                    <6> QED BY <1>1, <4>5, <6>1, <6>4 DEF Stall
                <5> QED BY <3>2, <5>2, <5>3
            <4> QED BY <1>1, <4>5, <4>7 DEF Stall
        <3> HIDE DEF s
        <3>3. ~ At(s, "done") /\ ~ At(s, "stalled") => CorruptCheck(s) <= Soon(i)
            BY <1>3, <2>1, <3>1, ChecksSoon
        <3>4. now <= Soon(i)
            <4>1. Period[s] \in Nat
                BY <2>1, PeriodFacts
            <4> QED BY <1>1, <3>1, <4>1
        <3>5. CorruptBy(s, Soon(i))'
            BY <1>1, <3>1, <3>2, <3>3, <3>4 DEF CorruptBy, CorruptCheck, At
        <3> QED BY <3>5 DEF s
    <2> QED BY <2>2, <2>3
<1> QED BY <1>6, <1>7 DEF PickupInv

LEMMA NextKeepsPickup ==
    ASSUME Timely, ThreadsTyped, FaultsTyped, CampaignInv, StallInv, NanInv, ClockInv,
           TimedInv, PickupInv, PromptStep
    PROVE  PickupInv'
<1> DEFINE Keeps(s, b) == /\ DelayBy(s, b) => DelayBy(s, b)'
                          /\ CorruptBy(s, b) => CorruptBy(s, b)'
<1>1. ASSUME \A s \in SensorType, b \in Nat : Keeps(s, b) PROVE PickupInv'
    <2> SUFFICES ASSUME NEW i \in 1 .. 4
                 PROVE  IF FaultSchedule[i].fault_type = "DelayedSensor"
                        THEN DelayBy(FaultSchedule[i].target, Soon(i))'
                        ELSE CorruptBy(FaultSchedule[i].target, Soon(i))'
        BY DEF PickupInv
    <2>1. Keeps(FaultSchedule[i].target, Soon(i))
        BY <1>1, SoonFacts
    <2> QED BY <2>1 DEF PickupInv
<1>2. CASE TimePasses /\ Quiet
    BY <1>1, <1>2, TimeKeepsPickup
<1>3. ASSUME UNCHANGED <<now, sensor, delay_flags, corrupt_flags>> PROVE PickupInv'
    <2>1. \A s \in SensorType, b \in Nat : Keeps(s, b)
        BY <1>3, PickupStays
    <2> QED BY <1>1, <2>1
<1>4. CASE Injector
    <2>1. CASE RaiseFlag
        BY <1>4, <2>1, RaiseKeepsPickup
    <2>2. CASE StartInjector \/ CheckDeadline \/ SelectFault \/ LogFault
        <3>1. UNCHANGED <<now, sensor, delay_flags, corrupt_flags>>
            BY <1>4, <2>2, InjectorSteps DEF Injector, faultVars
        <3> QED BY <1>3, <3>1
    <2> QED BY <1>4, <2>1, <2>2 DEF Injector, InjectorStep
<1>5. CASE UNCHANGED <<now, faultVars, injector, sensor, metrics>>
    BY <1>3, <1>5 DEF faultVars
<1>6. ASSUME NEW s \in SensorType, Sensor(s) PROVE PickupInv'
    <2>1. ASSUME NEW t \in SensorType, NEW b \in Nat PROVE Keeps(t, b)
        <3>1. CASE t = s
            BY <1>6, <2>1, <3>1, SensorKeepsDelay, SensorKeepsCorrupt
        <3>2. CASE t # s
            <4>1. /\ sensor'[t] = sensor[t] /\ UNCHANGED now
                  /\ t \in delay_flags' => t \in delay_flags
                  /\ t \in corrupt_flags' => t \in corrupt_flags
                BY <1>6, <2>1, <3>2, SensorLeaves, CorruptFlagSteps
            <4> QED BY <2>1, <4>1, PickupStays
        <3> QED BY <3>1, <3>2
    <2> QED BY <1>1, <2>1
<1> QED BY <1>2, <1>4, <1>5, <1>6, PromptSteps

LEMMA InitIsPickup == Init => PickupInv
<1> SUFFICES ASSUME Init, NEW s \in SensorType, NEW b \in Nat
             PROVE  DelayBy(s, b) /\ CorruptBy(s, b)
    BY SoonFacts DEF PickupInv
<1>1. delay_flags = {} /\ corrupt_flags = {}
    BY DEF Init, FaultInit
<1>2. sensor[s].pc \in {"start", "done"}
    BY DEF Init
<1> QED BY <1>1, <1>2 DEF DelayBy, CorruptBy, At

-----------------------------------------------------------------------------
(* What WholeProgram.cfg checks of prompt threads.                         *)

RecoveriesInv ==
    \A i \in 1 .. Len(fault_log) :
        fault_log[i].recovered =>
            fault_log[i].recovery_ms
              <= Period[FaultSchedule[i].target]
                   + IF FaultSchedule[i].fault_type = "DelayedSensor" THEN Stall ELSE 0

LEMMA NextKeepsRecoveries ==
    ASSUME ThreadsTyped, FaultsTyped, CampaignInv, ClockInv, TimedInv, PickupInv,
           RecoveriesInv, PromptStep
    PROVE  RecoveriesInv'
<1> DEFINE n == Len(fault_log)
           Bound(i) == Period[FaultSchedule[i].target]
                         + IF FaultSchedule[i].fault_type = "DelayedSensor" THEN Stall
                                                                            ELSE 0
<1>1. AnyStep /\ now \in Nat /\ n \in Nat
    BY DEF PromptStep, FaultsTyped
<1>2. CASE UNCHANGED fault_log
    BY <1>2 DEF RecoveriesInv
<1>3. CASE LogFault
    <2>1. /\ \A i \in 1 .. n : fault_log'[i] = fault_log[i]
          /\ fault_log'[n + 1] = injector.event /\ ~ injector.event.recovered
          /\ 1 .. Len(fault_log') = (1 .. n) \union {n + 1}
        BY <1>3, LogGrows DEF Fresh
    <2> QED BY <2>1 DEF RecoveriesInv
<1>4. ASSUME NEW s \in SensorType, NEW type \in FaultType,
             NEW i \in Unrecovered(s, type), i \in 1 .. n,
             \/ EndStall(s) /\ type = "DelayedSensor"
             \/ EndCorruption(s) /\ type = "CorruptedData",
             now - fault_log[i].injected_at \in Nat,
             Marked(i, now - fault_log[i].injected_at)
      PROVE  RecoveriesInv'
    <2>1. /\ Len(fault_log') = n
          /\ fault_log'[i].recovery_ms = now - fault_log[i].injected_at
          /\ \A j \in 1 .. n : j # i => fault_log'[j] = fault_log[j]
        BY <1>4 DEF Marked
    <2>2. /\ i \in 1 .. 4 /\ FaultSchedule[i].fault_type = type
          /\ FaultSchedule[i].target = s
        <3>1. n <= 4
            BY <1>1 DEF CampaignInv, FaultsTyped
        <3>2. IsFault(fault_log[i], i) /\ i \in 1 .. 4
            BY <1>1, <1>4, <3>1 DEF CampaignInv
        <3> QED BY <1>4, <3>2 DEF IsFault, Unrecovered
    <2>3. /\ fault_log[i].injected_at = i * FaultInterval
          /\ i * FaultInterval \in Nat
          /\ Soon(i) = i * FaultInterval + Period[s] /\ Period[s] \in Nat
        BY <1>4, <2>2, PeriodFacts, CampaignAssumption DEF ClockInv, Soon
    <2>4. now - fault_log[i].injected_at <= Bound(i)
        <3>1. PICK p \in Nat : p = i * FaultInterval
            BY <2>3
        <3>2. CASE EndStall(s) /\ type = "DelayedSensor"
            <4>1. At(s, "stalled") /\ sensor[s].wake \in Nat
                BY <3>2, TimeFacts DEF EndStall
            <4>2. now <= sensor[s].wake
                BY <4>1 DEF TimedInv, OnTime, At
            <4>3. sensor[s].wake <= Soon(i) + Stall
                BY <2>2, <3>2, <4>1 DEF PickupInv, DelayBy
            <4>4. Bound(i) = Period[s] + Stall
                BY <2>2, <3>2
            <4> QED BY <1>1, <2>3, <3>1, <4>1, <4>2, <4>3, <4>4 DEF Stall
        <3>3. CASE EndCorruption(s) /\ type = "CorruptedData"
            <4>1. now <= Soon(i)
                BY <2>2, <3>3 DEF PickupInv, CorruptBy, EndCorruption
            <4>2. Bound(i) = Period[s] + 0
                BY <2>2, <3>3
            <4> QED BY <1>1, <2>3, <3>1, <4>1, <4>2
        <3> QED BY <1>4, <3>2, <3>3
    <2> QED BY <2>1, <2>4 DEF RecoveriesInv
<1> QED BY <1>1, <1>2, <1>3, <1>4, LogSteps

TimelyInv == /\ CampaignInv /\ StallInv /\ NanInv /\ ClockInv /\ TimedInv
             /\ PickupInv /\ RecoveriesInv

LEMMA InitIsTimely == Init => TimelyInv
<1> SUFFICES ASSUME Init PROVE TimelyInv
    OBVIOUS
<1>1. RecoveriesInv
    <2>1. 1 .. Len(fault_log) = {}
        BY DEF Init, FaultInit
    <2> QED BY <2>1 DEF RecoveriesInv
<1> QED BY <1>1, InitIsFaults, InitIsNan, InitIsClock, InitIsTimed, InitIsPickup
       DEF TimelyInv, FaultsInv

LEMMA NextKeepsTimely ==
    ASSUME Timely, CoreInv, TimelyInv, PromptStep
    PROVE  TimelyInv'
<1>1. /\ ThreadsTyped /\ FaultsTyped /\ AnyStep
      /\ RunDuration <= 5 * FaultInterval
    BY DEF CoreInv, PromptStep, Timely
<1>2. CampaignInv' /\ StallInv' /\ NanInv'
    BY <1>1, NextKeepsCampaign, NextKeepsStall, NextKeepsNan DEF TimelyInv
<1>3. ClockInv' /\ TimedInv' /\ PickupInv' /\ RecoveriesInv'
    BY <1>1, NextKeepsClock, NextKeepsTimed, NextKeepsPickup, NextKeepsRecoveries
       DEF TimelyInv
<1> QED BY <1>2, <1>3 DEF TimelyInv

\* The invariant of prompt threads, alone and in the whole program.
LEMMA TimelyHolds ==
    ASSUME Timely
    PROVE  (Spec => []TimelyInv) /\ (SystemSpec => []TimelyInv)
<1>1. CoreInv /\ TimelyInv /\ [Next]_vars => TimelyInv'
    BY NextIsPrompt, NextKeepsTimely
<1>2. CoreInv /\ TimelyInv /\ [SystemNext]_systemVars => TimelyInv'
    BY SystemNextIsPrompt, NextKeepsTimely
<1>3. SystemInit => TimelyInv
    BY InitIsTimely DEF SystemInit
<1>4. Spec => []TimelyInv
    BY <1>1, InitIsTimely, CoreHolds, PTL DEF Spec
<1>5. SystemSpec => []TimelyInv
    BY <1>2, <1>3, SystemCoreHolds, PTL DEF SystemSpec
<1> QED BY <1>4, <1>5

\* RecoveryBound: a fault is recovered within one period of its sensor and, for a
\* delay fault, the stall, because a sensor thread looks at its flags once a period.
THEOREM FaultsAreRecoveredSoon ==
    ASSUME Timely
    PROVE  (Spec => []RecoveryBound) /\ (SystemSpec => []RecoveryBound)
<1>1. TimelyInv => RecoveryBound
    BY DEF TimelyInv, RecoveriesInv, CampaignInv, IsFault, RecoveryBound, Recovered
<1>2. (Spec => []TimelyInv) /\ (SystemSpec => []TimelyInv)
    BY TimelyHolds
<1> QED BY <1>1, <1>2, PTL

\* StallDelaysOneReading: all readings of a sensor together are late by what the
\* stalls exceed its period, so lateness is not passed on from cycle to cycle.
THEOREM LatenessIsTheStalls ==
    ASSUME Timely
    PROVE  (Spec => []StallDelaysOneReading) /\ (SystemSpec => []StallDelaysOneReading)
<1>1. CoreInv /\ TimelyInv => StallDelaysOneReading
    <2> SUFFICES ASSUME CoreInv, TimelyInv, NEW s \in SensorType
                 PROVE  metrics[s].drift_sum <=
                          IF Stall <= Period[s] THEN 0
                          ELSE (Stall - Period[s])
                                 * Cardinality({i \in 1 .. Len(fault_log) :
                                      /\ fault_log[i].target = s
                                      /\ fault_log[i].fault_type = "DelayedSensor"})
        BY DEF StallDelaysOneReading
    <2> DEFINE D == {i \in 1 .. Len(fault_log) :
                       /\ fault_log[i].target = s
                       /\ fault_log[i].fault_type = "DelayedSensor"}
               d == metrics[s].drift_sum
    <2>1. ThreadsTyped /\ FaultsTyped /\ LateInv(s)
        BY DEF CoreInv, TimelyInv, TimedInv
    <2>2. /\ d \in Nat /\ Behind(s) \in Nat /\ Period[s] \in Nat /\ Stall = 3
          /\ Lateness(s) \in Nat
        BY <2>1, TimeFacts, PeriodFacts
    <2>3. d <= IF StallOver(s) THEN Lateness(s) ELSE 0
        BY <2>1, <2>2 DEF LateInv
    <2>4. IsFiniteSet(D) /\ Cardinality(D) \in Nat
        <3>1. Len(fault_log) \in Nat
            BY <2>1 DEF FaultsTyped
        <3> QED BY <3>1, SubsetOfInterval
    <2>5. StallOver(s) => Cardinality(D) >= 1
        <3>1. StallOver(s) => D # {}
            BY DEF StallOver, DelayLogged, IsDelayOf
        <3>2. D # {} => Cardinality(D) # 0
            <4> HIDE DEF D
            <4> QED BY <2>4, FS_EmptySet
        <3> QED BY <2>4, <3>1, <3>2
    <2> HIDE DEF D
    <2>6. CASE Stall <= Period[s]
        BY <2>2, <2>3, <2>6 DEF Lateness
    <2>7. CASE ~ (Stall <= Period[s])
        <3>1. PICK l \in Nat : l = Stall - Period[s]
            BY <2>2, <2>7
        <3>2. d <= IF StallOver(s) THEN l ELSE 0
            BY <2>2, <2>3, <2>7, <3>1 DEF Lateness
        <3>3. d <= l * Cardinality(D)
            BY <2>2, <2>4, <2>5, <3>1, <3>2
        <3> QED BY <2>7, <3>1, <3>3 DEF D
    <2> QED BY <2>6, <2>7 DEF D
<1>2. (Spec => []TimelyInv) /\ (SystemSpec => []TimelyInv)
    BY TimelyHolds
<1> QED BY <1>1, <1>2, CoreHolds, SystemCoreHolds, PTL

\* SampledEveryPeriod: a sensor thread ends after one reading per period and the one
\* begun just before the deadline, stalls or not, if the duration is a multiple of the
\* periods (300 s, and 100, 250 and 500 ms, in main.rs and types.rs).
THEOREM NoPeriodMissed ==
    ASSUME Timely, \A s \in SensorType : RunDuration % Period[s] = 0
    PROVE  (Spec => []SampledEveryPeriod) /\ (SystemSpec => []SampledEveryPeriod)
<1>1. CoreInv /\ TimelyInv => SampledEveryPeriod
    <2> SUFFICES ASSUME CoreInv, TimelyInv, NEW s \in SensorType, s \in Sensors,
                        At(s, "done")
                 PROVE  sensor[s].cycle = RunDuration \div Period[s] + 1
        BY AcquisitionAssumption DEF SampledEveryPeriod
    <2>1. ThreadsTyped /\ FaultsTyped /\ OnTime(s)
        BY DEF CoreInv, TimelyInv, TimedInv
    <2>2. sensor[s].cycle \in Nat /\ RunDuration \in Nat
        BY <2>1, TimeFacts
    <2>3. PICK c \in Nat : c = sensor[s].cycle
        BY <2>2
    <2>4. /\ RunDuration < c * Period[s]
          /\ c * Period[s] < RunDuration + 2 * Period[s]
        BY <2>1, <2>3 DEF OnTime, At
    <2>5. RunDuration % Period[s] = 0
        OBVIOUS
    <2>6. CASE s = "Thermal"
        <3>1. Period[s] = 2
            BY <2>6 DEF Period
        <3> QED BY <2>2, <2>3, <2>4, <2>5, <3>1
    <2>7. CASE s = "Power"
        <3>1. Period[s] = 5
            BY <2>7 DEF Period
        <3> QED BY <2>2, <2>3, <2>4, <2>5, <3>1
    <2>8. CASE s = "Attitude"
        <3>1. Period[s] = 10
            BY <2>8 DEF Period
        <3> QED BY <2>2, <2>3, <2>4, <2>5, <3>1
    <2> QED BY <2>6, <2>7, <2>8 DEF SensorType
<1>2. (Spec => []TimelyInv) /\ (SystemSpec => []TimelyInv)
    BY TimelyHolds
<1> QED BY <1>1, <1>2, CoreHolds, SystemCoreHolds, PTL

=============================================================================
