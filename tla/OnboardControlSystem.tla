------------------------ MODULE OnboardControlSystem ------------------------
(***************************************************************************)
(* main.rs: the whole onboard program.  main spawns the threads of all     *)
(* four tasks, joins them one after the other and prints its reports from  *)
(* what they have left behind.                                             *)
(*                                                                         *)
(* The sensors and the injector are those of SensorAcquisition.  The       *)
(* downlink is what Downlink models, in as far as the buffer and main see  *)
(* it: a thread that may fail to start its runtime, and that stops taking  *)
(* readings at a deadline of its own.  The scheduler's threads share       *)
(* nothing with the others; one thread stands for them.                    *)
(***************************************************************************)
EXTENDS SensorAcquisition

CONSTANT MaxBatch     \* readings the downlink takes in one round, 8

ASSUME SystemAssumption == MaxBatch \in Nat \ {0}

VARIABLES downlink,   \* the locals of downlink_loop
          scheduler,  \* whether the scheduler's threads still run
          main        \* the locals of main, and what it reported

systemVars == <<vars, downlink, scheduler, main>>

\* The order in which main joins its threads.
JoinOrder == <<"Thermal", "Power", "Attitude", "scheduler", "downlink", "injector">>

NoVerdict == [nominal |-> FALSE, mission_status |-> "", zero_drops |-> FALSE,
              zero_alerts |-> FALSE, total_dropped |-> 0]

SystemInit == /\ Init
              /\ downlink = [pc |-> "start", deadline |-> 0, popped |-> 0]
              /\ scheduler = "running"
              /\ main = [pc |-> "join", joined |-> 0, alerts |-> 0,
                         verdict |-> NoVerdict]
-----------------------------------------------------------------------------
(* The downlink's thread.                                                  *)

DownlinkAt(label) == downlink.pc = label
DownlinkEnded == downlink.pc \in {"done", "panicked"}

\* Mutant: the deadline is the time the thread starts.
StartDownlinkNoDuration ==
    /\ DownlinkAt("start")
    /\ downlink' = [downlink EXCEPT !.pc = "check", !.deadline = now]
    /\ UNCHANGED <<bufferVars, delivered>>

\* The runtime is built, or cannot be; the deadline runs from here.
StartDownlink ==
    /\ DownlinkAt("start")
    /\ \/ downlink' = [downlink EXCEPT !.pc = "check", !.deadline = now + RunDuration]
       \/ downlink' = [downlink EXCEPT !.pc = "panicked"]
    /\ UNCHANGED <<bufferVars, delivered>>

CheckDownlinkDeadline ==
    /\ DownlinkAt("check")
    /\ downlink' = IF now >= downlink.deadline
                   THEN [downlink EXCEPT !.pc = "done"]
                   ELSE [downlink EXCEPT !.pc = "drain", !.popped = 0]
    /\ UNCHANGED <<bufferVars, delivered>>

\* Mutant: one reading more than a round may take.
DrainOneTooMany == /\ DownlinkAt("drain")
                   /\ downlink.popped <= MaxBatch
                   /\ Pop
                   /\ delivered' = delivered \union {Head(items)}
                   /\ downlink' = [downlink EXCEPT !.popped = @ + 1]

DrainOne == /\ DownlinkAt("drain")
            /\ downlink.popped < MaxBatch
            /\ Pop
            /\ delivered' = delivered \union {Head(items)}
            /\ downlink' = [downlink EXCEPT !.popped = @ + 1]

\* The round is over.
EndRound == /\ DownlinkAt("drain")
            /\ downlink.popped = MaxBatch \/ items = <<>>
            /\ downlink' = [downlink EXCEPT !.pc = "sleep", !.popped = 0]
            /\ UNCHANGED <<bufferVars, delivered>>

\* The sleep of 10 ms is below the clock's resolution; a round that finds nothing
\* to take before the deadline changes nothing, and is left out.
NextRound == /\ DownlinkAt("sleep")
             /\ items # <<>> \/ now >= downlink.deadline
             /\ downlink' = [downlink EXCEPT !.pc = "check"]
             /\ UNCHANGED <<bufferVars, delivered>>

DownlinkThread ==
    /\ \/ StartDownlink \/ CheckDownlinkDeadline
       \/ DrainOne \/ EndRound \/ NextRound
    /\ UNCHANGED <<faultVars, injector, now, sensor, metrics, scheduler, main>>

SchedulerThread == /\ scheduler = "running"
                   /\ now >= RunDuration
                   /\ scheduler' = "done"
                   /\ UNCHANGED <<vars, downlink, main>>

SensorThread(s) == Sensor(s) /\ UNCHANGED <<downlink, scheduler, main>>

InjectorThread == Injector /\ UNCHANGED <<downlink, scheduler, main>>
-----------------------------------------------------------------------------
(* main                                                                    *)

Ended(t) == CASE t \in SensorType  -> At(t, "done")
              [] t = "scheduler"   -> scheduler = "done"
              [] t = "downlink"    -> DownlinkEnded
              [] t = "injector"    -> InjectorAt("done")

AllJoined == main.joined = Len(JoinOrder)

\* Mutant: a thread that panicked is waited for.
JoinUnlessPanicked ==
    /\ main.pc = "join"
    /\ ~ AllJoined
    /\ LET t == JoinOrder[main.joined + 1] IN
       /\ Ended(t) /\ (t = "downlink" => DownlinkAt("done"))
       /\ main' = [main EXCEPT
            !.joined = @ + 1,
            !.alerts = @ + IF t \in SensorType THEN metrics[t].alerts ELSE 0]

\* Mutant: the alerts of the last thread joined replace those of the others.
JoinKeepsLast ==
    /\ main.pc = "join"
    /\ ~ AllJoined
    /\ LET t == JoinOrder[main.joined + 1] IN
       /\ Ended(t)
       /\ main' = [main EXCEPT
            !.joined = @ + 1,
            !.alerts = IF t \in SensorType THEN metrics[t].alerts ELSE 0]

\* join of one thread; a sensor hands over its safety alerts.  A thread that
\* panicked is joined like any other.
Join == /\ main.pc = "join"
        /\ ~ AllJoined
        /\ LET t == JoinOrder[main.joined + 1] IN
           /\ Ended(t)
           /\ main' = [main EXCEPT
                !.joined = @ + 1,
                !.alerts = @ + IF t \in SensorType THEN metrics[t].alerts ELSE 0]

\* print_report and the buffer's statistics.
ReportReadings ==
    /\ main.pc = "join"
    /\ AllJoined
    /\ main' = [main EXCEPT !.pc = "report", !.verdict.total_dropped = TotalDropped]

\* print_benchmark_report: its verdict.
ReportBenchmark ==
    /\ main.pc = "report"
    /\ main' = [main EXCEPT !.pc = "log", !.verdict.nominal = ~ mission_aborted]

\* write_final_report: its verdicts.
WriteFinalReport ==
    /\ main.pc = "log"
    /\ main' = [main EXCEPT
         !.pc = "end",
         !.verdict.mission_status = IF mission_aborted THEN "DEGRADED" ELSE "NOMINAL",
         !.verdict.zero_drops = \A s \in SensorType : metrics[s].dropped = 0,
         !.verdict.zero_alerts = \A s \in SensorType : metrics[s].alerts = 0]

Main == /\ Join \/ ReportReadings \/ ReportBenchmark \/ WriteFinalReport
        /\ UNCHANGED <<vars, downlink, scheduler>>

DownlinkBusy == \/ downlink.pc \in {"start", "check", "drain"}
                \/ DownlinkAt("sleep") /\ (items # <<>> \/ now >= downlink.deadline)

\* Time passes while a thread runs, and stands still for those in Prompt.
SystemTick ==
    /\ main.pc = "join"
    /\ now < RunDuration + Overrun
    /\ \A t \in Prompt : IF t = "downlink" THEN ~ DownlinkBusy ELSE ~ Busy(t)
    /\ now' = now + 1
    /\ UNCHANGED <<bufferVars, faultVars, injector, sensor, metrics, delivered,
                   downlink, scheduler, main>>

SystemNext == \/ SystemTick \/ Main \/ DownlinkThread \/ SchedulerThread
              \/ InjectorThread
              \/ \E s \in SensorType : SensorThread(s)

SystemSpec == SystemInit /\ [][SystemNext]_systemVars

\* The operating system keeps no thread that is ready from running for ever.
SystemFairSpec ==
    /\ SystemSpec
    /\ WF_systemVars(SystemTick) /\ WF_systemVars(Main)
    /\ WF_systemVars(DownlinkThread) /\ WF_systemVars(SchedulerThread)
    /\ WF_systemVars(InjectorThread)
    /\ \A s \in SensorType : WF_systemVars(SensorThread(s))
-----------------------------------------------------------------------------
\* Type correctness.
SystemTypeOK ==
    /\ TypeOK
    /\ downlink.pc \in {"start", "check", "drain", "sleep", "done", "panicked"}
    /\ downlink.deadline \in Nat /\ downlink.popped \in 0 .. MaxBatch
    /\ scheduler \in {"running", "done"}
    /\ main.pc \in {"join", "report", "log", "end"} /\ main.joined \in 0 .. Len(JoinOrder)
    /\ main.alerts \in Nat
    /\ main.verdict \in [nominal : BOOLEAN, mission_status : {"", "DEGRADED", "NOMINAL"},
                         zero_drops : BOOLEAN, zero_alerts : BOOLEAN,
                         total_dropped : Nat]

\* The verdicts that main prints and logs are read one after the other from records
\* of different parties, and agree with each other and with the logs at the end:
\* the two on the mission (main.rs:164, logger.rs:521) with the recovery times in the
\* fault log, zero_drops (logger.rs:539) with the refusals in the buffer's drop log
\* and the total printed before, zero_alerts with the alerts handed over by join.
ReportsAgree ==
    main.pc = "end" =>
        LET v == main.verdict IN
        /\ v.nominal <=> v.mission_status = "NOMINAL"
        /\ v.nominal <=> \A i \in Recovered :
                             fault_log[i].recovery_ms <= RecoveryDeadline
        /\ v.zero_drops <=> \A s \in SensorType : Dropped(s) \subseteq Logged(s)
        /\ v.total_dropped = TotalDropped
        /\ v.total_dropped = 0 => v.zero_drops
        /\ v.zero_alerts <=> main.alerts = 0

\* With every thread prompt the downlink, which stops by a deadline of its own and
\* not when the sensors have ended, leaves at most one reading of each sensor in
\* the buffer: the last, taken at the end of the run.  All the others were sent or
\* dropped.
OnlyLastReadingsStranded ==
    DownlinkAt("done") /\ main.pc # "join" =>
        \A i \in 1 .. Len(items) : items[i].cycle = sensor[items[i].sensor].cycle

Excess == metrics["Thermal"].cycles - Capacity

\* When the downlink could not start, the readings of Thermal take the whole
\* buffer from the others before the first is lost, and from then on every fourth
\* loss raises a safety alert, which main collects: the failure of another thread
\* shows in the sensor's own alerts; main itself only prints that a thread
\* panicked (main.rs:128) and reports like after any other run.
DeadDownlinkRaisesAlerts ==
    DownlinkAt("panicked") /\ main.pc # "join" =>
        LET losses == IF Excess > 0 THEN Excess ELSE 0
        IN  /\ metrics["Thermal"].dropped = losses
            /\ main.alerts = losses \div (MissThreshold + 1)

\* The program comes to its end, whatever becomes of the downlink, and then no fault
\* flag is still up.
ProgramEnds == <>(main.pc = "end" /\ delay_flags \union corrupt_flags = {})
=============================================================================
