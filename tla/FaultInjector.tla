--------------------------- MODULE FaultInjector ---------------------------
(***************************************************************************)
(* a4_benchmark.rs: the fault injector thread, the fault state it shares   *)
(* with the sensor threads, and the hooks the sensors call.  Time is the   *)
(* clock now, in units of 50 ms; SensorAcquisition makes it pass.          *)
(***************************************************************************)
EXTENDS OcsTypes, SequencesExt, FiniteSets

CONSTANTS FaultInterval,   \* FAULT_INTERVAL_SECS, in clock units
          RunDuration      \* run_duration, in clock units

\* main.rs runs for five fault intervals.
ASSUME CampaignAssumption == /\ FaultInterval \in Nat \ {0}
                             /\ RunDuration \in Nat

VARIABLES now,
          delay_flags,      \* the sensors with an entry in the map
          corrupt_flags,    \* likewise; the map's values are all true
          fault_log,        \* Vec<FaultEvent>
          fault_count,
          mission_aborted,
          injector          \* the injector thread's locals

faultVars == <<delay_flags, corrupt_flags, fault_log, fault_count,
               mission_aborted>>

Stall == 3               \* the injected 150 ms
RecoveryDeadline == 4    \* RECOVERY_DEADLINE_MS

FaultType == {"DelayedSensor", "CorruptedData"}

FaultSchedule == << [fault_type |-> "DelayedSensor", target |-> "Thermal"],
                    [fault_type |-> "CorruptedData", target |-> "Power"],
                    [fault_type |-> "DelayedSensor", target |-> "Attitude"],
                    [fault_type |-> "CorruptedData", target |-> "Thermal"] >>

\* recovered_at and recovery_ms are Some together, when recovered holds.
FaultEvent == [id : Nat \ {0}, fault_type : FaultType, target : SensorType,
               injected_at : Nat, recovered : BOOLEAN, recovery_ms : Nat,
               aborted : BOOLEAN]

FaultInit == /\ delay_flags = {}
             /\ corrupt_flags = {}
             /\ fault_log = <<>>
             /\ fault_count = 0
             /\ mission_aborted = FALSE
             /\ injector = [pc |-> "start", deadline |-> 0, next_fault |-> 0,
                            event |-> <<>>]

-----------------------------------------------------------------------------
(* The injector thread.  fault_idx always equals fault_count.              *)

InjectorAt(label) == injector.pc = label

StartInjector ==
    /\ InjectorAt("start")
    /\ injector' = [injector EXCEPT !.pc = "check",
                                    !.deadline = now + RunDuration,
                                    !.next_fault = now + FaultInterval]
    /\ UNCHANGED faultVars

CheckDeadline ==
    /\ InjectorAt("check")
    /\ injector' = [injector EXCEPT !.pc = IF now >= injector.deadline
                                           THEN "done" ELSE "wait"]
    /\ UNCHANGED faultVars

\* The event of a fault, numbered from 1.
NewEvent(f) == [id |-> fault_count + 1, fault_type |-> f.fault_type,
                target |-> f.target, injected_at |-> now,
                recovered |-> FALSE, recovery_ms |-> 0, aborted |-> FALSE]

\* The sleep is over: look at the deadline again, then make up the event.
SelectFault ==
    /\ InjectorAt("wait")
    /\ now >= injector.next_fault
    /\ IF now >= injector.deadline
       THEN /\ injector' = [injector EXCEPT !.pc = "done"]
            /\ UNCHANGED fault_count
       ELSE LET f == FaultSchedule[(fault_count % Len(FaultSchedule)) + 1]
            IN  /\ fault_count' = fault_count + 1
                /\ injector' = [injector EXCEPT
                     !.pc = "raise",
                     !.event = NewEvent(f)]
    /\ UNCHANGED <<delay_flags, corrupt_flags, fault_log, mission_aborted>>

\* Put the flag up for the sensor ...
RaiseFlag ==
    /\ InjectorAt("raise")
    /\ LET e == injector.event IN
       \/ /\ e.fault_type = "DelayedSensor"
          /\ delay_flags' = delay_flags \union {e.target}
          /\ UNCHANGED corrupt_flags
       \/ /\ e.fault_type = "CorruptedData"
          /\ corrupt_flags' = corrupt_flags \union {e.target}
          /\ UNCHANGED delay_flags
    /\ injector' = [injector EXCEPT !.pc = "log"]
    /\ UNCHANGED <<fault_log, fault_count, mission_aborted>>

\* ... and only then enter the event in the log.
LogFault ==
    /\ InjectorAt("log")
    /\ fault_log' = Append(fault_log, injector.event)
    /\ injector' = [injector EXCEPT !.pc = "check",
                                    !.next_fault = @ + FaultInterval]
    /\ UNCHANGED <<delay_flags, corrupt_flags, fault_count, mission_aborted>>

InjectorStep == \/ StartInjector \/ CheckDeadline \/ SelectFault
                \/ RaiseFlag \/ LogFault

-----------------------------------------------------------------------------
(* The hooks, called by a sensor thread.                                   *)

\* Mutant: the delay flag is read and left up.
TakeDelayNot(s) == UNCHANGED faultVars

TakeDelay(s) == /\ delay_flags' = delay_flags \ {s}
                /\ UNCHANGED <<corrupt_flags, fault_log, fault_count,
                               mission_aborted>>

\* Mutant: the corruption flag is read and left up.
TakeCorruptNot(s) == UNCHANGED faultVars

TakeCorrupt(s) == /\ corrupt_flags' = corrupt_flags \ {s}
                  /\ UNCHANGED <<delay_flags, fault_log, fault_count,
                                 mission_aborted>>

\* Mutant: any fault of the sensor will do, recovered or not.
AnyFaultOf(s, type) == {i \in 1 .. Len(fault_log) : fault_log[i].target = s}

Unrecovered(s, type) ==
    {i \in 1 .. Len(fault_log) : /\ fault_log[i].target = s
                                 /\ fault_log[i].fault_type = type
                                 /\ ~ fault_log[i].recovered}

\* Mutant: the deadline itself counts as late.
LateAtDeadline(ms) == ms >= RecoveryDeadline

Late(ms) == ms > RecoveryDeadline

\* find_latest_fault_id followed by record_recovery.  They lock the log one
\* after the other, but only s itself recovers the faults of s.
Recover(s, type) ==
    \/ /\ Unrecovered(s, type) = {}
       /\ UNCHANGED faultVars
    \/ /\ Unrecovered(s, type) # {}
       /\ LET i == Max(Unrecovered(s, type))
              ms == now - fault_log[i].injected_at
          IN  /\ fault_log' = [fault_log EXCEPT ![i].recovered = TRUE,
                                                ![i].recovery_ms = ms,
                                                ![i].aborted = Late(ms)]
              /\ mission_aborted' = (mission_aborted \/ Late(ms))
       /\ UNCHANGED <<delay_flags, corrupt_flags, fault_count>>

\* Whether the injector must run before time passes, when it gets the
\* processor as soon as it is ready.
InjectorReady == /\ ~ InjectorAt("done")
                 /\ InjectorAt("wait") => now >= injector.next_fault

FaultTypeOK ==
    /\ now \in Nat
    /\ delay_flags \subseteq SensorType
    /\ corrupt_flags \subseteq SensorType
    /\ fault_log \in Seq(FaultEvent)
    /\ fault_count \in Nat
    /\ mission_aborted \in BOOLEAN
    /\ injector.pc \in {"start", "check", "wait", "raise", "log", "done"}
    /\ injector.deadline \in Nat /\ injector.next_fault \in Nat
    /\ injector.pc \in {"raise", "log"} => injector.event \in FaultEvent
=============================================================================
