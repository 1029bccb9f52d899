---------------------------- MODULE MCScheduler ----------------------------
(* Values for the constants of RateMonotonicScheduler.                     *)
EXTENDS RateMonotonicScheduler

\* The program's own, in milliseconds.
ProgramPeriod == [t \in Tasks |-> CASE t = "ThermalControl"   -> 200
                                    [] t = "DataCompression"  -> 300
                                    [] t = "HealthMonitoring" -> 500
                                    [] t = "AntennaAlignment" -> 800]

ProgramWcet == [t \in Tasks |-> CASE t = "ThermalControl"   -> 20
                                  [] t = "DataCompression"  -> 30
                                  [] t = "HealthMonitoring" -> 25
                                  [] t = "AntennaAlignment" -> 40]

\* Small ones, for threads that may be kept waiting for any time.
SmallPeriod == [t \in Tasks |-> IF t = "ThermalControl" THEN 2 ELSE 3]
SmallWcet == [t \in Tasks |-> IF t = "ThermalControl" THEN 1 ELSE 2]
=============================================================================
