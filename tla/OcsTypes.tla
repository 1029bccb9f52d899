------------------------------ MODULE OcsTypes ------------------------------
(***************************************************************************)
(* types.rs: the three sensors, their static parameters and the reading a  *)
(* sensor thread hands to the rest of the onboard control system.          *)
(***************************************************************************)
EXTENDS Naturals

SensorType == {"Thermal", "Power", "Attitude"}

\* SensorType::priority: a lower number is more important.
Priority == [s \in SensorType |-> CASE s = "Thermal"  -> 0
                                    [] s = "Power"    -> 1
                                    [] s = "Attitude" -> 2]

\* SensorType::period, in units of 50 ms (the greatest common divisor).
Period == [s \in SensorType |-> CASE s = "Thermal"  -> 2
                                  [] s = "Power"    -> 5
                                  [] s = "Attitude" -> 10]

IsCritical(s) == s = "Thermal"

\* SafetyAlert::MISS_THRESHOLD.
MissThreshold == 3

(***************************************************************************)
(* A reading.  The measured value is kept only as far as anything in the   *)
(* system tells values apart: a number or the NaN of a corruption fault.   *)
(* drift is scheduling_drift(), whole clock units late.                    *)
(***************************************************************************)
SensorReading == [sensor : SensorType, cycle : Nat \ {0},
                  value : {"number", "nan"}, drift : Nat]
=============================================================================
