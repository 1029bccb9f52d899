------------------------------ MODULE MCSensors ------------------------------
(***************************************************************************)
(* SensorAcquisition for a sensor and a downlink that may be kept waiting. *)
(*                                                                         *)
(* How late each reading was is written down in many places and read by    *)
(* nobody: neither a guard nor a property of the run depends on the value  *)
(* or the lateness of a reading, on what was delivered, or on the counters *)
(* of cycles and lateness.  States that differ in nothing else are         *)
(* explored once.                                                          *)
(***************************************************************************)
EXTENDS SensorAcquisition

Named(r) == <<r.sensor, r.cycle>>

WithoutLateness ==
    <<[i \in 1 .. Len(items) |-> Named(items[i])], dropped_log, latency_log,
      faultVars, injector, now,
      [s \in SensorType |-> <<[sensor[s] EXCEPT !.reading = Named(@)],
                              metrics[s].dropped, metrics[s].alerts>>]>>
=============================================================================
