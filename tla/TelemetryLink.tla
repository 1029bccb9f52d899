---------------------------- MODULE TelemetryLink ----------------------------
(***************************************************************************)
(* What the downlink of a3_downlink.rs promises the ground, whatever       *)
(* buffer, channels and tasks stand behind it: telemetry packets, numbered *)
(* as they are built, are written in order to the one connection the       *)
(* satellite accepts, or given up.  Downlink is shown to implement this    *)
(* module; GroundStation is the ground built on it.                        *)
(***************************************************************************)
EXTENDS Integers, Sequences

VARIABLES issued,    \* packets built, that is the number of the last one
          wire,      \* the numbers written to the connection
          lost,      \* the numbers given up
          phase      \* how far the satellite's one connection is

linkVars == <<issued, wire, lost, phase>>

Phase == {"closed",       \* the port is not bound yet
          "listening",    \* waiting for the ground to connect
          "streaming",    \* connected
          "deaf",         \* nobody came in time: everything is thrown away
          "over"}         \* the server has returned

Written == {wire[i] : i \in 1 .. Len(wire)}
Pending == (1 .. issued) \ (Written \union lost)

LinkInit == /\ issued = 0
            /\ wire = <<>>
            /\ lost = {}
            /\ phase = "closed"

Issue == /\ issued' = issued + 1
         /\ UNCHANGED <<wire, lost, phase>>

GiveUpSome(S) == /\ S \subseteq Pending
                 /\ lost' = lost \union S
                 /\ UNCHANGED <<issued, wire>>

\* A full channel, a server that has returned, or nobody on the other side.
Lose(S) == GiveUpSome(S) /\ UNCHANGED phase

Open == /\ phase = "closed"
        /\ phase' = "listening"
        /\ UNCHANGED <<issued, wire, lost>>

Connect == /\ phase = "listening"
           /\ phase' = "streaming"
           /\ UNCHANGED <<issued, wire, lost>>

GoDeaf == /\ phase = "listening"
          /\ phase' = "deaf"
          /\ UNCHANGED <<issued, wire, lost>>

\* Mutant: packets overtake each other.
DeliverAny == /\ phase = "streaming"
              /\ \E n \in Pending : wire' = Append(wire, n)
              /\ UNCHANGED <<issued, lost, phase>>

\* The oldest packet not given up goes next.
Deliver == /\ phase = "streaming"
           /\ \E n \in Pending : /\ \A m \in Pending : n <= m
                                 /\ wire' = Append(wire, n)
           /\ UNCHANGED <<issued, lost, phase>>

\* The server returns, and with it goes what it holds.
Close(S) == /\ phase # "over"
            /\ phase' = "over"
            /\ GiveUpSome(S)

LinkNext == \/ Issue \/ Open \/ Connect \/ GoDeaf \/ Deliver
            \/ \E S \in SUBSET Pending : Lose(S) \/ Close(S)

LinkSpec == LinkInit /\ [][LinkNext]_linkVars
-----------------------------------------------------------------------------
\* Type correctness; a packet is written or given up, not both.
LinkTypeOK == /\ issued \in Nat
              /\ wire \in Seq(1 .. issued)
              /\ lost \subseteq 1 .. issued
              /\ phase \in Phase

\* A gap in the numbers the ground sees is a packet it will never see: what is
\* written comes after every packet that could still have been written before
\* it, and no packet is both written and given up.
GapsAreLost ==
    /\ \A i \in 1 .. Len(wire) :
         \A n \in 1 .. wire[i] :
             n \in lost \/ \E j \in 1 .. i : wire[j] = n
    /\ Written \intersect lost = {}
=============================================================================
