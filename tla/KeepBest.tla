------------------------------ MODULE KeepBest ------------------------------
(***************************************************************************)
(* What the sensor buffer promises, without saying how: it holds at most   *)
(* Capacity readings; whenever one too many is offered, the least valuable *)
(* one of all of them is lost, and the reader always takes the most        *)
(* valuable one.  A reading is more valuable when its sensor is more       *)
(* important, and among the readings of a sensor when it is older.         *)
(***************************************************************************)
EXTENDS OcsTypes, FiniteSets, Sequences

CONSTANTS Capacity, Readings     \* Readings: the ones that can be offered

VARIABLES held,   \* the readings in the buffer
          lost,   \* the readings given up
          taken   \* the readings delivered, in order

vars == <<held, lost, taken>>

MoreValuable(a, b) ==
    \/ Priority[a.sensor] < Priority[b.sensor]
    \/ a.sensor = b.sensor /\ a.cycle < b.cycle

Best(S) == CHOOSE a \in S : \A b \in S \ {a} : MoreValuable(a, b)
Worst(S) == CHOOSE a \in S : \A b \in S \ {a} : MoreValuable(b, a)

Init == held = {} /\ lost = {} /\ taken = <<>>

Offer(r) ==
    LET candidates == held \union {r} IN
    /\ IF Cardinality(candidates) <= Capacity
       THEN held' = candidates /\ lost' = lost
       ELSE /\ held' = candidates \ {Worst(candidates)}
            /\ lost' = lost \union {Worst(candidates)}
    /\ UNCHANGED taken

Take == /\ held # {}
        /\ held' = held \ {Best(held)}
        /\ taken' = Append(taken, Best(held))
        /\ UNCHANGED lost

Next == Take \/ \E r \in Readings : Offer(r)

Spec == Init /\ [][Next]_vars
=============================================================================
