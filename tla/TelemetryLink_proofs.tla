------------------------ MODULE TelemetryLink_proofs ------------------------
(***************************************************************************)
(* Proofs about TelemetryLink: for any number of packets, given up in any  *)
(* order and at any time.                                                  *)
(***************************************************************************)
EXTENDS TelemetryLink, TLAPS

LinkInv == LinkTypeOK /\ GapsAreLost

\* A step that leaves the wire alone and gives up some pending packets.
LEMMA GivingUpKeepsInv ==
    ASSUME LinkInv, NEW S, GiveUpSome(S), phase' \in Phase
    PROVE  LinkInv'
<1>1. S \subseteq Pending /\ lost' = lost \union S /\ issued' = issued /\ wire' = wire
  BY DEF GiveUpSome
<1>2. LinkTypeOK /\ GapsAreLost
  BY DEF LinkInv
<1>3. Written' = Written
  BY <1>1 DEF Written
<1>4. LinkTypeOK'
  BY <1>1, <1>2 DEF LinkTypeOK, Pending
<1>5. (Written \intersect lost = {})'
  BY <1>1, <1>2, <1>3 DEF GapsAreLost, Pending
<1> QED BY <1>1, <1>2, <1>4, <1>5 DEF LinkInv, GapsAreLost

LEMMA IssueKeepsInv == LinkInv /\ Issue => LinkInv'
<1> SUFFICES ASSUME LinkInv, Issue PROVE LinkInv'
  OBVIOUS
<1>1. issued' = issued + 1 /\ wire' = wire /\ lost' = lost /\ phase' = phase
  BY DEF Issue
<1>2. LinkTypeOK /\ GapsAreLost
  BY DEF LinkInv
<1>3. 1 .. issued \subseteq 1 .. issued'
  BY <1>1, <1>2 DEF LinkTypeOK
<1>4. LinkTypeOK'
  BY <1>1, <1>2, <1>3 DEF LinkTypeOK
<1> QED BY <1>1, <1>2, <1>4 DEF LinkInv, GapsAreLost, Written

\* What is written next leaves no packet pending before it.
LEMMA DeliverKeepsInv == LinkInv /\ Deliver => LinkInv'
<1> SUFFICES ASSUME LinkInv, Deliver PROVE LinkInv'
  OBVIOUS
<1>1. PICK n \in Pending : (\A m \in Pending : n <= m) /\ wire' = Append(wire, n)
  BY DEF Deliver
<1>2. issued' = issued /\ lost' = lost /\ phase' = phase
  BY DEF Deliver
<1>3. LinkTypeOK /\ GapsAreLost
  BY DEF LinkInv
<1>4. n \in 1 .. issued /\ n \notin Written /\ n \notin lost
  BY DEF Pending
<1>5. /\ wire \in Seq(1 .. issued) /\ issued \in Nat
      /\ wire' \in Seq(1 .. issued) /\ Len(wire') = Len(wire) + 1
      /\ \A i \in 1 .. Len(wire) : wire'[i] = wire[i]
      /\ wire'[Len(wire) + 1] = n
      /\ Len(wire) \in Nat
  BY <1>1, <1>3, <1>4 DEF LinkTypeOK
<1>6. LinkTypeOK'
  BY <1>2, <1>3, <1>5 DEF LinkTypeOK
<1>7. Written' = Written \union {n}
  <2>1. /\ Written' = {wire'[i] : i \in 1 .. Len(wire')}
        /\ Written = {wire[i] : i \in 1 .. Len(wire)}
    BY DEF Written
  <2>2. 1 .. Len(wire') = 1 .. Len(wire) \union {Len(wire) + 1}
    BY <1>5
  <2>3. Written' = {wire'[i] : i \in 1 .. Len(wire)} \union {n}
    BY <1>5, <2>1, <2>2
  <2>4. {wire'[i] : i \in 1 .. Len(wire)} = Written
    BY <1>5, <2>1
  <2> QED BY <2>3, <2>4
<1>8. ASSUME NEW i \in 1 .. Len(wire'), NEW k \in 1 .. wire'[i]
      PROVE  k \in lost \/ \E j \in 1 .. i : wire'[j] = k
  <2>1. CASE i \in 1 .. Len(wire)
    <3>1. k \in 1 .. wire[i]
      BY <2>1, <1>5
    <3>2. k \in lost \/ \E j \in 1 .. i : wire[j] = k
      BY <2>1, <3>1, <1>3 DEF GapsAreLost
    <3>3. \A j \in 1 .. i : wire'[j] = wire[j]
      BY <2>1, <1>5
    <3> QED BY <3>2, <3>3
  <2>2. CASE i = Len(wire) + 1
    <3>1. CASE k = n
      BY <2>2, <3>1, <1>5
    <3>2. CASE k # n
      <4>1. k \in 1 .. issued /\ k < n
        BY <2>2, <3>2, <1>4, <1>5
      <4>2. k \notin Pending
        BY <4>1, <1>1, <1>4
      <4>3. k \in Written \/ k \in lost
        BY <4>1, <4>2 DEF Pending
      <4>4. CASE k \in Written
        <5>1. PICK j \in 1 .. Len(wire) : wire[j] = k
          BY <4>4 DEF Written
        <5>2. j \in 1 .. i /\ wire'[j] = k
          BY <5>1, <2>2, <1>5
        <5> QED BY <5>2
      <4> QED BY <4>3, <4>4
    <3> QED BY <3>1, <3>2
  <2> QED BY <2>1, <2>2, <1>5
<1>9. (Written \intersect lost = {})'
  BY <1>2, <1>3, <1>4, <1>7 DEF GapsAreLost
<1>10. GapsAreLost'
  BY <1>2, <1>8, <1>9 DEF GapsAreLost
<1> QED BY <1>6, <1>10 DEF LinkInv

LEMMA LinkStepInv == LinkInv /\ [LinkNext]_linkVars => LinkInv'
<1> SUFFICES ASSUME LinkInv, [LinkNext]_linkVars PROVE LinkInv'
  OBVIOUS
<1>1. LinkTypeOK
  BY DEF LinkInv
<1>2. CASE UNCHANGED linkVars
  BY <1>2 DEF linkVars, LinkInv, LinkTypeOK, GapsAreLost, Written
<1>3. CASE Issue
  BY <1>3, IssueKeepsInv
<1>4. CASE Open \/ Connect \/ GoDeaf
  <2>1. GiveUpSome({}) /\ phase' \in Phase
    BY <1>4 DEF Open, Connect, GoDeaf, GiveUpSome, Phase
  <2> QED BY <2>1, GivingUpKeepsInv
<1>5. CASE Deliver
  BY <1>5, DeliverKeepsInv
<1>6. ASSUME NEW S \in SUBSET Pending, Lose(S) \/ Close(S) PROVE LinkInv'
  <2>1. GiveUpSome(S) /\ phase' \in Phase
    BY <1>1, <1>6 DEF Lose, Close, LinkTypeOK, Phase
  <2> QED BY <2>1, GivingUpKeepsInv
<1> QED BY <1>2, <1>3, <1>4, <1>5, <1>6 DEF LinkNext

LEMMA InitLinkInv == LinkInit => LinkInv
  BY DEF LinkInit, LinkInv, LinkTypeOK, GapsAreLost, Written, Phase

\* Packets are numbered, written and given up as LinkTypeOK says.
THEOREM LinkTypeCorrect == LinkSpec => []LinkTypeOK
<1>1. LinkInv => LinkTypeOK
  BY DEF LinkInv
<1> QED BY InitLinkInv, LinkStepInv, <1>1, PTL DEF LinkSpec

\* A packet that a later one has overtaken on the wire will never be written.
THEOREM GapsAreFinal == LinkSpec => []GapsAreLost
<1>1. LinkInv => GapsAreLost
  BY DEF LinkInv
<1> QED BY InitLinkInv, LinkStepInv, <1>1, PTL DEF LinkSpec
=============================================================================
