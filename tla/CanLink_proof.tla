---------------------------- MODULE CanLink_proof ----------------------------
(***************************************************************************)
(* What the abstract link guarantees, for every capacity.                  *)
(***************************************************************************)
EXTENDS CanLink, SequenceTheorems, TLAPS

(* Everything transmitted is older than everything that waits, both are in
   order, and neither holds a frame that was not accepted.                   *)
LinkOrder ==
  /\ LinkTypeOK
  /\ Increasing(wire)
  /\ Increasing(backlog)
  /\ \A i \in 1..Len(wire), j \in 1..Len(backlog) : wire[i] < backlog[j]
  /\ \A i \in 1..Len(wire) : wire[i] <= accepted
  /\ \A j \in 1..Len(backlog) : backlog[j] <= accepted

LEMMA TailOf ==
  ASSUME NEW s \in Seq(Nat), s # <<>>
  PROVE  /\ Tail(s) \in Seq(Nat)
         /\ Head(s) = s[1]
         /\ Len(s) \in Nat \ {0}
         /\ Len(Tail(s)) = Len(s) - 1
         /\ \A i \in 1..Len(Tail(s)) : i + 1 \in 1..Len(s) /\ Tail(s)[i] = s[i+1]
BY HeadTailProperties, LenProperties

LEMMA AppendOf ==
  ASSUME NEW s \in Seq(Nat), NEW n \in Nat
  PROVE  /\ Append(s, n) \in Seq(Nat)
         /\ Len(Append(s, n)) = Len(s) + 1
         /\ Append(s, n)[Len(s) + 1] = n
         /\ \A i \in 1..Len(s) : Append(s, n)[i] = s[i]
BY AppendProperties

LEMMA InitLinkType == LinkInit => LinkTypeOK
<1> SUFFICES ASSUME LinkInit PROVE LinkTypeOK
  OBVIOUS
<1>1. backlog \in Seq(Nat) /\ wire \in Seq(Nat)
  BY EmptySeq DEF LinkInit
<1> QED BY <1>1 DEF LinkInit, LinkTypeOK

LEMMA LinkOrderStep == LinkOrder /\ [LinkNext]_linkVars => LinkOrder'
<1> SUFFICES ASSUME LinkOrder, [LinkNext]_linkVars PROVE LinkOrder'
  OBVIOUS
<1> USE DEF LinkOrder, LinkTypeOK, Increasing
<1>1. ASSUME wire' = wire, accepted' = accepted, open' \in BOOLEAN,
             backlog # <<>>, backlog' = Tail(backlog)
      PROVE  LinkOrder'
  BY <1>1, TailOf
<1>2. CASE Connect
  BY <1>2 DEF Connect
<1>3. CASE Accept
  <2>1. accepted' \in Nat /\ accepted' = accepted + 1
    BY <1>3 DEF Accept
  <2> QED BY <1>3, <2>1, AppendOf DEF Accept
<1>4. CASE Transmit
  <2>1. backlog[1] \in Nat /\ 1 \in 1..Len(backlog)
    BY <1>4, TailOf DEF Transmit
  <2>2. \A i \in 1..Len(wire) : wire[i] < backlog[1]
    BY <2>1
  <2>3. wire' = Append(wire, backlog[1]) /\ backlog' = Tail(backlog)
    BY <1>4, TailOf DEF Transmit
  <2>4. UNCHANGED <<open, accepted>>
    BY <1>4 DEF Transmit
  <2>5. wire' \in Seq(Nat) /\ backlog' \in Seq(Nat) /\ Len(wire') = Len(wire) + 1
    BY <1>4, <2>1, <2>3, TailOf, AppendOf DEF Transmit
  <2>6. \A i \in 1..Len(wire') :
          \/ i \in 1..Len(wire) /\ wire'[i] = wire[i]
          \/ i = Len(wire) + 1 /\ wire'[i] = backlog[1]
    BY <2>1, <2>3, <2>5, AppendOf
  <2>7. \A j \in 1..Len(backlog') :
          j + 1 \in 1..Len(backlog) /\ 1 < j + 1 /\ backlog'[j] = backlog[j + 1]
    BY <1>4, <2>3, TailOf DEF Transmit
  <2>8. Increasing(wire')
    <3> SUFFICES ASSUME NEW i \in 1..Len(wire'), NEW j \in 1..Len(wire'), i < j
                 PROVE  wire'[i] < wire'[j]
      OBVIOUS
    <3>1. Len(wire) \in Nat
      BY LenProperties
    <3>2. i \in 1..Len(wire) /\ wire'[i] = wire[i]
      BY <2>5, <2>6, <3>1
    <3> QED BY <2>2, <2>6, <3>2
  <2>9. Increasing(backlog')
    BY <2>7
  <2>10. \A i \in 1..Len(wire'), j \in 1..Len(backlog') : wire'[i] < backlog'[j]
    BY <2>1, <2>6, <2>7
  <2>11. \A i \in 1..Len(wire') : wire'[i] <= accepted
    BY <2>1, <2>6
  <2>12. \A j \in 1..Len(backlog') : backlog'[j] <= accepted
    BY <2>7
  <2> QED BY <2>4, <2>5, <2>8, <2>9, <2>10, <2>11, <2>12
<1>5. CASE Hangup
  BY <1>1, <1>5 DEF Hangup
<1>6. CASE Discard
  <2>1. CASE backlog' = <<>>
    <3>1. Len(backlog') = 0 /\ backlog' \in Seq(Nat)
      BY <2>1, EmptySeq
    <3> QED BY <1>6, <3>1 DEF Discard
  <2> QED BY <1>1, <1>6, <2>1 DEF Discard
<1>7. CASE UNCHANGED linkVars
  BY <1>7 DEF linkVars
<1> QED
  BY <1>2, <1>3, <1>4, <1>5, <1>6, <1>7 DEF LinkNext

(* Frames are transmitted in the order they were accepted, none twice.       *)
THEOREM InOrder == LinkSpec => []WireInOrder
<1>1. LinkInit => LinkOrder
  <2> SUFFICES ASSUME LinkInit PROVE LinkOrder
    OBVIOUS
  <2>1. Len(wire) = 0 /\ Len(backlog) = 0
    BY DEF LinkInit
  <2>2. LinkTypeOK
    BY InitLinkType
  <2> QED BY <2>1, <2>2 DEF LinkInit, LinkOrder, Increasing
<1>2. LinkOrder => WireInOrder
  BY DEF LinkOrder, WireInOrder
<1> QED BY <1>1, <1>2, LinkOrderStep, PTL DEF LinkSpec

(* The backlog never outgrows the link.                                      *)
THEOREM Bounded == Capacity \in Nat => (LinkSpec => []BacklogBounded)
<1> SUFFICES ASSUME Capacity \in Nat PROVE LinkSpec => []BacklogBounded
  OBVIOUS
<1> DEFINE Inv == LinkTypeOK /\ BacklogBounded
<1>1. LinkInit => Inv
  <2> SUFFICES ASSUME LinkInit PROVE Inv
    OBVIOUS
  <2>1. Len(backlog) = 0
    BY DEF LinkInit
  <2> QED BY <2>1, InitLinkType DEF BacklogBounded
<1>2. Inv /\ [LinkNext]_linkVars => Inv'
  <2> SUFFICES ASSUME Inv, [LinkNext]_linkVars PROVE Inv'
    OBVIOUS
  <2> USE DEF LinkTypeOK, BacklogBounded
  <2>1. ASSUME wire' = wire, accepted' = accepted, open' \in BOOLEAN,
               backlog # <<>>, backlog' = Tail(backlog)
        PROVE  Inv'
    BY <2>1, TailOf
  <2>2. CASE Connect
    BY <2>2 DEF Connect
  <2>3. CASE Accept
    BY <2>3, AppendOf DEF Accept
  <2>4. CASE Transmit
    <3>1. Head(backlog) \in Nat
      BY <2>4, TailOf DEF Transmit
    <3> QED BY <2>4, <3>1, TailOf, AppendOf DEF Transmit
  <2>5. CASE Hangup
    BY <2>1, <2>5 DEF Hangup
  <2>6. CASE Discard
    <3>1. CASE backlog' = <<>>
      BY <2>6, <3>1, EmptySeq DEF Discard
    <3> QED BY <2>1, <2>6, <3>1 DEF Discard
  <2>7. CASE UNCHANGED linkVars
    BY <2>7 DEF linkVars
  <2> QED
    BY <2>2, <2>3, <2>4, <2>5, <2>6, <2>7 DEF LinkNext
<1> QED BY <1>1, <1>2, PTL DEF LinkSpec
=============================================================================
