---------------------------- MODULE PacketPoolProofs ----------------------------
(***************************************************************************)
(* What TLAPS proves of the abstract module PacketPool.  The queues of the *)
(* server and of the client implement it, so what is proved here once      *)
(* holds of both (PacketQueueProofs, ClientProofs).                        *)
(***************************************************************************)
EXTENDS PacketPool, TLAPS

PoolInv ==
  /\ accepted \in Nat
  /\ backlog \in Seq(Nat)
  /\ EveryPacketIsSomewhere

LEMMA PoolInvInit == Init => PoolInv
  BY DEF Init, PoolInv, EveryPacketIsSomewhere

LEMMA PoolInvStep == PoolInv /\ [Next]_vars => PoolInv'
<1> SUFFICES ASSUME PoolInv, [Next]_vars PROVE PoolInv'
  OBVIOUS
<1>q. /\ accepted \in Nat /\ backlog \in Seq(Nat) /\ Len(backlog) \in 0 .. accepted
      /\ \A i \in 1 .. Len(backlog) : backlog[i] = accepted - Len(backlog) + i
      /\ inService \cup finished = 1 .. accepted - Len(backlog)
      /\ inService \cap finished = {}
  BY DEF PoolInv, EveryPacketIsSomewhere
<1>1. CASE Accept
  <2>1. /\ accepted' = accepted + 1 /\ backlog' = Append(backlog, accepted + 1)
        /\ inService' = inService /\ finished' = finished
    BY <1>1 DEF Accept
  <2>2. backlog' \in Seq(Nat) /\ Len(backlog') = Len(backlog) + 1
    BY <1>q, <2>1
  <2>3. accepted' - Len(backlog') = accepted - Len(backlog)
    BY <1>q, <2>1, <2>2
  <2>4. ASSUME NEW i \in 1 .. Len(backlog')
        PROVE  backlog'[i] = accepted' - Len(backlog') + i
    <3>1. CASE i \in 1 .. Len(backlog)
      BY <1>q, <2>1, <2>3, <3>1
    <3>2. CASE i = Len(backlog) + 1
      BY <1>q, <2>1, <2>3, <3>2
    <3> QED
      BY <1>q, <2>2, <3>1, <3>2
  <2> QED
    BY <1>q, <2>1, <2>2, <2>3, <2>4 DEF PoolInv, EveryPacketIsSomewhere
<1>2. CASE Take
  <2>1. /\ backlog # <<>> /\ backlog' = Tail(backlog)
        /\ inService' = inService \cup {Head(backlog)}
        /\ accepted' = accepted /\ finished' = finished
    BY <1>2 DEF Take
  <2>2. /\ backlog' \in Seq(Nat) /\ Len(backlog') = Len(backlog) - 1 /\ Len(backlog) >= 1
        /\ \A i \in 1 .. Len(backlog') : backlog'[i] = backlog[i + 1]
    BY <1>q, <2>1
  <2>3. Head(backlog) = accepted - Len(backlog) + 1
    BY <1>q, <2>1, <2>2
  <2>4. accepted' - Len(backlog') = accepted - Len(backlog) + 1
    BY <1>q, <2>1, <2>2
  <2>5. \A i \in 1 .. Len(backlog') : backlog'[i] = accepted' - Len(backlog') + i
    <3> SUFFICES ASSUME NEW i \in 1 .. Len(backlog')
                 PROVE  backlog'[i] = accepted' - Len(backlog') + i
      OBVIOUS
    <3>1. i \in Nat /\ i + 1 \in 1 .. Len(backlog)
      BY <1>q, <2>2
    <3>2. backlog'[i] = accepted - Len(backlog) + (i + 1)
      BY <1>q, <2>2, <3>1
    <3> QED
      BY <1>q, <2>4, <3>1, <3>2
  <2>6. inService' \cup finished' = 1 .. accepted' - Len(backlog')
    BY <1>q, <2>1, <2>2, <2>3, <2>4
  <2>7. inService' \cap finished' = {}
    BY <1>q, <2>1, <2>2, <2>3
  <2> QED
    BY <1>q, <2>1, <2>2, <2>5, <2>6, <2>7 DEF PoolInv, EveryPacketIsSomewhere
<1>3. ASSUME NEW p \in inService, Finish(p) PROVE PoolInv'
  BY <1>q, <1>3 DEF Finish, PoolInv, EveryPacketIsSomewhere
<1>4. CASE UNCHANGED vars
  BY <1>4, <1>q DEF vars, PoolInv, EveryPacketIsSomewhere
<1> QED
  BY <1>1, <1>2, <1>3, <1>4 DEF Next

\* In a pool every accepted packet is in exactly one place.
THEOREM NothingIsLost == Spec => []EveryPacketIsSomewhere
<1>1. PoolInv => EveryPacketIsSomewhere
  BY DEF PoolInv
<1> QED
  BY <1>1, PoolInvInit, PoolInvStep, PTL DEF Spec

LEMMA OnceStep ==
  ASSUME PoolInv, [Next]_vars
  PROVE  [finished \subseteq finished' /\ finished \cap inService' = {}]_vars
<1>1. CASE Accept
  BY <1>1 DEF Accept, PoolInv, EveryPacketIsSomewhere
<1>2. CASE Take
  <2>1. Head(backlog) = accepted - Len(backlog) + 1
    BY <1>2 DEF Take, PoolInv, EveryPacketIsSomewhere
  <2>2. Head(backlog) \notin finished
    BY <2>1 DEF PoolInv, EveryPacketIsSomewhere
  <2> QED
    BY <1>2, <2>2 DEF Take, PoolInv, EveryPacketIsSomewhere
<1>3. ASSUME NEW p \in inService, Finish(p)
      PROVE  finished \subseteq finished' /\ finished \cap inService' = {}
  BY <1>3 DEF Finish, PoolInv, EveryPacketIsSomewhere
<1> QED
  BY <1>1, <1>2, <1>3 DEF Next

\* In a pool a packet that was served is not served again.
THEOREM NoneServedTwice == Spec => ServedOnce
  BY PoolInvInit, PoolInvStep, OnceStep, PTL DEF Spec, ServedOnce
=============================================================================
