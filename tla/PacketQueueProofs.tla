--------------------------- MODULE PacketQueueProofs ---------------------------
(***************************************************************************)
(* What TLAPS proves of module PacketQueue, for every set of workers and   *)
(* every bound on the packets.  The mutex is the default one, which any    *)
(* unlock frees: exclusion and order hold until a thread is robbed of it,  *)
(* the accounting of wakeups and the freedom from a kept mutex for good.   *)
(***************************************************************************)
EXTENDS PacketQueue, FiniteSetTheorems, TLAPS

-----------------------------------------------------------------------------
(* Types.                                                                  *)

\* TypeOK is not inductive: what main pushes is a number of a packet because
\* main has received one before it leaves recvfrom.
TypeInv ==
  /\ TypeOK
  /\ pc[Main] # "receive" => arrived # 0

LEMMA TypeInit == Init => TypeInv
<1> SUFFICES ASSUME Init PROVE TypeInv
  OBVIOUS
<1>1. /\ pc \in [Threads -> MainPC \cup AdminPC \cup WorkerPC]
      /\ pc[Main] = "receive" /\ pc[Admin] = "prompt"
      /\ \A w \in Workers : pc[w] = "lock"
  BY ThreadsAssumption DEF Init, Threads, MainPC, AdminPC, WorkerPC
<1>2. /\ queue \in Seq(1 .. MaxPackets) /\ taken \in Seq(1 .. MaxPackets)
      /\ arrived \in 0 .. MaxPackets /\ hand \in [Workers -> 0 .. MaxPackets]
  BY BoundsAssumption DEF Init
<1> QED
  BY <1>1, <1>2 DEF Init, TypeInv, TypeOK, MainPC, AdminPC, WorkerPC

LEMMA TypeStep == TypeInv /\ [Next]_vars => TypeInv'
<1> SUFFICES ASSUME TypeInv, [Next]_vars PROVE TypeInv'
  OBVIOUS
<1> USE ThreadsAssumption, BoundsAssumption
    DEF TypeInv, TypeOK, Threads, MainPC, AdminPC, WorkerPC, At, Move, Lock, Unlock
<1>1. CASE MainReceive
  BY <1>1 DEF MainReceive
<1>2. CASE MainLock
  BY <1>2 DEF MainLock
<1>3. CASE MainPush
  BY <1>3 DEF MainPush
<1>4. CASE MainUnlock
  BY <1>4 DEF MainUnlock
<1>5. CASE MainNotify
  <2>1. ASSUME NEW w \in Workers, pc' = [pc EXCEPT ![Main] = "receive", ![w] = "woken"],
               UNCHANGED lostNotifies
        PROVE  TypeInv'
    BY <1>5, <2>1 DEF MainNotify
  <2>2. CASE pc' = [pc EXCEPT ![Main] = "receive"] /\ lostNotifies' = lostNotifies + 1
    BY <1>5, <2>2 DEF MainNotify
  <2> QED
    BY <1>5, <2>1, <2>2 DEF MainNotify
<1>6. ASSUME NEW w \in Workers, WorkerStep(w) PROVE TypeInv'
  <2>1. CASE WorkerLock(w)
    BY <2>1 DEF WorkerLock
  <2>2. CASE WorkerWait(w)
    BY <2>2 DEF WorkerWait
  <2>3. CASE WorkerRelock(w)
    BY <2>3 DEF WorkerRelock
  <2>4. CASE WorkerFront(w)
    BY <2>4 DEF WorkerFront
  <2>5. CASE WorkerPop(w)
    BY <2>5 DEF WorkerPop
  <2>6. CASE WorkerUnlock(w)
    BY <2>6 DEF WorkerUnlock
  <2>7. CASE WorkerHandle(w)
    BY <2>7 DEF WorkerHandle
  <2>8. CASE WorkerReturn(w)
    BY <2>8 DEF WorkerReturn
  <2> QED
    BY <1>6, <2>1, <2>2, <2>3, <2>4, <2>5, <2>6, <2>7, <2>8 DEF WorkerStep
<1>7. ASSUME NEW w \in Workers, SpuriousWake(w) PROVE TypeInv'
  BY <1>7 DEF SpuriousWake
<1>8. CASE AdminLock
  BY <1>8 DEF AdminLock
<1>9. CASE AdminUnlock
  BY <1>9 DEF AdminUnlock
<1>10. ASSUME NEW how \in {"exited", "terminated", "undefined"}, End(how) PROVE TypeInv'
  BY <1>10 DEF End
<1>11. CASE UNCHANGED vars
  BY <1>11 DEF vars
<1> QED
  BY <1>1, <1>2, <1>3, <1>4, <1>5, <1>6, <1>7, <1>8, <1>9, <1>10, <1>11
     DEF Next, MainStep, AdminShutdown, WorkerThrow, EmptyAccess, DataRace

\* Every variable keeps its type, for any number of workers and packets.
THEOREM TypeCorrect == Spec => []TypeOK
<1>1. TypeInv => TypeOK
  BY DEF TypeInv
<1> QED
  BY <1>1, TypeInit, TypeStep, PTL DEF Spec

-----------------------------------------------------------------------------
(* The accounting of wakeups.  Every packet in the queue is matched by a   *)
(* worker entitled to pop it, by main that has not yet announced it, or by *)
(* a lost wakeup; a step moves a packet from one class to the next.        *)

LEMMA EntitledFinite ==
  /\ IsFiniteSet(Entitled)
  /\ Cardinality(Entitled) \in Nat
  BY ThreadsAssumption, FS_Subset, FS_CardinalityType DEF Entitled

\* No other step than a notification or a pop changes who is entitled.
LEMMA EntitledKept ==
  ASSUME TypeInv, NEW t \in Threads, NEW from, NEW to, Move(t, from, to),
         \/ t \notin Workers
         \/ from \in {"woken", "front", "pop"} /\ to \in {"woken", "front", "pop"}
         \/ from \notin {"woken", "front", "pop"} /\ to \notin {"woken", "front", "pop"}
  PROVE  Entitled' = Entitled
  BY ThreadsAssumption DEF TypeInv, TypeOK, Entitled, Move, At, Threads

\* A worker's step leaves main where it is.
LEMMA UnannouncedKept ==
  ASSUME TypeInv, NEW t \in Threads \ {Main}, NEW from, NEW to, Move(t, from, to)
  PROVE  Unannounced' = Unannounced
  BY ThreadsAssumption DEF TypeInv, TypeOK, Unannounced, Move, At, Threads

LEMMA BacklogStep ==
  ASSUME TypeInv, BacklogIsLostWakeups, [Next]_vars
  PROVE  BacklogIsLostWakeups'
<1> USE ThreadsAssumption, BoundsAssumption, EntitledFinite
<1>q. /\ Len(queue) \in Nat /\ queue \in Seq(1 .. MaxPackets)
      /\ lostNotifies \in Nat /\ spurious \in Nat /\ Unannounced \in {0, 1}
      /\ Main \in Threads /\ Admin \in Threads \ {Main}
      /\ Workers \subseteq Threads \ {Main}
  BY DEF TypeInv, TypeOK, Unannounced, Threads
<1>1. CASE MainReceive
  BY <1>1, <1>q, EntitledKept DEF MainReceive, BacklogIsLostWakeups, Move, At,
     Unannounced, TypeInv, TypeOK, Threads
<1>2. CASE MainLock
  BY <1>2, <1>q, EntitledKept DEF MainLock, BacklogIsLostWakeups, Move, At,
     Unannounced, TypeInv, TypeOK, Threads
<1>3. CASE MainPush
  <2>1. Len(queue') = Len(queue) + 1
    BY <1>3, <1>q DEF MainPush, TypeInv, TypeOK
  <2>2. Unannounced = 0 /\ Unannounced' = 1
    BY <1>3, <1>q DEF MainPush, Move, At, Unannounced, TypeInv, TypeOK
  <2>3. Entitled' = Entitled /\ UNCHANGED <<lostNotifies, spurious>>
    BY <1>3, <1>q, EntitledKept DEF MainPush
  <2> QED
    BY <2>1, <2>2, <2>3, <1>q DEF BacklogIsLostWakeups
<1>4. CASE MainUnlock
  BY <1>4, <1>q, EntitledKept DEF MainUnlock, BacklogIsLostWakeups, Move, At,
     Unannounced, TypeInv, TypeOK, Threads
<1>5. CASE MainNotify
  <2>1. Unannounced = 1 /\ Unannounced' = 0 /\ UNCHANGED <<queue, spurious>>
    BY <1>5, <1>q DEF MainNotify, At, Unannounced, TypeInv, TypeOK, Threads
  <2>2. ASSUME NEW w \in Workers, pc[w] = "asleep", UNCHANGED lostNotifies,
               pc' = [pc EXCEPT ![Main] = "receive", ![w] = "woken"]
        PROVE  BacklogIsLostWakeups'
    <3>1. Entitled' = Entitled \cup {w} /\ w \notin Entitled
      BY <2>2, <1>q DEF Entitled, TypeInv, TypeOK
    <3>2. Cardinality(Entitled') = Cardinality(Entitled) + 1
      BY <3>1, FS_AddElement
    <3> QED
      BY <2>1, <2>2, <3>2, <1>q DEF BacklogIsLostWakeups
  <2>3. CASE pc' = [pc EXCEPT ![Main] = "receive"] /\ lostNotifies' = lostNotifies + 1
    <3>1. Entitled' = Entitled
      BY <2>3, <1>q DEF Entitled, TypeInv, TypeOK
    <3> QED
      BY <2>1, <2>3, <3>1, <1>q DEF BacklogIsLostWakeups
  <2> QED
    BY <1>5, <2>2, <2>3 DEF MainNotify
<1>6. ASSUME NEW w \in Workers, WorkerPop(w) PROVE BacklogIsLostWakeups'
  <2>1. Entitled' = Entitled \ {w} /\ w \in Entitled
    BY <1>6, <1>q DEF WorkerPop, Move, At, Entitled, TypeInv, TypeOK
  <2>2. Cardinality(Entitled') = Cardinality(Entitled) - 1
    BY <2>1, FS_RemoveElement
  <2>3. Len(queue') = Len(queue) - 1
    BY <1>6, <1>q DEF WorkerPop
  <2>4. Unannounced' = Unannounced /\ UNCHANGED <<lostNotifies, spurious>>
    BY <1>6, <1>q, UnannouncedKept DEF WorkerPop
  <2> QED
    BY <2>2, <2>3, <2>4, <1>q DEF BacklogIsLostWakeups
<1>7. ASSUME NEW w \in Workers, WorkerStep(w), ~WorkerPop(w)
      PROVE  BacklogIsLostWakeups'
  <2>1. Entitled' = Entitled
    BY <1>7, <1>q, EntitledKept DEF WorkerStep, WorkerLock, WorkerWait, WorkerRelock,
       WorkerFront, WorkerUnlock, WorkerHandle, WorkerReturn
  <2>2. Unannounced' = Unannounced /\ UNCHANGED <<queue, lostNotifies, spurious>>
    BY <1>7, <1>q, UnannouncedKept DEF WorkerStep, WorkerLock, WorkerWait, WorkerRelock,
       WorkerFront, WorkerUnlock, WorkerHandle, WorkerReturn
  <2> QED
    BY <2>1, <2>2 DEF BacklogIsLostWakeups
<1>8. CASE AdminLock \/ AdminUnlock
  BY <1>8, <1>q, EntitledKept, UnannouncedKept
     DEF AdminLock, AdminUnlock, BacklogIsLostWakeups
<1>9. ASSUME UNCHANGED <<pc, queue, lostNotifies, spurious>> PROVE BacklogIsLostWakeups'
  BY <1>9 DEF BacklogIsLostWakeups, Entitled, Unannounced
<1>10. ASSUME NEW w \in Workers, SpuriousWake(w) PROVE BacklogIsLostWakeups'
  <2>1. Entitled' = Entitled \cup {w} /\ w \notin Entitled
    BY <1>10, <1>q DEF SpuriousWake, Move, At, Entitled, TypeInv, TypeOK
  <2>2. Cardinality(Entitled') = Cardinality(Entitled) + 1
    BY <2>1, FS_AddElement
  <2>3. Unannounced' = Unannounced /\ spurious' = spurious + 1
    BY <1>10, <1>q, UnannouncedKept DEF SpuriousWake
  <2>4. UNCHANGED <<queue, lostNotifies>>
    BY <1>10 DEF SpuriousWake
  <2> QED
    BY <2>2, <2>3, <2>4, <1>q DEF BacklogIsLostWakeups
<1> QED
  BY <1>1, <1>2, <1>3, <1>4, <1>5, <1>6, <1>7, <1>8, <1>9, <1>10
     DEF Next, MainStep, AdminShutdown, WorkerThrow, EmptyAccess,
         DataRace, End, vars

\* The length of the queue is exactly what the woken workers, main, the lost
\* and the spurious wakeups account for, whatever becomes of the mutex.
THEOREM BacklogAccounted == Spec => []BacklogIsLostWakeups
<1>1. Init => BacklogIsLostWakeups
  <2> SUFFICES ASSUME Init PROVE BacklogIsLostWakeups
    OBVIOUS
  <2>1. Entitled = {}
    BY ThreadsAssumption DEF Init, Entitled, Threads
  <2> QED
    BY <2>1, ThreadsAssumption, FS_EmptySet
       DEF Init, BacklogIsLostWakeups, Unannounced, Threads
<1>2. TypeInv /\ BacklogIsLostWakeups /\ [Next]_vars => BacklogIsLostWakeups'
  BY BacklogStep
<1> QED
  BY <1>1, <1>2, TypeInit, TypeStep, PTL DEF Spec

\* While no more wakeups were spurious than were lost, no worker calls front()
\* or pop() on an empty queue, although none tests for it: each pops on the
\* strength of one notification, or in place of one that was lost.
THEOREM PopsFindPackets == Spec => []NoEmptyPop
<1>1. TypeInv /\ BacklogIsLostWakeups => NoEmptyPop
  <2> SUFFICES ASSUME TypeInv, BacklogIsLostWakeups, spurious <= lostNotifies,
                      NEW w \in Workers, pc[w] \in {"front", "pop"}
               PROVE  queue # <<>>
    BY DEF NoEmptyPop
  <2>1. w \in Entitled
    BY DEF Entitled
  <2>2. Cardinality(Entitled) # 0
    BY <2>1, EntitledFinite, FS_EmptySet
  <2>3. Len(queue) # 0
    BY <2>2, EntitledFinite DEF BacklogIsLostWakeups, Unannounced, TypeInv, TypeOK
  <2> QED
    BY <2>3
<1> QED
  BY <1>1, TypeInit, TypeStep, BacklogAccounted, PTL DEF Spec

-----------------------------------------------------------------------------
(* Mutual exclusion until a thread is robbed: the second unlock of a worker*)
(* is harmless as long as it finds the mutex free.                         *)

\* Threads between their lock() and the unlock() that matches it.
Holds(t) ==
  \/ t = Main /\ pc[t] \in {"push", "unlock"}
  \/ t = Admin /\ pc[t] = "size"
  \/ t \in Workers /\ pc[t] \in {"wait", "front", "pop", "unlock"}

LockInv == \A t \in Threads : Holds(t) => mutex = t

\* Nothing forgets that a thread was robbed.
LEMMA RobbedStays == [Next]_vars /\ robbed => robbed'
  BY DEF Next, vars, MainStep, WorkerStep, Lock, Unlock, MainReceive, MainLock, MainPush,
     MainUnlock, MainNotify, WorkerLock, WorkerWait, WorkerRelock, WorkerFront, WorkerPop,
     WorkerUnlock, WorkerHandle, WorkerReturn, SpuriousWake, AdminLock, AdminUnlock,
     AdminShutdown, WorkerThrow, EmptyAccess, DataRace, End

LEMMA LockStep ==
  ASSUME TypeInv, LockInv, ~robbed', [Next]_vars
  PROVE  LockInv'
<1> USE ThreadsAssumption DEF LockInv, Holds, TypeInv, TypeOK, Threads, At, Move, Lock, Unlock
<1>1. CASE MainReceive
  BY <1>1 DEF MainReceive
<1>2. CASE MainLock
  BY <1>2 DEF MainLock
<1>3. CASE MainPush
  BY <1>3 DEF MainPush
<1>4. CASE MainUnlock
  BY <1>4 DEF MainUnlock
<1>5. CASE MainNotify
  <2>1. mutex' = mutex
    BY <1>5 DEF MainNotify
  <2>2. ASSUME NEW t \in Threads, Holds(t)' PROVE Holds(t)
    BY <1>5, <2>2 DEF MainNotify
  <2> QED
    BY <2>1, <2>2 DEF LockInv
<1>6. ASSUME NEW w \in Workers, WorkerStep(w) PROVE LockInv'
  <2>1. CASE WorkerLock(w)
    BY <2>1 DEF WorkerLock
  <2>2. CASE WorkerWait(w)
    BY <2>2 DEF WorkerWait
  <2>3. CASE WorkerRelock(w)
    BY <2>3 DEF WorkerRelock
  <2>4. CASE WorkerFront(w)
    BY <2>4 DEF WorkerFront
  <2>5. CASE WorkerPop(w)
    BY <2>5 DEF WorkerPop
  <2>6. CASE WorkerUnlock(w)
    BY <2>6 DEF WorkerUnlock
  <2>7. CASE WorkerHandle(w)
    BY <2>7 DEF WorkerHandle
  <2>8. CASE WorkerReturn(w)
    BY <2>8 DEF WorkerReturn
  <2> QED
    BY <1>6, <2>1, <2>2, <2>3, <2>4, <2>5, <2>6, <2>7, <2>8 DEF WorkerStep
<1>7. ASSUME NEW w \in Workers, SpuriousWake(w) PROVE LockInv'
  BY <1>7 DEF SpuriousWake
<1>8. CASE AdminLock
  BY <1>8 DEF AdminLock
<1>9. CASE AdminUnlock
  BY <1>9 DEF AdminUnlock
<1>10. ASSUME UNCHANGED <<mutex, pc>> PROVE LockInv'
  BY <1>10
<1> QED
  BY <1>1, <1>2, <1>3, <1>4, <1>5, <1>6, <1>7, <1>8, <1>9, <1>10
     DEF Next, MainStep, AdminShutdown, WorkerThrow, EmptyAccess, DataRace, End, vars

LEMMA LockInit == Init => LockInv
  BY ThreadsAssumption DEF Init, LockInv, Holds, Threads

LEMMA LockExcludes == LockInv => MutualExclusion
  BY DEF LockInv, Holds, MutualExclusion, InDeque

LockUntilRobbed == robbed \/ LockInv

LEMMA LockUntilRobbedInv == Spec => []LockUntilRobbed
<1>1. Init => LockUntilRobbed
  BY LockInit DEF LockUntilRobbed
<1>2. TypeInv /\ LockUntilRobbed /\ [Next]_vars => LockUntilRobbed'
  BY LockStep, RobbedStays DEF LockUntilRobbed
<1> QED
  BY <1>1, <1>2, TypeInit, TypeStep, PTL DEF Spec

\* Until a second unlock takes the mutex from a thread that holds it, no two
\* threads are ever inside the queue.
THEOREM QueueExclusion == Spec => []ExclusionUntilRobbed
<1>1. LockUntilRobbed => ExclusionUntilRobbed
  BY LockExcludes DEF LockUntilRobbed, ExclusionUntilRobbed
<1> QED
  BY <1>1, LockUntilRobbedInv, PTL

-----------------------------------------------------------------------------
(* Nobody goes off with the mutex.  The second unlock may take it from a   *)
(* thread that needs it, but a locked mutex always belongs to a thread     *)
(* inside its critical section, whose next steps wait for nothing; that is *)
(* the safety part of the liveness property NobodyStuck.                   *)

LockedIsInside == mutex # Nobody => mutex \in Threads /\ Holds(mutex)

LEMMA InsideStep == TypeInv /\ LockedIsInside /\ [Next]_vars => LockedIsInside'
<1> SUFFICES ASSUME TypeInv, LockedIsInside, [Next]_vars PROVE LockedIsInside'
  OBVIOUS
<1> USE ThreadsAssumption
    DEF LockedIsInside, Holds, TypeInv, TypeOK, Threads, At, Move, Lock, Unlock
<1>1. CASE MainReceive
  BY <1>1 DEF MainReceive
<1>2. CASE MainLock
  BY <1>2 DEF MainLock
<1>3. CASE MainPush
  BY <1>3 DEF MainPush
<1>4. CASE MainUnlock
  BY <1>4 DEF MainUnlock
<1>5. CASE MainNotify
  <2>1. mutex' = mutex
    BY <1>5 DEF MainNotify
  <2>2. ASSUME NEW t \in Threads, Holds(t) PROVE Holds(t)'
    BY <1>5, <2>2 DEF MainNotify
  <2> QED
    BY <2>1, <2>2 DEF LockedIsInside
<1>6. ASSUME NEW w \in Workers, WorkerStep(w) PROVE LockedIsInside'
  <2>1. CASE WorkerLock(w)
    BY <2>1 DEF WorkerLock
  <2>2. CASE WorkerWait(w)
    BY <2>2 DEF WorkerWait
  <2>3. CASE WorkerRelock(w)
    BY <2>3 DEF WorkerRelock
  <2>4. CASE WorkerFront(w)
    BY <2>4 DEF WorkerFront
  <2>5. CASE WorkerPop(w)
    BY <2>5 DEF WorkerPop
  <2>6. CASE WorkerUnlock(w)
    BY <2>6 DEF WorkerUnlock
  <2>7. CASE WorkerHandle(w)
    BY <2>7 DEF WorkerHandle
  <2>8. CASE WorkerReturn(w)
    BY <2>8 DEF WorkerReturn
  <2> QED
    BY <1>6, <2>1, <2>2, <2>3, <2>4, <2>5, <2>6, <2>7, <2>8 DEF WorkerStep
<1>7. ASSUME NEW w \in Workers, SpuriousWake(w) PROVE LockedIsInside'
  BY <1>7 DEF SpuriousWake
<1>8. CASE AdminLock
  BY <1>8 DEF AdminLock
<1>9. CASE AdminUnlock
  BY <1>9 DEF AdminUnlock
<1>10. ASSUME UNCHANGED <<mutex, pc>> PROVE LockedIsInside'
  BY <1>10
<1> QED
  BY <1>1, <1>2, <1>3, <1>4, <1>5, <1>6, <1>7, <1>8, <1>9, <1>10
     DEF Next, MainStep, AdminShutdown, WorkerThrow, EmptyAccess, DataRace, End, vars

\* Whatever the second unlock does, and with spurious wakeups: a locked mutex is in the hands of a thread between its lock and the
\* unlock that matches it, never of one that sleeps, handles a packet or has
\* left.
THEOREM NobodyKeepsTheMutex == Spec => []LockedIsInside
<1>1. Init => LockedIsInside
  BY DEF Init, LockedIsInside
<1> QED
  BY <1>1, InsideStep, TypeInit, TypeStep, PTL DEF Spec

-----------------------------------------------------------------------------
(* Order of service.  A packet's number tells where it must be: the numbers*)
(* up to Popped have left the queue, the queue holds the next ones without *)
(* a gap, and at most one more is in main's hands.                         *)

Popped == IF Popping = {} THEN Len(taken) ELSE Len(taken) - 1

InHand == IF pc[Main] \in {"lock", "push"} THEN 1 ELSE 0

OrderInv ==
  /\ HandedInOrder
  /\ \A i \in 1 .. Len(queue) : queue[i] = Popped + i
  /\ arrived = Popped + Len(queue) + InHand
  /\ \A w \in Popping : hand[w] = Len(taken) /\ queue # <<>> /\ Len(taken) # 0
  /\ \A w \in Busy : hand[w] \in 1 .. Popped
  /\ \A v, w \in Busy : hand[v] = hand[w] => v = w

LEMMA OrderInit == Init => OrderInv
<1> SUFFICES ASSUME Init PROVE OrderInv
  OBVIOUS
<1>1. Popping = {} /\ Busy = {}
  BY ThreadsAssumption DEF Init, Popping, Busy, Threads
<1>2. Popped = 0 /\ InHand = 0
  BY <1>1, ThreadsAssumption DEF Init, Popped, InHand, Threads
<1> QED
  BY <1>1, <1>2 DEF Init, OrderInv, HandedInOrder

\* What the invariant reads, outside of the steps that move a packet.
LEMMA OrderKept ==
  ASSUME OrderInv, Popping' = Popping, Busy' = Busy, InHand' = InHand,
         UNCHANGED <<queue, arrived, hand, taken>>
  PROVE  OrderInv'
  BY DEF OrderInv, HandedInOrder, Popped

LEMMA PlacesKept ==
  ASSUME TypeInv, NEW t \in Threads, NEW from, NEW to, Move(t, from, to),
         t \in Workers => {from, to} \cap {"pop", "unlock", "handle"} = {},
         t = Main => (from \in {"lock", "push"} <=> to \in {"lock", "push"})
  PROVE  Popping' = Popping /\ Busy' = Busy /\ InHand' = InHand
  BY ThreadsAssumption DEF TypeInv, TypeOK, Move, At, Popping, Busy, InHand, Threads

\* Whoever is at front() or pop() is alone there.
LEMMA AloneInQueue ==
  ASSUME LockInv, NEW v \in Workers, NEW w \in Workers,
         pc[v] \in {"front", "pop"}, pc[w] \in {"front", "pop"}
  PROVE  v = w
  BY DEF LockInv, Holds, Threads

LEMMA OrderStep ==
  ASSUME TypeInv, LockInv, OrderInv, [Next]_vars
  PROVE  OrderInv'
<1>q. /\ queue \in Seq(1 .. MaxPackets) /\ taken \in Seq(1 .. MaxPackets)
      /\ Len(queue) \in Nat /\ Len(taken) \in Nat /\ arrived \in Nat
      /\ hand \in [Workers -> 0 .. MaxPackets] /\ MaxPackets \in Nat
      /\ pc \in [Threads -> MainPC \cup AdminPC \cup WorkerPC]
      /\ Main \in Threads /\ Admin \in Threads /\ Workers \subseteq Threads
      /\ Main \notin Workers /\ Admin \notin Workers /\ Main # Admin
      /\ InHand \in {0, 1} /\ Popped \in Nat
  <2>1. taken \in Seq(1 .. MaxPackets) /\ Len(taken) \in Nat
    BY DEF TypeInv, TypeOK
  <2>2. Popping # {} => Len(taken) # 0
    BY DEF OrderInv
  <2>3. Popped \in Nat
    BY <2>1, <2>2 DEF Popped
  <2> QED
    BY <2>1, <2>3, ThreadsAssumption, BoundsAssumption DEF TypeInv, TypeOK, Threads, InHand
<1>1. CASE MainReceive
  <2>1. Popping' = Popping /\ Busy' = Busy /\ InHand = 0 /\ InHand' = 1
    BY <1>1, <1>q DEF MainReceive, Move, At, Popping, Busy, InHand
  <2> QED
    BY <1>1, <1>q, <2>1 DEF MainReceive, OrderInv, HandedInOrder, Popped
<1>2. CASE MainPush
  <2>1. Popping' = Popping /\ Busy' = Busy /\ InHand = 1 /\ InHand' = 0
    BY <1>2, <1>q DEF MainPush, Move, At, Popping, Busy, InHand
  <2>2. Len(queue') = Len(queue) + 1
    BY <1>2, <1>q DEF MainPush
  <2>3. Popped' = Popped
    BY <1>2, <2>1 DEF MainPush, Popped
  <2>4. arrived = Popped + Len(queue) + 1
    BY <2>1 DEF OrderInv
  <2>5. ASSUME NEW i \in 1 .. Len(queue') PROVE queue'[i] = Popped + i
    <3>1. CASE i \in 1 .. Len(queue)
      BY <1>2, <1>q, <3>1 DEF MainPush, OrderInv
    <3>2. CASE i = Len(queue) + 1
      BY <1>2, <1>q, <2>4, <3>2 DEF MainPush
    <3> QED
      BY <1>q, <2>2, <3>1, <3>2
  <2>6. queue' # <<>>
    BY <2>2, <1>q
  <2>7. UNCHANGED <<arrived, hand, taken>>
    BY <1>2 DEF MainPush
  <2>8. arrived' = Popped' + Len(queue') + InHand'
    BY <1>q, <2>1, <2>2, <2>3, <2>4, <2>7
  <2>9. HandedInOrder'
    BY <2>7 DEF OrderInv, HandedInOrder
  <2>10. \A i \in 1 .. Len(queue') : queue'[i] = Popped' + i
    BY <2>3, <2>5
  <2> QED
    BY <2>1, <2>3, <2>6, <2>7, <2>8, <2>9, <2>10 DEF OrderInv
<1>3. ASSUME NEW w \in Workers, WorkerFront(w) PROVE OrderInv'
  <2>1. Popping = {} /\ Popping' = {w} /\ Busy' = Busy /\ InHand' = InHand
    BY <1>3, <1>q, AloneInQueue DEF WorkerFront, Move, At, Popping, Busy, InHand
  <2>2. Popped = Len(taken) /\ Len(taken') = Len(taken) + 1 /\ Popped' = Popped
    BY <1>3, <1>q, <2>1 DEF WorkerFront, Popped
  <2>3. Head(queue) = Len(taken) + 1
    BY <1>3, <1>q, <2>2 DEF WorkerFront, OrderInv
  <2>4. HandedInOrder'
    BY <1>3, <1>q, <2>2, <2>3 DEF WorkerFront, OrderInv, HandedInOrder
  <2>5. hand'[w] = Len(taken') /\ \A v \in Busy : hand'[v] = hand[v]
    BY <1>3, <1>q, <2>2, <2>3 DEF WorkerFront, Move, At, Busy
  <2> QED
    BY <1>3, <1>q, <2>1, <2>2, <2>4, <2>5 DEF WorkerFront, OrderInv
<1>4. ASSUME NEW w \in Workers, WorkerPop(w) PROVE OrderInv'
  <2>1. /\ Popping = {w} /\ Popping' = {} /\ InHand' = InHand
        /\ Busy' = Busy \cup {w} /\ w \notin Busy
    BY <1>4, <1>q, AloneInQueue DEF WorkerPop, Move, At, Popping, Busy, InHand
  <2>2. Popped = Len(taken) - 1 /\ Popped' = Len(taken) /\ hand[w] = Len(taken)
    BY <1>4, <1>q, <2>1 DEF WorkerPop, Popped, OrderInv
  <2>3. Len(queue') = Len(queue) - 1
    BY <1>4, <1>q DEF WorkerPop
  <2>4. ASSUME NEW i \in 1 .. Len(queue') PROVE queue'[i] = Popped' + i
    <3>1. i \in Nat /\ i + 1 \in 1 .. Len(queue)
      BY <1>q, <2>3, <2>4
    <3>2. queue'[i] = queue[i + 1]
      BY <1>4, <1>q, <2>3, <2>4 DEF WorkerPop
    <3>3. queue[i + 1] = Popped + (i + 1)
      BY <3>1 DEF OrderInv
    <3> QED
      BY <1>q, <2>2, <3>1, <3>2, <3>3
  <2>5. \A v \in Busy : hand[v] \in 1 .. Popped
    BY DEF OrderInv
  <2>6. \A v \in Busy' : hand[v] \in 1 .. Popped'
    BY <1>q, <2>1, <2>2, <2>5
  <2>7. \A v, u \in Busy' : hand[v] = hand[u] => v = u
    BY <1>q, <2>1, <2>2, <2>5 DEF OrderInv
  <2>8. UNCHANGED <<arrived, hand, taken>>
    BY <1>4 DEF WorkerPop
  <2>9. arrived' = Popped' + Len(queue') + InHand'
    <3>1. arrived = Popped + Len(queue) + InHand
      BY DEF OrderInv
    <3>2. Len(queue) \in Nat /\ Len(taken) \in Nat /\ InHand \in {0, 1}
      BY <1>q
    <3>3. arrived' = arrived /\ InHand' = InHand /\ Popped' = Popped + 1
      BY <2>1, <2>2, <2>8, <3>2
    <3> QED
      BY <3>1, <3>2, <3>3, <2>3, <1>q
  <2>10. HandedInOrder'
    BY <2>8 DEF OrderInv, HandedInOrder
  <2> QED
    BY <2>1, <2>4, <2>6, <2>7, <2>8, <2>9, <2>10 DEF OrderInv
<1>5. ASSUME NEW w \in Workers, WorkerHandle(w) PROVE OrderInv'
  <2>1. Popping' = Popping /\ Busy' = Busy \ {w} /\ InHand' = InHand
    BY <1>5, <1>q DEF WorkerHandle, Move, At, Popping, Busy, InHand
  <2> QED
    BY <1>5, <2>1 DEF WorkerHandle, OrderInv, HandedInOrder, Popped
<1>6. ASSUME NEW w \in Workers, WorkerUnlock(w) PROVE OrderInv'
  <2>1. Popping' = Popping /\ Busy' = Busy /\ InHand' = InHand
    BY <1>6, <1>q DEF WorkerUnlock, Move, At, Popping, Busy, InHand
  <2> QED
    BY <1>6, <2>1, OrderKept DEF WorkerUnlock
<1>7. ASSUME NEW w \in Workers,
             WorkerLock(w) \/ WorkerWait(w) \/ WorkerRelock(w) \/ WorkerReturn(w)
               \/ SpuriousWake(w)
      PROVE  OrderInv'
  <2>1. Popping' = Popping /\ Busy' = Busy /\ InHand' = InHand
    BY <1>7, <1>q, PlacesKept
       DEF WorkerLock, WorkerWait, WorkerRelock, WorkerReturn, SpuriousWake
  <2> QED
    BY <1>7, <2>1, OrderKept
       DEF WorkerLock, WorkerWait, WorkerRelock, WorkerReturn, SpuriousWake
<1>8. CASE MainLock \/ MainUnlock \/ AdminLock \/ AdminUnlock
  <2>1. Popping' = Popping /\ Busy' = Busy /\ InHand' = InHand
    BY <1>8, <1>q, PlacesKept DEF MainLock, MainUnlock, AdminLock, AdminUnlock
  <2> QED
    BY <1>8, <2>1, OrderKept DEF MainLock, MainUnlock, AdminLock, AdminUnlock
<1>9. CASE MainNotify
  <2>1. Popping' = Popping /\ Busy' = Busy /\ InHand' = InHand
    BY <1>9, <1>q DEF MainNotify, At, Popping, Busy, InHand
  <2> QED
    BY <1>9, <2>1, OrderKept DEF MainNotify
<1>10. ASSUME UNCHANGED <<pc, queue, arrived, hand, taken>> PROVE OrderInv'
  BY <1>10 DEF OrderInv, HandedInOrder, Popped, Popping, Busy, InHand
<1> QED
  BY <1>1, <1>2, <1>3, <1>4, <1>5, <1>6, <1>7, <1>8, <1>9, <1>10
     DEF Next, MainStep, WorkerStep, AdminShutdown, WorkerThrow, EmptyAccess,
         DataRace, End, vars

OrderUntilRobbed == robbed \/ OrderInv

LEMMA OrderUntilRobbedInv == Spec => []OrderUntilRobbed
<1>1. Init => OrderUntilRobbed
  BY OrderInit DEF OrderUntilRobbed
<1>2. TypeInv /\ LockUntilRobbed /\ OrderUntilRobbed /\ [Next]_vars => OrderUntilRobbed'
  BY OrderStep, RobbedStays DEF LockUntilRobbed, OrderUntilRobbed
<1> QED
  BY <1>1, <1>2, LockUntilRobbedInv, TypeInit, TypeStep, PTL DEF Spec

\* Until a thread is robbed of the mutex, packets are copied out of the queue in
\* the order of their arrival, none skipped and none handed out twice.
THEOREM ServedInOrder == Spec => []InOrderUntilRobbed
<1>1. OrderUntilRobbed => InOrderUntilRobbed
  BY DEF OrderUntilRobbed, OrderInv, InOrderUntilRobbed
<1> QED
  BY <1>1, OrderUntilRobbedInv, PTL

-----------------------------------------------------------------------------
(* The refinement: pushing accepts a packet, popping takes it into service,*)
(* the handler's return finishes it, and every other step is a stutter.    *)

Accepted == IF pc[Main] \in {"lock", "push"} THEN arrived - 1 ELSE arrived
InService == {hand[w] : w \in Busy}
Finished == {taken[i] : i \in DOMAIN taken} \ {hand[w] : w \in Busy \cup Popping}

LEMMA PoolInit == Init => Pool!Init
<1> SUFFICES ASSUME Init PROVE Pool!Init
  OBVIOUS
<1>1. Busy = {} /\ pc[Main] = "receive" /\ taken = <<>>
  BY ThreadsAssumption DEF Init, Busy, Threads
<1>2. InService = {} /\ Finished = {}
  BY <1>1 DEF InService, Finished
<1> QED
  BY <1>1, <1>2 DEF Init, Pool!Init, InService, Finished

LEMMA PoolKept ==
  ASSUME Accepted' = Accepted, Busy' = Busy, Popping' = Popping,
         UNCHANGED <<queue, hand, taken>>
  PROVE  UNCHANGED Pool!vars
<1>1. InService' = InService /\ Finished' = Finished
  BY DEF InService, Finished
<1> QED
  BY <1>1 DEF Pool!vars, Accepted, InService, Finished

LEMMA PoolStep ==
  ASSUME TypeInv, LockInv, OrderInv, [Next]_vars
  PROVE  [Pool!Next]_(Pool!vars)
<1>q. /\ queue \in Seq(1 .. MaxPackets) /\ taken \in Seq(1 .. MaxPackets)
      /\ arrived \in Nat /\ hand \in [Workers -> 0 .. MaxPackets]
      /\ pc \in [Threads -> MainPC \cup AdminPC \cup WorkerPC]
      /\ Main \in Threads /\ Admin \in Threads /\ Workers \subseteq Threads
      /\ Main \notin Workers /\ Admin \notin Workers /\ Main # Admin
  BY ThreadsAssumption, BoundsAssumption DEF TypeInv, TypeOK, Threads
<1>1. CASE MainPush
  <2>1. Accepted' = Accepted + 1 /\ arrived = Accepted + 1
    BY <1>1, <1>q DEF MainPush, Move, At, Accepted
  <2>2. Busy' = Busy /\ Popping' = Popping /\ UNCHANGED <<hand, taken>>
    BY <1>1, <1>q DEF MainPush, Move, At, Busy, Popping
  <2>3. InService' = InService /\ Finished' = Finished
    BY <2>2 DEF InService, Finished
  <2>4. queue' = Append(queue, Accepted + 1)
    BY <1>1, <2>1 DEF MainPush
  <2>5. Pool!Accept
    BY <2>1, <2>3, <2>4 DEF Pool!Accept, Accepted, InService, Finished
  <2> QED
    BY <2>5 DEF Pool!Next
<1>2. ASSUME NEW w \in Workers, WorkerFront(w) PROVE UNCHANGED Pool!vars
  <2>1. Popping = {} /\ Popping' = {w} /\ Busy' = Busy /\ w \notin Busy
    BY <1>2, <1>q, AloneInQueue DEF WorkerFront, Move, At, Popping, Busy
  <2>2. Accepted' = Accepted /\ UNCHANGED queue
    BY <1>2, <1>q DEF WorkerFront, Move, At, Accepted
  <2>3. \A v \in Busy : hand'[v] = hand[v]
    BY <1>2, <1>q, <2>1 DEF WorkerFront
  <2>4. InService' = InService
    BY <2>1, <2>3 DEF InService
  <2>5. Head(queue) = Len(taken) + 1
    BY <1>2, <1>q, <2>1 DEF WorkerFront, OrderInv, Popped
  <2>6. Finished' = Finished
    <3>1. {taken'[i] : i \in DOMAIN taken'} = {taken[i] : i \in DOMAIN taken} \cup {Head(queue)}
      <4>1. /\ DOMAIN taken = 1 .. Len(taken) /\ DOMAIN taken' = 1 .. Len(taken) + 1
            /\ \A i \in 1 .. Len(taken) : taken'[i] = taken[i]
            /\ taken'[Len(taken) + 1] = Head(queue)
            /\ Len(taken) \in Nat
        BY <1>2, <1>q DEF WorkerFront
      <4> QED
        BY <4>1
    <3>2. {hand'[v] : v \in Busy' \cup Popping'}
            = {hand[v] : v \in Busy \cup Popping} \cup {Head(queue)}
      BY <1>2, <1>q, <2>1, <2>3 DEF WorkerFront
    <3>3. Head(queue) \notin {taken[i] : i \in DOMAIN taken}
      <4>1. ASSUME NEW i \in DOMAIN taken PROVE taken[i] # Len(taken) + 1
        BY <1>q DEF OrderInv, HandedInOrder
      <4> QED
        BY <2>5, <4>1
    <3> QED
      BY <3>1, <3>2, <3>3 DEF Finished
  <2> QED
    BY <2>2, <2>4, <2>6 DEF Pool!vars, Accepted, InService, Finished
<1>3. ASSUME NEW w \in Workers, WorkerPop(w) PROVE Pool!Next
  <2>1. /\ Popping = {w} /\ Popping' = {} /\ Busy' = Busy \cup {w}
        /\ Accepted' = Accepted /\ UNCHANGED <<hand, taken>>
    BY <1>3, <1>q, AloneInQueue DEF WorkerPop, Move, At, Popping, Busy, Accepted
  <2>2. queue # <<>> /\ queue' = Tail(queue)
    BY <1>3 DEF WorkerPop
  <2>3. Head(queue) = hand[w]
    BY <1>q, <2>1, <2>2 DEF OrderInv, Popped
  <2>4. InService' = InService \cup {Head(queue)}
    BY <2>1, <2>3 DEF InService
  <2>5. Busy' \cup Popping' = Busy \cup Popping
    BY <2>1
  <2>6. Finished' = Finished
    BY <2>1, <2>5 DEF Finished
  <2>7. Pool!Take
    BY <2>1, <2>2, <2>4, <2>6 DEF Pool!Take, Accepted, InService, Finished
  <2> QED
    BY <2>7 DEF Pool!Next
<1>4. ASSUME NEW w \in Workers, WorkerHandle(w) PROVE Pool!Next
  <2>1. /\ Popping' = Popping /\ Busy' = Busy \ {w} /\ w \in Busy /\ w \notin Popping
        /\ Accepted' = Accepted /\ UNCHANGED <<queue, hand, taken>>
    BY <1>4, <1>q DEF WorkerHandle, Move, At, Popping, Busy, Accepted
  <2>2. hand[w] \in InService /\ InService' = InService \ {hand[w]}
    BY <2>1 DEF InService, OrderInv
  <2>3. hand[w] \in {taken[i] : i \in DOMAIN taken}
    <3>1. hand[w] \in 1 .. Len(taken)
      BY <1>q, <2>1 DEF OrderInv, Popped
    <3> QED
      BY <1>q, <3>1 DEF OrderInv, HandedInOrder
  <2>4. \A v \in Popping : hand[v] # hand[w]
    BY <1>q, <2>1 DEF OrderInv, Popped
  <2>5. {hand[v] : v \in (Busy \ {w}) \cup Popping}
          = {hand[v] : v \in Busy \cup Popping} \ {hand[w]}
    BY <2>1, <2>4 DEF OrderInv
  <2>6. Finished' = Finished \cup {hand[w]}
    BY <2>1, <2>3, <2>5 DEF Finished
  <2>7. PICK p \in InService : p = hand[w]
    BY <2>2
  <2>8. Pool!Finish(p)
    BY <2>1, <2>2, <2>6, <2>7 DEF Pool!Finish, Accepted, InService, Finished
  <2> QED
    BY <2>7, <2>8 DEF Pool!Next, InService
<1>5. ASSUME NEW w \in Workers,
             WorkerLock(w) \/ WorkerWait(w) \/ WorkerRelock(w) \/ WorkerUnlock(w)
               \/ WorkerReturn(w) \/ SpuriousWake(w)
      PROVE  UNCHANGED Pool!vars
  <2>1. Accepted' = Accepted /\ Busy' = Busy /\ Popping' = Popping
    BY <1>5, <1>q DEF WorkerLock, WorkerWait, WorkerRelock, WorkerUnlock, WorkerReturn,
       SpuriousWake, Move, At, Accepted, Busy, Popping
  <2> QED
    BY <1>5, <2>1, PoolKept DEF WorkerLock, WorkerWait, WorkerRelock, WorkerUnlock,
       WorkerReturn, SpuriousWake
<1>6. CASE MainReceive \/ MainLock \/ MainUnlock \/ AdminLock \/ AdminUnlock
  <2>1. Accepted' = Accepted /\ Busy' = Busy /\ Popping' = Popping
    BY <1>6, <1>q DEF MainReceive, MainLock, MainUnlock, AdminLock, AdminUnlock,
       Move, At, Accepted, Busy, Popping
  <2> QED
    BY <1>6, <2>1, PoolKept DEF MainReceive, MainLock, MainUnlock, AdminLock, AdminUnlock
<1>7. CASE MainNotify
  <2>1. Accepted' = Accepted /\ Busy' = Busy /\ Popping' = Popping
    BY <1>7, <1>q DEF MainNotify, At, Accepted, Busy, Popping
  <2> QED
    BY <1>7, <2>1, PoolKept DEF MainNotify
<1>8. ASSUME UNCHANGED <<pc, queue, arrived, hand, taken>> PROVE UNCHANGED Pool!vars
  BY <1>8, PoolKept DEF Accepted, Busy, Popping
<1> QED
  BY <1>1, <1>2, <1>3, <1>4, <1>5, <1>6, <1>7, <1>8
     DEF Next, MainStep, WorkerStep, AdminShutdown, WorkerThrow, EmptyAccess,
         DataRace, End, vars

\* Until a thread is robbed of the mutex, the threads, locks and wakeups of the
\* queue implement a pool that serves packets first come, first served, each
\* once.
THEOREM QueueImplementsPool == Spec => ImplementsPool
<1>1. TypeInv /\ LockUntilRobbed /\ OrderUntilRobbed /\ [Next]_vars
        => [Pool!Next \/ robbed']_(Pool!vars)
  BY PoolStep, RobbedStays DEF LockUntilRobbed, OrderUntilRobbed
<1> QED
  BY <1>1, PoolInit, LockUntilRobbedInv, OrderUntilRobbedInv, TypeInit, TypeStep, PTL
     DEF Spec, ImplementsPool

-----------------------------------------------------------------------------
(* What is proved of every pool (module PacketPoolProofs) holds of this    *)
(* queue.                                                                  *)

PoolFacts == INSTANCE PacketPoolProofs WITH
  accepted  <- Accepted,
  backlog   <- queue,
  inService <- InService,
  finished  <- Finished

LEMMA SamePool ==
  /\ Pool!Init => PoolFacts!Init
  /\ [Pool!Next]_(Pool!vars) => [PoolFacts!Next]_(PoolFacts!vars)
<1> USE DEF Accepted, InService, Finished
<1>1. Pool!Init => PoolFacts!Init
  BY DEF Pool!Init, PoolFacts!Init
<1>2. [Pool!Next]_(Pool!vars) => [PoolFacts!Next]_(PoolFacts!vars)
  BY DEF Pool!Next, Pool!vars, Pool!Accept, Pool!Take, Pool!Finish,
     PoolFacts!Next, PoolFacts!vars, PoolFacts!Accept, PoolFacts!Take, PoolFacts!Finish
<1> QED
  BY <1>1, <1>2

\* What is proved of the pool's steps holds of the queue's until a thread is
\* robbed.
PoolUntilRobbed == robbed \/ PoolFacts!PoolInv

LEMMA PoolUntilRobbedInv ==
  Spec => []PoolUntilRobbed /\ [][[Pool!Next]_(Pool!vars) \/ robbed']_vars
<1>1. Init => PoolUntilRobbed
  BY PoolInit, SamePool, PoolFacts!PoolInvInit DEF PoolUntilRobbed
<1>2. TypeInv /\ LockUntilRobbed /\ OrderUntilRobbed /\ [Next]_vars
        => [Pool!Next]_(Pool!vars) \/ robbed'
  BY PoolStep, RobbedStays DEF LockUntilRobbed, OrderUntilRobbed
<1>3. TypeInv /\ LockUntilRobbed /\ OrderUntilRobbed /\ PoolUntilRobbed /\ [Next]_vars
        => PoolUntilRobbed'
  <2> SUFFICES ASSUME TypeInv, LockUntilRobbed, OrderUntilRobbed, PoolUntilRobbed,
                      [Next]_vars, ~robbed'
               PROVE  PoolUntilRobbed'
    BY DEF PoolUntilRobbed
  <2>1. PoolFacts!PoolInv
    BY RobbedStays DEF PoolUntilRobbed
  <2>2. [PoolFacts!Next]_(PoolFacts!vars)
    BY <1>2, SamePool
  <2> QED
    BY <2>1, <2>2, PoolFacts!PoolInvStep DEF PoolUntilRobbed
<1> QED
  BY <1>1, <1>2, <1>3, LockUntilRobbedInv, OrderUntilRobbedInv, TypeInit, TypeStep, PTL
     DEF Spec

\* Until a thread is robbed of the mutex, each packet that main has pushed is in
\* the queue, with one worker or done with, and the queue holds the packets that
\* came last, in order.
THEOREM QueueLosesNothing == Spec => [](~robbed => Pool!EveryPacketIsSomewhere)
<1>1. PoolUntilRobbed => (~robbed => Pool!EveryPacketIsSomewhere)
  BY DEF PoolUntilRobbed, PoolFacts!PoolInv, PoolFacts!EveryPacketIsSomewhere,
     Pool!EveryPacketIsSomewhere, Accepted, InService, Finished
<1> QED
  BY <1>1, PoolUntilRobbedInv, PTL

\* Until a thread is robbed of the mutex, a packet whose handler has returned
\* stays handled: no worker is given it again.
THEOREM QueueServesOnce ==
  Spec => [][robbed' \/ (Finished \subseteq Finished' /\ Finished \cap InService' = {})]_vars
<1>1. PoolUntilRobbed /\ [Next]_vars /\ ([Pool!Next]_(Pool!vars) \/ robbed')
        => robbed' \/ (Finished \subseteq Finished' /\ Finished \cap InService' = {})
  <2> SUFFICES ASSUME PoolFacts!PoolInv, [PoolFacts!Next]_(PoolFacts!vars)
               PROVE  Finished \subseteq Finished' /\ Finished \cap InService' = {}
    BY RobbedStays, SamePool DEF PoolUntilRobbed
  <2>1. Finished \cap InService = {}
    BY DEF PoolFacts!PoolInv, PoolFacts!EveryPacketIsSomewhere
  <2>2. CASE UNCHANGED PoolFacts!vars
    BY <2>1, <2>2 DEF PoolFacts!vars
  <2> QED
    BY <2>2, PoolFacts!OnceStep
<1> QED
  BY <1>1, PoolUntilRobbedInv, PTL DEF Spec
=============================================================================
