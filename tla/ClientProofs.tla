------------------------------ MODULE ClientProofs ------------------------------
(***************************************************************************)
(* What TLAPS proves of module Client, for any number of packets, any      *)
(* choice of the user and the default mutex, which any unlock frees.       *)
(***************************************************************************)
EXTENDS Client, TLAPS

-----------------------------------------------------------------------------
(* Types.                                                                  *)

\* What the listener pushes is a number because it has received a packet once
\* it is past recvfrom.
TypeInv ==
  /\ TypeOK
  /\ pc[Listener] # "receive" => Len(kind) # 0

\* The steps of main that touch neither the queue nor a history.
MainOnly ==
  Connect \/ Quit \/ Connected \/ ListUsers \/ CreateUser \/ SendPlayerCommand
    \/ WaitLock \/ Wait \/ Relock \/ PopUnlock \/ Return \/ SpuriousWake
    \/ ReadConnect \/ ReadUsers \/ ReadCommand

Ends == UnpackThrows \/ ConvertThrows \/ EmptyAccess \/ DataRace

\* The ways of the program counters: what the other proofs need to know of the
\* steps that leave the queue alone.
LEMMA MainOnlySteps ==
  ASSUME TypeInv, MainOnly
  PROVE  /\ UNCHANGED <<queue, hand, taken, kind, lostNotifies>>
         /\ wakeups' \in {"notified", "spurious"}
         /\ pc'[Listener] = pc[Listener]
         /\ pc'[Main] \in MainPC
         /\ pc' \in [Threads -> MainPC \cup ListenerPC]
         /\ clientState' \in 0 .. 3
         /\ mutex' \in Threads \cup {Nobody}
         /\ process' \in {"running", "quit"}
  BY ClientAssumption DEF TypeInv, TypeOK, MainOnly, Connect, Quit, Connected, ListUsers, CreateUser,
     SendPlayerCommand, Request, WaitLock, Wait, Relock, PopUnlock, Return, SpuriousWake,
     ReadConnect, ReadUsers, ReadCommand, Read, Move, At, Lock, Unlock, Threads, MainPC,
     queueVars, historyVars

LEMMA TypeInit == Init => TypeInv
  BY ClientAssumption DEF Init, TypeInv, TypeOK, Threads, MainPC, ListenerPC

LEMMA TypeStep == TypeInv /\ [Next]_vars => TypeInv'
<1> SUFFICES ASSUME TypeInv, [Next]_vars PROVE TypeInv'
  OBVIOUS
<1> USE ClientAssumption DEF TypeInv, TypeOK, queueVars, historyVars
<1>1. ASSUME NEW k \in Kinds, ListenerReceive(k) PROVE TypeInv'
  BY <1>1 DEF ListenerReceive, Move, At, Threads, ListenerPC
<1>2. CASE ListenerLock
  BY <1>2 DEF ListenerLock, Move, At, Lock, Threads, ListenerPC
<1>3. CASE ListenerPush
  <2>1. Len(kind) \in 1 .. MaxPackets
    BY <1>3 DEF ListenerPush, Move, At
  <2> QED
    BY <1>3, <2>1 DEF ListenerPush, Move, At, Threads, ListenerPC
<1>4. CASE ListenerUnlock
  BY <1>4 DEF ListenerUnlock, Move, At, Unlock, Threads, ListenerPC
<1>5. CASE ListenerNotify
  BY <1>5 DEF ListenerNotify, At, Threads, ListenerPC, MainPC
<1>6. CASE MainOnly
  BY <1>6, MainOnlySteps
<1>7. CASE Front
  BY <1>7 DEF Front, Move, At, Threads, MainPC
<1>8. CASE Pop
  BY <1>8 DEF Pop, Move, At, Threads, MainPC
<1>9. CASE Ends
  BY <1>9 DEF Ends, UnpackThrows, ConvertThrows, EmptyAccess, DataRace, End
<1>10. CASE UNCHANGED vars
  BY <1>10 DEF vars
<1> QED
  BY <1>1, <1>2, <1>3, <1>4, <1>5, <1>6, <1>7, <1>8, <1>9, <1>10
     DEF Next, ListenerStep, MainStep, WaitStep, ReadStep, UserStep, MainOnly, Ends

\* Every variable keeps its type, for any number of packets.
THEOREM TypeCorrect == Spec => []TypeOK
<1>1. TypeInv => TypeOK
  BY DEF TypeInv
<1> QED
  BY <1>1, TypeInit, TypeStep, PTL DEF Spec

-----------------------------------------------------------------------------
(* Exclusion.  main's second unlock can take the mutex from the listener,  *)
(* but main is woken by the listener only, after its push: from then on    *)
(* the two compete for the mutex like any two threads, until main has      *)
(* left the queue again.                                                   *)

LockHeld ==
  /\ pc[Main] \in {"front", "pop", "unlock"} => mutex = Main
  /\ (pc[Main] \in {"woken", "front", "pop", "unlock"} /\ pc[Listener] \in {"push", "unlock"})
       => mutex = Listener

LockInv == wakeups = "notified" => LockHeld

\* Once a wait() has returned unnotified, one has.
LEMMA SpuriousStep ==
  ASSUME TypeInv, [Next]_vars, wakeups' = "notified"
  PROVE  wakeups = "notified" /\ ~SpuriousWake
<1>1. ~SpuriousWake
  BY DEF SpuriousWake
<1>2. CASE MainOnly
  BY <1>1, <1>2 DEF MainOnly, Connect, Quit, Connected, ListUsers, CreateUser,
     SendPlayerCommand, Request, WaitLock, Wait, Relock, PopUnlock, Return,
     ReadConnect, ReadUsers, ReadCommand, Read, historyVars
<1>3. CASE Front \/ Pop \/ Ends \/ UNCHANGED vars
  BY <1>1, <1>3 DEF Front, Pop, Ends, UnpackThrows, ConvertThrows, EmptyAccess, DataRace, End,
     vars, historyVars
<1>4. CASE ListenerStep \/ \E k \in Kinds : ListenerReceive(k)
  BY <1>1, <1>4 DEF ListenerStep, ListenerReceive, ListenerLock, ListenerPush, ListenerUnlock,
     ListenerNotify, historyVars
<1> QED
  BY <1>1, <1>2, <1>3, <1>4 DEF Next, MainStep, WaitStep, ReadStep, UserStep, MainOnly, Ends

LEMMA LockStep == TypeInv /\ LockInv /\ [Next]_vars => LockInv'
<1> SUFFICES ASSUME TypeInv, LockInv, [Next]_vars, wakeups' = "notified" PROVE LockHeld'
  BY DEF LockInv
<1>h. LockHeld /\ ~SpuriousWake
  BY SpuriousStep DEF LockInv
<1> USE <1>h, ClientAssumption DEF TypeInv, TypeOK, LockHeld, Threads, Move, At, Lock, Unlock
<1>1. ASSUME NEW k \in Kinds, ListenerReceive(k) PROVE LockHeld'
  BY <1>1 DEF ListenerReceive
<1>2. CASE ListenerLock
  BY <1>2 DEF ListenerLock
<1>3. CASE ListenerPush
  BY <1>3 DEF ListenerPush
<1>4. CASE ListenerUnlock
  BY <1>4 DEF ListenerUnlock
<1>5. CASE ListenerNotify
  BY <1>5 DEF ListenerNotify
<1>6. CASE WaitLock \/ Wait \/ Relock \/ PopUnlock \/ Return
  BY <1>6 DEF WaitLock, Wait, Relock, PopUnlock, Return
<1>7. CASE Front \/ Pop
  BY <1>7 DEF Front, Pop
<1>8. CASE Connect \/ ListUsers \/ SendPlayerCommand \/ CreateUser
  BY <1>8 DEF Connect, ListUsers, SendPlayerCommand, CreateUser, Request
<1>9. CASE ReadConnect \/ ReadUsers \/ ReadCommand
  BY <1>9 DEF ReadConnect, ReadUsers, ReadCommand, Read
<1>10. CASE Quit \/ Connected \/ Ends \/ UNCHANGED vars
  BY <1>10 DEF Quit, Connected, Ends, UnpackThrows, ConvertThrows, EmptyAccess, DataRace,
     End, vars
<1> QED
  BY <1>1, <1>2, <1>3, <1>4, <1>5, <1>6, <1>7, <1>8, <1>9, <1>10
     DEF Next, ListenerStep, MainStep, WaitStep, ReadStep, UserStep, Ends

\* Until wait() returns unnotified both threads are never inside the queue at
\* once, even with a mutex that any thread's unlock frees.
THEOREM ClientExclusion == Spec => []MutualExclusion
<1>1. Init => LockInv
  BY ClientAssumption DEF Init, LockInv, LockHeld, Threads
<1>2. TypeInv /\ LockInv /\ [Next]_vars => LockInv'
  BY LockStep
<1>3. LockInv => MutualExclusion
  BY ClientAssumption DEF LockInv, LockHeld, MutualExclusion, BothInQueue
<1> QED
  BY <1>1, <1>2, <1>3, TypeInit, TypeStep, PTL DEF Spec

-----------------------------------------------------------------------------
(* Nobody goes off with the mutex: what SleeperReads rests on.  main's     *)
(* second unlock may free it early, but a locked mutex belongs to a thread *)
(* inside its critical section, whose next steps wait for nothing.         *)

Holds(t) ==
  \/ t = Main /\ pc[t] \in {"wait", "front", "pop", "unlock"}
  \/ t = Listener /\ pc[t] \in {"push", "unlock"}

LockedIsInside == mutex # Nobody => mutex \in Threads /\ Holds(mutex)

LEMMA InsideStep == TypeInv /\ LockedIsInside /\ [Next]_vars => LockedIsInside'
<1> SUFFICES ASSUME TypeInv, LockedIsInside, [Next]_vars PROVE LockedIsInside'
  OBVIOUS
<1> USE ClientAssumption DEF LockedIsInside, Holds, TypeInv, TypeOK, Threads, Move, At
<1>1. CASE ListenerStep
  BY <1>1 DEF ListenerStep, ListenerLock, ListenerPush, ListenerUnlock, ListenerNotify,
     Lock, Unlock
<1>2. CASE WaitLock \/ Wait \/ Relock \/ PopUnlock \/ Return
  BY <1>2 DEF WaitLock, Wait, Relock, PopUnlock, Return, Lock, Unlock
<1>3. CASE Front \/ Pop \/ SpuriousWake \/ \E k \in Kinds : ListenerReceive(k)
  BY <1>3 DEF Front, Pop, SpuriousWake, ListenerReceive
<1>4. CASE Connect \/ Quit \/ Connected \/ ListUsers \/ CreateUser \/ SendPlayerCommand
             \/ ReadConnect \/ ReadUsers \/ ReadCommand
  BY <1>4 DEF Connect, Quit, Connected, ListUsers, CreateUser, SendPlayerCommand, Request,
     ReadConnect, ReadUsers, ReadCommand, Read
<1>5. CASE Ends \/ UNCHANGED vars
  BY <1>5 DEF Ends, UnpackThrows, ConvertThrows, EmptyAccess, DataRace, End, vars
<1> QED
  BY <1>1, <1>2, <1>3, <1>4, <1>5 DEF Next, MainStep, WaitStep, ReadStep, UserStep, Ends

\* In spite of second unlocks and spurious wakeups, a locked mutex is in the
\* hands of a thread between its lock and the unlock that matches it, never of
\* main asleep or reading, or of the listener in recvfrom.
THEOREM NobodyKeepsTheMutex == Spec => []LockedIsInside
<1>1. Init => LockedIsInside
  BY DEF Init, LockedIsInside
<1> QED
  BY <1>1, InsideStep, TypeInit, TypeStep, PTL DEF Spec

-----------------------------------------------------------------------------
(* The backlog.                                                            *)

Backlog == Len(queue) = Entitled + Unannounced + lostNotifies

LEMMA BacklogStep ==
  TypeInv /\ BacklogIsLostWakeups /\ [Next]_vars => BacklogIsLostWakeups'
<1> SUFFICES ASSUME TypeInv, BacklogIsLostWakeups, [Next]_vars, wakeups' = "notified"
             PROVE  Backlog'
  BY DEF BacklogIsLostWakeups, Backlog
<1>h. Backlog /\ ~SpuriousWake
  BY SpuriousStep DEF BacklogIsLostWakeups, Backlog
<1>q. /\ queue \in Seq(1 .. MaxPackets) /\ Len(queue) \in Nat /\ lostNotifies \in Nat
      /\ Len(kind) \in Nat
      /\ pc \in [Threads -> MainPC \cup ListenerPC]
      /\ Main \in Threads /\ Listener \in Threads /\ Main # Listener
  BY ClientAssumption DEF TypeInv, TypeOK, Threads
<1> USE <1>h DEF Backlog, Entitled, Unannounced
<1>1. ASSUME NEW k \in Kinds, ListenerReceive(k) PROVE Backlog'
  BY <1>1, <1>q DEF ListenerReceive, Move, At, queueVars
<1>2. CASE ListenerLock \/ ListenerUnlock
  BY <1>2, <1>q DEF ListenerLock, ListenerUnlock, Move, At, queueVars, historyVars
<1>3. CASE ListenerPush
  <2>1. Len(queue') = Len(queue) + 1
    BY <1>3, <1>q DEF ListenerPush
  <2>2. Unannounced = 0 /\ Unannounced' = 1 /\ Entitled' = Entitled
    BY <1>3, <1>q DEF ListenerPush, Move, At
  <2> QED
    BY <1>3, <1>q, <2>1, <2>2 DEF ListenerPush, historyVars
<1>4. CASE ListenerNotify
  <2>1. CASE pc[Main] = "asleep"
    <3>1. Unannounced = 1 /\ Unannounced' = 0 /\ Entitled = 0 /\ Entitled' = 1
      BY <1>4, <1>q, <2>1 DEF ListenerNotify, At
    <3> QED
      BY <1>4, <1>q, <2>1, <3>1 DEF ListenerNotify, queueVars
  <2>2. CASE pc[Main] # "asleep"
    <3>1. Unannounced = 1 /\ Unannounced' = 0 /\ Entitled' = Entitled
      BY <1>4, <1>q, <2>2 DEF ListenerNotify, At
    <3> QED
      BY <1>4, <1>q, <2>2, <3>1 DEF ListenerNotify, queueVars
  <2> QED
    BY <2>1, <2>2
<1>5. CASE Pop
  <2>1. Len(queue') = Len(queue) - 1
    BY <1>5, <1>q DEF Pop
  <2>2. Entitled = 1 /\ Entitled' = 0 /\ Unannounced' = Unannounced
    BY <1>5, <1>q DEF Pop, Move, At
  <2> QED
    BY <1>5, <1>q, <2>1, <2>2 DEF Pop, historyVars
<1>6. CASE Front
  BY <1>6, <1>q DEF Front, Move, At, historyVars
<1>7. CASE MainOnly
  <2>1. Entitled' = Entitled
    BY <1>7, <1>q DEF MainOnly, Connect, Quit, Connected, ListUsers, CreateUser,
       SendPlayerCommand, Request, WaitLock, Wait, Relock, PopUnlock, Return,
       ReadConnect, ReadUsers, ReadCommand, Read, Move, At
  <2> QED
    BY <1>7, <2>1, MainOnlySteps
<1>8. CASE Ends \/ UNCHANGED vars
  BY <1>8 DEF Ends, UnpackThrows, ConvertThrows, EmptyAccess, DataRace, End, vars,
     queueVars, historyVars
<1> QED
  BY <1>1, <1>2, <1>3, <1>4, <1>5, <1>6, <1>7, <1>8
     DEF Next, ListenerStep, MainStep, WaitStep, ReadStep, UserStep, MainOnly, Ends

LEMMA BacklogInit == Init => BacklogIsLostWakeups
  BY ClientAssumption DEF Init, BacklogIsLostWakeups, Entitled, Unannounced, Threads

\* Until wait() returns unnotified main is behind by one packet for every
\* notification that found it awake.
THEOREM BacklogAccounted == Spec => []BacklogIsLostWakeups
BY BacklogStep, BacklogInit, TypeInit, TypeStep, PTL DEF Spec

\* Until wait() returns unnotified main finds a packet whenever it reads the
\* queue.
THEOREM PopsFindPackets == Spec => []NoEmptyPop
<1>1. TypeInv /\ BacklogIsLostWakeups => NoEmptyPop
  <2> SUFFICES ASSUME TypeInv, BacklogIsLostWakeups, wakeups = "notified",
                      pc[Main] \in {"front", "pop"}
               PROVE  queue # <<>>
    BY DEF NoEmptyPop
  <2>1. Entitled = 1 /\ Unannounced \in {0, 1} /\ lostNotifies \in Nat
    BY DEF TypeInv, TypeOK, Entitled, Unannounced
  <2>2. Len(queue) # 0
    BY <2>1 DEF BacklogIsLostWakeups
  <2> QED
    BY <2>2
<1> QED
  BY <1>1, BacklogStep, BacklogInit, TypeInit, TypeStep, PTL DEF Spec

-----------------------------------------------------------------------------
(* Order.  A packet's number tells where it must be: the numbers up to     *)
(* Popped have left the queue, the queue holds the next ones without a gap *)
(* and the listener has at most one more.  There is one reader, so nothing *)
(* needs to be known of the mutex, until a data race ends the run.         *)

Reading == pc[Main] \in {"unlock", "return", "read"}

Popped == IF pc[Main] = "pop" THEN Len(taken) - 1 ELSE Len(taken)

InHand == IF pc[Listener] \in {"lock", "push"} THEN 1 ELSE 0

OrderInv ==
  /\ \A i \in 1 .. Len(taken) : taken[i] = i
  /\ \A i \in 1 .. Len(queue) : queue[i] = Popped + i
  /\ Len(kind) = Popped + Len(queue) + InHand
  /\ (pc[Main] = "pop" \/ Reading) => hand = Len(taken) /\ Len(taken) # 0
  /\ pc[Main] = "pop" => queue # <<>>

\* The steps of main and of the listener that leave packets where they are.
LEMMA StillSteps ==
  ASSUME TypeInv, MainOnly \/ ListenerLock \/ ListenerUnlock \/ ListenerNotify,
         ~ReadConnect, ~ReadUsers, ~ReadCommand
  PROVE  /\ UNCHANGED <<queue, hand, taken, kind>>
         /\ pc'[Main] = "pop" <=> pc[Main] = "pop"
         /\ Reading' <=> Reading
         /\ InHand' = InHand
<1>q. /\ pc \in [Threads -> MainPC \cup ListenerPC]
      /\ Main \in Threads /\ Listener \in Threads /\ Main # Listener
  BY ClientAssumption DEF TypeInv, TypeOK, Threads
<1>1. CASE MainOnly
  <2>1. /\ UNCHANGED <<queue, hand, taken, kind>> /\ pc'[Listener] = pc[Listener]
    BY <1>1, MainOnlySteps
  <2>2. (pc'[Main] = "pop" <=> pc[Main] = "pop") /\ (Reading' <=> Reading)
    BY <1>1, <1>q DEF MainOnly, Connect, Quit, Connected, ListUsers, CreateUser,
       SendPlayerCommand, Request, WaitLock, Wait, Relock, PopUnlock, Return, SpuriousWake,
       Move, At, Reading
  <2> QED
    BY <2>1, <2>2 DEF InHand
<1>2. CASE ListenerLock \/ ListenerUnlock \/ ListenerNotify
  BY <1>2, <1>q DEF ListenerLock, ListenerUnlock, ListenerNotify, Move, At, Reading, InHand,
     queueVars, historyVars
<1> QED
  BY <1>1, <1>2

LEMMA OrderInit == Init => OrderInv
  BY ClientAssumption DEF Init, OrderInv, Reading, Popped, InHand, Threads

LEMMA OrderStep == TypeInv /\ OrderInv /\ [Next]_vars => OrderInv'
<1> SUFFICES ASSUME TypeInv, OrderInv, [Next]_vars PROVE OrderInv'
  OBVIOUS
<1>q. /\ queue \in Seq(1 .. MaxPackets) /\ Len(queue) \in Nat
      /\ taken \in Seq(1 .. MaxPackets) /\ Len(taken) \in Nat
      /\ kind \in Seq(Kinds) /\ Len(kind) \in Nat
      /\ pc \in [Threads -> MainPC \cup ListenerPC]
      /\ Main \in Threads /\ Listener \in Threads /\ Main # Listener
      /\ Popped \in Nat
  BY ClientAssumption DEF TypeInv, TypeOK, Threads, OrderInv, Popped
<1>1. ASSUME NEW k \in Kinds, ListenerReceive(k) PROVE OrderInv'
  <2>1. Len(kind') = Len(kind) + 1 /\ InHand = 0 /\ InHand' = 1 /\ pc'[Main] = pc[Main]
    BY <1>1, <1>q DEF ListenerReceive, Move, At, InHand
  <2> QED
    BY <1>1, <1>q, <2>1 DEF ListenerReceive, queueVars, OrderInv, Reading, Popped
<1>2. CASE ListenerPush
  <2>1. /\ InHand = 1 /\ InHand' = 0 /\ pc'[Main] = pc[Main]
        /\ UNCHANGED <<hand, taken, kind>> /\ queue' = Append(queue, Len(kind))
    BY <1>2, <1>q DEF ListenerPush, Move, At, InHand, historyVars
  <2>2. Len(queue') = Len(queue) + 1 /\ Popped' = Popped /\ queue' # <<>>
    BY <1>q, <2>1 DEF Popped
  <2>3. Len(kind) = Popped + Len(queue) + 1
    BY <2>1 DEF OrderInv
  <2>4. ASSUME NEW i \in 1 .. Len(queue') PROVE queue'[i] = Popped + i
    <3>1. CASE i \in 1 .. Len(queue)
      BY <1>q, <2>1, <3>1 DEF OrderInv
    <3>2. CASE i = Len(queue) + 1
      BY <1>q, <2>1, <2>3, <3>2
    <3> QED
      BY <1>q, <2>2, <3>1, <3>2
  <2>5. Len(kind') = Popped' + Len(queue') + InHand'
    BY <1>q, <2>1, <2>2, <2>3
  <2> QED
    BY <2>1, <2>2, <2>4, <2>5 DEF OrderInv, Reading
<1>3. CASE Front
  <2>1. /\ queue # <<>> /\ pc[Main] = "front" /\ pc'[Main] = "pop" /\ InHand' = InHand
        /\ UNCHANGED <<queue, kind>>
        /\ hand' = Head(queue) /\ taken' = Append(taken, Head(queue))
    BY <1>3, <1>q DEF Front, Move, At, InHand, historyVars
  <2>2. Len(taken') = Len(taken) + 1 /\ Popped = Len(taken) /\ Popped' = Popped
    BY <1>q, <2>1 DEF Popped
  <2>3. Head(queue) = Len(taken) + 1
    BY <1>q, <2>1, <2>2 DEF OrderInv
  <2>4. \A i \in 1 .. Len(taken') : taken'[i] = i
    BY <1>q, <2>1, <2>2, <2>3 DEF OrderInv
  <2> QED
    BY <1>q, <2>1, <2>2, <2>3, <2>4 DEF OrderInv
<1>4. CASE Pop
  <2>1. /\ queue # <<>> /\ queue' = Tail(queue) /\ pc[Main] = "pop" /\ pc'[Main] = "unlock"
        /\ InHand' = InHand /\ UNCHANGED <<hand, taken, kind>>
    BY <1>4, <1>q DEF Pop, Move, At, InHand, historyVars
  <2>2. Len(queue') = Len(queue) - 1 /\ Popped' = Len(taken) /\ Popped = Len(taken) - 1
    BY <1>q, <2>1 DEF Popped
  <2>3. ASSUME NEW i \in 1 .. Len(queue') PROVE queue'[i] = Popped' + i
    <3>1. i \in Nat /\ i + 1 \in 1 .. Len(queue)
      BY <1>q, <2>2
    <3>2. queue'[i] = queue[i + 1]
      BY <1>q, <2>1, <2>2
    <3>3. queue[i + 1] = Popped + (i + 1)
      BY <3>1 DEF OrderInv
    <3> QED
      BY <1>q, <2>2, <3>1, <3>2, <3>3
  <2>4. InHand \in {0, 1} /\ Len(kind) = Popped + Len(queue) + InHand
    BY DEF InHand, OrderInv
  <2>5. Len(kind') = Popped' + Len(queue') + InHand'
    BY <1>q, <2>1, <2>2, <2>4
  <2> QED
    BY <2>1, <2>3, <2>5 DEF OrderInv
<1>5. CASE ReadConnect \/ ReadUsers \/ ReadCommand
  <2>1. /\ UNCHANGED <<queue, hand, taken, kind>> /\ InHand' = InHand
        /\ pc[Main] # "pop" /\ pc'[Main] # "pop" /\ ~Reading'
    BY <1>5, <1>q DEF ReadConnect, ReadUsers, ReadCommand, Read, Move, At, InHand, Reading,
       queueVars, historyVars
  <2> QED
    BY <2>1 DEF OrderInv, Popped
<1>6. CASE /\ MainOnly \/ ListenerLock \/ ListenerUnlock \/ ListenerNotify
           /\ ~(ReadConnect \/ ReadUsers \/ ReadCommand)
  BY <1>6, StillSteps DEF OrderInv, Popped
<1>7. CASE Ends \/ UNCHANGED vars
  BY <1>7 DEF Ends, UnpackThrows, ConvertThrows, EmptyAccess, DataRace, End, vars,
     queueVars, historyVars, OrderInv, Popped, Reading, InHand
<1> QED
  BY <1>1, <1>2, <1>3, <1>4, <1>5, <1>6, <1>7
     DEF Next, ListenerStep, MainStep, WaitStep, ReadStep, UserStep, MainOnly, Ends

-----------------------------------------------------------------------------
(* The refinement: the listener's push accepts a packet, main's pop takes  *)
(* it, and reading it finishes it.                                         *)

Accepted == IF pc[Listener] \in {"lock", "push"} THEN Len(kind) - 1 ELSE Len(kind)

Gone == {taken[i] : i \in DOMAIN taken}

InService == IF Reading THEN {hand} ELSE {}

Finished ==
  Gone \ (IF pc[Main] \in {"pop", "unlock", "return", "read"} THEN {hand} ELSE {})

LEMMA PoolKept ==
  ASSUME Accepted' = Accepted, InService' = InService, Finished' = Finished, queue' = queue
  PROVE  UNCHANGED Pool!vars
  BY DEF Pool!vars, Accepted, InService, Finished, Reading, Gone

LEMMA PoolInit == Init => Pool!Init
  BY ClientAssumption DEF Init, Pool!Init, Threads

LEMMA PoolStep ==
  ASSUME TypeInv, OrderInv, [Next]_vars
  PROVE  [Pool!Next]_(Pool!vars)
<1>q. /\ queue \in Seq(1 .. MaxPackets) /\ Len(queue) \in Nat
      /\ taken \in Seq(1 .. MaxPackets) /\ Len(taken) \in Nat
      /\ kind \in Seq(Kinds) /\ Len(kind) \in Nat
      /\ pc \in [Threads -> MainPC \cup ListenerPC]
      /\ Main \in Threads /\ Listener \in Threads /\ Main # Listener
  BY ClientAssumption DEF TypeInv, TypeOK, Threads
<1>1. CASE ListenerPush
  <2>1. /\ pc[Listener] = "push" /\ pc'[Listener] = "unlock" /\ pc'[Main] = pc[Main]
        /\ UNCHANGED <<hand, taken, kind>> /\ queue' = Append(queue, Len(kind))
    BY <1>1, <1>q DEF ListenerPush, Move, At, historyVars
  <2>2. Accepted' = Accepted + 1 /\ Len(kind) = Accepted + 1
    BY <1>q, <2>1 DEF Accepted
  <2>3. InService' = InService /\ Finished' = Finished
    BY <2>1 DEF InService, Finished, Gone, Reading
  <2>4. Pool!Accept
    BY <2>1, <2>2, <2>3 DEF Pool!Accept, Accepted, InService, Finished, Reading, Gone
  <2> QED
    BY <2>4 DEF Pool!Next
<1>2. CASE Front
  <2>1. /\ queue # <<>> /\ pc[Main] = "front" /\ pc'[Main] = "pop"
        /\ pc'[Listener] = pc[Listener] /\ UNCHANGED <<queue, kind>>
        /\ hand' = Head(queue) /\ taken' = Append(taken, Head(queue))
    BY <1>2, <1>q DEF Front, Move, At, historyVars
  <2>2. Head(queue) = Len(taken) + 1
    <3>1. Popped = Len(taken) /\ 1 \in 1 .. Len(queue) /\ Head(queue) = queue[1]
      BY <1>q, <2>1 DEF Popped
    <3> QED
      BY <1>q, <3>1 DEF OrderInv
  <2>3. Gone' = Gone \cup {Head(queue)} /\ Head(queue) \notin Gone
    <3>1. \A i \in DOMAIN taken : taken[i] # Len(taken) + 1
      BY <1>q DEF OrderInv
    <3>2. Head(queue) \notin Gone
      BY <2>2, <3>1 DEF Gone
    <3>3. Gone' = Gone \cup {Head(queue)}
      <4>1. /\ DOMAIN taken' = DOMAIN taken \cup {Len(taken) + 1}
            /\ taken'[Len(taken) + 1] = Head(queue)
            /\ \A i \in DOMAIN taken : taken'[i] = taken[i]
        BY <1>q, <2>1
      <4> QED
        BY <4>1 DEF Gone
    <3> QED
      BY <3>2, <3>3
  <2>4. InService' = InService /\ Finished' = Finished /\ Accepted' = Accepted
    BY <2>1, <2>3 DEF InService, Finished, Reading, Accepted
  <2> QED
    BY <2>1, <2>4, PoolKept
<1>3. CASE Pop
  <2>1. /\ queue # <<>> /\ queue' = Tail(queue) /\ pc[Main] = "pop" /\ pc'[Main] = "unlock"
        /\ pc'[Listener] = pc[Listener] /\ UNCHANGED <<hand, taken, kind>>
    BY <1>3, <1>q DEF Pop, Move, At, historyVars
  <2>2. hand = Head(queue)
    BY <1>q, <2>1 DEF OrderInv, Popped
  <2>3. InService = {} /\ InService' = {hand} /\ Finished' = Finished /\ Accepted' = Accepted
    BY <2>1 DEF InService, Finished, Reading, Accepted, Gone
  <2>4. Pool!Take
    BY <2>1, <2>2, <2>3 DEF Pool!Take, Accepted, InService, Finished, Reading, Gone
  <2> QED
    BY <2>4 DEF Pool!Next
<1>4. CASE ReadConnect \/ ReadUsers \/ ReadCommand
  <2>1. /\ UNCHANGED <<queue, hand, taken, kind>> /\ pc'[Listener] = pc[Listener]
        /\ pc[Main] = "read" /\ pc'[Main] \in {"loop", "names"}
    BY <1>4, <1>q DEF ReadConnect, ReadUsers, ReadCommand, Read, Move, At, queueVars, historyVars
  <2>2. hand \in Gone
    BY <1>q, <2>1 DEF OrderInv, Reading, Gone
  <2>3. /\ InService = {hand} /\ InService' = {} /\ Finished' = Finished \cup {hand}
        /\ Accepted' = Accepted
    BY <2>1, <2>2 DEF InService, Finished, Reading, Accepted, Gone
  <2>4. PICK p \in InService : p = hand
    BY <2>3
  <2>5. Pool!Finish(p)
    BY <2>1, <2>3, <2>4 DEF Pool!Finish, Accepted, InService, Finished, Reading, Gone
  <2> QED
    BY <2>4, <2>5 DEF Pool!Next, InService, Reading
<1>5. ASSUME NEW k \in Kinds, ListenerReceive(k) PROVE UNCHANGED Pool!vars
  <2>1. /\ UNCHANGED <<queue, hand, taken>> /\ pc'[Main] = pc[Main]
        /\ pc[Listener] = "receive" /\ pc'[Listener] = "lock" /\ Len(kind') = Len(kind) + 1
    BY <1>5, <1>q DEF ListenerReceive, Move, At, queueVars
  <2>2. Accepted' = Accepted /\ InService' = InService /\ Finished' = Finished
    BY <1>q, <2>1 DEF Accepted, InService, Finished, Reading, Gone
  <2> QED
    BY <2>1, <2>2, PoolKept
<1>6. CASE /\ MainOnly \/ ListenerLock \/ ListenerUnlock \/ ListenerNotify
           /\ ~(ReadConnect \/ ReadUsers \/ ReadCommand)
  <2>1. /\ UNCHANGED <<queue, hand, taken, kind>> /\ InHand' = InHand
        /\ pc'[Main] = "pop" <=> pc[Main] = "pop"
        /\ Reading' <=> Reading
    BY <1>6, StillSteps
  <2>2. Accepted' = Accepted /\ InService' = InService /\ Finished' = Finished
    BY <1>6, <2>1, StillSteps DEF Accepted, InHand, InService, Finished, Gone, Reading
  <2> QED
    BY <2>1, <2>2, PoolKept
<1>7. CASE Ends \/ UNCHANGED vars
  <2>1. UNCHANGED <<pc, queue, hand, taken, kind>>
    BY <1>7 DEF Ends, UnpackThrows, ConvertThrows, EmptyAccess, DataRace, End, vars,
       queueVars, historyVars
  <2> QED
    BY <2>1, PoolKept DEF Accepted, InService, Finished, Reading, Gone
<1> QED
  BY <1>1, <1>2, <1>3, <1>4, <1>5, <1>6, <1>7
     DEF Next, ListenerStep, MainStep, WaitStep, ReadStep, UserStep, MainOnly, Ends

\* main reads the packets in the order in which they came, each once, in
\* spite of second unlocks and spurious wakeups, until something undefined
\* happens.
THEOREM ClientImplementsPool == Spec => ImplementsPool
<1>1. TypeInv /\ OrderInv /\ [Next]_vars => [Pool!Next]_(Pool!vars)
  BY PoolStep
<1> QED
  BY <1>1, PoolInit, OrderInit, OrderStep, TypeInit, TypeStep, PTL
     DEF Spec, ImplementsPool, Pool!Spec
-----------------------------------------------------------------------------
(* What is proved of every pool (module PacketPoolProofs) holds of the     *)
(* client's queue.                                                         *)

PoolFacts == INSTANCE PacketPoolProofs WITH
  accepted  <- Accepted,
  backlog   <- queue,
  inService <- InService,
  finished  <- Finished

LEMMA SamePool ==
  /\ Pool!Init => PoolFacts!Init
  /\ [Pool!Next]_(Pool!vars) => [PoolFacts!Next]_(PoolFacts!vars)
<1> USE DEF Accepted, InService, Finished, Gone, Reading
<1>1. Pool!Init => PoolFacts!Init
  BY DEF Pool!Init, PoolFacts!Init
<1>2. [Pool!Next]_(Pool!vars) => [PoolFacts!Next]_(PoolFacts!vars)
  BY DEF Pool!Next, Pool!vars, Pool!Accept, Pool!Take, Pool!Finish,
     PoolFacts!Next, PoolFacts!vars, PoolFacts!Accept, PoolFacts!Take, PoolFacts!Finish
<1> QED
  BY <1>1, <1>2

\* Each packet that the listener has pushed is in the queue, being read or read,
\* and the queue holds the packets that came last, in order.
THEOREM ClientLosesNothing == Spec => []Pool!EveryPacketIsSomewhere
<1>1. PoolFacts!EveryPacketIsSomewhere => Pool!EveryPacketIsSomewhere
  BY DEF PoolFacts!EveryPacketIsSomewhere, Pool!EveryPacketIsSomewhere, Accepted,
     InService, Finished, Gone, Reading
<1> QED
  BY <1>1, SamePool, ClientImplementsPool, PoolFacts!NothingIsLost, PTL
     DEF ImplementsPool, Pool!Spec, PoolFacts!Spec

\* An answer that main has read is never read again.
THEOREM ClientServesOnce == Spec => Pool!ServedOnce
<1> USE DEF Accepted, InService, Finished, Gone, Reading
<1>1. [Finished \subseteq Finished' /\ Finished \cap InService' = {}]_(PoolFacts!vars)
        => [Finished \subseteq Finished' /\ Finished \cap InService' = {}]_(Pool!vars)
  BY DEF PoolFacts!vars, Pool!vars
<1> QED
  BY <1>1, SamePool, ClientImplementsPool, PoolFacts!NoneServedTwice, PTL
     DEF ImplementsPool, Pool!Spec, PoolFacts!Spec, Pool!ServedOnce, PoolFacts!ServedOnce
=============================================================================
