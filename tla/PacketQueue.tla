------------------------------ MODULE PacketQueue ------------------------------
(***************************************************************************)
(* The packet queue of the Celegraph server (src/Server.cpp, src/Server.h):*)
(* the main thread receives datagrams and pushes them, a pool of detached  *)
(* worker threads pops and handles them, and the admin shell reads the     *)
(* queue's size.  All three go through packetQueueMutex; main wakes a      *)
(* worker through the condition variable packetQueueSyncVar.               *)
(*                                                                         *)
(* Three habits of the code are modelled as they are:                      *)
(*  - the worker waits without a predicate, so notify_one() on a moment    *)
(*    when no worker sleeps is lost (lostNotifies counts them);            *)
(*  - the worker unlocks the mutex by hand although a unique_lock owns it, *)
(*    so the mutex is unlocked a second time when the loop body ends       *)
(*    (WorkerReturn), by a thread that no longer holds it: the default     *)
(*    mutexes of glibc and musl do not ask who unlocks them, so whoever    *)
(*    holds it by then is robbed of it;                                    *)
(*  - front() and pop() run without a test for emptiness.                  *)
(*                                                                         *)
(* Packets are numbered in the order they arrive; what a handler does with *)
(* one is the subject of module Server.                                    *)
(***************************************************************************)
EXTENDS Naturals, Sequences, FiniteSets

CONSTANTS
  Workers,            \* the detached worker threads
  Main,               \* the thread that runs Server::Run
  Admin,              \* the admin shell's thread
  Nobody,             \* the value of a free mutex
  MaxPackets          \* bound on the datagrams that arrive

Threads == Workers \cup {Main, Admin}

ASSUME ThreadsAssumption ==
  /\ IsFiniteSet(Workers)
  /\ Main \notin Workers
  /\ Admin \notin Workers
  /\ Main # Admin
  /\ Nobody \notin Threads

ASSUME BoundsAssumption == MaxPackets \in Nat

VARIABLES
  process,       \* "running", or how the server process has ended
  mutex,         \* packetQueueMutex: the thread that locked it, or Nobody
  pc,            \* where each thread is
  queue,         \* packetQueue
  arrived,       \* number of packets received; the last one is Run's local p
  hand,          \* WorkerThread's local packet (0: not yet assigned)
  taken,         \* history: what front() returned, in the order of the calls
  robbed,        \* history: has the mutex ever been unlocked while another
                 \* thread than the one that unlocked it held it?
  lostNotifies,  \* history: calls of notify_one() that found nobody asleep
  spurious       \* history: returns of wait() that nobody notified

vars == <<process, mutex, pc, queue, arrived, hand, taken, robbed, lostNotifies,
          spurious>>

MainPC   == {"receive", "lock", "push", "unlock", "notify"}
AdminPC  == {"prompt", "size"}
WorkerPC == {"lock", "wait", "asleep", "woken", "front", "pop", "unlock",
             "handle", "return"}

TypeOK ==
  /\ process \in {"running", "exited", "terminated", "undefined"}
  /\ mutex \in Threads \cup {Nobody}
  /\ pc \in [Threads -> MainPC \cup AdminPC \cup WorkerPC]
  /\ pc[Main] \in MainPC
  /\ pc[Admin] \in AdminPC
  /\ \A w \in Workers : pc[w] \in WorkerPC
  /\ queue \in Seq(1 .. MaxPackets)
  /\ arrived \in 0 .. MaxPackets
  /\ hand \in [Workers -> 0 .. MaxPackets]
  /\ taken \in Seq(1 .. MaxPackets)
  /\ robbed \in BOOLEAN
  /\ lostNotifies \in Nat
  /\ spurious \in Nat

Init ==
  /\ process = "running"
  /\ mutex = Nobody
  /\ pc = [t \in Threads |-> IF t = Main THEN "receive"
                             ELSE IF t = Admin THEN "prompt" ELSE "lock"]
  /\ queue = <<>>
  /\ arrived = 0
  /\ hand = [w \in Workers |-> 0]
  /\ taken = <<>>
  /\ robbed = FALSE
  /\ lostNotifies = 0
  /\ spurious = 0

-----------------------------------------------------------------------------
At(t, where) == process = "running" /\ pc[t] = where

Move(t, from, to) == At(t, from) /\ pc' = [pc EXCEPT ![t] = to]

Lock(t) == mutex = Nobody /\ mutex' = t /\ UNCHANGED robbed

\* std::mutex::unlock() frees the mutex, whoever holds it.
Unlock(t) ==
  /\ mutex' = Nobody
  /\ robbed' = (robbed \/ mutex \notin {t, Nobody})

\* Threads between the instructions of a queue operation.
InDeque(t) ==
  \/ t = Main /\ pc[t] = "push"
  \/ t = Admin /\ pc[t] = "size"
  \/ t \in Workers /\ pc[t] \in {"front", "pop"}

Writing(t) == InDeque(t) /\ pc[t] \in {"push", "pop"}

-----------------------------------------------------------------------------
(* The main thread: Server::Run's loop.                                    *)

\* utils::ReceivePacketFrom returned a datagram.
MainReceive ==
  /\ arrived < MaxPackets
  /\ Move(Main, "receive", "lock")
  /\ arrived' = arrived + 1
  /\ UNCHANGED <<process, mutex, robbed, queue, hand, taken, lostNotifies, spurious>>

\* (mutant of MainLock) Run forgets packetQueueMutex.lock().
MainLockForgotten ==
  /\ Move(Main, "lock", "push")
  /\ UNCHANGED <<process, mutex, robbed, queue, arrived, hand, taken, lostNotifies, spurious>>

MainLock ==
  /\ Move(Main, "lock", "push")
  /\ Lock(Main)
  /\ UNCHANGED <<process, queue, arrived, hand, taken, lostNotifies, spurious>>

\* (mutant of MainPush) Run pushes its packet variable before it is filled.
MainPushUnset ==
  /\ Move(Main, "push", "unlock")
  /\ queue' = Append(queue, 0)
  /\ UNCHANGED <<process, mutex, robbed, arrived, hand, taken, lostNotifies, spurious>>

MainPush ==
  /\ Move(Main, "push", "unlock")
  /\ queue' = Append(queue, arrived)
  /\ UNCHANGED <<process, mutex, robbed, arrived, hand, taken, lostNotifies, spurious>>

MainUnlock ==
  /\ Move(Main, "unlock", "notify")
  /\ Unlock(Main)
  /\ UNCHANGED <<process, queue, arrived, hand, taken, lostNotifies, spurious>>

\* notify_one() wakes exactly one sleeping worker, and is forgotten when
\* there is none.
MainNotify ==
  /\ At(Main, "notify")
  /\ \/ \E w \in Workers :
          /\ pc[w] = "asleep"
          /\ pc' = [pc EXCEPT ![Main] = "receive", ![w] = "woken"]
          /\ UNCHANGED lostNotifies
     \/ /\ \A w \in Workers : pc[w] # "asleep"
        /\ pc' = [pc EXCEPT ![Main] = "receive"]
        /\ lostNotifies' = lostNotifies + 1
  /\ UNCHANGED <<process, mutex, robbed, queue, arrived, hand, taken, spurious>>

-----------------------------------------------------------------------------
(* A worker: Server::WorkerThread.                                         *)

\* The constructor of unique_lock.
WorkerLock(w) ==
  /\ Move(w, "lock", "wait")
  /\ Lock(w)
  /\ UNCHANGED <<process, queue, arrived, hand, taken, lostNotifies, spurious>>

\* wait() releases the mutex and puts the thread to sleep in one step.
WorkerWait(w) ==
  /\ Move(w, "wait", "asleep")
  /\ Unlock(w)
  /\ UNCHANGED <<process, queue, arrived, hand, taken, lostNotifies, spurious>>

\* wait() may return although nobody called notify_one().
SpuriousWake(w) ==
  /\ Move(w, "asleep", "woken")
  /\ spurious' = spurious + 1
  /\ UNCHANGED <<process, mutex, robbed, queue, arrived, hand, taken, lostNotifies>>

\* wait() locks the mutex again before it returns.
WorkerRelock(w) ==
  /\ Move(w, "woken", "front")
  /\ Lock(w)
  /\ UNCHANGED <<process, queue, arrived, hand, taken, lostNotifies, spurious>>

\* (mutant of WorkerFront) packetQueue.back(): the newest packet is copied.
WorkerBack(w) ==
  /\ queue # <<>>
  /\ Move(w, "front", "pop")
  /\ hand' = [hand EXCEPT ![w] = queue[Len(queue)]]
  /\ taken' = Append(taken, queue[Len(queue)])
  /\ UNCHANGED <<process, mutex, robbed, queue, arrived, lostNotifies, spurious>>

\* (mutant of WorkerFront) the mutex is given back before pop().
WorkerFrontUnlocks(w) ==
  /\ queue # <<>>
  /\ Move(w, "front", "pop")
  /\ hand' = [hand EXCEPT ![w] = Head(queue)]
  /\ taken' = Append(taken, Head(queue))
  /\ Unlock(w)
  /\ UNCHANGED <<process, queue, arrived, lostNotifies, spurious>>

\* packet = packetQueue.front()
WorkerFront(w) ==
  /\ queue # <<>>
  /\ Move(w, "front", "pop")
  /\ hand' = [hand EXCEPT ![w] = Head(queue)]
  /\ taken' = Append(taken, Head(queue))
  /\ UNCHANGED <<process, mutex, robbed, queue, arrived, lostNotifies, spurious>>

\* (mutant of WorkerPop) the packet is copied but never removed.
WorkerPopForgotten(w) ==
  /\ queue # <<>>
  /\ Move(w, "pop", "unlock")
  /\ UNCHANGED <<process, mutex, robbed, queue, arrived, hand, taken, lostNotifies, spurious>>

\* packetQueue.pop()
WorkerPop(w) ==
  /\ queue # <<>>
  /\ Move(w, "pop", "unlock")
  /\ queue' = Tail(queue)
  /\ UNCHANGED <<process, mutex, robbed, arrived, hand, taken, lostNotifies, spurious>>

\* packetQueueMutex.unlock(), behind the back of the unique_lock.
WorkerUnlock(w) ==
  /\ Move(w, "unlock", "handle")
  /\ Unlock(w)
  /\ UNCHANGED <<process, queue, arrived, hand, taken, lostNotifies, spurious>>

\* The packet is decoded and its handler runs and returns.
WorkerHandle(w) ==
  /\ Move(w, "handle", "return")
  /\ UNCHANGED <<process, mutex, robbed, queue, arrived, hand, taken, lostNotifies, spurious>>

\* The end of the loop body: the unique_lock still believes that it owns the
\* mutex and unlocks it again.
WorkerReturn(w) ==
  /\ Move(w, "return", "lock")
  /\ Unlock(w)
  /\ UNCHANGED <<process, queue, arrived, hand, taken, lostNotifies, spurious>>

-----------------------------------------------------------------------------
(* The admin shell: Server::GetPacketQueueSize.                            *)

AdminLock ==
  /\ Move(Admin, "prompt", "size")
  /\ Lock(Admin)
  /\ UNCHANGED <<process, queue, arrived, hand, taken, lostNotifies, spurious>>

\* (mutant of AdminUnlock) GetPacketQueueSize returns without unlocking.
AdminUnlockForgotten ==
  /\ Move(Admin, "size", "prompt")
  /\ UNCHANGED <<process, mutex, robbed, queue, arrived, hand, taken, lostNotifies, spurious>>

AdminUnlock ==
  /\ Move(Admin, "size", "prompt")
  /\ Unlock(Admin)
  /\ UNCHANGED <<process, queue, arrived, hand, taken, lostNotifies, spurious>>

-----------------------------------------------------------------------------
(* The ways the process ends.  Nothing runs afterwards.                    *)

End(how) ==
  /\ process = "running"
  /\ process' = how
  /\ UNCHANGED <<mutex, pc, queue, arrived, hand, taken, robbed, lostNotifies,
                 spurious>>

\* The command /shutdown calls exit() whatever the other threads are doing.
AdminShutdown == pc[Admin] = "prompt" /\ End("exited")

\* An exception leaves the thread's function (msgpack::unpack throws on bytes
\* it cannot decode and no handler's try block encloses it): std::terminate.
WorkerThrow(w) == pc[w] = "handle" /\ End("terminated")

\* front() or pop() of an empty std::queue has no defined behaviour.
EmptyAccess(w) ==
  pc[w] \in {"front", "pop"} /\ queue = <<>> /\ End("undefined")

\* Two threads inside the queue, one of them writing: what they leave behind
\* may be any interleaving of their steps, or a corrupted queue.
DataRace ==
  \E t, u \in Threads :
    t # u /\ Writing(t) /\ InDeque(u) /\ End("undefined")

-----------------------------------------------------------------------------
MainStep == MainLock \/ MainPush \/ MainUnlock \/ MainNotify

WorkerStep(w) ==
  \/ WorkerLock(w) \/ WorkerWait(w) \/ WorkerRelock(w)
  \/ WorkerFront(w) \/ WorkerPop(w) \/ WorkerUnlock(w)
  \/ WorkerHandle(w) \/ WorkerReturn(w)

Next ==
  \/ MainReceive
  \/ MainStep
  \/ \E w \in Workers : WorkerStep(w) \/ SpuriousWake(w)
  \/ AdminLock
  \/ AdminUnlock
  \/ AdminShutdown
  \/ \E w \in Workers : WorkerThrow(w) \/ EmptyAccess(w)
  \/ DataRace

Spec == Init /\ [][Next]_vars

(***************************************************************************)
(* A thread that can take a step eventually does, and a thread queueing    *)
(* for the mutex gets it if the mutex is free again and again (strong      *)
(* fairness on the three lock operations: unlock() wakes a futex waiter and*)
(* every holder leaves after a few instructions).  A worker at front() or  *)
(* pop() goes on when the queue is empty, too: into undefined behaviour.   *)
(* Nothing is assumed of arrivals, of the administrator's commands, of     *)
(* spurious wakeups or of the other ways the process ends.                 *)
(***************************************************************************)
Fairness ==
  /\ WF_vars(MainStep)
  /\ SF_vars(MainLock)
  /\ WF_vars(AdminUnlock)
  /\ \A w \in Workers :
       /\ WF_vars(WorkerStep(w) \/ EmptyAccess(w))
       /\ SF_vars(WorkerLock(w))
       /\ SF_vars(WorkerRelock(w))

FairSpec == Spec /\ Fairness

-----------------------------------------------------------------------------
(* Properties.                                                             *)

\* At most one thread is inside packetQueue at any time: packetQueueMutex
\* makes main's push, a worker's front and pop, and the shell's size exclude
\* each other (Server.h:38, Server.cpp:82-84, 98-112, 199-204).
MutualExclusion ==
  \A t, u \in Threads : InDeque(t) /\ InDeque(u) => t = u

\* They do exclude each other until the unlock at the end of some worker's loop
\* body takes the mutex from a thread that holds it: an unlock that comes while
\* the mutex is free, and any number of them, does no harm
\* (Server.cpp:98-112, 181).
ExclusionUntilRobbed == ~robbed => MutualExclusion

\* Until then the n-th packet a worker copies out of the queue is the n-th that
\* arrived: none is skipped, handed to two workers or overtaken
\* (Server.cpp:105-106).
HandedInOrder == \A i \in 1 .. Len(taken) : taken[i] = i

InOrderUntilRobbed == ~robbed => HandedInOrder

\* Workers that were woken and have not popped yet.
Entitled == {w \in Workers : pc[w] \in {"woken", "front", "pop"}}

Unannounced == IF pc[Main] \in {"unlock", "notify"} THEN 1 ELSE 0

\* Every packet in the queue is one a woken worker is about to pop, one main
\* is about to announce, or one whose notify_one() was lost; and nothing but a
\* spurious wakeup ever makes up for a lost one.  A lost wakeup leaves the
\* queue one packet longer for good, a spurious one a worker more than there
\* are packets for it (Server.cpp:82-87 against the wait without predicate at
\* 101).  Nothing is assumed of the mutex.
BacklogIsLostWakeups ==
  Len(queue) + spurious = Cardinality(Entitled) + Unannounced + lostNotifies

\* As long as no more wakeups were spurious than were lost, no worker calls
\* front() or pop() on an empty queue (Server.cpp:105-106), although the code
\* never tests for it.
NoEmptyPop ==
  spurious <= lostNotifies =>
    \A w \in Workers : pc[w] \in {"front", "pop"} => queue # <<>>

\* What the queue promises (module PacketPool): packets are served in order of
\* arrival, each by one worker, and none is dropped on the way, until a thread
\* is robbed of the mutex (docs/server_theory.md:8, Server.cpp:75-181).
Busy == {w \in Workers : pc[w] \in {"unlock", "handle"}}

Popping == {w \in Workers : pc[w] = "pop"}

Pool == INSTANCE PacketPool WITH
  accepted  <- IF pc[Main] \in {"lock", "push"} THEN arrived - 1 ELSE arrived,
  backlog   <- queue,
  inService <- {hand[w] : w \in Busy},
  finished  <- {taken[i] : i \in DOMAIN taken}
                 \ {hand[w] : w \in Busy \cup Popping}

ImplementsPool == Pool!Init /\ [][Pool!Next \/ robbed']_(Pool!vars)

\* A packet in the queue is eventually copied out by a worker, unless the
\* process ends.
QueuedIsTaken ==
  \A n \in 1 .. MaxPackets :
    (\E i \in DOMAIN queue : queue[i] = n)
      ~> (process # "running" \/ \E i \in DOMAIN taken : taken[i] = n)

\* Whatever the second unlock does to the mutex, nobody is left queueing for
\* it: main comes back to recvfrom, and a worker that is not asleep comes
\* back to sleep (Server.cpp:75-88, 95-181).
NobodyStuck ==
  /\ (pc[Main] # "receive") ~> (process # "running" \/ pc[Main] = "receive")
  /\ \A w \in Workers :
       (pc[w] # "asleep") ~> (process # "running" \/ pc[w] = "asleep")
=============================================================================
