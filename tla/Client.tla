--------------------------------- MODULE Client ---------------------------------
(***************************************************************************)
(* The command line client (src/Client.cpp): a listener thread that pushes *)
(* the datagrams it receives into a queue, and the main thread, which      *)
(* sends a request, waits for one packet in the queue and takes it for the *)
(* answer.  Both go through packetQueueMutex; isNotEmpty wakes main.       *)
(*                                                                         *)
(* The wait has no predicate and the mutex is unlocked by name under a     *)
(* unique_lock, as in the server (module PacketQueue).                     *)
(*                                                                         *)
(* Here any packet the server sends may arrive at any time.  Which request *)
(* an answer belongs to, and the session ids that both carry, are the      *)
(* subject of module Conversation.                                         *)
(***************************************************************************)
EXTENDS Naturals, Sequences

CONSTANTS
  Main,               \* the thread that runs main()
  Listener,           \* the detached thread that runs PacketListener
  Nobody,             \* the value of a free mutex
  MaxPackets          \* bound on the packets that arrive for the queue

Threads == {Main, Listener}

ASSUME ClientAssumption ==
  /\ Main # Listener
  /\ Nobody \notin Threads
  /\ MaxPackets \in Nat

\* The types of the server's answers.  (SENDSERVERCOMMAND packets do not go
\* through the queue.)
Kinds == {"CONNECT", "LISTUSERS", "SENDPLAYERCOMMAND", "ERROR"}

VARIABLES
  process,       \* "running", or how the client process has ended
  mutex,         \* packetQueueMutex: the thread that locked it, or Nobody
  pc,            \* where each thread is
  clientState,   \* the state of main's loop
  queue,         \* packetQueue: the packets, numbered in the order they came
  kind,          \* the type of each packet that came
  hand,          \* main's retPacket (0: not yet assigned)
  taken,         \* history: what front() returned, in the order of the calls
  lostNotifies,  \* history: calls of notify_one() that found main awake
  wakeups        \* history: "spurious" once wait() has returned although
                 \* nobody called notify_one()

vars == <<process, mutex, pc, clientState, queue, kind, hand, taken, lostNotifies,
          wakeups>>

MainPC == {"loop", "names", "lock", "wait", "asleep", "woken", "front", "pop",
           "unlock", "return", "read"}
ListenerPC == {"receive", "lock", "push", "unlock", "notify"}

TypeOK ==
  /\ process \in {"running", "quit", "terminated", "undefined"}
  /\ mutex \in Threads \cup {Nobody}
  /\ pc \in [Threads -> MainPC \cup ListenerPC]
  /\ pc[Main] \in MainPC
  /\ pc[Listener] \in ListenerPC
  /\ clientState \in 0 .. 3
  /\ queue \in Seq(1 .. MaxPackets)
  /\ kind \in Seq(Kinds)
  /\ Len(kind) <= MaxPackets
  /\ hand \in 0 .. MaxPackets
  /\ taken \in Seq(1 .. MaxPackets)
  /\ lostNotifies \in Nat
  /\ wakeups \in {"notified", "spurious"}

Init ==
  /\ process = "running"
  /\ mutex = Nobody
  /\ pc = [t \in Threads |-> IF t = Main THEN "loop" ELSE "receive"]
  /\ clientState = 0
  /\ queue = <<>>
  /\ kind = <<>>
  /\ hand = 0
  /\ taken = <<>>
  /\ lostNotifies = 0
  /\ wakeups = "notified"

-----------------------------------------------------------------------------
At(t, where) == process = "running" /\ pc[t] = where

Move(t, from, to) == At(t, from) /\ pc' = [pc EXCEPT ![t] = to]

Lock(t) == mutex = Nobody /\ mutex' = t

\* As in the server, unlock() frees the mutex whoever holds it.
Unlock(t) == mutex' = Nobody

queueVars == <<queue, hand, taken>>
historyVars == <<kind, lostNotifies, wakeups>>

-----------------------------------------------------------------------------
(* The listener.                                                           *)

\* A datagram that is not a SENDSERVERCOMMAND.  One that is gets printed and
\* leaves no trace: the step UNCHANGED vars.
ListenerReceive(k) ==
  /\ Len(kind) < MaxPackets
  /\ Move(Listener, "receive", "lock")
  /\ kind' = Append(kind, k)
  /\ UNCHANGED <<process, mutex, clientState, queueVars, lostNotifies, wakeups>>

\* (mutant of ListenerLock) packetQueueMutex.lock() is forgotten.
ListenerLockForgotten ==
  /\ Move(Listener, "lock", "push")
  /\ UNCHANGED <<process, mutex, clientState, queueVars, historyVars>>

ListenerLock ==
  /\ Move(Listener, "lock", "push")
  /\ Lock(Listener)
  /\ UNCHANGED <<process, clientState, queueVars, historyVars>>

\* (mutant of ListenerPush) the packet is pushed before it is filled.
ListenerPushUnset ==
  /\ Move(Listener, "push", "unlock")
  /\ queue' = Append(queue, 0)
  /\ UNCHANGED <<process, mutex, clientState, hand, taken, historyVars>>

ListenerPush ==
  /\ Move(Listener, "push", "unlock")
  /\ queue' = Append(queue, Len(kind))
  /\ UNCHANGED <<process, mutex, clientState, hand, taken, historyVars>>

\* (mutant of ListenerUnlock) the mutex is kept.
ListenerUnlockForgotten ==
  /\ Move(Listener, "unlock", "notify")
  /\ UNCHANGED <<process, mutex, clientState, queueVars, historyVars>>

ListenerUnlock ==
  /\ Move(Listener, "unlock", "notify")
  /\ Unlock(Listener)
  /\ UNCHANGED <<process, clientState, queueVars, historyVars>>

\* notify_one() is forgotten unless main sleeps.
ListenerNotify ==
  /\ At(Listener, "notify")
  /\ IF pc[Main] = "asleep"
     THEN /\ pc' = [pc EXCEPT ![Listener] = "receive", ![Main] = "woken"]
          /\ UNCHANGED lostNotifies
     ELSE /\ pc' = [pc EXCEPT ![Listener] = "receive"]
          /\ lostNotifies' = lostNotifies + 1
  /\ UNCHANGED <<process, mutex, clientState, queueVars, kind, wakeups>>

-----------------------------------------------------------------------------
(* main() sends a request ...                                              *)

\* The packet's way to the server is not shown here; main goes on to wait.
Request(state) ==
  /\ clientState = state
  /\ Move(Main, "loop", "lock")
  /\ UNCHANGED <<process, mutex, clientState, queueVars, historyVars>>

Connect == Request(0)
ListUsers == Request(2)
SendPlayerCommand == Request(3)

\* "n" at the question "Connect?": main returns and the process ends.
Quit ==
  /\ clientState = 0
  /\ At(Main, "loop")
  /\ process' = "quit"
  /\ UNCHANGED <<mutex, pc, clientState, queueVars, historyVars>>

\* State 1 does nothing but go on to state 2.
Connected ==
  /\ clientState = 1
  /\ At(Main, "loop")
  /\ clientState' = 2
  /\ UNCHANGED <<process, mutex, pc, queueVars, historyVars>>

\* The names of a new user are typed, and CREATEUSER is sent; nobody waits for
\* an answer to it.
CreateUser ==
  /\ Move(Main, "names", "loop")
  /\ UNCHANGED <<process, mutex, clientState, queueVars, historyVars>>

-----------------------------------------------------------------------------
(* ... and waits for a packet: WaitOnPacketQueue.                          *)

WaitLock ==
  /\ Move(Main, "lock", "wait")
  /\ Lock(Main)
  /\ UNCHANGED <<process, clientState, queueVars, historyVars>>

\* wait() releases the mutex and falls asleep in one step.
Wait ==
  /\ Move(Main, "wait", "asleep")
  /\ Unlock(Main)
  /\ UNCHANGED <<process, clientState, queueVars, historyVars>>

\* wait() may return although nobody called notify_one().
SpuriousWake ==
  /\ Move(Main, "asleep", "woken")
  /\ wakeups' = "spurious"
  /\ UNCHANGED <<process, mutex, clientState, queueVars, kind, lostNotifies>>

Relock ==
  /\ Move(Main, "woken", "front")
  /\ Lock(Main)
  /\ UNCHANGED <<process, clientState, queueVars, historyVars>>

\* (mutant of Front) packetQueue.back(): the newest packet is copied.
FrontNewest ==
  /\ queue # <<>>
  /\ Move(Main, "front", "pop")
  /\ hand' = queue[Len(queue)]
  /\ taken' = Append(taken, queue[Len(queue)])
  /\ UNCHANGED <<process, mutex, clientState, queue, historyVars>>

Front ==
  /\ queue # <<>>
  /\ Move(Main, "front", "pop")
  /\ hand' = Head(queue)
  /\ taken' = Append(taken, Head(queue))
  /\ UNCHANGED <<process, mutex, clientState, queue, historyVars>>

\* (mutant of Pop) the packet is copied and never removed.
PopForgotten ==
  /\ queue # <<>>
  /\ Move(Main, "pop", "unlock")
  /\ UNCHANGED <<process, mutex, clientState, queueVars, historyVars>>

Pop ==
  /\ queue # <<>>
  /\ Move(Main, "pop", "unlock")
  /\ queue' = Tail(queue)
  /\ UNCHANGED <<process, mutex, clientState, hand, taken, historyVars>>

PopUnlock ==
  /\ Move(Main, "unlock", "return")
  /\ Unlock(Main)
  /\ UNCHANGED <<process, clientState, queueVars, historyVars>>

\* The unique_lock goes out of scope and unlocks a second time.
Return ==
  /\ Move(Main, "return", "read")
  /\ Unlock(Main)
  /\ UNCHANGED <<process, clientState, queueVars, historyVars>>

-----------------------------------------------------------------------------
(* main() reads the answer.                                                *)

Answer == kind[hand]

\* A packet converts to a type whose fields agree with its own, as far as it
\* has any: CONNECT has none but the two numbers all of them begin with, the
\* users of LISTUSERS are an array, the third field of the others is a string.
ConvertsTo(k) ==
  \/ Answer \in {k, "CONNECT"}
  \/ {k, Answer} = {"SENDPLAYERCOMMAND", "ERROR"}

Read(to, next) ==
  /\ Move(Main, "read", next)
  /\ clientState' = to
  /\ UNCHANGED <<process, mutex, queueVars, historyVars>>

\* State 0 asks for the type, and asks the user again if it is another one.
ReadConnect ==
  /\ clientState = 0
  /\ Read(IF Answer = "CONNECT" THEN 1 ELSE 0, "loop")

\* State 2 does not: a CONNECT is a list without users.  (The server's own
\* list is never empty.)
ReadUsers ==
  /\ clientState = 2
  /\ ConvertsTo("LISTUSERS")
  /\ IF Answer = "LISTUSERS" THEN Read(3, "loop") ELSE Read(2, "names")

ReadCommand ==
  /\ clientState = 3
  /\ ConvertsTo("SENDPLAYERCOMMAND")
  /\ Read(3, "loop")

-----------------------------------------------------------------------------
(* The ways the process ends otherwise.                                    *)

End(how) ==
  /\ process = "running"
  /\ process' = how
  /\ UNCHANGED <<mutex, pc, clientState, queueVars, historyVars>>

\* convert() throws in main(), which catches nothing.
ConvertThrows ==
  /\ pc[Main] = "read"
  /\ \/ clientState = 2 /\ ~ConvertsTo("LISTUSERS")
     \/ clientState = 3 /\ ~ConvertsTo("SENDPLAYERCOMMAND")
  /\ End("terminated")

\* unpack() throws in the listener: the datagram's payload is cut short or is
\* larger than a packet (module Wire).
UnpackThrows == pc[Listener] = "receive" /\ End("terminated")

EmptyAccess == pc[Main] \in {"front", "pop"} /\ queue = <<>> /\ End("undefined")

BothInQueue == pc[Listener] = "push" /\ pc[Main] \in {"front", "pop"}

DataRace == BothInQueue /\ End("undefined")

-----------------------------------------------------------------------------
ListenerStep == ListenerLock \/ ListenerPush \/ ListenerUnlock \/ ListenerNotify

\* What main does on its own; a request and the names are typed by the user.
WaitStep == WaitLock \/ Wait \/ Relock \/ Front \/ Pop \/ PopUnlock \/ Return

ReadStep == ReadConnect \/ ReadUsers \/ ReadCommand \/ ConvertThrows

MainStep == WaitStep \/ EmptyAccess \/ ReadStep \/ Connected \/ ListUsers

UserStep == Connect \/ Quit \/ CreateUser \/ SendPlayerCommand

Next ==
  \/ \E k \in Kinds : ListenerReceive(k)
  \/ ListenerStep
  \/ MainStep
  \/ UserStep
  \/ SpuriousWake
  \/ UnpackThrows
  \/ DataRace

Spec == Init /\ [][Next]_vars

(***************************************************************************)
(* Each thread goes on when it can, and gets the mutex if it is free again *)
(* and again.  No packet has to arrive and the user has to type nothing.   *)
(***************************************************************************)
Fairness ==
  /\ WF_vars(ListenerStep)
  /\ SF_vars(ListenerLock)
  /\ WF_vars(MainStep)
  /\ SF_vars(WaitLock)
  /\ SF_vars(Relock)

FairSpec == Spec /\ Fairness

-----------------------------------------------------------------------------
(* Properties.                                                             *)

\* The listener's push and main's front and pop exclude each other, although
\* main unlocks the mutex twice and the second unlock may take it away from
\* the listener: main cannot be back in the queue before the listener has
\* left it and called notify_one(), unless wait() returns on its own
\* (Client.cpp:57-61, 75-84).
MutualExclusion == wakeups = "notified" => ~BothInQueue

Entitled == IF pc[Main] \in {"woken", "front", "pop"} THEN 1 ELSE 0

Unannounced == IF pc[Listener] \in {"unlock", "notify"} THEN 1 ELSE 0

\* What is in the queue is the packet main was woken for, the one about to be
\* announced, and one for each notification that found main awake: so many
\* answers main is behind for good, or until wait() returns on its own
\* (Client.cpp:58-61 against the wait at 76).
BacklogIsLostWakeups ==
  wakeups = "notified" => Len(queue) = Entitled + Unannounced + lostNotifies

\* main never reads or removes the first packet of an empty queue, though it
\* does not look, until wait() has returned on its own (Client.cpp:76-82).
NoEmptyPop == wakeups = "notified" /\ pc[Main] \in {"front", "pop"} => queue # <<>>

\* What main reads comes in the order in which it arrived, each packet once
\* (module PacketPool; Client.cpp:57-59, 81-82).
Pool == INSTANCE PacketPool WITH
  accepted  <- IF pc[Listener] \in {"lock", "push"} THEN Len(kind) - 1 ELSE Len(kind),
  backlog   <- queue,
  inService <- IF pc[Main] \in {"unlock", "return", "read"} THEN {hand} ELSE {},
  finished  <- {taken[i] : i \in DOMAIN taken}
                 \ (IF pc[Main] \in {"pop", "unlock", "return", "read"} THEN {hand} ELSE {})

ImplementsPool == Pool!Spec

\* A packet that comes while main sleeps wakes it, and main gets to read,
\* whatever the second unlock did to the mutex (Client.cpp:57-61, 75-84).
SleeperReads ==
  (pc[Main] = "asleep" /\ pc[Listener] # "receive")
    ~> (process # "running" \/ pc[Main] = "read")
=============================================================================
