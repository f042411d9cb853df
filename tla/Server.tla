--------------------------------- MODULE Server ---------------------------------
(***************************************************************************)
(* The request handlers of the Celegraph server (src/Server.cpp) and the   *)
(* administrator's commands that reach into it (src/AdminShell.cpp).       *)
(*                                                                         *)
(* Workers handle requests side by side.  Two mutexes order them:          *)
(* serverStateMutex over the session table (module ServerState) and        *)
(* activeConnectionsMutex over the map from session ids to addresses.  A   *)
(* handler that holds one mutex and asks for no other is one step.  Where  *)
(* it goes on without the mutex, or asks for the second one while it holds *)
(* the first, it is cut into several.                                      *)
(*                                                                         *)
(* A handler touches nothing shared before its first lock, so a packet     *)
(* that waits in a worker's hand is the same as one that has not arrived:  *)
(* an idle worker that finds the first mutex free may start on any packet. *)
(* Module PacketQueue shows how the packet gets to the worker; here every  *)
(* order of service is included, and so are lost, repeated and delayed     *)
(* datagrams.  The command /shutdown is an action of PacketQueue; this     *)
(* specification may stop at any step without it.                          *)
(***************************************************************************)
EXTENDS ServerState, FiniteSets

CONSTANTS
  Workers,      \* the worker threads
  Admin,        \* the admin shell's thread
  Nobody,       \* the value of a free mutex, and of no address
  Clients,      \* the addresses clients send from
  StrayIds      \* TRUE: a packet may carry any session id (its sender has
                \* outlived a server, or the number is wrong); FALSE: only 0
                \* and ids the sender was told

Threads == Workers \cup {Admin}

ASSUME ServerAssumption ==
  /\ Admin \notin Workers
  /\ Nobody \notin Threads
  /\ Nobody \notin Clients
  /\ StrayIds \in BOOLEAN

NoSession == 0

\* A typed line: "/h" broadcasts the rest of the line, "/s" sends it to one
\* session (NoSession: to the administrator, or to a name that is no number),
\* anything else is only printed.  text: is the rest of the line there?
Commands ==
  [verb : {"other"}, text : {FALSE}, to : {NoSession}]
    \cup [verb : {"/h"}, text : BOOLEAN, to : {NoSession}]
    \cup [verb : {"/s"}, text : {FALSE}, to : {NoSession}]
    \cup [verb : {"/s"}, text : {TRUE}, to : {NoSession} \cup Ids]

NoCommand == [verb |-> "other", text |-> FALSE, to |-> NoSession]

Requests == [session : {NoSession} \cup Ids, client : Clients \cup {Nobody},
             command : Commands]

NoRequest == [session |-> NoSession, client |-> Nobody, command |-> NoCommand]

VARIABLES
  process,            \* "running", or "undefined": anything may happen
  stateMutex,         \* serverStateMutex: who holds it
  connMutex,          \* activeConnectionsMutex: who holds it
  pc,                 \* where each thread is
  req,                \* the request a thread is working on
  newSession,         \* ConnectHandler's local
  visited,            \* BroadcastToConnections: the id its iterator was at last
  reached,            \* ids the request has sent a SENDSERVERCOMMAND to
  activeConnections,  \* the address of each session id; Nobody: no entry
  told                \* history: the ids each client got in a CONNECT reply

requestVars == <<req, newSession, visited, reached>>
connVars == <<activeConnections, told>>
vars == <<process, stateMutex, connMutex, pc, requestVars, stateVars, connVars>>

WorkerPC == {"idle", "register", "reply", "command", "broadcasting", "commandDone"}
AdminPC  == {"prompt", "command", "broadcasting", "commandDone"}

TypeOK ==
  /\ process \in {"running", "undefined"}
  /\ stateMutex \in Workers \cup {Nobody}
  /\ connMutex \in Threads \cup {Nobody}
  /\ pc \in [Threads -> WorkerPC \cup AdminPC]
  /\ pc[Admin] \in AdminPC
  /\ \A w \in Workers : pc[w] \in WorkerPC
  /\ req \in [Threads -> Requests]
  /\ newSession \in [Workers -> {NoSession} \cup Ids]
  /\ visited \in [Threads -> {NoSession} \cup Ids]
  /\ reached \in [Threads -> SUBSET Ids]
  /\ StateTypeOK
  /\ activeConnections \in [Ids -> Clients \cup {Nobody}]
  /\ told \in [Clients -> SUBSET Ids]

Init ==
  /\ process = "running"
  /\ stateMutex = Nobody
  /\ connMutex = Nobody
  /\ pc = [t \in Threads |-> IF t = Admin THEN "prompt" ELSE "idle"]
  /\ req = [t \in Threads |-> NoRequest]
  /\ newSession = [w \in Workers |-> NoSession]
  /\ visited = [t \in Threads |-> NoSession]
  /\ reached = [t \in Threads |-> {}]
  /\ StateInit
  /\ activeConnections = [s \in Ids |-> Nobody]
  /\ told = [c \in Clients |-> {}]

-----------------------------------------------------------------------------
At(t, where) == process = "running" /\ pc[t] = where

Move(t, from, to) == At(t, from) /\ pc' = [pc EXCEPT ![t] = to]

StateFree == stateMutex = Nobody

\* The keys of the map activeConnections.
Connected == {s \in Ids : activeConnections[s] # Nobody}

\* The ids a packet of client c may carry.
Carried(c) == {NoSession} \cup (IF StrayIds THEN Ids ELSE told[c])

-----------------------------------------------------------------------------
(* Handlers that hold serverStateMutex from beginning to end, or no mutex. *)

\* The handler of a packet begins and returns within the step.  What it sends
\* back (an error, a list of users) leaves no trace in the server.
Handled(w) ==
  /\ At(w, "idle")
  /\ UNCHANGED <<process, stateMutex, connMutex, pc, requestVars, connVars>>

\* The packet changes nothing: its type is unknown or it does not convert to
\* it; its handler only prints (DeleteUser, InitializeGame, UpdatePc,
\* UpdateNpc, SendPlayerAction, SendServerAction, Unity); or it verifies the
\* session and returns (Generic, Ack, CreateUser).
NoEffectPacket(w) == Handled(w) /\ UNCHANGED stateVars

DisconnectHandler(w, s) ==
  /\ StateFree
  /\ VerifySession(s)
  /\ DisconnectSession(s)
  /\ Handled(w)

ListUsersHandler(w, s) ==
  /\ StateFree
  /\ VerifySession(s)
  /\ GetSessionAccountName(s)
  /\ Handled(w)

SelectUserHandler(w, s) ==
  /\ StateFree
  /\ VerifySession(s)
  /\ SelectPlayer(s)
  /\ Handled(w)

\* A request whose session is not open is refused, and changes nothing.
RefuseSession(w, s) ==
  /\ StateFree
  /\ ~VerifySession(s)
  /\ Handled(w)
  /\ UNCHANGED stateVars

-----------------------------------------------------------------------------
(* ConnectHandler: one critical section under each mutex, then the reply.  *)

ConnectGenerate(w, c, s) ==
  /\ Move(w, "idle", "register")
  /\ StateFree
  /\ GenerateSession(s)
  /\ newSession' = [newSession EXCEPT ![w] = GeneratedId(s)]
  /\ req' = [req EXCEPT ![w] = [NoRequest EXCEPT !.client = c]]
  /\ UNCHANGED <<process, stateMutex, connMutex, visited, reached, connVars>>

\* (mutant of ConnectRegister) activeConnectionsMutex is not taken.
ConnectRegisterUnlocked(w) ==
  /\ Move(w, "register", "reply")
  /\ activeConnections' = [activeConnections EXCEPT ![newSession[w]] = req[w].client]
  /\ UNCHANGED <<process, stateMutex, connMutex, requestVars, stateVars, told>>

\* (mutant of ConnectRegister) the new id is read from the session table
\* after serverStateMutex was given back.
ConnectRegisterReread(w) ==
  /\ Move(w, "register", "reply")
  /\ connMutex = Nobody
  /\ activeConnections' = [activeConnections EXCEPT ![curSession - 1] = req[w].client]
  /\ UNCHANGED <<process, stateMutex, connMutex, requestVars, stateVars, told>>

ConnectRegister(w) ==
  /\ Move(w, "register", "reply")
  /\ connMutex = Nobody
  /\ activeConnections' = [activeConnections EXCEPT ![newSession[w]] = req[w].client]
  /\ UNCHANGED <<process, stateMutex, connMutex, requestVars, stateVars, told>>

ConnectReply(w) ==
  /\ Move(w, "reply", "idle")
  /\ told' = [told EXCEPT ![req[w].client] = @ \cup {newSession[w]}]
  /\ req' = [req EXCEPT ![w] = NoRequest]
  /\ newSession' = [newSession EXCEPT ![w] = NoSession]
  /\ UNCHANGED <<process, stateMutex, connMutex, visited, reached, stateVars,
                 activeConnections>>

-----------------------------------------------------------------------------
(* SendPlayerCommandHandler and ServerState::PlayerCommand, which keep     *)
(* serverStateMutex while they take activeConnectionsMutex; and the same   *)
(* commands typed by the administrator, who takes only the second.         *)

CommandAccept(w, s, m) ==
  /\ Move(w, "idle", "command")
  /\ StateFree
  /\ VerifySession(s)
  /\ stateMutex' = w
  /\ req' = [req EXCEPT ![w] = [NoRequest EXCEPT !.session = s, !.command = m]]
  /\ UNCHANGED <<process, connMutex, newSession, visited, reached,
                 stateVars, connVars>>

AdminType(m) ==
  /\ Move(Admin, "prompt", "command")
  /\ req' = [req EXCEPT ![Admin] = [NoRequest EXCEPT !.command = m]]
  /\ UNCHANGED <<process, stateMutex, connMutex, newSession, visited, reached,
                 stateVars, connVars>>

Verb(t) == req[t].command.verb
HasText(t) == req[t].command.text

\* "/s" reads the second token and the text behind it without asking whether
\* they are there; the shell's "/h" does the same with its text.
Unreadable(t) ==
  ~HasText(t) /\ (Verb(t) = "/s" \/ (Verb(t) = "/h" /\ t = Admin))

\* A client's "/h" without a text is ignored.
Broadcasts(t) == Verb(t) = "/h" /\ HasText(t)

Recipients(t) == {s \in Ids : Verb(t) = "/s" /\ HasText(t) /\ s = req[t].command.to}

\* Nothing is sent to another client.
CommandPrint(t) ==
  /\ Move(t, "command", "commandDone")
  /\ ~Unreadable(t)
  /\ ~Broadcasts(t)
  /\ Recipients(t) = {}
  /\ UNCHANGED <<process, stateMutex, connMutex, requestVars, stateVars, connVars>>

\* (mutant of SendMessageToConnection) lock() and unlock() in place of the
\* lock_guard: the early return for an unknown session keeps the mutex.
SendMessageKeepsMutex(t) ==
  /\ Move(t, "command", "commandDone")
  /\ Recipients(t) # {}
  /\ connMutex = Nobody
  /\ reached' = [reached EXCEPT ![t] = Recipients(t) \cap Connected]
  /\ connMutex' = IF Recipients(t) \subseteq Connected THEN Nobody ELSE t
  /\ UNCHANGED <<process, stateMutex, req, newSession, visited, stateVars, connVars>>

SendMessageToConnection(t) ==
  /\ Move(t, "command", "commandDone")
  /\ Recipients(t) # {}
  /\ connMutex = Nobody
  /\ reached' = [reached EXCEPT ![t] = Recipients(t) \cap Connected]
  /\ UNCHANGED <<process, stateMutex, connMutex, req, newSession, visited,
                 stateVars, connVars>>

\* What the iterator has not come to yet.  It walks the map itself, not a copy.
Ahead(t) == {s \in Connected : s > visited[t]}

\* BroadcastToConnections: the lock_guard, the loop, one datagram at a time in
\* the order of the map, and the end of the guard's scope.
BroadcastLock(t) ==
  /\ Move(t, "command", "broadcasting")
  /\ Broadcasts(t)
  /\ connMutex = Nobody
  /\ connMutex' = t
  /\ visited' = [visited EXCEPT ![t] = NoSession]
  /\ UNCHANGED <<process, stateMutex, req, newSession, reached, stateVars, connVars>>

BroadcastNext(t) ==
  /\ At(t, "broadcasting")
  /\ \E s \in Ahead(t) :
       /\ \A i \in Ahead(t) : s <= i
       /\ visited' = [visited EXCEPT ![t] = s]
       /\ reached' = [reached EXCEPT ![t] = @ \cup ({s} \ {req[t].session})]
  /\ UNCHANGED <<process, stateMutex, connMutex, pc, req, newSession,
                 stateVars, connVars>>

BroadcastEnd(t) ==
  /\ Move(t, "broadcasting", "commandDone")
  /\ Ahead(t) = {}
  /\ connMutex' = Nobody
  /\ visited' = [visited EXCEPT ![t] = NoSession]
  /\ UNCHANGED <<process, stateMutex, req, newSession, reached, stateVars, connVars>>

CommandReply(w) ==
  /\ Move(w, "commandDone", "idle")
  /\ stateMutex' = Nobody
  /\ req' = [req EXCEPT ![w] = NoRequest]
  /\ reached' = [reached EXCEPT ![w] = {}]
  /\ UNCHANGED <<process, connMutex, newSession, visited, stateVars, connVars>>

AdminPrompt ==
  /\ Move(Admin, "commandDone", "prompt")
  /\ req' = [req EXCEPT ![Admin] = NoRequest]
  /\ reached' = [reached EXCEPT ![Admin] = {}]
  /\ UNCHANGED <<process, stateMutex, connMutex, newSession, visited,
                 stateVars, connVars>>

-----------------------------------------------------------------------------
(* Undefined behaviour.                                                    *)

\* A token that is not there is read.
CommandUndefined(t) ==
  /\ At(t, "command")
  /\ Unreadable(t)
  /\ process' = "undefined"
  /\ UNCHANGED <<stateMutex, connMutex, pc, requestVars, stateVars, connVars>>

-----------------------------------------------------------------------------
\* A packet of client c that carries session id s.
Start(w, c, s) ==
  \/ NoEffectPacket(w) \/ RefuseSession(w, s)
  \/ DisconnectHandler(w, s) \/ ListUsersHandler(w, s) \/ SelectUserHandler(w, s)
  \/ ConnectGenerate(w, c, s)
  \/ \E m \in Commands : CommandAccept(w, s, m)

CommandStep(t) ==
  \/ CommandPrint(t) \/ SendMessageToConnection(t)
  \/ BroadcastLock(t) \/ BroadcastNext(t) \/ BroadcastEnd(t)
  \/ CommandUndefined(t)

Continue(w) ==
  \/ ConnectRegister(w) \/ ConnectReply(w)
  \/ CommandStep(w) \/ CommandReply(w)

AdminStep == CommandStep(Admin) \/ AdminPrompt

Next ==
  \/ \E w \in Workers, c \in Clients : \E s \in Carried(c) : Start(w, c, s)
  \/ \E w \in Workers : Continue(w)
  \/ \E m \in Commands : AdminType(m)
  \/ AdminStep

Spec == Init /\ [][Next]_vars

(***************************************************************************)
(* A thread in the middle of a request that can go on eventually does, and *)
(* one that waits for a mutex gets it if the mutex is free again and again *)
(* (a lock that starves nobody, and holders that leave after a bounded     *)
(* number of steps).  No packet and no command has to arrive.              *)
(***************************************************************************)
Acquire(t) == SendMessageToConnection(t) \/ BroadcastLock(t)

Fairness ==
  /\ WF_vars(AdminStep)
  /\ SF_vars(Acquire(Admin))
  /\ \A w \in Workers :
       /\ WF_vars(Continue(w))
       /\ SF_vars(ConnectRegister(w))
       /\ SF_vars(Acquire(w))

FairSpec == Spec /\ Fairness

-----------------------------------------------------------------------------
(* Properties.                                                             *)

\* Only open sessions have a character selected, whatever the order in which
\* SELECTUSER and DISCONNECT of one session are handled
\* (ServerState.cpp:42-46, 81-86).
SelectedAreOpen == activeSessions \subseteq sessions

\* The two tables of the server agree: every open session has a connection, or
\* the worker that opened it is about to store one (Server.cpp:345-351, where
\* nothing holds both mutexes).
OpenIsConnected ==
  \A s \in sessions :
    s \in Connected \/ \E w \in Workers : pc[w] = "register" /\ newSession[w] = s

\* Once a client was told its session, messages for that session go to it for
\* as long as the session is open; and when it is closed they go to nobody
\* else, if they go anywhere at all (Server.cpp:345-362, 367).  The clients use
\* the ids they were told.
ToldReachesClient ==
  \A c \in Clients : \A s \in told[c] :
    /\ activeConnections[s] \in {c, Nobody}
    /\ s \in sessions => activeConnections[s] = c

\* A CONNECT reply that tells an id for the first time tells one that is open,
\* although ConnectHandler replies long after it gave serverStateMutex back: to
\* close the id one has to know it. A repeated CONNECT for a known id has no
\* such promise, since the client may disconnect meanwhile (Server.cpp:345-362,
\* 376-381).
NewIdsAreOpen ==
  \A w \in Workers :
    (pc[w] \in {"register", "reply"} /\ \A c \in Clients : newSession[w] \notin told[c])
      => newSession[w] \in sessions

\* A broadcast that ends has been sent to every open session that a client had
\* been told of by then, unless the client is the one it came from:
\* activeConnectionsMutex covers the loop and the connection is stored before
\* the reply is sent (Server.cpp:222-237, 349-362).  Of the originator's own
\* sessions and of closed ones nothing is asked (Server.cpp:224, 367).
BroadcastReachesTold ==
  \A t \in Threads :
    (pc[t] = "broadcasting" /\ Ahead(t) = {})
      => \A c \in Clients :
           req[t].session \notin told[c] => told[c] \cap sessions \subseteq reached[t]

\* The ids are issued in order and a closed one never becomes valid again
\* (module SessionLifecycle; ServerState.cpp:42-46, 96-105).
ImplementsLifecycle == Lifecycle!Spec

\* In the middle of a request, or of a command of the administrator.
UnderWay(t) == pc[t] \notin {"idle", "prompt"}

\* The next step of the request needs activeConnectionsMutex.
NeedsConnections(t) ==
  \/ pc[t] = "register"
  \/ pc[t] = "command" /\ (Broadcasts(t) \/ Recipients(t) # {})

CanGoOn(t) == UnderWay(t) /\ (NeedsConnections(t) => connMutex = Nobody)

\* Nobody waits in a circle.  Who holds serverStateMutex is in the middle of a
\* request; and a request that cannot go on waits for activeConnectionsMutex,
\* which another thread holds that can: nobody waits while it holds that one
\* (Server.cpp:222, 271, 349, 487).
NoCircularWait ==
  /\ stateMutex # Nobody => UnderWay(stateMutex)
  /\ \A t \in Threads : UnderWay(t) => CanGoOn(t) \/ CanGoOn(connMutex)

\* The most steps a thread still takes for the request it is working on.
StepsLeft(t) ==
  CASE pc[t] \in {"idle", "prompt"}       -> 0
    [] pc[t] \in {"reply", "commandDone"} -> 1
    [] pc[t] = "register"                 -> 2
    [] pc[t] = "broadcasting"             -> 2 + Cardinality(Ahead(t))
    [] pc[t] = "command"                  -> 3 + MaxSessions

\* Every step of a request brings it nearer to its end, and no step of another
\* thread takes it back or makes a broadcast under way longer, although the loop
\* walks the map that ConnectHandler inserts into: who opens a session waits
\* with its connection until the loop is over (Server.cpp:222-237, 345-362).
RequestsShorten ==
  [][\A t \in Threads : UnderWay(t) =>
       \/ StepsLeft(t)' < StepsLeft(t)
       \/ UNCHANGED <<pc[t], req[t], reached[t], StepsLeft(t)>>]_vars

\* A request that was begun is finished, and every command of the
\* administrator comes back to the prompt: the handlers' nested locks leave
\* nobody waiting for ever (Server.cpp:222, 271, 345-351, 487).
RequestsFinish ==
  /\ \A w \in Workers :
       (pc[w] # "idle") ~> (process # "running" \/ pc[w] = "idle")
  /\ (pc[Admin] # "prompt") ~> (process # "running" \/ pc[Admin] = "prompt")
=============================================================================
