------------------------------ MODULE Conversation ------------------------------
(***************************************************************************)
(* Clients (main() of src/Client.cpp) and the server, with the network     *)
(* between them.                                                           *)
(*                                                                         *)
(* UDP delivers datagrams in any order.  It may lose one: a datagram that  *)
(* is never delivered.  It may repeat one: action Repeat.  The server may  *)
(* be restarted, and then has forgotten every session.  Neither client nor *)
(* server numbers its answers or looks at the number in one, and no client *)
(* gives up waiting.                                                       *)
(*                                                                         *)
(* A client reads its oldest answer when it waits for one, which it may    *)
(* fail to do for ever (module Client shows when).  A handler of the       *)
(* server is one step: of what it does, only its one access to the session *)
(* table (module ServerState) decides the answer.  Broadcasts and messages *)
(* do not go through the client's queue and are left out; module Server    *)
(* has them.                                                               *)
(***************************************************************************)
EXTENDS ServerState, Sequences

CONSTANTS
  Clients,         \* client processes, each with an address of its own
  Nobody,          \* stands for no client
  MaxPackets,      \* bound on the packets a client sends
  MaxDuplicates,   \* bound on the datagrams the network repeats
  MaxRestarts      \* bound on the restarts of the server

ASSUME ConversationAssumption ==
  /\ Nobody \notin Clients
  /\ MaxPackets \in Nat
  /\ MaxDuplicates \in Nat
  /\ MaxRestarts \in Nat

RequestTypes == {"CONNECT", "LISTUSERS", "CREATEUSER", "SENDPLAYERCOMMAND"}
AnswerTypes  == {"CONNECT", "LISTUSERS", "SENDPLAYERCOMMAND", "ERROR"}

Sessions == {0} \cup Ids

\* packed: the class of the object in the buffer.  no: the number of the
\* request; the one in an answer is a history, for CONNECT and ERROR answers
\* carry 0.  copy: 0, or which of the network's repetitions this is.
Requests ==
  [client : Clients, no : 1 .. MaxPackets, copy : 0 .. MaxDuplicates,
   type : RequestTypes, packed : RequestTypes, session : Sessions]

Answers ==
  [client : Clients, no : 1 .. MaxPackets, copy : 0 .. MaxDuplicates,
   type : AnswerTypes, session : Sessions]

VARIABLES
  where,         \* what each client is doing, or how it has ended
  clientState,   \* the state of each client's loop
  session,       \* the session id each client goes by
  packetNumber,  \* the number of each client's next packet
  inbox,         \* the packetQueue of each client
  requests,      \* datagrams on their way to the server
  answers,       \* datagrams on their way to the clients
  duplicates,    \* how many datagrams the network has repeated
  restarts,      \* how often the server was restarted
  issuedTo       \* history: whom the running server issued each id to

clientVars == <<where, clientState, session, packetNumber, inbox>>
netVars == <<requests, answers, duplicates>>
vars == <<clientVars, netVars, restarts, stateVars, issuedTo>>

TypeOK ==
  /\ where \in [Clients -> {"ready", "waiting", "names", "quit", "terminated"}]
  /\ clientState \in [Clients -> 0 .. 3]
  /\ session \in [Clients -> Sessions]
  /\ packetNumber \in [Clients -> 1 .. MaxPackets + 1]
  /\ inbox \in [Clients -> Seq(Answers)]
  /\ requests \subseteq Requests
  /\ answers \subseteq Answers
  /\ duplicates \in 0 .. MaxDuplicates
  /\ restarts \in 0 .. MaxRestarts
  /\ StateTypeOK
  /\ issuedTo \in [Ids -> Clients \cup {Nobody}]

Init ==
  /\ where = [c \in Clients |-> "ready"]
  /\ clientState = [c \in Clients |-> 0]
  /\ session = [c \in Clients |-> 0]
  /\ packetNumber = [c \in Clients |-> 1]
  /\ inbox = [c \in Clients |-> <<>>]
  /\ requests = {}
  /\ answers = {}
  /\ duplicates = 0
  /\ restarts = 0
  /\ StateInit
  /\ issuedTo = [s \in Ids |-> Nobody]

-----------------------------------------------------------------------------
(* A client sends a request ...                                            *)

Become(c, from, to) == where[c] = from /\ where' = [where EXCEPT ![c] = to]

Send(c, type, packed) ==
  /\ packetNumber[c] <= MaxPackets
  /\ packetNumber' = [packetNumber EXCEPT ![c] = @ + 1]
  /\ requests' = requests \cup
       {[client |-> c, no |-> packetNumber[c], copy |-> 0,
         type |-> type, packed |-> packed, session |-> session[c]]}
  /\ UNCHANGED <<clientState, session, inbox, answers, duplicates, restarts,
                 stateVars, issuedTo>>

Ask(c, state, type) ==
  /\ clientState[c] = state
  /\ Become(c, "ready", "waiting")
  /\ Send(c, type, type)

Connect(c) == Ask(c, 0, "CONNECT")
ListUsers(c) == Ask(c, 2, "LISTUSERS")
SendPlayerCommand(c) == Ask(c, 3, "SENDPLAYERCOMMAND")

\* The new user is packed into buffer2, but buffer is sent: the request for
\* the list of users.  No answer is waited for.
CreateUser(c) ==
  /\ Become(c, "names", "ready")
  /\ Send(c, "CREATEUSER", "LISTUSERS")

OnlyClient == UNCHANGED <<packetNumber, netVars, restarts, stateVars, issuedTo>>

Quit(c) ==
  /\ clientState[c] = 0
  /\ Become(c, "ready", "quit")
  /\ UNCHANGED <<clientState, session, inbox>>
  /\ OnlyClient

Connected(c) ==
  /\ where[c] = "ready"
  /\ clientState[c] = 1
  /\ clientState' = [clientState EXCEPT ![c] = 2]
  /\ UNCHANGED <<where, session, inbox>>
  /\ OnlyClient

-----------------------------------------------------------------------------
(* ... and reads the oldest packet in its queue as the answer.             *)

Answer(c) == Head(inbox[c])

AnswerIn(c, types) == inbox[c] # <<>> /\ Answer(c).type \in types

\* (mutant of Read) the packet is copied and stays in the queue.
ReadKeeps(c, next) ==
  /\ Become(c, "waiting", next)
  /\ UNCHANGED inbox
  /\ OnlyClient

Read(c, next) ==
  /\ Become(c, "waiting", next)
  /\ inbox' = [inbox EXCEPT ![c] = Tail(@)]
  /\ OnlyClient

ReadConnect(c) ==
  /\ clientState[c] = 0
  /\ AnswerIn(c, AnswerTypes)
  /\ Read(c, "ready")
  /\ IF Answer(c).type = "CONNECT"
     THEN /\ session' = [session EXCEPT ![c] = Answer(c).session]
          /\ clientState' = [clientState EXCEPT ![c] = 1]
     ELSE UNCHANGED <<session, clientState>>

\* (mutant of ReadUsers) without a user the client connects again.
ReadUsersReconnects(c) ==
  /\ clientState[c] = 2
  /\ AnswerIn(c, {"LISTUSERS", "CONNECT"})
  /\ clientState' = [clientState EXCEPT
       ![c] = IF Answer(c).type = "LISTUSERS" THEN 3 ELSE 0]
  /\ Read(c, "ready")
  /\ UNCHANGED session

\* What converts to a list of users is the server's list, which has users, or
\* a CONNECT, which has none: then the client asks for the names of one.
ReadUsers(c) ==
  /\ clientState[c] = 2
  /\ \/ /\ AnswerIn(c, {"LISTUSERS"})
        /\ Read(c, "ready")
        /\ clientState' = [clientState EXCEPT ![c] = 3]
     \/ /\ AnswerIn(c, {"CONNECT"})
        /\ Read(c, "names")
        /\ UNCHANGED clientState
  /\ UNCHANGED session

ReadCommand(c) ==
  /\ clientState[c] = 3
  /\ AnswerIn(c, {"CONNECT", "SENDPLAYERCOMMAND", "ERROR"})
  /\ Read(c, "ready")
  /\ UNCHANGED <<clientState, session>>

\* convert() throws in main(), and the process ends.
ConvertThrows(c) ==
  /\ \/ clientState[c] = 2 /\ AnswerIn(c, {"SENDPLAYERCOMMAND", "ERROR"})
     \/ clientState[c] = 3 /\ AnswerIn(c, {"LISTUSERS"})
  /\ Read(c, "terminated")
  /\ UNCHANGED <<clientState, session>>

-----------------------------------------------------------------------------
(* The network.                                                            *)

Alive(c) == where[c] \notin {"quit", "terminated"}

\* The client's listener puts the datagram into the queue.
Deliver(a) ==
  /\ Alive(a.client)
  /\ answers' = answers \ {a}
  /\ inbox' = [inbox EXCEPT ![a.client] = Append(@, a)]
  /\ UNCHANGED <<where, clientState, session, packetNumber, requests, duplicates,
                 restarts, stateVars, issuedTo>>

Again(d) == [d EXCEPT !.copy = duplicates + 1]

Repeat ==
  /\ duplicates < MaxDuplicates
  /\ duplicates' = duplicates + 1
  /\ \/ /\ \E r \in requests : requests' = requests \cup {Again(r)}
        /\ UNCHANGED answers
     \/ /\ \E a \in answers : answers' = answers \cup {Again(a)}
        /\ UNCHANGED requests
  /\ UNCHANGED <<clientVars, restarts, stateVars, issuedTo>>

-----------------------------------------------------------------------------
(* The server.                                                             *)

Reply(r, type, s) ==
  /\ requests' = requests \ {r}
  /\ answers' = answers \cup
       {[client |-> r.client, no |-> r.no, copy |-> r.copy, type |-> type, session |-> s]}
  /\ UNCHANGED <<clientVars, duplicates, restarts>>

SendErrorTo(r) == Reply(r, "ERROR", 0) /\ UNCHANGED <<stateVars, issuedTo>>

\* (mutant of ConnectHandler) the reply carries the id of the request.
ConnectHandlerEchoes(r) ==
  /\ r.type = "CONNECT"
  /\ GenerateSession(r.session)
  /\ issuedTo' = [issuedTo EXCEPT ![GeneratedId(r.session)] = r.client]
  /\ Reply(r, "CONNECT", r.session)

ConnectHandler(r) ==
  /\ r.type = "CONNECT"
  /\ GenerateSession(r.session)
  /\ issuedTo' = [issuedTo EXCEPT ![GeneratedId(r.session)] = r.client]
  /\ Reply(r, "CONNECT", GeneratedId(r.session))

ListUsersHandler(r) ==
  /\ r.type = "LISTUSERS"
  /\ VerifySession(r.session)
  /\ GetSessionAccountName(r.session)
  /\ Reply(r, "LISTUSERS", r.session)
  /\ UNCHANGED issuedTo

\* A command that is neither a message nor a broadcast.
SendPlayerCommandHandler(r) ==
  /\ r.type = "SENDPLAYERCOMMAND"
  /\ VerifySession(r.session)
  /\ Reply(r, "SENDPLAYERCOMMAND", r.session)
  /\ UNCHANGED <<stateVars, issuedTo>>

\* CREATEUSER with anything else in the buffer does not convert.
CreateUserHandler(r) ==
  /\ r.type = "CREATEUSER"
  /\ r.packed # "CREATEUSER"
  /\ SendErrorTo(r)

\* (mutant of RefuseSession) a request for an unknown session is dropped.
RefuseSessionSilently(r) ==
  /\ r.type \in {"LISTUSERS", "SENDPLAYERCOMMAND"}
  /\ ~VerifySession(r.session)
  /\ requests' = requests \ {r}
  /\ UNCHANGED <<clientVars, answers, duplicates, restarts, stateVars, issuedTo>>

RefuseSession(r) ==
  /\ r.type \in {"LISTUSERS", "SENDPLAYERCOMMAND"}
  /\ ~VerifySession(r.session)
  /\ SendErrorTo(r)

\* The process ends (/shutdown, or an exception) and is started again.
Restart ==
  /\ restarts < MaxRestarts
  /\ restarts' = restarts + 1
  /\ curSession' = 1
  /\ sessions' = {}
  /\ activeSessions' = {}
  /\ sessionAccounts' = {}
  /\ issuedTo' = [s \in Ids |-> Nobody]
  /\ UNCHANGED <<clientVars, netVars>>

-----------------------------------------------------------------------------
Asks(c) == Connect(c) \/ ListUsers(c) \/ SendPlayerCommand(c)

Reads(c) == ReadConnect(c) \/ ReadUsers(c) \/ ReadCommand(c) \/ ConvertThrows(c)

Serves(r) ==
  \/ ConnectHandler(r) \/ ListUsersHandler(r) \/ SendPlayerCommandHandler(r)
  \/ CreateUserHandler(r) \/ RefuseSession(r)

Next ==
  \/ \E c \in Clients : Asks(c) \/ Reads(c) \/ CreateUser(c) \/ Quit(c) \/ Connected(c)
  \/ \E r \in requests : Serves(r)
  \/ \E a \in answers : Deliver(a)
  \/ Repeat
  \/ Restart

Spec == Init /\ [][Next]_vars

-----------------------------------------------------------------------------
(* Properties.                                                             *)

\* What a waiting client is about to read answers the request it sent last
\* ("Wait for the response", Client.cpp:198).  Nobody compares numbers
\* (Client.cpp:150-168, 199-203, 286-289), and one repeated datagram is enough
\* to put a client one answer behind.
AnswersMatch ==
  \A c \in Clients :
    (where[c] = "waiting" /\ inbox[c] # <<>>) => Answer(c).no = packetNumber[c] - 1

\* Loss, delay, reordering and restarts of the server alone never lead to that
\* (the same lines).
AnswersMatchUnlessRepeated == duplicates = 0 => AnswersMatch

\* "We are assuming that the return packet will always be on type CONNECT"
\* (Client.cpp:156): in state 0 it is, whatever is lost, repeated or restarted.
ConnectAnswerIsConnect ==
  \A c \in Clients : clientState[c] = 0 =>
    \A i \in 1 .. Len(inbox[c]) : inbox[c][i].type = "CONNECT"

\* While nothing was repeated and the server was not restarted no client ends
\* with an exception: each answer has the type main() converts it to
\* (Client.cpp:203, 289).
NobodyTerminates ==
  (duplicates = 0 /\ restarts = 0) => \A c \in Clients : where[c] # "terminated"

\* Until it is restarted, the server lets a request pass only if its sender is
\* the one the session was opened for, repeated CONNECTs or not ("Checks if the
\* session id given by the user is valid before allowing further interaction",
\* ServerState.cpp:21; 22-30, 96-105).
OnlyOwnersPass ==
  restarts = 0 =>
    \A r \in requests :
      (r.type # "CONNECT" /\ VerifySession(r.session)) => issuedTo[r.session] = r.client

\* How far each client's current request has come.
Stage ==
  [c \in Clients |->
     IF ~Alive(c) THEN "ended"
     ELSE IF where[c] # "waiting" THEN "ready"
     ELSE IF \E r \in requests : r.client = c THEN "asked"
     ELSE IF inbox[c] # <<>> \/ \E a \in answers : a.client = c THEN "served"
     ELSE "forgotten"]

Lockstep == INSTANCE Exchange WITH stage <- Stage, repeated <- duplicates > 0

\* Client, network and server together do what a client takes for granted
\* (module Exchange), until the network repeats something: a request is served
\* once, answered always, and its answer is the next thing the client reads
\* (Client.cpp:150-168, 199-203, 286-289 with the handlers of Server.cpp).
ImplementsExchange == Lockstep!Spec
=============================================================================
