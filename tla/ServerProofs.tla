------------------------------ MODULE ServerProofs ------------------------------
(***************************************************************************)
(* What TLAPS proves of module Server, for every set of workers and of     *)
(* clients and every bound on the session ids.                             *)
(***************************************************************************)
EXTENDS Server, FiniteSetTheorems, TLAPS

-----------------------------------------------------------------------------
(* Types.                                                                  *)

\* A worker between ConnectHandler's first critical section and its reply.
Connecting(w) == pc[w] \in {"register", "reply"}

\* TypeOK needs to know that a worker that is connecting has an id in hand.
TypeInv == TypeOK /\ \A w \in Workers : Connecting(w) => newSession[w] \in Ids

LEMMA CommandTypes ==
  /\ NoCommand \in Commands
  /\ NoRequest \in Requests
  /\ \A s \in {NoSession} \cup Ids, m \in Commands :
       [NoRequest EXCEPT !.session = s, !.command = m] \in Requests
  /\ \A m \in Commands : [NoRequest EXCEPT !.command = m] \in Requests
  /\ \A c \in Clients : [NoRequest EXCEPT !.client = c] \in Requests
  BY DEF NoCommand, Commands, NoRequest, Requests

LEMMA GenerateSessionTypes ==
  ASSUME StateTypeOK, NEW s, GenerateSession(s)
  PROVE  StateTypeOK' /\ GeneratedId(s) \in Ids
<1>1. CASE VerifySession(s)
  BY <1>1, SessionsAssumption DEF GenerateSession, GeneratedId, VerifySession, StateTypeOK, stateVars
<1>2. CASE ~VerifySession(s)
  <2>1. /\ curSession <= MaxSessions /\ curSession' = curSession + 1
        /\ sessions' = sessions \cup {curSession}
        /\ UNCHANGED <<activeSessions, sessionAccounts>>
    BY <1>2 DEF GenerateSession
  <2>2. curSession \in Ids /\ curSession' \in 1 .. MaxSessions + 1
    BY <2>1, SessionsAssumption DEF StateTypeOK, Ids
  <2> QED
    BY <1>2, <2>1, <2>2 DEF StateTypeOK, GeneratedId
<1> QED
  BY <1>1, <1>2

LEMMA TypeInit == Init => TypeInv
<1> SUFFICES ASSUME Init PROVE TypeInv
  OBVIOUS
<1>1. req \in [Threads -> Requests]
  BY CommandTypes DEF Init
<1>2. StateTypeOK
  BY SessionsAssumption DEF Init, StateInit, StateTypeOK, Ids
<1> QED
  BY <1>1, <1>2, ServerAssumption DEF Init, TypeInv, TypeOK, Connecting, Threads,
     WorkerPC, AdminPC, NoSession

\* Steps by kind: what a packet can start, what a request goes on with, what
\* the administrator does.
LEMMA TypeStep == TypeInv /\ [Next]_vars => TypeInv'
<1> SUFFICES ASSUME TypeInv, [Next]_vars PROVE TypeInv'
  OBVIOUS
<1> USE ServerAssumption, SessionsAssumption, CommandTypes
    DEF TypeInv, TypeOK, Connecting, Threads, WorkerPC, AdminPC, At, Move,
        requestVars, connVars, stateVars
<1>1. ASSUME NEW w \in Workers, NEW c \in Clients, NEW s \in Carried(c), Start(w, c, s)
      PROVE  TypeInv'
  <2>0. s \in {NoSession} \cup Ids
    BY DEF Carried
  <2>1. CASE NoEffectPacket(w) \/ RefuseSession(w, s)
    BY <2>1 DEF NoEffectPacket, RefuseSession, Handled, StateTypeOK
  <2>2. CASE DisconnectHandler(w, s)
    BY <2>2 DEF DisconnectHandler, DisconnectSession, Handled, StateTypeOK
  <2>3. CASE ListUsersHandler(w, s)
    BY <2>3 DEF ListUsersHandler, GetSessionAccountName, VerifySession, Handled, StateTypeOK
  <2>4. CASE SelectUserHandler(w, s)
    BY <2>4 DEF SelectUserHandler, SelectPlayer, VerifySession, Handled, StateTypeOK
  <2>5. CASE ConnectGenerate(w, c, s)
    <3>1. StateTypeOK' /\ GeneratedId(s) \in Ids
      BY <2>5, GenerateSessionTypes DEF ConnectGenerate
    <3>2. newSession' \in [Workers -> {NoSession} \cup Ids]
      BY <2>5, <3>1 DEF ConnectGenerate
    <3>3. req' \in [Threads -> Requests]
      BY <2>5 DEF ConnectGenerate
    <3>4. \A v \in Workers : Connecting(v)' => newSession'[v] \in Ids
      BY <2>5, <3>1 DEF ConnectGenerate
    <3> QED
      BY <2>5, <3>1, <3>2, <3>3, <3>4 DEF ConnectGenerate
  <2>6. ASSUME NEW m \in Commands, CommandAccept(w, s, m) PROVE TypeInv'
    BY <2>0, <2>6 DEF CommandAccept, StateTypeOK
  <2> QED
    BY <1>1, <2>1, <2>2, <2>3, <2>4, <2>5, <2>6 DEF Start
<1>2. ASSUME NEW t \in Threads, CommandStep(t) PROVE TypeInv'
  <2>1. CASE CommandPrint(t)
    BY <2>1 DEF CommandPrint, StateTypeOK
  <2>2. CASE SendMessageToConnection(t)
    BY <2>2 DEF SendMessageToConnection, StateTypeOK, Connected
  <2>3. CASE BroadcastLock(t)
    BY <2>3 DEF BroadcastLock, StateTypeOK, Connected
  <2>4. CASE BroadcastNext(t)
    <3>1. PICK s \in Ids :
            /\ visited' = [visited EXCEPT ![t] = s]
            /\ reached' = [reached EXCEPT ![t] = @ \cup ({s} \ {req[t].session})]
      BY <2>4 DEF BroadcastNext, Ahead, Connected
    <3>2. visited' \in [Threads -> {NoSession} \cup Ids] /\ reached' \in [Threads -> SUBSET Ids]
      BY <3>1
    <3> QED
      BY <2>4, <3>2 DEF BroadcastNext, StateTypeOK
  <2>5. CASE BroadcastEnd(t)
    BY <2>5 DEF BroadcastEnd, StateTypeOK
  <2>6. CASE CommandUndefined(t)
    BY <2>6 DEF CommandUndefined, StateTypeOK
  <2> QED
    BY <1>2, <2>1, <2>2, <2>3, <2>4, <2>5, <2>6 DEF CommandStep
<1>3. ASSUME NEW w \in Workers, ConnectRegister(w) PROVE TypeInv'
  BY <1>3 DEF ConnectRegister, StateTypeOK, Requests
<1>4. ASSUME NEW w \in Workers, ConnectReply(w) PROVE TypeInv'
  BY <1>4 DEF ConnectReply, StateTypeOK
<1>5. ASSUME NEW w \in Workers, CommandReply(w) PROVE TypeInv'
  BY <1>5 DEF CommandReply, StateTypeOK
<1>6. ASSUME NEW m \in Commands, AdminType(m) PROVE TypeInv'
  BY <1>6 DEF AdminType, StateTypeOK
<1>7. CASE AdminPrompt
  BY <1>7 DEF AdminPrompt, StateTypeOK
<1>8. CASE UNCHANGED vars
  BY <1>8 DEF vars, StateTypeOK
<1> QED
  BY <1>1, <1>2, <1>3, <1>4, <1>5, <1>6, <1>7, <1>8 DEF Next, Continue, AdminStep

\* Every variable keeps its type, for any number of workers, clients and ids.
THEOREM TypeCorrect == Spec => []TypeOK
<1>1. TypeInv => TypeOK
  BY DEF TypeInv
<1> QED
  BY <1>1, TypeInit, TypeStep, PTL DEF Spec

-----------------------------------------------------------------------------
(* The session table and the connections.  Only ConnectHandler adds to     *)
(* them; what every other step leaves alone is stated once.                *)

ConnectStep ==
  \/ \E w \in Workers, c \in Clients : \E s \in Carried(c) : ConnectGenerate(w, c, s)
  \/ \E w \in Workers : ConnectRegister(w) \/ ConnectReply(w)

LEMMA OtherSteps ==
  ASSUME TypeInv, [Next]_vars, ~ConnectStep
  PROVE  /\ UNCHANGED <<activeConnections, told, newSession, curSession>>
         /\ sessions' \subseteq sessions
         /\ SelectedAreOpen => SelectedAreOpen'
         /\ \A w \in Workers :
              /\ pc'[w] = "register" <=> pc[w] = "register"
              /\ pc'[w] = "reply" <=> pc[w] = "reply"
              /\ Connecting(w) => req'[w] = req[w]
<1> DEFINE Kept ==
      /\ UNCHANGED <<activeConnections, told, newSession, curSession>>
      /\ sessions' \subseteq sessions
      /\ SelectedAreOpen => SelectedAreOpen'
      /\ \A w \in Workers :
           /\ pc'[w] = "register" <=> pc[w] = "register"
           /\ pc'[w] = "reply" <=> pc[w] = "reply"
           /\ Connecting(w) => req'[w] = req[w]
<1> SUFFICES Kept
  OBVIOUS
<1> USE ServerAssumption
<1>q. /\ pc \in [Threads -> WorkerPC \cup AdminPC] /\ req \in [Threads -> Requests]
      /\ Workers \subseteq Threads /\ Admin \in Threads /\ Admin \notin Workers
  BY DEF TypeInv, TypeOK, Threads
<1>1. ASSUME NEW w \in Workers, NEW c \in Clients, NEW s \in Carried(c), Start(w, c, s)
      PROVE  Kept
  <2>1. CASE NoEffectPacket(w) \/ RefuseSession(w, s)
    BY <2>1 DEF NoEffectPacket, RefuseSession, Handled, requestVars, connVars,
       stateVars, SelectedAreOpen
  <2>2. CASE DisconnectHandler(w, s)
    BY <2>2 DEF DisconnectHandler, DisconnectSession, Handled, requestVars, connVars,
       SelectedAreOpen
  <2>3. CASE ListUsersHandler(w, s)
    BY <2>3 DEF ListUsersHandler, GetSessionAccountName, Handled, requestVars, connVars,
       SelectedAreOpen
  <2>4. CASE SelectUserHandler(w, s)
    BY <2>4 DEF SelectUserHandler, SelectPlayer, Handled, requestVars, connVars,
       SelectedAreOpen
  <2>5. ASSUME NEW m \in Commands, CommandAccept(w, s, m) PROVE Kept
    BY <1>q, <2>5 DEF CommandAccept, Move, At, connVars, stateVars, SelectedAreOpen,
       Connecting
  <2> QED
    BY <1>1, <2>1, <2>2, <2>3, <2>4, <2>5 DEF Start, ConnectStep
<1>2. ASSUME NEW t \in Threads, CommandStep(t) PROVE Kept
  <2>1. UNCHANGED <<req, newSession, stateVars, connVars>>
    BY <1>2 DEF CommandStep, CommandPrint, SendMessageToConnection, BroadcastLock,
       BroadcastNext, BroadcastEnd, CommandUndefined, requestVars
  <2>2. \/ pc' = pc
        \/ /\ pc[t] \in {"command", "broadcasting"}
           /\ \E to \in {"broadcasting", "commandDone"} : pc' = [pc EXCEPT ![t] = to]
    BY <1>2 DEF CommandStep, CommandPrint, SendMessageToConnection, BroadcastLock,
       BroadcastNext, BroadcastEnd, CommandUndefined, Move, At
  <2> QED
    BY <1>q, <2>1, <2>2 DEF stateVars, connVars, SelectedAreOpen
<1>3. ASSUME NEW w \in Workers, CommandReply(w) PROVE Kept
  BY <1>q, <1>3 DEF CommandReply, Move, At, connVars, stateVars, SelectedAreOpen, Connecting
<1>4. ASSUME NEW m \in Commands, AdminType(m) PROVE Kept
  BY <1>q, <1>4 DEF AdminType, Move, At, connVars, stateVars, SelectedAreOpen
<1>5. CASE AdminPrompt
  BY <1>q, <1>5 DEF AdminPrompt, Move, At, connVars, stateVars, SelectedAreOpen
<1>6. CASE UNCHANGED vars
  BY <1>6 DEF vars, requestVars, connVars, stateVars, SelectedAreOpen
<1> QED
  BY <1>1, <1>2, <1>3, <1>4, <1>5, <1>6 DEF Next, Continue, AdminStep, ConnectStep, Threads

\* Every id in a table or in a worker's hand has been issued.
TableInv ==
  /\ SelectedAreOpen
  /\ \A s \in sessions : s < curSession
  /\ \A w \in Workers : Connecting(w) => newSession[w] < curSession

LEMMA TableStep == TypeInv /\ TableInv /\ [Next]_vars => TableInv'
<1> SUFFICES ASSUME TypeInv, TableInv, [Next]_vars PROVE TableInv'
  OBVIOUS
<1>t. /\ curSession \in Nat /\ \A s \in sessions : s \in Nat
      /\ \A w \in Workers : newSession[w] \in Nat
      /\ pc \in [Threads -> WorkerPC \cup AdminPC]
      /\ newSession \in [Workers -> {NoSession} \cup Ids]
      /\ Workers \subseteq Threads
  BY SessionsAssumption DEF TypeInv, TypeOK, StateTypeOK, Ids, NoSession, Threads
<1>1. ASSUME NEW w \in Workers, NEW c \in Clients, NEW s \in Carried(c),
             ConnectGenerate(w, c, s)
      PROVE  TableInv'
  <2>1. CASE VerifySession(s)
    <3>1. UNCHANGED stateVars /\ GeneratedId(s) = s /\ s < curSession
      BY <1>1, <2>1 DEF ConnectGenerate, GenerateSession, GeneratedId, VerifySession, TableInv
    <3> QED
      BY <1>1, <1>t, <3>1 DEF ConnectGenerate, Move, At, stateVars, TableInv,
         SelectedAreOpen, Connecting
  <2>2. CASE ~VerifySession(s)
    <3>1. /\ sessions' = sessions \cup {curSession} /\ curSession' = curSession + 1
          /\ activeSessions' = activeSessions /\ GeneratedId(s) = curSession
      BY <1>1, <2>2 DEF ConnectGenerate, GenerateSession, GeneratedId
    <3>2. SelectedAreOpen' /\ \A i \in sessions' : i < curSession'
      BY <1>t, <3>1 DEF TableInv, SelectedAreOpen
    <3>3. \A v \in Workers : Connecting(v)' => newSession'[v] < curSession'
      <4> SUFFICES ASSUME NEW v \in Workers, Connecting(v)'
                   PROVE  newSession'[v] < curSession'
        OBVIOUS
      <4>1. CASE v = w
        BY <1>1, <1>t, <3>1, <4>1 DEF ConnectGenerate
      <4>2. CASE v # w
        <5>1. newSession'[v] = newSession[v] /\ Connecting(v)
          BY <1>1, <1>t, <4>2 DEF ConnectGenerate, Move, Connecting
        <5> QED
          BY <1>t, <3>1, <5>1 DEF TableInv
      <4> QED
        BY <4>1, <4>2
    <3> QED
      BY <3>2, <3>3 DEF TableInv
  <2> QED
    BY <2>1, <2>2
<1>2. ASSUME NEW w \in Workers, ConnectRegister(w) \/ ConnectReply(w)
      PROVE  TableInv'
  <2>1. UNCHANGED stateVars
    BY <1>2 DEF ConnectRegister, ConnectReply
  <2>2. \A v \in Workers : Connecting(v)' => Connecting(v) /\ newSession'[v] = newSession[v]
    BY <1>2, <1>t DEF ConnectRegister, ConnectReply, Move, At, Connecting, requestVars
  <2> QED
    BY <2>1, <2>2 DEF stateVars, TableInv, SelectedAreOpen
<1>3. CASE ~ConnectStep
  BY <1>3, <1>t, OtherSteps DEF TableInv, Connecting
<1> QED
  BY <1>1, <1>2, <1>3 DEF ConnectStep

LEMMA TableInit == Init => TableInv
  BY ServerAssumption DEF Init, StateInit, TableInv, SelectedAreOpen, Connecting, Threads

\* A character is selected for open sessions only, in any order of SELECTUSER
\* and DISCONNECT.
THEOREM SelectionIsOpen == Spec => []SelectedAreOpen
<1>1. TableInv => SelectedAreOpen
  BY DEF TableInv
<1> QED
  BY <1>1, TypeInit, TypeStep, TableInit, TableStep, PTL DEF Spec

-----------------------------------------------------------------------------
(* The two tables agree.                                                   *)

\* What a connecting worker has in hand, and what follows from it for the ids
\* the clients were told: the connection is stored before the reply is sent
\* and no connection is ever removed.
ConnInv ==
  /\ OpenIsConnected
  /\ \A w \in Workers : Connecting(w) => req[w].client \in Clients
  /\ \A w \in Workers : pc[w] = "reply" => newSession[w] \in Connected
  /\ \A c \in Clients : told[c] \subseteq Connected

LEMMA ConnInit == Init => ConnInv
  BY ServerAssumption DEF Init, StateInit, ConnInv, OpenIsConnected, Connecting, Threads

LEMMA ConnStep == TypeInv /\ ConnInv /\ [Next]_vars => ConnInv'
<1> SUFFICES ASSUME TypeInv, ConnInv, [Next]_vars PROVE ConnInv'
  OBVIOUS
<1>t. /\ pc \in [Threads -> WorkerPC \cup AdminPC]
      /\ req \in [Threads -> Requests]
      /\ newSession \in [Workers -> {NoSession} \cup Ids]
      /\ activeConnections \in [Ids -> Clients \cup {Nobody}]
      /\ told \in [Clients -> SUBSET Ids]
      /\ Workers \subseteq Threads /\ Nobody \notin Clients
      /\ \A w \in Workers : Connecting(w) => newSession[w] \in Ids
  BY ServerAssumption DEF TypeInv, TypeOK, Threads
<1>1. ASSUME NEW w \in Workers, NEW c \in Clients, NEW s \in Carried(c),
             ConnectGenerate(w, c, s)
      PROVE  ConnInv'
  <2>1. /\ pc' = [pc EXCEPT ![w] = "register"] /\ pc[w] = "idle"
        /\ newSession' = [newSession EXCEPT ![w] = GeneratedId(s)]
        /\ req' = [req EXCEPT ![w] = [NoRequest EXCEPT !.client = c]]
        /\ UNCHANGED connVars
    BY <1>1 DEF ConnectGenerate, Move, At
  <2>2. sessions' \subseteq sessions \cup {GeneratedId(s)}
    BY <1>1 DEF ConnectGenerate, GenerateSession, GeneratedId, VerifySession, stateVars
  <2>3. Connected' = Connected
    BY <2>1 DEF connVars, Connected
  <2>4. OpenIsConnected'
    <3> SUFFICES ASSUME NEW i \in sessions', i \notin Connected
                 PROVE  \E v \in Workers : pc'[v] = "register" /\ newSession'[v] = i
      BY <2>3 DEF OpenIsConnected
    <3>1. CASE i = GeneratedId(s)
      BY <1>t, <2>1, <3>1
    <3>2. CASE i # GeneratedId(s)
      <4>1. PICK v \in Workers : pc[v] = "register" /\ newSession[v] = i
        BY <2>2, <3>2 DEF ConnInv, OpenIsConnected
      <4> QED
        BY <1>t, <2>1, <4>1
    <3> QED
      BY <3>1, <3>2
  <2>5. \A v \in Workers : Connecting(v)' => req'[v].client \in Clients
    BY <1>t, <2>1 DEF ConnInv, Connecting, NoRequest
  <2>6. \A v \in Workers : pc'[v] = "reply" => newSession'[v] \in Connected'
    BY <1>t, <2>1, <2>3 DEF ConnInv
  <2> QED
    BY <2>1, <2>3, <2>4, <2>5, <2>6 DEF ConnInv, connVars
<1>2. ASSUME NEW w \in Workers, ConnectRegister(w) PROVE ConnInv'
  <2>1. /\ pc' = [pc EXCEPT ![w] = "reply"] /\ pc[w] = "register"
        /\ activeConnections' = [activeConnections EXCEPT ![newSession[w]] = req[w].client]
        /\ UNCHANGED <<req, newSession, sessions, told>>
    BY <1>2 DEF ConnectRegister, Move, At, requestVars, stateVars
  <2>2. newSession[w] \in Ids /\ req[w].client \in Clients
    BY <1>t, <2>1 DEF ConnInv, Connecting
  <2>3. Connected' = Connected \cup {newSession[w]}
    BY <1>t, <2>1, <2>2 DEF Connected
  <2>4. OpenIsConnected'
    BY <1>t, <2>1, <2>3 DEF ConnInv, OpenIsConnected
  <2>5. \A v \in Workers : Connecting(v)' => req'[v].client \in Clients
    BY <1>t, <2>1 DEF ConnInv, Connecting
  <2>6. \A v \in Workers : pc'[v] = "reply" => newSession'[v] \in Connected'
    BY <1>t, <2>1, <2>3 DEF ConnInv
  <2> QED
    BY <2>1, <2>3, <2>4, <2>5, <2>6 DEF ConnInv
<1>3. ASSUME NEW w \in Workers, ConnectReply(w) PROVE ConnInv'
  <2>1. /\ pc' = [pc EXCEPT ![w] = "idle"] /\ pc[w] = "reply"
        /\ told' = [told EXCEPT ![req[w].client] = @ \cup {newSession[w]}]
        /\ req' = [req EXCEPT ![w] = NoRequest]
        /\ newSession' = [newSession EXCEPT ![w] = NoSession]
        /\ UNCHANGED <<sessions, activeConnections>>
    BY <1>3 DEF ConnectReply, Move, At, stateVars
  <2>2. Connected' = Connected
    BY <2>1 DEF Connected
  <2>3. \A v \in Workers : pc[v] = "register" => pc'[v] = "register" /\ newSession'[v] = newSession[v]
    BY <1>t, <2>1
  <2>4. OpenIsConnected'
    BY <2>1, <2>2, <2>3 DEF ConnInv, OpenIsConnected
  <2>5. \A v \in Workers : Connecting(v)' => req'[v].client \in Clients
    BY <1>t, <2>1 DEF ConnInv, Connecting
  <2>6. \A v \in Workers : pc'[v] = "reply" => newSession'[v] \in Connected'
    BY <1>t, <2>1, <2>2 DEF ConnInv
  <2>7. \A c \in Clients : told'[c] \subseteq Connected'
    BY <1>t, <2>1, <2>2 DEF ConnInv
  <2> QED
    BY <2>4, <2>5, <2>6, <2>7 DEF ConnInv
<1>4. CASE ~ConnectStep
  <2>1. /\ UNCHANGED <<activeConnections, told, newSession>> /\ sessions' \subseteq sessions
        /\ \A w \in Workers :
             /\ pc'[w] = "register" <=> pc[w] = "register"
             /\ pc'[w] = "reply" <=> pc[w] = "reply"
             /\ Connecting(w) => req'[w] = req[w]
    BY <1>4, OtherSteps
  <2>2. Connected' = Connected
    BY <2>1 DEF Connected
  <2>3. OpenIsConnected'
    BY <2>1, <2>2 DEF ConnInv, OpenIsConnected
  <2>4. \A w \in Workers : Connecting(w)' => req'[w].client \in Clients
    BY <2>1 DEF ConnInv, Connecting
  <2> QED
    BY <2>1, <2>2, <2>3, <2>4 DEF ConnInv
<1> QED
  BY <1>1, <1>2, <1>3, <1>4 DEF ConnectStep

\* Nothing holds both mutexes while a session is opened, and still no open
\* session is without a connection unless its worker is about to store one.
THEOREM TablesAgree == Spec => []OpenIsConnected
<1>1. ConnInv => OpenIsConnected
  BY DEF ConnInv
<1> QED
  BY <1>1, TypeInit, TypeStep, ConnInit, ConnStep, PTL DEF Spec

-----------------------------------------------------------------------------
(* Broadcasts.                                                             *)

\* A broadcast holds activeConnectionsMutex, and what it has ahead, has visited
\* or skips is the whole map.
BroadcastInv ==
  \A t \in Threads : pc[t] = "broadcasting" =>
    /\ connMutex = t
    /\ Connected \subseteq Ahead(t) \cup reached[t] \cup {req[t].session}

BroadcastStep ==
  \/ \E t \in Threads : BroadcastLock(t) \/ BroadcastNext(t) \/ BroadcastEnd(t)
  \/ \E w \in Workers : ConnectRegister(w)

\* No other step touches the map, its mutex or a broadcast under way.
LEMMA QuietSteps ==
  ASSUME TypeInv, [Next]_vars, ~BroadcastStep
  PROVE  /\ UNCHANGED <<connMutex, activeConnections>>
         /\ \A t \in Threads : pc'[t] = "broadcasting" =>
              /\ pc[t] = "broadcasting"
              /\ visited'[t] = visited[t] /\ reached'[t] = reached[t] /\ req'[t] = req[t]
<1> DEFINE Quiet ==
      /\ UNCHANGED <<connMutex, activeConnections>>
      /\ \A t \in Threads : pc'[t] = "broadcasting" =>
           /\ pc[t] = "broadcasting"
           /\ visited'[t] = visited[t] /\ reached'[t] = reached[t] /\ req'[t] = req[t]
<1> SUFFICES Quiet
  OBVIOUS
<1>q. /\ pc \in [Threads -> WorkerPC \cup AdminPC] /\ req \in [Threads -> Requests]
      /\ reached \in [Threads -> SUBSET Ids]
      /\ Workers \subseteq Threads /\ Admin \in Threads
  BY DEF TypeInv, TypeOK, Threads
<1>1. ASSUME NEW w \in Workers, NEW c \in Clients, NEW s \in Carried(c), Start(w, c, s)
      PROVE  Quiet
  <2>1. ASSUME Handled(w) PROVE Quiet
    BY <2>1 DEF Handled, requestVars, connVars
  <2>2. CASE ConnectGenerate(w, c, s)
    BY <1>q, <2>2 DEF ConnectGenerate, Move, connVars
  <2>3. ASSUME NEW m \in Commands, CommandAccept(w, s, m) PROVE Quiet
    BY <1>q, <2>3 DEF CommandAccept, Move, connVars
  <2> QED
    BY <1>1, <2>1, <2>2, <2>3 DEF Start, NoEffectPacket, RefuseSession, DisconnectHandler,
       ListUsersHandler, SelectUserHandler
<1>2. ASSUME NEW t \in Threads, CommandStep(t) PROVE Quiet
  <2>1. CASE CommandPrint(t)
    BY <1>q, <2>1 DEF CommandPrint, Move, requestVars, connVars
  <2>2. CASE SendMessageToConnection(t)
    BY <1>q, <2>2 DEF SendMessageToConnection, Move, connVars
  <2>3. CASE CommandUndefined(t)
    BY <2>3 DEF CommandUndefined, requestVars, connVars
  <2> QED
    BY <1>2, <2>1, <2>2, <2>3 DEF CommandStep, BroadcastStep
<1>3. ASSUME NEW w \in Workers, ConnectReply(w) \/ CommandReply(w) PROVE Quiet
  BY <1>q, <1>3 DEF ConnectReply, CommandReply, Move, connVars
<1>4. ASSUME NEW m \in Commands, AdminType(m) PROVE Quiet
  BY <1>q, <1>4 DEF AdminType, Move, connVars
<1>5. CASE AdminPrompt
  BY <1>q, <1>5 DEF AdminPrompt, Move, connVars
<1>6. CASE UNCHANGED vars
  BY <1>6 DEF vars, requestVars, connVars
<1> QED
  BY <1>q, <1>1, <1>2, <1>3, <1>4, <1>5, <1>6
     DEF Next, Continue, AdminStep, BroadcastStep

LEMMA BroadcastInit == Init => BroadcastInv
  BY DEF Init, BroadcastInv

LEMMA BroadcastKept == TypeInv /\ BroadcastInv /\ [Next]_vars => BroadcastInv'
<1> SUFFICES ASSUME TypeInv, BroadcastInv, [Next]_vars,
                    NEW t \in Threads, pc'[t] = "broadcasting"
             PROVE  /\ connMutex' = t
                    /\ Connected' \subseteq Ahead(t)' \cup reached'[t] \cup {req'[t].session}
  BY DEF BroadcastInv
<1>q. /\ pc \in [Threads -> WorkerPC \cup AdminPC]
      /\ visited \in [Threads -> {NoSession} \cup Ids] /\ reached \in [Threads -> SUBSET Ids]
      /\ Workers \subseteq Threads /\ Nobody \notin Threads
      /\ NoSession \in Nat /\ Ids \subseteq Nat /\ \A s \in Ids : s > NoSession
  BY ServerAssumption, SessionsAssumption DEF TypeInv, TypeOK, Threads, NoSession, Ids
<1>1. ASSUME NEW u \in Threads, BroadcastLock(u)
      PROVE  /\ connMutex' = t
             /\ Connected' \subseteq Ahead(t)' \cup reached'[t] \cup {req'[t].session}
  <2>1. t = u
    BY <1>q, <1>1 DEF BroadcastLock, Move, BroadcastInv
  <2>2. connMutex' = u /\ visited'[u] = NoSession /\ Connected' = Connected
    BY <1>q, <1>1 DEF BroadcastLock, connVars, Connected
  <2>3. Ahead(u)' = Connected
    BY <1>q, <2>2 DEF Ahead, Connected
  <2> QED
    BY <2>1, <2>2, <2>3
<1>2. ASSUME NEW u \in Threads, BroadcastNext(u)
      PROVE  /\ connMutex' = t
             /\ Connected' \subseteq Ahead(t)' \cup reached'[t] \cup {req'[t].session}
  <2>1. PICK s \in Ahead(u) :
          /\ \A i \in Ahead(u) : s <= i
          /\ visited' = [visited EXCEPT ![u] = s]
          /\ reached' = [reached EXCEPT ![u] = @ \cup ({s} \ {req[u].session})]
    BY <1>2 DEF BroadcastNext
  <2>2. /\ UNCHANGED <<connMutex, pc, req>> /\ Connected' = Connected
    BY <1>2 DEF BroadcastNext, connVars, Connected
  <2>3. /\ connMutex = t
        /\ Connected \subseteq Ahead(t) \cup reached[t] \cup {req[t].session}
    BY <2>2 DEF BroadcastInv
  <2>4. Ahead(t) \cup reached[t] \cup {req[t].session}
          \subseteq Ahead(t)' \cup reached'[t] \cup {req[t].session}
    <3>1. CASE t = u
      <4>1. visited'[t] = s /\ reached'[t] = reached[t] \cup ({s} \ {req[t].session})
        BY <1>q, <2>1, <3>1
      <4>2. ASSUME NEW i \in Ahead(t), i # s PROVE i \in Ahead(t)'
        <5>1. i \in Connected /\ i \in Nat /\ s \in Nat /\ s <= i
          BY <1>q, <2>1, <3>1, <4>2 DEF Ahead, Connected
        <5>2. i > s
          BY <4>2, <5>1
        <5> QED
          BY <2>2, <4>1, <5>1, <5>2 DEF Ahead
      <4> QED
        BY <4>1, <4>2
    <3>2. CASE t # u
      BY <1>q, <2>1, <2>2, <3>2 DEF Ahead
    <3> QED
      BY <3>1, <3>2
  <2> QED
    BY <2>2, <2>3, <2>4
<1>3. ASSUME NEW u \in Threads, BroadcastEnd(u) PROVE FALSE
  <2>1. connMutex = u /\ t # u /\ pc[t] = "broadcasting"
    BY <1>q, <1>3 DEF BroadcastEnd, Move, At, BroadcastInv
  <2> QED
    BY <2>1 DEF BroadcastInv
<1>4. ASSUME NEW w \in Workers, ConnectRegister(w) PROVE FALSE
  <2>1. connMutex = Nobody /\ pc[t] = "broadcasting"
    BY <1>q, <1>4 DEF ConnectRegister, Move
  <2> QED
    BY <1>q, <2>1 DEF BroadcastInv
<1>5. CASE ~BroadcastStep
  <2>1. /\ UNCHANGED <<connMutex, activeConnections>> /\ pc[t] = "broadcasting"
        /\ visited'[t] = visited[t] /\ reached'[t] = reached[t] /\ req'[t] = req[t]
    BY <1>5, QuietSteps
  <2>2. Connected' = Connected /\ Ahead(t)' = Ahead(t)
    BY <2>1 DEF Connected, Ahead
  <2> QED
    BY <2>1, <2>2 DEF BroadcastInv
<1> QED
  BY <1>1, <1>2, <1>3, <1>4, <1>5 DEF BroadcastStep

\* A broadcast reaches every open session that another client than its
\* originator had been told of when it ends.
THEOREM BroadcastsReach == Spec => []BroadcastReachesTold
<1>1. ConnInv /\ BroadcastInv => BroadcastReachesTold
  BY DEF ConnInv, BroadcastInv, BroadcastReachesTold
<1> QED
  BY <1>1, TypeInit, TypeStep, ConnInit, ConnStep, BroadcastInit, BroadcastKept, PTL DEF Spec

-----------------------------------------------------------------------------
(* Who a session's messages go to, when clients use the ids they were told. *)

\* The address of an id that was told stays, even when the session is closed.
AddressesStay == \A c \in Clients : \A s \in told[c] : activeConnections[s] = c

\* One id, one address: the ids told, the ids in the workers' hands and the
\* map agree.  An id that is not issued yet is in nobody's hands.
HonestInv ==
  /\ AddressesStay
  /\ \A c \in Clients : \A s \in told[c] : s < curSession
  /\ \A w \in Workers : pc[w] = "reply" =>
       activeConnections[newSession[w]] = req[w].client
  /\ \A w \in Workers, c \in Clients :
       (Connecting(w) /\ newSession[w] \in told[c]) => c = req[w].client
  /\ \A v, w \in Workers :
       (Connecting(v) /\ Connecting(w) /\ newSession[v] = newSession[w])
         => req[v].client = req[w].client

LEMMA HonestInit == Init => HonestInv
  BY ServerAssumption DEF Init, HonestInv, AddressesStay, Connecting, Threads

LEMMA HonestStep ==
  ASSUME StrayIds = FALSE
  PROVE  TypeInv /\ TableInv /\ ConnInv /\ HonestInv /\ [Next]_vars => HonestInv'
<1> SUFFICES ASSUME TypeInv, TableInv, ConnInv, HonestInv, [Next]_vars PROVE HonestInv'
  OBVIOUS
<1>t. /\ pc \in [Threads -> WorkerPC \cup AdminPC]
      /\ req \in [Threads -> Requests]
      /\ newSession \in [Workers -> {NoSession} \cup Ids]
      /\ activeConnections \in [Ids -> Clients \cup {Nobody}]
      /\ told \in [Clients -> SUBSET Ids]
      /\ Workers \subseteq Threads /\ Ids \subseteq Nat /\ curSession \in Nat
      /\ NoSession \notin sessions
      /\ \A w \in Workers : Connecting(w) =>
           newSession[w] \in Ids /\ newSession[w] < curSession /\ req[w].client \in Clients
  BY SessionsAssumption DEF TypeInv, TypeOK, StateTypeOK, Threads, TableInv, ConnInv, Ids,
     NoSession
<1>1. ASSUME NEW w \in Workers, NEW c \in Clients, NEW s \in Carried(c),
             ConnectGenerate(w, c, s)
      PROVE  HonestInv'
  <2>1. /\ pc' = [pc EXCEPT ![w] = "register"] /\ pc[w] = "idle"
        /\ newSession' = [newSession EXCEPT ![w] = GeneratedId(s)]
        /\ req' = [req EXCEPT ![w] = [NoRequest EXCEPT !.client = c]]
        /\ UNCHANGED <<activeConnections, told>>
    BY <1>1 DEF ConnectGenerate, Move, At, connVars
  <2>2. req'[w].client = c
    BY <1>t, <2>1 DEF NoRequest
  <2>3. \A v \in Workers : (v # w /\ Connecting(v)') =>
          Connecting(v) /\ newSession'[v] = newSession[v] /\ req'[v] = req[v]
    BY <1>t, <2>1 DEF Connecting
  <2>4. newSession'[w] = GeneratedId(s)
    BY <1>t, <2>1
  <2>5. /\ curSession' \in Nat /\ curSession <= curSession'
        /\ \A d \in Clients : GeneratedId(s) \in told[d] => d = c
        /\ \A v \in Workers : (Connecting(v) /\ newSession[v] = GeneratedId(s))
             => req[v].client = c
    <3>1. CASE VerifySession(s)
      <4>1. curSession' = curSession /\ GeneratedId(s) = s /\ s \in told[c]
        BY <1>1, <1>t, <3>1 DEF ConnectGenerate, GenerateSession, GeneratedId,
           VerifySession, stateVars, Carried
      <4> QED
        BY <1>t, <4>1 DEF HonestInv, AddressesStay
    <3>2. CASE ~VerifySession(s)
      <4>1. curSession' = curSession + 1 /\ GeneratedId(s) = curSession
        BY <1>1, <3>2 DEF ConnectGenerate, GenerateSession, GeneratedId
      <4> QED
        BY <1>t, <4>1 DEF HonestInv
    <3> QED
      BY <3>1, <3>2
  <2>6. AddressesStay' /\ \A d \in Clients : \A i \in told'[d] : i < curSession'
    BY <1>t, <2>1, <2>5 DEF HonestInv, AddressesStay
  <2>7. \A v \in Workers : pc'[v] = "reply" => activeConnections'[newSession'[v]] = req'[v].client
    BY <1>t, <2>1, <2>3 DEF HonestInv, Connecting
  <2>8. \A v \in Workers, d \in Clients :
          (Connecting(v)' /\ newSession'[v] \in told'[d]) => d = req'[v].client
    BY <1>t, <2>1, <2>2, <2>3, <2>4, <2>5 DEF HonestInv
  <2>9. \A v, u \in Workers : (Connecting(v)' /\ Connecting(u)' /\ newSession'[v] = newSession'[u])
          => req'[v].client = req'[u].client
    BY <2>2, <2>3, <2>4, <2>5 DEF HonestInv
  <2> QED
    BY <2>6, <2>7, <2>8, <2>9 DEF HonestInv
<1>2. ASSUME NEW w \in Workers, ConnectRegister(w) PROVE HonestInv'
  <2>1. /\ pc' = [pc EXCEPT ![w] = "reply"] /\ pc[w] = "register"
        /\ activeConnections' = [activeConnections EXCEPT ![newSession[w]] = req[w].client]
        /\ UNCHANGED <<req, newSession, curSession, told>>
    BY <1>2 DEF ConnectRegister, Move, At, requestVars, stateVars
  <2>2. \A v \in Workers : Connecting(v)' <=> Connecting(v)
    BY <1>t, <2>1 DEF Connecting
  <2>3. Connecting(w)
    BY <2>1 DEF Connecting
  <2>4. AddressesStay'
    BY <1>t, <2>1, <2>3 DEF HonestInv, AddressesStay
  <2>5. \A v \in Workers : pc'[v] = "reply" => activeConnections'[newSession'[v]] = req'[v].client
    <3> SUFFICES ASSUME NEW v \in Workers, pc'[v] = "reply"
                 PROVE  activeConnections'[newSession[v]] = req[v].client
      BY <2>1
    <3>1. Connecting(v) /\ newSession[v] \in Ids
      BY <1>t, <2>2 DEF Connecting
    <3>2. CASE newSession[v] = newSession[w]
      BY <1>t, <2>1, <2>3, <3>1, <3>2 DEF HonestInv
    <3>3. CASE newSession[v] # newSession[w]
      BY <1>t, <2>1, <3>1, <3>3 DEF HonestInv
    <3> QED
      BY <3>2, <3>3
  <2> QED
    BY <2>1, <2>2, <2>4, <2>5 DEF HonestInv
<1>3. ASSUME NEW w \in Workers, ConnectReply(w) PROVE HonestInv'
  <2>1. /\ pc' = [pc EXCEPT ![w] = "idle"] /\ pc[w] = "reply"
        /\ told' = [told EXCEPT ![req[w].client] = @ \cup {newSession[w]}]
        /\ req' = [req EXCEPT ![w] = NoRequest]
        /\ newSession' = [newSession EXCEPT ![w] = NoSession]
        /\ UNCHANGED <<curSession, activeConnections>>
    BY <1>3 DEF ConnectReply, Move, At, stateVars
  <2>2. Connecting(w) /\ req[w].client \in Clients
    BY <1>t, <2>1 DEF Connecting
  <2>3. \A v \in Workers : Connecting(v)' =>
          v # w /\ Connecting(v) /\ newSession'[v] = newSession[v] /\ req'[v] = req[v]
    BY <1>t, <2>1 DEF Connecting
  <2>4. \A d \in Clients, i \in Ids :
          i \in told'[d] <=> i \in told[d] \/ (i = newSession[w] /\ d = req[w].client)
    BY <1>t, <2>1, <2>2
  <2>5. \A d \in Clients : told'[d] \subseteq Ids
    BY <1>t, <2>1, <2>2
  <2>6. AddressesStay' /\ \A d \in Clients : \A i \in told'[d] : i < curSession'
    BY <1>t, <2>1, <2>2, <2>4, <2>5 DEF HonestInv, AddressesStay
  <2>7. \A v \in Workers : pc'[v] = "reply" => activeConnections'[newSession'[v]] = req'[v].client
    BY <1>t, <2>1, <2>3 DEF HonestInv
  <2>8. \A v \in Workers, d \in Clients :
          (Connecting(v)' /\ newSession'[v] \in told'[d]) => d = req'[v].client
    <3> SUFFICES ASSUME NEW v \in Workers, NEW d \in Clients,
                        Connecting(v)', newSession'[v] \in told'[d]
                 PROVE  d = req'[v].client
      OBVIOUS
    <3>1. /\ Connecting(v) /\ newSession'[v] = newSession[v] /\ req'[v] = req[v]
          /\ newSession[v] \in Ids
      BY <1>t, <2>3
    <3>2. newSession[v] \in told[d] \/ (newSession[v] = newSession[w] /\ d = req[w].client)
      BY <2>4, <3>1
    <3> QED
      BY <2>2, <3>1, <3>2 DEF HonestInv
  <2> QED
    BY <2>3, <2>6, <2>7, <2>8 DEF HonestInv
<1>4. CASE ~ConnectStep
  <2>1. /\ UNCHANGED <<activeConnections, told, newSession, curSession>>
        /\ \A w \in Workers :
             /\ pc'[w] = "register" <=> pc[w] = "register"
             /\ pc'[w] = "reply" <=> pc[w] = "reply"
             /\ Connecting(w) => req'[w] = req[w]
    BY <1>4, OtherSteps
  <2> QED
    BY <2>1 DEF HonestInv, AddressesStay, Connecting
<1> QED
  BY <1>1, <1>2, <1>3, <1>4 DEF ConnectStep

\* While clients use the ids they were told, the messages for an open session go
\* to the client that was told of it, and those for a closed one to nobody else.
THEOREM MessagesReachTheirClient ==
  ASSUME StrayIds = FALSE
  PROVE  Spec => []ToldReachesClient
<1>1. HonestInv => ToldReachesClient
  BY DEF HonestInv, AddressesStay, ToldReachesClient
<1>2. TypeInv /\ TableInv /\ ConnInv /\ HonestInv /\ [Next]_vars => HonestInv'
  BY HonestStep
<1> QED
  BY <1>1, <1>2, TypeInit, TypeStep, TableInit, TableStep, ConnInit, ConnStep, HonestInit,
     PTL DEF Spec

-----------------------------------------------------------------------------
(* Ids that were told to nobody yet.                                       *)

\* The steps that change the session table.
TableStepOf(w, c, s) ==
  ConnectGenerate(w, c, s) \/ DisconnectHandler(w, s) \/ SelectUserHandler(w, s)

LEMMA TableUnchanged ==
  ASSUME TypeInv, [Next]_vars,
         ~\E w \in Workers, c \in Clients : \E s \in Carried(c) : TableStepOf(w, c, s)
  PROVE  UNCHANGED <<curSession, sessions, activeSessions>>
<1>1. ASSUME NEW w \in Workers, NEW c \in Clients, NEW s \in Carried(c), Start(w, c, s)
      PROVE  UNCHANGED <<curSession, sessions, activeSessions>>
  BY <1>1 DEF Start, NoEffectPacket, RefuseSession, ListUsersHandler, GetSessionAccountName,
     CommandAccept, TableStepOf, stateVars
<1>2. ASSUME NEW t \in Threads, CommandStep(t)
      PROVE  UNCHANGED <<curSession, sessions, activeSessions>>
  BY <1>2 DEF CommandStep, CommandPrint, SendMessageToConnection, BroadcastLock,
     BroadcastNext, BroadcastEnd, CommandUndefined, stateVars
<1>3. ASSUME NEW w \in Workers, Continue(w)
      PROVE  UNCHANGED <<curSession, sessions, activeSessions>>
  BY <1>2, <1>3 DEF Continue, ConnectRegister, ConnectReply, CommandReply, stateVars, Threads
<1>4. ASSUME NEW m \in Commands, AdminType(m)
      PROVE  UNCHANGED <<curSession, sessions, activeSessions>>
  BY <1>4 DEF AdminType, stateVars
<1>5. CASE AdminStep
  BY <1>2, <1>5 DEF AdminStep, AdminPrompt, stateVars, Threads
<1>6. CASE UNCHANGED vars
  BY <1>6 DEF vars, stateVars
<1> QED
  BY <1>1, <1>3, <1>4, <1>5, <1>6 DEF Next

LEMMA NewIdsStep ==
  ASSUME StrayIds = FALSE
  PROVE  TypeInv /\ TableInv /\ NewIdsAreOpen /\ [Next]_vars => NewIdsAreOpen'
<1> SUFFICES ASSUME TypeInv, TableInv, NewIdsAreOpen, [Next]_vars PROVE NewIdsAreOpen'
  OBVIOUS
<1>t. /\ pc \in [Threads -> WorkerPC \cup AdminPC]
      /\ newSession \in [Workers -> {NoSession} \cup Ids]
      /\ told \in [Clients -> SUBSET Ids]
      /\ Workers \subseteq Threads
      /\ NoSession \notin sessions
  BY SessionsAssumption DEF TypeInv, TypeOK, StateTypeOK, Threads, Ids, NoSession
<1>1. ASSUME NEW w \in Workers, NEW c \in Clients, NEW s \in Carried(c),
             ConnectGenerate(w, c, s)
      PROVE  NewIdsAreOpen'
  <2>1. /\ pc' = [pc EXCEPT ![w] = "register"]
        /\ newSession' = [newSession EXCEPT ![w] = GeneratedId(s)]
        /\ told' = told
    BY <1>1 DEF ConnectGenerate, Move, connVars
  <2>2. sessions \subseteq sessions' /\ GeneratedId(s) \in sessions'
    BY <1>1 DEF ConnectGenerate, GenerateSession, GeneratedId, VerifySession, stateVars
  <2> QED
    BY <1>t, <2>1, <2>2 DEF NewIdsAreOpen
<1>2. ASSUME NEW w \in Workers, ConnectRegister(w) PROVE NewIdsAreOpen'
  <2>1. /\ pc' = [pc EXCEPT ![w] = "reply"] /\ pc[w] = "register"
        /\ UNCHANGED <<newSession, told, sessions>>
    BY <1>2 DEF ConnectRegister, Move, At, requestVars, stateVars
  <2> QED
    BY <1>t, <2>1 DEF NewIdsAreOpen
<1>3. ASSUME NEW w \in Workers, ConnectReply(w) PROVE NewIdsAreOpen'
  <2>1. /\ pc' = [pc EXCEPT ![w] = "idle"]
        /\ newSession' = [newSession EXCEPT ![w] = NoSession]
        /\ \A c \in Clients : told[c] \subseteq told'[c]
        /\ sessions' = sessions
    BY <1>3, <1>t DEF ConnectReply, Move, stateVars
  <2> QED
    BY <1>t, <2>1 DEF NewIdsAreOpen
<1>4. CASE ~ConnectStep
  <2>1. /\ UNCHANGED <<told, newSession>>
        /\ \A w \in Workers : /\ pc'[w] = "register" <=> pc[w] = "register"
                              /\ pc'[w] = "reply" <=> pc[w] = "reply"
    BY <1>4, OtherSteps
  <2>2. \A i \in sessions : (\A c \in Clients : i \notin told[c]) => i \in sessions'
    <3>1. ASSUME NEW w \in Workers, NEW c \in Clients, NEW s \in Carried(c),
                 DisconnectHandler(w, s)
          PROVE  sessions' = sessions \ {s} /\ s \in told[c]
      BY <1>t, <3>1 DEF DisconnectHandler, DisconnectSession, VerifySession, Carried
    <3>2. ASSUME NEW w \in Workers, NEW s, SelectUserHandler(w, s)
          PROVE  sessions' = sessions
      BY <3>2 DEF SelectUserHandler, SelectPlayer
    <3>3. CASE ~\E w \in Workers, c \in Clients : \E s \in Carried(c) : TableStepOf(w, c, s)
      BY <3>3, TableUnchanged
    <3> QED
      BY <1>4, <3>1, <3>2, <3>3 DEF TableStepOf, ConnectStep
  <2> QED
    BY <2>1, <2>2 DEF NewIdsAreOpen
<1> QED
  BY <1>1, <1>2, <1>3, <1>4 DEF ConnectStep

\* While clients use the ids they were told, a reply that tells an id for the
\* first time tells one that is open.
THEOREM NewIdsOpen ==
  ASSUME StrayIds = FALSE
  PROVE  Spec => []NewIdsAreOpen
<1>1. Init => NewIdsAreOpen
  BY ServerAssumption DEF Init, NewIdsAreOpen, Threads
<1>2. TypeInv /\ TableInv /\ NewIdsAreOpen /\ [Next]_vars => NewIdsAreOpen'
  BY NewIdsStep
<1> QED
  BY <1>1, <1>2, TypeInit, TypeStep, TableInit, TableStep, PTL DEF Spec

-----------------------------------------------------------------------------
(* The server implements the life of a session.                            *)

LEMMA LifecycleInit == Init => Lifecycle!Init
  BY SessionsAssumption DEF Init, StateInit, SessionStatus, Lifecycle!Init, Lifecycle!Ids, Ids

\* Every step changes the status of one id as the abstract module allows, or
\* of none.
LEMMA LifecycleStep == TypeInv /\ TableInv /\ [Next]_vars => [Lifecycle!Next]_SessionStatus
<1> SUFFICES ASSUME TypeInv, TableInv, [Next]_vars
             PROVE  Lifecycle!Next \/ UNCHANGED SessionStatus
  OBVIOUS
<1>t. /\ sessions \subseteq Ids /\ Ids \subseteq Nat /\ curSession \in Nat
      /\ activeSessions \subseteq sessions
      /\ \A i \in sessions : i < curSession
  BY SessionsAssumption DEF TypeInv, TypeOK, StateTypeOK, TableInv, SelectedAreOpen, Ids
<1>1. ASSUME NEW w \in Workers, NEW c \in Clients, NEW s \in Carried(c),
             ConnectGenerate(w, c, s)
      PROVE  Lifecycle!Next \/ UNCHANGED SessionStatus
  <2>1. CASE VerifySession(s)
    BY <1>1, <2>1 DEF ConnectGenerate, GenerateSession, stateVars, SessionStatus
  <2>2. CASE ~VerifySession(s)
    <3>1. /\ curSession <= MaxSessions /\ curSession' = curSession + 1
          /\ sessions' = sessions \cup {curSession} /\ activeSessions' = activeSessions
      BY <1>1, <2>2 DEF ConnectGenerate, GenerateSession
    <3>2. curSession \in Ids
      BY <3>1, SessionsAssumption DEF TypeInv, TypeOK, StateTypeOK, Ids
    <3>3. /\ SessionStatus[curSession] = "unissued"
          /\ \A i \in Ids : i < curSession => SessionStatus[i] # "unissued"
      BY <1>t, <3>2 DEF SessionStatus
    <3>4. \A i \in Ids : SessionStatus'[i] = IF i = curSession THEN "open" ELSE SessionStatus[i]
      <4> SUFFICES ASSUME NEW i \in Ids
                   PROVE  SessionStatus'[i] = IF i = curSession THEN "open" ELSE SessionStatus[i]
        OBVIOUS
      <4>1. i < curSession' <=> i < curSession \/ i = curSession
        BY <1>t, <3>1
      <4>2. curSession \notin sessions /\ curSession \notin activeSessions
        BY <1>t
      <4> QED
        BY <3>1, <4>1, <4>2 DEF SessionStatus
    <3>5. SessionStatus' = [SessionStatus EXCEPT ![curSession] = "open"]
      <4>1. SessionStatus \in [Ids -> {"unissued", "open", "selected", "closed"}]
        BY DEF SessionStatus
      <4>2. SessionStatus' = [i \in Ids |-> SessionStatus'[i]]
        BY DEF SessionStatus
      <4> QED
        BY <3>4, <4>1, <4>2
    <3> QED
      BY <3>2, <3>3, <3>5 DEF Lifecycle!Next, Lifecycle!Open, Lifecycle!Become, Lifecycle!Ids, Ids
  <2> QED
    BY <2>1, <2>2
<1>2. ASSUME NEW w \in Workers, NEW s, DisconnectHandler(w, s) PROVE Lifecycle!Next
  <2>1. /\ s \in sessions /\ sessions' = sessions \ {s}
        /\ activeSessions' = activeSessions \ {s} /\ curSession' = curSession
    BY <1>2 DEF DisconnectHandler, DisconnectSession, VerifySession
  <2>2. s \in Ids /\ s < curSession /\ SessionStatus[s] \in {"open", "selected"}
    BY <1>t, <2>1 DEF SessionStatus
  <2>3. SessionStatus' = [SessionStatus EXCEPT ![s] = "closed"]
    BY <1>t, <2>1, <2>2 DEF SessionStatus
  <2> QED
    BY <2>2, <2>3 DEF Lifecycle!Next, Lifecycle!Close, Lifecycle!Become, Lifecycle!Ids, Ids
<1>3. ASSUME NEW w \in Workers, NEW s, SelectUserHandler(w, s)
      PROVE  Lifecycle!Next \/ UNCHANGED SessionStatus
  <2>1. /\ s \in sessions /\ sessions' = sessions
        /\ activeSessions' = activeSessions \cup {s} /\ curSession' = curSession
    BY <1>3 DEF SelectUserHandler, SelectPlayer, VerifySession
  <2>2. CASE s \in activeSessions
    BY <2>1, <2>2 DEF SessionStatus
  <2>3. CASE s \notin activeSessions
    <3>1. s \in Ids /\ SessionStatus[s] = "open"
      BY <1>t, <2>1, <2>3 DEF SessionStatus
    <3>2. SessionStatus' = [SessionStatus EXCEPT ![s] = "selected"]
      BY <1>t, <2>1, <3>1 DEF SessionStatus
    <3> QED
      BY <3>1, <3>2 DEF Lifecycle!Next, Lifecycle!Select, Lifecycle!Become, Lifecycle!Ids, Ids
  <2> QED
    BY <2>2, <2>3
<1>4. CASE ~\E w \in Workers, c \in Clients : \E s \in Carried(c) : TableStepOf(w, c, s)
  BY <1>4, TableUnchanged DEF SessionStatus
<1> QED
  BY <1>1, <1>2, <1>3, <1>4 DEF TableStepOf

\* Ids are issued in order and a closed id stays closed, for any number of
\* workers and clients and whatever ids the packets carry.
THEOREM ServerImplementsLifecycle == Spec => ImplementsLifecycle
  BY TypeInit, TypeStep, TableInit, TableStep, LifecycleInit, LifecycleStep, PTL
     DEF Spec, ImplementsLifecycle, Lifecycle!Spec
-----------------------------------------------------------------------------
(* Requests come to an end: what the liveness property RequestsFinish rests*)
(* on besides fairness.                                                    *)

\* Who holds activeConnectionsMutex is in the loop of a broadcast, and who holds
\* serverStateMutex in a command.
HolderInv ==
  /\ connMutex # Nobody => pc[connMutex] = "broadcasting"
  /\ stateMutex # Nobody => pc[stateMutex] \in {"command", "broadcasting", "commandDone"}

LEMMA HolderInit == Init => HolderInv
  BY DEF Init, HolderInv

LEMMA HolderStep == TypeInv /\ HolderInv /\ [Next]_vars => HolderInv'
<1> SUFFICES ASSUME TypeInv, HolderInv, [Next]_vars PROVE HolderInv'
  OBVIOUS
<1>q. /\ pc \in [Threads -> WorkerPC \cup AdminPC]
      /\ connMutex \in Threads \cup {Nobody} /\ stateMutex \in Workers \cup {Nobody}
      /\ Workers \subseteq Threads /\ Admin \in Threads /\ Admin \notin Workers
      /\ Nobody \notin Threads
  BY ServerAssumption DEF TypeInv, TypeOK, Threads
<1>1. ASSUME NEW w \in Workers, NEW c \in Clients, NEW s \in Carried(c), Start(w, c, s)
      PROVE  HolderInv'
  <2>1. ASSUME Handled(w) PROVE HolderInv'
    BY <2>1 DEF Handled, HolderInv
  <2>2. CASE ConnectGenerate(w, c, s)
    BY <1>q, <2>2 DEF ConnectGenerate, Move, At, HolderInv
  <2>3. ASSUME NEW m \in Commands, CommandAccept(w, s, m) PROVE HolderInv'
    BY <1>q, <2>3 DEF CommandAccept, Move, At, HolderInv
  <2> QED
    BY <1>1, <2>1, <2>2, <2>3 DEF Start, NoEffectPacket, RefuseSession, DisconnectHandler,
       ListUsersHandler, SelectUserHandler
<1>2. ASSUME NEW t \in Threads, CommandStep(t) PROVE HolderInv'
  <2>1. CASE CommandPrint(t)
    BY <1>q, <2>1 DEF CommandPrint, Move, At, HolderInv
  <2>2. CASE SendMessageToConnection(t)
    BY <1>q, <2>2 DEF SendMessageToConnection, Move, At, HolderInv
  <2>3. CASE BroadcastLock(t)
    BY <1>q, <2>3 DEF BroadcastLock, Move, At, HolderInv
  <2>4. CASE BroadcastNext(t)
    BY <2>4 DEF BroadcastNext, HolderInv
  <2>5. CASE BroadcastEnd(t)
    BY <1>q, <2>5 DEF BroadcastEnd, Move, At, HolderInv
  <2>6. CASE CommandUndefined(t)
    BY <2>6 DEF CommandUndefined, HolderInv
  <2> QED
    BY <1>2, <2>1, <2>2, <2>3, <2>4, <2>5, <2>6 DEF CommandStep
<1>3. ASSUME NEW w \in Workers, ConnectRegister(w) \/ ConnectReply(w) PROVE HolderInv'
  BY <1>q, <1>3 DEF ConnectRegister, ConnectReply, Move, At, HolderInv
<1>4. ASSUME NEW w \in Workers, CommandReply(w) PROVE HolderInv'
  BY <1>q, <1>4 DEF CommandReply, Move, At, HolderInv
<1>5. ASSUME NEW m \in Commands, AdminType(m) PROVE HolderInv'
  BY <1>q, <1>5 DEF AdminType, Move, At, HolderInv
<1>6. CASE AdminPrompt
  BY <1>q, <1>6 DEF AdminPrompt, Move, At, HolderInv
<1>7. CASE UNCHANGED vars
  BY <1>7 DEF vars, HolderInv
<1> QED
  BY <1>1, <1>2, <1>3, <1>4, <1>5, <1>6, <1>7 DEF Next, Continue, AdminStep, Threads

\* However many workers, clients and ids there are, nobody waits in a circle for
\* the two mutexes.
THEOREM NobodyWaitsInACircle == Spec => []NoCircularWait
<1>1. HolderInv => NoCircularWait
  BY DEF HolderInv, NoCircularWait, CanGoOn, NeedsConnections, UnderWay
<1> QED
  BY <1>1, TypeInit, TypeStep, HolderInit, HolderStep, PTL DEF Spec

\* How a step may move a thread that is in the middle of a request.
Forward(t) ==
  \/ UNCHANGED <<pc[t], req[t], visited[t], reached[t]>>
  \/ pc[t] = "register" /\ pc'[t] = "reply"
  \/ pc[t] = "command" /\ pc'[t] \in {"broadcasting", "commandDone"}
  \/ /\ pc[t] = "broadcasting" /\ pc'[t] = "broadcasting"
     /\ \E s \in Ahead(t) : s = visited'[t] /\ \A i \in Ahead(t) : s <= i
  \/ pc[t] = "broadcasting" /\ pc'[t] = "commandDone"
  \/ pc[t] \in {"reply", "commandDone"} /\ pc'[t] \in {"idle", "prompt"}

LEMMA StepsGoForward ==
  ASSUME TypeInv, [Next]_vars, NEW t \in Threads, UnderWay(t)
  PROVE  Forward(t)
<1>q. /\ pc \in [Threads -> WorkerPC \cup AdminPC] /\ req \in [Threads -> Requests]
      /\ visited \in [Threads -> {NoSession} \cup Ids] /\ reached \in [Threads -> SUBSET Ids]
      /\ Workers \subseteq Threads /\ Admin \in Threads
  BY DEF TypeInv, TypeOK, Threads
<1> DEFINE Same == UNCHANGED <<pc[t], req[t], visited[t], reached[t]>>
<1>1. ASSUME NEW w \in Workers, NEW c \in Clients, NEW s \in Carried(c), Start(w, c, s)
      PROVE  Same
  <2>1. ASSUME Handled(w) PROVE Same
    BY <2>1 DEF Handled, requestVars
  <2>2. CASE ConnectGenerate(w, c, s)
    <3>1. t # w
      BY <2>2 DEF ConnectGenerate, Move, At, UnderWay
    <3> QED
      BY <1>q, <2>2, <3>1 DEF ConnectGenerate, Move
  <2>3. ASSUME NEW m \in Commands, CommandAccept(w, s, m) PROVE Same
    <3>1. t # w
      BY <2>3 DEF CommandAccept, Move, At, UnderWay
    <3> QED
      BY <1>q, <2>3, <3>1 DEF CommandAccept, Move
  <2> QED
    BY <1>1, <2>1, <2>2, <2>3 DEF Start, NoEffectPacket, RefuseSession, DisconnectHandler,
       ListUsersHandler, SelectUserHandler
<1>2. ASSUME NEW u \in Threads, CommandStep(u) PROVE Forward(t)
  <2>1. CASE CommandPrint(u)
    BY <1>q, <2>1 DEF CommandPrint, Move, At, requestVars, Forward
  <2>2. CASE SendMessageToConnection(u)
    BY <1>q, <2>2 DEF SendMessageToConnection, Move, At, Forward
  <2>3. CASE BroadcastLock(u)
    BY <1>q, <2>3 DEF BroadcastLock, Move, At, Forward
  <2>4. CASE BroadcastNext(u)
    <3>1. CASE t = u
      BY <1>q, <2>4, <3>1 DEF BroadcastNext, At, Forward
    <3>2. CASE t # u
      BY <1>q, <2>4, <3>2 DEF BroadcastNext, Forward
    <3> QED
      BY <3>1, <3>2
  <2>5. CASE BroadcastEnd(u)
    BY <1>q, <2>5 DEF BroadcastEnd, Move, At, requestVars, Forward
  <2>6. CASE CommandUndefined(u)
    BY <2>6 DEF CommandUndefined, requestVars, Forward
  <2> QED
    BY <1>2, <2>1, <2>2, <2>3, <2>4, <2>5, <2>6 DEF CommandStep
<1>3. ASSUME NEW w \in Workers, ConnectRegister(w) PROVE Forward(t)
  BY <1>q, <1>3 DEF ConnectRegister, Move, At, requestVars, Forward
<1>4. ASSUME NEW w \in Workers, ConnectReply(w) PROVE Forward(t)
  BY <1>q, <1>4 DEF ConnectReply, Move, At, Forward
<1>5. ASSUME NEW w \in Workers, CommandReply(w) PROVE Forward(t)
  BY <1>q, <1>5 DEF CommandReply, Move, At, Forward
<1>6. ASSUME NEW m \in Commands, AdminType(m) PROVE Same
  <2>1. t # Admin
    BY <1>6 DEF AdminType, Move, At, UnderWay
  <2> QED
    BY <1>q, <1>6, <2>1 DEF AdminType, Move
<1>7. CASE AdminPrompt
  BY <1>q, <1>7 DEF AdminPrompt, Move, At, Forward
<1>8. CASE UNCHANGED vars
  BY <1>8 DEF vars, requestVars, Forward
<1>9. Same => Forward(t)
  BY DEF Forward
<1> QED
  BY <1>1, <1>2, <1>3, <1>4, <1>5, <1>6, <1>7, <1>8, <1>9 DEF Next, Continue, AdminStep, Threads

\* Sets of ids have sizes up to MaxSessions, and lose one with a member.
LEMMA SizesOfIds ==
  ASSUME NEW S \in SUBSET Ids
  PROVE  /\ Cardinality(S) \in 0 .. MaxSessions
         /\ \A s \in S : Cardinality(S \ {s}) = Cardinality(S) - 1
<1>1. IsFiniteSet(Ids) /\ Cardinality(Ids) = MaxSessions
  BY SessionsAssumption, FS_Interval DEF Ids
<1>2. IsFiniteSet(S) /\ Cardinality(S) <= MaxSessions
  BY <1>1, FS_Subset
<1>3. Cardinality(S) \in Nat
  BY <1>2, FS_CardinalityType
<1>4. ASSUME NEW s \in S PROVE Cardinality(S \ {s}) = Cardinality(S) - 1
  BY <1>2, FS_RemoveElement
<1> QED
  BY <1>2, <1>3, <1>4, SessionsAssumption

\* While a broadcast is under way nobody inserts into the map it walks.
LEMMA MapStandsStill ==
  ASSUME TypeInv, BroadcastInv, [Next]_vars, NEW t \in Threads, pc[t] = "broadcasting"
  PROVE  Connected' = Connected
<1>1. connMutex = t /\ t # Nobody
  BY ServerAssumption DEF BroadcastInv
<1>2. ASSUME NEW w \in Workers, ConnectRegister(w) PROVE FALSE
  BY <1>1, <1>2 DEF ConnectRegister
<1>3. CASE BroadcastStep
  <2>1. ASSUME NEW u \in Threads, BroadcastLock(u) \/ BroadcastNext(u) \/ BroadcastEnd(u)
        PROVE  UNCHANGED activeConnections
    BY <2>1 DEF BroadcastLock, BroadcastNext, BroadcastEnd, connVars
  <2> QED
    BY <1>2, <1>3, <2>1 DEF BroadcastStep, Connected
<1>4. CASE ~BroadcastStep
  BY <1>4, QuietSteps DEF Connected
<1> QED
  BY <1>3, <1>4

\* What is ahead of a broadcast is lost one id at a time, and to itself alone.
LEMMA ForwardShortens ==
  ASSUME TypeInv, TypeInv', BroadcastInv, [Next]_vars,
         NEW t \in Threads, UnderWay(t), Forward(t)
  PROVE  \/ StepsLeft(t)' < StepsLeft(t)
         \/ UNCHANGED <<pc[t], req[t], reached[t], StepsLeft(t)>>
<1>q. /\ Ahead(t) \in SUBSET Ids /\ Ahead(t)' \in SUBSET Ids /\ MaxSessions \in Nat
      /\ Ids \subseteq Nat
  BY SessionsAssumption DEF Ahead, Connected, Ids
<1>n. /\ Cardinality(Ahead(t)) \in 0 .. MaxSessions
      /\ Cardinality(Ahead(t)') \in 0 .. MaxSessions
  BY <1>q, SizesOfIds
<1>1. CASE pc[t] = "register" /\ pc'[t] = "reply"
  BY <1>1 DEF StepsLeft
<1>2. CASE pc[t] = "command" /\ pc'[t] \in {"broadcasting", "commandDone"}
  BY <1>2, <1>q, <1>n DEF StepsLeft
<1>3. CASE /\ pc[t] = "broadcasting" /\ pc'[t] = "broadcasting"
           /\ \E s \in Ahead(t) : s = visited'[t] /\ \A i \in Ahead(t) : s <= i
  <2>1. PICK s \in Ahead(t) : s = visited'[t] /\ \A i \in Ahead(t) : s <= i
    BY <1>3
  <2>2. Connected' = Connected
    BY <1>3, MapStandsStill
  <2>3. visited[t] \in Nat /\ s \in Nat /\ s > visited[t]
    <3>1. visited[t] \in {NoSession} \cup Ids
      BY DEF TypeInv, TypeOK
    <3>2. s \in Nat
      BY <1>q, <2>1
    <3>3. s > visited[t]
      BY <2>1 DEF Ahead
    <3>4. visited[t] \in Nat
      BY <3>1, SessionsAssumption DEF NoSession, Ids
    <3> QED
      BY <3>2, <3>3, <3>4
  <2>4. Ahead(t)' = Ahead(t) \ {s}
    <3>1. Ahead(t)' = {i \in Connected : i > s}
      BY <2>1, <2>2 DEF Ahead
    <3>2. \A i \in Connected : i \in Nat
      BY <1>q DEF Connected
    <3>3. \A i \in Connected : i > s <=> i > visited[t] /\ i # s
      <4> SUFFICES ASSUME NEW i \in Connected PROVE i > s <=> i > visited[t] /\ i # s
        OBVIOUS
      <4>1. i \in Nat
        BY <3>2
      <4>2. i > visited[t] => s <= i
        BY <2>1 DEF Ahead
      <4> QED
        BY <2>3, <4>1, <4>2
    <3> QED
      BY <3>1, <3>3 DEF Ahead
  <2>5. Cardinality(Ahead(t)') = Cardinality(Ahead(t)) - 1
    BY <1>q, <2>1, <2>4, SizesOfIds
  <2> QED
    BY <1>3, <1>n, <2>5 DEF StepsLeft
<1>4. CASE pc[t] = "broadcasting" /\ pc'[t] = "commandDone"
  BY <1>4, <1>n DEF StepsLeft
<1>5. CASE pc[t] \in {"reply", "commandDone"} /\ pc'[t] \in {"idle", "prompt"}
  BY <1>5 DEF StepsLeft
<1>6. CASE UNCHANGED <<pc[t], req[t], visited[t], reached[t]>>
  <2>1. CASE pc[t] = "broadcasting"
    <3>1. Ahead(t)' = Ahead(t)
      BY <1>6, <2>1, MapStandsStill DEF Ahead
    <3> QED
      BY <1>6, <2>1, <3>1 DEF StepsLeft
  <2>2. CASE pc[t] # "broadcasting"
    BY <1>6, <2>2 DEF StepsLeft
  <2> QED
    BY <2>1, <2>2
<1> QED
  BY <1>1, <1>2, <1>3, <1>4, <1>5, <1>6 DEF Forward

\* Each request takes a bounded number of steps, whatever the other threads do;
\* no session that is opened meanwhile makes a broadcast longer.
THEOREM RequestsAreBounded == Spec => RequestsShorten
<1>1. TypeInv /\ BroadcastInv /\ [Next]_vars =>
        [\A t \in Threads : UnderWay(t) =>
            \/ StepsLeft(t)' < StepsLeft(t)
            \/ UNCHANGED <<pc[t], req[t], reached[t], StepsLeft(t)>>]_vars
  BY TypeStep, StepsGoForward, ForwardShortens
<1> QED
  BY <1>1, TypeInit, TypeStep, BroadcastInit, BroadcastKept, PTL DEF Spec, RequestsShorten
=============================================================================
