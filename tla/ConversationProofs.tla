--------------------------- MODULE ConversationProofs ---------------------------
(***************************************************************************)
(* Theorems about module Conversation, for any clients and any bounds.     *)
(***************************************************************************)
EXTENDS Conversation, TLAPS

USE ConversationAssumption, SessionsAssumption

-----------------------------------------------------------------------------
(* Types.                                                                  *)

LEMMA SendTypes ==
  ASSUME TypeOK, NEW c \in Clients, NEW type \in RequestTypes,
         NEW packed \in RequestTypes, Send(c, type, packed)
  PROVE  /\ requests' \subseteq Requests
         /\ packetNumber' \in [Clients -> 1 .. MaxPackets + 1]
<1>1. packetNumber[c] \in 1 .. MaxPackets
  BY DEF TypeOK, Send
<1>2. packetNumber' \in [Clients -> 1 .. MaxPackets + 1]
  BY <1>1 DEF TypeOK, Send
<1>3. [client |-> c, no |-> packetNumber[c], copy |-> 0,
       type |-> type, packed |-> packed, session |-> session[c]] \in Requests
  BY <1>1 DEF TypeOK, Requests
<1> QED BY <1>2, <1>3 DEF TypeOK, Send

LEMMA NewRequest ==
  ASSUME NEW c \in Clients, NEW type, NEW packed, Send(c, type, packed),
         NEW r \in requests', r \notin requests
  PROVE  /\ r.client = c
         /\ r.no = packetNumber[c]
         /\ r.type = type
         /\ r.packed = packed
         /\ r.session = session[c]
<1>1. r = [client |-> c, no |-> packetNumber[c], copy |-> 0,
           type |-> type, packed |-> packed, session |-> session[c]]
  BY DEF Send
<1> QED BY <1>1

LEMMA NewAnswer ==
  ASSUME NEW r \in requests, NEW type, NEW s, Reply(r, type, s),
         NEW a \in answers', a \notin answers
  PROVE  /\ a.client = r.client
         /\ a.no = r.no
         /\ a.type = type
         /\ a.session = s
<1>1. a = [client |-> r.client, no |-> r.no, copy |-> r.copy, type |-> type, session |-> s]
  BY DEF Reply
<1> QED BY <1>1

LEMMA AnswerTyped ==
  ASSUME TypeOK, NEW c \in Clients, inbox[c] # <<>>
  PROVE  /\ Answer(c) \in Answers
         /\ Tail(inbox[c]) \in Seq(Answers)
BY DEF TypeOK, Answer

LEMMA ReadTypes ==
  ASSUME TypeOK, NEW c \in Clients,
         NEW next \in {"ready", "names", "terminated"},
         inbox[c] # <<>>, Read(c, next)
  PROVE  /\ where' \in [Clients -> {"ready", "waiting", "names", "quit", "terminated"}]
         /\ inbox' \in [Clients -> Seq(Answers)]
         /\ UNCHANGED <<packetNumber, netVars, restarts, stateVars, issuedTo>>
BY AnswerTyped DEF TypeOK, Read, Become, OnlyClient

LEMMA ReplyTypes ==
  ASSUME TypeOK, NEW r \in requests, NEW type \in AnswerTypes,
         NEW s \in Sessions, Reply(r, type, s)
  PROVE  requests' \subseteq Requests /\ answers' \subseteq Answers
<1>1. r \in Requests
  BY DEF TypeOK
<1>2. [client |-> r.client, no |-> r.no, copy |-> r.copy, type |-> type, session |-> s]
        \in Answers
  BY <1>1 DEF Requests, Answers
<1> QED BY <1>2 DEF TypeOK, Reply

LEMMA RepeatTypes ==
  ASSUME TypeOK, Repeat
  PROVE  /\ requests' \subseteq Requests
         /\ answers' \subseteq Answers
         /\ duplicates' \in 0 .. MaxDuplicates
<1>1. duplicates + 1 \in 0 .. MaxDuplicates
  BY DEF TypeOK, Repeat
<1>2. ASSUME NEW r \in Requests PROVE Again(r) \in Requests
  BY <1>1 DEF Again, Requests
<1>3. ASSUME NEW a \in Answers PROVE Again(a) \in Answers
  BY <1>1 DEF Again, Answers
<1> QED BY <1>1, <1>2, <1>3 DEF TypeOK, Repeat

LEMMA SessionTypes ==
  ASSUME TypeOK, NEW s \in Sessions
  PROVE  /\ GenerateSession(s) => StateTypeOK' /\ GeneratedId(s) \in Ids
         /\ VerifySession(s) /\ GetSessionAccountName(s) => StateTypeOK'
<1>1. ASSUME GenerateSession(s)
      PROVE  StateTypeOK' /\ GeneratedId(s) \in Ids
  <2>1. CASE VerifySession(s)
    BY <1>1, <2>1 DEF TypeOK, StateTypeOK, GenerateSession, GeneratedId,
                      VerifySession, stateVars
  <2>2. CASE ~VerifySession(s)
    <3>1. curSession \in Ids /\ curSession + 1 \in 1 .. MaxSessions + 1
      BY <1>1, <2>2 DEF TypeOK, StateTypeOK, GenerateSession, Ids
    <3> QED BY <1>1, <2>2, <3>1 DEF TypeOK, StateTypeOK, GenerateSession, GeneratedId
  <2> QED BY <2>1, <2>2
<1>2. ASSUME VerifySession(s), GetSessionAccountName(s)
      PROVE  StateTypeOK'
  BY <1>2 DEF TypeOK, StateTypeOK, VerifySession, GetSessionAccountName
<1> QED BY <1>1, <1>2

LEMMA InitTypes == Init => TypeOK
BY DEF Init, TypeOK, StateInit, StateTypeOK, Sessions, Ids

LEMMA ClientTypes ==
  ASSUME TypeOK, NEW c \in Clients,
         Asks(c) \/ CreateUser(c) \/ Quit(c) \/ Connected(c)
  PROVE  TypeOK'
<1> USE DEF clientVars, netVars, stateVars
<1>1. ASSUME NEW state \in 0 .. 3, NEW type \in RequestTypes, Ask(c, state, type)
      PROVE  TypeOK'
  BY <1>1, SendTypes DEF Ask, Send, Become, TypeOK, StateTypeOK
<1>2. CASE Asks(c)
  BY <1>1, <1>2 DEF Asks, Connect, ListUsers, SendPlayerCommand, RequestTypes
<1>3. CASE CreateUser(c)
  <2>1. /\ requests' \subseteq Requests
        /\ packetNumber' \in [Clients -> 1 .. MaxPackets + 1]
    BY <1>3, SendTypes DEF CreateUser, RequestTypes
  <2> QED BY <1>3, <2>1 DEF CreateUser, Send, Become, TypeOK, StateTypeOK
<1>4. CASE Quit(c)
  BY <1>4 DEF Quit, OnlyClient, Become, TypeOK, StateTypeOK
<1>5. CASE Connected(c)
  BY <1>5 DEF Connected, OnlyClient, TypeOK, StateTypeOK
<1> QED BY <1>2, <1>3, <1>4, <1>5

LEMMA ReadsTypes ==
  ASSUME TypeOK, NEW c \in Clients, Reads(c)
  PROVE  TypeOK'
<1> USE DEF clientVars, netVars, stateVars
<1>1. inbox[c] # <<>>
  BY DEF Reads, ReadConnect, ReadUsers, ReadCommand, ConvertThrows, AnswerIn
<1>2. PICK next \in {"ready", "names", "terminated"} : Read(c, next)
  BY DEF Reads, ReadConnect, ReadUsers, ReadCommand, ConvertThrows
<1>3. Answer(c).session \in Sessions
  BY <1>1, AnswerTyped DEF Answers
<1>4. session' \in [Clients -> Sessions] /\ clientState' \in [Clients -> 0 .. 3]
  <2>1. CASE ReadConnect(c)
    <3>1. CASE Answer(c).type = "CONNECT"
      <4>1. /\ session' = [session EXCEPT ![c] = Answer(c).session]
            /\ clientState' = [clientState EXCEPT ![c] = 1]
        BY <2>1, <3>1 DEF ReadConnect
      <4> QED BY <1>3, <4>1 DEF TypeOK
    <3>2. CASE Answer(c).type # "CONNECT"
      BY <2>1, <3>2 DEF ReadConnect, TypeOK
    <3> QED BY <3>1, <3>2
  <2>2. CASE ReadUsers(c)
    BY <2>2 DEF ReadUsers, AnswerIn, Read, TypeOK
  <2>3. CASE ReadCommand(c) \/ ConvertThrows(c)
    BY <2>3 DEF ReadCommand, ConvertThrows, TypeOK
  <2> QED BY <2>1, <2>2, <2>3 DEF Reads
<1> QED BY <1>1, <1>2, <1>4, ReadTypes DEF TypeOK, StateTypeOK

LEMMA ServesTypes ==
  ASSUME TypeOK, NEW r \in requests, Serves(r)
  PROVE  TypeOK'
<1> USE DEF clientVars, netVars, stateVars
<1>1. r.session \in Sessions /\ r.client \in Clients
  BY DEF TypeOK, Requests
<1>2. CASE ConnectHandler(r)
  <2>1. GeneratedId(r.session) \in Ids /\ StateTypeOK'
    BY <1>1, <1>2, SessionTypes DEF ConnectHandler
  <2>2. GeneratedId(r.session) \in Sessions
    BY <2>1 DEF Sessions
  <2>3. requests' \subseteq Requests /\ answers' \subseteq Answers
    BY <1>2, <2>2, ReplyTypes DEF ConnectHandler, AnswerTypes
  <2> QED BY <1>1, <1>2, <2>1, <2>3 DEF ConnectHandler, Reply, TypeOK
<1>3. CASE ListUsersHandler(r)
  <2>1. StateTypeOK'
    BY <1>1, <1>3, SessionTypes DEF ListUsersHandler
  <2>2. requests' \subseteq Requests /\ answers' \subseteq Answers
    BY <1>1, <1>3, ReplyTypes DEF ListUsersHandler, AnswerTypes
  <2> QED BY <1>3, <2>1, <2>2 DEF ListUsersHandler, Reply, TypeOK
<1>4. CASE SendPlayerCommandHandler(r)
  <2>1. requests' \subseteq Requests /\ answers' \subseteq Answers
    BY <1>1, <1>4, ReplyTypes DEF SendPlayerCommandHandler, AnswerTypes
  <2> QED BY <1>4, <2>1 DEF SendPlayerCommandHandler, Reply, TypeOK, StateTypeOK
<1>5. CASE SendErrorTo(r)
  <2>1. requests' \subseteq Requests /\ answers' \subseteq Answers
    BY <1>5, ReplyTypes DEF SendErrorTo, AnswerTypes, Sessions
  <2> QED BY <1>5, <2>1 DEF SendErrorTo, Reply, TypeOK, StateTypeOK
<1> QED BY <1>2, <1>3, <1>4, <1>5 DEF Serves, CreateUserHandler, RefuseSession

LEMMA NetworkTypes ==
  ASSUME TypeOK, (\E a \in answers : Deliver(a)) \/ Repeat \/ Restart
  PROVE  TypeOK'
<1> USE DEF clientVars, netVars, stateVars
<1>1. ASSUME NEW a \in answers, Deliver(a)
      PROVE  TypeOK'
  <2>1. a \in Answers /\ a.client \in Clients
    BY DEF TypeOK, Answers
  <2>2. inbox' \in [Clients -> Seq(Answers)]
    BY <1>1, <2>1 DEF Deliver, TypeOK
  <2> QED BY <1>1, <2>2 DEF Deliver, TypeOK, StateTypeOK
<1>2. CASE Repeat
  <2>1. /\ requests' \subseteq Requests
        /\ answers' \subseteq Answers
        /\ duplicates' \in 0 .. MaxDuplicates
    BY <1>2, RepeatTypes
  <2> QED BY <1>2, <2>1 DEF Repeat, TypeOK, StateTypeOK
<1>3. CASE Restart
  BY <1>3 DEF Restart, TypeOK, StateTypeOK, Ids
<1> QED BY <1>1, <1>2, <1>3

LEMMA TypesStep == TypeOK /\ [Next]_vars => TypeOK'
<1> SUFFICES ASSUME TypeOK, [Next]_vars PROVE TypeOK'
  OBVIOUS
<1>1. CASE UNCHANGED vars
  BY <1>1 DEF vars, clientVars, netVars, stateVars, TypeOK, StateTypeOK
<1>2. CASE Next
  BY <1>2, ClientTypes, ReadsTypes, ServesTypes, NetworkTypes DEF Next
<1> QED BY <1>1, <1>2

\* Clients, network and server keep their types, whatever is lost, repeated or
\* restarted.
THEOREM TypeCorrect == Spec => []TypeOK
BY InitTypes, TypesStep, PTL DEF Spec

-----------------------------------------------------------------------------
(* In state 0 a client has asked for nothing but a connection.             *)

ConnectOnly(c) ==
  /\ where[c] # "names"
  /\ \A r \in requests : r.client = c => r.type = "CONNECT"
  /\ \A a \in answers : a.client = c => a.type = "CONNECT"
  /\ \A i \in 1 .. Len(inbox[c]) : inbox[c][i].type = "CONNECT"

ConnectInv == \A c \in Clients : clientState[c] = 0 => ConnectOnly(c)

LEMMA ClientConnects ==
  ASSUME TypeOK, ConnectInv, NEW c \in Clients,
         Asks(c) \/ CreateUser(c) \/ Quit(c) \/ Connected(c)
  PROVE  ConnectInv'
<1> SUFFICES ASSUME NEW d \in Clients, clientState'[d] = 0
             PROVE  ConnectOnly(d)'
  BY DEF ConnectInv
<1> USE DEF netVars
<1>1. ASSUME NEW type \in RequestTypes, NEW packed \in RequestTypes,
             Send(c, type, packed), ConnectOnly(d), where'[d] # "names",
             d = c => type = "CONNECT"
      PROVE  ConnectOnly(d)'
  <2>1. ASSUME NEW r \in requests', r.client = d PROVE r.type = "CONNECT"
    <3>1. CASE r \in requests
      BY <1>1, <2>1, <3>1 DEF ConnectOnly
    <3>2. CASE r \notin requests
      BY <1>1, <2>1, <3>2, NewRequest
    <3> QED BY <3>1, <3>2
  <2> QED BY <1>1, <2>1 DEF Send, ConnectOnly
<1>2. CASE Asks(c)
  <2>1. PICK state \in 0 .. 3, type \in RequestTypes :
          Ask(c, state, type) /\ (state = 0 => type = "CONNECT")
    BY <1>2 DEF Asks, Connect, ListUsers, SendPlayerCommand, RequestTypes
  <2>2. clientState[d] = 0 /\ ConnectOnly(d)
    BY <2>1 DEF Ask, Send, ConnectInv
  <2>3. where'[d] # "names"
    BY <2>1, <2>2 DEF Ask, Become, ConnectOnly, TypeOK
  <2> QED BY <1>1, <2>1, <2>2, <2>3 DEF Ask
<1>3. CASE CreateUser(c)
  <2>1. ConnectOnly(d) /\ d # c
    BY <1>3 DEF CreateUser, Send, Become, ConnectInv, ConnectOnly
  <2>2. where'[d] # "names"
    BY <1>3, <2>1 DEF CreateUser, Become, ConnectOnly, TypeOK
  <2> QED BY <1>1, <1>3, <2>1, <2>2 DEF CreateUser, RequestTypes
<1>4. CASE Quit(c)
  BY <1>4 DEF Quit, OnlyClient, Become, ConnectInv, ConnectOnly, TypeOK
<1>5. CASE Connected(c)
  BY <1>5 DEF Connected, OnlyClient, ConnectInv, ConnectOnly, TypeOK
<1> QED BY <1>2, <1>3, <1>4, <1>5

LEMMA ReadsConnect ==
  ASSUME TypeOK, ConnectInv, NEW c \in Clients, Reads(c)
  PROVE  ConnectInv'
<1> SUFFICES ASSUME NEW d \in Clients, clientState'[d] = 0
             PROVE  ConnectOnly(d)'
  BY DEF ConnectInv
<1>1. inbox[c] # <<>>
  BY DEF Reads, ReadConnect, ReadUsers, ReadCommand, ConvertThrows, AnswerIn
<1>2. PICK next \in {"ready", "names", "terminated"} :
        Read(c, next) /\ (next = "names" => clientState[c] = 2)
  BY DEF Reads, ReadConnect, ReadUsers, ReadCommand, ConvertThrows
<1>3. clientState[d] = 0
  <2>1. CASE ReadConnect(c)
    BY <2>1 DEF ReadConnect, TypeOK
  <2>2. CASE ReadUsers(c)
    BY <2>2 DEF ReadUsers, AnswerIn, Read, TypeOK
  <2>3. CASE ReadCommand(c) \/ ConvertThrows(c)
    BY <2>3 DEF ReadCommand, ConvertThrows, TypeOK
  <2> QED BY <2>1, <2>2, <2>3 DEF Reads
<1>4. ConnectOnly(d)
  BY <1>3 DEF ConnectInv
<1>5. where'[d] # "names" /\ UNCHANGED <<requests, answers>>
  BY <1>2, <1>3, <1>4 DEF Read, Become, OnlyClient, netVars, ConnectOnly, TypeOK
<1>6. \A i \in 1 .. Len(inbox'[d]) : inbox'[d][i].type = "CONNECT"
  <2>1. CASE d = c
    <3>1. inbox'[c] = Tail(inbox[c]) /\ inbox[c] \in Seq(Answers)
      BY <1>2 DEF Read, TypeOK
    <3> QED BY <1>1, <1>4, <2>1, <3>1 DEF ConnectOnly
  <2>2. CASE d # c
    BY <1>2, <1>4, <2>2 DEF Read, TypeOK, ConnectOnly
  <2> QED BY <2>1, <2>2
<1> QED BY <1>4, <1>5, <1>6 DEF ConnectOnly

LEMMA ServesConnect ==
  ASSUME TypeOK, ConnectInv, NEW r \in requests, Serves(r)
  PROVE  ConnectInv'
<1>1. PICK type \in AnswerTypes, s \in Sessions :
        Reply(r, type, s) /\ (r.type = "CONNECT" => type = "CONNECT")
  <2>1. r.session \in Sessions
    BY DEF TypeOK, Requests
  <2>2. CASE ConnectHandler(r)
    <3>1. GeneratedId(r.session) \in Sessions
      BY <2>1, <2>2, SessionTypes DEF ConnectHandler, Sessions
    <3> QED BY <2>2, <3>1 DEF ConnectHandler, AnswerTypes
  <2>3. CASE ListUsersHandler(r)
    BY <2>1, <2>3 DEF ListUsersHandler, AnswerTypes
  <2>4. CASE SendPlayerCommandHandler(r)
    BY <2>1, <2>4 DEF SendPlayerCommandHandler, AnswerTypes
  <2>5. CASE CreateUserHandler(r) \/ RefuseSession(r)
    BY <2>5 DEF CreateUserHandler, RefuseSession, SendErrorTo, AnswerTypes, Sessions
  <2> QED BY <2>2, <2>3, <2>4, <2>5 DEF Serves
<1> QED BY <1>1 DEF Reply, clientVars, ConnectInv, ConnectOnly

LEMMA NetworkConnects ==
  ASSUME TypeOK, ConnectInv, (\E a \in answers : Deliver(a)) \/ Repeat \/ Restart
  PROVE  ConnectInv'
<1> SUFFICES ASSUME NEW d \in Clients, clientState'[d] = 0
             PROVE  ConnectOnly(d)'
  BY DEF ConnectInv
<1>1. ASSUME NEW a \in answers, Deliver(a)
      PROVE  ConnectOnly(d)'
  <2>1. ConnectOnly(d)
    BY <1>1 DEF Deliver, ConnectInv
  <2>2. \A i \in 1 .. Len(inbox'[d]) : inbox'[d][i].type = "CONNECT"
    <3>1. CASE d = a.client
      <4>1. inbox'[d] = Append(inbox[d], a) /\ inbox[d] \in Seq(Answers)
        BY <1>1, <3>1 DEF Deliver, TypeOK
      <4>2. a \in Answers /\ a.type = "CONNECT"
        BY <2>1, <3>1 DEF ConnectOnly, TypeOK
      <4>3. ASSUME NEW i \in 1 .. Len(inbox'[d])
            PROVE  inbox'[d][i] = IF i <= Len(inbox[d]) THEN inbox[d][i] ELSE a
        BY <4>1
      <4> QED BY <2>1, <4>1, <4>2, <4>3 DEF ConnectOnly
    <3>2. CASE d # a.client
      BY <1>1, <2>1, <3>2 DEF Deliver, TypeOK, ConnectOnly
    <3> QED BY <3>1, <3>2
  <2> QED BY <1>1, <2>1, <2>2 DEF Deliver, ConnectOnly
<1>2. CASE Repeat
  <2>1. ConnectOnly(d)
    BY <1>2 DEF Repeat, clientVars, ConnectInv
  <2>2. ASSUME NEW r \in Requests
        PROVE  Again(r).client = r.client /\ Again(r).type = r.type
    BY DEF Again, Requests
  <2>3. ASSUME NEW a \in Answers
        PROVE  Again(a).client = a.client /\ Again(a).type = a.type
    BY DEF Again, Answers
  <2>4. \A r \in requests' : r.client = d => r.type = "CONNECT"
    <3>1. ASSUME NEW r \in requests', r \notin requests
          PROVE  \E q \in requests : r = Again(q)
      BY <1>2, <3>1 DEF Repeat
    <3>2. \A q \in requests : Again(q).client = q.client /\ Again(q).type = q.type
      BY <2>2 DEF TypeOK
    <3>3. \A r \in requests : r.client = d => r.type = "CONNECT"
      BY <2>1 DEF ConnectOnly
    <3> QED BY <3>1, <3>2, <3>3, Zenon
  <2>5. \A a \in answers' : a.client = d => a.type = "CONNECT"
    <3>1. ASSUME NEW a \in answers', a \notin answers
          PROVE  \E b \in answers : a = Again(b)
      BY <1>2, <3>1 DEF Repeat
    <3>2. \A b \in answers : Again(b).client = b.client /\ Again(b).type = b.type
      BY <2>3 DEF TypeOK
    <3>3. \A a \in answers : a.client = d => a.type = "CONNECT"
      BY <2>1 DEF ConnectOnly
    <3> QED BY <3>1, <3>2, <3>3, Zenon
  <2> QED BY <1>2, <2>1, <2>4, <2>5 DEF Repeat, clientVars, ConnectOnly
<1>3. CASE Restart
  BY <1>3 DEF Restart, clientVars, netVars, ConnectInv, ConnectOnly
<1> QED BY <1>1, <1>2, <1>3

\* A client in state 0 reads a CONNECT, as main() assumes, whatever is lost,
\* repeated or restarted.
THEOREM ConnectAnswered == Spec => []ConnectAnswerIsConnect
<1>1. Init => ConnectInv
  BY DEF Init, ConnectInv, ConnectOnly
<1>2. TypeOK /\ ConnectInv /\ [Next]_vars => ConnectInv'
  <2> SUFFICES ASSUME TypeOK, ConnectInv, [Next]_vars PROVE ConnectInv'
    OBVIOUS
  <2>1. CASE UNCHANGED vars
    BY <2>1 DEF vars, clientVars, netVars, ConnectInv, ConnectOnly
  <2>2. CASE Next
    BY <2>2, ClientConnects, ReadsConnect, ServesConnect, NetworkConnects DEF Next
  <2> QED BY <2>1, <2>2
<1>3. ConnectInv => ConnectAnswerIsConnect
  BY DEF ConnectInv, ConnectOnly, ConnectAnswerIsConnect
<1> QED BY <1>1, <1>2, <1>3, TypeCorrect, PTL DEF Spec

-----------------------------------------------------------------------------
(* The two counters of faults never go back, so what holds until the first  *)
(* fault may be proved of the steps before it.                             *)

LEMMA CountersGrow ==
  ASSUME TypeOK, [Next]_vars
  PROVE  /\ duplicates' = 0 => duplicates = 0 /\ ~Repeat
         /\ restarts' = 0 => restarts = 0 /\ ~Restart
<1>1. duplicates \in Nat /\ restarts \in Nat
  BY DEF TypeOK
<1>2. Repeat => duplicates' # 0 /\ restarts' = restarts
  BY <1>1 DEF Repeat
<1>3. Restart => restarts' # 0 /\ duplicates' = duplicates
  BY <1>1 DEF Restart, netVars
<1>4. CASE UNCHANGED vars
  BY <1>2, <1>3, <1>4 DEF vars, netVars
<1>5. ASSUME NEW c \in Clients,
             Asks(c) \/ Reads(c) \/ CreateUser(c) \/ Quit(c) \/ Connected(c)
      PROVE  UNCHANGED <<duplicates, restarts>>
  BY <1>5 DEF Asks, Connect, ListUsers, SendPlayerCommand, Ask, CreateUser, Send,
              Reads, ReadConnect, ReadUsers, ReadCommand, ConvertThrows, Read,
              Quit, Connected, OnlyClient, netVars
<1>6. ASSUME NEW r \in requests, Serves(r)
      PROVE  UNCHANGED <<duplicates, restarts>>
  BY <1>6 DEF Serves, ConnectHandler, ListUsersHandler, SendPlayerCommandHandler,
              CreateUserHandler, RefuseSession, SendErrorTo, Reply
<1>7. ASSUME NEW a \in answers, Deliver(a)
      PROVE  UNCHANGED <<duplicates, restarts>>
  BY <1>7 DEF Deliver
<1> QED
  BY <1>2, <1>3, <1>4, <1>5, <1>6, <1>7 DEF Next

-----------------------------------------------------------------------------
(* The session table of this server and that of module Server keep the same *)
(* promise (module SessionLifecycle), here until a restart breaks it.       *)

\* The server knows the ids it has issued since it was started, and no others:
\* no client sends DISCONNECT or SELECTUSER.
IssuedAreOpen ==
  /\ sessions = 1 .. curSession - 1
  /\ activeSessions = {}

LEMMA TableSteps ==
  ASSUME [Next]_vars
  PROVE  \/ Restart
         \/ \E r \in requests : GenerateSession(r.session)
         \/ UNCHANGED <<curSession, sessions, activeSessions>>
<1>1. ASSUME NEW r \in requests, Serves(r)
      PROVE  \/ GenerateSession(r.session)
             \/ UNCHANGED <<curSession, sessions, activeSessions>>
  BY <1>1 DEF Serves, ConnectHandler, ListUsersHandler, SendPlayerCommandHandler,
              CreateUserHandler, RefuseSession, SendErrorTo, GetSessionAccountName, stateVars
<1>2. ASSUME NEW c \in Clients,
             Asks(c) \/ Reads(c) \/ CreateUser(c) \/ Quit(c) \/ Connected(c)
      PROVE  UNCHANGED stateVars
  BY <1>2 DEF Asks, Connect, ListUsers, SendPlayerCommand, Ask, CreateUser, Send,
              Reads, ReadConnect, ReadUsers, ReadCommand, ConvertThrows, Read,
              Quit, Connected, OnlyClient
<1>3. ASSUME NEW a \in answers, Deliver(a)
      PROVE  UNCHANGED stateVars
  BY <1>3 DEF Deliver
<1>4. CASE Repeat
  BY <1>4 DEF Repeat, stateVars
<1>5. CASE UNCHANGED vars
  BY <1>5 DEF vars, stateVars
<1> QED
  BY <1>1, <1>2, <1>3, <1>4, <1>5 DEF Next, stateVars

LEMMA TableStep == TypeOK /\ IssuedAreOpen /\ [Next]_vars => IssuedAreOpen'
<1> SUFFICES ASSUME TypeOK, IssuedAreOpen, [Next]_vars PROVE IssuedAreOpen'
  OBVIOUS
<1>1. curSession \in 1 .. MaxSessions + 1
  BY DEF TypeOK, StateTypeOK
<1>2. CASE Restart
  BY <1>2 DEF Restart, IssuedAreOpen
<1>3. ASSUME NEW s, GenerateSession(s) PROVE IssuedAreOpen'
  <2>1. CASE UNCHANGED stateVars
    BY <2>1 DEF IssuedAreOpen, stateVars
  <2>2. CASE /\ sessions' = sessions \cup {curSession}
             /\ curSession' = curSession + 1 /\ activeSessions' = activeSessions
    <3>1. 1 .. curSession' - 1 = (1 .. curSession - 1) \cup {curSession}
      BY <1>1, <2>2
    <3> QED
      BY <2>2, <3>1 DEF IssuedAreOpen
  <2> QED
    BY <1>3, <2>1, <2>2 DEF GenerateSession
<1>4. CASE UNCHANGED <<curSession, sessions, activeSessions>>
  BY <1>4 DEF IssuedAreOpen
<1> QED
  BY <1>2, <1>3, <1>4, TableSteps

LEMMA TableInit == Init => IssuedAreOpen
  BY DEF Init, StateInit, IssuedAreOpen

\* The server opens the next id, or is started again and has forgotten all.
LifecycleOrRestart ==
  [][Lifecycle!Next \/ (restarts' = restarts + 1 /\ Lifecycle!Init')]_SessionStatus

LEMMA LifecycleStep ==
  ASSUME TypeOK, IssuedAreOpen, [Next]_vars
  PROVE  [Lifecycle!Next \/ (restarts' = restarts + 1 /\ Lifecycle!Init')]_SessionStatus
<1>t. /\ curSession \in 1 .. MaxSessions + 1 /\ Ids = 1 .. MaxSessions
      /\ sessions = 1 .. curSession - 1 /\ activeSessions = {}
  BY DEF TypeOK, StateTypeOK, IssuedAreOpen, Ids
<1>1. CASE Restart
  <2>1. restarts' = restarts + 1 /\ curSession' = 1 /\ sessions' = {} /\ activeSessions' = {}
    BY <1>1 DEF Restart
  <2>2. Lifecycle!Init'
    BY <2>1 DEF Lifecycle!Init, SessionStatus, Lifecycle!Ids, Ids
  <2> QED
    BY <2>1, <2>2
<1>2. ASSUME NEW s, GenerateSession(s), ~UNCHANGED stateVars PROVE Lifecycle!Next
  <2>1. /\ curSession <= MaxSessions /\ curSession' = curSession + 1
        /\ sessions' = sessions \cup {curSession} /\ activeSessions' = activeSessions
    BY <1>2 DEF GenerateSession
  <2>2. curSession \in Ids
    BY <1>t, <2>1
  <2>3. \A i \in Ids : SessionStatus[i] = IF i < curSession THEN "open" ELSE "unissued"
    BY <1>t DEF SessionStatus
  <2>4. \A i \in Ids : SessionStatus'[i] = IF i <= curSession THEN "open" ELSE "unissued"
    <3> SUFFICES ASSUME NEW i \in Ids
                 PROVE  SessionStatus'[i] = IF i <= curSession THEN "open" ELSE "unissued"
      OBVIOUS
    <3>1. /\ i \in sessions' <=> i <= curSession
          /\ i \notin activeSessions'
          /\ i < curSession' <=> i <= curSession
      BY <1>t, <2>1
    <3> QED
      BY <3>1 DEF SessionStatus
  <2>5. SessionStatus' = [SessionStatus EXCEPT ![curSession] = "open"]
    <3>1. \A i \in Ids : i <= curSession <=> i < curSession \/ i = curSession
      BY <1>t
    <3>2. SessionStatus = [i \in Ids |-> SessionStatus[i]]
      BY DEF SessionStatus
    <3>3. SessionStatus' = [i \in Ids |-> SessionStatus'[i]]
      BY DEF SessionStatus
    <3> QED
      BY <2>2, <2>3, <2>4, <3>1, <3>2, <3>3
  <2>6. /\ SessionStatus[curSession] = "unissued"
        /\ \A i \in Ids : i < curSession => SessionStatus[i] # "unissued"
    BY <1>t, <2>2, <2>3
  <2> QED
    BY <2>2, <2>5, <2>6 DEF Lifecycle!Next, Lifecycle!Open, Lifecycle!Become, Lifecycle!Ids, Ids
<1>3. CASE UNCHANGED <<curSession, sessions, activeSessions>>
  BY <1>3 DEF SessionStatus
<1> QED
  BY <1>1, <1>2, <1>3, TableSteps DEF stateVars

\* From one start of the server to the next its table lives by the rules of
\* module SessionLifecycle, as that of module Server does: ids are issued in order
\* and once.  A restart closes nothing, it forgets: the ids are issued anew.
THEOREM LifecycleUntilRestart == Spec => Lifecycle!Init /\ LifecycleOrRestart
<1>1. Init => Lifecycle!Init
  BY DEF Init, StateInit, SessionStatus, Lifecycle!Init, Lifecycle!Ids, Ids
<1> QED
  BY <1>1, InitTypes, TypesStep, TableInit, TableStep, LifecycleStep, PTL
     DEF Spec, LifecycleOrRestart

-----------------------------------------------------------------------------
(* Every id that a client, or a datagram of a client, carries was issued to *)
(* this client by the running server.                                      *)

Owns(c, s) == s \in Ids /\ issuedTo[s] = c

OwnerInv ==
  /\ \A s \in Ids : issuedTo[s] # Nobody => s < curSession
  /\ \A c \in Clients : session[c] = 0 \/ Owns(c, session[c])
  /\ \A r \in requests : r.session = 0 \/ Owns(r.client, r.session)
  /\ \A a \in answers : a.type = "CONNECT" => Owns(a.client, a.session)
  /\ \A c \in Clients : \A i \in 1 .. Len(inbox[c]) :
       inbox[c][i].type = "CONNECT" => Owns(c, inbox[c][i].session)

LEMMA ClientOwners ==
  ASSUME TypeOK, OwnerInv, NEW c \in Clients,
         Asks(c) \/ CreateUser(c) \/ Quit(c) \/ Connected(c)
  PROVE  OwnerInv'
<1>1. ASSUME NEW type, NEW packed, Send(c, type, packed)
      PROVE  OwnerInv'
  <2>1. ASSUME NEW r \in requests' PROVE r.session = 0 \/ Owns(r.client, r.session)
    <3>1. CASE r \in requests
      BY <3>1 DEF OwnerInv
    <3>2. CASE r \notin requests
      <4>1. r.client = c /\ r.session = session[c]
        BY <1>1, <3>2, NewRequest
      <4> QED BY <4>1 DEF OwnerInv
    <3> QED BY <3>1, <3>2
  <2> QED BY <1>1, <2>1 DEF Send, OwnerInv, Owns, stateVars
<1>2. CASE Asks(c) \/ CreateUser(c)
  BY <1>1, <1>2 DEF Asks, Connect, ListUsers, SendPlayerCommand, Ask, CreateUser
<1>3. CASE Quit(c) \/ Connected(c)
  BY <1>3 DEF Quit, Connected, OnlyClient, netVars, stateVars, OwnerInv, Owns
<1> QED BY <1>2, <1>3

LEMMA ReadsOwners ==
  ASSUME TypeOK, OwnerInv, NEW c \in Clients, Reads(c)
  PROVE  OwnerInv'
<1>1. inbox[c] # <<>> /\ inbox[c] \in Seq(Answers)
  BY DEF Reads, ReadConnect, ReadUsers, ReadCommand, ConvertThrows, AnswerIn, TypeOK
<1>2. PICK next \in {"ready", "names", "terminated"} : Read(c, next)
  BY DEF Reads, ReadConnect, ReadUsers, ReadCommand, ConvertThrows
<1>3. UNCHANGED <<requests, answers, curSession, issuedTo>>
  BY <1>2 DEF Read, OnlyClient, netVars, stateVars
<1>4. ASSUME NEW d \in Clients, NEW i \in 1 .. Len(inbox'[d]),
             inbox'[d][i].type = "CONNECT"
      PROVE  Owns(d, inbox'[d][i].session)
  <2>1. CASE d = c
    <3>1. inbox'[c] = Tail(inbox[c])
      BY <1>2 DEF Read, TypeOK
    <3>2. i + 1 \in 1 .. Len(inbox[c]) /\ inbox'[c][i] = inbox[c][i + 1]
      BY <1>1, <1>4, <2>1, <3>1
    <3> QED BY <1>4, <2>1, <3>2 DEF OwnerInv
  <2>2. CASE d # c
    BY <1>2, <1>4, <2>2 DEF Read, TypeOK, OwnerInv
  <2> QED BY <2>1, <2>2
<1>5. ASSUME NEW d \in Clients
      PROVE  session'[d] = 0 \/ Owns(d, session'[d])
  <2>1. CASE ReadConnect(c) /\ Answer(c).type = "CONNECT"
    <3>1. session' = [session EXCEPT ![c] = Answer(c).session]
      BY <2>1 DEF ReadConnect
    <3>2. Owns(c, Answer(c).session)
      BY <1>1, <2>1 DEF OwnerInv, Answer
    <3> QED BY <3>1, <3>2 DEF OwnerInv, TypeOK
  <2>2. CASE UNCHANGED session
    BY <2>2 DEF OwnerInv
  <2> QED BY <2>1, <2>2 DEF Reads, ReadConnect, ReadUsers, ReadCommand, ConvertThrows
<1> QED BY <1>3, <1>4, <1>5 DEF OwnerInv, Owns

LEMMA ServesOwners ==
  ASSUME TypeOK, OwnerInv, NEW r \in requests, Serves(r)
  PROVE  OwnerInv'
<1>1. r.client \in Clients /\ r.session \in Sessions
  BY DEF TypeOK, Requests
<1>2. \A q \in requests : q.client \in Clients
  BY DEF TypeOK, Requests
<1>3. \A a \in answers : a.client \in Clients
  BY DEF TypeOK, Answers
<1>4. ASSUME NEW type, NEW s, Reply(r, type, s),
             type = "CONNECT" => Owns(r.client, s)',
             \A d \in Clients, t \in Ids : Owns(d, t) => Owns(d, t)',
             \A t \in Ids : issuedTo'[t] # Nobody => t < curSession'
      PROVE  OwnerInv'
  <2>1. UNCHANGED <<session, inbox>> /\ requests' \subseteq requests
    BY <1>4 DEF Reply, clientVars
  <2>2. \A d \in Clients : \A t : Owns(d, t) => Owns(d, t)'
    BY <1>4 DEF Owns
  <2>3. ASSUME NEW a \in answers', a.type = "CONNECT"
        PROVE  Owns(a.client, a.session)'
    <3>1. CASE a \in answers
      BY <1>3, <2>2, <2>3, <3>1 DEF OwnerInv
    <3>2. CASE a \notin answers
      BY <1>4, <2>3, <3>2, NewAnswer
    <3> QED BY <3>1, <3>2
  <2>4. \A c \in Clients : (session[c] = 0 \/ Owns(c, session[c]))'
    BY <2>1, <2>2 DEF OwnerInv
  <2>5. \A q \in requests' : q.session = 0 \/ Owns(q.client, q.session)'
    BY <1>2, <2>1, <2>2 DEF OwnerInv
  <2>6. \A c \in Clients : \A i \in 1 .. Len(inbox'[c]) :
          (inbox[c][i].type = "CONNECT" => Owns(c, inbox[c][i].session))'
    BY <2>1, <2>2 DEF OwnerInv
  <2> QED BY <1>4, <2>3, <2>4, <2>5, <2>6 DEF OwnerInv
<1>5. CASE ConnectHandler(r)
  <2>0. PICK g : g = GeneratedId(r.session)
    OBVIOUS
  <2>1. g \in Ids
    BY <1>1, <1>5, <2>0, SessionTypes DEF ConnectHandler
  <2>2. issuedTo' = [issuedTo EXCEPT ![g] = r.client]
    BY <1>5, <2>0 DEF ConnectHandler
  <2>3. issuedTo \in [Ids -> Clients \cup {Nobody}]
    BY DEF TypeOK
  <2>4. issuedTo[g] = Nobody \/ issuedTo[g] = r.client
    <3>1. CASE VerifySession(r.session)
      <4>1. r.session \in Ids
        BY <3>1 DEF VerifySession, TypeOK, StateTypeOK
      <4>2. r.session # 0
        BY <4>1 DEF Ids
      <4> QED BY <2>0, <3>1, <4>2 DEF OwnerInv, Owns, GeneratedId
    <3>2. CASE ~VerifySession(r.session)
      <4>1. g = curSession /\ ~(curSession < curSession)
        BY <2>0, <3>2 DEF GeneratedId, TypeOK, StateTypeOK
      <4> QED BY <2>1, <4>1 DEF OwnerInv
    <3> QED BY <3>1, <3>2
  <2>5. \A d \in Clients, t \in Ids : Owns(d, t) => Owns(d, t)'
    BY <2>2, <2>3, <2>4 DEF Owns
  <2>6. Owns(r.client, g)'
    <3>1. issuedTo'[g] = r.client
      BY <2>1, <2>2, <2>3
    <3> QED BY <2>1, <3>1 DEF Owns
  <2>7. ASSUME NEW t \in Ids, issuedTo'[t] # Nobody
        PROVE  t < curSession'
    <3>1. CASE VerifySession(r.session)
      <4>1. UNCHANGED curSession /\ g = r.session /\ r.session \in Ids
        BY <1>5, <2>0, <3>1 DEF ConnectHandler, GenerateSession, GeneratedId, stateVars,
                          VerifySession, TypeOK, StateTypeOK
      <4>2. issuedTo[g] = r.client
        BY <4>1 DEF OwnerInv, Owns, Ids
      <4>3. issuedTo[t] # Nobody
        BY <1>1, <2>2, <2>3, <2>7, <4>2
      <4> QED BY <4>1, <4>3 DEF OwnerInv
    <3>2. CASE ~VerifySession(r.session)
      <4>1. curSession' = curSession + 1 /\ g = curSession /\ curSession \in Nat
        BY <1>5, <2>0, <3>2 DEF ConnectHandler, GenerateSession, GeneratedId, TypeOK, StateTypeOK
      <4>2. t = g \/ issuedTo[t] # Nobody
        BY <2>2, <2>3, <2>7
      <4>3. t \in Nat
        BY DEF Ids
      <4> QED BY <4>1, <4>2, <4>3 DEF OwnerInv
    <3> QED BY <3>1, <3>2
  <2>8. Reply(r, "CONNECT", g)
    BY <1>5, <2>0 DEF ConnectHandler
  <2> QED BY <1>4, <2>5, <2>6, <2>7, <2>8
<1>6. ASSUME NEW type, NEW s, Reply(r, type, s), type # "CONNECT",
             UNCHANGED <<curSession, issuedTo>>
      PROVE  OwnerInv'
  BY <1>4, <1>6 DEF Owns, OwnerInv
<1>7. CASE ListUsersHandler(r)
  BY <1>6, <1>7 DEF ListUsersHandler, GetSessionAccountName
<1>8. CASE SendPlayerCommandHandler(r)
  BY <1>6, <1>8 DEF SendPlayerCommandHandler, stateVars
<1>9. CASE CreateUserHandler(r) \/ RefuseSession(r)
  BY <1>6, <1>9 DEF CreateUserHandler, RefuseSession, SendErrorTo, stateVars
<1> QED BY <1>5, <1>7, <1>8, <1>9 DEF Serves

LEMMA NetworkOwners ==
  ASSUME TypeOK, OwnerInv, (\E a \in answers : Deliver(a)) \/ Repeat
  PROVE  OwnerInv'
<1>1. ASSUME NEW a \in answers, Deliver(a)
      PROVE  OwnerInv'
  <2>1. ASSUME NEW c \in Clients, NEW i \in 1 .. Len(inbox'[c]),
               inbox'[c][i].type = "CONNECT"
        PROVE  Owns(c, inbox'[c][i].session)
    <3>1. CASE c = a.client
      <4>1. inbox'[c] = Append(inbox[c], a) /\ inbox[c] \in Seq(Answers)
        BY <1>1, <3>1 DEF Deliver, TypeOK
      <4>2. inbox'[c][i] = IF i <= Len(inbox[c]) THEN inbox[c][i] ELSE a
        BY <4>1
      <4>3. i <= Len(inbox[c]) => i \in 1 .. Len(inbox[c])
        BY <4>1
      <4>4. CASE i <= Len(inbox[c])
        BY <2>1, <4>2, <4>3, <4>4 DEF OwnerInv
      <4>5. CASE ~(i <= Len(inbox[c]))
        BY <2>1, <3>1, <4>2, <4>5 DEF OwnerInv
      <4> QED BY <4>4, <4>5
    <3>2. CASE c # a.client
      BY <1>1, <2>1, <3>2 DEF Deliver, TypeOK, OwnerInv
    <3> QED BY <3>1, <3>2
  <2> QED BY <1>1, <2>1 DEF Deliver, stateVars, OwnerInv, Owns
<1>2. CASE Repeat
  <2>1. ASSUME NEW r \in requests' PROVE r.session = 0 \/ Owns(r.client, r.session)
    <3>1. CASE r \in requests
      BY <3>1 DEF OwnerInv
    <3>2. CASE r \notin requests
      <4>1. PICK q \in requests : r = Again(q)
        BY <1>2, <3>2 DEF Repeat
      <4>2. q \in Requests
        BY DEF TypeOK
      <4>3. r.session = q.session /\ r.client = q.client
        BY <4>1, <4>2 DEF Again, Requests
      <4> QED BY <4>3 DEF OwnerInv
    <3> QED BY <3>1, <3>2
  <2>2. ASSUME NEW a \in answers', a.type = "CONNECT" PROVE Owns(a.client, a.session)
    <3>1. CASE a \in answers
      BY <2>2, <3>1 DEF OwnerInv
    <3>2. CASE a \notin answers
      <4>1. PICK b \in answers : a = Again(b)
        BY <1>2, <3>2 DEF Repeat
      <4>2. b \in Answers
        BY DEF TypeOK
      <4>3. a.session = b.session /\ a.client = b.client /\ a.type = b.type
        BY <4>1, <4>2 DEF Again, Answers
      <4> QED BY <2>2, <4>3 DEF OwnerInv
    <3> QED BY <3>1, <3>2
  <2> QED BY <1>2, <2>1, <2>2 DEF Repeat, clientVars, stateVars, OwnerInv, Owns
<1> QED BY <1>1, <1>2

OwnerUntilRestart == restarts = 0 => OwnerInv

\* Until the server is restarted it serves a session's requests only to the
\* client the session was opened for, repeated datagrams or not.
THEOREM OwnersPass == Spec => []OnlyOwnersPass
<1>1. Init => OwnerUntilRestart
  BY DEF Init, OwnerUntilRestart, OwnerInv, StateInit
<1>2. TypeOK /\ OwnerUntilRestart /\ [Next]_vars => OwnerUntilRestart'
  <2> SUFFICES ASSUME TypeOK, OwnerUntilRestart, [Next]_vars, restarts' = 0
               PROVE  OwnerInv'
    BY DEF OwnerUntilRestart
  <2>1. OwnerInv /\ ~Restart
    BY CountersGrow DEF OwnerUntilRestart
  <2>2. CASE UNCHANGED vars
    BY <2>1, <2>2 DEF vars, clientVars, netVars, stateVars, OwnerInv, Owns
  <2>3. CASE Next
    BY <2>1, <2>3, ClientOwners, ReadsOwners, ServesOwners, NetworkOwners DEF Next
  <2> QED BY <2>2, <2>3
<1>3. TypeOK /\ OwnerUntilRestart => OnlyOwnersPass
  <2> SUFFICES ASSUME TypeOK, OwnerInv, NEW r \in requests, VerifySession(r.session)
               PROVE  issuedTo[r.session] = r.client
    BY DEF OnlyOwnersPass, OwnerUntilRestart
  <2>1. r.session \in Ids
    BY DEF VerifySession, TypeOK, StateTypeOK
  <2> QED BY <2>1 DEF OwnerInv, Owns, Ids
<1> QED BY <1>1, <1>2, <1>3, TypeCorrect, PTL DEF Spec

-----------------------------------------------------------------------------
(* When nothing is repeated there is at most one datagram of each client,   *)
(* on its way to the server, on its way back, or in the client's queue, and *)
(* none unless the client waits for it.                                    *)

ReqOf(c) == {r \in requests : r.client = c}

AnsOf(c) == {a \in answers : a.client = c}

Fits(c, type) ==
  \/ clientState[c] = 0 /\ type = "CONNECT"
  \/ clientState[c] = 2 /\ type = "LISTUSERS"
  \/ clientState[c] = 3 /\ type = "SENDPLAYERCOMMAND"

AnswerFits(c, a) ==
  /\ a.no = packetNumber[c] - 1
  /\ Fits(c, a.type) \/ (a.type = "ERROR" /\ clientState[c] # 0)

Quiet(c) ==
  /\ where[c] \notin {"waiting", "names"}
  /\ ReqOf(c) = {} /\ AnsOf(c) = {} /\ inbox[c] = <<>>

Asked(c) ==
  /\ where[c] = "waiting"
  /\ AnsOf(c) = {} /\ inbox[c] = <<>>
  /\ \E r : ReqOf(c) = {r} /\ r.no = packetNumber[c] - 1 /\ Fits(c, r.type)

Served(c) ==
  /\ where[c] = "waiting"
  /\ ReqOf(c) = {} /\ inbox[c] = <<>>
  /\ \E a : AnsOf(c) = {a} /\ AnswerFits(c, a)

Arrived(c) ==
  /\ where[c] = "waiting"
  /\ ReqOf(c) = {} /\ AnsOf(c) = {}
  /\ \E a : inbox[c] = <<a>> /\ AnswerFits(c, a)

ExactInv == \A c \in Clients : Quiet(c) \/ Asked(c) \/ Served(c) \/ Arrived(c)

\* All of the system that the four stages of a client speak of.
Part(c) == <<where[c], clientState[c], packetNumber[c], inbox[c], ReqOf(c), AnsOf(c)>>

\* A step of one client's request.
Advance(c) ==
  \/ where[c] = "ready" /\ Quiet(c) /\ (Quiet(c)' \/ Asked(c)')
  \/ Asked(c) /\ Served(c)'
  \/ Served(c) /\ Arrived(c)'
  \/ Arrived(c) /\ Quiet(c)'

OnlyAdvances(c) ==
  /\ Advance(c)
  /\ \A d \in Clients \ {c} : UNCHANGED Part(d)

LEMMA Frame ==
  ASSUME NEW c \in Clients, UNCHANGED Part(c)
  PROVE  /\ Quiet(c) => Quiet(c)'
         /\ Asked(c) => Asked(c)'
         /\ Served(c) => Served(c)'
         /\ Arrived(c) => Arrived(c)'
         /\ Alive(c) <=> Alive(c)'
BY DEF Part, Quiet, Asked, Served, Arrived, Fits, AnswerFits, Alive

LEMMA AsksAdvances ==
  ASSUME TypeOK, ExactInv, NEW c \in Clients, Asks(c)
  PROVE  OnlyAdvances(c)
<1>1. PICK state \in {0, 2, 3}, type \in RequestTypes :
        /\ Ask(c, state, type)
        /\ \/ state = 0 /\ type = "CONNECT"
           \/ state = 2 /\ type = "LISTUSERS"
           \/ state = 3 /\ type = "SENDPLAYERCOMMAND"
  BY DEF Asks, Connect, ListUsers, SendPlayerCommand, RequestTypes
<1>2. where[c] = "ready" /\ Quiet(c)
  BY <1>1 DEF Ask, Become, ExactInv, Asked, Served, Arrived
<1>3. PICK new :
        new = [client |-> c, no |-> packetNumber[c], copy |-> 0,
               type |-> type, packed |-> type, session |-> session[c]]
  OBVIOUS
<1>4. requests' = requests \cup {new} /\ UNCHANGED <<clientState, inbox, answers>>
  BY <1>1, <1>3 DEF Ask, Send
<1>5. packetNumber'[c] - 1 = packetNumber[c]
  BY <1>1 DEF Ask, Send, TypeOK
<1>6. where'[c] = "waiting" /\ clientState[c] = state
  BY <1>1 DEF Ask, Become, TypeOK
<1>7. ReqOf(c)' = {new}
  BY <1>2, <1>3, <1>4 DEF Quiet, ReqOf
<1>8. AnsOf(c)' = {} /\ inbox'[c] = <<>>
  BY <1>2, <1>4 DEF Quiet, AnsOf
<1>9. new.no = packetNumber'[c] - 1 /\ Fits(c, new.type)'
  BY <1>1, <1>3, <1>4, <1>5, <1>6 DEF Fits
<1>10. Asked(c)'
  BY <1>6, <1>7, <1>8, <1>9 DEF Asked
<1>11. ASSUME NEW d \in Clients \ {c} PROVE UNCHANGED Part(d)
  <2>1. ReqOf(d)' = ReqOf(d) /\ AnsOf(d)' = AnsOf(d)
    BY <1>3, <1>4 DEF ReqOf, AnsOf
  <2>2. where'[d] = where[d] /\ packetNumber'[d] = packetNumber[d]
    BY <1>1 DEF Ask, Become, Send, TypeOK
  <2> QED BY <1>4, <2>1, <2>2 DEF Part
<1> QED BY <1>2, <1>10, <1>11 DEF OnlyAdvances, Advance

LEMMA LocalAdvances ==
  ASSUME TypeOK, ExactInv, NEW c \in Clients, Quit(c) \/ Connected(c)
  PROVE  OnlyAdvances(c)
<1>1. where[c] = "ready"
  BY DEF Quit, Connected, Become
<1>2. Quiet(c)
  BY <1>1 DEF ExactInv, Asked, Served, Arrived
<1>3. UNCHANGED <<packetNumber, inbox, requests, answers>>
  BY DEF Quit, Connected, OnlyClient, netVars
<1>4. where'[c] \in {"ready", "quit"}
  BY <1>1 DEF Quit, Connected, Become, TypeOK
<1>5. Quiet(c)'
  BY <1>2, <1>3, <1>4 DEF Quiet, ReqOf, AnsOf
<1>6. ASSUME NEW d \in Clients \ {c} PROVE UNCHANGED Part(d)
  <2>1. where'[d] = where[d] /\ clientState'[d] = clientState[d]
    BY DEF Quit, Connected, Become, TypeOK
  <2> QED BY <1>3, <2>1 DEF Part, ReqOf, AnsOf
<1> QED BY <1>1, <1>2, <1>5, <1>6 DEF OnlyAdvances, Advance

LEMMA ReadsAdvances ==
  ASSUME TypeOK, ExactInv, NEW c \in Clients, Reads(c)
  PROVE  OnlyAdvances(c)
<1>1. inbox[c] # <<>>
  BY DEF Reads, ReadConnect, ReadUsers, ReadCommand, ConvertThrows, AnswerIn
<1>2. Arrived(c)
  BY <1>1 DEF ExactInv, Quiet, Asked, Served
<1>3. PICK a : inbox[c] = <<a>> /\ AnswerFits(c, a)
  BY <1>2 DEF Arrived
<1>4. PICK next \in {"ready", "terminated"} : Read(c, next)
  <2>1. ~(ReadUsers(c) /\ AnswerIn(c, {"CONNECT"}))
    BY <1>3 DEF ReadUsers, AnswerIn, Answer, AnswerFits, Fits
  <2>2. CASE ReadUsers(c)
    BY <2>1, <2>2 DEF ReadUsers
  <2>3. CASE ReadConnect(c)
    BY <2>3 DEF ReadConnect
  <2>4. CASE ReadCommand(c)
    BY <2>4 DEF ReadCommand
  <2>5. CASE ConvertThrows(c)
    BY <2>5 DEF ConvertThrows
  <2> QED BY <2>2, <2>3, <2>4, <2>5 DEF Reads
<1>5. UNCHANGED <<packetNumber, requests, answers>>
  BY <1>4 DEF Read, OnlyClient, netVars
<1>6. where'[c] \in {"ready", "terminated"}
  BY <1>4 DEF Read, Become, TypeOK
<1>7. inbox'[c] = <<>>
  BY <1>3, <1>4 DEF Read, TypeOK
<1>8. Quiet(c)'
  BY <1>2, <1>5, <1>6, <1>7 DEF Arrived, Quiet, ReqOf, AnsOf
<1>9. ASSUME NEW d \in Clients \ {c} PROVE UNCHANGED Part(d)
  <2>1. where'[d] = where[d] /\ inbox'[d] = inbox[d]
    BY <1>4 DEF Read, Become, TypeOK
  <2>2. clientState'[d] = clientState[d]
    <3>1. CASE ReadConnect(c)
      BY <3>1 DEF ReadConnect, TypeOK
    <3>2. CASE ReadUsers(c)
      BY <3>2 DEF ReadUsers, AnswerIn, Read, TypeOK
    <3>3. CASE ReadCommand(c) \/ ConvertThrows(c)
      BY <3>3 DEF ReadCommand, ConvertThrows, TypeOK
    <3> QED BY <3>1, <3>2, <3>3 DEF Reads
  <2> QED BY <1>5, <2>1, <2>2 DEF Part, ReqOf, AnsOf
<1> QED BY <1>2, <1>8, <1>9 DEF OnlyAdvances, Advance

LEMMA ServesAdvances ==
  ASSUME TypeOK, ExactInv, NEW r \in requests, Serves(r)
  PROVE  OnlyAdvances(r.client)
<1>1. r.client \in Clients
  BY DEF TypeOK, Requests
<1>2. PICK c \in Clients : c = r.client
  BY <1>1
<1>3. r \in ReqOf(c)
  BY <1>2 DEF ReqOf
<1>4. Asked(c)
  BY <1>3 DEF ExactInv, Quiet, Served, Arrived
<1>5. ReqOf(c) = {r} /\ r.no = packetNumber[c] - 1 /\ Fits(c, r.type)
  BY <1>3, <1>4 DEF Asked
<1>6. PICK type, s : Reply(r, type, s) /\ (type = r.type \/ (type = "ERROR" /\ r.type # "CONNECT"))
  BY DEF Serves, ConnectHandler, ListUsersHandler, SendPlayerCommandHandler,
         CreateUserHandler, RefuseSession, SendErrorTo
<1>7. PICK a : a = [client |-> r.client, no |-> r.no, copy |-> r.copy,
                    type |-> type, session |-> s]
  OBVIOUS
<1>8. /\ requests' = requests \ {r}
      /\ answers' = answers \cup {a}
      /\ UNCHANGED <<where, clientState, packetNumber, inbox>>
  BY <1>6, <1>7 DEF Reply, clientVars
<1>9. ReqOf(c)' = {}
  BY <1>5, <1>8 DEF ReqOf
<1>10. AnsOf(c)' = {a}
  BY <1>2, <1>4, <1>7, <1>8 DEF Asked, AnsOf
<1>11. AnswerFits(c, a)'
  <2>1. a.no = packetNumber'[c] - 1
    BY <1>5, <1>7, <1>8
  <2>2. Fits(c, a.type)' \/ (a.type = "ERROR" /\ clientState'[c] # 0)
    BY <1>5, <1>6, <1>7, <1>8 DEF Fits
  <2> QED BY <2>1, <2>2 DEF AnswerFits
<1>12. Served(c)'
  BY <1>4, <1>8, <1>9, <1>10, <1>11 DEF Asked, Served
<1>13. ASSUME NEW d \in Clients \ {c} PROVE UNCHANGED Part(d)
  <2>1. ReqOf(d)' = ReqOf(d) /\ AnsOf(d)' = AnsOf(d)
    BY <1>2, <1>7, <1>8 DEF ReqOf, AnsOf
  <2> QED BY <1>8, <2>1 DEF Part
<1>14. OnlyAdvances(c)
  BY <1>4, <1>12, <1>13 DEF OnlyAdvances, Advance
<1> QED BY <1>2, <1>14

LEMMA DeliverAdvances ==
  ASSUME TypeOK, ExactInv, NEW a \in answers, Deliver(a)
  PROVE  OnlyAdvances(a.client)
<1>1. a.client \in Clients
  BY DEF TypeOK, Answers
<1>2. PICK c \in Clients : c = a.client
  BY <1>1
<1>3. a \in AnsOf(c)
  BY <1>2 DEF AnsOf
<1>4. Served(c)
  BY <1>3 DEF ExactInv, Quiet, Asked, Arrived
<1>5. AnsOf(c) = {a} /\ AnswerFits(c, a)
  BY <1>3, <1>4 DEF Served
<1>6. /\ answers' = answers \ {a}
      /\ UNCHANGED <<where, clientState, packetNumber, requests>>
  BY DEF Deliver
<1>7. inbox'[c] = <<a>>
  BY <1>2, <1>4 DEF Deliver, Served, TypeOK
<1>8. AnsOf(c)' = {}
  BY <1>5, <1>6 DEF AnsOf
<1>9. AnswerFits(c, a)'
  BY <1>5, <1>6 DEF AnswerFits, Fits
<1>10. Arrived(c)'
  BY <1>4, <1>6, <1>7, <1>8, <1>9 DEF Served, Arrived, ReqOf
<1>11. ASSUME NEW d \in Clients \ {c} PROVE UNCHANGED Part(d)
  <2>1. AnsOf(d)' = AnsOf(d)
    BY <1>2, <1>6 DEF AnsOf
  <2>2. inbox'[d] = inbox[d]
    BY <1>2 DEF Deliver, TypeOK
  <2> QED BY <1>6, <2>1, <2>2 DEF Part, ReqOf
<1>12. OnlyAdvances(c)
  BY <1>4, <1>10, <1>11 DEF OnlyAdvances, Advance
<1> QED BY <1>2, <1>12

\* The shape of every step: one client's request advances, or none is touched.
LEMMA StepAdvances ==
  ASSUME duplicates' = 0, TypeOK, ExactInv, [Next]_vars
  PROVE  (\E c \in Clients : OnlyAdvances(c)) \/ (\A c \in Clients : UNCHANGED Part(c))
<1>1. CASE UNCHANGED vars \/ Restart
  BY <1>1 DEF vars, Restart, clientVars, netVars, Part, ReqOf, AnsOf
<1>2. CASE Next
  <2>1. ASSUME NEW c \in Clients,
               Asks(c) \/ Reads(c) \/ CreateUser(c) \/ Quit(c) \/ Connected(c)
        PROVE  OnlyAdvances(c)
    <3>1. ~CreateUser(c)
      BY DEF CreateUser, Become, ExactInv, Quiet, Asked, Served, Arrived
    <3> QED BY <2>1, <3>1, AsksAdvances, ReadsAdvances, LocalAdvances
  <2>2. ASSUME NEW r \in requests, Serves(r)
        PROVE  \E c \in Clients : OnlyAdvances(c)
    <3>1. r.client \in Clients
      BY DEF TypeOK, Requests
    <3> QED BY <2>2, <3>1, ServesAdvances
  <2>3. ASSUME NEW a \in answers, Deliver(a)
        PROVE  \E c \in Clients : OnlyAdvances(c)
    <3>1. a.client \in Clients
      BY DEF TypeOK, Answers
    <3> QED BY <2>3, <3>1, DeliverAdvances
  <2>4. ~Repeat
    BY CountersGrow
  <2> QED BY <1>1, <1>2, <2>1, <2>2, <2>3, <2>4 DEF Next
<1> QED BY <1>1, <1>2

LEMMA ExactStep ==
  ASSUME duplicates' = 0, TypeOK, ExactInv, [Next]_vars
  PROVE  ExactInv'
<1>1. ASSUME NEW c \in Clients, UNCHANGED Part(c)
      PROVE  (Quiet(c) \/ Asked(c) \/ Served(c) \/ Arrived(c))'
  BY <1>1, Frame DEF ExactInv
<1>2. ASSUME NEW c \in Clients, Advance(c)
      PROVE  (Quiet(c) \/ Asked(c) \/ Served(c) \/ Arrived(c))'
  BY <1>2 DEF Advance
<1> QED BY <1>1, <1>2, StepAdvances DEF OnlyAdvances, ExactInv

ExactUntilRepeat == duplicates = 0 => ExactInv

LEMMA ExactUntilRepeatInit == Init => ExactUntilRepeat
BY DEF Init, ExactUntilRepeat, ExactInv, Quiet, ReqOf, AnsOf

LEMMA ExactUntilRepeatStep ==
  TypeOK /\ ExactUntilRepeat /\ [Next]_vars => ExactUntilRepeat'
BY CountersGrow, ExactStep DEF ExactUntilRepeat

\* Until something is repeated, what a client reads answers the request it sent
\* last, even if the server is restarted in between.
THEOREM AnswersAreForTheLastRequest == Spec => []AnswersMatchUnlessRepeated
<1>1. ExactUntilRepeat => AnswersMatchUnlessRepeated
  <2> SUFFICES ASSUME ExactInv, NEW c \in Clients, inbox[c] # <<>>
               PROVE  Answer(c).no = packetNumber[c] - 1
    BY DEF AnswersMatch, AnswersMatchUnlessRepeated, ExactUntilRepeat
  <2>1. Arrived(c)
    BY DEF ExactInv, Quiet, Asked, Served
  <2> QED BY <2>1 DEF Arrived, AnswerFits, Answer
<1> QED BY <1>1, ExactUntilRepeatInit, ExactUntilRepeatStep, TypeCorrect, PTL DEF Spec

-----------------------------------------------------------------------------
(* The refinement.                                                         *)

LEMMA StageIs ==
  ASSUME NEW c \in Clients
  PROVE  /\ Quiet(c) => Stage[c] = IF Alive(c) THEN "ready" ELSE "ended"
         /\ Asked(c) => Stage[c] = "asked"
         /\ Served(c) \/ Arrived(c) => Stage[c] = "served"
<1>1. CASE Quiet(c)
  BY <1>1 DEF Quiet, Asked, Served, Arrived, Stage, Alive
<1>2. CASE Asked(c)
  <2>1. \E r \in requests : r.client = c
    BY <1>2 DEF Asked, ReqOf
  <2> QED BY <1>2, <2>1 DEF Quiet, Asked, Served, Arrived, Stage, Alive
<1>3. CASE Served(c)
  <2>1. \E a \in answers : a.client = c
    BY <1>3 DEF Served, AnsOf
  <2>2. ~\E r \in requests : r.client = c
    BY <1>3 DEF Served, ReqOf
  <2> QED BY <1>3, <2>1, <2>2 DEF Quiet, Asked, Served, Arrived, Stage, Alive
<1>4. CASE Arrived(c)
  <2>1. inbox[c] # <<>>
    BY <1>4 DEF Arrived
  <2>2. ~\E r \in requests : r.client = c
    BY <1>4 DEF Arrived, ReqOf
  <2> QED BY <1>4, <2>1, <2>2 DEF Quiet, Asked, Served, Arrived, Stage, Alive
<1> QED BY <1>1, <1>2, <1>3, <1>4

LEMMA StageIsPrimed ==
  ASSUME NEW c \in Clients
  PROVE  /\ Quiet(c)' => Stage'[c] = IF Alive(c)' THEN "ready" ELSE "ended"
         /\ Asked(c)' => Stage'[c] = "asked"
         /\ Served(c)' \/ Arrived(c)' => Stage'[c] = "served"
<1>1. /\ Quiet(c) => Stage[c] = IF Alive(c) THEN "ready" ELSE "ended"
      /\ Asked(c) => Stage[c] = "asked"
      /\ Served(c) \/ Arrived(c) => Stage[c] = "served"
  BY StageIs
<1>2. (/\ Quiet(c) => Stage[c] = IF Alive(c) THEN "ready" ELSE "ended"
       /\ Asked(c) => Stage[c] = "asked"
       /\ Served(c) \/ Arrived(c) => Stage[c] = "served")'
  BY <1>1, PTL
<1> QED BY <1>2

LEMMA StageFrame ==
  ASSUME ExactInv, NEW c \in Clients, UNCHANGED Part(c)
  PROVE  Stage'[c] = Stage[c]
BY Frame, StageIs, StageIsPrimed DEF ExactInv

LEMMA StageStays ==
  ASSUME \A c \in Clients : Stage'[c] = Stage[c]
  PROVE  UNCHANGED Stage
<1>1. Stage = [d \in Clients |-> Stage[d]] /\ Stage' = [d \in Clients |-> Stage'[d]]
  BY DEF Stage
<1> QED BY <1>1

LEMMA StepGoes ==
  ASSUME NEW c \in Clients, NEW from, NEW to, Stage[c] = from, Stage'[c] = to,
         \A d \in Clients \ {c} : Stage'[d] = Stage[d]
  PROVE  Lockstep!Go(c, from, to)
<1>1. Stage = [d \in Clients |-> Stage[d]] /\ Stage' = [d \in Clients |-> Stage'[d]]
  BY DEF Stage
<1>2. Stage' = [Stage EXCEPT ![c] = to]
  BY <1>1
<1> QED BY <1>2 DEF Lockstep!Go

\* A step that repeats nothing is a step of Exchange, or none.
LEMMA StepIsLockstep ==
  ASSUME duplicates' = 0, TypeOK, ExactInv, [Next]_vars
  PROVE  Lockstep!Step \/ UNCHANGED Stage
<1>1. CASE \A c \in Clients : UNCHANGED Part(c)
  BY <1>1, StageFrame, StageStays
<1>2. ASSUME NEW c \in Clients, OnlyAdvances(c)
      PROVE  Lockstep!Step \/ UNCHANGED Stage
  <2>1. \A d \in Clients \ {c} : Stage'[d] = Stage[d]
    BY <1>2, StageFrame DEF OnlyAdvances
  <2>2. CASE where[c] = "ready" /\ Quiet(c) /\ Quiet(c)'
    <3>1. Stage[c] = "ready"
      BY <2>2, StageIs DEF Alive
    <3>2. CASE Alive(c)'
      <4>1. Stage'[c] = "ready"
        BY <2>2, <3>2, StageIsPrimed
      <4>2. \A d \in Clients : Stage'[d] = Stage[d]
        BY <2>1, <3>1, <4>1
      <4> QED BY <4>2, StageStays
    <3>3. CASE ~Alive(c)'
      <4>1. Stage'[c] = "ended"
        BY <2>2, <3>3, StageIsPrimed
      <4> QED BY <2>1, <3>1, <4>1, StepGoes DEF Lockstep!Step, Lockstep!End
    <3> QED BY <3>2, <3>3
  <2>3. CASE where[c] = "ready" /\ Quiet(c) /\ Asked(c)'
    <3>1. Stage[c] = "ready" /\ Stage'[c] = "asked"
      BY <2>3, StageIs, StageIsPrimed DEF Alive
    <3> QED BY <2>1, <3>1, StepGoes DEF Lockstep!Step, Lockstep!Ask
  <2>4. CASE Asked(c) /\ Served(c)'
    <3>1. Stage[c] = "asked" /\ Stage'[c] = "served"
      BY <2>4, StageIs, StageIsPrimed
    <3> QED BY <2>1, <3>1, StepGoes DEF Lockstep!Step, Lockstep!Serve
  <2>5. CASE Served(c) /\ Arrived(c)'
    <3>1. \A d \in Clients : Stage'[d] = Stage[d]
      BY <2>1, <2>5, StageIs, StageIsPrimed
    <3> QED BY <3>1, StageStays
  <2>6. CASE Arrived(c) /\ Quiet(c)'
    <3>1. Stage[c] = "served" /\ Stage'[c] \in {"ready", "ended"}
      BY <2>6, StageIs, StageIsPrimed
    <3> QED BY <2>1, <3>1, StepGoes DEF Lockstep!Step, Lockstep!Read, Lockstep!End
  <2> QED BY <1>2, <2>2, <2>3, <2>4, <2>5, <2>6 DEF OnlyAdvances, Advance
<1> QED BY <1>1, <1>2, StepAdvances
\* Until something is repeated, clients, network and server implement Exchange:
\* each request is served once, its answer is the next thing its client reads.
THEOREM ConversationImplementsExchange == Spec => ImplementsExchange
<1>1. Init => Lockstep!Init
  BY DEF Init, Lockstep!Init, Stage, Alive
<1>2. TypeOK /\ ExactUntilRepeat /\ [Next]_vars
        => [Lockstep!Next]_<<Stage, duplicates > 0>>
  <2> SUFFICES ASSUME TypeOK, ExactUntilRepeat, [Next]_vars
               PROVE  [Lockstep!Next]_<<Stage, duplicates > 0>>
    OBVIOUS
  <2>1. duplicates \in Nat /\ duplicates' \in Nat
    BY TypesStep DEF TypeOK
  <2>2. CASE duplicates' = 0
    <3>1. duplicates = 0 /\ ExactInv
      BY <2>2, CountersGrow DEF ExactUntilRepeat
    <3>2. Lockstep!Step \/ UNCHANGED Stage
      BY <2>2, <3>1, StepIsLockstep
    <3> QED BY <2>2, <3>1, <3>2 DEF Lockstep!Next
  <2>3. CASE duplicates' # 0
    BY <2>1, <2>3 DEF Lockstep!Next, Lockstep!AfterRepetition
  <2> QED BY <2>2, <2>3
<1> QED BY <1>1, <1>2, ExactUntilRepeatInit, ExactUntilRepeatStep, TypeCorrect, PTL
       DEF Spec, ImplementsExchange, Lockstep!Spec

-----------------------------------------------------------------------------
(* When also the server keeps running, every session in use is open, and no *)
(* request is refused.                                                     *)

LiveInv ==
  /\ \A c \in Clients :
       /\ where[c] # "terminated"
       /\ clientState[c] # 0 => session[c] \in sessions
       /\ \A i \in 1 .. Len(inbox[c]) : inbox[c][i].type # "ERROR"
       /\ \A i \in 1 .. Len(inbox[c]) :
            inbox[c][i].type = "CONNECT" => inbox[c][i].session \in sessions
  /\ \A r \in requests : r.type # "CONNECT" => r.session \in sessions
  /\ \A a \in answers :
       a.type # "ERROR" /\ (a.type = "CONNECT" => a.session \in sessions)

LEMMA ClientLive ==
  ASSUME TypeOK, ExactInv, LiveInv, NEW c \in Clients,
         Asks(c) \/ Quit(c) \/ Connected(c)
  PROVE  LiveInv'
<1>1. CASE Asks(c)
  <2>1. PICK state \in {0, 2, 3}, type \in RequestTypes :
          Ask(c, state, type) /\ (state = 0 => type = "CONNECT")
    BY <1>1 DEF Asks, Connect, ListUsers, SendPlayerCommand, RequestTypes
  <2>2. Ask(c, state, type) /\ (type # "CONNECT" => clientState[c] # 0)
    BY <2>1 DEF Ask
  <2>3. ASSUME NEW r \in requests', r.type # "CONNECT" PROVE r.session \in sessions
    <3>1. CASE r \in requests
      BY <2>3, <3>1 DEF LiveInv
    <3>2. CASE r \notin requests
      <4>1. r.type = type /\ r.session = session[c]
        BY <2>2, <3>2, NewRequest DEF Ask
      <4> QED BY <2>2, <2>3, <4>1 DEF LiveInv
    <3> QED BY <3>1, <3>2
  <2>4. \A d \in Clients : where'[d] # "terminated"
    BY <2>1 DEF Ask, Become, LiveInv, TypeOK
  <2> QED BY <2>1, <2>3, <2>4 DEF Ask, Send, stateVars, LiveInv
<1>2. CASE Quit(c) \/ Connected(c)
  <2>1. UNCHANGED <<session, inbox, requests, answers, sessions>>
    BY <1>2 DEF Quit, Connected, OnlyClient, netVars, stateVars
  <2>2. \A d \in Clients : where'[d] # "terminated"
    BY <1>2 DEF Quit, Connected, Become, LiveInv, TypeOK
  <2>3. \A d \in Clients : clientState'[d] # 0 => clientState[d] # 0
    BY <1>2 DEF Quit, Connected, TypeOK
  <2> QED BY <2>1, <2>2, <2>3 DEF LiveInv
<1> QED BY <1>1, <1>2

LEMMA ReadsLive ==
  ASSUME TypeOK, ExactInv, LiveInv, NEW c \in Clients, Reads(c)
  PROVE  LiveInv'
<1>1. inbox[c] # <<>>
  BY DEF Reads, ReadConnect, ReadUsers, ReadCommand, ConvertThrows, AnswerIn
<1>2. Arrived(c)
  BY <1>1 DEF ExactInv, Quiet, Asked, Served
<1>3. PICK a : inbox[c] = <<a>> /\ AnswerFits(c, a)
  BY <1>2 DEF Arrived
<1>4. a.type # "ERROR" /\ (a.type = "CONNECT" => a.session \in sessions)
  BY <1>3 DEF LiveInv
<1>5. Answer(c) = a
  BY <1>3 DEF Answer
<1>6. ~ConvertThrows(c)
  BY <1>3, <1>4, <1>5 DEF ConvertThrows, AnswerIn, AnswerFits, Fits
<1>7. PICK next \in {"ready", "names"} : Read(c, next)
  BY <1>6 DEF Reads, ReadConnect, ReadUsers, ReadCommand
<1>8. UNCHANGED <<requests, answers, sessions>>
  BY <1>7 DEF Read, OnlyClient, netVars, stateVars
<1>9. \A d \in Clients : where'[d] # "terminated"
  BY <1>7 DEF Read, Become, LiveInv, TypeOK
<1>10. inbox' = [inbox EXCEPT ![c] = <<>>]
  BY <1>3, <1>7 DEF Read
<1>11. \A d \in Clients : inbox'[d] = inbox[d] \/ inbox'[d] = <<>>
  BY <1>10 DEF TypeOK
<1>12. ASSUME NEW d \in Clients, clientState'[d] # 0
       PROVE  session'[d] \in sessions
  <2>1. CASE ReadConnect(c) /\ a.type = "CONNECT"
    <3>1. /\ session' = [session EXCEPT ![c] = a.session]
          /\ clientState' = [clientState EXCEPT ![c] = 1]
      BY <1>5, <2>1 DEF ReadConnect
    <3> QED BY <1>4, <1>12, <2>1, <3>1 DEF LiveInv, TypeOK
  <2>2. CASE ReadConnect(c) /\ a.type # "CONNECT"
    BY <1>5, <1>12, <2>2 DEF ReadConnect, LiveInv
  <2>3. CASE ReadUsers(c)
    BY <1>12, <2>3 DEF ReadUsers, AnswerIn, Read, LiveInv, TypeOK
  <2>4. CASE ReadCommand(c)
    BY <1>12, <2>4 DEF ReadCommand, LiveInv
  <2> QED BY <1>6, <2>1, <2>2, <2>3, <2>4 DEF Reads
<1> QED BY <1>8, <1>9, <1>11, <1>12 DEF LiveInv

LEMMA ServesLive ==
  ASSUME TypeOK, ExactInv, LiveInv, NEW r \in requests, Serves(r)
  PROVE  LiveInv'
<1>1. r.client \in Clients /\ r.session \in Sessions
  BY DEF TypeOK, Requests
<1>2. r.type # "CREATEUSER"
  <2>1. r \in ReqOf(r.client)
    BY DEF ReqOf
  <2>2. Asked(r.client)
    BY <1>1, <2>1 DEF ExactInv, Quiet, Served, Arrived
  <2> QED BY <2>1, <2>2 DEF Asked, Fits
<1>3. ~CreateUserHandler(r) /\ ~RefuseSession(r)
  BY <1>2 DEF CreateUserHandler, RefuseSession, VerifySession, LiveInv
<1>4. PICK type, s :
        /\ Reply(r, type, s) /\ type # "ERROR"
        /\ sessions \subseteq sessions'
        /\ type = "CONNECT" => s \in sessions'
  <2>1. CASE ConnectHandler(r)
    <3>1. sessions \subseteq sessions' /\ GeneratedId(r.session) \in sessions'
      BY <2>1 DEF ConnectHandler, GenerateSession, GeneratedId, VerifySession, stateVars
    <3> QED BY <2>1, <3>1 DEF ConnectHandler
  <2>2. CASE ListUsersHandler(r)
    BY <2>2 DEF ListUsersHandler, GetSessionAccountName
  <2>3. CASE SendPlayerCommandHandler(r)
    BY <2>3 DEF SendPlayerCommandHandler, stateVars
  <2> QED BY <1>3, <2>1, <2>2, <2>3 DEF Serves
<1>5. UNCHANGED clientVars /\ requests' \subseteq requests
  BY <1>4 DEF Reply
<1>6. ASSUME NEW a \in answers'
      PROVE  a.type # "ERROR" /\ (a.type = "CONNECT" => a.session \in sessions')
  <2>1. CASE a \in answers
    BY <1>4, <2>1 DEF LiveInv
  <2>2. CASE a \notin answers
    BY <1>4, <2>2, NewAnswer
  <2> QED BY <2>1, <2>2
<1> QED BY <1>4, <1>5, <1>6 DEF clientVars, LiveInv

LEMMA DeliverLive ==
  ASSUME TypeOK, ExactInv, LiveInv, NEW a \in answers, Deliver(a)
  PROVE  LiveInv'
<1>1. a.client \in Clients
  BY DEF TypeOK, Answers
<1>2. Served(a.client)
  <2>1. a \in AnsOf(a.client)
    BY DEF AnsOf
  <2> QED BY <1>1, <2>1 DEF ExactInv, Quiet, Asked, Arrived
<1>3. inbox' = [inbox EXCEPT ![a.client] = <<a>>]
  BY <1>2 DEF Deliver, Served
<1>4. ASSUME NEW c \in Clients, NEW i \in 1 .. Len(inbox'[c])
      PROVE  /\ inbox'[c][i].type # "ERROR"
             /\ inbox'[c][i].type = "CONNECT" => inbox'[c][i].session \in sessions
  <2>1. CASE c = a.client
    <3>1. inbox'[c] = <<a>>
      BY <1>1, <1>3, <2>1 DEF TypeOK
    <3>2. inbox'[c][i] = a
      BY <1>4, <3>1
    <3> QED BY <3>2 DEF LiveInv
  <2>2. CASE c # a.client
    <3>1. inbox'[c] = inbox[c]
      BY <1>3, <2>2 DEF TypeOK
    <3> QED BY <1>4, <3>1 DEF LiveInv
  <2> QED BY <2>1, <2>2
<1> QED BY <1>4 DEF Deliver, stateVars, LiveInv

LiveUntilFault == (duplicates = 0 /\ restarts = 0) => LiveInv

\* No client ends with an exception while nothing is repeated and the server
\* is not restarted.
THEOREM ClientsLive == Spec => []NobodyTerminates
<1>1. Init => LiveUntilFault
  BY DEF Init, LiveUntilFault, LiveInv
<1>2. TypeOK /\ ExactUntilRepeat /\ LiveUntilFault /\ [Next]_vars => LiveUntilFault'
  <2> SUFFICES ASSUME TypeOK, ExactUntilRepeat, LiveUntilFault, [Next]_vars,
                      duplicates' = 0, restarts' = 0
               PROVE  LiveInv'
    BY DEF LiveUntilFault
  <2>1. ~Restart /\ ~Repeat /\ ExactInv /\ LiveInv
    BY CountersGrow DEF ExactUntilRepeat, LiveUntilFault
  <2>2. CASE UNCHANGED vars
    BY <2>1, <2>2 DEF vars, clientVars, netVars, stateVars, LiveInv
  <2>3. CASE Next
    <3>1. \A c \in Clients : ~CreateUser(c)
      BY <2>1 DEF CreateUser, Become, ExactInv, Quiet, Asked, Served, Arrived
    <3> QED BY <2>1, <2>3, <3>1, ClientLive, ReadsLive, ServesLive, DeliverLive DEF Next
  <2> QED BY <2>2, <2>3
<1>3. LiveUntilFault => NobodyTerminates
  BY DEF LiveUntilFault, LiveInv, NobodyTerminates
<1> QED BY <1>1, <1>2, <1>3, ExactUntilRepeatInit, ExactUntilRepeatStep, TypeCorrect,
           PTL DEF Spec
=============================================================================
