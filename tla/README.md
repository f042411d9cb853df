# Celegraph: a TLA+ model of the server and its clients

Celegraph is a small game server written in C++ (`src/`), a command line client
for it, and an account store on SQLite. Server and client exchange MessagePack
packets over UDP. This directory holds TLA+ modules that model the program, the
TLC configurations that check them on small instances, and theorems about them
that TLAPS proves for every value of the constants.

`PROJECT.json` maps every definition to the source lines it stands for, and
names for each checked property a mutation of the code that breaks it.

## 1. The system

| Component | State | Operations | Interacts through |
|---|---|---|---|
| **Packet queue and worker pool** (`Server.cpp` `Run`, `WorkerThread`, `GetPacketQueueSize`) | `packetQueue`, `packetQueueMutex`, `packetQueueSyncVar`, one local packet per worker | main receives, pushes and notifies; each worker waits, copies, pops and handles; the shell reads the length | shared memory between main, 4 detached workers and the shell; UDP in |
| **Session table** (`ServerState.cpp`) | `curSession`, `sessions`, `activeSessions`, `sessionAccounts` | generate, verify, disconnect, select, command | called by the handlers, which hold `serverStateMutex` |
| **Handlers, connections, broadcast** (`Server.cpp`) | `activeConnections`, `activeConnectionsMutex`, `serverStateMutex` | one handler per packet type, `BroadcastToConnections`, `SendMessageToConnection` | run on workers, side by side; UDP out |
| **Administrator shell** (`AdminShell.cpp`) | a line of input | `/shutdown`, `/list`, `/db`, `/h`, `/s` | its own thread: reads the queue's length, broadcasts, ends the process |
| **Client** (`Client.cpp`) | a packet queue, a mutex, a condition variable, `session`, `clientState` | a listener thread; a request and answer loop | UDP; the same wait and unlock habits as the server |
| **Wire format and helpers** (`Utils.cpp`, `Packets.h`) | none | header, size, pack and unpack, tokens, sanitisers | called by all |
| **Account store** (`SQLConnector.cpp`, `User.cpp`, `db/init_db.sql`, `db/init_db.sh`) | one SQLite file: two tables, a view, a counter each | initialise, insert account, insert user, lists, any SQL | several processes on one file: the server's shell, programs like the unit tests, the installer; `CREATEUSER` in the future |
| Unit tests, website, Docker, build files | - | - | - |

What makes it hard:

- **Concurrency.** In the server six threads share three mutexes, in the client two
  share one. The queue's mutex is
  unlocked by name under a `unique_lock`; `wait` has no predicate; the connect
  handler uses two mutexes one after the other, the command handler nests them.
- **Ordering and delivery.** UDP loses, repeats and reorders. Workers serve
  packets of one client side by side, so even packets that arrive in order are
  handled in any order.
- **Failure.** `exit()` under running workers, exceptions that leave a thread,
  tokens read that are not there, a server restart that counts sessions from 1
  again while clients live on.
- **Waiting.** No timeout and no retry anywhere; SQLite is not told to wait for a
  lock either.
- **Sharing.** The database's script runs without a transaction while others use
  the tables.

What makes each component correct:

- the queue: one thread inside at a time; packets served in order, each once;
  none left behind; nobody stuck (the first three do not hold of this code as it
  is: section 5);
- the session table: ids issued in order, never reissued; a character only for
  an open session;
- the handlers: the session table and the connections agree; a message for a
  session reaches the client that was told of it and nobody else; a broadcast
  misses no client that knows its open session; requests finish;
- the client: an answer is read as the answer to its request; it does not wait
  for ever for an answer that came;
- the wire format: what is packed is unpacked; sizes fit;
- the commands: a line is split into its fields; what is relayed is the rest of
  the line; a short line with a text ends nobody;
- the account store: an insert hands back the id of its own row; the tables are
  whole when others use them.

## 2. The plan

Done, in this order:

1. `PacketQueue` and its abstract promise `PacketPool`; `PacketQueueProofs`.
2. `ServerState`, `Server` and the abstract `SessionLifecycle`; `ServerProofs`.
3. `Client`, against the same `PacketPool`; `ClientProofs`.
4. `Conversation`: clients, network and server composed over `ServerState`, and
   the abstract `Exchange`; `ConversationProofs`.
5. `Wire`: the header of a datagram and the receiver's buffer; `WireProofs`.
6. `Commands`: a typed line through `Tokenfy`, its verb, and the relay that wraps
   it and may make it too large for the listeners; `CommandsProofs`.
7. `SQLConnector`: several processes on one database, one action per SQL
   statement; `SQLConnectorProofs`.
8. What the abstract modules promise, proved once and carried over to what
   implements them (`PacketPoolProofs`); the abstract `AccountStore`; the life of
   ids in `Conversation`; and, for each liveness property, the safety property
   at its core.

What could follow, most useful first:

9. `Conversation` with broadcasts, which the client's listener handles past the
   queue.
10. A backup taken while others write (`db/Backup.sh` reads the file twice).
11. A session with an account, once the code stores one (`SetSessionAccountName`
    has no caller).

## 3. The modules

### PacketQueue, PacketPool

One variable per shared object (`mutex`, `queue`), the program counters of main,
workers and shell in `pc`, and the local packet of each worker in `hand`.
`arrived` numbers the datagrams, so the order of service can be stated. The
histories `taken`, `robbed`, `lostNotifies` and `spurious` feed no guard. One action per access to
shared memory: `MainReceive`, `MainLock`, `MainPush`, `MainUnlock`, `MainNotify`
are `Run`'s loop; `WorkerLock`, `WorkerWait`, `WorkerRelock`, `WorkerFront`,
`WorkerPop`, `WorkerUnlock`, `WorkerHandle`, `WorkerReturn` are the worker's.
`WorkerReturn` is the implicit second unlock at the end of the loop body.

Undefined behaviour ends the run: `EmptyAccess` (front or pop of an empty
deque), `DataRace` (two threads inside the queue, one of them writing),
`AdminShutdown` (`exit`) and `WorkerThrow` (an exception leaves the thread) set
`process`, and nothing happens afterwards. A property is therefore about the
program up to its first undefined step.

What `unlock` does for a thread that does not own the mutex is undefined in C++.
The default mutexes of glibc and musl, for which the program is built, do not ask
who unlocks them: `Unlock` frees the mutex in every case. When another thread
holds it by then, that thread is robbed of it, and `robbed` remembers that this
has happened. Exclusion and order are stated up to there: every second unlock
that comes while the mutex is free, and there are many of them, is harmless.
`spurious` counts the returns of `wait()` that nobody notified.

`PacketPool` is the promise: accept, take the oldest, finish. It ends with what
follows from the promise (`EveryPacketIsSomewhere`, `ServedOnce`), and so holds
of the queue here and of the client's.

### ServerState, SessionLifecycle, Server

`ServerState` is the session table, one operator per method. `Server` extends it
with the handlers. A handler that takes one mutex and asks for nothing else is
one action: nobody sees the middle of it, since every other access to the same
data takes the same mutex. `ConnectHandler` is three actions (its two critical
sections and the reply), a command is cut where it asks for the second mutex
while it holds the first, and a broadcast is one action per datagram.

| Action | Code |
|---|---|
| `NoEffectPacket` | unknown types, packets that do not convert, stubs, `GenericHandler`, `AckHandler`, `CreateUserHandler` |
| `RefuseSession` | the early return of a handler whose `VerifySession` fails |
| `DisconnectHandler`, `ListUsersHandler`, `SelectUserHandler` | the handlers of these names |
| `ConnectGenerate`, `ConnectRegister`, `ConnectReply` | `ConnectHandler` |
| `CommandAccept`, `CommandPrint`, `SendMessageToConnection`, `BroadcastLock/Next/End`, `CommandReply` | `SendPlayerCommandHandler`, `PlayerCommand` and the two senders |
| `AdminType`, `AdminPrompt` | one round of the shell's loop |
| `CommandUndefined` | a token or a text read that is not there |

A broadcast walks the live map, as the iterator of the code does: `visited` is
where it is, `Ahead` what it has not come to yet. A connection another worker
inserts there would be visited.

A datagram that waits and one that is still under way are the same to the
handlers, so `Server` has no network: any idle worker may start on any packet.
That includes every loss, repetition and reordering. `Carried` says which ids a
packet may carry: with `StrayIds`, any; without, 0 and those its sender was
told. `told` is a history of the CONNECT replies; apart from `Carried` (a client
can only use what it was told) no guard reads it.

`SessionLifecycle` is the promise about ids: unissued, open, selected, closed,
issued in order, never back. `ServerState` maps the table to it
(`SessionStatus`), for `Server` and for `Conversation`.

`UnderWay`, `CanGoOn` and `StepsLeft` describe a request under way: whether it has to
wait for a mutex, and how many steps it still takes at most. The properties
`NoCircularWait` and `RequestsShorten` are about these.

### Client

The listener and the main thread of `Client.cpp`, built like `PacketQueue`: one
action per access to shared memory, undefined behaviour ends the run. The
listener is `ListenerReceive/Lock/Push/Unlock/Notify`, `WaitOnPacketQueue` is
`WaitLock/Wait/Relock/Front/Pop/PopUnlock/Return`, and main's loop is what is
around them: `Connect`, `ListUsers`, `CreateUser`, `SendPlayerCommand` send,
`ReadConnect`, `ReadUsers`, `ReadCommand` read, `ConvertThrows` is the exception
of a `convert` to the wrong class. Any packet of the server may arrive at any
time. The abstract promise is `PacketPool` again.

### Conversation, Exchange

What `Client` leaves open: which request an answer belongs to. Several clients,
each with its queue (`inbox`), the server with the session table of
`ServerState`, and the network as two sets of datagrams. `Deliver` and the
handlers take any datagram, so they are reordered and delayed at will; a lost one
is never taken; `Repeat` copies one; `Restart` empties the session table, as a
new process does. Here a handler is one step, because only its one access to the
session table decides its answer. The number in an answer is a history: the
server's CONNECT and ERROR answers carry 0, and the client compares none.
`CreateUser` sends the packet with the object of the LISTUSERS request in it,
as the code does, and `CreateUserHandler` cannot convert it.

`Exchange` is what the code of the client takes for granted: ask, be served
once, read the answer. It is promised until a datagram is repeated.

### Wire

`SendDataTo` builds a datagram. `ReceivePacketFrom(n)` puts the first `n` bytes of
it into a buffer that held anything before, as far as they fit; nobody looks at
the result of `recvfrom`, so `n` may be less than the datagram has, and 0 is a
call that failed. `came` remembers it. `GetDataFromPacket` takes as many bytes as
the header in the buffer says. If it says too many, the empty string is unpacked
in their place, which throws; what did not come whole may be no object and throw
as well (`UnpackThrows`).

### Commands

One line at a time, since all there is of it is in locals of its thread:
`AdminTypes`, or `PlayerTypes` and then `ServerReceives`, `PacketLost` or
`WorkerThrows`. `Tokenfy` is its loop, one round an action (`NextToken`,
`LastToken`); a token is the positions of its first and last character, so an
empty one has a place. `SayCommand`, `AdminHelp`, `PlayerHelp` and the actions
without a text are the branches on the verb; `ReadFrom` is a read of a C string,
undefined behind its terminator. `Relay` wraps the text in up to `Envelope`
characters and packs it with up to `Packing` bytes; who hears it is a choice.
`Server` has the locks and the addressees of the same commands.

### SQLConnector

Three kinds of process share the tables: `Clients` call the class's methods as
the unit tests do, `Shell` is the server's shell, `Installer` feeds `init_db.sql`
to the command line tool. The state is the tables that exist, their rows and the
counter of `AUTOINCREMENT`; each process has its place (`pc`), the statement of
the script it is at, its connection's last rowid and the id it was returned.

| Action | Code |
|---|---|
| `ScriptBegins`, `ScriptStatement`, `ScriptReturns`, `ScriptFails` | `ExecuteSqlFile`: each statement of `init_db.sql` is committed by itself, the first error ends it |
| `ScriptUnreadable` | `ExecuteSqlFile` of a file that cannot be opened: the empty script succeeds, and the method returns true |
| `InstallerGoesOn` | `init_db.sh`: the tool goes on after an error |
| `InsertAccount`, `ReadRowid` | `InsertAccount` up to `exec()`, and `getLastInsertRowid()` |
| `InsertUser` | the method, with any number of `Given` for the account; its rowid is returned to nobody who keeps it, so it is one step |
| `ListAccountsThrows` | `/list accounts` when the statement fails |
| `ExecuteDelete`, `ExecuteDrop` | `/db delete ...`, `/db drop table ...` |

A call that fails and changes nothing (a name that is taken or does not pass the
sanitisers, a lock) is no step. SQLite itself is external: one statement is one
step, `AUTOINCREMENT` never issues an id twice while the table lives, a
connection knows its own last rowid. Each row has a number and the era of its
table as histories, and a user whether the id of its account had been issued when
it was inserted (`early`); they feed no guard but the bounds. `unread` are the
processes whose script could not be read.

`AccountStore` is the promise about accounts: an insertion and the id it returns
are one step, names are unique, and no id is issued twice until everything is
forgotten. The mapping takes a process for told as soon as its insertion is
executed (`IdOf`): the id it will read is that of its connection.

## 4. What is checked

| Run | Instance | Shows |
|---|---|---|
| `queue_until_robbed` | 3 workers, 4 packets, spurious wakeups, symmetric workers | `TypeOK`, `ExclusionUntilRobbed`, `InOrderUntilRobbed`, `BacklogIsLostWakeups`, `ImplementsPool` |
| `queue_nobody_stuck` | 2 workers, 3 packets, spurious wakeups, fairness | `NobodyStuck` |
| `queue_lost_wakeup` | 2 workers, 2 packets, fairness | **violates** `QueuedIsTaken` |
| `queue_double_unlock` | 2 workers, 3 packets | **violates** `MutualExclusion` |
| `server_any_packet` | 3 workers, 1 client, 2 ids, any id in any packet | `TypeOK`, `SelectedAreOpen`, `OpenIsConnected`, `NoCircularWait`, `ImplementsLifecycle`, `RequestsShorten` |
| `server_told_ids` | 2 workers, 2 clients, 2 ids, clients use their ids | `ToldReachesClient`, `BroadcastReachesTold`, `NewIdsAreOpen` |
| `server_requests_finish` | 2 workers, 1 client, 1 id, fairness | `RequestsFinish` |
| `client_queue` | 3 packets, spurious wakeups, fairness | `TypeOK`, `MutualExclusion`, `BacklogIsLostWakeups`, `ImplementsPool`, `SleeperReads` |
| `conversation_faults` | 2 clients, 4 packets each, 1 repetition, 2 restarts | `TypeOK`, `AnswersMatchUnlessRepeated`, `ConnectAnswerIsConnect`, `NobodyTerminates`, `OnlyOwnersPass`, `ImplementsExchange` |
| `wire_faithful` | payloads of 1 to 5 bytes, 3 fit, any part of a datagram, any old buffer | `TypeOK`, `ReadIsSent`, `FittingIsRead` |
| `commands_lines` | every line of up to 6 characters of 4, 2 clients, packets of 6, 1 for packing, 4 for wrapping | `TypeOK`, `TokensAreFields`, `TextIsRest`, `ShortLinesHarmNobody`, `SplitEnds` |
| `accounts_shared` | 2 programs, the shell, the installer, 2 valid names and 1 invalid, users for account 1, 3 rows, 2 incarnations of the table account | `TypeOK`, `OwnRowid`, `UserBelongs`, `RenewedIsNew`, `MissingIsExplained` |

`conversation_faults` tells which of the client's beliefs survive which fault:

| | loss, delay, reordering | a repetition | a restart |
|---|---|---|---|
| an answer is the one to the last request | yes | no | yes |
| the answer to a CONNECT is a CONNECT, if the type is right | yes | yes | yes |
| an id passes only for its owner | yes | yes | no |
| every answer converts | yes | no | no |

**Bounds.** Queue: the interesting cases need a worker inside the queue, one
asleep or woken and one that returns: three workers, and four packets, so that a
second round begins. Exclusion is lost with two workers already, so the properties
up to there see both sides of it. `NobodyStuck` has two workers
and three packets, enough for every pair of program counters around the mutex. The lost wakeup and the second unlock already show with
two workers. Server: a conflict over one session needs two workers that handle
packets and the shell; the third worker in `server_any_packet` lets a command
hold both mutexes meanwhile, while
another one is queueing for the second. Two ids are needed to mix sessions up, two clients
to mix addresses up. `RequestsFinish` needs one id only: it is about the mutexes.
Conversation: a client sends four packets, enough to get through its three
states and ask once more; one repetition is enough to put it one answer behind;
after the second restart ids are issued for the third time. Wire: a payload may
be shorter than the buffer, fill it, or be one or two bytes too long, and any
number of its bytes may come, from none to all. Commands:
six characters are two more than a line that is safe at these sizes, and enough
for a verb, a recipient, a text and empty tokens between them. Accounts: two initialisations overlap each other, a row from before and
one from in between; the third row lets an account be deleted and another be
created for the user of the first. `Given` is {1}, the literal `UnitTest.cpp:101`
passes and the first id there is: it is given before it was issued, while its
account lives, after it was deleted and after the table was created anew. Programs and valid names are symmetric.
`MaxPackets`, `MaxSessions`, `MaxRows` and `MaxEras` bound counters the code does
not bound, `MaxLine` the lines typed, `MaxDuplicates` and `MaxRestarts` the
faults; `MaxPayload` is what `sendto` takes in one datagram. The theorems hold for every value of them.

**Deadlock.** The check for deadlock is off: a process may end (in `Commands` by
an exception or an undefined read), and in `PacketQueue`, `Client`,
`Conversation` and `SQLConnector` a bound stops what arrives. `RequestsFinish`,
`NobodyStuck`, `SleeperReads` and `SplitEnds` say what should not stop.

**Fairness.** Weak fairness on the steps of a thread: the scheduler runs a
thread that can run. Strong fairness on the acquisition of a mutex: `unlock`
wakes a waiter, and every holder leaves after a bounded number of steps, so a
waiter finds the mutex free again and again and is not passed over for ever.
(A mutex that never favours a waiter over newcomers would not justify this; the
standard leaves it open and the usual implementations do so in practice.)
In `Commands` a thread in `Tokenfy` goes on with its loop (`SplitEnds`).
A worker that finds the queue empty at `front()` goes on as well, into undefined
behaviour (`EmptyAccess`). Nothing is assumed of datagrams, commands, spurious wakeups or crashes.

## 5. Where the code differs from what is said of it

1. **Lost wakeups** (`queue_lost_wakeup`). `notify_one` while no worker sleeps is
   forgotten and the packet stays queued. `BacklogIsLostWakeups` shows the exact
   cost: each lost wakeup makes the queue one packet longer, until a spurious one.
2. **Second unlock** (`queue_double_unlock`). Two threads get into `packetQueue`
   once a worker's second unlock has taken the mutex from one that held it. Up to
   that moment exclusion, order and the pool's promise hold, as is proved.

The models show more that a reader of the code should know:

- A worker that wakes without a notification takes a packet that was lost before,
  or reads an empty queue if none was: `NoEmptyPop` holds while no more wakeups
  were spurious than lost, and fails without that condition.
- Disconnected sessions keep their connection and are sent broadcasts and
  messages, though the comment at `Server.cpp:367` says "effectively
  disconnecting it from the server". No property asks for that: of a closed
  session `ToldReachesClient` says only that its messages reach nobody but the
  client that was told it, and `BroadcastReachesTold` says nothing.
- After one repeated datagram a client reads every answer one request late: check
  `AnswersMatch` in `conversation_faults` and it fails. Nobody compares numbers,
  though `Client.cpp:198` says "Wait for the response".
- A line that fits a packet may end every other client: put into "Client n: ..."
  it no longer fits, each listener unpacks an empty string, which throws
  (`Server.cpp:206-289`). `Short` says which lines cannot; drop its second
  conjunct and TLC shows one that does.
- `/s`, `/s 1` and the shell's `/h` read what is not there; with any text behind
  them, even an empty one, the reads are defined (`TextIsRest`). "/h" of a player
  looks first (`ServerState.cpp:69`), the shell does not. `Complete` says which
  lines have what is read; drop it from `ShortLinesHarmNobody` and "/s" is found.
- On a fresh database, or while somebody initialises it, `/list accounts` ends
  the server: `GetAccounts` throws and nobody catches it.
- A user inserted for an id that no account has yet, as `UnitTest.cpp:101` may do
  with its literal 1, is listed under the account that is issued that id later.
  `UserBelongs` holds of all others.
- A script that cannot be opened is the empty script: `ExecuteSqlFile` returns true
  and every old row is left (`SQLConnector.cpp:25-31`, `ScriptUnreadable`).
- A failed or short `recvfrom` is not noticed (`Utils.cpp:283`): old bytes are
  decoded as a new packet. `ReadIsSent` says what can be relied on all the same.
- After an initialisation an id returned before means another account: a user
  inserted with it is listed under that one. `UserBelongs` and `OwnRowid` hold
  as long as the table lives, and say so by its era.
- Two initialisations at a time, or one and an installer, may leave tables out
  and still return true: `RenewedIsNew` promises the tables only to who was alone.
- `User`'s constructor drops its arguments (`User.cpp:12-18`), so the names that
  `InsertUser` stores are empty.
- A client that holds two sessions, because its CONNECT was repeated, is sent its
  own broadcast on the other one, though the comment at `Server.cpp:224` says
  "Don't broadcast to the originator of the message": the loop skips one id.
- The reply to a *repeated* CONNECT may announce an id that a DISCONNECT has
  closed in between. For a new id this cannot happen (`NewIdsAreOpen`).
- The client loses wakeups like the server. `BacklogIsLostWakeups` of `Client`
  says that from then on it is one answer behind for good, even on a perfect
  network, until a spurious wakeup; if no further packet comes it waits for ever.
- The client's second unlock does no harm: with two threads `MutualExclusion`
  holds all the same, until `wait()` has returned unnotified.
- A restarted server issues the ids its old clients still use
  (`ServerState.cpp:15`): make `OnlyOwnersPass` unconditional and one restart
  violates it.
- CREATEUSER never reaches the server: `Client.cpp:225` sends the buffer of the
  LISTUSERS request.
- "Ignoring packet and continuing" (`Utils.cpp:298`) is not what happens to a
  packet that is too large: the empty string is unpacked, which throws, and
  nobody catches it (`UnpackThrows`).

## 6. What is proved

`PacketPoolProofs` (the abstract pool): `NothingIsLost` and `NoneServedTwice`, from
one invariant, that the backlog is the last packets to have come and the others
are in service or finished. Both queues inherit them below, through their
refinements.

`PacketQueueProofs` (any number of workers and packets):

- `TypeCorrect`: `Spec => []TypeOK`. `TypeInv` adds to `TypeOK` that main has
  received a packet once it is past `recvfrom`, so what it pushes is a number.
- `BacklogAccounted`, `PopsFindPackets`, whatever becomes of the mutex.
  `BacklogIsLostWakeups` is inductive with the types, since each step moves a
  packet or a wakeup between two of its terms; that no worker reads an empty queue
  while no more wakeups were spurious than lost follows from it.
- `QueueExclusion`, `ServedInOrder`, `QueueImplementsPool`: until a second unlock
  takes the mutex from a thread that holds it. `LockInv` says who owns the mutex at
  each program counter; it is kept by every unlock but that one
  (`LockUntilRobbed`). `OrderInv` says that the queue continues `taken` without a
  gap (one packet may be copied and not yet popped), that main holds at most one
  more, and that no two workers hold the same. The refinement takes each step to
  an `Accept`, `Take` or `Finish`, or to a stutter. Since the code does lose
  exclusion afterwards (finding 2), the condition cannot be dropped; it is on what
  has happened, not on the mutex.
- `QueueLosesNothing`, `QueueServesOnce`: what the pool promises, of the threads
  and the deque, from the refinement and `PacketPoolProofs`, up to the same moment.
- `NobodyKeepsTheMutex`, with no hypothesis: a locked mutex belongs to a thread
  between its lock and its unlock (`LockedIsInside`). The second unlock can free
  a mutex too early, but nothing leaves one locked that nobody will free. It is
  inductive with the types alone, because every program counter that leaves the inside goes
  through an unlock, or through `wait`, by the thread that owns the mutex or
  after it was freed.

`ServerProofs` (any workers, clients, ids):

- `TypeCorrect`; a worker that is connecting has an id in hand (`TypeInv`).
- `SelectionIsOpen`, from `TableInv`: every id in a table or a hand was issued.
- `TablesAgree`, from `ConnInv`: the connection is stored before the reply and
  never removed, so what the clients were told is connected.
- `BroadcastsReach`, from `ConnInv` and `BroadcastInv`: a broadcast owns
  `activeConnectionsMutex`, and what it has left, has reached or skips is the
  whole map.
- `MessagesReachTheirClient`, for clients that use the ids they were told
  (`StrayIds = FALSE`), from `HonestInv`: one id never is in two clients' hands.
- `NewIdsOpen`, for such clients: who closes an id was told it.
- `ServerImplementsLifecycle`: `Spec => ImplementsLifecycle`.
- `NobodyWaitsInACircle`, from `HolderInv`: `serverStateMutex` is held by a worker
  in a command, `activeConnectionsMutex` by a thread in a broadcast, which asks for no
  other mutex. So whoever waits, waits for one who can go on.
- `RequestsAreBounded`: every step of a thread in a request makes `StepsLeft`
  smaller, and no step of another makes it larger. A broadcast holds
  `activeConnectionsMutex`, and who inserts into the map needs it too, so the map
  does not grow under the iterator.

`OtherSteps` and `QuietSteps` state once what most steps leave alone; the proofs
then look at the few that matter.

`ClientProofs` (any number of packets):

- `TypeCorrect`; `ClientExclusion`, `BacklogAccounted`, `PopsFindPackets` until
  `wait()` returns unnotified (the properties say so). `LockInv` is weaker than in the
  server: main may free the listener's mutex, but then it has no packet to come
  back for before the listener has notified it, which it does outside the queue.
- `ClientImplementsPool`, with no assumption at all: `OrderInv` counts what was
  popped, and a data race or an empty queue ends the run.
- `ClientLosesNothing`, `ClientServesOnce` from it and `PacketPoolProofs`, and
  `NobodyKeepsTheMutex` as in the server, all with no assumption either.

`ConversationProofs` (any clients, packets, ids, repetitions, restarts):

- `TypeCorrect`; `ConnectAnswered` from `ConnectInv`: in state 0 a client has
  asked for nothing but a connection, so nothing else can come back.
- `OwnersPass` from `OwnerInv`: every id a client, a request, an answer or a
  queue holds was issued to that client. It is inductive until a restart
  (`OwnerUntilRestart`), and `CountersGrow` says a restart is not taken back.
- `AnswersAreForTheLastRequest` and `ConversationImplementsExchange` from
  `ExactInv`: of each client there is nothing under way, or one request, or one
  answer, or one packet in its queue, and it is the right one. `StepAdvances`
  says that every step but `Repeat` takes one client one stage further or leaves
  all where they are; the refinement reads the stages off.
- `ClientsLive` from `LiveInv`: every id in use is open, so nothing is refused.
- `LifecycleUntilRestart`: the table starts as `SessionLifecycle` says and each
  step is one of its steps, a stutter, or a restart, which forgets all ids.

`WireProofs` (any limit, width and old content of the buffer): `TypeCorrect`,
`ReadAsSent` and `FittingRead`, from `BufferFilled` (what came of the header and of
the payload is in the buffer) and the fact that no size is cut (`SizeFits`).

`CommandsProofs` (lines of any length over any characters, any limits):

- `TypeCorrect`, `SplitsIntoFields`, `RelaysRest`, `SafeLines`. The invariant that
  carries them says of a line half split that its tokens are the fields up to
  `start`, and that there is no delimiter between `start` and `end`; then a
  line has one token at least, and the length of the first two leads to where the
  third begins.
- `TokensAreCounted`: a split line has one token more than delimiters. `CountInv`
  counts the delimiters before `start`; the lemma `NoneBetween` says that there are
  none from there to `end`.
- `RoundsAreBounded`: each round of the loop is the last one or starts the next
  strictly further on, never more than one behind the line.

`SQLConnectorProofs` (any processes, names, rows, initialisations, and any numbers
given to `InsertUser`):

- `TypeCorrect`, `RowidsOwn`, `UsersBelong`, `RenewsAll`, `MissingTables`.
  `RowsInv` and `IdInv` say that every id that is held or stored, and belongs to
  the table as it is, was issued by it, so the next one issued is nobody's;
  `RenewInv` and `AloneInv` follow a script that could be read statement by statement,
  and `UnreadInv` says where a process is whose script could not;
  `MissingIsExplained` is inductive with them, since each drop is followed by the
  creation of the same table.
- `AccountsImplementStore`: `Spec => ImplementsStore`, from `StoreInv` (two rows
  share neither id nor name, and the counter of ids never passes that of rows). The execution of an insertion is the abstract `Insert`; reading
  the id, a user, and every statement of the script that leaves the accounts
  alone are stutters; a drop of the table is `Forget`. No run
  checks it: it found no error at the bounds of `accounts_shared`, but takes longer
  than all other properties of that run together.

Only model-checked: `NobodyStuck`, `RequestsFinish`, `SleeperReads` and `SplitEnds`,
and the counterexamples. Liveness under fairness is out of the prover's reach, but
the safety facts these four rest on are proved:

| Liveness, checked | Its core, proved |
|---|---|
| `NobodyStuck` | `LockedIsInside` (`PacketQueueProofs`): who holds the mutex is on its way to an unlock |
| `RequestsFinish` | `NoCircularWait` and `RequestsShorten` (`ServerProofs`): somebody can always go on, and nobody goes on for ever |
| `SleeperReads` | `LockedIsInside` (`ClientProofs`) |
| `SplitEnds` | `RoundsGoForward` (`CommandsProofs`): the loop has as many rounds as the line has characters and one, at most |

What is left to the runs is that weak and strong fairness turn these into progress.
The formulas `LockedIsInside`, `OneTokenMore`, `RoundsGoForward`, `IssuedAreOpen`
and `LifecycleOrRestart` are stated in the proof modules and proved for every value of
the constants; no run repeats them. `NoEmptyPop` follows from `BacklogIsLostWakeups`,
which the runs check.

## 7. What is not modelled

- SQL typed behind `/db` other than a delete or a drop of a table: it may do
  anything to the tables.
- `GetAccountSalt` and `GetAccountKey` (stubs that read nothing), the fields of
  `User` that nothing stores, `Backup.sh` and `Restore.sh`.
- The failure of `SQLConnector`'s constructor: the process ends before it starts.
- What the sanitisers accept, letter by letter: a name is valid or not
  (`Invalid`), as is a key or a salt.
- Broadcasts to clients in `Client` and `Conversation`: the listener prints them
  and they never enter the queue.
- The insides of a packed object: a payload is a sequence of bytes in `Wire` and
  a class in `Conversation`.
- What is written to the terminal, and error replies: nothing reads them back.
- `SetSessionAccountName` (no caller), the vector `users` (never filled).
- The destruction of static objects under running threads after `exit()`.
- `curSession` beyond `MaxSessions`: overflow needs 2^31 connects.
- Web site, Docker, build files: no state of the running system.
