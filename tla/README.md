# A TLA+ model of the messenger

The repository is a small messenger: a C server (POSIX threads, PostgreSQL
through libpq, plain TCP and WebSocket clients on one port), a console client in
C and a web client in React. This directory holds TLA+ modules translated from
that source, TLC configurations that check them on small instances, and TLAPS
proofs of the properties that matter most for any number of threads, clients,
slots and messages.

Paths below are relative to the repository; `server/` stands for `src/server/src/`.

## 1. Inventory

### The server

| Component | State | Operations |
|---|---|---|
| Thread pool, `server/thread_pool.c`, accept loop and signal handler, `server/main.c` | linked list (`queue_head`, `queue_tail`, `next` of every `task_t`), `mutex`, `cond`, `running`, the threads | `thread_pool_init`, `_add_task`, `_shutdown`, `worker`; `main`, `signal_handler` |
| Connection life cycle, across `main.c`, `thread_pool.c`, `client_handler.c` | the process's descriptor table; the number in each `task_t` | `accept`, queue, `handle_client`, `close` (in two places) |
| Online user table, `server/online_users.c` | array of slots, `count`, `mutex` | `init`, `add`, `remove`, `find_by_login`, `find_by_id` |
| Client handler, `server/client_handler.c` | `current_user_id`, `current_user_login`, `client_is_websocket`: one of each for all threads; the locals of each handler | `handle_client` and one handler per command |
| Database access, `server/db.c`, `sql/schema.sql` | `users`, `chats`, `chat_members`, `messages`, and three tables that are only written | register, authenticate, save message, history, the statements of `handle_msg` |
| Protocol parser, `server/protocol.c` | the static position of `strtok` | `protocol_parse` |
| WebSocket framing, `server/websocket.c` | none of its own; the byte stream | `ws_handshake`, `ws_send`, `ws_recv`, base64 |
| Password hashing, `server/crypto.c` | none | `hash_password` |
| Logger, `server/logger.c` | a file | `log_event` |

`main()` accepts a connection and hands the *number* of its descriptor to the
pool. A worker takes it, calls `handle_client`, and closes the number when that
returns. `handle_client` waits for the first bytes, does the WebSocket handshake
if they look like a GET, greets the client and then runs one command per `recv`.
The commands use the database (one `PGconn` for all threads, no lock), the table
of online users (under its mutex) and, for a message, the *recipient's* socket,
which belongs to another worker. `SIGINT` runs `signal_handler` on top of
`main()`: it shuts the pool down, joins the threads and exits.

### The clients

| Component | State | Operations |
|---|---|---|
| Console client, `src/client/src/` | the socket, the `running` flag under its mutex, two threads and `main()` | `sender_thread`, `receiver_thread`, the end of the connection in `main()` |
| Web login page, `Login.js` | the form, `loading`, a WebSocket per attempt, a 5 s timer | `handleSubmit`, and the callbacks of socket and timer |
| Web chat page, `Chat.js`, `App.js` | who is on which page; a WebSocket, the chats, the messages; temporary message handlers; reconnects that are scheduled | mount, unmount, `connectWs` and its callbacks, `handleSend`, `startNewChat`, `handleLogout` |
| Web socket helper, `api.js` | one WebSocket, a list of listeners | imported by nobody |

The console client reads a line in one thread, replaces its first two spaces by
bars and sends it; the other thread prints what arrives. `main()` waits for the
first, then ends the connection under the second. The web page opens one
WebSocket for each attempt to log in, and when that is accepted shows the chat,
which opens another and logs in again on it, now and after every loss of the
connection. Neither client talks to the other but through the server.

### What is hard here

* **Threads.** Workers share the queue, the table, the database connection and
  three static variables; only the first two have a lock.
* **Identity of descriptors.** A number is passed around after the connection it
  named is gone: in the queue, in the table of online users, in
  `handle_msg` between the lookup and the send.
* **Check and act.** Registration, find-or-create of a chat and the delivery of
  a message are several steps with other workers in between.
* **Partial failure.** Any statement may fail; each handler has several early
  returns, each of which must have answered the client exactly once.
* **Callbacks.** In the page, sockets that it has given up, timers and handlers added
  for one answer may still fire, with the values of the render they were made in.
* **Signals.** Ctrl+C interrupts `main()` anywhere and takes a mutex; `SIGPIPE`
  is not handled.
* **Liveness.** Workers block in `recv` for as long as a client likes.

`PROJECT.json` lists each hazard at its line, with the properties that would
catch it, or why none does.

### What makes each component correct

* Pool: the list is a queue; every node is freed once; no wakeup is lost; with
  more clients than workers everybody is served in the end; shutdown drains the
  queue and ends.
* Connections: every accepted connection is closed, once, and by its own worker.
* Table: it holds the sessions added and not removed, up to its capacity; each
  call does and answers what it would alone, and returns.
* Handler: a message is acknowledged if and only if it is stored, and is stored,
  acknowledged and forwarded once; every command has one answer; nobody acts as a user whose password was not given; online means
  connected; a client that leaves is forgotten; a message is its author's and
  reaches its recipient.
* Parser, framing: what one side composes the other side takes apart, whatever
  the segmentation of the stream.
* Console client: the process ends when its user leaves; the socket outlives the
  thread that sends on it; the user learns that the server has gone.
* Web page: nobody gets in whom the server has not accepted; no callback acts on
  behalf of an attempt that is over; an attempt ends; reconnects neither
  multiply nor stop; the chats are with users who exist.

## 2. Modules

| Module | Models | Built on |
|---|---|---|
| `TaskQueue` | what the pool promises: clients handed out one at a time, in order, each once; workers quit only when the queue is drained | |
| `ThreadPool` | the pool itself with list, mutex and condition variable, the accept loop, `signal_handler` | implements `TaskQueue` |
| `Connections` | descriptors from `accept` to `close` | instantiates `TaskQueue` |
| `Presence` | what the table promises the threads that call it: a bag of sessions with a capacity, and which call changes and answers what | |
| `OnlineUsers` | the array of slots and the count; each call as one step | |
| `OnlineCalls` | the same calls by several threads, with the mutex and the loops | extends `OnlineUsers`, implements `Presence` |
| `Database` | the four tables that are read back, and the statements on them | |
| `Mail` | what the server promises its clients: one answer to each command, which tells whether a message was stored; then one forward at most | |
| `ClientHandler` | `handle_client` and every command, run by several workers | extends `Database`, instantiates `OnlineUsers`, implements `Mail` |
| `Protocol` | `protocol_parse` of several workers over one `strtok` | |
| `WebSocket` | `ws_recv` over a stream of bytes, lengths, base64 | |
| `Wire` | the way of a line from a client to the command loop of its worker | extends `Protocol`, `WebSocket` |
| `ConsoleClient` | the two threads of the console client, `main()`, and the socket they share | |
| `WebClient` | the login page and the chat page, as callbacks over sockets and timers | |
| `Clients` | whichever of the two the user has in front of him | extends both |
| `MC...` | constants for TLC | |
| `...Proofs` | theorems with their proofs; `HeardProofs` and `WireProofs` are about `Wire` | |

So the layers meet at specifications: `ThreadPool` is shown to implement
`TaskQueue`, and `Connections` only uses `TaskQueue`; `OnlineCalls` is shown to do in
many steps what `OnlineUsers` does in one, and `ClientHandler` applies the
operators of `OnlineUsers` to the shared table. `Wire` ends where
`ClientHandler` begins: at a parsed command per `recv`. The clients meet the
server as a peer of their own, which may answer, close or fail at any time.

### ThreadPool

The code's variables keep their names. A `task_t` is allocated for one client, so
the client names the node. An action is what a thread does between two points at
which another one, or the signal, can get in between:

| Action | Code (`thread_pool.c`, `main.c`) |
|---|---|
| `WorkerLock`, `WorkerWait`, `SpuriousWakeup`, `WorkerRelock` | 29-36: lock, the `while` with `pthread_cond_wait` |
| `WorkerTake` / `WorkerExit` | 44-51: unlink the head, unlock / 38-42 |
| `WorkerFree`, `WorkerDone` | 53-55; `handle_client` has returned and the loop begins again |
| `Accept`, `AddLock`, `AddLink` | main 125-132; 98; 99-110 with the signal and the unlock |
| `Sigint`, `ShutdownLock`, `ShutdownBroadcast`, `ShutdownJoined` | main 42-48; 118; 119-122; 124-135 and `exit(0)` |

`SignalPoints` says where `SIGINT` may interrupt `main()`. `submitted`, `taken`
and `served` are history variables. `pthread_cond_wait` and `_signal` follow
POSIX, with spurious wakeups; the mutex is not recursive.

### Connections

`desc` is the descriptor table, `fdOf[c]` the number that `accept` returned for a
client, `stage` how far each worker is. `Accept` takes the lowest free number, as
POSIX requires. `Refuse` is the two early returns of `handle_client` (lines 288-303),
which close the socket; `CloseClient` is the `close` in `worker` (line 59), which
comes after *every* return. `Polite` clients are those that speak first or
complete the handshake.

### OnlineUsers, OnlineCalls

In `OnlineUsers` a call is one step: what it does when it runs alone.
A slot not active is `FREE`: the code zeroes it. `Cut` is what `strncpy` leaves of
a login (63 bytes at most). `find_by_id` has no caller and is the same loop as
`find_by_login`; it has no operator of its own.

`OnlineCalls` has the calls of several threads, any of them at any time:

| Action | Code (`online_users.c`) |
|---|---|
| `Call`, `Return` | a thread enters one of the three functions with its arguments (`call[t]`), and leaves it |
| `Acquire`, `Unlock` | `pthread_mutex_lock` (25, 51, 70); `pthread_mutex_unlock` at the end of the function (42, 63, 80), and before the `return` in the middle of `add` (35) |
| `Search`, `Miss` | one turn of the loop over the slots; it runs out of them |
| `Fill`, `Clear`, `Read` | the body under the test: the slot is written, zeroed, or its socket read |
| `Count` | `ou->count++`, `ou->count--` |

`Presence` is the promise. Its actions see the call they belong to: an
addition is refused only when the table is full, a removal takes one session of *its* socket, and
none only if there is none, and the answer is right at one moment between the beginning and the end of
the call. The refinement (`TableIsBag`) counts the slots that hold a session; `AsAtomic` says more, that
at this moment the slots change as the one step of `OnlineUsers` changes them, and at no other. That
is what allows `ClientHandler` to call in one step.

### ClientHandler

A handler is cut into steps at its accesses to shared state: the three static
variables, the table, each SQL statement, each `send`. So `LOGIN` is
`Authenticate`, `SetId`, `SetLoginBegin`, `SetLoginEnd`, `Enter`, `Reply`; `MSG`
is `MsgGate`, `FindRecipient`, `FindChat`, `CreateChat`, `AddMembers`, `Store`,
`Reply`, `Route`, `Forward`; every early return is a disjunct that answers.
`frame[w]` holds the locals of the handler a worker is in. `strncpy` into
`current_user_login` has a beginning and an end, with the value `TORN` in between.

`Send` models `send(2)` with a peer that may be gone: the first packet provokes a
reset, the next one `SIGPIPE`, which kills the process (`alive`). The peer's
`HangUp` may come at any point. With `DbFails` every statement may fail at any
time, and each handler takes the path the code takes then.

`presented`, `session`, `issued` and the fields `by`, `nth`, `to`, `author` of a text are
history: they say who did what, and no guard of the server depends on them.

`Mail` is the same service seen from outside, without workers, statements and
shared variables: `Ask`, `Keep`, `Acknowledge` or `Respond`, `Show` or `ShowNobody`,
one after the other for each client. The refinement (`MailService`) reads the state of
the contract off the handlers: where a client is in its dialogue follows from the point at
which its worker is (`StageAt`): after the greeting and between commands it is free,
from the `recv` to the answer it is owed one, and in `Route` and `Forward`, which come after the
acknowledgment, its message may be shown. A client without a worker has not come
or has left. A message is named by its author's connection and the number of the
command (`Named`), an answer counts as an acknowledgment or not (`Heard`). To whom a message is shown, and
under which name it is stored, is no part of the contract, since the code
does not keep that (`handler_identity`, `handler_misdelivery`).

The loop of a connection ends (`Leave`) when its client is gone; that of a browser also while
the browser is still there, since `ws_recv` returns 0 for a ping, a close frame
and an empty one. The worker then closes the socket (`Close`), and the client is gone.

A connection here begins with a client that speaks and, if it is a browser,
completes the handshake: the others, and the early returns of `handle_client` on them
(lines 288-293, 299-303), are the subject of `Connections`.

### Protocol, WebSocket, Wire

A line is a sequence of characters, and a frame a sequence of bytes that know
what they were sent as (`op`, `len`, `ext`, `key`, `data`). `Say` sends a line, a
console's as `sender_thread` formats it (`Formatted`: bars for the first two
spaces, `client.c:74-94`) and with a newline if its buffer has room for one (`Newline`,
`client.c:96-101`), a browser's in a frame. `Deliver` lets the oldest
message arrive, whole or in part, on top of what was not read yet.
`Peek` and `Handshake` are the beginning of `handle_client`, `ReadLine` its
`recv` for consoles, and `ReadHeader`, `ReadExt`, `ReadMask`, `ReadText` the four
calls of `recv` in `ws_recv`, of which only the first looks at the result.
What comes of a byte that is missing, or of one taken for something else, is not
followed: the connection is `adrift`, and until the end of this `ws_recv` it
reads any number of bytes and takes them for any text.

`protocol_parse` is cut at the accesses to the position of `strtok`: `FirstToken`
writes it, `ReadSave` reads it, `NextToken` writes it again. The position says in
*whose* buffer it is, so a worker may go on in the line of another one; if that
one has returned from `protocol_parse`, anything may be found there (`STALE`).
`alone` is history: nobody else has called `strtok` since the parse began.

`Meant`, `Fields` and `Rfc4648` are references: what a line means, defined by its
stretches without a bar and, on a console, by where its first two spaces are;
and base64, defined by its bits. None follows the code.

### ConsoleClient

| Action | Code (`client.c`, `main.c`) |
|---|---|
| `SenderCheck`, `TypeNothing`, `TypeCommand`, `TypeQuit` | 44-72: the flag is read, then `fgets` waits for the user; `/quit`, the end of the input |
| `SendTaken`, `SendError`, `SendKilled` | 103-108: `send` succeeds, fails, or raises `SIGPIPE` |
| `ReceiverCheck`, `EnterRecv`, `RecvData`, `RecvError` | 121-148, 155-158: the flag, the call of `recv`, data, an error |
| `RecvEnd`, `ReceiverClears` | 149-150: the user is told of the end of the stream; 151-154: the flag is cleared |
| `JoinSender`, `Shutdown`, `CloseSocket`, `JoinReceiver` | main 69-82 |
| `ServerSends`, `ServerCloses`, `ServerRejects` | the peer, as TCP shows it: data, a close or a reset, and a reset as the answer to what came too late |

`recv` that a thread is inside of returns for data, an error, the end of the
stream or `shutdown()`, not for a `close()` by another thread; this is
what makes the order of `main()` matter. Between the notice that the server has closed
and the flag the other threads run, and the sender may take any number of lines.

### WebClient

A callback runs to its end before the next one begins, so a callback is an
action. `sockets` holds every WebSocket that may still have callbacks, with
whose it is, what was asked and answered on it and what was not read yet, and the
`checkHandler`s that `startNewChat` has added; `timers[v]` the reconnects scheduled
by a visit of the chat page. An old visit goes on having callbacks: its `visit`
is not the `screen`, and what it displays nobody sees. A socket that the page
has closed is still there, `"closing"`: no message comes from it any more, but its
`onclose` does, and possibly its `onerror`, which frees the form also
when another attempt is under way by then.

| Action | Code |
|---|---|
| `Submit`, `LoginGreeted`, `LoginRefused`, `LoginAccepted` | `Login.js`: `handleSubmit`, and the cases of `onmessage` |
| `ChatMessage` | `Chat.js`: `onmessage`, then the temporary handlers |
| `StartNewChat`, `HandleSend`, `Logout`, `Reconnect` | `Chat.js`: the user's callbacks, and the timer of `onclose` |
| `Closed`, `Fails`, `ServerEnds` | `onclose`, `onerror`: a close that the page asked for, an error with a close, a close without an error |
| `Connected`, `Answered` | the server: it accepts and greets, it answers a command |

The server here knows each connection by itself. It may answer *any* command with
an error, since every handler does so when a statement fails and the identity
they ask for is shared; it answers as asked only if it can (`Obeyed`); and it may stay
silent for ever. How it comes to do so is the subject of `ClientHandler`.
Of the messages only the sending is modelled: they are displayed at once, and
whatever the answer is, it is only logged (`Chat.js:83-85`).

`patient` is history: the user has
always waited until nothing was outstanding before he sent; `silent`: the
server has closed a login attempt without an error; `belated`: the `onerror` of an
attempt that was over has freed the form of a later one.

## 3. What is checked

A run of TLC per question; every property of a passing run is shown to have
teeth by a mutant, a small plausible mistake in a definition translated from the
code, which makes the run fail. The mutated operators stand beside the originals
in the modules (`SignalNobody` beside `Signal`, and so on).

| Run | Instance | Shows |
|---|---|---|
| `pool` | 3 workers, 3 clients, fair | `TypeOK`, `QueueShape`, `NodesOwnedOnce`, `NoLostWakeup`, `AllServedAtStop`; refinement `QueueContract`; `QueuedClientIsPickedUp`, `EveryClientServed`, `ShutdownCompletes` |
| `pool_sigint` | 2 workers, 3 clients, Ctrl+C anywhere | **violated**: `ShutdownCompletes` |
| `online_table` | 2 threads, 3 slots, 2 accounts, 2 sockets, fair | `CallsTypeOK`, `CountExact`, `AsAtomic`; refinement `TableIsBag`; `CallsReturn` |
| `connections_serving` | 2 workers, 4 clients (2 polite), 5 numbers, fair | `ConnTypeOK`, `OpenIsOwned`, `KeptAmongPolite`, `QueuedIsClosed` |
| `connections_kept` | the same, no fairness | **violated**: `ConnectionKept` |
| `handler_commands` | 2 workers, a console and a browser, 2 users, registrations, logins, messages, failing database | `HandlerTypeOK`, `SentMeansStored`, `OneAnswerEach`, `ActorsAuthenticated`, `OnlineIsConnected` |
| `handler_hangup` | 2 workers, a console and a browser, one of whom may log in twice or write, failing database, fair | `GoneIsForgotten`; refinement `KeepsMailContract` |
| `clients` | the console with 3 commands, or the page with 2 visits of the chat, fair | `ClientsTypeOK`, `OneMoreLine`, `LoggedInRight`, `FormFree`, `OneChain`, `ChatsRight`; `QuitEnds`, `AttemptEnds`, `Reconnects` |
| `wire` | a browser and a console, typed and framed lines, one delivery of a part | `WireTypeOK`, `ParsedRight`, `HeardRight`, `NothingLost`, `LengthsAgree`, `Base64Right` |
| `handler_identity` | 2 workers, 2 consoles | **violated**: `SenderIsAuthor` |
| `handler_misdelivery` | 2 workers, 3 consoles | **violated**: `ForwardedToRecipient` |
| `handler_framing` | 2 workers, a browser and a console | **violated**: `AnswersFramed` |

### Bounds

* *Pool.* Three clients fill the list, one while others are taken; three workers
  let one steal the wakeup of a second while a third sleeps. Nothing else is
  bounded, and there is no symmetry, since liveness is checked; the theorems
  remove both bounds for what is safety.
* *Table.* Three slots are enough for a hole between two sessions, two equal
  sessions, and a full table; sessions come and go without limit. Two threads
  are enough for one to call while the other is anywhere in its call; the theorems are for
  any number.
* *Connections.* Two workers and four clients: one misbehaves, one is served, one
  waits in the queue, one is being accepted. There are more numbers than
  connections, so `accept` is never short of them. A client connects once.
* *Handler.* What a client sends is a script, each step a set of choices.
  In `Everything` (`handler_commands`) one client registers, or asks whether a user exists, then
  logs in with the name she may have registered, and writes; the other logs in, or registers the
  same name with another password at the same time, then writes or logs out.
  `Conversation` is two logins and a message in each direction, and a third
  client that takes over a descriptor. With two numbers descriptors are reused.
  In `Relogin` (`handler_hangup`) one client logs in, asks for the history or sends nonsense, and the
  other logs in and then does so again,
  or writes: the table has two slots, so that three logins fill it. Any statement may fail, so the
  refinement meets every path through `handle_msg`: refused, failed, stored, forwarded, and kept for
  later. The second login is where a stale entry comes from, and what `GoneIsForgotten` excepts.
* *Wire.* Sizes are scaled so that short lines meet every boundary: a byte of a
  length has 2 values instead of 256 (`BYTE`), a payload of 1 byte instead of 125
  needs no extended length (`MAX7`), so 4 bytes already need the form with eight; a
  buffer holds 6, and one argument of 2 characters is kept. All three forms, and
  both ways to end (a close frame, an empty text), occur. `LengthsAgree` covers every
  length of up to 3 such bytes and the largest of 4 to 8, `Base64Right` every input of up to
  4 bytes out of 1, 128 and 255: all paddings, and a bit at either end of each byte. One delivery is of a part (`MAX_CUTS`).
  The console says a line with bars and a line with three spaces, one of which stays.
* *Clients.* Three commands (`MAX_LINES`) are one more than can be sent after the
  server has gone (taken, then refused or killed); two unread packets
  (`MAX_UNREAD`) keep the receiver busy after the connection has ended. On the
  page there are two users: one is refused until the page itself has registered her, the other one
  does not exist, whoever asks for him. Two visits
  (`MAX_VISITS`), so that the chain of the first still runs in the second. `MAX_EVENTS` bounds
  what goes wrong and what is sent on the chat page together: two failures, so that a reconnect can
  fail too, or two messages or questions, so that both can be outstanding at once, or one of
  each, for instance a question whose connection is lost; one failure is enough for the late
  error of a closed attempt. Three sockets at a
  time (`MAX_SOCKETS`): two of visits and one of an attempt, or of an attempt that is closing.
  The theorems of `ClientsProofs` are for any number of users, visits, sockets and events: that a Chat on
  display is given another user, for one, is met there only.
  A user who has used up his visits cannot submit the form again: an attempt could take him to one more.
* Deadlock is checked in the passing runs of the pool and the table. In the runs
  on connections, on the handler, on the wire and on the clients everybody may have come and gone, and the
  cfg says `CHECK_DEADLOCK FALSE`.

### Fairness

* *Threads.* A worker that can run does run (weak fairness of its steps). A
  thread that waits for the mutex gets it if it is released again and again
  (strong fairness of the lock steps): the mutex is free only now and then, and
  weak fairness would let the scheduler always pick another thread. Nothing
  forces spurious wakeups, connections or Ctrl+C.
* *Clients.* No client has to leave. `EveryClientServed` and `ShutdownCompletes`
  are false without that, since a worker blocks in `recv`; they are stated as
  `ClientsLeave => ...`. `QueuedClientIsPickedUp` needs no such premise.
* `ServingSpec` of `Connections` makes only workers go on: they take clients and
  close what they have served. That clients speak or leave is no fairness, for `recv` has
  no timeout; it is the premise `ClientsMoveOn` of `QueuedIsClosed`, as in the pool.
* `FairSpec` of `OnlineCalls`: threads run, and the mutex is fair as in the pool.
* `FairSpec` of `ClientHandler` is weak fairness of each worker's serving steps
  (`Obliged`): of a `Leave` only when the client is gone. Clients need neither come, nor speak, nor
  hang up, and no browser has to end a loop that it could go on with.
* `Clients`: the three threads of the console run; on the page events are
  dispatched and timers fire (weak fairness of each). Neither the user nor the network nor the
  server has to do anything. That the server does not keep the page waiting for ever is
  the premise `ServerAnswers` of `AttemptEnds` and `Reconnects`. Failures are bounded
  (`MAX_EVENTS`): `Reconnects` is about what happens when they stop.

### Where the code does not do what it says

* `pool_sigint`. `signal_handler` runs on the main thread. If Ctrl+C arrives while
  `main()` is inside the critical section of `thread_pool_add_task`, the handler
  waits for a mutex that its own thread holds, and the server never stops
  (`main.c:38-41` announces an orderly end). Everywhere else it does stop: that is
  `ShutdownCompletes` in `pool`.
* `connections_kept`. `handle_client` closes the socket on its early returns and
  `worker` closes the same number again. In between `accept` may have given it to
  somebody else, whose connection dies in the queue or while it is served. Among
  polite clients this cannot happen (`KeptAmongPolite`), and nothing leaks in
  either case (`OpenIsOwned`).
* `handler_identity`. The "logged-in user for this session"
  (`client_handler.c:35`) is one variable for all sessions: whoever logs in last
  is the author of everybody's messages. What does hold is
  `ActorsAuthenticated`: it is always *some* user whose password was given.
* `handler_misdelivery`. The recipient's socket is looked up under a lock and used
  without it; if he disconnects in between, a client that gets the same number
  gets the message (`client_handler.c:207-213`).
* `handler_framing`. `client_is_websocket` is one variable for all connections:
  after a console has connected, a browser gets its answers without frames, and
  the other way round (`client_handler.c:40-48`).

Further divergences are in the model, in the actions named, and no property
claims otherwise:

* A forwarded message is never framed (`Forward`). A browser takes its first byte
  for a header with a reserved bit, and fails the connection (RFC 6455); so
  `Chat.js:51-75` never displays a message of somebody else, and to the page
  a forward is one of its `Fails`.
* A second `LOGIN` on a connection adds a second entry
  (`client_handler.c:107`), and the end of the connection removes one: the other stays, on a number
  that is closed, or somebody else's by now, and a lookup finds it (`Enter`, `Leave`). This is why
  `OnlineIsConnected` and `GoneIsForgotten` except clients that were welcomed twice.
* Two first messages at the same time create two chats; a message to oneself
  creates one, unless the user is in some private chat already, which the query then
  finds; the insertion of two equal members fails, so the chat stays without members and the
  next such message creates another one (`FindChat`, `CreateChat`, `AddMembers`).
* An answer `ERROR` to the `LOGIN` that the chat page sends is only logged
  (`Chat.js:83-85`): the page stays open, and every message is refused. So `Reconnects`
  promises that it has asked, not that it is logged in.
* The loser of two simultaneous registrations is told of a database error
  instead of "login taken" (`RegisterInsert`).
* `strtok` is shared (`ReadSave`): of two workers that parse at once, one may
  find the arguments of the other in its message. So `ParsedRight` and
  `HeardRight` claim a message only if its parse was `alone`.
* One `recv` is one line, or one part of a frame. A line in two parts is two
  commands, two lines that arrive together are one, and a frame in parts sets the
  connection adrift. This is why `HeardRight` and `NothingLost` speak of
  `Ordinary` connections: one message per `recv` for a console, whole
  messages for a browser, in both cases shorter than the buffer. What holds is
  that a browser stays in step when frames arrive together, and that neither
  errors nor other connections cost a line.
* Empty fields collapse, so `MSG||hello` sends to `hello`; a bar in a text cuts
  it (`Token`).
* A login longer than 63 bytes is stored cut and never found (`Cut`).
* The 5 s timer of `Login.js:81-88` reads `loading` of the render *before*
  the attempt, which is FALSE, and never acts: a server that accepts the connection and says nothing
  keeps the form disabled for ever, which `AttemptEnds` excludes by its premise.
* Login has no `onclose`. If the server closes without an error, the form stays disabled
  for ever: the `silent` of `AttemptEnds` and `FormFree`.
* Login leaves `onerror` on a socket that it closes (`Login.js:56,62,70`). If that
  connection fails before it is closed, while the next attempt is under way, its form is
  freed, and there may be two attempts at once: the `belated` of `FormFree` (`Fails`).
* After a logout the chain of reconnects goes on, and logs in with the
  old password for ever (`Reconnect` of a visit that is over).
* A message is displayed when it is sent (`Chat.js:110-117`), whatever becomes of it: a user who
  waits for every answer sees messages that were refused, so no property
  relates what is displayed to what is stored. What is sent
  between a reconnect and its `LOGIN` is refused, and two questions at a time share
  the first answer (`HandleSend`, `ChatsAfter`). This is why `ChatsRight` speaks of a
  user who waits.
* When the server closes, the console's sender stays in `fgets` until the
  user types one more line, and that line is lost (`TypeCommand`). `OneMoreLine` counts
  from the cleared flag: between the notice on the screen and the flag (`RecvEnd`, `ReceiverClears`)
  any number of lines may be lost.
  When the receiver ends by an error, it does not clear `running` (`RecvError`), and a
  later command kills the process by `SIGPIPE` (`SendKilled`).

## 4. What is proved

`tlapm` proves every invariant, every action property and every refinement that the passing runs
check, for all values of the constants that satisfy the assumptions in the modules (`PoolAssumption`: finitely many workers, at least one;
`TableAssumption`; `CallsAssumption`: the marks of a free mutex, of a thread outside and of an answer
to come are no threads, calls or answers; `ConnAssumption`; `HandlerAssumption`; `ConsoleAssumption` and
`WebAssumption`: the bounds are naturals, and what is tried or registered is a pair
of a login and a password; `ParserAssumption` and `WireAssumption`: a command is a word,
what is said is a sequence, a byte has at least two values, the short form of a
length reaches no further than two bytes do, a buffer holds no more than eight bytes can
count, the bar is not the newline, and a console sends lines that are not empty and have no newline of
their own: `fgets` and `client.c:60-65` see to that).

**ThreadPoolProofs.** `TypeCorrect`, `QueueSafe`, `NodesSafe`, `StopSafe`,
`WakeupSafe`, `PoolImplementsContract`. None of the properties is inductive as it
stands. `ListInv` strengthens `QueueShape`: the mutex is held exactly by the
thread that is inside (`LockInv`), only workers inside `pthread_cond_wait` are in
the wait set (`WaitInv`), main's fresh node is not in the list and no client is
submitted twice (`FreshInv`), and nobody quits while clients are queued or
before the pool is closed (`StopInv`). `OwnInv` adds what `NodesOwnedOnce` needs:
what was taken is exactly what is served or in a worker's hands. `NoLostWakeup`
is a counting argument over it: every step that removes one worker from those
that are awake removes a client from the queue or finds it empty, and every step
that adds a client wakes a worker if one sleeps. The refinement maps
each step to the step of `TaskQueue` of the same meaning, or to a stutter.

**OnlineUsersProofs.** `CallsTyped`, `CountIsExact`, `TableImplementsPresence`, `CallsAreAtomic`.
The type invariant says that the holder of the mutex is the one thread inside; so a
step of another thread changes neither the table nor what the holder knows of it (`OthersStay`).
`CountIs` says that the count differs from the number of active slots by one, up or down, exactly while
a thread is between its slot and the count. `Where` says what a thread has found out at each point: no slot
before its index fits its call, the slot it has hit does, and its answer is decided from there on.
So the slot at which the loop stops is the first that fits (`FirstIs`), which is the one that `OnlineUsers`
takes, and a loop that runs out of slots has found none. The
refinement is about cardinalities: occupying a slot adds one copy of a session
and leaves the others, vacating one takes one away; every other step is a stutter or the
beginning or end of a call.

**ConnectionsProofs.** `ConnTypeCorrect`, `NoLeak`. The invariant adds
`Len(taken) <= Len(submitted)` to `OpenIsOwned`. A second close of a number may
hit another client, but it never leaves an open number behind without an owner.
`PoliteAreKept` needs to know where every client is: `InOnePlace` says that no
client is submitted twice and no two workers serve the same one, and
`KeptInv` that, as long as only polite clients have come, no worker is in an early
return. So the only close of a number is the one by the worker that serves its
owner.

**ClientHandlerProofs.** `ActorsSafe`, `EachIsAnswered`, `OnlineAreConnected`, `HandlerTyped`,
`HandlersKeepContract`, `SentIsStored`. `ActorsAuthenticated` alone is not
inductive: between the check of a password and the assignment of
`current_user_id` other workers log in, out and register. `IdentityInv` says
besides what the command of each worker is worth at each point: before the check,
its client has presented this login with this password; after it, its user is
proven (`CmdInv`); and it types what these facts rest on (`TypeInv`). An account
never changes once it exists, so what was proven stays so (`ProvenGrows`). Most
steps are `Quiet`: they move one worker to a later point and touch neither
accounts nor identities; each of the others has a lemma.

`EachIsAnswered` and the refinement need to know where a
command is between its `recv` and its answer, so `MailInv` says of each part what
the others rest on. `Placed`: every client has one worker and one descriptor, a
client that has left is gone, one that has not come was sent nothing.
`TextInv`: the text a worker has at hand is the last command of its client.
`StoreInv`: that text is not stored before its turn, is stored once, and is
stored before it is acknowledged or forwarded. `AckInv`: acknowledgments name
distinct stored messages of their client, and none that of a command that is not
answered yet. `CountInv` then counts the answers of a client against its
greeting and its commands. The steps fall into classes, those that only move
one worker on (`Progress`), store a message (`StoresIt`), send a packet (`Speaks`) or
read a command (`Reads`), and connecting, closing and hanging up; each class has a
lemma for each invariant.

`OnlineAreConnected` and `HandlerTyped` are in the same module, after the mail. An entry of the table says
nothing by itself of the worker that made it, so `OnlineInv` puts one behind each:
a worker that serves the entry's socket, past the greeting and not yet at the
close, whose client has proven to be the entry's user *and was welcomed for it*
(`Backs`). The welcomes carry the argument: `Enter` is the only step that adds an
entry, and it makes one welcome more of the client (`EnteringWelcomes`); so if no
client has more than one, the client that enters had none, nobody
stood behind an entry for its socket, and the new one is alone. Welcomes never
disappear (sent packets stay, an answer at hand is sent), so the premise, once
false, stays false. A worker leaves the inside only by the close, which has removed the
entry before. For this `CmdInv` had to say that what a command has proven stays
so until its worker reads the next one. `HandlerTyped` needs,
besides types, that the count is the number of entries (`TableCounted`, by the cardinality of the
slots), that chats and messages only name what exists (`ChatsInv`), and that an idle
worker has a clean frame (`IdleInv`).

`HandlersKeepContract` is the refinement of `Mail`. `MailInv` lacks one thing for it: that an
answer other than an acknowledgment leaves nothing in the store. `NameInv` says so: a command that is
still busy, or whose refusal is on its way, has no message, where a
message is known by its name only (author and number of the command), not by its whole text. Since a
client has one worker, the stage that `Mail` sees is the one of that worker
(`StageServed`), and a step of a worker that keeps its client moves only that client
(`StageMoves`, `StagePasses`). Then each class of steps has a lemma that names what it is to
`Mail`: `Progress` is nothing, storing is `Keep`, reading is `Ask`, a packet is `Greet`,
`Acknowledge`, `Respond` or `Show`, according to the point; a recipient who is not online is
`ShowNobody`, the end of the loop is `Leave`; connecting, closing and hanging up are nothing. The
mapped lists of messages and packets grow as the lists do (`MapAppend`).

**MailProofs.** `MailIsRight`, about the contract alone: no command leaves two messages; a message is
stored if and only if its author has been told its number, but for the one whose acknowledgment
is due; what is shown has been acknowledged; no number is told twice, and no
message shown twice, be it to two clients. The invariant adds that names are of commands given
(`KeptInv`), that the message of a client in `after` is acknowledged (`AckInv`), and that the
message of a client that is owed its answer, or has just had it, has been shown to nobody
(`ShownInv`): so it can be shown once.

`SentIsStored` puts the two together: the handlers implement `Mail`, so what holds of every behaviour of `Mail` holds
of them (`MailService!MailRight`). This is how "a message is never forwarded twice" is proved
without an argument about workers. What `Mail` does not see, that the text which is forwarded is the stored one
to the letter, comes from `StoreInv`.

**WireProofs.** `WireTyped`, `ParserRight`, `LengthsAreRead`, `Base64IsRead`. `WireTyped` rests on `Typed`, which
gives every stream, text and position its place: what a client can say becomes bytes, as a line or as a
frame, and what is delivered, cut, joined or read of it stays bytes; the position of `strtok` may be
in anybody's buffer, behind its end, so what is cut from there is typed whatever it is.

`ParserRight` compares two ways to take a line apart: the code goes from token to token
(`TokenFrom` says what a call of `strtok` finds), `Fields` sorts the stretches without a
bar. `Enumerates` says of a list of stretches that it is in order and holds
every one that begins before the position, `OneMoreToken` and `NoMoreToken` that a
call extends it by one or finds it complete, `OneOrder` that a set of stretches has
one enumeration in order, so `FieldsAre` what was found. `ParseIs` says this of each worker
between its calls, as long as it is `alone`: its position is where it left it,
and its message is what the words found so far mean, within `MAX_ARGS` and `ArgSize`.
Whoever calls `strtok` takes `alone` away from every other worker that is parsing.

`LengthsAreRead` goes through the places of a number: `NestedDivision` takes a digit off,
`ReadDigits` follows the fold of `ws_recv` digit by digit (`FoldPrefix`), and `LengthIsRead` has the
result for every length below `Place[8]`, not only for those that the property names.

`Base64IsRead` compares what the shifts of `base64_encode` take from three bytes with what the
positions of the bits say. `ByteBits` writes the quotients and remainders of a byte as sums of
its bits, `Shifts` those of three joined bytes as quotients and remainders of each, and `GroupBit`
finds a bit of the input in its group, past the end too, so `SextetIs` has every character.
`Base64IsRight` is the result for bytes of every number and value; the property names a few.

All inductions over data are by a least counterexample (`LeastIn`,
`GreatestIn`), since the provers cannot instantiate an induction theorem.

**HeardProofs.** `HeardAsSaid`, `NothingIsLost`. Neither property is inductive: what is heard next
is now in the stream or in flight. `Flow` says of an ordinary connection that what was said
is split into four stretches, in order: what is heard, the message at hand if there
is one (`AtHand`), `q` messages in the stream, and one packet in flight for each of the rest (`InFlight`).
The stream is the part of the message at hand that is still to be read (`InFrame`: all after the header, the
key and the payload, or the payload) followed by the `q` messages one after the
other (`Chain`, a list of the ends of the stream from each message on). So `FirstOfChain` finds the
header of the next message where `ws_recv` expects it, `ChainContinues` puts an
arriving message at the end, and `Takes` says what one `recv` finds. On a console `q` is at most
one: that is what `Ordinary` demands, and why one `recv` finds one line. Before its handshake a
browser has said nothing (`Greeting`). `LengthIsRead` and `DataIs` bring the text back from the
frame, whatever its length below the buffer's; `FormattedMeans` shows for consoles that the
line with bars in place of its first two spaces has the fields that were meant: it cuts the line at
a bar (`FieldsOnBothSides`), for no, one or two spaces. `ParserInv` then
gives `HeardWell`. `NothingIsLost` reads the invariant when stream and flight are empty:
then `q` is 0, and a worker that is not parsing has nothing at hand or an ending. `LaterOrdinary` has
the reason why the premise is safe: a connection that is ordinary has always been.

**ClientsProofs.** Of the page: `OnlyAcceptedUsers`, `AttemptsOneByOne`, `ChainsDoNotMultiply`,
`ChatsAreRight`, `WebTyped`.
`WebInv` adds to the first three properties the shape of the state, in which every
socket belongs to an attempt or to a visit that has been (`Shaped`), and, for `LoggedInRight`, what
the answers on an attempt's socket are worth (`Attempts`): a greeting comes
first and is read before anything is asked, and a welcome is there only for a pair
that is an account. `FormInv` adds to `FormFree` that, unless the form was freed too early, there is at most one
attempt, and none behind the chat page. The steps fall into classes, those that keep every
socket in its place, close one, open one, remove one, or go from the login page to the chat, and each class has
a lemma for `OneChain` and `FormInv`.

`ChatsRight` is about what the user may conclude from the page, and
`ChatInv` says what the page may conclude from its sockets: as long as the user waits, a socket
whose answers are displayed has at most one question on its way, with one handler and, once the
server has said that the user exists, with a name that exists. A check was made with
the chats there are *now*, so the
temporary handler adds nobody twice although it compares with the chats of an old
render. The handlers are a fold over the checks, of which there is none or
one (`FoldNone`, `FoldOne`). `TypedInv` gives every socket its type, so that what is registered is
a pair of a login and a password.

Of the console: `ConsoleTyped`, `SocketIsKept`, `OneLineIsLost`. `MainInv`
ties the steps of `main()` to what it has waited for: past its first join the
sender has returned and the flag is clear, so that the socket is not closed under it
(`SocketIsKept`, which no run checks, since it follows from the order of `main()`). `LateInv` counts: once the receiver has returned from the
end of the stream, the flag is clear, so that the sender sends at most what it was waiting for, and
`late` is 0 as long as it still waits or has that line in hand.
`ClientsTyped`, `ClientsSafe`, of both: a step of `Clients` is a step of one of its two
programs and none of the other, so the theorems of both hold of the composition.

Only model-checked: the liveness properties (`QueuedClientIsPickedUp`,
`EveryClientServed`, `ShutdownCompletes`, `CallsReturn`, `QueuedIsClosed`, `GoneIsForgotten`,
`QuitEnds`, `AttemptEnds`, `Reconnects`), since liveness under fairness is
outside what the prover can do.

## 5. What is not modelled

* The concurrent use of the one `PGconn`: libpq forbids it and says nothing of
  what happens. Statements are serialised and may fail at any time.
* The bytes of answers: in `ClientHandler` a packet is sent in one piece, so a forward
  cannot fall between the two sends of `ws_send`. Of `ws_send` the length field is
  modelled. Frames without mask, fragments, and a client that hangs up inside a
  frame are left out. SHA-1 is OpenSSL's.
* A second Ctrl+C, Ctrl+C delivered to a worker thread, and the functions in the
  handler that are not async-signal-safe.
* Memory: `malloc` succeeds.
* The tables that are only written (`sessions`, `server_logs`,
  `message_replies`), the log file, password hashing, the contents of the
  history that the server prints on its own console.
* Of the console client, `socket()`, `inet_pton()` and `connect()` that fail: the
  program ends before it begins. What it prints is layout.
* Of the web page, the messages: those of the user are displayed whatever the answer (`Chat.js:110-117`),
  those of others (`Chat.js:51-75`) never come from this server in a form a browser can read. Also the second mount that React's
  StrictMode makes in development builds, which gives a visit two chains; and the
  search field and the choice of a chat, which change only what is displayed.
* `api.js`, which nobody imports; `index.js` and the tests of create-react-app.

## 6. Plan

1. The answers as bytes: `ws_send` with its two sends and a forward in between,
   read by a browser; hang-ups inside a frame.
2. `Mail` with recipients, for the case that only one user is logged in at a time, in
   which the shared variables do no harm.
3. One chat per pair when nobody writes at the same time, and framing when all
   clients are of one kind, should a question come up that the runs leave open.
