# A formal model of juggernaut-server

TLA+ modules, TLC configurations and TLAPS proofs about the server under
`src/source`. The server is a C++ network daemon: one thread runs an
`io_service` (accepting connections, reading and writing packets, timers), one
thread runs *tasks* (all game and account logic), one sleeps until *events* are
due, and one runs database statements. Most of what can go wrong lies in how
these threads hand work to each other and in how they end, and that is what is
modelled first.

## The system

| Part | State it keeps | Operations | Threads |
|---|---|---|---|
| Dispatcher (`tasks.*`, `thread_holder_base.h`) | task list, thread state | `addTask`, `shutdown`, `stop`, `threadMain` | any caller; own worker |
| Scheduler (`scheduler.*`) | priority queue of events, active identifiers | `addEvent`, `stopEvent`, `shutdown`, `threadMain` | any caller; own worker |
| Database tasks (`databasetasks.*`) | list of statements with callbacks | `addTask`, `flush`, `shutdown`, `threadMain` | dispatcher; own worker |
| Connection, ConnectionManager (`connection.*`) | state, socket, message queue, timers | `accept`, `send`, `close`, handlers, `closeAll` | network, dispatcher |
| Service ports (`server.*`) | acceptor, services, pending reopening | `open`, `accept`, `onAccept`, `onStopServer`, `close` | network, scheduler, dispatcher |
| Protocol, ProtocolLogin (`protocol*.{h,cpp}`) | keys, output buffer | `onRecvFirstMessage`, `send`, `disconnect` | network, dispatcher |
| Messages (`networkmessage.*`, `outputmessage.*`) | buffer, position, length | `add*`, `get*`, headers, padding | network, dispatcher |
| Autosend (`outputmessage.cpp`) | registered protocols, their buffers, pending `sendAll` | `addProtocolToAutosend`, `removeProtocolFromAutosend`, `sendAll` | dispatcher, scheduler |
| Database (`database.*`) | handle, lock, transaction state | `executeQuery`, `storeQuery`, `DBTransaction`, `DBInsert` | dispatcher, database |
| Accounts (`iologindata.*`) | rows | `verifyAccount`, `createAccount` | dispatcher |
| Life cycle (`main.cpp`, `game.*`, `signals.*`) | game state, services running | start, load, shut down, join | main, dispatcher |
| Configuration (`configjson.*`), tools, ciphers, file loader, pool allocator | values, bytes | pure functions mostly | any |

How they interact:

- `main` starts the dispatcher and the scheduler, has the dispatcher run
  `mainLoader`, waits for it, and then runs the `io_service` on its own thread.
- The scheduler's thread hands every due event to `Dispatcher::addTask`, in
  front of what waits there. The database thread hands callbacks to it, at the
  back.
- A `ServicePort` accepts a socket and creates a `Connection`; when accepting
  or opening fails, it asks the *scheduler* to reopen the port in 15 s, so that
  the reopening runs on the *dispatcher* and not on the network thread.
- A `Connection` hands packets to its `Protocol`, and the protocol posts its
  release to the dispatcher. Both the network thread and the dispatcher call
  `send` and `close`; handlers of outstanding operations keep the connection
  alive.
- `Game::setGameState(SHUTDOWN)` closes the scheduler and the dispatcher for
  new work, and a last task, `Game::shutdown`, ends both threads, stops the
  ports and shuts the sockets down.

### What is hard, and what makes each part correct

- **Dispatcher.** A condition variable notified outside of the lock and only
  when the list was empty; raw task pointers; a stop task in the list it ends.
  Correct: no lost wake-up, each task run at most once and freed once, nothing
  stranded by an orderly stop, urgent tasks first.
- **Scheduler.** A sleep whose length is fixed by an event that may no longer
  be the first; cancellation by forgetting an identifier; identifiers that wrap
  around; a shutdown that tests and sets the state outside of the lock.
  Correct: never late by more than the thread's own delay, never early, never
  after a successful `stopEvent`, nothing left after `shutdown`.
- **Database tasks.** The same condition variable, with a second thread
  (`flush`) emptying the list. Correct: each statement once, in order but for
  those in hand, and none left behind by a shutdown.
- **Connection.** Completion handlers, two timers whose handlers may be too
  late to cancel, `close` called from everywhere, possibly in the middle of a
  write. Correct: one write at a time and messages in order, release exactly
  once per closed connection, and in the end the socket is closed and the
  object destroyed.
- **Ports.** No lock; two threads; reopening after failures; a stop that may
  cross a reopening. Correct: a port has one accept or one reopening, is opened
  only while nothing else uses it, and stays closed once stopped.
- **Messages.** Constants in different files that have to fit; three lengths
  in one incoming packet, and one test of them for packets with and without
  headers of their own. Correct: no access outside of the buffer, what is sent
  can be decoded, and reading leaves what was received and decrypted by no more
  than the headers a packet lacks.
- **Bytes.** A cipher whose blocks are grouped by the instruction set of the
  build, a checksum that is reduced only now and then, strings with a length of
  two bytes. Correct: decrypting undoes encrypting, no sum overflows, and what
  was written is read back, up to where the stream was cut.
- **Autosend.** A task that schedules itself again, begun anew whenever a list
  fills, on a vector from which protocols are swapped away. Correct: while
  anybody is registered a `sendAll` is pending, what is buffered is handed to
  the connection once, and when everybody has left the tasks end.
- **Database.** One session for several threads, a lock held across calls, and
  a retry that cannot tell whether a statement was executed; batches of rows
  that are executed when they get too long. Correct: what was reported done is
  done, once, and a batch that failed is reported.
- **Accounts.** Two checks and an INSERT without a transaction, answers that do
  not tell "no row" from "refused", a login by name or e-mail. Correct: names
  and e-mails stay unique, an answer says what is in the table, owners can log
  in, and who is refused is answered and disconnected.
- **Life cycle.** A start whose end is signalled without a condition, joins of
  threads somebody has to have ended, and that may sleep through being told.
  Correct: `main` goes online only after the loader, returns only when every
  thread has ended, and does return unless a thread missed its notification.

## Modules

| Module | What it is | Checked by |
|---|---|---|
| `TaskExecutor` | what a dispatcher promises: accepted tasks, urgent ones newest first, one at a time | refined by `Dispatcher` |
| `Dispatcher` | `tasks.cpp`, `tasks.h`, `thread_holder_base.h` | `DispatcherMC`, `DispatcherProofs` |
| `TimerService` | what a scheduler promises: events never early, never after a successful cancellation | refined by `Scheduler` |
| `Scheduler` | `scheduler.cpp`, `scheduler.h` | `SchedulerMC`, `SchedulerProofs` |
| `Channel` | what a connection promises: messages delivered once, in order | refined by `Connection` |
| `Connection` | `connection.cpp`, `connection.h`, the callbacks of the protocol being calls of `send` and `close` | `ConnectionMC`, `ConnectionProofs` |
| `DatabaseTasks` | `databasetasks.cpp` with a client's and the worker's threads | `DatabaseTasksMC`, `DatabaseTasksProofs` |
| `ServiceManager` | `server.cpp`, `server.h` with the scheduler, the dispatcher and the shutdown of the game as far as ports see them | `ServiceManagerMC`, `ServiceManagerProofs` |
| `Messages` | lengths and positions in the buffers of `networkmessage.*`, `outputmessage.h`, and of what `protocol.cpp` and `Connection` do with them | `MessagesMC`, `ServerProofs` |
| `Lifecycle` | `main.cpp`, `game.cpp`, `signals.cpp` over the states of the three threads | `LifecycleMC`, `ServerProofs` |
| `Bytes` | XTEA and its grouping of blocks, the checksum, streams of properties: functions of one input | `MessagesMC` |
| `Autosend` | `OutputMessagePool` with the protocols' buffers, over what `TimerService` and `TaskExecutor` promise | `AutosendMC`, `ServerProofs` |
| `Database` | `executeQuery`, `storeQuery`, `DBTransaction` and a session that can be lost | `DatabaseMC`, `DatabaseProofs` |
| `Inserts` | `DBInsert` | `DatabaseMC`, `DatabaseProofs` |
| `Accounts` | `iologindata.cpp` with `protocollogin.cpp`, the first packets and the answers, over a database that refuses statements and loses sessions | `AccountsMC`, `AccountsProofs` |

The `*MC` modules extend the modules they check and define values of constants;
`MessagesMC` and `DatabaseMC` check two modules each, of which a behaviour
follows one. `DatabaseProofs` and `ServerProofs` likewise hold the proofs of more
than one module, each about its own specification; the names in modules that
are extended together are disjoint (`AutosendInit`, `LifecycleNext`,
`InsertsSpec`). The rest is in the `.cfg` files. No configuration replaces a
definition. The type invariant of a module, `TypeOK`, is a conjunct of one of
its safety invariants (of its own in `Dispatcher`, where it is proved).

### State and actions

One step is one critical section, or one access to shared state outside of
any. Where the code reads something before it takes a lock (the thread state in
`threadMain`) or acts after it released one (`notify_one`), that is a step of
its own, so that other threads come in between.

- **Dispatcher.** `taskList`, `threadState` and `expired` are the fields;
  `workerPc` is the worker's place in `threadMain`, `heap` says of every task
  object whether it is unborn, live or deleted, `signal` holds the callers
  between the unlock and `notify_one`. `AddTask` is the whole of `addTask` up
  to its unlock. `Lock` is one turn of the loop's locked part: it waits, or
  pops. `Execute`, `Return` and `DropExpired` run and delete the task; the
  worker itself is a caller while it runs one. `TaskExecutor` sees only which
  tasks are new, pending, taken or gone.
- **Scheduler.** The heap is the set `eventList` with the due times `cycle`;
  `TopEvents` are the events `top()` may be. `deadline` is what the thread
  sleeps until, fixed when it begins to sleep. `Timeout`, `SpuriousWakeup` and
  `Notify` end the sleep, and a wake-up that coincides with a timeout may be
  reported as either (`MayReport`). `Terminate` and `Clear` are the two halves
  of `shutdown()`.
- **Connection.** `conn` has the fields of the object, among them whether the
  manager refers to it; the outstanding read, write and the two timers say
  whether they are pending, done or cancelled, which is also what keeps the
  object alive (`Referenced`). It is in the manager before it is accepted
  (`AcceptCompletes`), so that `closeAll` may come before, and the handler of the
  accept binds a protocol (`BindProtocol`) before it takes the lock to start the
  first read (`Accept`), or force-closes a connection without a remote address
  (`Refuse`). Every other handler is one action (`ParseHeader`,
  `ParsePacket`, `OnWriteOperation`, `HandleReadTimeout`,
  `HandleWriteTimeout`), as is every call from outside. A `disconnect` is two
  steps, since `close` leaves the manager before it takes the connection's lock
  (`BeginDisconnect`, `EndDisconnect`).
- **DatabaseTasks.** As the dispatcher, with one program counter per thread:
  `runTask` is executed by the worker and by whoever calls `flush` or
  `shutdown`. `Execute` hands the statement to the database, `Answer` posts the
  callback.
- **ServiceManager.** Per port the acceptor, its services, `pendingStart`, and
  how many accept handlers wait, succeeded, failed or were aborted, how many
  reopening events wait in the scheduler (`events`) and in the dispatcher
  (`reopens`). `OpenAcceptor` has the three outcomes of `open()`: listening,
  failing before and failing after the acceptor is in place.
- **Messages.** One behaviour follows one buffer: an autosend buffer, a message
  made for one answer or the buffer packets are read into. `frame` records what
  `onSendMessage` made of a body. `opening`, `content` and `plainEnd` record how
  a packet was opened, where what it says ends, and up to where its bytes are
  not cipher text.
- **Lifecycle.** `mainPc` and `loader` are the places of `main` and of
  `mainLoader`; `state` says of each thread what its `ThreadHolder` holds and
  `life` where it is. The dispatcher's list is kept, without priorities and
  expiration, because loading, commands, `Game::shutdown` and the stop task are
  elements of it. Of the scheduler's and the database's threads the loop is
  kept: `TestState` reads the state without the mutex, `SleepOrWork` goes to
  sleep or round again. A shutdown sets the state in one step and notifies in
  another; `missed` remembers whom it notified in between test and sleep.
- **Bytes.** One `input`, chosen at the start: the code's loops are recursive
  functions and folds, and each property compares what they make of the input
  with what it is to be: the block before it was encrypted, the sums over the
  whole packet, the properties that lie wholly in front of the cut.
- **Inserts.** `length` and `values` are `m_length` and `m_values`. `written`
  adds up the lengths of the rows given to `addRow`, `taken` says what each call
  returned, and `statements` keeps what was executed and by which call.
- **Autosend.** `bufferedProtocols` is the vector, `outputBuffer` the chunks in
  each protocol's buffer, `buffered` and `handed` what it has asked room for and
  what its connection has got. `BufferChunk` is `getOutputBuffer`. A pending `sendAll` is an event or a task; several
  may be (`Chains`). `EventFires` is all that is left of the scheduler.
- **Accounts.** `OnRecvFirstMessage` is the network's part; `StartTask`,
  `VerifyAccount`, `CheckName`, `CheckEmail` and `InsertAccount` are the
  statements of the dispatcher's current task. `storeQuery` has three outcomes
  of which the caller sees two (`StoreQuery`, `StoreQueryFails`); an INSERT may also be
  executed and its answer lost, upon which it is sent again. `Reply` sends and,
  for a refusal, disconnects. `disturbed` remembers whose statements were
  refused, or executed unheard.
- **Database.** Where each thread is in `executeQuery` or `beginTransaction`,
  the recursive lock, the transaction of the session with its `tentative`
  effects, and the `durable` ones.

## Runs

| Run | Question | Instance |
|---|---|---|
| `dispatcher` | Does every accepted task run once, in order, and does the thread end? | two clients, three tasks (one may expire), one stop task |
| `scheduler` | Do events leave when due, and only then? | two clients, three events, two identifiers, due at 0 or 1 |
| `scheduler_shutdown_ends` | Does the thread always end after `shutdown()`? It does not. | one client, one event |
| `connection` | Are messages written in turn and every connection closed, released and destroyed? | two messages, two packets |
| `connection_stalled` | Is the socket closed also when the peer stops reading? It is not. | one message |
| `database_tasks` | Is every statement executed once, also across `flush` and `shutdown`? | two clients, three statements, two with a callback |
| `services` | Does a port recover from every failure and never open twice or after its stop? | two ports, two ordinary protocols and one that sends first |
| `lifecycle` | Does `main` wait for the loader, leave no thread behind, return if there are no services, and how far does an orderly shutdown get? In which joins may it hang? | two tasks from the network |
| `messages` | Do all lengths fit, for every size of body and packet, and where does reading end? Are cipher, checksum and property streams right? | a buffer of 38 bytes; words of 8 bits, bytes of 3 values, streams of three properties |
| `database` | Is what was reported done kept, and does the lock always come free? Do batches lose or repeat a row? | two threads, two writes, one loss of the session; four rows, every pattern of failures |
| `autosend` | Is a `sendAll` pending while anybody is registered, does it send everything, and does it end? | see `AutosendMC.cfg` |
| `accounts` | Do accounts stay unique, are answers true, can an owner log in, does every request end? | see `AccountsMC.cfg` |

### Why the bounds are enough

- *Clients, threads.* Two callers beside the worker give every race of two
  unlocked regions; a third would only repeat the second's part. The proofs
  cover any number for the dispatcher.
- *Tasks, events, statements.* Three: one in hand, one in front of and one
  behind a third one. With two identifiers for three events `lastEventId` wraps
  around and skips 0 within a behaviour; that the next identifier is free
  (`IdIsFree`) stands for fewer than 2^32 - 1 additions while one event (15 s at
  most) is queued. Due times 0 and 1 order any two events in all three ways.
- *Connection.* `MaxPackets = 4` reads are two packets: the first, which
  chooses the protocol, and one of those that follow. Whether a packet exceeds
  the rate limit is left open, so that the limit may strike at any packet.
- *Messages.* The buffer is congruent to the real one modulo 8, which is all
  that padding depends on, and keeps the constants 2, 4, 8, 10 and 16 as they
  are; a string of 8 is longer than the margin of each.
- *Bytes.* What a byte or word is worth does not matter to the algorithms, only
  where it wraps: 8 bits wrap in every round, and `Delta` times 32 is not 0 in
  8 bits, as it is not in 32. `AdlerBlock = 10` is the longest block for which
  sums of bytes up to 2 and a modulus of 13 fit into 8 bits, as 5552 is for 255,
  65521 and 32. `MaxBlocks = 300` is more than twice the largest group, 128.
  The longest string whose length fits is 8 long; there are strings of 9.
- *Inserts.* A statement of 5 with a head of 2: rows of 1 to 5 fit by threes,
  one at a time, or not at all; four rows are a full statement and more.
- *Autosend.* Two protocols of which either may be listed twice; a second chain
  is begun while a first is pending, and each may be an event or a task.
- *Accounts.* Two requests against every table of up to two rows of two names:
  the row a request collides with is there from the start (`MaxAccounts`), or made
  by the request before it, or by the request's own first attempt.
- *Database.* One loss covers a loss before, inside and after a transaction and
  on either side of the server's execution; further losses repeat it. A BEGIN
  is never refused: then `DBTransaction` would unlock a mutex it does not hold,
  which is undefined.

### Fairness

Safety is checked without fairness. The liveness properties assume:

- the operating system runs a thread that can run: weak fairness of each
  worker, of a begun call (`Notify`, `Clear`, `ClientStep`), and of the network
  thread's handlers; tasks and statements return;
- for `lifecycle`: `main`, the dispatcher with its tasks, and each of the other
  two threads that is not asleep take their next step. Nothing wakes up one that
  sleeps: neither work nor a spurious wake-up (`WakeUp`) is promised, so that a
  thread whose state is TERMINATED need not end;
- time passes (`Tick`), timers expire, and an overdue wait times out even if it
  is interrupted again and again (strong fairness of `Timeout`);
- for a connection that drains (`ResponsiveSpec` only): the peer reads what it
  is sent or resets the connection. `connection_stalled` drops that assumption;
- for a port to recover: openings do not fail for ever (strong fairness of the
  successful outcome);
- for `autosend`: an event leaves the scheduler and a task completes, which is
  what `DueEventLeavesQueue` and `AcceptedTaskCompletes` show of those threads;
- for `accounts`: the dispatcher goes on, statements return, and a connection
  left open for its last write is closed (`ConnectionDies`);
- for the database: a lock that comes free again and again is not withheld from
  one thread for ever, and a transaction, an object of some scope, ends (strong
  fairness of `Proceed` and `Destroy`). The standard does not promise the
  first; the code relies on it.

No client is assumed ever to call anything. Deadlock is checked in `database`;
elsewhere a system whose clients stop calling rests.

## Findings

1. **`scheduler_shutdown_ends`.** `threadMain` tests the state before it takes
   the lock and `shutdown()` sets it without. If `shutdown()` runs between the
   two, its notification is lost, the thread sleeps for ever, and `main` never
   returns from `join()`. `DatabaseTasks` has the same window
   (`databasetasks.cpp:37`); there, at least, no statement is lost. `Lifecycle`
   follows both windows into `main`: `NotOnlineReturns` and `ShutdownEndsTheRest`
   say that it hangs in a join for ever in this case (`Oversleeps`), and in which
   one.
2. **`connection_stalled`.** A `close()` that waits for the queue to drain has
   set the state to CLOSED already, so that the write timeout's
   `close(FORCE_CLOSE)` does nothing: a peer that stops reading holds the
   socket and the connection for ever.

The following have no run that is expected to fail; the properties of the
passing runs exempt them by name, or are about them.

3. A body of 24567 bytes leaves no room for its padding, which
   `addPaddingBytes` drops without a word, and the message is encrypted at a
   length that is not a multiple of 8 (`protocol.cpp:68`), although the comment
   there says "The message must be a multiple of 8". `FrameIsDecodable` exempts
   this one length (`TooLongToPad`); `AutosendKeepsAll` shows that autosend
   messages never get there.
4. `beginTransaction` sends BEGIN before it takes the lock that keeps others
   out of the transaction (`database.cpp:64`). A write of the other thread that
   falls in between is reported done and rolled back with it (`caught` in
   `AnswerIsKept`). And `executeQuery` retries in a new session, so that
   `commit()` is true although what the transaction wrote before is gone
   (`undone`). `AnswerIsKept` shows that there is no third way.
5. A creation whose check was refused by the server, or whose INSERT was
   repeated after a lost answer, makes a second account of the same name if the
   table has no unique keys, or is answered "cannot be created" although it was,
   if it has. `AccountsUnique` and `AnswersAreTrue` exempt clients whose
   statements were `disturbed`. The schema is not in the repository, so that
   both tables are checked.
6. Who registers as name what somebody else has as e-mail makes logins by it
   depend on the order of rows (`LoginFindsOwner` exempts them).
7. An orderly `Game::shutdown` leaves the database thread running, so that
   `main` waits to join it for ever (`main.cpp:67`). `ShutdownEndsTheRest` shows
   that the dispatcher and the network end, and the scheduler too unless it
   missed its notification (finding 1); then `main` hangs in the scheduler's
   join already.
8. `DBInsert::addRow` does not count the row that begins a new statement, nor
   the punctuation, so that a statement may be longer than the server accepts by
   as much; `RowsInserted` states the bound that does hold.
9. `begin()` counts a transaction as started before BEGIN may be refused
   (`database.h:218`), and a start that fails before `main` waits is never
   heard (`main.cpp:60`, where the notification is not tied to a condition).
   Both are hazards in `PROJECT.json`; the first is outside of the model.
10. The list that `Scheduler::shutdown` clears "should already be empty" (a
    comment, `scheduler.cpp:124`), and need not be.
11. `canRead` (`networkmessage.h:163`) lets the position go to `length + 8`, which
    is the end of a packet only with all its headers. A packet that is not
    encrypted, as the first of every connection and hence every packet that is
    parsed in this tree, may be read up to 8 bytes past its end, where the buffer
    holds what an earlier packet left. When no checksum matched, decryption
    covers 4 bytes fewer than reading allows (`protocol.cpp:81`). `ReadsAreBounded`
    states these margins, and that there are none for a packet that was checked
    and decrypted; no read leaves the buffer.
12. `PropStream::operator<<(std::ifstream)` (`fileloader.h`) points into a
    vector that is gone when it returns. Nothing calls it; not modelled.

## Proofs

`DispatcherProofs` proves, for any number of clients and tasks and assuming
only `DispatcherAssumption` (the worker is not a client, stop tasks and
expirable ones are tasks and different, `None` is no task):

- `TypeCorrect`, inductive as it stands;
- `NoLostWakeupHolds`, inductive relative to types: a caller that makes the
  list non-empty is in `signal` until it notifies;
- `TaskOwnershipHolds`, through `OwnershipInv`, which adds that a popped task
  has not been started yet, since otherwise `Execute` could start it twice;
- `GracefulStop`, through `GracefulInv`, which adds in which places the worker
  can be when the state is TERMINATED and, with `StopsLast`, that only stop
  tasks are behind a stop task: once `shutdown` has found the dispatcher closed
  nothing else is accepted;
- `DispatcherImplementsExecutor`: initial states and steps of the dispatcher
  are initial states and steps or stutters of `TaskExecutor`, through
  `OrderInv`: of two tasks in the list the one in front is the one
  `TaskExecutor` lets run first.

The lemmas in front are about the list: what pushing at either end and popping
do to its elements, stated once and cited.

`SchedulerProofs` proves, for any number of clients, events, identifiers and due
times and assuming only `SchedulerAssumption` (at least two identifiers, `None`
is no event):

- `SchedulerTypes`, inductive as it stands;
- `NoOversleepHolds`, inductive relative to types: a new event that does not
  beat every other is due no earlier than one that is queued already;
- `ActiveIdsHold`, through `IdsInv`, which adds that queued events have
  different identifiers (the bound `IdIsFree`) and that a stopped event was
  added before;
- `SchedulerImplementsTimers`: initial states and steps of the scheduler are
  initial states and steps or stutters of `TimerService`, through `DeadlineInv`:
  while the thread sleeps until a deadline an event that is due no later is in
  the queue, unless `shutdown` has emptied it, so that the event that is on top
  when the deadline has passed is due, whichever it is (`PoppedIsDue`).

`DatabaseTasksProofs` proves, for any number of clients and statements and
assuming only `DatabaseTasksAssumption` (the worker is not a client, `None` is
no statement), `ExecutedOnceHolds` and `OvertakenOnlyInHandHolds`. Both come
from `TasksInv`, which says what neither property does: the list is the end of
the log of accepted statements, in the same order and without repetition, and
what is in front of it is, as a set, what threads hold or have executed. A pop
then moves the boundary by one, and since the statement it takes is in front of
all that are listed, only a statement in another thread's hand can be overtaken.
A statement in a hand has been executed exactly if its thread is in `answer`.

`ServiceManagerProofs` proves, for any number of ports and protocols,
`AcceptsOrReopensHolds` and `StoppedPortStaysClosedHolds` through `PortInv`: a
port has one accept or one reopening outstanding, never two, and `pendingStart`
tells which; a port that was never added has neither; nothing is reopened after
the shutdown, and a stopped acceptor is not open. Most actions concern one port,
and `PortUpdate` says that then only that port has to be looked at.

`ConnectionProofs` proves, for any messages, any number of packets and any
number of sends and closes, `WritesInTurnHolds`, `ReleaseMatchesCloseHolds` and
`ConnectionImplementsChannel`. `ConnInv` adds three things to the types. `Settled`:
an open connection is being accepted or reading, nothing happens to one that has
neither been handed over nor got a protocol (`Bare`), and one that is destroyed is
closed, without timers or handlers. `Framing`: the first message of the queue is the one that is
written and the only one of the queue that is framed, which is why `send` and
`onWriteOperation` between them start one write and frame each message once.
`Order`: the queue holds what was accepted and not delivered, in the same order,
but for a first message whose write is done and not yet reported; an error
empties it and closes the connection. Most steps do not touch the queue; they
are shown once (`CalmStep`) to keep all of that and to be a close or a stutter
of `Channel`, so that only `Send`, `OnWriteOperation` and `WriteCompletes` need
an argument of their own.

`DatabaseProofs` proves `AnswerIsKeptHolds` for any threads, writes and losses of
the session, assuming that `None` is no thread and that no write is called
BEGIN, READ or none. The relation `AnswerIsKept` rests on is that of the lock:
`Taken` is how often a thread has locked the recursive mutex, once for being
inside a query and once for being inside a transaction, and `Locking` says that
this is positive for the owner only, and its depth. So no statement of another
thread falls into a transaction but between BEGIN and the lock (`caught`).
`Effects` bounds how often a write can have taken effect, by whether it was
executed and by how many answers were lost; `Answers` says that what was
answered has an effect, or had one in a transaction that a lost session undid.
It also proves `RowsInsertedHolds`, for rows, packets and heads of any lengths:
by `Collected` the rows not yet executed are the last that were given, and
`length` is no less than what they need behind the first; by `Executed` every
statement keeps its bound and its rows are those before, each once and in
order; a row that is nowhere made its call return false.

`AccountsProofs` proves `AccountsUniqueHolds`, `AnswersAreTrueHolds` and
`LoginFindsOwnerHolds` for any number of clients and losses and any table to begin
with in which names and e-mails are unique, with and without unique keys;
`AccountsAssumption` says that `None` is neither a request nor an answer. What makes two SELECTs and an INSERT safe without a
transaction is `Checked`: what a check found is still true when the INSERT is
sent, because the one dispatcher runs no other task in between, and a later row
can only be the same client's own, from an INSERT that was repeated.

`ServerProofs` holds the proofs of three modules.

- `Messages`: `FrameIsDecodableHolds`, `AutosendKeepsAllHolds` and
  `ReadsAreBoundedHolds`, for any size of the buffer for which the largest body
  is a multiple of 8 and at least 24 (as 24576 is) and of which the longest
  string fits. `MessagesInv` says of the buffer that is written where
  it starts and ends (`Written`), of what was framed that it can be sent
  (`Sendable`), and of one that is read what has arrived (`Arrived`).
  `PaddedLength` shows that the padding fails to fit for exactly one length.
- `Autosend`: `ChainUnbrokenHolds`, for any number of protocols and any bounds,
  through `ChainInv`, the property and the types of the counters.
  `WithoutProperties` is the fact it rests on: removing a protocol, by moving
  the last one to its place, makes the list shorter by one.
- `Lifecycle`: `MainFollowsLoaderHolds`, for any number of tasks from the network.
  `TasksInOrder`: `mainLoader` is the dispatcher's first task, and the stop task
  and `Game::shutdown` are last, with nothing accepted behind them. `Loaded`:
  unless its wait ended early, `main` has been notified by a `mainLoader` that is
  done, and is online only with services. `Joined`: what `main` has joined has
  ended and is not started again.

### What is only model-checked

- Liveness, under the fairness above, which is beyond the prover, as is
  ENABLED: `AcceptedTaskCompletes`, `ShutdownEndsThread`, `DueEventLeavesQueue`,
  `ConnectionDies`, `AcceptedStatementRuns`, `PortRecovers`, `QueriesReturn`,
  `NotOnlineReturns`, `ShutdownEndsTheRest`, `BufferedIsHandedOver`, `ChainsEnd`,
  `RequestEnds`.
- `DecryptInverts`, `ChecksumIsExact`, `PropsReadBack`: what a recursive function
  computes for every input takes induction over data, which the provers cannot
  do, and the module uses `Bitwise`. They are checked for every input of small
  widths only.

## What the models leave out

- **Catch clauses** of `connection.cpp` around `async_read` and
  `expires_from_now`: those calls report errors to handlers and do not throw.
- **`Dispatcher::stop` and `Scheduler::stop`** are called where the code calls
  them, by tasks. `stop()` itself tests nothing; `Scheduler` guards it with the
  state RUNNING because its one caller, `setGameState`, calls it once, before
  `Game::shutdown`, which it queues, can run. A `stop()` after a `shutdown()`
  would undo it.
- **Accepting**: a connection whose accept fails, and one that a port without
  services accepts, is not followed in `Connection`; the failure is in
  `ServiceManager`.
- **Lifecycle**: the handler of SIGBREAK joins the threads from a thread of its
  own; its task does nothing in this build, and that join is not followed.
  `NotOnlineReturns` begins where `main` has been notified.
- **`createTask` with an expiration, `DBTransaction`, `DBInsert`,
  `DatabaseTasks::addTask`, `addProtocolToAutosend`, `getOutputBuffer`,
  `stopEvent`, the property streams, `setGameState(SHUTDOWN)`** have no caller
  in the tree. They are modelled as interfaces: any thread their comments allow may
  call them.
- **`ServiceManager`** assumes that the game is shut down after `run()`. Its
  handlers and `open()` are single steps although ports have no lock, which
  `AcceptsOrReopens` justifies: no handler can run when `open()` is to run.
- **Accounts**: the text of statements and their escaping; a password stands for
  its SHA-1. A session lost before the server has executed a statement only has
  it sent again. The shutdown of the dispatcher, which leaves requests without
  an answer, is in `Dispatcher`.
- **Autosend**: a buffer is a number of chunks of equal size; `Messages` has the
  bytes. A connection that is gone drops what it is handed.
- **RSA, SHA-1, configuration, the schema checks, the pool allocator**: see the
  components in `PROJECT.json`, each with its reason. The rate limit is a
  choice in `Connection`, the arithmetic behind it is not modelled.
- **Database**: errors other than the loss of a session are answers; a server
  that rolls a transaction back by itself (deadlock between clients) is not
  modelled, as the server is the only client of its session.

## Plan

Done: the modules above, and proofs of every safety property of a passing run but
for those of `Bytes`. What is left:

1. `Bytes`, as far as it can be proved without induction: one round of XTEA is
   undone by its inverse for words of any width (with exclusive or as a parameter
   and its one law as the assumption), and the sums of one block do not overflow;
   the composition stays with TLC.
2. The action facts that liveness rests on: that each step of a worker makes the
   list shorter or the handler count smaller, as theorems of their own.
