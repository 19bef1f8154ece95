# Verification of pluto-server

TLA+ models of pluto-server, the TLC configurations that check them, and TLAPS
proofs of every safety property that the passing runs check.  `PROJECT.json`
holds the same information for tools: components, runs, mutants, the map from
definitions to source lines, findings, hazards and theorems.

## The system

Two processes are built from one C++ core (`common/`):

* **gameserver** – a socket thread that serves clients, and a worker thread that
  runs the Python scripts in `pyscript/`;
* **dbserver** – the same socket thread, and workers that pass SQL to MySQL.

The game server is a TCP client of the database server.  `bin/config.json` sets
`worker_num` to 1; the message queue is written for any number of workers.

```
 client --TCP--> socket thread --mq2s_--> worker (Python)
        <--TCP--  (EpollServer) <--mq2c_--   |
                      |  Connector           | SqlExec / on_save
                      +--------TCP---------- dbserver: EpollServer, DBWorker
```

### Inventory

| component | state | operations | what is hard | module |
|---|---|---|---|---|
| `MessageQueue` | two lists, two mutexes, a condition variable, an eventfd, `timerid_max_` | push and pop on either side | wakeups, exclusion, order, a value read after the unlock | `MessageQueue`, `FifoPipe` |
| `EpollServer`, `Channel` | `channel_map_`, buffers, watchers | accept, read, write, close, drain of `mq2c_` | partial reads and sends, errors, descriptors that come back as other clients | `EpollServer` |
| `Connector` | `success_`, descriptor, buffers | connect, reconnect, send, receive, close | a connection that breaks in the middle of a package | `Connector` |
| timers | `timer_map_`, libev watchers, `TimerManager.timers` | add, cancel, expire, run | four places that must agree on an id | `Timers` |
| `Package`, `CByteStream` | none | write and read a header | signed bytes | `Stream`, used by `Buffer` and `SqlExec` |
| `Buffer` | sizes and offset | `Extend`, `Write`, `Read` | the size limit | `Buffer` |
| `SqlExec.py` | `_sql_id`, `sql_dict` | execute, call back | ids that come round, answers that do not come, callbacks that query again | `SqlExec`, taken by `AccountMgr` |
| login and players | `client_map`, `save_objs`, `_dirty`, the table | create, login, relogin, logout, close, level, channel, tick, answer | answers to old questions, requests that overtake each other | `GameLogic` |
| `DBWorker`, `CDBConn` | the table, a session with MySQL | query, update | several workers on one row; a MySQL that comes and goes | table: `GameLogic`, `AccountMgr`, `SqlExec`; sessions: `Startup` |
| `GameWorker`, `cpp2py`, `py2cpp`, `pymain` | none of their own | dispatch | – | inside the handlers' actions; partly |
| `AccountMgr` | `_account_list`, the table `account` | account lookup, user check | overlapping logins of a new user, proxies that are replaced or removed | `AccountMgr` |
| `ChatRoom` | members of a channel | enter, talk | players that go, sockets that change hands | `GameLogic` |
| start-up, threads, configuration | the shared tree, singletons, the threads themselves | read, create, set up, loop, return | objects shared by pointer that another thread builds or frees | `Startup` |
| `Logger` | one `ofstream`, the name it believes is open | open, switch, write | no lock, two files a day | `Logger`, taken by `Startup` |
| `JsonHelper` | a parsed tree, copied by pointer | look up an item | who frees the tree | inside `Startup`; partly |
| cJSON, `net_util`, hot reload, tools, tests | – | – | – | not modelled, see the end |

The properties that make each component correct are listed per run below.

## Modules and how they correspond to the code

**MessageQueue** models every push and pop of `message_queue.cpp` step by step:
lock, `push_back`, broadcast or eventfd write, unlock.  `pc` says which statement
a thread is at, `lock2s`/`lock2c` own the mutexes, `waiting` is the wait set of
`mq2s_cond_`, `efd` the counter behind `eventfd_`.  `pthread_cond_wait` releases
the mutex and waits in one step, may return without a broadcast
(`SpuriousWakeup`), and takes the mutex again before the `while` is tested.  The
socket thread's loop in `OnEventfd` is `EventfdRead` followed by `MQ2C_Pop` until
the list is empty.  The push functions of one list differ in their message only,
so they share the steps after their first.  `pushed*` and `popped*` are history
variables.

**FifoPipe** is what both lists promise: messages are taken once and in the order
in which they were put.  The mapping is `put <- pushed2s, taken <- popped2s`, and
the same for `2c`.

**EpollServer** has one action per libev callback of `epoll_server.cpp` and one
per handler of the worker, the two lists being plain sequences (justified by
`MessageQueue`).  A descriptor (`Fds`) is told from the client behind it
(`owner`): the code knows only descriptors, the properties are about clients, so
messages carry the client as a ghost field.  A message lists its addressees in
order, as `list<uint32_t>` does, and a descriptor may be listed several times: the
package is then written as often (`Times`, `Copies`), which is what a chat room does
when two of its players logged in on one socket.  A package is two bytes, the least
that can be torn.  `OnReadError` is `recv` returning -1, for which the code has
one reaction.  When descriptors run out `OnAccept` goes on with -1 and libev
aborts (`aborted`); nothing happens after that.

**Connector** is the other half of `epoll_server.cpp`: the connection the game
server makes.  Both ends are in the model, the database server reduced to its input
buffer, a queue and its workers: a worker takes the oldest request
(`MessageDispatch`) and is done with it later (`ServerAnswer`), so that workers
overtake each other; an update gets no answer, and the answer to a query finds its
way back unless the connection it came from has gone.  After `misread` (a package
read from its middle) the model stops, because what the code then does depends on
arbitrary bytes. A broken connection is noticed on read; the fairness is that
`connect` succeeds in the end.

**Timers** follows one timer id through script, queue, `timer_map_`, libev and
back.  Time is left out, a started watcher may expire at any moment.  The
function `add_timer` in `game_py2cpp.cpp` lacks a `return`; the model assumes
what the unoptimised build does.

**Stream** gives the arithmetic of `ReadUint32`, `ReadUint16`, `operator >>` and
`IsPduAvailable` with `uchar_t` as the signed `char` it is in this build
(`util.h`).

**Buffer** keeps the sizes of `buffer.cpp`: what the object believes
(`m_alloc_size`) and what `realloc` gave (`room`).  It stops when a write went
beyond `room`.  Its framing properties ask what `ReadPackage` makes of the bytes
it holds when they begin with the header of a package.

**SqlExec** defines the steps of a query: `Exec` (a new id, the callback kept
under it, the request sent), `Drop`, `DealQuery`, `OnCallback`.  Queries are
numbered, so that `called` can say whose answer ran whose callback.  Queries
under way are sets: several `DBWorker`s may answer in any order.  Ids run from
`MinSqlId` (1 in the code) to `MaxSqlId` (32000), both constants.  The id passes
twice through the 16-bit field (`Carried`), so that an id with a low byte above 127
comes back as another number.  `OnCallback` has the order of the
code: the callback runs, and may make a query, before its entry is deleted.

**AccountMgr** composes these steps with the login of `AccountMgr.py`: the lookup,
the INSERT and second lookup that `_get_uniqid_cb` makes for a new user, the answer
of `_get_uniqid_cb2` to the proxy that is in `_account_list` by then, `user_check`,
and the table with its unique key.  A query remembers the proxy that was there when
it was made, to tell whether the answer goes to the same one.  INSERTs overtake
SELECTs and each other, and a request can be lost or refused.  `Reserve` is the
bound: it keeps room for the query that the callback of a login makes, so that no
handler is cut short by a bound.

**GameLogic** has one action per handler of the scripts (one worker runs them, so a
handler is atomic) and one for `DBWorker`.  The columns of a player are reduced to
the level and the chat channel; `_dirty` and `tick_num` are kept because saving
depends on them.  `chat_channel` holds who entered which room: only `after_load`
enters anybody, and nobody leaves.  `worker_num` workers of the database server take
the oldest requests and finish in any order; `overtaken` remembers the players one
of whose requests was served before an earlier one.  `strays` and `shared` are
history too: players in memory whose client was not there any more when they came,
or took another player, and players for which `create_player` registered a second
proxy.  Each `SELECT` carries the socket of the object that waits for it, which
`SqlExec` justifies.  `replaced` remembers what players had become when the answer
of an overlapping load replaced it by an older row, before it was saved.  The link
to the database is reliable here; `Connector` shows what the real one does.  The
helpers carry the names of the methods they stand for (`GetObj`, `LoadObj`,
`CreateObj`, `kick_player`, ...); `dispatch_protocol` is every command of a client,
`OnFdClosed` its close.

**Logger** defines the steps of one call of `LogDebug`, `LogInfo`, `LogWarning` or
`LogError`: `is_open`, the comparison of `file_`, `close`, `assign`, `open`, the
write.  `opened` is the file behind the stream, `file_` the one the logger believes
in; `good` is the stream's state, which a second `open` or `close` spoils and a
successful `open` restores.  Two threads in the stream at once are a data race; the
model gives every order of whole calls and leaves out what torn ones do to memory.
`disturbed` and `alone` remember overlaps.  `LoggerSpec` is any use of the logger.

**Startup** has the main thread, the socket thread and the workers of either server,
from `main()` to their loops, with `Log` and the steps of `Logger` as part of
theirs: a thread goes on when its line is written.  Any one item of `config.json`
may be missing, and so may the file; `pthread_create`, `socket`, `bind`, `listen`
and `eventfd` may fail.  A `JsonHelper` is copied with its pointer, so the first
copy to be destroyed frees the `tree` of all.  `misused` records a use of the tree,
of the queue or of `EpollServer` and its eventfd when it is not there. Of traffic,
the model keeps one list of messages and what the database worker does with MySQL:
`mysql_ping` restores a session that was lost, never one that was not made; an error
makes a query call `Next()` on NULL, and there are errors with a good session too,
since text of clients is part of the statements.  The game server has one worker at
most, as two would enter one Python interpreter at a time.

The theorems about a module are in the module of its name with **_proofs** added;
those about `Logger` are in `Startup_proofs`, those about `SqlExec` in
`AccountMgr_proofs`, those about `Stream` in `Buffer_proofs`.

## Runs

| run | what it shows |
|---|---|
| `message_queue` | `MutualExclusion`: a mutex is owned exactly by the thread between lock and unlock. `PopNeverEmpty`: `front()` is never called on an empty list. `NoSleepWhileWork`, `NoMissedEventfd`: no lost wakeup, in either direction. `TimerIdsDistinct`, `TimerIdReturned`: ids are unique, and what `MQ2C_Push_Timer` returns after its unlock is never the id of an older timer. `ToWorkerFifo`, `ToSocketFifo`: both lists implement `FifoPipe`. `EveryMessageHandled`, `EveryReplyTaken`: every message is popped. |
| `epoll` | Two clients, at once or one after the other on one descriptor. `InboundIntegrity` (every client's packages in order, without gaps or foreign bytes), `OutboundWhole` (what a client receives is whole and in order; one package comes several times only if its list holds the descriptor several times), `SessionProtocol` (the worker sees the close of the old client before anything of the new one), `CloseReported`, `AddresseesServed` (a reply or broadcast reaches every listed addressee that stays, as often as it is listed, whichever others have gone and however `send` cuts the output). |
| `timers` | `NoTickWhenOver`: a timer that was cancelled, or that ran once and does not repeat, never runs again, although its watcher goes on and its expiry may be queued. `TimersServed`: every timer is served or found its key taken, and the first is served. |
| `buffer` | `SoundBelowLimit`: below `MAX_BUF_SIZE` the buffer's own account is right. `NeverMisframed`: no package in the buffer is cut at a wrong length. |
| `account` | `OwnCallback`: an answer runs the callback of its own query, and a pending query keeps its callback, although ids come round, queries are lost and callbacks query again. `AnsweredOnce`: a login is answered at most once. `OneIdPerAccount`: every answer gives a user the same account, whatever INSERTs overlap. `EveryLoginAnswered`: a login is answered in the end, on the socket that made it, unless a query of it is lost, a query of it bears an id that is garbled on the way, or the user's proxy is by then another one or none. |
| `game` | One player, two sockets, two database workers. `CleanIsSaved`, `LeavesSaved`, `ChangeReachesDb`: no order of commands, closes, ticks and answers loses what a player has become, unless requests of that player have overtaken each other or, for `ChangeReachesDb`, the answer of an overlapping load has replaced it. |
| `game_clients` | Two players, two sockets. `OneClientPerPlayer`: logins never leave two connections with one player. `PlayerHasClient`: a player in memory has the client it sends to, but for strays and shared ones. `MembersHear`: a socket that commands a player in a channel is addressed by what is said there. `OnlyMembersHear`: no socket of anybody else is. Both with the same exceptions, and but for a player that `set_channel` has moved since it was loaded. |
| `connector` | Two workers in the database server, which finish in any order. `AtMostOnce`: requests reach them at most once and in order, none is answered twice, and answers arrive at most once and in the order in which the workers pushed them, wherever the connection breaks, until a package is misread. `FirstConnection`: until the first break nothing is missing, misread or left without `EV_WRITE`. `AcceptedAnswered`: while the connection holds, every query is answered and every update reaches a worker. |
| `startup` | `SharedAreThere`: what the threads share is there when it is used, unless the configuration lacks the port or the database list or has no worker. `LineInItsFile`, `ChangeOfFileRepairs`: lines are in their files until two calls overlap, and the next undisturbed change of file repairs the log. `QueryAnswered`: a query is answered or, after an SQL error, the server is over; no server stays that can answer none. |

The runs that end in a violation each confirm one disagreement between the code
and what the repository says of it:

| run | what happens |
|---|---|
| `epoll_misdelivery` | A reply to a client that has gone reaches the next client on the descriptor. |
| `timers_lost` | A second timer never ticks: `timer_map_` has the one key 1. |
| `wire_length` | A package of 128 bytes is never recognised. |

Further deviations are part of the models without a run of their own:

* a client that leaves before its login is answered, or that logs in as another
  player on the same socket, leaves a player in memory that no close removes
  (`strays`; `pymain.py:40` says that the player goes with the socket);
* after a reconnect to the database server the rest of a half-sent package goes
  out first, and the receiver takes the middle of a package for a header (`misread`
  of `Connector`);
* `set_channel` does not enter the room, so a player does not hear its channel
  until it has logged in again (`moved`), and nobody ever leaves a room;
* with several database workers the SELECT of a login can overtake the UPDATE of
  the logout before it, and the older row is loaded (`overtaken`);
* two threads that log at once can leave the log in a failed state, silent until
  the file changes, or send lines to the wrong file (`disturbed`);
* without a port, the socket thread returns and frees the configuration that the
  workers are about to read; with `worker_num` 0 the main thread destroys it and
  the queue while the socket thread runs (`EndsEarly`);
* without the configuration file the server ends in an exception (`LoadConfig`);
* a failed connection to MySQL goes unnoticed, since `ConnectDB` looks for a
  negative number, and the first query then brings the server down; the branch that
  answers `conn_fail` is never reached (`ConnectDB`, `NextOfNull`);
* an SQL error with MySQL up and a good session, such as a quote in a client's user
  id makes (`Interface.py:6`), brings the database server down as well
  (`DealQuerySqlOne`);
* a chat room lists a socket once per player that logged in on it, and the package
  is written to it as often (`BroadcastSome`);
* the answers of several database workers overtake each other (`ServerAnswer`);
* a broadcast to all is pushed with an empty list and reaches nobody
  (`BroadcastAll`; `py2cpp.py:15` promises everyone);
* above `MAX_BUF_SIZE`, `Buffer::Extend` raises `m_alloc_size` and returns without
  `realloc`, since `if (before_size = MAX_BUF_SIZE)` assigns (`Extend`; the
  property `SoundBelowLimit` is the part that holds);
* a query id with a low byte above 127 comes back as a number above 65407, which
  is never in use: its callback is not run and stays in `sql_dict`, and a login that
  waits for it is never answered (`Carried`, `Garbled`;
  `log/db1_20170711.log:142600-142708` shows answers to the ids 65509 to 65513);
* the answer to a login goes to the proxy that the user has by then, or to nobody
  (`Answer` of `AccountMgr`);
* requests made while the connector is down are deleted (`OnEventfd` of
  `Connector`, `Drop` of `SqlExec`), saves included;
* of two overlapping loads of a player the later answer replaces the object in
  memory by an older row, and a change that was not saved is lost (`replaced` of
  `GameLogic`);
* when `accept` fails the process aborts (`OnAcceptError`);
* `create_player` can register a second connection for a player (`shared`).

### Bounds

* Message queue: two workers are the least that can steal a message from each
  other; two messages per direction, of two kinds, let one be pushed while the
  other is being drained; one spurious wakeup at any moment.
* EpollServer: two clients and two descriptors, of which the kernel gives the
  lowest, so the clients are served at once or one after the other on one
  descriptor; a list has up to two addressees, different or the same; two packages
  of two bytes in each direction give every way to tear a package, to merge two, and
  to leave half a package behind for the next client.
* Connector: four requests, two breaks and two workers; a break can fall before,
  inside and after each package, a third connection can meet what the first left
  behind, and two workers are the least that overtake each other.
* Timers: three timers, so that two can compete for a key another one holds; two
  expiries in the queue; ticks are counted up to two, enough to see one too many.
* Buffer: the real `READ_BUF_SIZE` and `MAX_BUF_SIZE`, with lengths at and next
  to the limits.  Every fill level from 0 past `MAX_BUF_SIZE` occurs; the framing
  properties try, at each, all lengths to 300 and those at the fill level.
* AccountMgr: two users and two sockets; five queries let two logins of a new
  user overlap with all their queries; one request is lost or refused.  There are
  four ids instead of 31999, 255 to 258, so the ids come round and one of them, 255,
  is garbled on the way.  A query is answered or lost before `MaxPending` others have
  been made, which is what the code relies on: with more of them a new query would
  overwrite the callback of an old one.
* GameLogic: `game` has two sockets, one player, two levels, two database workers
  and four commands, with any number of ticks and answers in between: login, level,
  relogin and close fit.  Levels only rise, so that a level identifies what was
  reached.  `game_clients` has two players and two sockets, the least that can
  change hands, and four commands; level and ticks, which do not matter there, are
  at their least.
* Startup: one worker, since two threads are enough to disturb each other in the
  log and to use what the other builds; two days, so that the file changes by date
  as well as between `.log` and `.err`; two messages and one outage of MySQL let a
  query fall before, into and after the outage.

For the safety properties the theorems remove all these bounds: they hold for any
sets of threads, clients, descriptors, players and users and for any number of
messages, packages, queries, commands, ticks and breaks.  For liveness the bounds
stay.

`CHECK_DEADLOCK FALSE` is set because an idle server is a legal end of bounded
traffic.

### Fairness

The operating system runs every thread that can run and libev calls every ready
watcher again (epoll is level triggered), hence weak fairness on the steps of
threads and callbacks.  A handler returns.  A client that stays open keeps
reading, so `send` does not return -1 for ever.  In `Startup` fairness is on the
threads only, and nothing is assumed of MySQL.  The ticks of the game server come
from a libev timer.  Nothing is assumed of clients' commands, of handlers'
pushes, of breaking connections, of spurious wakeups, or of timers being added.

## Proofs

Every theorem rests on an inductive invariant, as a rule called `IInv`, proved in
the theorem `Invariant` (`Invariance` of the message queue, `LogInvariance` of the
logger): `TypeInv`, the properties that are inductive as they stand, and what the
others need.  There is one lemma per part of the invariant and action, or per part
with a case per action.

**MessageQueue_proofs**, for every set of workers, every traffic and every number of
spurious wakeups, from `ThreadAssumption`, `TypeAssumption` and `BoundAssumption`
(the threads are distinct, messages have known types, bounds are numbers):

* `TypeCorrect`, `Exclusion`, `PopSafe`, `NoLostCondWakeup`,
  `NoLostEventfdWakeup`, `TimerIdsUnique`, `TimerIdsReturned`: the invariants of the
  run `message_queue`;
* `ToWorkerRefinement`, `ToSocketRefinement`: both lists implement `FifoPipe`.

`IInv` adds `ArgInv` (a message on its way into a list has the type of the list),
`WaitInv` (the wait set is the set of workers at the wait), `DrainInv` (when
`MQ2C_Pop` returns NULL the list is empty and the mutex held, which closes the gap
between the last pop and the return to `ev_run`), `FifoInv` (what was pushed is what
was popped followed by the list) and `TimerInv` (no timer has an id above
`timerid_max_`).  `NoMissedEventfd` needs `MutualExclusion` to know that no push
falls between the test of the list and the unlock; `NoSleepWhileWork` needs it for
the condition variable.  `TimerIdsReturned` adds `ReturnInv`: every id up to
`timerid_max_` was pushed, and a worker that has its id, or has returned, is not
ahead of it.

**EpollServer_proofs**, for any clients, any finite set of descriptors and any number
of packages and replies, from `ClientAssumption` and `FdAssumption`:

* `UniqidIsSafe`: `SessionProtocol`.  `OwnInv` ties channels, owners and the backlog
  together.  `SessionInv` says that a client is known under one uniqid (`HomeInv`),
  that those who have gone or have not come have no message, session or channel
  (`LifeInv`), that CLOSE is a client's last message (`LastInv`), and that wherever
  two clients meet at one descriptor, two messages, a message and a session, or
  either and the channel, the CLOSE of the earlier one lies between (`BetweenInv`).
* `InboundIsWhole`: `InboundIntegrity`.  `Flow(c, F)` cuts the packages of a client
  in two at a number `F`: those up to `F` were handled or wait in `mq2s`, those above
  are the bytes in the buffer followed by the bytes on the wire, wherever a package
  is torn.  `OnRead` only moves `F`.
* `OutboundIsWhole`: `OutboundWhole`.  What a client has received followed by what is
  in its output buffer is whole packages with rising numbers, all older than what
  waits in `mq2c` (`Delivered`).  The copies that one
  message writes to a buffer are numbered in the bytes (`copy`), so that the order
  is strict and a repetition that no list asks for is excluded.  That the addressee
  may be the wrong client (`epoll_misdelivery`) does not matter to it.

**Connector_proofs**, for any number of requests, workers and breaks, from no property
of the constants: `NothingTwice` (`AtMostOnce`) and `FirstConnectionHolds`
(`FirstConnection`).  The bytes on their way, in the three places they can be, form
one stream in each direction.  `OrderInv` says that what starts in a stream is newer
than what has come out of it, and `WorkInv` that what was
answered was served, was answered once and is with no worker any more: a step
takes from the front, adds at the end, or loses a part, so the order stays, broken
connections or not.  `FirstInv` says that until a connection breaks the streams are
whole and hold every accepted request.

**Timers_proofs**, for any number of timers and expiries: `OverIsOver`
(`NoTickWhenOver`).  `OverInv`: a timer that was cancelled, or ran and does not
repeat, has no proxy.  Nothing about `timer_map_` or libev is needed, so the property
survives the wrong key of `timers_lost`.

**Buffer_proofs**, for every limit that is a power of two and lengths of which the
sums are ints (`SizeAssumption`): `BelowLimitIsSound` and `NoneMisframed`.  `Shift` is
recursive; the lemma `ShiftEquation` obtains its equation by exhibiting a function
that satisfies it (`NextPower`, which picks the power of two above a number), and
`ShiftValue` shows by a least counterexample that the loop computes that power.
`MinPow` follows: `min_pow` leaves at least what is asked for and stays within the
limit.  `LengthComesBack` is about the header alone: for every 32-bit length, what
`ReadUint32` makes of it is the length or a negative number.  `RoomInv` bounds the
buffer, so that the lengths compared with it are 32-bit numbers.

**AccountMgr_proofs** (with `SqlExec`), for any users, sockets, number of queries and
failures, and any number of ids, from `IdAssumption` (`MaxSqlId` is at most 65408, the
least number that `Carried` makes of another; the code has 32000) and
`PendingAssumption` (a query is answered or lost before as many others are made as
there are ids).  Ids that are garbled on the way are among them:

* `CallbacksAreOwn`: `OwnCallback`.  `IdOf(n)` counts the id of a query back from the
  last id given; `IdInv` says that every query under way bears it, or on the way
  back what `Carried` makes of it, and that its callback is in `sql_dict` under it.
  `RoomInv` counts the queries that the callbacks of answered lookups may still
  make, which is why no id comes round while it is in use.
* `LoginsAnsweredOnce`: `AnsweredOnce`.  `LoginInv`: a login has one query under way
  at most, and none once it has been answered.
* `AccountsAreUnique`: `OneIdPerAccount`.  `AccountInv`: rows have different ids, and
  what was read or told is still in the table.

**GameLogic_proofs**, for any finite set of players, any sockets, levels, commands and
database workers, from `IdsAssumption`, `BoundAssumption` and `NoneAssumption`
(`None` is none of the other values): `TypesHold`, `OneClient`, `ClientOfPlayer`,
`EveryMemberHears`, `NobodyElseHears`, `CleanPlayersAreSaved`, and the action property
`NothingIsLost` (`LeavesSaved`).  `RowInv`, which TLC's properties do not mention, is
what saving rests on: a player in memory has a row, or an INSERT on its way, and a
row that was read stays, so that an UPDATE will find its row.  `RoomInv` says
who is in which room; with `PlayerHasClient`, which says that the object a socket
commands sends to that socket, it gives `MembersHear`.

**Startup_proofs** proves about `Logger`, for any threads and any number of days,
without an assumption on the constants, `LinesInTheirFiles` and `ChangesRepair`.  The
inductive invariant `LogInv` has two parts: `AloneInv` (a call that none has
overlapped is the only one under way, and from its `close` on it knows the stream)
and `CalmInv` (before the first overlap an open stream is good and `file_` names it,
and a call that is about to write has compared the names).  `AloneInv` does not
depend on what happened before, which is why an undisturbed change of file repairs
the log.  About `Startup`, for any number of workers, messages and days, from
`ThreadAssumption` (the workers are numbered from 1 and are neither of the other two
threads):

* `ServerUsesLogger`: `Spec => LoggerSpec`, a server is one of the users that
  `Logger` allows, so that `ServerLinesInTheirFiles` and `ServerChangesRepair`
  follow;
* `SharedSafe`: `SharedAreThere`.  Its invariant `SharedInv` says, for a
  configuration that ends no thread early, that the tree is parsed and the queue
  there once a thread is created and that the main thread cannot return any more
  (`MainInv`, `RunInv`), that the socket thread reaches its loop only with the
  eventfd (`SocketInv`), and that a message, and therefore a worker with one, exists
  only after that (`WorkerInv`).  This is the reason why workers may start before
  the socket thread has built what they use.

Only model-checked: liveness (`EveryMessageHandled`, `EveryReplyTaken`,
`CloseReported`, `AddresseesServed`, `TimersServed`, `EveryLoginAnswered`,
`ChangeReachesDb`, `AcceptedAnswered`, `QueryAnswered`), since fairness and ENABLED
are out of the prover's reach, and the three findings.

## Hazards

`PROJECT.json` lists what is hard to test in this code, each at its line and with
the properties that watch it.  A hazard without a property is one that the code does
run into, or one that lies outside the models; its note says which, and where in the
models it can be seen.  The properties except exactly these cases, by name: `misread`,
`aborted`, `strays`, `shared`, `moved`, `overtaken`, `replaced`, `lost`, `Garbled`,
`disturbed`, `EndsEarly`.

## Plan

Done: the message queue, both uses of the socket thread, timers, wire format,
buffers, queries, accounts, players and chat, start-up, the log, and sessions with
MySQL; proofs of all safety properties.

Left, in this order:

1. Abstract specifications of more components, and their refinements proved: the
   table of accounts as a register per user, the player table as one value per
   player, the connector as a channel that loses.
2. A composition of game logic, connector and database server, to say which saves
   survive a reconnect or a crash of the database server.

## Not modelled

* `cjson.cpp` and `cjson.h` are vendored; the texts that `JsonHelper` builds and
  reads are formatting, and payloads are opaque in the models.
* `CByteStream`'s strings and other integers, `CDBConn`'s accessors of a result and
  `DealQuerySql`: no path of the servers depends on them beyond the values they copy.
* `net_util`: one system call each; what a call can return is part of the actions
  that make it.
* The conversion of arguments between C++ and Python.
* `ReloadMgr`, `SaveObj_old`, `Persistent`, `MetaClass`: nothing in the servers
  calls them.  `Singleton` is Python idiom.
* Tools, test clients and binaries.
