# A verification project for QtNetworkProtocol (Heart)

Heart is a Qt library for network nodes. `AbstractSpace` holds nodes, connections,
packages and requests; `DataBaseSpace` adds a database, members, permissions, sessions and
subscriptions; `NetworkSpace` (built at the highest level only, under development) adds a
distributed network. This directory holds TLA+ models of its core, the TLC
configurations that check them, and TLAPS proofs about them. Paths are relative to the
root of the repository; `AS` is `src/Heart/AbstractSpace`, `DB` is
`src/Heart/DataBaseSpace`, `NS` is `src/Heart/NetworkSpace`.

Contents: 1 inventory, 2 modules, 3 what each module abstracts, 4 runs and bounds,
5 fairness, 6 proofs, 7 disagreements found, 8 what is not modelled, 9 plan.

## 1. Inventory of the system

### Threads

| thread | what runs there |
|---|---|
| main | `AbstractNode` itself: `avelableBytes`, `handleNodeStatusChanged`, single-shot timers, the calls of the application |
| sender (`_senderThread`) | the sockets, the `AbstractNodeInfo`s, `DataSender`, `AsyncLauncher`: jobs, queued slots and socket signals, in the order of its event queue |
| package workers (`_threadPool`) | `newWork`: parsing of a package, penalties, confirmation, most calls of the database |
| database writer | `AsyncSqlDBWriter`: one SQL job after the other |
| key generator | `KeyStorage::run` |

### Components

**Package framing and reception** (`AS/abstractnode.cpp` `avelableBytes`,
`AS/package.cpp`, `AS/header.cpp`, `AS/packages/abstractdata.cpp`). State: one
`ReceiveData` for each address, that is a header, the data collected so far, and a kept
part of a header. Operations: append what the socket has, and loop over three cases.
Hard: TCP cuts the stream anywhere, two packages come in one piece, a connection is lost
within a package, the header holds 16 bits of size. Correct when every package that the
peer sent is handed to `newWork` at most once, in order and unchanged, and when the
loop, which runs in the main thread, ends.

**Connections of a node** (`AS/abstractnode.cpp`, `AS/abstractnodeinfo.cpp`,
`AS/Private/datasender.cpp`, `DB/databasenode.cpp`). State: `_connections` (address to
info), in each info the socket pointer `_sct`, status, trust and direction; the queues of
events of two threads; timers. Operations: `addNode`, `incomingTcp`, `registerSocket`,
`removeSocket`, `setSct`, `removeNode`, `ban`, `badRequest`, `newWork`,
`handleNodeStatusChanged`, `checkConfirmendOfNode`, `handleForceRemoveNode`. Hard: the
fields of an info are read and written by three kinds of threads without a lock, and the
death of a socket passes through two queued events. Correct when an info never points to
a deleted socket, no socket is forgotten, limits hold, unconfirmed peers go away, and the
node hears of every change of status.

**Database cache and writer** (`DB/isqldbcache.cpp`, `DB/sqldbcache.cpp`, `DB/sqldb.cpp`,
`DB/sqldbwriter.cpp`, `AS/async.cpp`, `AS/softdelete.cpp`). State: cached objects, queued
changes, the jobs of the writer's thread, the tables. Operations: `getAllObjects`,
`insertObject`, `updateObject`, `deleteObject`, `changeObjects`, `softDelete`. Hard:
writes return before they are done, the cache is ahead of the tables, what is queued is
flushed when the node stops. Correct when readers see one store, and nothing accepted is
undone.

**Access control** (`DB/databasenode.cpp`). `checkPermission` looks for a member's row,
then for a default row; `createObject` inserts and then grants; `addUpdatePermission`
inserts or else updates; `deleteObject` leaves the rows of the object behind. Correct
when nobody reads or writes without a grant, and grants and revocations take effect.

**User session** (`DB/singleclient.cpp`, `DB/singleserver.cpp`, `DB/accesstoken.cpp`).
Client states Disconnected, Connecting, Connected, Loginning, Logined; tokens with a
lifetime. Hard: single-shot timeouts that belong to an earlier request, late answers, a
status set after the request went out. Correct when client and server agree on who is
logged in, once the messages are through.

**Change subscriptions** (`DB/websocketcontroller.cpp`). Two maps that should mirror each
other, under two mutexes. Correct when they do, and a subscriber hears of each change.

**Key storage** (`AS/keystorage.cpp`). A thread that makes keys for queued tasks and
fills a pool. Hard: `start()` is void while the thread still runs, so a task may wait for
ever; a task may be replaced while it is done; `setGenesisList` inserts empty pairs.
Correct when every requested key is made, once, and each random pair is used once.

**Requests with handlers, and the client's list** (`DB/singleclient.cpp`). State:
`_handlersCache`, a handler for each hash of a request, and `_subscribes`, the client's copy of
its subscriptions, each under a mutex. Operations: `restRequest`, `handleRestRequest`, its timers,
`subscribe`, `unsubscribe`, `syncSybscribeListWithServer`. Hard: the handler is registered after
the request went out, equal requests share a hash, one mutex is asked for under the other.
Correct when a handler runs exactly once, and the two lists agree.

**Objects and packages on their way** (`AS/packages`, `DB/packages`, `DB/sqldbwriter.cpp`).
Each class writes, reads, copies and stores its fields one by one, in four places; classes share
tables. Correct when what is read back is what was made.

**Routing and transport** (`NS/router.cpp`, `NS/networknode.cpp`). Routes, and a memory
of processed packages. Correct when a package is forwarded at most once and without
loops.

**Asynchronous calls** (`AS/async.cpp`, `AS/asynclauncher.cpp`). A job is posted to
another thread and may be awaited with a timeout, running the event loop meanwhile.

The remaining parts, and why they are left out, are in section 8.

### Interactions

`avelableBytes` (main) hands packages to `newWork` (worker), which calls `parsePackage`;
a bad package costs trust (`badRequest`, `changeTrust`), which bans and removes sockets
through the sender thread; status events come back to the main thread. `DataBaseNode`
overrides the events to forget a member's state at disconnection, and turns trust into a
column of the members' table. Object operations go through access control into the
cache, the writer thread and, by direct signals, to the subscriptions, which send packages
again.

## 2. Modules

| module | models | role |
|---|---|---|
| `Delivery` | what a connection promises | abstract: in order, at most once; none left out until it becomes `lossy` |
| `PackageStream` | sender, TCP stream, `ReceiveData`, `avelableBytes` | implements `Delivery` |
| `PackageStream_proofs` | | TLAPS proofs about it |
| `MCPackageStream` | | instances for TLC |
| `NodeConnection` | connections, sockets, threads and their queues | |
| `NodeConnection_proofs` | | TLAPS proofs about it |
| `MCNodeConnection` | | instances for TLC |
| `ObjectStore` | what the database promises | abstract: calls take effect at one moment each |
| `SqlDBCache` | `SqlDB`, `SqlDBCache`, the writer's thread, start and stop | implements `ObjectStore` |
| `SqlDBCache_proofs` | | TLAPS proofs about it |
| `MCSqlDBCache` | | instances for TLC |
| `KeyStorage` | keys, tasks, the pool, the generator's thread, files | |
| `KeyStorage_proofs` | | TLAPS proofs about it |
| `DataBaseNode` | the pool of threads, stop and run, access control, `WebSocketController` | uses the promise of `ObjectStore` |
| `MCDataBaseNode` | | instances for TLC |
| `DataBaseNode_proofs` | | TLAPS proofs about it |
| `Session` | `SingleClient`, `SingleServer`, and a connection between them | client and server composed |
| `Session_proofs` | | TLAPS proofs about it |
| `MCSession` | | instances for TLC |
| `ClientRequests` | handlers and subscriptions of `SingleClient`, with a server | |
| `ClientRequests_proofs` | | TLAPS proofs about it |
| `Packages` | streams, copies, records and SQL statements of every class | functions, and a table |
| `Packages_proofs` | | TLAPS proofs about it |
| `MCPackages` | | instances for TLC |

### State and actions

`PackageStream`: `hdr`, `data`, `hdrArray` are `ReceiveData::_pkg.hdr`, `_pkg.data` and
`_hdrArray`; `array` is the local byte array of `avelableBytes`, `buffer` what the socket
holds. `ReadAll` is the beginning of `avelableBytes`; `FillPackage`, `NewHeader` and
`KeepHeaderPart` are the three cases of its loop, with the common end of an iteration in
`EndOfIteration`. `Send`, `Arrive`, `Disconnect`, `Reconnect` are the peer and TCP. `broken` is a
history variable, which no action reads: whether a payload was read in part or the connection was
lost. It is what `Delivery` calls `lossy`.

`NodeConnection`: `program[t]` is what thread `t` has still to do: the accesses to
shared fields of the functions it is in, in program order. Each access is one step
(`Do...`). Thus `removeSocket` is "take `_sct`", "null it", "disconnect and
`deleteLater`", "set the status", and other threads may step between. `senderQueue` and
`mainQueue` are the event queues of two threads, `sock` the life of each socket,
`heard` the last status the node was told of each peer.

`SqlDBCache`: `call[c]` is the call thread `c` is in and the step it has reached: `VisitCache` (one
critical section of `_cacheMutex`), `PushToQueue` (one of `_saveLaterMutex`), `CallWriter` (post the
job), the wait, `Fill` (what was selected goes to the cache), `ChangeAction`, `Return`. A caller
that was answered by the cache has the cached object itself (`shared`), and its `changeAction`
changes that (`ChangeInPlace`). `RunJob` is the writer's thread, `Exec` what its SQL statements do.
`Stop` and `Run` are those of `DataBaseNode`.

The refinement mapping to `ObjectStore` shows the idea of the cache: the stored object is the
cached one if there is one, else what the tables hold once all posted jobs are done; a
select is answered by the tables as the jobs before it leave them. What the tables are after the
first `n` jobs is a recursive function of `n` (`After`).

`KeyStorage`: one step is a critical section of `_keysMutex`, `_keyPoolSizeMutex` or `_taskMutex`,
or an access made without one; `gen` is the place of the generator's thread in `run`,
`generateKeysByTasks` and `generateRandomKeys`, with the copy of the tasks it works with; `call[c]`
the place of a thread in `getNextPair`. `Destroy` to `Close` are the destructor, whose wait for the
generator ends by time: it goes on to save (`BeginSave`) whether or not the generator has ended. A
generation may fail: its entry is then `Failed`, a pair that is not valid. `Crash` is the end of the
process, `InitStorage` reads the files. `given` is a history of the answers.

`DataBaseNode`: `work[w]` is the request a thread of the pool serves, and the place it has reached.
Each access to the database is a step, each critical section of a mutex, and each of the accesses of
`foreachSubscribers`, which changes `_subscribs` and `_items` under one of the two mutexes only.
`Stop`, `StopDb` and `Run` are `AbstractNode::stop`, the rest of `DataBaseNode::stop` and `run`.
`changes` is what its deletions leave in `ISqlDBCache::_changes`; `StopDb` repeats them (`Flush`),
as `softDelete` does. A table is written when the job is posted: the jobs of the writer thread run
in order, which is what `SqlDBCache` shows of it (`ObjectStore`).

`Session`: `status`, `member`, `timers`, `address` are the client; `link`, `conn`, `request`,
`answer`, `event` the connection and what is on its way; `work`, `info`, `account` the server, and
`granted` the permission that `registerNewUser` gives the user on its own row, without which
`deleteObject` answers with a bad request.
`SetStatus` starts a timer which later restores the status the client had; `TakeAnswer` may take
one of the first `ClientWorkers` answers.

`ClientRequests`: `call[c]` is a thread of the application in `restRequest`, `subscribe`,
`unsubscribe` or `sync...`; `handlers` is the cache, `running` the handler that runs with the
mutex held; `way` and `answers` are sets, because both pools serve in any order. `agreed`
says whether calls and losses so far leave the two lists bound to agree.

`Packages`: `Stream[c]` gives the fields a class writes and the ones it reads, in order; `ToStream`,
`FromStream`, `Copies`, `Condition` and `Columns` are the functions of its class. The actions take
one object and one package at a time through them. `rows` is the database.

## 3. What the modules abstract

`PackageStream`
- A byte is the pair (package, position): the receiver can tell a wrong byte only as the
  code can, by the hash of the whole payload; hash collisions are left out.
- The payload's serialisation is left out; a message has a size, and perhaps hash zero.
- `sendPackage` waits for the socket; nothing follows from the wait.
- `SizeLimit` stands for 2^16: sizes are cut modulo it, as `unsigned short` does.
- A payload is lost when a call of `avelableBytes` reads a part of it: `broken` is set by `ReadAll`,
  however the bytes arrived.
- `_receiveData` is keyed by address, and survives a reconnection.

`NodeConnection`
- `Preemptive = FALSE` is the instance in which calls of different threads do not overlap,
  used to ask about protocol order alone; `Preemptive = TRUE` interleaves them access by access.
- `PackageKind` is what a package makes `newWork` do: a Ping is answered by a `sendData` before the
  node is confirmed, others are processed, refused or close the connection.
- Writing a status and emitting its signal is one step, as is counting connections.
- A second timer of the same kind for the same address collapses with the first.
- `badRequest` costs a member of `Penalty`.
- An info is not visible before it is in `_connections`.
- A peer connects from an address only if no socket with that address is open.
- `DataBaseNode::changeTrust` for a member that is logged in (a change in the database) is
  not in this module; the read-modify-write is `ChangeObjects` of `SqlDBCache`.

`SqlDBCache`
- One key of each kind is enough to tell the calls apart: keys do not interact but in
  `_changes`.
- `getAllObjects` selects one key. Bundles and lists are left out.
- `getFromCache` hands out the cached object itself. What a `changeAction` does to it is modelled
  for the thread that has it; objects are single values, so a caller that changes one field and
  is seen by another in between is not.
- `copyFrom` cannot fail in `updateCache` (`DB/sqldbcache.cpp:89`): equal keys mean equal tables, and
  the objects of a table of the model are of one class.
- A row of `MemberPermisions` has no primary key: SQL refuses to update it. Its
  template carries no id, so the cache never answers for it.
- SQL statements fail only on a duplicate key. Waits do not time out: a timeout leaves two
  pointers to the stack of the waiting thread in the queue, and what follows is undefined.
- `addUpdatePermission`: of its two rows only one is followed; its fallback to
  `updateObject` is never reached while the writer is valid, because an
  `insertObject` that does not wait returns true.
- An object queued for deletion may fail `isValid()`, and is then skipped by the flush.
- The node stops when no call is in progress.

`KeyStorage`
- A pair is a model value, and a genesis stands for the pair made from it.
- `getNextPair` before the storage is initialised is only asked for random pairs.
- The check of the version file is left out; `clearStorage` is not modelled.
- An access without a mutex sees the old or the new value; in C++ it is a data race.
- The pool holds one pair at most. With a larger one and a generator that always fails,
  `generateRandomKeys` would not end, because equal (invalid) pairs are one in the set: the
  liveness of `keys` is for a pool of one.
- A generator that still runs when `~KeyStorage` is left ends the process (`~QThread`): not modelled.
- A file that was cut loses its pair, and `setGenesisList` puts the pairs of its keys out of
  force (`given` forgets them).

`DataBaseNode`
- Objects have no value: updates are seen in their permission checks and announcements.
- The cache is `SqlDB`, the default. Jobs do not time out, foreign keys are not enforced by SQLite.
  That a stop drops the jobs that are still queued is in `SqlDBCache` only.
- The table of members is not followed: one without a row is answered Unknown, which `CheckRow`
  may do at any time.
- A send may fail at any time. Subscriptions to rows of permissions (and so the signals
  `sigItemChanged` of `addUpdatePermission`), `isBanned` and trust are left out, and so are lists of
  subscriptions beyond the read of `_items`.
- The default permission of an object is inserted once and never changes.

`Session`
- One client and one user. `login(memberData)` with other data, the expiry of tokens and the trust
  that refusals cost are left out.
- `overlap` marks sessions in which the client did not wait for what was on its way; `Agreement` is
  not stated for them.

`ClientRequests`
- The user stays logged in. A handler calls nothing of the client: one that does waits for
  ever at the mutex it runs under (a hazard of `PROJECT.json`).
- The hash of a request is that of its data. A broken connection drops everything on its way.
- What an answer that is not processed costs the server's trust is left out.

`Packages`
- The copies are those of every class: a class keeps in a copy what its `copyFrom`, or the one it
  inherits, lists. `init` of a `NodeObject` makes its id again; that of a permission, whose id is in
  no stream and no column, is left out.
- A permission without an address is excluded by an assumption: its condition would be empty, and
  its removal one without WHERE (`DB/packages/memberpermisionobject.cpp:100`). Every caller in the
  repository sets it.
- Values are tokens. A stream is a sequence of values without names, as `QDataStream` is.
- SQL is external: a statement is refused if it breaks a constraint of `BaseDB.sql` or `UserDB.sql`.
- `GetSingleValue`, `GetMaxIntegerId` and `DBObjectSet` are left out.
- Rows of permissions write no command and are thus not packages; the classes that no node
  registers (`SetSingleValue`, `NetworkMember`) are not either.

## 4. Runs

| run | shows |
|---|---|
| `stream` | However the stream is cut, and over a reconnection: nothing is delivered twice, out of order or changed; until a payload is read in part or the connection is lost, every package is delivered (`ImplementsDelivery`, refinement of `Delivery` with its fairness). `ReceiveData` keeps the bounds on which the three cases rely (`BufferBounds`). A package over the size limit and one with hash zero are refused by the sender. |
| `stream_stall` | disagreement, section 7 |
| `conn_threads` | Main thread, sender thread and a worker interleaved access by access, peers that connect once: no info points to a deleted socket, no socket is forgotten, the connection limit holds, every connection is confirmed or closed. |
| `conn_reconnect` | `addNode` and returning peers, in an `AbstractNode` and a `DataBaseNode`, calls not overlapping: no socket forgotten, statuses agree with the sockets and with what the node was told. |
| `conn_overlap` | disagreement, section 7 |
| `db_store` | Two threads on `SqlDB`, one on `SqlDBCache`, with stops and restarts: cache, jobs and tables are one store (refinement of `ObjectStore`), and every call returns. |
| `keys` | With a thread that gives up and asks again, generations that fail, a pool, a destructor that does not wait long enough, restarts, failing saves and crashes: a random pair belongs to one key (`Unshared`), a key keeps its pair (`StablePair`, `WholePair`), a task goes only when done (`TaskRemovedDone`), a task is done if somebody starts the generator again (`RetriedTaskDone`). |
| `session` | Whoever waits has a timer, the client never hears of two connections at a time, and after a session without overlaps client and server agree on who is logged in. |
| `client_calls` | A handler runs once, also when equal requests share it; a list asked for in peace agrees with the server's from then on; every call returns and every handler goes. |
| `client_handler` | disagreement, section 7 |
| `node_serve` | Two threads serving requests, with a stop and a start: the tables of subscriptions mirror each other, only subscribers are told, the database outlives the work, no object is left without a permission, requests and stops end. |
| `packages` | Every object, sent, copied, stored, changed by objects of other classes of its table and read back, keeps its fields, as far as its class copies them (`NothingLost`; rows copy all), and a statement touches only its row and its columns. |

### Bounds

- Streams: headers of 3 bytes (2 in `stream_stall`), payloads of 1 to 3, size limit 4, three
  packages, at most two read events waiting, one reconnection. A header can be cut at each place, a
  piece can end within a header, within a payload and at each border, and can hold two packages and
  a half. The proofs do not depend on these numbers.
- Connections: two addresses, two sockets and one worker with overlapping calls (a third
  thread in `removeSocket` is another copy of the second); two addresses, one of each
  direction, with two sockets when calls do not overlap; one call of the application and
  one package. Each replaced socket is a second one, so two are needed, and two are enough
  for a replacement.
- Database: two threads, a member and a row, two contents, three calls between a start and
  a stop, with no bound on stops: a read, a write and a read, or a deletion between
  two writes, meet in every order.
- Keys: two keys, one of which a genesis list may name, one caller, a pool of none or one, two pairs.
  One caller is enough for the interleavings, since it gives up and asks again while the generator
  still works for it. Two pairs are one for each key, or one that is asked for while it is in the
  pool; all were also checked with three. When none is left a generation fails,
  and none is reused.
- Sessions: two connections, so an old one overlaps its successor; two tokens; two workers
  on each side; two requests and answers on their way. One timer of each sort and one event
  ahead of the next connection bound the queues.
- Client: two threads, two items, two queries, three requests: equal requests and a third, two
  lists at once, a call lost between two others.
- Node: two threads of the pool, one member and a guest, a system object and another, three
  requests, two starts; also checked with two members and one object, and with four requests.
  Two threads are enough to meet at both mutexes, and a third request changes what the first
  two rely on.
- Packages: two ids, two addresses, three rows in all tables; each field is set or not.

Deadlock is checked in the run of the database. Elsewhere it is not: peers, callers and
clients may stop, and the bounds on requests end the run; that nobody is held up there
is what the liveness properties say.

## 5. Fairness

- `PackageStream`: the event loop of the main thread delivers `readyRead`, and the loop in
  `avelableBytes` runs on. TCP delivers what was sent while the link is up. That nothing more is
  delivered once `broken` is true is no disagreement: `Delivery` promises progress until then. No
  fairness of `Send`, `Disconnect`, `Reconnect`.
- `NodeConnection`: each thread runs (weak fairness of the steps of each `program`, of
  the event queue of the sender thread, of the main thread's events and timers: Qt
  posts and fires them). None for peers, packages or the application.
- `SqlDBCache`: the writer's thread runs its jobs, and a thread in a call goes on.
- `KeyStorage`: the generator's thread and a thread in a call go on. None for the destructor, and none
  for new calls, crashes and failing saves. Nobody is bound to start the generator again, so
  a task queued just when the thread ends may wait for ever: `RetriedTaskDone` is stated for
  callers who start it again and again.
- `DataBaseNode`: threads of the pool go on, and so does the thread that stops the node. Weak
  fairness suffices at the mutexes because no thread keeps one.
- `ClientRequests`: threads in a call go on, a handler returns, a timer fires. None for the
  server and the connection: an answer may never come.
- `Session`, `Packages`: none; their properties are of safety.

## 6. Proofs

Every invariant and every action property that a passing run checks is a theorem, and so are the
two refinements as far as they are about safety. A proof holds for every value of the
constants that the named assumptions of the modules allow: any number of threads, peers, keys,
requests and so on, and bounds of any size. The bounds that `db_store`, `keys` and the others
need for TLC are part of the specifications, but no proof depends on their values.

| module | theorem | states |
|---|---|---|
| `PackageStream_proofs` | `TypeCorrectness`, `BoundedReception` | `TypeOK`, `BufferBounds` |
| | `ReceptionImplementsDelivery` | `Promise!Spec`, the safety of `ImplementsDelivery` |
| `NodeConnection_proofs` | `TypeCorrectness`, `SocketsAlive`, `StatusHeard` | `TypeOK`, `SctAlive`, `HeardStatus` |
| | `SocketsKept` | `NoLostSocket`, if `Turns` or `Fresh` |
| | `LimitHolds` | `ConnectionLimit`, if `Fresh` |
| | `StatusFollowsSocket` | `StatusAgreesWithSocket`, if `Turns` |
| `SqlDBCache_proofs` | `TypeCorrectness` | `TypeOK` |
| | `CacheAndWriterAreOneStore` | `ImplementsStore`, if `OneCached` |
| `KeyStorage_proofs` | `TypeCorrectness`, `PairsUnshared`, `PairsStable` | `TypeOK`, `Unshared`, `StablePair` |
| | `PairsWhole`, `TasksRemovedDone` | `WholePair`, `TaskRemovedDone` |
| `DataBaseNode_proofs` | `TypeCorrectness`, `WorkHasDatabase`, `SubscriptionsMirror`, `OnlySubscribersTold`, `CreatedIsOwned` | `TypeOK`, `DbOutlivesWork`, `Mirror`, `ToldAreSubscribed`, `NoOrphan` |
| `Session_proofs` | `TypeCorrectness`, `AssertionHolds`, `SessionsAgree`, `WaitsAreTimed` | `TypeOK`, `ConnectedOnce`, `Agreement`, `WaitIsTimed` |
| `ClientRequests_proofs` | `HandlersRunOnce`, `ListsStayTheSame` | `HandlerRunsOnce`, `ListsAgree` |
| `Packages_proofs` | `TypeCorrectness`, `FieldsArrive`, `StatementsAreLocal` | `TypeOK`, `NothingLost`, `StatementsKeepToTheirObject` |

### Hypotheses

Where a theorem has a hypothesis, TLC finds the property violated without it, and the runs
satisfy it:

- `Turns`, that is `~Preemptive`: the calls of the threads do not overlap (`conn_reconnect`). With
  calls that do, a status may be written after the one that belongs to the socket.
- `Fresh`: every address is that of a peer which connects once, and the node connects to nobody
  (`conn_threads`). Without `Turns` and `Fresh` a socket can be forgotten: a thread reads the old
  socket in `removeSocket`, the sender thread attaches a new one to the same info (`setSct`), and
  the first thread then clears `_sct`, closes the old socket, and leaves the new one open with
  no info. A node that connects may pass the limit, even when calls do not overlap: the sockets
  `addNode` has opened are not counted until they are connected. A peer that comes back may
  make it pass the limit too if calls do: a worker that is past `confirmData` writes `Confirmed`
  over the `NotConnected` of a `removeSocket`, and a registration has not counted that info. `Turns`
  alone seems to be enough for `ConnectionLimit` if the node connects to nobody: TLC finds no
  violation with three sockets, but there is no proof.
- `OneCached`: at most one thread uses an `SqlDBCache` (`db_store`). Two threads may update the
  cache in one order and post their jobs in the other (a hazard of `PROJECT.json`). `SqlDB`, the
  default, needs no hypothesis: the theorem is about any number of threads then.

### The inductive invariants

`PackageStream`. `BufferBounds` is inductive with the types: `TypeInv` joins both with the facts
that sent packages are messages and that reconnections are counted. For the order of what is
delivered that is not enough, as an old byte might come back: `OrderInv` says that the bytes still
to be read, `_hdrArray`, `array`, the socket's buffer and the wire, one after another, ascend
strictly, and that all of them come after the header in `_pkg` and after the package delivered last.
Each action takes bytes from the front of that sequence, throws some away, or adds new ones at the
end. A header is accepted only from its own bytes, so a delivery is of a package after the last,
which is the step `Deliver` of a lossy `Delivery`. As long as `broken` is false, `WholeInv` says
more: `_pkg` is empty between iterations, the bytes still to be read are whole packages, none is
missing after the one delivered last, and what comes next is a header. So each iteration that finds
a header finds its payload too, which is the step `Deliver` of one that is not lossy. The step with
which `broken` becomes true delivers nothing and is `BecomeLossy`.

`NodeConnection`. `Life` follows a socket: unused until a job takes it, attached once, to one
address (`AttachedOnce`), cleared from the info before its "drop" is made (`Dropped`), and pointed
to by no info when a deletion is queued (`Unpointed`). `SctAlive` follows without any assumption
about what overlaps. `Hearing` adds that the events waiting for an info end with its present status
(`Told`), and that nothing happens to an info before its signal is connected. For the rest the order
of the accesses matters. `Order` says that an access which presumes an info without a socket finds
none, or comes after one of the same program that clears it (`ClearFirst`), that `removeSocket`,
once it has read the socket, finds that socket or none (`NullFirst`), and what a registration may
still do at its end (`Ending`); the two hypotheses enter only here, by "one program at a time" and
by "each info gets one socket". From it follow `NoLostSocket` (a socket is attached only where there
is none), `ConnectionLimit` (a program that will add a connection still has room for it), and
`StatusAgreesWithSocket` (whenever an info and its socket disagree, an access in some program or a
queued `disconnected` will set it right).

`SqlDBCache`. `Inv` says that a caller which waits has exactly one job in the queue, its own
(`Awaited`), what each step of a call has established (`Phases`), that the node stops only with an
empty queue, and that only an `SqlDBCache` shares its objects with a caller (`Sharing`). With a
cache and one thread, `Alone` adds that the job this thread waits for is the last one, so that the
tables after all jobs are what it will find. The refinement maps the store to the cached object, or
else to the tables after all jobs. A posted job changes the latter by `Exec` at the end of the
queue, and a job that is done moves from the queue into the tables: both are induction over the
queue. The library's induction takes an operator as a parameter, which no installed prover
instantiates; the lemma `Induction` states it for a set of naturals instead (a nonempty set of
naturals has a least element, from `WellFoundedInduction`), and the lemmas about `After` use that.

`KeyStorage`. `Owned`: what a key has, what its file has and what was answered for it, is no other
key's and not in the pool. `Life`: what a thread or the generator can be doing at each stage of
the object's life. `Stored`: in use, the entry of a key outside the genesis list is the pair in its
file, and every pair that was answered is the entry; without a storage every such pair is in the
file. The model must not run out of pairs: `MayGenerate` lets the generator go on only while there
is one nobody has.

`DataBaseNode`. `DbOutlivesWork` does not speak of the packages that wait: a thread could begin one
after the database is gone. `StopInv` adds that the database is there unless the node is down, and
that a node which is down has idle threads and an empty queue. `Mirror` says nothing while the
mutex is held: `SubscriptionInv` adds who holds it, that the tables then differ at most in the pair
that this thread has in hand, what it wrote to the first of them, and which subscribers it has still
to tell. All other threads are then outside of the mutex (`OnlyOneHolds`), and each step is either
one of the holder (`HolderSteps`) or leaves the subscriptions alone (`ApartSteps`). `NoOrphan` might
be lost when a permission is revoked: `CreateInv` says that an object that is stored has a default,
which nothing removes, or a thread that goes through the places of `createObject`.

`Session`. `Events`: connections that come up and those that are lost alternate in the queue, and
the last of them is what the link is now; the assertion of `nodeConnected` follows. `Waited`: a
session that waited has at most one request that can move it, in the queue of requests, with one
worker or as an answer, all for the present connection, and an answer that grants a token is the
server's record (`SessionKept`). `WaitIsTimed` is inductive by itself, given the types.

`ClientRequests`. `HandlerInv` follows the number of a request: it is new when the request is sent,
and waits in one place only, with its caller or in the cache, until its handler runs. `ListInv`: as
long as the lists have to agree, one command about subscriptions is under way at most
(`OneCommand`), and the lists differ by what one of the two sides has still to note (`Same`).

`Packages`. `Whole`: an object has the fields of its class, a row is for the table of its class, a
permission names an object. `WireInv`: a package holds the stream of a whole object that agrees with
where it came from. `RowsInv`: rows are complete, one for each key. The lemmas are about the
classes: each reads what it writes (`StreamsAgree`), so reading gives back every field
(`RoundTrip`); a row is copied with all its fields (`RowCopies`), another object with what its class
lists (`CopyIsWhole`); a record gives each column to its field (`RecordIsWhole`); the condition of
an object names rows of its key only (`WhereNames`).

### Assumptions

They are the named ones of the modules. Constants are of the types their comments say; the guest is
no member; a mutex that is free is held by no thread; levels are between 0 and 3; a header has at
least one byte; addresses and sockets are finite; values that stand for "none" are no
values; addresses of objects are set, and no node registers `SetSingleValue` as a package.

### Only model-checked

Liveness under fairness, which is out of the prover's reach: the fairness of
`ImplementsDelivery`, `UnconfirmedRemoved`, `CallsReturn`, `RetriedTaskDone`, `RequestsEnd` and
`CallsEnd`. TLC shows them on the instances of section 4.

## 7. Disagreements between code and documentation

Three are runs that TLC ends with a counterexample.

- `stream_stall` (`AS/abstractnode.cpp:830`): CASE 1 takes the bytes `headerSize` further than it
  should (line 835), so a payload that comes in two pieces is put together from the wrong bytes, and
  its hash is wrong. A package that has all its data and a wrong hash is not dropped (only one with
  more data than its header says is, line 869). With bytes left in the array, or with those of
  the next call, CASE 1 is entered with nothing to fill in: the loop consumes no byte and never
  ends, in the main thread. The comment at line 831 says of the case that the data "is still not
  collected" and that it "performs full or partial filling of packet data".
- `conn_overlap` (`AS/abstractnode.cpp:603`): `sendData` reads the pointer to the socket from the
  info and uses it in its own thread, when the sender thread may have deleted it, while
  `AS/abstractnode.h:106` says that the class is thread safe.
- `client_handler` (`DB/singleclient.cpp:54`): the answer to a request for the list of
  subscriptions carries no hash and is consumed before handlers are looked at, so the handler that
  `syncSybscribeListWithServer` registers never runs; and an answer that comes before `restRequest`
  has registered the handler finds none.

Others were met while modelling. They are in the models and listed as hazards:

- `AS/abstractnode.cpp:729`: `isBanned` needs a socket, and a banned peer has none: it is let in
  again.
- `DB/isqldbcache.cpp:67`: a deletion is done at once and also kept in `_changes`; the flush at
    stop does it again, and an object inserted meanwhile under the same id is removed (`Flush` in
  `DataBaseNode`), while `AS/softdelete.h:31` says that `softDelete` saves all changes.
- `AS/packages/abstractdata.cpp:82`: `copyFrom` copies nothing, and some classes have no other or one
  that leaves fields out: copies of `Ping`, `LongPing`, `BadRequest`, `BadNodeRequest`, `WebSocket`,
  `TransportData`, `DeleteObject` and `AuthRequest` lose fields, while `AS/packages/abstractdata.h:79`
  says that all fields are copied. They are so in `Packages` (`Copies`); the rows of the tables, whose
  copies are in the cache and in the queues, lose none.
- `DB/singleserver.cpp:94`: with `SqlDBCache` the user that `loginUser` has read is the cached object,
  in which it clears the password: the next login would find none. The default is `SqlDB`.
- `DB/databasenode.cpp:592`: the level of an existing permission is never changed, and true is
  returned.
- `DB/databasenode.cpp:479`: `createObject` of a member without an id takes its object back, and
  with it an object which somebody else created meanwhile at the address.

Weaknesses without a property are hazards in `PROJECT.json` with the reason.

## 8. Not modelled

- Routing and transport (`NS`): built at level 2 only (`HEART_BUILD_LVL` is 1 by default), "still
  in develop" says the repository's README. `networknode.cpp` does not compile at this commit, at the
  target of a package `workWithTransportData` calls itself for ever, and its packages
  are not registered. A model would be of a program that cannot run. The streams of its packages are in
  `Packages`.
- `SQLiteDBCache` and the delayed modes `Default` and `On_New_Thread`, which only it uses: off by
  default (`HEART_DB_CACHE`).
- Opening the database, and SQL errors other than broken constraints: pure I/O.
- Waits that time out (`Async`): two pointers to the stack of the waiting thread stay in the
  queue, and what follows is undefined.
- SSL set-up, cryptography: calls of OpenSSL and of a submodule that is not in the tree.
- Listening on a socket and looking up host names: calls of Qt.
- `HostAddress`, `DbAddress` as keys: addresses are model values.
- Error codes, `WorkState`, requests, `PackageManager`: tables, a report, a wrapper, unused.
- `Consensus`, `Sign`: stubs. Tests.

Headers are mapped only where they hold code: most of their lines are comments.

## 9. Plan

All modules of the plan are written, and all the safety properties that hold are proved. What is left:

1. Steps towards the liveness properties that are no liveness themselves, as theorems: for each
   `CallsReturn` or `RequestsEnd` the progress argument, that every fair step of a call brings it
   nearer to its end, and that no thread waits for a mutex whose holder waits.
2. `ConnectionLimit` for a node that connects to nobody, if `Turns` holds and peers come back: the
   invariant has to say that what a registration has still to do concerns one address, and
   that no other thread has an access left that makes an info connected.
3. Leads-to properties for hazards that have no property yet (`PROJECT.json`), where the code gives one.
