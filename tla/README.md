# Verification of the Zarafa Collaboration Platform

TLA+ models of the concurrent core of `zarafa-server`, model-checked with TLC and, where
marked, proved with TLAPS for every value of the parameters. Paths below are relative to
the repository root; `PROJECT.json` maps every definition to the lines it translates.

- [The system](#the-system)
- [The modules](#the-modules)
- [What the runs check](#what-the-runs-check)
- [Fairness](#fairness)
- [What is proved](#what-is-proved)
- [Where code and comments disagree](#where-code-and-comments-disagree)
- [What is not modelled](#what-is-not-modelled)
- [Plan](#plan)

## The system

The repository is a groupware server (`src/provider`), its MAPI client library
(`src/provider/client`, `src/mapi4linux`), and programs on top of them: spooler and
delivery agent (`src/spooler`), gateways (`src/gateway`, `src/caldav`), archiver and
monitor (`src/ECtools`), language bindings (`src/php-ext`, `src/swig`). The server is the
only part where many threads share state for a long time, so the work starts there.

| Component | State | Operations | Talks to | What is hard |
|---|---|---|---|---|
| Request dispatcher (`provider/server/ECThreadManager.cpp`) | socket set, epoll set, two work queues, worker list, thread counts | `MainLoop` (epoll, select), `QueueItem`, `GetNextWorkItem`, `NotifyDone`, `SetThreadCount`, `ForceAddThread`, `NotifyIdle`, watchdog | workers, notification manager, signal thread | ownership of a connection is implicit; two condition variables; a pool that grows and shrinks itself; a long shutdown sequence |
| Server process (`provider/server/ECServer.cpp`) | `g_Quit`, the global objects | signals, `main` | all of them | signals before, during and after `MainLoop`; the order of deletion |
| Notification manager (`libserver/ECNotificationManager.cpp`) | held requests, marked sessions | `AddRequest`, `NotifyChange`, `Work`, destructor | dispatcher, session manager, session groups | a thread that works from copies; wake-ups; a timeout; deletion |
| Session manager (`libserver/ECSessionManager.cpp`, `ECSession.cpp`) | map of sessions, lock counts | create, validate, lock, log off, clean, cancel, delete | every RPC | locking against removal by four parties |
| Session groups (`libserver/ECSessionGroup.cpp`) | sessions of the group, subscriptions, notifications | join, release, `AddNotification`, `GetNotifyItems`, `DeleteIfOrphaned` | session manager, notification manager | several owners, none of them alone |
| Source keys and sequences (`ECSessionManager.cpp`, `ECDatabaseMySQL.cpp`) | block of numbers in memory, counter on disk | `GetNewSourceKey`, `GetNewSequence`, `LoadSettings` | database | failed updates, crashes, restarts, borders of blocks |
| Object locks (`libserver/ECLockManager.cpp`, `ECSession.cpp`) | map from object to session, handles per session | `LockObject`, `UnlockObject`, end of a session | RPCs, session manager | two maps that are changed one after the other |
| Subscriptions and routing (`ECSessionGroup.cpp`, `ECSessionManager.cpp`) | subscriptions of a group, routes by store and group id | advise, unadvise, `AddNotification` | groups, tables | the same fact in three maps under three locks; balanced insertions and removals |
| Search folders (`ECSearchFolders.cpp`) | list of folders, event queue, search threads | add, remove, restart, process events | notifications, database | cancelling a running search; events against a search in progress |
| Synchronisation (`ECICS.cpp`, `client/ECExchangeExportChanges.cpp`) | change numbers, sync states | add change, get changes, import, save state | database, client | a client that stops half way |
| Attachments (`ECAttachmentStorage.cpp`) | files, lists of new, marked and deleted files | save, delete, begin, commit, rollback | database | two stores with one transaction; crashes |
| Caches (`ECCacheManager.cpp`, `common/ECCache.cpp`) | cells, objects, users, ACLs | get, set, update, purge | all readers | stale entries |
| Tables (`ECKeyTable.cpp`, `ECGenericObjectTable.cpp`) | ordered rows, bookmarks, cursor | update, seek, bookmark, query | notifications | a tree with counts, checked best against a list |
| Deferred updates (`ECTPropsPurge.cpp`) | records of folders to update | add, purge | database | a thread against the writers |
| Message streams (`ZarafaCmd.cpp`, `common/ECFifoBuffer.cpp`, `common/ECThreadPool.cpp`) | fifo, task, a lent database connection | import, export, read, write, close | gSOAP, database | two threads on one connection and one small buffer; either may fail first |
| Scheduler (`common/ECScheduler.cpp`) | jobs | add, run | server | - |
| Client notifications (`client/ECNotifyMaster.cpp`, ...) | subscribed clients, connection | listen, reconnect | notification manager | lost answers, reconnects |
| Spooler (`spooler/Spooler.cpp`) | child processes, finished messages | start, reap, retry | server | children and restarts |
| Archiver (`ECtools/archiver`) | transactions over several stores | copy, stub, delete, roll back | servers | failure between the stores |

What makes the modelled components correct:

- *dispatcher*: each connection has exactly one owner at any time; none is lost; a listed
  socket is heard; a request is never queued while everybody sleeps; the pool keeps to its
  size; the shutdown ends, and leaves no thread and no connection;
- *notification manager*: a request is held once; a notification or the end of the session
  brings the thread to the request without waiting for the timeout; the timeout holds;
- *sessions and groups*: what is locked exists; what is removed is deleted once, by
  whoever removed it; a session keeps its group;
- *keys*: no number is handed out twice, over failures and restarts;
- *locks*: no lock outlives its session or is taken away, and clients know what they have;
- *subscriptions*: a confirmed subscription is told of every change, and what a group enters
  in the manager's tables is taken back exactly once;
- *attachments*: an object has its file as long as it has its row, and no file is left over;
- *streams*: a committed import is complete, the handler does not go on while the task
  works, and no request hangs;
- *search folders*: a folder at rest shows each message of the searched folders that matches,
  its counts are the number of its rows, and no search runs on a folder that was deleted.

## The modules

| Module | Models | Proofs | Instance |
|---|---|---|---|
| `Dispatcher` | `ECDispatcher`, `ECDispatcherEPoll`, `ECDispatcherSelect`, `ECThreadManager`, `ECWorkerThread`, `ECPriorityWorkerThread`, `ECWatchDog`, `process_signal` | `DispatcherProofs` | `MCDispatcher` |
| `NotificationManager` | `ECNotificationManager`, its callers, and its deletion by `main` | `NotificationProofs` | `MCNotificationManager` |
| `LongPoll` | the abstract specification: what a waiting client is promised | - | - |
| `NotificationRefinement` | `NotificationManager` implements `LongPoll` | `NotificationProofs` | `MCNotificationManager` |
| `SessionManager` | `ECSessionManager`, `ECSession`, `ECSessionGroup` as far as lifetimes go | `SessionManagerProofs` | - |
| `LockManager` | `ECLockManager`, `ECObjectLock`, the lock calls of `ECSession` | `SessionResourcesProofs` | - |
| `SessionResources` | composes `LockManager` with subscriptions, routes, and the order in which `~ECSession` gives everything back | `SessionResourcesProofs` | `MCSessionResources` |
| `KeyAllocator` | `GetNewSourceKey`, `GetNewSequence`, `DoSequence`, `LoadSettings` | `KeyAllocatorProofs` | - |
| `AttachmentStorage` | `ECAttachmentStorage`, `ECFileAttachment` and the database transactions under them | `SaveObjectProofs` | - |
| `SaveObject` | composes the two with the handlers that use them: `saveObject`, `importMessageFromStream`, `CopyObject`, `DeleteObjectHard` | `SaveObjectProofs` | `MCSaveObject` |
| `SearchFolders` | `ECSearchFolders` with its callers: the events of message changes, `tableSetSearchCriteria`, `deleteObjects`, the start of the server | `SearchFoldersProofs` | `MCSearchFolders` |
| `MessageStream` | `importMessageFromStream`, `exportMessageChangesAsStream`, `ECFifoBuffer`, `ECFifoSerializer`, `ECWaitableTask`, `ECThreadPool` | `MessageStreamProofs` | - |

An action is a critical section of the code, or what happens between two of them; a step
that reads under one lock and acts under another is two actions. A definition whose comment
begins with *Mutant* is a plausible mistake in the definition that follows it: replacing the
one by the other makes some property fail, which shows that the property depends on that
piece of code.

### Dispatcher

A connection is a `struct soap`. `setSockets` is `m_setSockets`, `queue` the two deques of
work items, `item[t]` the work item of a thread, `deferred` the connections that the
notification manager keeps; nothing in the code says who owns a connection, and the module
does not either. `epfd` is the epoll set, or for `ECDispatcherSelect` the `readfds` that the
last `MainTop` built, until `select` returns; `useEPoll` is the build, chosen in the initial state. `net[c]` is what
the kernel would report: a request, end of file, a hang-up.

The worker's loop is the cycle `get`, `idle`, `wait`, `blocked`, `woken`, `work`, `done`,
`insert`, `restart`: the wait is not repeated when it ends (`GetNextWorkItem` has an `if`
where one expects a `while`), so a woken worker looks once and starts over. `NotifyDone` has
three steps: the test of `m_bExit`, the insertion under `m_mutexSockets`, and the addition to
the epoll set. The main thread keeps `m_mutexSockets` while it handles a batch. Requests are
served, deferred by exception (`Defer`), or found to be from a client that is gone; gSOAP
closes the connection in the latter case and when it likes.

The watchdog's clock is left out: whenever a queue has a front item, the item may be old
enough. The number of threads is bounded by `Workers`; at the bound `ForceAddThread` adds
nothing. A second `MainLoop` (see below) ends the model, because what it does is undefined.

### NotificationManager

`handler[c]` is an `ns__notifyGetItems` between the validation of its session and
`AddRequest`; `toNotify` are calls of `NotifyChange` that some thread is about to make;
`posting` are groups whose notifications are appended but whose sessions are not told yet.
The thread's loop is `top`, `wait`, `process` (one marked session after the other, in any
order: the set is ordered by session id, which is random), `reply` with `m_mutexRequests`
held and the session locked, `handback` without. `age` counts whole seconds since the
request, `Tick` lets a second pass; a round of the loop lasts at most one tick because its
wait is limited to a second. Notifications are abstracted to "the list is not empty", which
is all that the manager looks at. `CleanSession` may not hit a session with a request: the
least session timeout (300 seconds) exceeds the 60 of a request.

`server` follows `main` after `MainLoop`: sessions removed, dispatcher deleted, session map
locked by `~ECSessionManager`, thread told to exit, thread joined.

### SessionManager

A thread is a record: what it does, the session it has locked, the session it creates or
deletes, the sessions it has taken off the map and must still delete. Session ids are drawn
once, so an id names its `ECSession`; a group is named after the session that created it.
`GetSessionGroup` releases its read lock before it takes the write lock, so it is two
actions (`LogonFind`, `LogonUpgrade`); `~ECSession` is four (`Release`,
`ReleaseSubscriptions`, `OrphanId`, `DeleteIfOrphaned`). Reading the id of a deleted group
gives any id. A `Shutdown` that times out leaks the session (`obj[s] = "leaked"`).

### LongPoll and NotificationRefinement

`LongPoll` knows sessions, groups with news, and pairs of a connection and the session it
waits for; threads, marks, batches and timeouts do not exist. The mapping takes `news` from
the lists of the groups and `waiting` from the handlers that have validated their session
together with `m_mapRequests`. `StepsKeepPromise` is the safety part (answered once, news
leave a group only in an answer to a client that waits for that group); `KeepsPromise` adds
that everybody who waits is answered.

### KeyAllocator

A failed update may or may not have reached the disk. `keys` and `handed` are history: the
set of numbers handed out in all runs of the server, and how many calls succeeded. Nothing
is reserved above `MaxKey`, which bounds the model (the counters have 64 bits).

### AttachmentStorage and SaveObject

`rows` is the committed table `singleinstances`; `tx[w]` is a thread's transaction, with the
snapshot that InnoDB gave it, the rows it inserted and deleted, and the three sets that
`ECFileAttachment` keeps (new, to be deleted, renamed). `files` and `marked` are the
directory. Whether an instance is an orphan is decided by a plain `SELECT`, so from the
snapshot: two transactions can each miss what the other does. That race and the faults that
the code does not undo are all in the model. An instance that has met one is noted in the
history `lost`, when a row may have lost its file, or `left`, when a file may be left over,
and only while it is out of order or a transaction is about it (`History`); the two
invariants are about all others. An instance is noted when

- the server stops, or the database reports an error, between the storage's commit and the
  database's (`StorageCrash`, `DbCommitFails`);
- some files cannot be deleted in the commit (`StorageCommitFails`);
- some new files cannot be deleted, or renamed ones not be renamed back, in the rollback:
  `ECFileAttachment::Rollback` goes on with the others and then forgets all of them
  (`ECAttachmentStorage.cpp:2354`), so that a row is left without its file or a file without
  a row (`RollbackFails`);
- a file is renamed at the time of a crash: only its transaction could rename it back;
- a write is short: the part written stays, because the instance is noted as new after the
  check (`ECAttachmentStorage.cpp:1816`), although the comment there says "set in transaction
  before disk full check to remove empty file";
- the look-up of orphans fails: `DeleteAttachment` takes that for "none"
  (`ECAttachmentStorage.cpp:836`), deletes the row and leaves the file (`asked` is false);
- a deletion judges by a snapshot that differs from what is, or will be, committed. The
  header comment mentions this for a copy against a deletion; it also happens between two
  deletions (the file stays) and between a reference by instance id and a deletion, even
  one of the same transaction (the file goes). The thread is right only if it is right
  whichever of the open transactions commit, so `MayBeKept` and `MayBeDropped` range over all
  sets of them; to look at none and at all of them is enough for two threads, but not for
  three, as the proof of the invariants showed. A reference that the snapshot does show
  excuses nothing.

So the invariants do not say that these cases are harmless. They say that they are all there
are: any other step of a handler, failing or not, beside any other handler, keeps every row
with its file and leaves nothing over.

A handler is a list of steps (`Script`); any of them may fail, and a failure ends in a
rollback. Each object has one large property. A source key given by the client, moves of
folders, and the database and S3 back ends of the storage are left out. So is what
`ECDatabaseMySQL::Query` does when it loses its connection (`ECDatabaseMySQL.cpp:805`): it
connects again and repeats the statement, which then is no longer part of the transaction
that the server has undone. The error of the look-up before `SaveAttachment` with an id
(`ECAttachmentStorage.cpp:655`) is ignored as well, but only makes a row be deleted and
inserted again.

### LockManager and SessionResources

`told` and `refused` are what the clients know of their locks; the two maps are the code's.
The session's own mutex is held over the whole of `LockObject`, so its outcomes are single
actions.

`SessionResources` adds the subscriptions. `subs` is `m_mapSubscribe` of each group object,
`routes` the manager's `m_mapObjectSubscriptions` (how many entries a store has for a group
id), `entries` the group's note of them, `m_mapSubscribedStores`. `AddAdvise` is three
actions, one for each lock; `DelAdvise` is one, because it holds the group's locks
throughout. `~ECSession` is a sequence: `ReleaseSession`, `DeleteIfOrphaned`, `DeleteGroup`
(one route per step, when the group is no longer listed), and the locks last. `Publish`
collects group ids, `Deliver` looks one up and matches its subscriptions. `client` is what
the client has been told; a client registers its connections again in a new session of the
group when the old one has ended, as `ECNotifyClient::Reregister` does. One session has one
call at a time; calls of several sessions of the group interleave. `RoutesBalanced` compares
the number of routes with the number of entries that the groups of the id have noted, each
counted as a thing of its own (`Noted`), and of the calls between the two (`Entering`).

### MessageStream

The handler `H` and the task `T` share a fifo of `Cap` units and, in an import, the database
connection. gSOAP is modelled by what it may do with the callbacks: give any number of
chunks, stop early, fail, and leave a stream open after an error (`current` stays set and
`MTOMSessionDone` finds it). `tx = "abandoned"` is the case in which the handler rolls back
while the task goes on inserting on the same connection. Timeouts of the fifo may strike
whenever a side waits; fairness does not rely on them.

### SearchFolders

One search folder and the messages of its store. `results` and `counts` are its rows in
`searchresults` and its `PR_CONTENT_*`; `status` and `saved` are the two properties from which
the next start decides what to do. These survive `Killed`; the map of folders, the
`SEARCHFOLDER` objects, the search threads and the queue do not. A change of a message is
three steps: the transaction (`Store`), the look-up of its folder (`AddNotification`; only a
delete brings the folder along), and the entry in the queue (`UpdateSearchFolders`).
`FlushEvents` takes what is there and sorts it by folder; `NextGroup` is a run of events of
one folder and one type; `ProcessMessageChange` looks at the messages as they are by then.
The search thread reads the list of a folder and then takes its rows in batches, without
looking again at where the messages are. Each transaction that writes rows holds the locks of
the folder's properties from its first read, so it is one step. A client's call is a sequence:
take the folder off the map, tell the search to stop, wait, delete the object, set the
status, reset the results, enter the new object, start the thread, save the criteria.

Three variables are history. `lost` is set when the code gives something up (an update fails
four times, the list of a folder cannot be read, or something was under way when the server
was killed) and cleared when a search begins, which makes up for all of it. `strayed`
collects messages with events that the sort has put into another order. `crossed` collects
messages that two writers have changed at the same time: the transaction and the
notification of a change are separate steps, so the events can enter the queue in the other
order. `MatchesAreFound` excepts all three, and its counterpart `OrderIsKept` only the
first. The run has one writer, for which `crossed` stays empty; the theorem is about any
number. The batch is a partial function from positions, so that what has been processed
leaves the others in their places.

What a failing statement leaves open is simplified: an error other than a deadlock or a lock
time-out leaves `ProcessMessageChange` without a rollback, and the next transaction on that
connection commits what was done; the model knows the retried errors only.

## What the runs check

| Run | Instance | States | Shows |
|---|---|---|---|
| `dispatcher` | 1 TCP and 1 priority connection, 1 worker, priority worker, watchdog, 1 notifier; epoll and select | 1.7 million | `OneOwner`, `NoConnectionLost`, `SocketsHeard`, `ShutdownIsComplete` |
| `dispatcher_pool` | 2 connections on one queue, up to 2 workers, SIGHUP to 1 or 2 threads; epoll | 1.1 million | `RequestsAreTaken` |
| `dispatcher_live` | 1 connection, 1 thread and up to 2 with the watchdog; epoll | 87 thousand | `RequestHandled`, `ShutdownCompletes`, `PoolShrinksBack` |
| `notification` | 2 sessions in a group, 2 connections, timeout of 2 ticks | 512 thousand | `RequestHeldOnce`, `NotificationWakesRequest`, `LogoffWakesRequest`, `AnsweredInTime`, `StepsKeepPromise` |
| `notification_live` | 2 sessions, 1 connection, no shutdown | 73 thousand | `KeepsPromise` |
| `session` | 2 workers (one may cancel), cleaner, main; 2 sessions, 1 shared group id | 95 thousand | `LockedSessionExists`, `DeletedOnce`, `SessionKeepsGroup`, `ListedGroupHasOwner`, `RemovedSessionGoes` |
| `save` | 2 threads, 2 objects, 2 instances, one block of 2 for each counter | 739 thousand | `NumbersUnique`, `AttachmentPresent`, `FileHasReference` |
| `resources` | 2 sessions of one group id, 2 connections, a store and a folder, 3 kinds of interest, 1 object to lock | 1.3 million | `RoutesBalanced`, `NothingMissed`, `LockHasHandle`, `GrantedIsOwner` |
| `stream` | fifo of 3 units, messages of 3 values of 2 units, up to 8 units sent, 2 messages per export | 55 thousand | `TaskIsAlone`, `CommittedIsComplete`, `StreamsNotMixed`, `RequestEnds` |
| `search` | 1 message, 2 folders, 2 criteria (one searches both folders), 1 client, 1 writer, 2 changes, a queue of 2, 1 attempt, rows one by one | 3.7 million | `CountsMatch`, `MatchesAreFound`, `HalfBuiltIsRebuilt`, `SearchIsOwned` |
| `notification_exit` | 1 session, 1 connection | 2 thousand | fails: `ManagerIsDeleted` |
| `session_group_free` | 2 workers, 2 sessions | 5 thousand | fails: `NoDeletedGroupUsed` |

The components have a type invariant (`TypeOK`, `SaveTypeOK`), checked in their largest run.
`StepsKeepPromise` and `KeepsPromise` are refinements: the abstract specification is the
property. A property that joins others by name has one part for each side of the matter:
`SocketsHeard` (no event is of a stranger, nobody listed goes unheard), `RequestsAreTaken`
(no lost wake-up, never everybody asleep), `ShutdownIsComplete` (no thread, no connection is
left), `NumbersUnique` (source keys, IMAP ids), `TaskIsAlone` (the handler waits, nothing is
inserted after a rollback).

Why the bounds are enough. *dispatcher*: the hand-overs of a connection involve the main
loop, a worker and a notifier, and each is there; the two connections are one of each
priority, so both queues and both listeners are used, and a batch can have several events
while `NotifyDone` waits for the mutex. *dispatcher_pool*: a lost wake-up needs two items or
two threads on one queue, and growing and shrinking needs one thread more than the setting.
*notification*: a request that replaces another needs two connections, sessions that share
notifications need a group of two; two ticks tell the `>` of the scan from the `>=` of the
reply. *session*: two threads can collide in the creation, use and deletion of a session
while the cleaner or `main` removes it, and two sessions can join, share, leave and recreate
a group. *save*: two objects are enough to share an instance, two threads to change, copy and
delete it at the same time; two numbers in blocks of one let a block be lost to a failure, to
a rollback or to a restart before the next is used. The general case is proved. *resources*: two sessions are the last of an old group and the first of a new one
with the same id, or two of one group; the interests give two subscriptions to the same
object with different masks, and one to the whole store. *stream*: a value does not fit into
the fifo next to another, so both sides have to wait; a client can send less than a message,
the message, and more. *search*: updates and searches treat messages one by one, so one
message meets every order of its own changes, its search and its events; two changes with two
folders let it be added, changed, moved and deleted around each of them, and one batch hold
both events. The bounds that stand for 500 events, 20 rows and 4 attempts are the least that
still let each loop end in each way. A single client cancels and sets over and over, and
`removed` does not stop the queue or the search; two clients that set the criteria of one
folder at the same time are not checked (see below).

Symmetry is used for interchangeable workers, connections, sessions and objects, and only in
runs without liveness properties (`StepsKeepPromise` is about single steps, and its mapping
treats connections alike). A server that has ended is a stuttering state, so deadlock is checked in all
runs: every deadlock of the threads that the code allows is either absent or spelled out
(`ExitDeadlock`).

## Fairness

- *Dispatcher*: weak fairness for the main thread, the watchdog, each worker, each notifier
  and the rest of a signal handler that has begun: threads are scheduled, socket operations
  have timeouts, and `epoll_wait` and `select` return after a second. Strong fairness for
  the insertion in `NotifyDone`: it waits for a mutex that the main loop releases before
  each sleep. No fairness for clients, signals and spurious wake-ups.
- *NotificationManager*: weak fairness for the thread, the calls under way, the clock and
  the shutdown; strong fairness for `AddRequest`, which waits for a mutex that the thread
  releases after each reply. None for clients, logons, logoffs and notifications.
- *SessionManager*: weak fairness for a thread that is in the middle of something.
- *MessageStream*: weak fairness for the handler and for the task. gSOAP has timeouts of its
  own on sockets, so a silent client does not hold up the handler. None for the timeouts of
  the fifo, which a debug build does not have, and none for new requests.

## What is proved

Proofs are for all values of the constants, under the assumptions named in the modules
(identities are different, counts are positive, a group for each session, finitely many
workers). Every invariant and every action property of the passing runs is stated by a
theorem; each was checked with TLC, with the strengthening that its proof needs, before it
was proved.

**`DispatcherProofs`.** `TypeCorrect` adds `BusyHasItem` to the types: a thread in `work`,
`done`, `insert` or `restart` has a connection. `LifeInv` follows the shutdown: what
`MainLoop` waits for stays as it is, and a worker is on `m_lstThreads` exactly while it runs.
`OwnerInv` joins the three properties of connections with what they lean on: an item is on
the queue that `QueueItem` chose, a `soap` object exists exactly for an accepted socket, the
events of a batch are about connections that are listed or in the backlog, and only the
thread between insertion and `NotifyRestart` has a listed socket that nobody hears. Each step
moves at most one connection, so most lemmas say what happens to that one and that the others
keep their owner. `ConnectionsHaveOneOwner`, `ConnectionsAreNotLost` and `SocketsAreHeard`
follow; `ShutdownLeavesNothing` needs `Drained` besides (nothing is queued once the queues
were emptied). `QueuedRequestsAreTaken` counts: if a thread sleeps on a
queue, its items are at most as many as the threads that were woken for it; and `PoolInv` says
that each queue has a thread while the server runs. `AddedThreadsLeave` is `PoolShrinksBack` for servers whose
setting is not changed by SIGHUP; with one that lowers it the property does not hold (see the
next section).

**`NotificationProofs`.** `HeldOnce`, `NotificationsWake`, `LogoffsWake` and
`NotificationTypeCorrect` come from `IInv`, which joins them with `ThreadShape`: what the
thread holds at each place. A batch is empty when a new one is copied (otherwise copying would
forget marks), a connection is in hand only during `handback`, and a session that the thread
found valid, and which ends before the reply, is still to be reported (or else the reply
would leave the request waiting for the timeout). `RequestsAnsweredInTime` needs
`AgesBounded`: a request is older than the timeout only while the thread is going to look at
its session before the next scan (`Due`), and older by one tick more only if the clock has
ticked in this round. `ManagerKeepsPromise` is the refinement of `LongPoll` without its
liveness: under `IInv` each action is a step of `LongPoll` or leaves what a client can see
unchanged; the end of the server needs `HandlersGone` (no handler is under way once the
dispatcher is gone) besides.

**`SessionManagerProofs`.** `TypesHold`, `LockedSessionsExist`, `SessionsDeletedOnce`,
`SessionsKeepTheirGroup`, `ListedGroupsHaveOwners`. None is inductive. The invariant `IInv`
adds who may know a session (`Fresh`: only the logon that creates it; `NotHeld`: nobody has
it locked once its deletion has begun), that the lock count of a session is the number of
threads that have it locked (`Counted`, which needs finitely many threads), what a thread
has in hand at each place (`Shape`), and that sessions, groups and the list of groups agree
about group ids (`GroupFresh`, `GroupIds`, `OrphanHasId`). The group's own invariants lean
on the last three: a group on the list is deleted by its last session because each session
that has left it is still on its way to `DeleteIfOrphaned` with the right id.

**`SessionResourcesProofs`.** Of the locks: `LocksEndWithSession`, `GrantedLocksAreOwned`,
`LocksNotTakenAway`; `HandleIsLock` (a handle not made by a refused request stands for a lock)
and `ToldHasHandle` (what the client was told is backed by a handle) close the induction.
`ResourcesImplementLocks` shows the same of the composition with subscriptions and the end of
a session; `DeletedSessionLeavesNoLock` and `OwnerKeepsLock` follow. Of the subscriptions:
`RoutesStayBalanced` and `ChangesReachEveryone`, from an invariant in four layers.
`Structure` says that a group with sessions is the one its id leads to, that one that is being
deleted has none, and that a group has a subscription for a live session exactly if its client
thinks so. On it rests `RouteInv`: because the group and its sessions have the same id, an
entry that a group takes back is one of its own, and `UnsubscribeObjectEvents` never runs on
into the next store. `EntryInv` says that a group has at least as many entries for a key as
confirmed subscriptions (an equation would be false: a subscription to new mail is withdrawn
without its entry). With it every promised subscription has a route when the ids are
collected, and `PubInv` carries that to the moment when its group is asked: that group is
still the listed one, since its session is in it.

**`KeyAllocatorProofs`.** `SourceKeysNeverRepeat`, `SequencesNeverRepeat` and both together,
`NumbersNeverRepeat`. Uniqueness is stated by counting, so the invariant `Counted` also
carries finiteness; `ReservedOnDisk` is what makes a new number new.

**`SaveObjectProofs`.** `HandlersImplementAllocator` shows that the composition with storage
and handlers is still a behaviour of `KeyAllocator`, so that `SavedNumbersNeverRepeat`
follows from the above for every block size. `SaveTypeCorrect`, `AttachmentsStay` and
`NoFileIsLeft` come from `HandlersInv`: row locks (`LockInv`), instance ids that are new when
drawn (`FreshInv`), renamed files out of reach of the other transactions (`RenamedInv`), and,
for the instances without a fault: what is to be deleted or renamed has no reference but those
that the same transaction deletes (`Doomed`), the file of a reference is there or on its way
out with it (`Present`), and, the heart of it, `Covered`: whichever of the open transactions
commit, a file keeps a reference, or one of those that commit deletes it, or it is the new
file of one that does not. The steps are grouped by what they do to one transaction: it grows
(`TxGrows`) or it ends (`TxEnds`, undone or done); `Forget` shows that an instance may leave
the histories as soon as it is in order again.

**`MessageStreamProofs`.** `StreamTypeCorrect`, `TasksAreAlone`, `CommitsAreComplete` and
`StreamsStayApart`, for any size of the fifo, of messages, values and chunks. The invariant
relates the places of the two threads: a task exists exactly from the opening of a stream to
the end of the handler's wait (`HandlerShape`, `TaskShape`), the transaction is open until the
handler ends it, abandoned only with a task still there (`TxShape`), rows are counted by the
task that inserts them (`RowsShape`), and the shared cursor is at a border between messages
whenever no task uses it, unless one has failed (`CursorShape`).

**`SearchFoldersProofs`.** For any number of clients and writers: `SearchTypeCorrect`,
`CountsStayRight` (the increments of each update are those of the sets of rows) and
`SearchesHaveObjects` (no thread uses a deleted object). With calls on the folder that come
one after another (`OneClient`): `SearchesAreOwned`, `HalfBuiltComesBack` and
`EveryMatchIsFound`. The hypothesis is needed, not a convenience: two overlapping
`tableSetSearchCriteria` each insert an object, the map keeps the first, and the search of the
other goes on with nobody to cancel it. `EveryMatchIsFound` rests on where the last change of
each message is: with a writer, in the queue, in the batch, or processed (`LastInv`); on the
order of a message's changes in the sorted batch (`BatchOrdered`); and on what a search has
still to do (`FoundInv`, and `FoundDown` for what the next start will load). The proof is what
showed that two writers of one message matter (`crossed`); TLC then gave a counterexample of
23 steps.

Only model-checked: the liveness properties `RequestHandled`, `ShutdownCompletes`,
`KeepsPromise`, `RemovedSessionGoes` and `RequestEnds` (the prover does not reason about
fairness and `ENABLED`).

## Where code and comments disagree

Two runs are expected to fail. Each states what a comment of the code says.

1. `notification_exit`. `~ECSessionManager` holds `m_hCacheRWLock` for writing while it joins
   the notification thread, which validates sessions under that lock. A request that times
   out at the wrong moment makes both wait for ever
   (`src/provider/libserver/ECSessionManager.cpp:150`).
2. `session_group_free`. Two sessions of a group that end at the same time: the second uses
   the group after the first has deleted it (`ECSessionManager.cpp:316`).

Three more were found by running TLC on a property that no run keeps; the first two are in the
modules and can be checked again by adding them to a configuration.

3. `TheLockGivesAccess` of `LockManager`. A refused `LockObject` leaves its handle in the
   session's map, so the next attempt reports success without asking the lock manager
   (`src/provider/libserver/ECSession.cpp:682`), and `loadObject` then denies access to the
   client that was told it has the lock. `GrantedIsOwner` excepts sessions that were refused.
4. `OrderIsKept` of `SearchFolders`. The comment of `FlushEvents` says that when events are
   sorted by folder "the order of DELETE and ADDs will remain unchanged. This is important"
   (`src/provider/libserver/ECSearchFolders.cpp:1962`). It is kept within a folder, but the
   events of a message that was moved name two: "added in folder 2, moved to folder 1" is
   processed as a move into folder 1, then an addition in folder 2 which the message has
   left. If the search is about folder 1 only, the match is taken out again. TLC finds it in
   23 steps; `MatchesAreFound` excepts such messages.
5. A client registers a connection again
   (`src/provider/client/ECNotifyClient.cpp:538`) while the session that had it is off the map
   but not yet deleted. `m_mapSubscribe.insert` keeps the old entry
   (`ECSessionGroup.cpp:197`), which `ReleaseSession` then erases: the server has confirmed a
   subscription that it no longer has, although `src/provider/client/ECNotifyMaster.cpp:399`
   wants that "when new sessions are attached to this group we must ensure that they will get
   notifications as expected". `NothingMissed` excepts connections with `ignored = TRUE`;
   without the exception TLC finds the loss in twelve steps.

The models also contain the following behaviours, which no property forbids; the properties
above hold in spite of them, or except them where their text says so.

- A SIGHUP before `MainLoop` tests and may use a thread manager pointer that no constructor
  has set (`manager = "wild"`).
- A SIGHUP that lowers the number of threads is missed by a worker between `NotifyIdle` and
  its wait; it stays until the next request. `PoolShrinksBack` is about threads that the
  watchdog has added.
- SIGTERM stops the dispatcher before it sets `g_Quit`; a `MainLoop` that returns in between
  is entered again (`mainPc = "reentered"`).
- A notifier that has passed the test of `m_bExit` may list its connection after the listed
  sockets were closed; nobody listens to it or closes it.
- Between the deletion of the dispatcher and that of the notification manager, the thread
  can still hand back a connection (`server = "noDispatcher"`).
- Two threads in `CancelAllSessions` wait for each other's session without a timeout;
  `RemovedSessionGoes` is checked with one thread that may cancel.
- Two threads that change the same message may enter their events in the queue of search
  folders in the order in which they did not commit (`ECSessionManager.cpp:839`); the folder
  then shows the older state until the next change (`crossed`).
- Two first logons with the same group id may create two groups, of which one is listed.
- A subscription to new mail makes a route that `DelAdvise` does not take back, and
  `ReleaseSession` takes back none; such routes go when the group is deleted.
- `UnsubscribeObjectEvents` without an entry of its own would erase the first entry of the
  next store. `RoutesBalanced` shows that it is never called so.
- An import that is rolled back while gSOAP has the stream open (`tx = "abandoned"`) goes on
  inserting outside of the transaction, where the comment in `importMessageFromStream` says
  "we want to be able to perform a complete rollback".
- An import without an attachment commits an empty message; that the serialisation of the
  last message of an export failed is not reported.

- `Search` puts a message back that has been deleted or moved away, and whose event has been
  processed, after it read the list of its folder; nothing takes the row out again.
- A search that is cancelled ends by setting the status to running; when the server is killed
  before `DestroySearchFolder` sets it to stopped, the folder is loaded half-built.
- A change that is still in the queue, or in `AddNotification`, when the server ends is
  missed for good by folders that are not rebuilt; an update that fails four times is given up.
- The criteria are saved after the search has started; a server that is killed in between
  searches, or keeps up to date, by the old ones.
- When `pthread_create` fails in `AddSearchFolder`, the folder stays on the map with its
  thread not free, and the next cancellation waits for ever.

Seen while reading, without a model: a failing `pthread_create` leaves a thread in the list
that never runs (`ECThreadManager.cpp:103`); the watchdog's sum of nanoseconds is not carried
(`:446`); `CreateDatabaseConnection` is not locked (`ECSessionManager.cpp:1608`); the result
of `GetStore` in `AddAdvise` is ignored (`ECSessionGroup.cpp:205`); a streamed attachment is
written over a longer file that a crash has left under the same instance id
(`ECAttachmentStorage.cpp:1864`); on the client a writer to the fifo has no timeout
(`WSMessageStreamImporter.cpp:61`); two calls of `tableSetSearchCriteria` for one folder may
each insert an object, of which the map keeps one, while the other's search runs on with
nobody to cancel it (`ECSearchFolders.cpp:300`); the recursive expansion of folders repeats a
failing query for ever (`:1174`); `RemoveSearchFolder` begins and commits a transaction within
the one of `DeleteObjects` (`ZarafaCmdUtil.cpp:1149`); `~ECSearchFolders` deletes the objects
of searches that still run (`:82`); `FlushAndWait` takes for granted that the thread has
woken when it looks at `m_bRunning` (`:1893`).

## What is not modelled

Start-up, configuration, TLS and the contents of requests; a failing `pthread_create`; the
clock of the watchdog; `ECAuthSession` and the persistent-connection interface of the session
manager, which nothing calls; what happens to a notification after `GetNotifyItems`;
subscriptions to tables and to incremental changes; a `GetStore` that fails in `AddAdvise`;
sessions without a group id, which cannot be told of changes; loading attachments, and the
storage back ends other than files; the loop over further attachments of a stream, resizing
a thread pool in use, and the client's side of a stream; the search by the indexer, hard
deletes, several search folders, and the restart option and the shutdown of search folders.
The components that are not modelled at all, and why, are in `PROJECT.json`: some are planned, others are conversions, bindings
or input and output without shared state. The repository has more than 300 thousand lines,
most of them of that kind (MAPI objects, gateways, language bindings, SQL); the models are
about the few thousand in which threads, transactions and failures meet.

## Plan

In order of importance:

1. *Synchronisation* (change numbers and sync state), *deferred updates*, *cache manager*.
2. *Tables*: `SubscribeTableEvents` and its counterpart next to the routes of
   `SessionResources`; `ECKeyTable` against an ordered list.
3. *Client*: `ECNotifyMaster` and its reconnects against `LongPoll` and `SessionResources`.
4. An abstract pool in which a connection is with the server, a worker or the notifier, that
   `Dispatcher` implements; then `NotificationManager` as the notifier of `Dispatcher`.
5. *Spooler* and *archiver* transactions.

No invariant of a run is left without a theorem. What remains for the prover is the
refinement of item 4, and the theorems of the components above when they are modelled.
