------------------------------ MODULE Dispatcher ------------------------------
(***************************************************************************)
(* The request dispatcher of zarafa-server: ECDispatcher with its epoll    *)
(* and select main loops, ECThreadManager, ECWorkerThread, ECWatchDog and  *)
(* the signal thread that reconfigures or stops them.                      *)
(*                                                                         *)
(* A connection (a struct soap) is handed from owner to owner: the socket  *)
(* set the main loop listens on, one of the two work queues, a worker      *)
(* thread, the notification manager (a deferred request).  Nothing in the  *)
(* code records who owns it; this module keeps every container of the code *)
(* as its own variable, so that a connection could be in two of them.      *)
(***************************************************************************)
EXTENDS Integers, Sequences, FiniteSets

CONSTANTS
    Conns,           \* client connections (struct soap)
    PipeConns,       \* the ones accepted on a unix socket: never timed out
    PrioConns,       \* the ones accepted on server_pipe_priority
    Workers,         \* identities for ECWorkerThread objects (bounds their number)
    PrioWorker,      \* the ECPriorityWorkerThread
    Notifiers,       \* threads that answer deferred requests (zarafa_notify_done)
    NoConn,          \* no connection
    InitialThreads,  \* setting "threads" at startup
    ThreadSettings,  \* values "threads" can be changed to before a SIGHUP
    Builds           \* builds to look at: TRUE with USE_EPOLL, FALSE without

ASSUME ConnsAssumption ==
    PipeConns \subseteq Conns /\ PrioConns \subseteq PipeConns /\ NoConn \notin Conns
ASSUME ThreadsAssumption ==
    /\ PrioWorker \notin Workers /\ Notifiers \cap (Workers \cup {PrioWorker}) = {}
    /\ IsFiniteSet(Workers)
ASSUME SettingsAssumption ==
    /\ InitialThreads \in Nat \ {0} /\ ThreadSettings \subseteq Nat \ {0}
    /\ Builds \subseteq BOOLEAN

VARIABLES
    net,         \* net[c]: what the socket of c would report (kernel and client)
    live,        \* soap objects that are allocated
    setSockets,  \* m_setSockets
    epfd,        \* sockets added to m_epFD (epoll) or set in readfds (select)
    events,      \* epevents still to be handled by the main loop
    queue,       \* m_queueItems ("normal") and m_queuePrioItems ("prio")
    deferred,    \* connections whose request the notification manager keeps
    pc,          \* where each thread that can call the dispatcher is
    item,        \* lpWorkItem->soap of a thread, the argument of its NotifyDone
    lstThreads,  \* m_lstThreads
    ulThreads,   \* m_ulThreads
    manager,     \* m_lpThreadManager
    watchdog,    \* the watchdog thread, and its m_bExit
    mainPc,      \* the main thread
    bExit,       \* ECDispatcher::m_bExit
    sigPc,       \* the signal thread
    quit,        \* g_Quit
    useEPoll     \* the build has ECDispatcherEPoll, otherwise ECDispatcherSelect

connVars   == <<net, live, setSockets, epfd, events, queue, deferred>>
threadVars == <<pc, item, lstThreads, ulThreads, manager, watchdog>>
exitVars   == <<bExit, sigPc, quit, useEPoll>>
ctlVars    == <<mainPc, exitVars>>
vars       == <<connVars, threadVars, ctlVars>>

Threads == Workers \cup {PrioWorker}
Callers == Threads \cup Notifiers
Queues  == {"normal", "prio"}

\* Which queue a connection is put on, and which one a thread reads (bPrio).
QueueFor(c) == IF c \in PrioConns THEN "prio" ELSE "normal"
QueueOf(t)  == IF t = PrioWorker THEN "prio" ELSE "normal"

NetStates    == {"none", "backlog", "idle", "data", "eof", "hup", "closed"}
ThreadStates == {"off", "get", "idle", "wait", "blocked", "woken", "work",
                 "done", "insert", "restart", "ready"}
MainStates   == {"start", "top", "wait", "handle", "delWatchdog", "joinWatchdog",
                 "setZero", "broadcast", "delManager", "joinPrio", "drain",
                 "closeAll", "returned", "end", "reentered"}
EventKinds   == {"accept", "in", "hup"}

TypeOK ==
    /\ net \in [Conns -> NetStates]
    /\ live \subseteq Conns
    /\ setSockets \subseteq Conns
    /\ epfd \subseteq Conns
    /\ events \subseteq Conns \X EventKinds
    /\ queue \in [Queues -> Seq(Conns)]
    /\ deferred \subseteq Conns
    /\ pc \in [Callers -> ThreadStates]
    /\ item \in [Callers -> Conns \cup {NoConn}]
    /\ lstThreads \subseteq Workers
    /\ ulThreads \in Nat
    /\ manager \in {"uninit", "running", "deleted", "wild"}
    /\ watchdog \in [at : {"off", "check", "add", "gone"}, exit : BOOLEAN]
    /\ mainPc \in MainStates
    /\ bExit \in BOOLEAN
    /\ sigPc \in {"sigwait", "hup", "term", "done"}
    /\ quit \in BOOLEAN
    /\ useEPoll \in BOOLEAN

Init ==
    /\ net = [c \in Conns |-> "none"]
    /\ live = {} /\ setSockets = {} /\ epfd = {} /\ events = {} /\ deferred = {}
    /\ queue = [q \in Queues |-> <<>>]
    /\ pc = [t \in Callers |-> IF t \in Threads THEN "off" ELSE "ready"]
    /\ item = [t \in Callers |-> NoConn]
    /\ lstThreads = {} /\ ulThreads = InitialThreads /\ manager = "uninit"
    /\ watchdog = [at |-> "off", exit |-> FALSE]
    /\ mainPc = "start" /\ bExit = FALSE /\ sigPc = "sigwait" /\ quit = FALSE
    /\ useEPoll \in Builds

-------------------------------------------------------------------------------
(* Clients: they connect, send one request at a time and may go away.      *)

\* The listeners are open until MainLoop has closed them.
Listening == mainPc \notin {"closeAll", "returned", "end", "reentered"}

ClientConnect(c) ==
    /\ net[c] = "none" /\ c \notin live /\ Listening
    /\ net' = [net EXCEPT ![c] = "backlog"]
    /\ UNCHANGED <<live, setSockets, epfd, events, queue, deferred, threadVars, ctlVars>>

\* A client waits for the answer of a deferred request before the next one.
ClientSend(c) ==
    /\ net[c] = "idle" /\ c \notin deferred
    /\ net' = [net EXCEPT ![c] = "data"]
    /\ UNCHANGED <<live, setSockets, epfd, events, queue, deferred, threadVars, ctlVars>>

\* An orderly close is readable as end of file, a reset also reports EPOLLHUP.
ClientClose(c) ==
    /\ net[c] \in {"idle", "data"}
    /\ \E end \in {"eof", "hup"} : net' = [net EXCEPT ![c] = end]
    /\ UNCHANGED <<live, setSockets, epfd, events, queue, deferred, threadVars, ctlVars>>

-------------------------------------------------------------------------------
(* Condition variables and work queues.                                    *)

Waiters(q) == {t \in Threads : pc[t] = "blocked" /\ QueueOf(t) = q}

\* pthread_cond_signal: one waiter, if there is one.
Signal(q) ==
    \/ Waiters(q) = {} /\ UNCHANGED pc
    \/ \E t \in Waiters(q) : pc' = [pc EXCEPT ![t] = "woken"]

\* pthread_cond_broadcast on the condition variables of the queues in qs.
Broadcast(qs) ==
    pc' = [t \in Callers |->
              IF t \in Threads /\ pc[t] = "blocked" /\ QueueOf(t) \in qs
              THEN "woken" ELSE pc[t]]

QueueItem(c) ==
    /\ queue' = [queue EXCEPT ![QueueFor(c)] = Append(@, c)]
    /\ Signal(QueueFor(c))

InQueue(c) == \E q \in Queues : \E i \in 1 .. Len(queue[q]) : queue[q][i] = c

\* zarafa_end_soap_connection + soap_free: the socket is closed, which also
\* takes it out of the epoll set, and the object is gone.
Free(S) ==
    /\ live' = live \ S
    /\ epfd' = epfd \ S
    /\ net' = [c \in Conns |-> IF c \in S THEN "none" ELSE net[c]]

-------------------------------------------------------------------------------
(* ECWorkerThread::Work                                                    *)

Goto(t, where) == pc' = [pc EXCEPT ![t] = where]

\* An item is taken from the front of the thread's queue.
TakeItem(t) ==
    /\ item' = [item EXCEPT ![t] = Head(queue[QueueOf(t)])]
    /\ queue' = [queue EXCEPT ![QueueOf(t)] = Tail(@)]
    /\ Goto(t, "work")

\* GetNextWorkItem(bWait = false): take an item, or go and report being idle.
GetNextNoWait(t) ==
    /\ pc[t] = "get"
    /\ \/ queue[QueueOf(t)] # <<>> /\ TakeItem(t)
       \/ queue[QueueOf(t)] = <<>> /\ Goto(t, "idle") /\ UNCHANGED <<item, queue>>
    /\ UNCHANGED <<net, live, setSockets, epfd, events, deferred,
                   lstThreads, ulThreads, manager, watchdog, ctlVars>>

\* Mutant: one worker too many may stay.
NotifyIdleKeepsOne(t) ==
    /\ pc[t] = "idle"
    /\ LET stop == IF t = PrioWorker THEN ulThreads = 0
                                     ELSE ulThreads + 1 < Cardinality(lstThreads)
       IN  /\ lstThreads' = IF stop THEN lstThreads \ {t} ELSE lstThreads
           /\ Goto(t, IF stop THEN "off" ELSE "wait")
    /\ UNCHANGED <<connVars, item, ulThreads, manager, watchdog, ctlVars>>

\* NotifyIdle: the priority worker stops when no threads are wanted, a worker
\* takes itself off the list when there are more threads than wanted.
NotifyIdle(t) ==
    /\ pc[t] = "idle"
    /\ LET stop == IF t = PrioWorker THEN ulThreads = 0
                                     ELSE ulThreads < Cardinality(lstThreads)
       IN  /\ lstThreads' = IF stop THEN lstThreads \ {t} ELSE lstThreads
           /\ Goto(t, IF stop THEN "off" ELSE "wait")
    /\ UNCHANGED <<connVars, item, ulThreads, manager, watchdog, ctlVars>>

\* Mutant: the queue is not looked at again before waiting.
GetNextWaitBlind(t) ==
    /\ pc[t] = "wait"
    /\ Goto(t, IF bExit THEN "get" ELSE "blocked")
    /\ UNCHANGED <<connVars, item, lstThreads, ulThreads, manager, watchdog, ctlVars>>

\* GetNextWorkItem(bWait = true) up to pthread_cond_wait.  During exit it returns
\* ZARAFA_E_NOT_FOUND at once, and Work starts over.
GetNextWait(t) ==
    /\ pc[t] = "wait"
    /\ \/ queue[QueueOf(t)] # <<>> /\ TakeItem(t)
       \/ /\ queue[QueueOf(t)] = <<>>
          /\ Goto(t, IF bExit THEN "get" ELSE "blocked")
          /\ UNCHANGED <<item, queue>>
    /\ UNCHANGED <<net, live, setSockets, epfd, events, deferred,
                   lstThreads, ulThreads, manager, watchdog, ctlVars>>

\* The rest of GetNextWorkItem, once m_mutexItems is held again.  The wait is not
\* repeated: whatever woke the thread, it takes an item or starts over.
GetNextWoken(t) ==
    /\ pc[t] = "woken"
    /\ \/ queue[QueueOf(t)] # <<>> /\ ~bExit /\ TakeItem(t)
       \/ /\ queue[QueueOf(t)] = <<>> \/ bExit
          /\ Goto(t, "get")
          /\ UNCHANGED <<item, queue>>
    /\ UNCHANGED <<net, live, setSockets, epfd, events, deferred,
                   lstThreads, ulThreads, manager, watchdog, ctlVars>>

\* pthread_cond_wait may return without a signal.
SpuriousWakeup(t) ==
    /\ pc[t] = "blocked"
    /\ Goto(t, "woken")
    /\ UNCHANGED <<connVars, item, lstThreads, ulThreads, manager, watchdog, ctlVars>>

\* The request is read, served and answered (an SSL handshake is a round of its
\* own that ends the same way).  gSOAP closes the socket when the client is gone,
\* when a fault is sent and when the connection is not kept alive.
Serve(t) ==
    /\ pc[t] = "work"
    /\ \E after \in {"idle", "closed"} :
          /\ net[item[t]] # "data" => after = "closed"
          /\ net' = [net EXCEPT ![item[t]] = after]
    /\ Goto(t, "done")
    /\ UNCHANGED <<live, setSockets, epfd, events, queue, deferred, item,
                   lstThreads, ulThreads, manager, watchdog, ctlVars>>

\* Mutant: after the exception the thread goes on to NotifyDone.
DeferFallsThrough(t) ==
    /\ pc[t] = "work" /\ net[item[t]] = "data"
    /\ net' = [net EXCEPT ![item[t]] = "idle"]
    /\ deferred' = deferred \cup {item[t]}
    /\ Goto(t, "done")
    /\ UNCHANGED <<live, setSockets, epfd, events, queue, item,
                   lstThreads, ulThreads, manager, watchdog, ctlVars>>

\* ns__notifyGetItems hands the connection to the notification manager and throws;
\* Work deletes the work item and does not call NotifyDone.
Defer(t) ==
    /\ pc[t] = "work" /\ net[item[t]] = "data"
    /\ net' = [net EXCEPT ![item[t]] = "idle"]
    /\ deferred' = deferred \cup {item[t]}
    /\ item' = [item EXCEPT ![t] = NoConn]
    /\ Goto(t, "get")
    /\ UNCHANGED <<live, setSockets, epfd, events, queue,
                   lstThreads, ulThreads, manager, watchdog, ctlVars>>

-------------------------------------------------------------------------------
(* Answering a deferred request, and NotifyDone.                           *)

\* The notification manager has a reply for c, or drops it for a newer request:
\* it writes the answer and calls zarafa_notify_done.  Until the dispatcher object
\* itself is deleted this can happen at any time, also during and after MainLoop.
NotifierReply(n, c) ==
    /\ pc[n] = "ready" /\ c \in deferred /\ mainPc # "end"
    /\ deferred' = deferred \ {c}
    /\ item' = [item EXCEPT ![n] = c]
    /\ \E after \in {net[c], "closed"} : net' = [net EXCEPT ![c] = after]
    /\ Goto(n, "done")
    /\ UNCHANGED <<live, setSockets, epfd, events, queue,
                   lstThreads, ulThreads, manager, watchdog, ctlVars>>

\* Where a caller of NotifyDone continues.
Resume(t) == IF t \in Threads THEN "get" ELSE "ready"

\* Mutant: a connection that gSOAP has closed is not freed.
NotifyDoneForgets(t) ==
    /\ pc[t] = "done"
    /\ IF bExit \/ net[item[t]] = "closed"
       THEN item' = [item EXCEPT ![t] = NoConn] /\ Goto(t, Resume(t))
       ELSE Goto(t, "insert") /\ UNCHANGED item
    /\ UNCHANGED <<connVars, lstThreads, ulThreads, manager, watchdog, ctlVars>>

\* Mutant: the socket is added to the epoll set before it is listed.
NotifyDoneArmsFirst(t) ==
    /\ pc[t] = "done"
    /\ IF bExit \/ net[item[t]] = "closed"
       THEN /\ Free({item[t]})
            /\ item' = [item EXCEPT ![t] = NoConn]
            /\ Goto(t, Resume(t))
       ELSE /\ Goto(t, "insert")
            /\ epfd' = epfd \cup {item[t]}
            /\ UNCHANGED <<net, live, item>>
    /\ UNCHANGED <<setSockets, events, queue, deferred,
                   lstThreads, ulThreads, manager, watchdog, ctlVars>>

\* NotifyDone up to the insertion: a closed connection, and during exit every
\* connection, is freed instead of listened on again.
NotifyDone(t) ==
    /\ pc[t] = "done"
    /\ IF bExit \/ net[item[t]] = "closed"
       THEN /\ Free({item[t]})
            /\ item' = [item EXCEPT ![t] = NoConn]
            /\ Goto(t, Resume(t))
       ELSE /\ Goto(t, "insert")
            /\ UNCHANGED <<net, live, epfd, item>>
    /\ UNCHANGED <<setSockets, events, queue, deferred,
                   lstThreads, ulThreads, manager, watchdog, ctlVars>>

\* m_mutexSockets is held by the epoll loop while it handles a batch of events, by
\* the select loop while it handles the sockets among them.
SocketsLocked ==
    mainPc = "handle" /\ (useEPoll \/ \E e \in events : e[2] # "accept")

\* The insertion in m_setSockets; from here on the main loop owns the connection.
NotifyDoneInsert(t) ==
    /\ pc[t] = "insert" /\ ~SocketsLocked
    /\ setSockets' = setSockets \cup {item[t]}
    /\ Goto(t, "restart")
    /\ UNCHANGED <<net, live, epfd, events, queue, deferred, item,
                   lstThreads, ulThreads, manager, watchdog, ctlVars>>

\* Mutant: the socket is not added to the epoll set again.
NotifyRestartForgets(t) ==
    /\ pc[t] = "restart"
    /\ item' = [item EXCEPT ![t] = NoConn]
    /\ Goto(t, Resume(t))
    /\ UNCHANGED <<connVars, lstThreads, ulThreads, manager, watchdog, ctlVars>>

\* NotifyRestart: epoll_ctl(EPOLL_CTL_ADD), which fails on a closed descriptor, or
\* a byte on the rescan pipe, which only shortens the select call.
NotifyRestart(t) ==
    /\ pc[t] = "restart"
    /\ epfd' = IF useEPoll THEN epfd \cup ({item[t]} \cap live) ELSE epfd
    /\ item' = [item EXCEPT ![t] = NoConn]
    /\ Goto(t, Resume(t))
    /\ UNCHANGED <<net, live, setSockets, events, queue, deferred,
                   lstThreads, ulThreads, manager, watchdog, ctlVars>>

-------------------------------------------------------------------------------
(* ECThreadManager and ECWatchDog.                                         *)

\* Identities a new ECWorkerThread can take.
FreeWorkers == {w \in Workers \ lstThreads : pc[w] = "off"}

\* New worker threads, started with m_mutexThreads held.
StartThreads(S) ==
    /\ lstThreads' = lstThreads \cup S
    /\ pc' = [t \in Callers |-> IF t \in S THEN "get" ELSE pc[t]]

\* Mutant: the count is one less than asked for.
SetThreadCountOneLess(n) ==
    /\ ulThreads' = n - 1
    /\ UNCHANGED <<lstThreads, pc>>

\* SetThreadCount: workers are added until there are n of them; surplus ones leave
\* in NotifyIdle.  Bounded by the identities in Workers.
SetThreadCount(n) ==
    /\ ulThreads' = n
    /\ \E S \in SUBSET FreeWorkers :
          /\ Cardinality(S) = IF n > Cardinality(lstThreads)
                              THEN n - Cardinality(lstThreads) ELSE 0
          /\ StartThreads(S)

\* One round of Watch: an old front item asks for another thread.  The wait between
\* two rounds ends early when the destructor signals, and leaves no trace in the state.
WatchDogCheck ==
    /\ watchdog.at = "check"
    /\ \/ watchdog.exit /\ watchdog' = [watchdog EXCEPT !.at = "gone"]
       \/ /\ ~watchdog.exit /\ \E q \in Queues : queue[q] # <<>>
          /\ watchdog' = [watchdog EXCEPT !.at = "add"]
    /\ UNCHANGED <<connVars, pc, item, lstThreads, ulThreads, manager, ctlVars>>

\* ForceAddThread(1), whatever has happened to the queue since.  Nothing is added
\* when the bound on the number of threads is reached.
WatchDogAdd ==
    /\ watchdog.at = "add"
    /\ \/ \E w \in FreeWorkers : StartThreads({w})
       \/ FreeWorkers = {} /\ UNCHANGED <<lstThreads, pc>>
    /\ watchdog' = [watchdog EXCEPT !.at = "check"]
    /\ UNCHANGED <<connVars, item, ulThreads, manager, ctlVars>>

-------------------------------------------------------------------------------
(* MainLoop                                                                *)

MainGoto(where) == mainPc' = where

\* The thread manager starts the priority worker and InitialThreads workers, then
\* the watchdog is started.
MainStart ==
    /\ mainPc = "start"
    /\ manager' = "running"
    /\ \E S \in SUBSET Workers :
          /\ Cardinality(S) = InitialThreads
          /\ lstThreads' = S
          /\ pc' = [t \in Callers |-> IF t \in S \cup {PrioWorker} THEN "get" ELSE pc[t]]
    /\ watchdog' = [at |-> "check", exit |-> FALSE]
    /\ MainGoto("top")
    /\ UNCHANGED <<connVars, item, ulThreads, exitVars>>

\* Top of the loop: idle TCP connections are shut down (the socket then reports a
\* hang-up), and the select loop builds readfds.
MainTop ==
    /\ mainPc = "top"
    /\ IF bExit
       THEN MainGoto("delWatchdog") /\ UNCHANGED <<net, epfd>>
       ELSE /\ \E S \in SUBSET {c \in setSockets \ PipeConns : net[c] \in {"idle", "data"}} :
                  net' = [c \in Conns |-> IF c \in S THEN "hup" ELSE net[c]]
            /\ epfd' = IF useEPoll THEN epfd ELSE setSockets
            /\ MainGoto("wait")
    /\ UNCHANGED <<live, setSockets, events, queue, deferred, threadVars, exitVars>>

\* The listener a connection arrives on.
Listener(c) == <<c \in PipeConns, c \in PrioConns>>

\* epoll_wait or select: every socket with something to report, and for each
\* listener with connections in its backlog one of them.  With nothing to report
\* the call times out after a second.  What select leaves in readfds are the events.
MainWait ==
    /\ mainPc = "wait"
    /\ \E B \in SUBSET {c \in Conns : net[c] = "backlog"} :
          /\ \A c \in Conns : net[c] = "backlog" =>
                 \E b \in B : Listener(b) = Listener(c)
          /\ \A b, d \in B : Listener(b) = Listener(d) => b = d
          /\ events' = (B \X {"accept"})
                \cup ({c \in epfd : net[c] \in {"data", "eof"}} \X {"in"})
                \cup ({c \in epfd : net[c] = "hup"} \X {"hup"})
    /\ epfd' = IF useEPoll THEN epfd ELSE {}
    /\ MainGoto("handle")
    /\ UNCHANGED <<net, live, setSockets, queue, deferred, threadVars, exitVars>>

\* The select loop handles its sockets before its listeners.
MayHandle(e) ==
    /\ mainPc = "handle" /\ e \in events
    /\ useEPoll \/ e[2] # "accept" \/ \A f \in events : f[2] = "accept"

\* A new connection is accepted and listened on, or accept fails and the new soap
\* object is freed again.
MainAccept(c) ==
    /\ MayHandle(<<c, "accept">>)
    /\ events' = events \ {<<c, "accept">>}
    /\ \/ /\ net' = [net EXCEPT ![c] = "idle"]
          /\ live' = live \cup {c}
          /\ setSockets' = setSockets \cup {c}
          /\ epfd' = IF useEPoll THEN epfd \cup {c} ELSE epfd
       \/ /\ net' = [net EXCEPT ![c] = "none"]
          /\ UNCHANGED <<live, setSockets, epfd>>
    /\ UNCHANGED <<queue, deferred, threadVars, ctlVars>>

\* What the loop sees of a hang-up: epoll reports EPOLLHUP; select peeks, which
\* finds end of file after an orderly close or a shutdown, and an error (treated as
\* data) after a reset.
SeesEnd(c, kind) ==
    IF useEPoll THEN kind = "hup" ELSE net[c] \in {"eof", "hup"}
SeesInput(c, kind) ==
    IF useEPoll THEN kind = "in" ELSE net[c] \in {"data", "hup"}

\* Data on a listed socket: it is queued and taken off the list (and out of the
\* epoll set) until NotifyDone passes it back.
MainQueue(c, kind) ==
    /\ MayHandle(<<c, kind>>) /\ kind # "accept" /\ SeesInput(c, kind)
    /\ events' = events \ {<<c, kind>>}
    /\ epfd' = IF useEPoll THEN epfd \ {c} ELSE epfd
    /\ setSockets' = setSockets \ {c}
    /\ QueueItem(c)
    /\ UNCHANGED <<net, live, deferred, item, lstThreads, ulThreads, manager, watchdog, ctlVars>>

\* The other end is gone: the connection is closed, freed and taken off the list.
MainHangup(c, kind) ==
    /\ MayHandle(<<c, kind>>) /\ kind # "accept" /\ SeesEnd(c, kind)
    /\ events' = events \ {<<c, kind>>}
    /\ setSockets' = setSockets \ {c}
    /\ Free({c})
    /\ UNCHANGED <<queue, deferred, threadVars, ctlVars>>

MainBatchDone ==
    /\ mainPc = "handle" /\ events = {}
    /\ MainGoto("top")
    /\ UNCHANGED <<connVars, threadVars, exitVars>>

\* delete lpWatchDog: tell it to exit, then join it.
MainDelWatchDog ==
    /\ mainPc = "delWatchdog"
    /\ watchdog' = [watchdog EXCEPT !.exit = TRUE]
    /\ MainGoto("joinWatchdog")
    /\ UNCHANGED <<connVars, pc, item, lstThreads, ulThreads, manager, exitVars>>

\* Mutant: the watchdog thread is told to exit but not joined.
MainLeavesWatchDog ==
    /\ mainPc = "joinWatchdog"
    /\ MainGoto("setZero")
    /\ UNCHANGED <<connVars, threadVars, exitVars>>

MainJoinWatchDog ==
    /\ mainPc = "joinWatchdog" /\ watchdog.at = "gone"
    /\ MainGoto("setZero")
    /\ UNCHANGED <<connVars, threadVars, exitVars>>

\* SetThreadCount(0), so that every thread stops when it is idle.
MainSetZero ==
    /\ mainPc = "setZero"
    /\ SetThreadCount(0)
    /\ MainGoto("broadcast")
    /\ UNCHANGED <<connVars, item, manager, watchdog, exitVars>>

\* Mutant: the priority worker is not woken up.
MainBroadcastNormal ==
    /\ mainPc = "broadcast"
    /\ Broadcast({"normal"})
    /\ MainGoto("delManager")
    /\ UNCHANGED <<connVars, item, lstThreads, ulThreads, manager, watchdog, exitVars>>

MainBroadcast ==
    /\ mainPc = "broadcast"
    /\ Broadcast(Queues)
    /\ MainGoto("delManager")
    /\ UNCHANGED <<connVars, item, lstThreads, ulThreads, manager, watchdog, exitVars>>

\* ~ECThreadManager: wait for the list to become empty, then join the priority worker.
MainDelManager ==
    /\ mainPc = "delManager" /\ lstThreads = {}
    /\ MainGoto("joinPrio")
    /\ UNCHANGED <<connVars, threadVars, exitVars>>

MainJoinPrio ==
    /\ mainPc = "joinPrio" /\ pc[PrioWorker] = "off"
    /\ manager' = "deleted"
    /\ MainGoto("drain")
    /\ UNCHANGED <<connVars, pc, item, lstThreads, ulThreads, watchdog, exitVars>>

\* Requests nobody picked up are closed.
MainDrain ==
    /\ mainPc = "drain"
    /\ Free({c \in Conns : InQueue(c)})
    /\ queue' = [q \in Queues |-> <<>>]
    /\ MainGoto("closeAll")
    /\ UNCHANGED <<setSockets, events, deferred, threadVars, exitVars>>

\* The listeners (and with them their backlog) and all listed sockets are closed.
\* m_setSockets itself is not emptied.
MainCloseAll ==
    /\ mainPc = "closeAll"
    /\ Free(setSockets \cup {c \in Conns : net[c] = "backlog"})
    /\ MainGoto("returned")
    /\ UNCHANGED <<setSockets, events, queue, deferred, threadVars, exitVars>>

\* main(): while (!g_Quit) MainLoop().  A second MainLoop would work on listeners
\* and sockets that were freed; what it does is undefined and not modelled.
MainReturned ==
    /\ mainPc = "returned"
    /\ MainGoto(IF quit THEN "end" ELSE "reentered")
    /\ UNCHANGED <<connVars, threadVars, exitVars>>

-------------------------------------------------------------------------------
(* The signal thread: process_signal, one signal after the other.          *)

\* SIGHUP: DoHUP calls SetThreadCount.  Before MainLoop m_lpThreadManager has not
\* been assigned: the test against NULL reads whatever the memory holds, and any
\* other value is used as a thread manager.
SigHup(n) ==
    /\ sigPc = "sigwait" /\ ~quit
    /\ \/ /\ manager = "running"
          /\ SetThreadCount(n)
          /\ sigPc' = "hup"
          /\ UNCHANGED manager
       \/ /\ manager \in {"uninit", "wild"}
          /\ manager' \in {manager, "wild"}
          /\ UNCHANGED <<ulThreads, lstThreads, pc, sigPc>>
    /\ UNCHANGED <<connVars, item, watchdog, mainPc, bExit, quit, useEPoll>>

\* The second half of ECDispatcher::SetThreadCount: normal workers look again.
SigHupBroadcast ==
    /\ sigPc = "hup"
    /\ Broadcast({"normal"})
    /\ sigPc' = "sigwait"
    /\ UNCHANGED <<connVars, item, lstThreads, ulThreads, manager, watchdog, mainPc, bExit, quit,
                   useEPoll>>

\* SIGTERM: ShutDown sets m_bExit (and wakes the select loop) ...
SigTerm ==
    /\ sigPc = "sigwait" /\ ~quit
    /\ bExit' = TRUE
    /\ sigPc' = "term"
    /\ UNCHANGED <<connVars, threadVars, mainPc, quit, useEPoll>>

\* ... and a little later g_Quit is set.
SigQuit ==
    /\ sigPc = "term"
    /\ quit' = TRUE
    /\ sigPc' = "done"
    /\ UNCHANGED <<connVars, threadVars, mainPc, bExit, useEPoll>>

-------------------------------------------------------------------------------
Clients == \E c \in Conns : ClientConnect(c) \/ ClientSend(c) \/ ClientClose(c)

DoneStep(t) == NotifyDone(t) \/ NotifyDoneInsert(t) \/ NotifyRestart(t)

WorkerStep(t) ==
    \/ GetNextNoWait(t) \/ NotifyIdle(t) \/ GetNextWait(t) \/ GetNextWoken(t)
    \/ Serve(t) \/ Defer(t) \/ DoneStep(t)

NotifierStep(n) == (\E c \in Conns : NotifierReply(n, c)) \/ DoneStep(n)

WatchDogStep == WatchDogCheck \/ WatchDogAdd

MainHandle ==
    \E c \in Conns :
        \/ MainAccept(c)
        \/ \E kind \in {"in", "hup"} : MainQueue(c, kind) \/ MainHangup(c, kind)

MainStep ==
    \/ MainStart \/ MainTop \/ MainWait \/ MainHandle \/ MainBatchDone
    \/ MainDelWatchDog \/ MainJoinWatchDog \/ MainSetZero \/ MainBroadcast
    \/ MainDelManager \/ MainJoinPrio \/ MainDrain \/ MainCloseAll \/ MainReturned

Signals ==
    (\E n \in ThreadSettings : SigHup(n)) \/ SigHupBroadcast \/ SigTerm \/ SigQuit

\* The server is gone, or (reentered) in the undefined second MainLoop.
Terminated == mainPc \in {"end", "reentered"} /\ UNCHANGED vars

Next ==
    \/ Clients \/ MainStep \/ WatchDogStep \/ Signals \/ Terminated
    \/ \E t \in Threads : WorkerStep(t) \/ SpuriousWakeup(t)
    \/ \E n \in Notifiers : NotifierStep(n)

Spec == Init /\ [][Next]_vars

\* The threads of the program keep running: RPC handlers return (socket reads and
\* writes have timeouts) and the poll call of the main loop returns every second.
\* The main loop sleeps in that call without m_mutexSockets, so a thread that wants
\* the mutex again and again finds it free: strong fairness for the insertion.
Fairness ==
    /\ WF_vars(MainStep) /\ WF_vars(WatchDogStep)
    /\ WF_vars(SigHupBroadcast \/ SigQuit)
    /\ \A t \in Threads : WF_vars(WorkerStep(t))
    /\ \A n \in Notifiers : WF_vars(NotifierStep(n))
    /\ \A t \in Callers : SF_vars(NotifyDoneInsert(t))

FairSpec == Spec /\ Fairness

-------------------------------------------------------------------------------
(* Properties                                                              *)

\* MainLoop has freed what it listened on, m_setSockets still points to it.
TornDown == mainPc \in {"returned", "end", "reentered"}

\* The owners a connection can have.  A thread in "restart" has already given its
\* connection to the main loop and only remembers the descriptor.
Listed == IF TornDown THEN setSockets \cap live ELSE setSockets
Queued == {c \in Conns : InQueue(c)}
Held(t) == IF pc[t] \in {"work", "done", "insert"} THEN {item[t]} ELSE {}
HeldBySome == UNION {Held(t) : t \in Callers}

\* A connection in a container, a queue or a thread is allocated, is there once, and
\* is nowhere else: no request is served by two threads, and no connection is freed
\* while somebody else still uses it (MainLoop, QueueItem, NotifyDone, Work).
OneOwner ==
    /\ Listed \cup Queued \cup HeldBySome \cup deferred \subseteq live
    /\ Listed \cap (Queued \cup HeldBySome \cup deferred) = {}
    /\ Queued \cap (HeldBySome \cup deferred) = {}
    /\ HeldBySome \cap deferred = {}
    /\ \A s, t \in Callers : s # t => Held(s) \cap Held(t) = {}
    /\ \A q \in Queues : \A i, j \in 1 .. Len(queue[q]) :
          queue[q][i] = queue[q][j] => i = j

\* No connection is forgotten: whatever is allocated is listened on, queued, with a
\* thread or deferred, so that some later step can answer or free it.
NoConnectionLost == live \subseteq Listed \cup Queued \cup HeldBySome \cup deferred

\* The main loop looks up the descriptor of an event in m_setSockets without testing
\* for end(): a descriptor it can still be told about is always listed.
EventsAreListed ==
    /\ useEPoll => epfd \subseteq setSockets
    /\ \A e \in events : e[2] # "accept" => e[1] \in setSockets

\* A listed connection is heard: it is in the epoll set or a thread is about to put
\* it there (NotifyDone inserts first and adds to the epoll set second).
ListedIsHeard ==
    useEPoll /\ ~TornDown =>
        \A c \in setSockets :
            c \in epfd \/ \E t \in Callers : pc[t] = "restart" /\ item[t] = c

\* The socket set and the epoll set agree, through the three steps of NotifyDone and whatever
\* the main loop does between them: nobody goes unheard and no event is of a stranger.
SocketsHeard == EventsAreListed /\ ListedIsHeard

\* A queued request never waits for threads that all sleep: if a thread sleeps on the
\* condition variable of a queue, every item in it has a thread that was woken up and
\* will look (QueueItem signals once per item, GetNextWorkItem waits once).
Woken(q) == {t \in Threads : pc[t] = "woken" /\ QueueOf(t) = q}
NoLostWakeup ==
    ~bExit => \A q \in Queues :
        Waiters(q) # {} => Len(queue[q]) <= Cardinality(Woken(q))

\* As long as the server runs each queue has a thread that is not asleep whenever it
\* has an item: the pool never shrinks to nothing and never sleeps on work.
ItemHasTaker ==
    manager = "running" /\ ~bExit =>
        \A q \in Queues : queue[q] # <<>> =>
            \E t \in Threads : QueueOf(t) = q /\ pc[t] \notin {"off", "blocked"}

\* A request in a queue is going to be taken: by a thread that was woken for it, or by one
\* that is awake, while GetNextWorkItem, NotifyIdle, SIGHUP and the watchdog change the pool.
RequestsAreTaken == NoLostWakeup /\ ItemHasTaker

\* ~ECThreadManager returns only after the last worker, the priority worker and the
\* watchdog (which would start new ones) are gone, and none is started afterwards.
NoThreadOutlivesManager ==
    manager = "deleted" =>
        /\ watchdog.at = "gone"
        /\ \A t \in Threads : pc[t] = "off"

\* "Close all sockets.  This will cause all that we were listening on clients to get an
\* EOF": when MainLoop has done so, the only connections left are deferred ones and those a
\* notifier has in hand.  (One that tested m_bExit before the signal may list its connection
\* later, when nobody closes it any more.)
ShutdownClosesConnections ==
    mainPc # "returned" /\ mainPc' = "returned" =>
        live' \subseteq deferred' \cup UNION {Held(n)' : n \in Notifiers}

\* The shutdown sequence of MainLoop leaves no thread and no connection behind.
ShutdownIsComplete == [][NoThreadOutlivesManager' /\ ShutdownClosesConnections]_vars

\* "Threads are removed back to the normal thread count whenever the message queue hits
\* size 0 and there is an idle thread": a pool that has gone to sleep is not larger
\* than the setting.
PoolShrinksBack ==
    (/\ manager = "running" /\ ~bExit /\ sigPc = "sigwait" /\ watchdog.at # "add"
     /\ \A w \in lstThreads : pc[w] = "blocked")
        => Cardinality(lstThreads) <= ulThreads

\* A request that has arrived is read by a worker, or its connection ends, unless the
\* server is told to stop first.
RequestHandled ==
    \A c \in Conns : (net[c] = "data" /\ ~bExit) ~> (net[c] # "data" \/ bExit)

\* After SIGTERM every thread stops and MainLoop returns.
ShutdownCompletes == bExit ~> TornDown

===============================================================================
