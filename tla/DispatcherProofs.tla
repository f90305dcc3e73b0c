--------------------------- MODULE DispatcherProofs ---------------------------
(***************************************************************************)
(* Theorems about Dispatcher, for any number of connections, workers and   *)
(* notifiers, both main loops and every thread setting.                    *)
(***************************************************************************)
EXTENDS Dispatcher, FiniteSetTheorems, TLAPS

Busy == {"work", "done", "insert", "restart"}

\* A thread that works on a connection has one.
BusyHasItem == \A t \in Callers : pc[t] \in Busy => item[t] \in Conns

TypeInv == TypeOK /\ BusyHasItem

\* Free leaves the connection variables in their types.
LEMMA FreeType ==
    ASSUME TypeOK, NEW S, Free(S)
    PROVE  net' \in [Conns -> NetStates] /\ live' \subseteq Conns /\ epfd' \subseteq Conns
BY DEF TypeOK, Free, NetStates

\* Taking the front item keeps queue, item and pc well typed.
LEMMA TakeItemType ==
    ASSUME TypeInv, NEW t \in Threads, queue[QueueOf(t)] # <<>>, TakeItem(t)
    PROVE  /\ item' \in [Callers -> Conns \cup {NoConn}]
           /\ queue' \in [Queues -> Seq(Conns)]
           /\ pc' \in [Callers -> ThreadStates]
           /\ BusyHasItem'
<1>1. QueueOf(t) \in Queues
  BY DEF QueueOf, Queues
<1>2. queue[QueueOf(t)] \in Seq(Conns)
  BY <1>1 DEF TypeInv, TypeOK
<1>3. /\ Head(queue[QueueOf(t)]) \in Conns
      /\ Tail(queue[QueueOf(t)]) \in Seq(Conns)
  BY <1>2
<1>4. QED
  BY <1>1, <1>3 DEF TypeInv, TypeOK, BusyHasItem, TakeItem, Goto, ThreadStates, Callers

\* Putting a connection on its queue keeps queue and pc well typed.
LEMMA QueueItemType ==
    ASSUME TypeInv, NEW c \in Conns, QueueItem(c), UNCHANGED item
    PROVE  /\ queue' \in [Queues -> Seq(Conns)]
           /\ pc' \in [Callers -> ThreadStates]
           /\ BusyHasItem'
<1>1. QueueFor(c) \in Queues
  BY DEF QueueFor, Queues
<1>2. Append(queue[QueueFor(c)], c) \in Seq(Conns)
  BY <1>1 DEF TypeInv, TypeOK
<1>3. queue' \in [Queues -> Seq(Conns)]
  BY <1>1, <1>2 DEF TypeInv, TypeOK, QueueItem
<1>4. pc' \in [Callers -> ThreadStates] /\ BusyHasItem'
  BY DEF TypeInv, TypeOK, BusyHasItem, Busy, QueueItem, Signal, Waiters, ThreadStates, Callers
<1>5. QED
  BY <1>3, <1>4

\* A step that gives threads new places outside Busy and leaves items alone.
LEMMA RestType ==
    ASSUME TypeInv, UNCHANGED item, pc' \in [Callers -> ThreadStates],
           \A t \in Callers : pc'[t] = pc[t] \/ pc'[t] \notin Busy
    PROVE  BusyHasItem'
BY DEF TypeInv, TypeOK, BusyHasItem

\* New worker threads come from Workers and start at the top of Work.
LEMMA SetThreadCountType ==
    ASSUME TypeInv, NEW n \in Nat, SetThreadCount(n), UNCHANGED item
    PROVE  /\ ulThreads' \in Nat /\ lstThreads' \subseteq Workers
           /\ pc' \in [Callers -> ThreadStates]
           /\ BusyHasItem'
<1>1. /\ ulThreads' \in Nat /\ lstThreads' \subseteq Workers
      /\ pc' \in [Callers -> ThreadStates]
      /\ \A t \in Callers : pc'[t] = pc[t] \/ pc'[t] \notin Busy
  BY DEF TypeInv, TypeOK, SetThreadCount, StartThreads, FreeWorkers, ThreadStates, Busy
<1>2. QED
  BY <1>1, RestType

\* Broadcast only moves sleeping threads to "woken".
LEMMA BroadcastType ==
    ASSUME TypeInv, NEW qs, Broadcast(qs), UNCHANGED item
    PROVE  pc' \in [Callers -> ThreadStates] /\ BusyHasItem'
<1>1. /\ pc' \in [Callers -> ThreadStates]
      /\ \A t \in Callers : pc'[t] = pc[t] \/ pc'[t] \notin Busy
  BY DEF TypeInv, TypeOK, Broadcast, ThreadStates, Busy
<1>2. QED
  BY <1>1, RestType

\* The worker threads, the notifiers and NotifyDone.
LEMMA CallerType ==
    ASSUME TypeInv, NEW t \in Callers,
           \/ t \in Threads /\ (WorkerStep(t) \/ SpuriousWakeup(t))
           \/ t \in Notifiers /\ NotifierStep(t)
    PROVE  TypeInv'
<1> USE DEF ctlVars, exitVars, connVars, TypeInv
<1>1. CASE t \in Threads /\ GetNextNoWait(t)
  <2>1. CASE queue[QueueOf(t)] # <<>> /\ TakeItem(t)
    BY <1>1, <2>1, TakeItemType DEF TypeOK, GetNextNoWait
  <2>2. CASE Goto(t, "idle") /\ UNCHANGED <<item, queue>>
    BY <1>1, <2>2 DEF TypeOK, BusyHasItem, Busy, GetNextNoWait, Goto, ThreadStates
  <2>3. QED
    BY <1>1, <2>1, <2>2 DEF GetNextNoWait
<1>2. CASE t \in Threads /\ NotifyIdle(t)
  <2>1. /\ lstThreads' \subseteq lstThreads
        /\ pc' \in [Callers -> ThreadStates]
        /\ \A s \in Callers : pc'[s] = pc[s] \/ pc'[s] \notin Busy
    BY <1>2 DEF TypeOK, NotifyIdle, Goto, ThreadStates, Busy
  <2>2. QED
    BY <1>2, <2>1, RestType DEF TypeOK, NotifyIdle
<1>3. CASE t \in Threads /\ GetNextWait(t)
  <2>1. CASE queue[QueueOf(t)] # <<>> /\ TakeItem(t)
    BY <1>3, <2>1, TakeItemType DEF TypeOK, GetNextWait
  <2>2. CASE Goto(t, IF bExit THEN "get" ELSE "blocked") /\ UNCHANGED <<item, queue>>
    BY <1>3, <2>2 DEF TypeOK, BusyHasItem, Busy, GetNextWait, Goto, ThreadStates
  <2>3. QED
    BY <1>3, <2>1, <2>2 DEF GetNextWait
<1>4. CASE t \in Threads /\ GetNextWoken(t)
  <2>1. CASE queue[QueueOf(t)] # <<>> /\ TakeItem(t)
    BY <1>4, <2>1, TakeItemType DEF TypeOK, GetNextWoken
  <2>2. CASE Goto(t, "get") /\ UNCHANGED <<item, queue>>
    BY <1>4, <2>2 DEF TypeOK, BusyHasItem, Busy, GetNextWoken, Goto, ThreadStates
  <2>3. QED
    BY <1>4, <2>1, <2>2 DEF GetNextWoken
<1>5. CASE SpuriousWakeup(t)
  BY <1>5 DEF TypeOK, BusyHasItem, Busy, SpuriousWakeup, Goto, ThreadStates
<1>6. CASE Serve(t)
  BY <1>6 DEF TypeOK, BusyHasItem, Busy, Serve, Goto, ThreadStates, NetStates
<1>7. CASE Defer(t)
  <2>1. item[t] \in Conns
    BY <1>7 DEF BusyHasItem, Busy, Defer
  <2>2. QED
    BY <1>7, <2>1 DEF TypeOK, BusyHasItem, Busy, Defer, Goto, ThreadStates, NetStates
<1>8. CASE \E c \in Conns : NotifierReply(t, c)
  BY <1>8 DEF TypeOK, BusyHasItem, Busy, NotifierReply, Goto, ThreadStates, NetStates
<1>9. CASE NotifyDone(t)
  <2>1. CASE Free({item[t]}) /\ item' = [item EXCEPT ![t] = NoConn] /\ Goto(t, Resume(t))
    BY <1>9, <2>1, FreeType
       DEF TypeOK, BusyHasItem, Busy, NotifyDone, Goto, Resume, ThreadStates
  <2>2. CASE Goto(t, "insert") /\ UNCHANGED <<net, live, epfd, item>>
    BY <1>9, <2>2 DEF TypeOK, BusyHasItem, Busy, NotifyDone, Goto, ThreadStates
  <2>3. QED
    BY <1>9, <2>1, <2>2 DEF NotifyDone
<1>10. CASE NotifyDoneInsert(t)
  BY <1>10 DEF TypeOK, BusyHasItem, Busy, NotifyDoneInsert, Goto, ThreadStates
<1>11. CASE NotifyRestart(t)
  BY <1>11 DEF TypeOK, BusyHasItem, Busy, NotifyRestart, Goto, Resume, ThreadStates
<1>12. QED
  BY <1>1, <1>2, <1>3, <1>4, <1>5, <1>6, <1>7, <1>8, <1>9, <1>10, <1>11
     DEF WorkerStep, NotifierStep, DoneStep

\* The main thread.
LEMMA MainType ==
    ASSUME TypeInv, MainStep
    PROVE  TypeInv'
<1> USE DEF ctlVars, exitVars, connVars, threadVars, TypeInv
<1>1. CASE MainStart
  <2>1. /\ lstThreads' \subseteq Workers
        /\ pc' \in [Callers -> ThreadStates]
        /\ \A t \in Callers : pc'[t] = pc[t] \/ pc'[t] \notin Busy
    BY <1>1 DEF TypeOK, MainStart, ThreadStates, Busy
  <2>2. QED
    BY <1>1, <2>1, RestType DEF TypeOK, MainStart, MainGoto, MainStates
<1>2. CASE MainTop
  BY <1>2 DEF TypeOK, BusyHasItem, MainTop, MainGoto, MainStates, NetStates
<1>3. CASE MainWait
  BY <1>3 DEF TypeOK, BusyHasItem, MainWait, MainGoto, MainStates, EventKinds
<1>4. CASE \E c \in Conns : MainAccept(c)
  BY <1>4 DEF TypeOK, BusyHasItem, MainAccept, NetStates
<1>5. CASE \E c \in Conns : \E kind \in {"in", "hup"} : MainQueue(c, kind)
  <2>1. PICK c \in Conns, kind \in {"in", "hup"} : MainQueue(c, kind)
    BY <1>5
  <2>2. QED
    BY <2>1, QueueItemType DEF TypeOK, MainQueue
<1>6. CASE \E c \in Conns : \E kind \in {"in", "hup"} : MainHangup(c, kind)
  <2>1. PICK c \in Conns, kind \in {"in", "hup"} : MainHangup(c, kind)
    BY <1>6
  <2>2. QED
    BY <2>1, FreeType DEF TypeOK, BusyHasItem, MainHangup
<1>7. CASE MainBatchDone
  BY <1>7 DEF TypeOK, BusyHasItem, MainBatchDone, MainGoto, MainStates
<1>8. CASE MainDelWatchDog
  BY <1>8 DEF TypeOK, BusyHasItem, MainDelWatchDog, MainGoto, MainStates
<1>9. CASE MainJoinWatchDog
  BY <1>9 DEF TypeOK, BusyHasItem, MainJoinWatchDog, MainGoto, MainStates
<1>10. CASE MainSetZero
  BY <1>10, SetThreadCountType DEF TypeOK, MainSetZero, MainGoto, MainStates
<1>11. CASE MainBroadcast
  BY <1>11, BroadcastType DEF TypeOK, MainBroadcast, MainGoto, MainStates
<1>12. CASE MainDelManager
  BY <1>12 DEF TypeOK, BusyHasItem, MainDelManager, MainGoto, MainStates
<1>13. CASE MainJoinPrio
  BY <1>13 DEF TypeOK, BusyHasItem, MainJoinPrio, MainGoto, MainStates
<1>14. CASE MainDrain
  BY <1>14, FreeType DEF TypeOK, BusyHasItem, MainDrain, MainGoto, MainStates
<1>15. CASE MainCloseAll
  BY <1>15, FreeType DEF TypeOK, BusyHasItem, MainCloseAll, MainGoto, MainStates
<1>16. CASE MainReturned
  BY <1>16 DEF TypeOK, BusyHasItem, MainReturned, MainGoto, MainStates
<1>17. QED
  BY <1>1, <1>2, <1>3, <1>4, <1>5, <1>6, <1>7, <1>8, <1>9, <1>10, <1>11, <1>12,
     <1>13, <1>14, <1>15, <1>16
     DEF MainStep, MainHandle

\* Every step keeps the types.
LEMMA TypeStep ==
    ASSUME TypeInv, [Next]_vars
    PROVE  TypeInv'
<1> USE DEF ctlVars, exitVars, connVars, threadVars
<1>1. CASE Clients
  BY <1>1 DEF TypeInv, TypeOK, BusyHasItem, Clients, ClientConnect, ClientSend, ClientClose,
              NetStates
<1>2. CASE MainStep
  BY <1>2, MainType
<1>3. CASE WatchDogStep
  <2>1. CASE WatchDogCheck
    BY <2>1 DEF TypeInv, TypeOK, BusyHasItem, WatchDogCheck
  <2>2. CASE WatchDogAdd
    <3>1. /\ lstThreads' \subseteq Workers
          /\ pc' \in [Callers -> ThreadStates]
          /\ \A t \in Callers : pc'[t] = pc[t] \/ pc'[t] \notin Busy
      BY <2>2 DEF TypeInv, TypeOK, WatchDogAdd, StartThreads, FreeWorkers, ThreadStates, Busy
    <3>2. QED
      BY <2>2, <3>1, RestType DEF TypeInv, TypeOK, WatchDogAdd
  <2>3. QED
    BY <1>3, <2>1, <2>2 DEF WatchDogStep
<1>4. CASE Signals
  <2>1. ASSUME NEW n \in ThreadSettings, SigHup(n)
        PROVE  TypeInv'
    <3>1. n \in Nat
      BY SettingsAssumption
    <3>2. CASE SetThreadCount(n) /\ sigPc' = "hup" /\ UNCHANGED manager
      BY <2>1, <3>1, <3>2, SetThreadCountType DEF TypeInv, TypeOK, SigHup
    <3>3. CASE manager' \in {manager, "wild"} /\ UNCHANGED <<ulThreads, lstThreads, pc, sigPc>>
      BY <2>1, <3>3 DEF TypeInv, TypeOK, BusyHasItem, SigHup
    <3>4. QED
      BY <2>1, <3>2, <3>3 DEF SigHup
  <2>2. CASE SigHupBroadcast
    BY <2>2, BroadcastType DEF TypeInv, TypeOK, SigHupBroadcast
  <2>3. CASE SigTerm \/ SigQuit
    BY <2>3 DEF TypeInv, TypeOK, BusyHasItem, SigTerm, SigQuit
  <2>4. QED
    BY <1>4, <2>1, <2>2, <2>3 DEF Signals
<1>5. CASE Terminated \/ UNCHANGED vars
  BY <1>5 DEF TypeInv, TypeOK, BusyHasItem, Terminated, vars
<1>6. CASE \E t \in Threads : WorkerStep(t) \/ SpuriousWakeup(t)
  BY <1>6, CallerType DEF Callers
<1>7. CASE \E n \in Notifiers : NotifierStep(n)
  BY <1>7, CallerType DEF Callers
<1>8. QED
  BY <1>1, <1>2, <1>3, <1>4, <1>5, <1>6, <1>7 DEF Next

\* Nothing runs and nothing is connected at the start.
LEMMA TypeInit == Init => TypeInv
<1> SUFFICES ASSUME Init PROVE TypeInv
  OBVIOUS
<1>1. queue \in [Queues -> Seq(Conns)]
  BY DEF Init
<1>2. /\ net \in [Conns -> NetStates]
      /\ pc \in [Callers -> ThreadStates]
      /\ item \in [Callers -> Conns \cup {NoConn}]
  BY DEF Init, NetStates, ThreadStates
<1>3. BusyHasItem
  BY DEF Init, BusyHasItem, Busy
<1>4. ulThreads \in Nat /\ useEPoll \in BOOLEAN
  BY SettingsAssumption DEF Init
<1>5. QED
  BY <1>1, <1>2, <1>3, <1>4 DEF Init, TypeInv, TypeOK, MainStates

\* Every variable of the dispatcher keeps its type, and a thread never works without a
\* connection: lpWorkItem is set wherever Work and NotifyDone dereference it.
THEOREM TypeCorrect == Spec => [](TypeOK /\ BusyHasItem)
<1>1. Init => TypeInv
  BY TypeInit
<1>2. TypeInv /\ [Next]_vars => TypeInv'
  BY TypeStep
<1>3. QED
  BY <1>1, <1>2, PTL DEF Spec, TypeInv

-------------------------------------------------------------------------------
(* The life of the server: signals, main thread, watchdog and pool.        *)

Serving  == {"start", "top", "wait", "handle"}
Unwatched == {"setZero", "broadcast", "delManager", "joinPrio", "drain", "closeAll",
              "returned", "end", "reentered"}
Unmanaged == {"drain", "closeAll", "returned", "end", "reentered"}

\* A worker that is not on m_lstThreads has not been started or has left Work.
ListIsPool == \A w \in Workers : pc[w] = "off" <=> w \notin lstThreads

\* MainLoop leaves its loop after SIGTERM, which is the last signal that is handled; each
\* thing that it then waits for stays as it is.
LifeInv ==
    /\ bExit <=> sigPc \in {"term", "done"}
    /\ mainPc \in Serving \/ bExit
    /\ mainPc = "start" <=> manager \in {"uninit", "wild"}
    /\ mainPc \in Unmanaged <=> manager = "deleted"
    /\ mainPc = "start" => watchdog.at = "off" /\ lstThreads = {} /\ pc[PrioWorker] = "off"
    /\ mainPc \in Unwatched => watchdog.at = "gone"
    /\ mainPc \in Unmanaged \cup {"joinPrio"} => lstThreads = {}
    /\ mainPc \in Unmanaged => pc[PrioWorker] = "off"
    /\ ListIsPool

\* There is no thread manager at the start.
LEMMA LifeInit == Init => LifeInv
BY ThreadsAssumption
   DEF Init, LifeInv, ListIsPool, Serving, Unwatched, Unmanaged, Threads, Callers

\* Steps that move no thread in or out of the pool.
LEMMA SamePool ==
    ASSUME TypeInv, LifeInv, UNCHANGED <<lstThreads, manager, watchdog, ctlVars>>,
           \A t \in Threads : pc'[t] = "off" <=> pc[t] = "off"
    PROVE  LifeInv'
BY DEF LifeInv, ListIsPool, ctlVars, exitVars, Threads

\* Where a caller goes when it does its step.
LEMMA GotoElse ==
    ASSUME TypeInv, NEW t \in Callers, NEW where, where # "off", pc[t] # "off", Goto(t, where)
    PROVE  \A s \in Threads : pc'[s] = "off" <=> pc[s] = "off"
BY DEF TypeInv, TypeOK, Goto, Callers

\* A worker leaves the list when it ends, in one step; notifiers are no part of it.
LEMMA CallerLife ==
    ASSUME TypeInv, LifeInv, NEW t \in Callers,
           \/ t \in Threads /\ (WorkerStep(t) \/ SpuriousWakeup(t))
           \/ t \in Notifiers /\ NotifierStep(t)
    PROVE  LifeInv'
<1>1. CASE t \in Threads /\ NotifyIdle(t)
  <2>1. CASE t = PrioWorker
    BY <1>1, <2>1, ThreadsAssumption
       DEF NotifyIdle, Goto, TypeInv, TypeOK, LifeInv, ListIsPool, ctlVars, exitVars, Threads,
           Callers, Serving, Unwatched, Unmanaged
  <2>2. CASE t \in Workers
    BY <1>1, <2>2, ThreadsAssumption
       DEF NotifyIdle, Goto, TypeInv, TypeOK, LifeInv, ListIsPool, ctlVars, exitVars, Threads,
           Callers, Serving, Unwatched, Unmanaged
  <2>3. QED
    BY <1>1, <2>1, <2>2 DEF Threads
<1>2. CASE t \in Threads /\ (GetNextNoWait(t) \/ GetNextWait(t) \/ GetNextWoken(t))
  <2>1. \/ TakeItem(t) \/ Goto(t, "idle") \/ Goto(t, "get") \/ Goto(t, "blocked")
    BY <1>2 DEF GetNextNoWait, GetNextWait, GetNextWoken
  <2>2. pc[t] # "off"
    BY <1>2 DEF GetNextNoWait, GetNextWait, GetNextWoken
  <2>3. \A s \in Threads : pc'[s] = "off" <=> pc[s] = "off"
    BY <2>1, <2>2, GotoElse DEF TakeItem
  <2>4. QED
    BY <1>2, <2>3, SamePool DEF GetNextNoWait, GetNextWait, GetNextWoken
<1>3. CASE t \in Threads /\ (SpuriousWakeup(t) \/ Serve(t) \/ Defer(t))
  BY <1>3, GotoElse, SamePool DEF SpuriousWakeup, Serve, Defer
<1>4. CASE \E c \in Conns : NotifierReply(t, c)
  BY <1>4, GotoElse, SamePool DEF NotifierReply
<1>5. CASE DoneStep(t)
  <2>1. Resume(t) # "off"
    BY DEF Resume
  <2>2. CASE NotifyDone(t)
    BY <2>1, <2>2, GotoElse, SamePool DEF NotifyDone
  <2>3. CASE NotifyDoneInsert(t) \/ NotifyRestart(t)
    BY <2>1, <2>3, GotoElse, SamePool DEF NotifyDoneInsert, NotifyRestart
  <2>4. QED
    BY <1>5, <2>2, <2>3 DEF DoneStep
<1>6. QED
  BY <1>1, <1>2, <1>3, <1>4, <1>5 DEF WorkerStep, NotifierStep

\* New workers go on the list as they start.
LEMMA StartLife ==
    ASSUME TypeInv, LifeInv, NEW S \in SUBSET FreeWorkers, StartThreads(S)
    PROVE  ListIsPool' /\ pc'[PrioWorker] = pc[PrioWorker]
BY ThreadsAssumption
   DEF TypeInv, TypeOK, LifeInv, ListIsPool, StartThreads, FreeWorkers, Callers, Threads

\* A broadcast wakes threads that are there; it starts and ends none.
LEMMA BroadcastLife ==
    ASSUME TypeInv, LifeInv, NEW qs, Broadcast(qs)
    PROVE  \A t \in Threads : pc'[t] = "off" <=> pc[t] = "off"
BY DEF TypeInv, TypeOK, Broadcast, Callers

\* The main thread creates the pool, and waits for it to be empty before it deletes it.
LEMMA MainLife ==
    ASSUME TypeInv, LifeInv, MainStep
    PROVE  LifeInv'
<1> USE DEF ctlVars, exitVars, connVars, threadVars
<1>1. CASE MainStart
  <2>1. PICK S \in SUBSET Workers :
            /\ lstThreads' = S
            /\ pc' = [t \in Callers |-> IF t \in S \cup {PrioWorker} THEN "get" ELSE pc[t]]
    BY <1>1 DEF MainStart
  <2>2. ListIsPool'
    BY <1>1, <2>1, ThreadsAssumption DEF MainStart, LifeInv, ListIsPool, Callers, Threads
  <2>3. QED
    BY <1>1, <2>2 DEF MainStart, MainGoto, LifeInv, Serving, Unwatched, Unmanaged
<1>2. CASE MainTop \/ MainWait \/ MainBatchDone
  BY <1>2 DEF MainTop, MainWait, MainBatchDone, MainGoto, LifeInv, ListIsPool, Serving,
              Unwatched, Unmanaged
<1>3. CASE MainHandle
  <2>1. PICK c \in Conns, kind \in {"in", "hup"} :
            MainAccept(c) \/ MainQueue(c, kind) \/ MainHangup(c, kind)
    BY <1>3 DEF MainHandle
  <2>2. CASE MainAccept(c) \/ MainHangup(c, kind)
    BY <2>2, SamePool DEF MainAccept, MainHangup
  <2>3. CASE MainQueue(c, kind)
    <3>1. \A t \in Threads : pc'[t] = "off" <=> pc[t] = "off"
      BY <2>3 DEF MainQueue, QueueItem, Signal, Waiters, TypeInv, TypeOK, Callers
    <3>2. QED
      BY <2>3, <3>1, SamePool DEF MainQueue
  <2>4. QED
    BY <2>1, <2>2, <2>3
<1>4. CASE MainDelWatchDog \/ MainJoinWatchDog
  BY <1>4 DEF MainDelWatchDog, MainJoinWatchDog, MainGoto, LifeInv, ListIsPool, Serving,
              Unwatched, Unmanaged, TypeInv, TypeOK
<1>5. CASE MainSetZero
  <2>1. ListIsPool'
    BY <1>5, StartLife DEF MainSetZero, SetThreadCount
  <2>2. QED
    BY <1>5, <2>1 DEF MainSetZero, MainGoto, LifeInv, Serving, Unwatched, Unmanaged
<1>6. CASE MainBroadcast
  <2>1. \A t \in Threads : pc'[t] = "off" <=> pc[t] = "off"
    BY <1>6, BroadcastLife DEF MainBroadcast
  <2>2. QED
    BY <1>6, <2>1 DEF MainBroadcast, MainGoto, LifeInv, ListIsPool, Serving, Unwatched,
                      Unmanaged, Threads
<1>7. CASE MainDelManager \/ MainJoinPrio \/ MainDrain \/ MainCloseAll \/ MainReturned
  BY <1>7 DEF MainDelManager, MainJoinPrio, MainDrain, MainCloseAll, MainReturned, MainGoto,
              LifeInv, ListIsPool, Serving, Unwatched, Unmanaged
<1>8. QED
  BY <1>1, <1>2, <1>3, <1>4, <1>5, <1>6, <1>7 DEF MainStep

\* The list of threads is the pool, over all steps.
LEMMA LifeStep ==
    ASSUME TypeInv, LifeInv, [Next]_vars
    PROVE  LifeInv'
<1> USE DEF ctlVars, exitVars, connVars, threadVars
<1>1. CASE Clients
  BY <1>1, SamePool DEF Clients, ClientConnect, ClientSend, ClientClose
<1>2. CASE MainStep
  BY <1>2, MainLife
<1>3. CASE WatchDogCheck
  BY <1>3 DEF WatchDogCheck, LifeInv, ListIsPool, TypeInv, TypeOK, Serving, Unwatched, Unmanaged
<1>4. CASE WatchDogAdd
  <2>1. ListIsPool' /\ pc'[PrioWorker] = pc[PrioWorker]
    <3>1. CASE FreeWorkers = {} /\ UNCHANGED <<lstThreads, pc>>
      BY <3>1 DEF LifeInv, ListIsPool
    <3>2. QED
      BY <1>4, <3>1, StartLife DEF WatchDogAdd
  <2>2. mainPc \notin Unwatched /\ mainPc # "start"
    BY <1>4 DEF WatchDogAdd, LifeInv
  <2>3. QED
    BY <1>4, <2>1, <2>2 DEF WatchDogAdd, LifeInv, TypeInv, TypeOK, Unwatched, Unmanaged
<1>5. CASE \E n \in ThreadSettings : SigHup(n)
  <2>1. PICK n \in ThreadSettings : SigHup(n)
    BY <1>5
  <2>2. ~bExit /\ mainPc \in Serving
    BY <2>1 DEF SigHup, LifeInv
  <2>3. CASE manager = "running" /\ SetThreadCount(n) /\ sigPc' = "hup" /\ UNCHANGED manager
    <3>1. ListIsPool'
      BY <2>3, StartLife DEF SetThreadCount
    <3>2. QED
      BY <2>1, <2>2, <2>3, <3>1 DEF SigHup, LifeInv, Serving, Unwatched, Unmanaged
  <2>4. CASE /\ manager \in {"uninit", "wild"} /\ manager' \in {manager, "wild"}
             /\ UNCHANGED <<ulThreads, lstThreads, pc, sigPc>>
    BY <2>1, <2>4 DEF SigHup, LifeInv, ListIsPool, Serving, Unwatched, Unmanaged
  <2>5. QED
    BY <2>1, <2>3, <2>4 DEF SigHup
<1>6. CASE SigHupBroadcast
  <2>1. \A t \in Threads : pc'[t] = "off" <=> pc[t] = "off"
    BY <1>6, BroadcastLife DEF SigHupBroadcast
  <2>2. QED
    BY <1>6, <2>1 DEF SigHupBroadcast, LifeInv, ListIsPool, Threads
<1>7. CASE SigTerm \/ SigQuit
  BY <1>7 DEF SigTerm, SigQuit, LifeInv, ListIsPool
<1>8. CASE Terminated \/ UNCHANGED vars
  BY <1>8, SamePool DEF Terminated, vars
<1>9. CASE \E t \in Threads : WorkerStep(t) \/ SpuriousWakeup(t)
  BY <1>9, CallerLife DEF Callers
<1>10. CASE \E n \in Notifiers : NotifierStep(n)
  BY <1>10, CallerLife DEF Callers
<1>11. QED
  BY <1>1, <1>2, <1>3, <1>4, <1>5, <1>6, <1>7, <1>8, <1>9, <1>10
     DEF Next, WatchDogStep, Signals

-------------------------------------------------------------------------------
(* Owners: each connection has one, and the main loop hears the ones it has. *)

\* OneOwner is about sets of connections and about the order in a queue.
OwnSets ==
    /\ Listed \cup Queued \cup HeldBySome \cup deferred \subseteq live
    /\ Listed \cap (Queued \cup HeldBySome \cup deferred) = {}
    /\ Queued \cap (HeldBySome \cup deferred) = {}
    /\ HeldBySome \cap deferred = {}
    /\ \A s, t \in Callers : s # t => Held(s) \cap Held(t) = {}

QueuedOnce ==
    \A q \in Queues : \A i, j \in 1 .. Len(queue[q]) : queue[q][i] = queue[q][j] => i = j

\* An item is on the queue that QueueItem has chosen for it, so it is on one of them.
QueuedRight == \A q \in Queues : \A i \in 1 .. Len(queue[q]) : QueueFor(queue[q][i]) = q

\* A soap object exists for each socket that the server has accepted and not closed.
NetInv == \A c \in Conns : c \in live <=> net[c] \notin {"none", "backlog"}

\* Events are handled before the next epoll_wait or select, they are about connections in
\* the backlog or on the list, and there is one for each.
EventInv ==
    /\ events # {} => mainPc = "handle"
    /\ \A e \in events : /\ e[2] = "accept" => net[e[1]] = "backlog"
                         /\ e[2] # "accept" => e[1] \in setSockets
    /\ \A e, f \in events : e[1] = f[1] => e = f

\* Only listed sockets are listened on, select forgets its set when it returns, and a thread
\* between insertion and NotifyRestart is the only one to know that its socket is not heard.
HearInv ==
    /\ epfd \subseteq setSockets
    /\ ~useEPoll /\ mainPc # "wait" => epfd = {}
    /\ useEPoll => \A t \in Callers : pc[t] = "restart" =>
          /\ item[t] \in setSockets \ epfd
          /\ \A e \in events : e[1] # item[t]
          /\ \A s \in Callers : pc[s] = "restart" /\ item[s] = item[t] => s = t

OwnerInv ==
    /\ TypeInv /\ OwnSets /\ NoConnectionLost /\ QueuedOnce /\ QueuedRight
    /\ NetInv /\ EventInv /\ HearInv /\ ListedIsHeard

\* The same, said of one connection.
OwnedRight(c) ==
    /\ c \in Listed => /\ c \in live /\ ~InQueue(c) /\ c \notin deferred
                       /\ \A t \in Callers : c \notin Held(t)
    /\ InQueue(c) => /\ c \in live /\ c \notin deferred
                     /\ \A t \in Callers : c \notin Held(t)
    /\ c \in deferred => c \in live /\ \A t \in Callers : c \notin Held(t)
    /\ \A t \in Callers : c \in Held(t) =>
          c \in live /\ \A s \in Callers : c \in Held(s) => s = t
    /\ c \in live => \/ c \in Listed \/ InQueue(c) \/ c \in deferred
                     \/ \E t \in Callers : c \in Held(t)

\* From all connections to each of them.
LEMMA OwnersOfEach ==
    ASSUME OwnSets, NoConnectionLost, NEW c \in Conns
    PROVE  OwnedRight(c)
BY DEF OwnSets, NoConnectionLost, OwnedRight, Queued, HeldBySome

\* After a step, from each connection to all of them.
LEMMA OwnersOfAll ==
    ASSUME TypeInv', \A c \in Conns : OwnedRight(c)'
    PROVE  OwnSets' /\ NoConnectionLost'
<1>1. /\ Listed' \subseteq Conns /\ deferred' \subseteq Conns /\ live' \subseteq Conns
      /\ \A t \in Callers : Held(t)' \subseteq Conns
  BY DEF TypeInv, TypeOK, BusyHasItem, Busy, Listed, Held
<1>2. HeldBySome' \subseteq Conns
      /\ \A c \in Conns : c \in HeldBySome' <=> \E t \in Callers : c \in Held(t)'
  BY <1>1 DEF HeldBySome
<1>3. \A s, t \in Callers : s # t => Held(s)' \cap Held(t)' = {}
  BY <1>1 DEF OwnedRight
<1>4. ASSUME NEW c \in Conns
      PROVE  /\ c \in Listed' => /\ c \in live' /\ ~InQueue(c)' /\ c \notin deferred'
                                 /\ c \notin HeldBySome'
             /\ InQueue(c)' => c \in live' /\ c \notin deferred' /\ c \notin HeldBySome'
             /\ c \in deferred' => c \in live' /\ c \notin HeldBySome'
             /\ c \in HeldBySome' => c \in live'
             /\ c \in live' => \/ c \in Listed' \/ InQueue(c)' \/ c \in deferred'
                               \/ c \in HeldBySome'
  BY <1>2 DEF OwnedRight
<1>5. OwnSets'
  BY <1>1, <1>2, <1>3, <1>4 DEF OwnSets, Queued
<1>6. NoConnectionLost'
  BY <1>1, <1>2, <1>4 DEF NoConnectionLost, Queued
<1>7. QED
  BY <1>5, <1>6

\* A connection that stays where it is.
LEMMA SameOwner ==
    ASSUME NEW c \in Conns, OwnedRight(c), c \in live' <=> c \in live,
           c \in Listed' <=> c \in Listed, c \in deferred' <=> c \in deferred,
           InQueue(c)' <=> InQueue(c),
           \A t \in Callers : c \in Held(t)' <=> c \in Held(t)
    PROVE  OwnedRight(c)'
BY DEF OwnedRight

\* Steps that leave the owners alone.
LEMMA OwnersKept ==
    ASSUME OwnSets, NoConnectionLost, UNCHANGED <<live, deferred, queue>>,
           Listed' = Listed, \A t \in Callers : Held(t)' = Held(t)
    PROVE  OwnSets' /\ NoConnectionLost'
<1>1. Queued' = Queued
  BY DEF Queued, InQueue
<1>2. HeldBySome' = HeldBySome
  BY DEF HeldBySome
<1>3. QED
  BY <1>1, <1>2 DEF OwnSets, NoConnectionLost

\* Threads that do not work on a connection can go anywhere where they do not either.
LEMMA QuietOwner ==
    ASSUME OwnerInv, TypeInv', UNCHANGED <<connVars, item, useEPoll>>,
           \A t \in Callers : pc'[t] = pc[t] \/ (pc[t] \notin Busy /\ pc'[t] \notin Busy),
           TornDown' <=> TornDown, mainPc' = mainPc \/ (events = {} /\ mainPc # "wait")
    PROVE  OwnerInv'
<1> USE DEF connVars, OwnerInv
<1>1. Listed' = Listed
  BY DEF Listed
<1>2. \A t \in Callers : /\ Held(t)' = Held(t)
                         /\ pc'[t] = "restart" <=> pc[t] = "restart"
  BY DEF Held, Busy
<1>3. OwnSets' /\ NoConnectionLost'
  BY <1>1, <1>2, OwnersKept
<1>4. QueuedOnce' /\ QueuedRight' /\ NetInv' /\ EventInv'
  BY DEF QueuedOnce, QueuedRight, NetInv, EventInv
<1>5. HearInv'
  BY <1>2 DEF HearInv
<1>6. ListedIsHeard'
  BY <1>2 DEF ListedIsHeard
<1>7. QED
  BY <1>3, <1>4, <1>5, <1>6

\* What the network and the clients do to sockets that have been accepted, or not yet.
LEMMA NetOwner ==
    ASSUME OwnerInv, TypeInv', NetInv',
           UNCHANGED <<live, setSockets, epfd, events, queue, deferred, pc, item, mainPc,
                       useEPoll>>,
           \A c \in Conns : net[c] = "backlog" => net'[c] = "backlog"
    PROVE  OwnerInv'
<1> USE DEF OwnerInv
<1>1. Listed' = Listed /\ \A t \in Callers : Held(t)' = Held(t)
  BY DEF Listed, Held, TornDown
<1>2. OwnSets' /\ NoConnectionLost'
  BY <1>1, OwnersKept
<1>3. EventInv'
  BY DEF EventInv, TypeInv, TypeOK
<1>4. QueuedOnce' /\ QueuedRight' /\ HearInv' /\ ListedIsHeard'
  BY DEF QueuedOnce, QueuedRight, HearInv, ListedIsHeard, TornDown
<1>5. QED
  BY <1>2, <1>3, <1>4

\* TakeItem: from the queue to a thread.
LEMMA TakeItemOwner ==
    ASSUME OwnerInv, NEW t \in Threads, queue[QueueOf(t)] # <<>>, TakeItem(t),
           pc[t] \notin Busy, UNCHANGED <<live, setSockets, deferred, mainPc>>
    PROVE  OwnSets' /\ NoConnectionLost' /\ QueuedOnce' /\ QueuedRight'
<1>0. PICK q \in Queues : q = QueueOf(t)
  BY DEF QueueOf, Queues
<1>1. /\ queue \in [Queues -> Seq(Conns)]
      /\ queue[q] \in Seq(Conns) /\ queue[q] # <<>>
      /\ t \in Callers
  BY <1>0 DEF OwnerInv, TypeInv, TypeOK, Callers
<1> PICK c \in Conns : c = Head(queue[q])
  BY <1>1
<1>2. /\ Len(queue[q]) \in Nat /\ Len(queue[q]) >= 1
      /\ c = queue[q][1]
      /\ Tail(queue[q]) \in Seq(Conns) /\ Len(Tail(queue[q])) = Len(queue[q]) - 1
      /\ \A i \in 1 .. Len(queue[q]) - 1 : Tail(queue[q])[i] = queue[q][i + 1]
  BY <1>1
<1>3. /\ queue'[q] = Tail(queue[q])
      /\ \A r \in Queues : r # q => queue'[r] = queue[r]
      /\ Len(queue'[q]) = Len(queue[q]) - 1
      /\ \A i \in 1 .. Len(queue'[q]) :
            queue'[q][i] = queue[q][i + 1] /\ i + 1 \in 1 .. Len(queue[q])
  BY <1>0, <1>1, <1>2 DEF TakeItem
<1>4. QueuedOnce'
  <2> SUFFICES ASSUME NEW r \in Queues, NEW i \in 1 .. Len(queue'[r]),
                      NEW j \in 1 .. Len(queue'[r]), queue'[r][i] = queue'[r][j]
               PROVE  i = j
    BY DEF QueuedOnce
  <2>1. CASE r = q
    <3>1. queue[q][i + 1] = queue[q][j + 1]
      BY <1>3, <2>1
    <3>2. i + 1 = j + 1
      BY <1>3, <2>1, <3>1 DEF OwnerInv, QueuedOnce
    <3>3. QED
      BY <3>2
  <2>2. CASE r # q
    BY <1>3, <2>2 DEF OwnerInv, QueuedOnce
  <2>3. QED
    BY <2>1, <2>2
<1>5. QueuedRight'
  <2> SUFFICES ASSUME NEW r \in Queues, NEW i \in 1 .. Len(queue'[r])
               PROVE  QueueFor(queue'[r][i]) = r
    BY DEF QueuedRight
  <2>1. CASE r = q
    BY <1>3, <2>1 DEF OwnerInv, QueuedRight
  <2>2. CASE r # q
    BY <1>3, <2>2 DEF OwnerInv, QueuedRight
  <2>3. QED
    BY <2>1, <2>2
<1>6. InQueue(c) /\ ~InQueue(c)'
  <2>1. InQueue(c)
    BY <1>1, <1>2 DEF InQueue
  <2>2. ASSUME NEW r \in Queues, NEW i \in 1 .. Len(queue'[r]), queue'[r][i] = c
        PROVE  FALSE
    <3>1. QueueFor(c) = q
      BY <1>1, <1>2 DEF OwnerInv, QueuedRight
    <3>2. CASE r = q
      <4>1. queue[q][i + 1] = queue[q][1] /\ i + 1 \in 1 .. Len(queue[q])
        BY <1>2, <1>3, <2>2, <3>2
      <4>2. 1 \in 1 .. Len(queue[q]) /\ i + 1 # 1
        BY <1>2, <1>3, <2>2, <3>2
      <4>3. QED
        BY <4>1, <4>2 DEF OwnerInv, QueuedOnce
    <3>3. CASE r # q
      BY <1>3, <2>2, <3>1, <3>3 DEF OwnerInv, QueuedRight
    <3>4. QED
      BY <3>2, <3>3
  <2>3. QED
    BY <2>1, <2>2 DEF InQueue
<1>7. \A d \in Conns : d # c => (InQueue(d)' <=> InQueue(d))
  <2> SUFFICES ASSUME NEW d \in Conns, d # c
               PROVE  InQueue(d)' <=> InQueue(d)
    OBVIOUS
  <2>1. ASSUME NEW r \in Queues, NEW i \in 1 .. Len(queue'[r]), queue'[r][i] = d
        PROVE  InQueue(d)
    <3>1. CASE r = q
      <4>1. i + 1 \in 1 .. Len(queue[q]) /\ queue[q][i + 1] = d
        BY <1>1, <1>2, <1>3, <2>1, <3>1
      <4>2. QED
        BY <1>1, <4>1 DEF InQueue
    <3>2. CASE r # q
      BY <1>3, <2>1, <3>2 DEF InQueue
    <3>3. QED
      BY <3>1, <3>2
  <2>2. ASSUME NEW r \in Queues, NEW i \in 1 .. Len(queue[r]), queue[r][i] = d
        PROVE  InQueue(d)'
    <3>1. CASE r = q
      <4>1. i # 1
        BY <1>2, <2>2, <3>1
      <4>2. i - 1 \in 1 .. Len(queue'[q]) /\ queue'[q][i - 1] = d
        BY <1>1, <1>2, <1>3, <2>2, <3>1, <4>1
      <4>3. QED
        BY <1>1, <4>2 DEF InQueue
    <3>2. CASE r # q
      BY <1>3, <2>2, <3>2 DEF InQueue
    <3>3. QED
      BY <3>1, <3>2
  <2>3. QED
    BY <2>1, <2>2 DEF InQueue
<1>8. Queued' = Queued \ {c} /\ c \in Queued
  BY <1>2, <1>6, <1>7 DEF Queued
<1>9. /\ Held(t) = {} /\ Held(t)' = {c}
      /\ \A s \in Callers : s # t => Held(s)' = Held(s)
  BY <1>0, <1>1 DEF OwnerInv, TypeInv, TypeOK, Held, TakeItem, Goto, Busy
<1>10. HeldBySome' = HeldBySome \cup {c}
  BY <1>1, <1>9 DEF HeldBySome
<1>11. Listed' = Listed
  BY DEF Listed, TornDown
<1>12. \A s \in Callers : c \notin Held(s)
  BY <1>8 DEF OwnerInv, OwnSets, HeldBySome
<1>13. \A r, s \in Callers : r # s => Held(r)' \cap Held(s)' = {}
  BY <1>9, <1>12 DEF OwnerInv, OwnSets
<1>14. OwnSets' /\ NoConnectionLost'
  BY <1>8, <1>10, <1>11, <1>13 DEF OwnerInv, OwnSets, NoConnectionLost
<1>15. QED
  BY <1>4, <1>5, <1>14

\* TakeItem, the rest: no socket is touched.
LEMMA TakeItemInv ==
    ASSUME OwnerInv, TypeInv', NEW t \in Threads, queue[QueueOf(t)] # <<>>, TakeItem(t),
           pc[t] \notin Busy,
           UNCHANGED <<net, live, setSockets, epfd, events, deferred, mainPc, useEPoll>>
    PROVE  OwnerInv'
<1>1. OwnSets' /\ NoConnectionLost' /\ QueuedOnce' /\ QueuedRight'
  BY TakeItemOwner
<1>2. \A s \in Callers : /\ pc'[s] = "restart" <=> pc[s] = "restart"
                         /\ pc[s] = "restart" => item'[s] = item[s]
  BY DEF OwnerInv, TypeInv, TypeOK, TakeItem, Goto, Busy, Callers
<1>3. NetInv' /\ EventInv'
  BY DEF OwnerInv, NetInv, EventInv
<1>4. HearInv' /\ ListedIsHeard'
  BY <1>2 DEF OwnerInv, HearInv, ListedIsHeard, TornDown
<1>5. QED
  BY <1>1, <1>3, <1>4 DEF OwnerInv

\* Work on the connection: the answer, or the exception that defers it.
LEMMA ServeOwner ==
    ASSUME OwnerInv, TypeInv', NEW t \in Threads, Serve(t) \/ Defer(t)
    PROVE  OwnerInv'
<1> USE DEF ctlVars, exitVars
<1>1. t \in Callers /\ pc[t] = "work" /\ item[t] \in Conns /\ Held(t) = {item[t]}
  BY DEF Serve, Defer, Callers, OwnerInv, TypeInv, BusyHasItem, Busy, Held
<1> PICK c \in Conns : c = item[t]
  BY <1>1
<1>2. OwnedRight(c) /\ c \in live /\ c \notin deferred
  BY <1>1, OwnersOfEach DEF OwnerInv, OwnedRight
<1>3. NetInv' /\ \A d \in Conns : net[d] = "backlog" => net'[d] = "backlog"
  BY <1>2 DEF Serve, Defer, OwnerInv, NetInv, TypeInv, TypeOK
<1>4. EventInv'
  BY <1>3 DEF Serve, Defer, OwnerInv, EventInv, TypeInv, TypeOK
<1>5. \A s \in Callers : /\ pc'[s] = "restart" <=> pc[s] = "restart"
                         /\ pc[s] = "restart" => item'[s] = item[s]
                         /\ s # t => Held(s)' = Held(s)
  BY <1>1 DEF Serve, Defer, OwnerInv, TypeInv, TypeOK, Goto, Held
<1>6. HearInv' /\ ListedIsHeard'
  BY <1>5 DEF Serve, Defer, OwnerInv, HearInv, ListedIsHeard, TornDown
<1>7. /\ QueuedOnce' /\ QueuedRight' /\ Listed' = Listed
      /\ \A d \in Conns : InQueue(d)' <=> InQueue(d)
  <2>1. UNCHANGED <<queue, live, setSockets, mainPc>>
    BY DEF Serve, Defer
  <2>2. QED
    BY <2>1 DEF OwnerInv, QueuedOnce, QueuedRight, Listed, TornDown, InQueue
<1>8. OwnSets' /\ NoConnectionLost'
  <2>1. CASE Serve(t)
    <3>1. Held(t)' = Held(t)
      BY <1>1, <2>1 DEF Serve, OwnerInv, TypeInv, TypeOK, Goto, Held
    <3>2. QED
      BY <1>5, <1>7, <2>1, <3>1, OwnersKept DEF Serve, OwnerInv
  <2>2. CASE Defer(t)
    <3>1. Held(t)' = {} /\ live' = live /\ deferred' = deferred \cup {c}
      BY <1>1, <2>2 DEF Defer, OwnerInv, TypeInv, TypeOK, Goto, Held
    <3>2. OwnedRight(c)'
      BY <1>1, <1>2, <1>5, <1>7, <3>1 DEF OwnedRight
    <3>3. ASSUME NEW d \in Conns, d # c PROVE OwnedRight(d)'
      BY <1>1, <1>5, <1>7, <3>1, <3>3, OwnersOfEach, SameOwner DEF OwnerInv
    <3>4. QED
      BY <3>2, <3>3, OwnersOfAll DEF OwnerInv
  <2>3. QED
    BY <2>1, <2>2
<1>9. QED
  BY <1>3, <1>4, <1>6, <1>7, <1>8 DEF OwnerInv

\* The notification manager takes a deferred connection to answer it.
LEMMA ReplyOwner ==
    ASSUME OwnerInv, TypeInv', NEW n \in Notifiers, NEW c \in Conns, NotifierReply(n, c)
    PROVE  OwnerInv'
<1> USE DEF ctlVars, exitVars
<1>1. n \in Callers /\ pc[n] = "ready" /\ Held(n) = {} /\ c \in deferred
  BY DEF NotifierReply, Callers, Held
<1>2. OwnedRight(c) /\ c \in live
  BY <1>1, OwnersOfEach DEF OwnerInv, OwnedRight
<1>3. NetInv' /\ \A d \in Conns : net[d] = "backlog" => net'[d] = "backlog"
  BY <1>2 DEF NotifierReply, OwnerInv, NetInv, TypeInv, TypeOK
<1>4. EventInv'
  BY <1>3 DEF NotifierReply, OwnerInv, EventInv, TypeInv, TypeOK
<1>5. \A s \in Callers : /\ pc'[s] = "restart" <=> pc[s] = "restart"
                         /\ pc[s] = "restart" => item'[s] = item[s]
                         /\ s # n => Held(s)' = Held(s)
  BY <1>1 DEF NotifierReply, OwnerInv, TypeInv, TypeOK, Goto, Held
<1>6. HearInv' /\ ListedIsHeard'
  BY <1>5 DEF NotifierReply, OwnerInv, HearInv, ListedIsHeard, TornDown
<1>7. /\ QueuedOnce' /\ QueuedRight' /\ Listed' = Listed
      /\ \A d \in Conns : InQueue(d)' <=> InQueue(d)
  BY DEF NotifierReply, OwnerInv, QueuedOnce, QueuedRight, Listed, TornDown, InQueue
<1>8. Held(n)' = {c} /\ live' = live /\ deferred' = deferred \ {c}
  BY <1>1 DEF NotifierReply, OwnerInv, TypeInv, TypeOK, Goto, Held
<1>9. OwnedRight(c)'
  BY <1>1, <1>2, <1>5, <1>7, <1>8 DEF OwnedRight
<1>10. ASSUME NEW d \in Conns, d # c PROVE OwnedRight(d)'
  BY <1>1, <1>5, <1>7, <1>8, <1>10, OwnersOfEach, SameOwner DEF OwnerInv
<1>11. OwnSets' /\ NoConnectionLost'
  BY <1>9, <1>10, OwnersOfAll
<1>12. QED
  BY <1>3, <1>4, <1>6, <1>7, <1>11 DEF OwnerInv

\* NotifyDone during exit, or for a connection that gSOAP has closed: it is freed.
LEMMA FreedOwner ==
    ASSUME OwnerInv, TypeInv', NEW t \in Callers, pc[t] = "done", Free({item[t]}),
           item' = [item EXCEPT ![t] = NoConn], Goto(t, Resume(t)),
           UNCHANGED <<setSockets, events, queue, deferred, mainPc, useEPoll>>
    PROVE  OwnerInv'
<1>1. item[t] \in Conns /\ Held(t) = {item[t]}
  BY DEF OwnerInv, TypeInv, BusyHasItem, Busy, Held
<1> PICK c \in Conns : c = item[t]
  BY <1>1
<1>2. OwnedRight(c) /\ c \in live /\ c \notin deferred /\ ~InQueue(c) /\ c \notin Listed
  BY <1>1, OwnersOfEach DEF OwnerInv, OwnedRight
<1>3. c \notin setSockets
  BY <1>2 DEF Listed
<1>4. NetInv' /\ \A d \in Conns : net[d] = "backlog" => net'[d] = "backlog"
  BY <1>2 DEF Free, OwnerInv, NetInv, TypeInv, TypeOK
<1>5. EventInv'
  BY <1>4 DEF OwnerInv, EventInv, TypeInv, TypeOK
<1>6. \A s \in Callers : /\ pc'[s] = "restart" <=> pc[s] = "restart"
                         /\ pc[s] = "restart" => item'[s] = item[s]
                         /\ s # t => Held(s)' = Held(s)
  BY <1>1 DEF OwnerInv, TypeInv, TypeOK, Goto, Held, Resume
<1>7. HearInv' /\ ListedIsHeard'
  BY <1>3, <1>6 DEF Free, OwnerInv, HearInv, ListedIsHeard, TornDown
<1>8. /\ QueuedOnce' /\ QueuedRight'
      /\ \A d \in Conns : InQueue(d)' <=> InQueue(d)
      /\ \A d \in Conns : d \in Listed' <=> d \in Listed
  BY <1>3 DEF Free, OwnerInv, QueuedOnce, QueuedRight, Listed, TornDown, InQueue
<1>9. Held(t)' = {} /\ live' = live \ {c} /\ deferred' = deferred
  BY <1>1 DEF Free, OwnerInv, TypeInv, TypeOK, Goto, Held, Resume
<1>10. OwnedRight(c)'
  BY <1>1, <1>2, <1>6, <1>8, <1>9 DEF OwnedRight
<1>11. ASSUME NEW d \in Conns, d # c PROVE OwnedRight(d)'
  BY <1>1, <1>6, <1>8, <1>9, <1>11, OwnersOfEach, SameOwner DEF OwnerInv
<1>12. OwnSets' /\ NoConnectionLost'
  BY <1>10, <1>11, OwnersOfAll
<1>13. QED
  BY <1>4, <1>5, <1>7, <1>8, <1>12 DEF OwnerInv

\* The insertion in m_setSockets: from the thread to the main loop, not yet heard.
LEMMA InsertOwner ==
    ASSUME OwnerInv, TypeInv', NEW t \in Callers, NotifyDoneInsert(t)
    PROVE  OwnerInv'
<1> USE DEF ctlVars, exitVars
<1>1. pc[t] = "insert" /\ item[t] \in Conns /\ Held(t) = {item[t]}
  BY DEF NotifyDoneInsert, OwnerInv, TypeInv, BusyHasItem, Busy, Held
<1> PICK c \in Conns : c = item[t]
  BY <1>1
<1>2. OwnedRight(c) /\ c \in live /\ c \notin deferred /\ ~InQueue(c) /\ c \notin Listed
  BY <1>1, OwnersOfEach DEF OwnerInv, OwnedRight
<1>3. c \notin setSockets
  BY <1>2 DEF Listed
<1>4. NetInv' /\ EventInv' /\ QueuedOnce' /\ QueuedRight'
  BY DEF NotifyDoneInsert, OwnerInv, NetInv, EventInv, QueuedOnce, QueuedRight
<1>5. \A e \in events : e[1] # c
  BY <1>2, <1>3 DEF OwnerInv, EventInv, NetInv
<1>6. /\ setSockets' = setSockets \cup {c} /\ UNCHANGED <<live, deferred, epfd, events, item>>
      /\ pc'[t] = "restart" /\ Held(t)' = {} /\ UNCHANGED <<mainPc, useEPoll>>
      /\ \A s \in Callers : s # t => pc'[s] = pc[s] /\ Held(s)' = Held(s)
      /\ \A d \in Conns : InQueue(d)' <=> InQueue(d)
  BY <1>1 DEF NotifyDoneInsert, OwnerInv, TypeInv, TypeOK, Goto, Held, InQueue
<1>7. HearInv'
  BY <1>3, <1>5, <1>6 DEF OwnerInv, HearInv
<1>8. ListedIsHeard'
  BY <1>6, <1>1 DEF OwnerInv, ListedIsHeard, TornDown
<1>9. c \in Listed' /\ \A d \in Conns : d # c => (d \in Listed' <=> d \in Listed)
  BY <1>2, <1>6 DEF Listed, TornDown
<1>10. OwnedRight(c)'
  BY <1>1, <1>2, <1>6, <1>9 DEF OwnedRight
<1>11. ASSUME NEW d \in Conns, d # c PROVE OwnedRight(d)'
  BY <1>1, <1>6, <1>9, <1>11, OwnersOfEach, SameOwner DEF OwnerInv
<1>12. OwnSets' /\ NoConnectionLost'
  BY <1>10, <1>11, OwnersOfAll
<1>13. QED
  BY <1>4, <1>7, <1>8, <1>12 DEF OwnerInv

\* NotifyRestart: the socket is heard from here on.
LEMMA RestartOwner ==
    ASSUME OwnerInv, TypeInv', NEW t \in Callers, NotifyRestart(t)
    PROVE  OwnerInv'
<1> USE DEF ctlVars, exitVars
<1>1. pc[t] = "restart" /\ item[t] \in Conns
  BY DEF NotifyRestart, OwnerInv, TypeInv, BusyHasItem, Busy
<1> PICK c \in Conns : c = item[t]
  BY <1>1
<1>2. /\ UNCHANGED <<net, live, setSockets, events, queue, deferred, mainPc, useEPoll>>
      /\ epfd' = IF useEPoll THEN epfd \cup ({c} \cap live) ELSE epfd
      /\ pc'[t] # "restart"
      /\ \A s \in Callers : s # t => pc'[s] = pc[s] /\ item'[s] = item[s]
      /\ \A s \in Callers : Held(s)' = Held(s)
  BY <1>1 DEF NotifyRestart, OwnerInv, TypeInv, TypeOK, Goto, Held, Resume
<1>3. NetInv' /\ EventInv' /\ QueuedOnce' /\ QueuedRight'
  BY <1>2 DEF OwnerInv, NetInv, EventInv, QueuedOnce, QueuedRight
<1>4. OwnSets' /\ NoConnectionLost'
  BY <1>2, OwnersKept DEF OwnerInv, Listed, TornDown
<1>5. HearInv'
  BY <1>1, <1>2 DEF OwnerInv, HearInv
<1>6. ListedIsHeard'
  <2> SUFFICES ASSUME useEPoll, ~TornDown, NEW d \in setSockets
               PROVE  d \in epfd' \/ \E s \in Callers : pc'[s] = "restart" /\ item'[s] = d
    BY <1>2 DEF ListedIsHeard, TornDown
  <2>1. d \in live
    BY DEF OwnerInv, OwnSets, Listed
  <2>2. CASE d = c
    BY <1>2, <2>1, <2>2
  <2>3. CASE d # c
    BY <1>2, <2>3 DEF OwnerInv, ListedIsHeard
  <2>4. QED
    BY <2>2, <2>3
<1>7. QED
  BY <1>3, <1>4, <1>5, <1>6 DEF OwnerInv

\* A worker or notifier takes, serves and hands back its own connection.
LEMMA CallerOwner ==
    ASSUME OwnerInv, TypeInv', NEW t \in Callers,
           \/ t \in Threads /\ (WorkerStep(t) \/ SpuriousWakeup(t))
           \/ t \in Notifiers /\ NotifierStep(t)
    PROVE  OwnerInv'
<1> USE DEF ctlVars, exitVars, connVars
<1>1. CASE /\ t \in Threads
           /\ GetNextNoWait(t) \/ GetNextWait(t) \/ GetNextWoken(t)
  <2>1. pc[t] \notin Busy
    BY <1>1 DEF GetNextNoWait, GetNextWait, GetNextWoken, Busy
  <2>2. CASE queue[QueueOf(t)] # <<>> /\ TakeItem(t)
    BY <1>1, <2>1, <2>2, TakeItemInv DEF GetNextNoWait, GetNextWait, GetNextWoken
  <2>3. CASE /\ \E where \in {"idle", "get", "blocked"} : Goto(t, where)
             /\ UNCHANGED <<item, queue>>
    <3>1. \A s \in Callers : pc'[s] = pc[s] \/ (pc[s] \notin Busy /\ pc'[s] \notin Busy)
      BY <2>1, <2>3 DEF Goto, OwnerInv, TypeInv, TypeOK, Busy
    <3>2. QED
      BY <1>1, <2>3, <3>1, QuietOwner DEF GetNextNoWait, GetNextWait, GetNextWoken, TornDown
  <2>4. QED
    BY <1>1, <2>2, <2>3 DEF GetNextNoWait, GetNextWait, GetNextWoken
<1>2. CASE t \in Threads /\ (NotifyIdle(t) \/ SpuriousWakeup(t))
  <2>1. \A s \in Callers : pc'[s] = pc[s] \/ (pc[s] \notin Busy /\ pc'[s] \notin Busy)
    BY <1>2 DEF NotifyIdle, SpuriousWakeup, Goto, OwnerInv, TypeInv, TypeOK, Busy
  <2>2. QED
    BY <1>2, <2>1, QuietOwner DEF NotifyIdle, SpuriousWakeup, TornDown
<1>3. CASE t \in Threads /\ (Serve(t) \/ Defer(t))
  BY <1>3, ServeOwner
<1>4. CASE t \in Notifiers /\ \E c \in Conns : NotifierReply(t, c)
  BY <1>4, ReplyOwner
<1>5. CASE NotifyDone(t)
  <2>1. CASE bExit \/ net[item[t]] = "closed"
    BY <1>5, <2>1, FreedOwner DEF NotifyDone
  <2>2. CASE ~(bExit \/ net[item[t]] = "closed")
    <3>1. /\ \A s \in Callers : Held(s)' = Held(s)
          /\ \A s \in Callers : pc'[s] = "restart" <=> pc[s] = "restart"
          /\ UNCHANGED <<net, live, setSockets, epfd, events, queue, deferred>>
          /\ UNCHANGED <<item, mainPc, useEPoll>>
      BY <1>5, <2>2 DEF NotifyDone, Goto, Held, OwnerInv, TypeInv, TypeOK
    <3>2. Listed' = Listed /\ (TornDown' <=> TornDown)
      BY <3>1 DEF Listed, TornDown
    <3>3. OwnSets' /\ NoConnectionLost'
      BY <3>1, <3>2, OwnersKept DEF OwnerInv
    <3>4. NetInv' /\ EventInv' /\ QueuedOnce' /\ QueuedRight'
      BY <3>1 DEF OwnerInv, NetInv, EventInv, QueuedOnce, QueuedRight
    <3>5. HearInv'
      BY <3>1 DEF OwnerInv, HearInv
    <3>6. ListedIsHeard'
      BY <3>1, <3>2 DEF OwnerInv, ListedIsHeard
    <3>7. QED
      BY <3>3, <3>4, <3>5, <3>6 DEF OwnerInv
  <2>3. QED
    BY <2>1, <2>2
<1>6. CASE NotifyDoneInsert(t)
  BY <1>6, InsertOwner
<1>7. CASE NotifyRestart(t)
  BY <1>7, RestartOwner
<1>8. QED
  BY <1>1, <1>2, <1>3, <1>4, <1>5, <1>6, <1>7 DEF WorkerStep, NotifierStep, DoneStep

\* The top of the loop: sockets that are shut down stay listed; select copies the list.
LEMMA TopOwner ==
    ASSUME OwnerInv, TypeInv', MainTop
    PROVE  OwnerInv'
<1> USE DEF exitVars, threadVars
<1>1. /\ mainPc = "top" /\ mainPc' \in {"wait", "delWatchdog"} /\ events = {}
      /\ UNCHANGED <<live, setSockets, events, queue, deferred, pc, item, useEPoll>>
      /\ ~TornDown /\ ~TornDown'
  BY DEF MainTop, MainGoto, OwnerInv, EventInv, TornDown
<1>2. /\ epfd' = IF useEPoll \/ bExit THEN epfd ELSE setSockets
      /\ mainPc' = IF bExit THEN "delWatchdog" ELSE "wait"
  BY DEF MainTop, MainGoto
<1>3. \A c \in Conns : net'[c] = net[c] \/ (net'[c] = "hup" /\ net[c] \in {"idle", "data"})
  BY DEF MainTop, OwnerInv, TypeInv, TypeOK
<1>4. Listed' = Listed /\ \A t \in Callers : Held(t)' = Held(t)
  BY <1>1 DEF Listed, Held
<1>5. OwnSets' /\ NoConnectionLost'
  BY <1>1, <1>4, OwnersKept DEF OwnerInv
<1>6. NetInv'
  BY <1>1, <1>3 DEF OwnerInv, NetInv
<1>7. EventInv' /\ QueuedOnce' /\ QueuedRight'
  BY <1>1 DEF OwnerInv, EventInv, QueuedOnce, QueuedRight
<1>8. HearInv'
  BY <1>1, <1>2 DEF OwnerInv, HearInv
<1>9. ListedIsHeard'
  BY <1>1, <1>2 DEF OwnerInv, ListedIsHeard
<1>10. QED
  BY <1>5, <1>6, <1>7, <1>8, <1>9 DEF OwnerInv

\* epoll_wait or select: one event for each socket that has something to report.
LEMMA WaitOwner ==
    ASSUME OwnerInv, TypeInv', MainWait
    PROVE  OwnerInv'
<1> USE DEF exitVars, threadVars
<1>1. /\ mainPc = "wait" /\ mainPc' = "handle" /\ ~TornDown /\ ~TornDown'
      /\ UNCHANGED <<net, live, setSockets, queue, deferred, pc, item, useEPoll>>
      /\ epfd' = IF useEPoll THEN epfd ELSE {}
  BY DEF MainWait, MainGoto, TornDown
<1>2. PICK B \in SUBSET {c \in Conns : net[c] = "backlog"} :
          events' = (B \X {"accept"})
              \cup ({c \in epfd : net[c] \in {"data", "eof"}} \X {"in"})
              \cup ({c \in epfd : net[c] = "hup"} \X {"hup"})
  BY DEF MainWait
<1>3. \A e \in events' :
          \/ e[1] \in B /\ e[2] = "accept" /\ net[e[1]] = "backlog" /\ e = <<e[1], e[2]>>
          \/ e[1] \in epfd /\ e[2] = "in" /\ net[e[1]] \in {"data", "eof"} /\ e = <<e[1], e[2]>>
          \/ e[1] \in epfd /\ e[2] = "hup" /\ net[e[1]] = "hup" /\ e = <<e[1], e[2]>>
  BY <1>2
<1>4. EventInv'
  <2>1. \A e \in events' : /\ e[2] = "accept" => net'[e[1]] = "backlog"
                           /\ e[2] # "accept" => e[1] \in setSockets'
    BY <1>1, <1>3 DEF OwnerInv, HearInv
  <2>2. \A e, f \in events' : e[1] = f[1] => e = f
    BY <1>3
  <2>3. QED
    BY <1>1, <2>1, <2>2 DEF EventInv
<1>5. \A t \in Callers : useEPoll /\ pc[t] = "restart" => \A e \in events' : e[1] # item[t]
  <2> SUFFICES ASSUME NEW t \in Callers, useEPoll, pc[t] = "restart", NEW e \in events',
                      e[1] = item[t]
               PROVE  FALSE
    OBVIOUS
  <2>1. item[t] \in setSockets \ epfd /\ item[t] \in live /\ item[t] \in Conns
    BY <1>1 DEF OwnerInv, HearInv, OwnSets, Listed, TypeInv, TypeOK
  <2>2. net[item[t]] # "backlog"
    BY <2>1 DEF OwnerInv, NetInv
  <2>3. QED
    BY <1>3, <2>1, <2>2
<1>6. HearInv'
  BY <1>1, <1>5 DEF OwnerInv, HearInv
<1>7. ListedIsHeard'
  BY <1>1 DEF OwnerInv, ListedIsHeard
<1>8. NetInv' /\ QueuedOnce' /\ QueuedRight'
  BY <1>1 DEF OwnerInv, NetInv, QueuedOnce, QueuedRight
<1>9. Listed' = Listed /\ \A t \in Callers : Held(t)' = Held(t)
  BY <1>1 DEF Listed, Held
<1>10. OwnSets' /\ NoConnectionLost'
  BY <1>1, <1>9, OwnersKept DEF OwnerInv
<1>11. QED
  BY <1>4, <1>6, <1>7, <1>8, <1>10 DEF OwnerInv

\* A new connection is nobody's before, and listed and heard after.
LEMMA AcceptOwner ==
    ASSUME OwnerInv, TypeInv', NEW c \in Conns, MainAccept(c)
    PROVE  OwnerInv'
<1> USE DEF ctlVars, exitVars, threadVars
<1>1. /\ <<c, "accept">> \in events /\ events' = events \ {<<c, "accept">>}
      /\ mainPc = "handle" /\ mainPc' = "handle" /\ ~TornDown /\ ~TornDown'
      /\ UNCHANGED <<queue, deferred, pc, item, useEPoll>>
  BY DEF MainAccept, MayHandle, TornDown
<1>2. net[c] = "backlog" /\ c \notin live
  BY <1>1 DEF OwnerInv, EventInv, NetInv
<1>3. c \notin Listed /\ ~InQueue(c) /\ c \notin deferred /\ \A t \in Callers : c \notin Held(t)
  BY <1>2, OwnersOfEach DEF OwnerInv, OwnedRight
<1>4. c \notin setSockets
  BY <1>1, <1>3 DEF Listed
<1>5. \A e \in events' : e \in events /\ e[1] # c
  BY <1>1 DEF OwnerInv, EventInv
<1>6. /\ \A t \in Callers : Held(t)' = Held(t)
      /\ \A d \in Conns : InQueue(d)' <=> InQueue(d)
      /\ QueuedOnce' /\ QueuedRight'
  BY <1>1 DEF Held, InQueue, OwnerInv, QueuedOnce, QueuedRight
<1>7. CASE /\ net' = [net EXCEPT ![c] = "idle"] /\ live' = live \cup {c}
           /\ setSockets' = setSockets \cup {c}
           /\ epfd' = IF useEPoll THEN epfd \cup {c} ELSE epfd
  <2>1. NetInv'
    BY <1>7 DEF OwnerInv, NetInv, TypeInv, TypeOK
  <2>2. EventInv'
    BY <1>1, <1>5, <1>7 DEF OwnerInv, EventInv, TypeInv, TypeOK
  <2>3. HearInv'
    BY <1>1, <1>4, <1>5, <1>7 DEF OwnerInv, HearInv
  <2>4. ListedIsHeard'
    BY <1>1, <1>7 DEF OwnerInv, ListedIsHeard
  <2>5. Listed' = Listed \cup {c}
    BY <1>1, <1>7 DEF Listed
  <2>6. OwnedRight(c)'
    BY <1>1, <1>3, <1>6, <1>7, <2>5 DEF OwnedRight
  <2>7. ASSUME NEW d \in Conns, d # c PROVE OwnedRight(d)'
    BY <1>1, <1>6, <1>7, <2>5, <2>7, OwnersOfEach, SameOwner DEF OwnerInv
  <2>8. OwnSets' /\ NoConnectionLost'
    BY <2>6, <2>7, OwnersOfAll
  <2>9. QED
    BY <1>6, <2>1, <2>2, <2>3, <2>4, <2>8 DEF OwnerInv
<1>8. CASE net' = [net EXCEPT ![c] = "none"] /\ UNCHANGED <<live, setSockets, epfd>>
  <2>1. NetInv'
    BY <1>2, <1>8 DEF OwnerInv, NetInv, TypeInv, TypeOK
  <2>2. EventInv'
    BY <1>1, <1>5, <1>8 DEF OwnerInv, EventInv, TypeInv, TypeOK
  <2>3. HearInv' /\ ListedIsHeard'
    BY <1>1, <1>5, <1>8 DEF OwnerInv, HearInv, ListedIsHeard
  <2>4. Listed' = Listed
    BY <1>1, <1>8 DEF Listed
  <2>5. OwnSets' /\ NoConnectionLost'
    BY <1>1, <1>6, <1>8, <2>4, OwnersKept DEF OwnerInv
  <2>6. QED
    BY <1>6, <2>1, <2>2, <2>3, <2>5 DEF OwnerInv
<1>9. QED
  BY <1>7, <1>8 DEF MainAccept

\* QueueItem appends, and wakes a thread that has nothing in hand.
LEMMA AppendOwner ==
    ASSUME OwnerInv, NEW c \in Conns, ~InQueue(c), QueueItem(c), UNCHANGED item
    PROVE  /\ QueuedOnce' /\ QueuedRight' /\ InQueue(c)'
           /\ \A d \in Conns : d # c => (InQueue(d)' <=> InQueue(d))
           /\ \A t \in Callers : Held(t)' = Held(t)
           /\ \A t \in Callers : pc'[t] = "restart" <=> pc[t] = "restart"
<1>0. PICK q \in Queues : q = QueueFor(c)
  BY DEF QueueFor, Queues
<1>1. /\ queue \in [Queues -> Seq(Conns)] /\ queue[q] \in Seq(Conns)
      /\ Len(queue[q]) \in Nat
  BY DEF OwnerInv, TypeInv, TypeOK
<1>2. /\ \A r \in Queues : r # q => queue'[r] = queue[r]
      /\ Len(queue'[q]) = Len(queue[q]) + 1 /\ queue'[q][Len(queue[q]) + 1] = c
      /\ \A i \in 1 .. Len(queue[q]) : queue'[q][i] = queue[q][i]
  BY <1>0, <1>1 DEF QueueItem
<1>3. \A i \in 1 .. Len(queue'[q]) :
          \/ i = Len(queue[q]) + 1 /\ queue'[q][i] = c
          \/ i \in 1 .. Len(queue[q]) /\ queue'[q][i] = queue[q][i] /\ queue[q][i] # c
  BY <1>1, <1>2 DEF InQueue
<1>4. QueuedOnce'
  <2> SUFFICES ASSUME NEW r \in Queues, NEW i \in 1 .. Len(queue'[r]),
                      NEW j \in 1 .. Len(queue'[r]), queue'[r][i] = queue'[r][j]
               PROVE  i = j
    BY DEF QueuedOnce
  <2>1. CASE r = q
    BY <1>3, <2>1 DEF OwnerInv, QueuedOnce
  <2>2. CASE r # q
    BY <1>2, <2>2 DEF OwnerInv, QueuedOnce
  <2>3. QED
    BY <2>1, <2>2
<1>5. QueuedRight'
  <2> SUFFICES ASSUME NEW r \in Queues, NEW i \in 1 .. Len(queue'[r])
               PROVE  QueueFor(queue'[r][i]) = r
    BY DEF QueuedRight
  <2>1. CASE r = q
    BY <1>0, <1>3, <2>1 DEF OwnerInv, QueuedRight
  <2>2. CASE r # q
    BY <1>2, <2>2 DEF OwnerInv, QueuedRight
  <2>3. QED
    BY <2>1, <2>2
<1>6. InQueue(c)'
  <2>1. Len(queue[q]) + 1 \in 1 .. Len(queue'[q])
    BY <1>1, <1>2
  <2>2. QED
    BY <1>2, <2>1 DEF InQueue
<1>7. ASSUME NEW d \in Conns, d # c
      PROVE  InQueue(d)' <=> InQueue(d)
  <2>1. ASSUME NEW r \in Queues, NEW i \in 1 .. Len(queue'[r]), queue'[r][i] = d
        PROVE  InQueue(d)
    BY <1>2, <1>3, <1>7, <2>1 DEF InQueue
  <2>2. ASSUME NEW r \in Queues, NEW i \in 1 .. Len(queue[r]), queue[r][i] = d
        PROVE  InQueue(d)'
    <3>1. i \in 1 .. Len(queue'[r]) /\ queue'[r][i] = d
      BY <1>1, <1>2, <2>2
    <3>2. QED
      BY <3>1 DEF InQueue
  <2>3. QED
    BY <2>1, <2>2 DEF InQueue
<1>8. \A t \in Callers : pc'[t] = pc[t] \/ (pc[t] = "blocked" /\ pc'[t] = "woken")
  BY DEF QueueItem, Signal, Waiters, OwnerInv, TypeInv, TypeOK, Threads, Callers
<1>9. QED
  BY <1>4, <1>5, <1>6, <1>7, <1>8 DEF Held

\* A request: from the list to a queue, and not heard until it has been served.
LEMMA QueueOwner ==
    ASSUME OwnerInv, TypeInv', NEW c \in Conns, NEW kind \in {"in", "hup"}, MainQueue(c, kind)
    PROVE  OwnerInv'
<1> USE DEF ctlVars, exitVars
<1>1. /\ <<c, kind>> \in events /\ events' = events \ {<<c, kind>>} /\ kind # "accept"
      /\ mainPc = "handle" /\ mainPc' = "handle" /\ ~TornDown /\ ~TornDown'
      /\ UNCHANGED <<net, live, deferred, item, useEPoll>> /\ QueueItem(c)
      /\ setSockets' = setSockets \ {c}
      /\ epfd' = IF useEPoll THEN epfd \ {c} ELSE epfd
  BY DEF MainQueue, MayHandle, TornDown
<1>2. c \in setSockets /\ c \in Listed /\ Listed' = Listed \ {c}
  BY <1>1 DEF OwnerInv, EventInv, Listed
<1>3. /\ c \in live /\ ~InQueue(c) /\ c \notin deferred
      /\ \A t \in Callers : c \notin Held(t)
  BY <1>2, OwnersOfEach DEF OwnerInv, OwnedRight
<1>4. /\ QueuedOnce' /\ QueuedRight' /\ InQueue(c)'
      /\ \A d \in Conns : d # c => (InQueue(d)' <=> InQueue(d))
      /\ \A t \in Callers : Held(t)' = Held(t)
      /\ \A t \in Callers : pc'[t] = "restart" <=> pc[t] = "restart"
  BY <1>1, <1>3, AppendOwner
<1>5. \A e \in events' : e \in events /\ e[1] # c
  BY <1>1 DEF OwnerInv, EventInv
<1>6. NetInv' /\ EventInv'
  BY <1>1, <1>5 DEF OwnerInv, NetInv, EventInv
<1>7. HearInv'
  BY <1>1, <1>4, <1>5 DEF OwnerInv, HearInv
<1>8. ListedIsHeard'
  BY <1>1, <1>4 DEF OwnerInv, ListedIsHeard
<1>9. OwnedRight(c)'
  BY <1>1, <1>2, <1>3, <1>4 DEF OwnedRight
<1>10. ASSUME NEW d \in Conns, d # c PROVE OwnedRight(d)'
  BY <1>1, <1>2, <1>4, <1>10, OwnersOfEach, SameOwner DEF OwnerInv
<1>11. OwnSets' /\ NoConnectionLost'
  BY <1>9, <1>10, OwnersOfAll
<1>12. QED
  BY <1>4, <1>6, <1>7, <1>8, <1>11 DEF OwnerInv

\* A hang-up: the connection leaves the list and is freed.
LEMMA HangupOwner ==
    ASSUME OwnerInv, TypeInv', NEW c \in Conns, NEW kind \in {"in", "hup"}, MainHangup(c, kind)
    PROVE  OwnerInv'
<1> USE DEF ctlVars, exitVars, threadVars
<1>1. /\ <<c, kind>> \in events /\ events' = events \ {<<c, kind>>} /\ kind # "accept"
      /\ mainPc = "handle" /\ mainPc' = "handle" /\ ~TornDown /\ ~TornDown'
      /\ UNCHANGED <<queue, deferred, pc, item, useEPoll>>
      /\ setSockets' = setSockets \ {c} /\ live' = live \ {c} /\ epfd' = epfd \ {c}
      /\ net' = [d \in Conns |-> IF d \in {c} THEN "none" ELSE net[d]]
  BY DEF MainHangup, MayHandle, TornDown, Free
<1>2. c \in setSockets /\ c \in Listed /\ Listed' = Listed \ {c}
  BY <1>1 DEF OwnerInv, EventInv, Listed
<1>3. ~InQueue(c) /\ c \notin deferred /\ \A t \in Callers : c \notin Held(t)
  BY <1>2, OwnersOfEach DEF OwnerInv, OwnedRight
<1>4. /\ QueuedOnce' /\ QueuedRight'
      /\ \A d \in Conns : InQueue(d)' <=> InQueue(d)
      /\ \A t \in Callers : Held(t)' = Held(t)
  BY <1>1 DEF OwnerInv, QueuedOnce, QueuedRight, InQueue, Held
<1>5. \A e \in events' : e \in events /\ e[1] # c
  BY <1>1 DEF OwnerInv, EventInv
<1>6. NetInv'
  BY <1>1 DEF OwnerInv, NetInv
<1>7. EventInv'
  BY <1>1, <1>5 DEF OwnerInv, EventInv, TypeInv, TypeOK
<1>8. HearInv'
  BY <1>1, <1>5 DEF OwnerInv, HearInv
<1>9. ListedIsHeard'
  BY <1>1 DEF OwnerInv, ListedIsHeard
<1>10. OwnedRight(c)'
  BY <1>1, <1>2, <1>3, <1>4 DEF OwnedRight
<1>11. ASSUME NEW d \in Conns, d # c PROVE OwnedRight(d)'
  BY <1>1, <1>2, <1>4, <1>11, OwnersOfEach, SameOwner DEF OwnerInv
<1>12. OwnSets' /\ NoConnectionLost'
  BY <1>10, <1>11, OwnersOfAll
<1>13. QED
  BY <1>4, <1>6, <1>7, <1>8, <1>9, <1>12 DEF OwnerInv

\* What is left in the queues is freed with them.
LEMMA DrainOwner ==
    ASSUME OwnerInv, TypeInv', MainDrain
    PROVE  OwnerInv' /\ Queued' = {}
<1> USE DEF exitVars, threadVars
<1>1. /\ mainPc = "drain" /\ mainPc' = "closeAll" /\ ~TornDown /\ ~TornDown' /\ events = {}
      /\ UNCHANGED <<setSockets, events, deferred, pc, item, useEPoll>>
      /\ live' = live \ Queued /\ epfd' = epfd \ Queued
      /\ net' = [c \in Conns |-> IF c \in Queued THEN "none" ELSE net[c]]
      /\ queue' = [q \in Queues |-> <<>>]
  BY DEF MainDrain, MainGoto, Free, Queued, TornDown, OwnerInv, EventInv
<1>2. \A q \in Queues : queue'[q] = <<>> /\ Len(queue'[q]) = 0
  BY <1>1
<1>3. QueuedOnce' /\ QueuedRight' /\ \A c \in Conns : ~InQueue(c)'
  BY <1>2 DEF QueuedOnce, QueuedRight, InQueue
<1>4. Listed' = Listed /\ \A t \in Callers : Held(t)' = Held(t)
  BY <1>1 DEF Listed, Held
<1>5. NetInv'
  BY <1>1 DEF OwnerInv, NetInv
<1>6. EventInv'
  BY <1>1 DEF EventInv
<1>7. \A c \in setSockets : c \notin Queued
  BY <1>1 DEF OwnerInv, OwnSets, Listed
<1>8. HearInv'
  BY <1>1 DEF OwnerInv, HearInv
<1>9. ListedIsHeard'
  BY <1>1, <1>7 DEF OwnerInv, ListedIsHeard
<1>10. ASSUME NEW c \in Conns PROVE OwnedRight(c)'
  <2>1. OwnedRight(c) /\ (c \in Queued <=> InQueue(c))
    BY OwnersOfEach DEF OwnerInv, Queued
  <2>2. QED
    BY <1>1, <1>3, <1>4, <2>1 DEF OwnedRight
<1>11. OwnSets' /\ NoConnectionLost'
  BY <1>10, OwnersOfAll
<1>12. QED
  BY <1>3, <1>5, <1>6, <1>8, <1>9, <1>11 DEF OwnerInv, Queued

\* What is still listed is freed; the list is not emptied.
LEMMA CloseAllOwner ==
    ASSUME OwnerInv, TypeInv', MainCloseAll
    PROVE  OwnerInv' /\ Listed' = {}
<1> USE DEF exitVars, threadVars
<1> DEFINE S == setSockets \cup {c \in Conns : net[c] = "backlog"}
<1>1. /\ mainPc = "closeAll" /\ mainPc' = "returned" /\ ~TornDown /\ TornDown' /\ events = {}
      /\ UNCHANGED <<setSockets, events, queue, deferred, pc, item, useEPoll>>
      /\ live' = live \ S /\ epfd' = epfd \ S
      /\ net' = [c \in Conns |-> IF c \in S THEN "none" ELSE net[c]]
  BY DEF MainCloseAll, MainGoto, Free, TornDown, OwnerInv, EventInv
<1>2. \A c \in Conns : c \in live' <=> c \in live /\ c \notin setSockets
  BY <1>1 DEF OwnerInv, NetInv
<1>3. Listed = setSockets /\ Listed' = {}
  BY <1>1 DEF Listed
<1>4. QueuedOnce' /\ QueuedRight' /\ EventInv' /\ ListedIsHeard'
  BY <1>1 DEF OwnerInv, QueuedOnce, QueuedRight, EventInv, ListedIsHeard
<1>5. NetInv'
  BY <1>1, <1>2 DEF OwnerInv, NetInv, OwnSets, Listed
<1>6. HearInv'
  BY <1>1 DEF OwnerInv, HearInv
<1>7. /\ \A t \in Callers : Held(t)' = Held(t)
      /\ \A d \in Conns : InQueue(d)' <=> InQueue(d)
  BY <1>1 DEF Held, InQueue
<1>8. ASSUME NEW c \in Conns PROVE OwnedRight(c)'
  <2>1. OwnedRight(c)
    BY OwnersOfEach DEF OwnerInv
  <2>2. QED
    BY <1>1, <1>2, <1>3, <1>7, <2>1 DEF OwnedRight
<1>9. OwnSets' /\ NoConnectionLost'
  BY <1>8, OwnersOfAll
<1>10. QED
  BY <1>3, <1>4, <1>5, <1>6, <1>9 DEF OwnerInv

\* The other steps of the main thread, and those of watchdog and signals, only start or
\* wake threads that have nothing in hand.
LEMMA PoolOwner ==
    ASSUME OwnerInv, LifeInv, TypeInv',
           \/ MainStart \/ MainSetZero \/ MainBroadcast \/ SigHupBroadcast \/ WatchDogAdd
           \/ \E n \in ThreadSettings : SigHup(n)
    PROVE  OwnerInv'
<1> USE DEF ctlVars, exitVars, connVars
<1>1. \A t \in Callers : pc'[t] = pc[t] \/ (pc[t] \notin Busy /\ pc'[t] \notin Busy)
  <2>1. CASE MainStart
    BY <2>1, ThreadsAssumption DEF MainStart, LifeInv, ListIsPool, Busy, Callers, Threads
  <2>2. CASE \/ \E S \in SUBSET FreeWorkers : StartThreads(S)
             \/ UNCHANGED pc
    BY <2>2 DEF StartThreads, FreeWorkers, Busy
  <2>3. CASE \E qs : Broadcast(qs)
    BY <2>3 DEF Broadcast, Busy
  <2>4. CASE MainSetZero \/ \E n \in ThreadSettings : SigHup(n)
    BY <2>2, <2>4 DEF MainSetZero, SigHup, SetThreadCount
  <2>5. CASE WatchDogAdd
    BY <2>2, <2>5 DEF WatchDogAdd
  <2>6. QED
    BY <2>1, <2>3, <2>4, <2>5 DEF MainBroadcast, SigHupBroadcast
<1>2. /\ UNCHANGED <<connVars, item, useEPoll>>
      /\ TornDown' <=> TornDown
      /\ mainPc' = mainPc \/ (events = {} /\ mainPc # "wait")
  BY DEF MainStart, MainSetZero, MainBroadcast, SigHupBroadcast, WatchDogAdd, SigHup,
         MainGoto, OwnerInv, EventInv, TornDown
<1>3. QED
  BY <1>1, <1>2, QuietOwner

\* Steps that decide about the end, and touch no connection.
LEMMA ControlOwner ==
    ASSUME OwnerInv, TypeInv',
           \/ MainBatchDone \/ MainDelWatchDog \/ MainJoinWatchDog \/ MainDelManager
           \/ MainJoinPrio \/ MainReturned \/ WatchDogCheck \/ SigTerm \/ SigQuit
           \/ Terminated \/ UNCHANGED vars
    PROVE  OwnerInv'
<1> USE DEF ctlVars, exitVars, connVars, threadVars
<1>1. /\ UNCHANGED <<connVars, item, useEPoll, pc>>
      /\ TornDown' <=> TornDown
      /\ mainPc' = mainPc \/ (events = {} /\ mainPc # "wait")
  BY DEF MainBatchDone, MainDelWatchDog, MainJoinWatchDog, MainDelManager, MainJoinPrio,
         MainReturned, WatchDogCheck, SigTerm, SigQuit, Terminated, vars,
         MainGoto, OwnerInv, EventInv, TornDown
<1>2. QED
  BY <1>1, QuietOwner

\* A connection changes hands from one owner to another, over all steps.
LEMMA OwnerStep ==
    ASSUME OwnerInv, LifeInv, [Next]_vars
    PROVE  OwnerInv'
<1>1. TypeInv'
  BY TypeStep DEF OwnerInv
<1>2. CASE Clients
  <2>1. /\ UNCHANGED <<live, setSockets, epfd, events, queue, deferred, pc, item, mainPc, useEPoll>>
        /\ NetInv' /\ \A c \in Conns : net[c] = "backlog" => net'[c] = "backlog"
    BY <1>2 DEF Clients, ClientConnect, ClientSend, ClientClose, OwnerInv, NetInv, TypeInv,
                TypeOK, threadVars, ctlVars, exitVars
  <2>2. QED
    BY <1>1, <2>1, NetOwner
<1>3. CASE MainHandle
  BY <1>1, <1>3, AcceptOwner, QueueOwner, HangupOwner DEF MainHandle
<1>4. CASE MainStep /\ ~MainHandle
  BY <1>1, <1>4, TopOwner, WaitOwner, DrainOwner, CloseAllOwner, PoolOwner, ControlOwner
     DEF MainStep
<1>5. CASE WatchDogStep \/ Signals
  BY <1>1, <1>5, PoolOwner, ControlOwner DEF WatchDogStep, Signals
<1>6. CASE Terminated \/ UNCHANGED vars
  BY <1>1, <1>6, ControlOwner
<1>7. CASE \E t \in Threads : WorkerStep(t) \/ SpuriousWakeup(t)
  BY <1>1, <1>7, CallerOwner DEF Callers
<1>8. CASE \E n \in Notifiers : NotifierStep(n)
  BY <1>1, <1>8, CallerOwner DEF Callers
<1>9. QED
  BY <1>2, <1>3, <1>4, <1>5, <1>6, <1>7, <1>8 DEF Next

\* There are no connections at the start.
LEMMA OwnerInit == Init => OwnerInv
<1> SUFFICES ASSUME Init PROVE OwnerInv
  OBVIOUS
<1>1. TypeInv
  BY TypeInit
<1>2. /\ live = {} /\ setSockets = {} /\ epfd = {} /\ events = {} /\ deferred = {}
      /\ \A t \in Callers : pc[t] \in {"off", "ready"}
      /\ \A q \in Queues : queue[q] = <<>> /\ Len(queue[q]) = 0
  BY DEF Init
<1>3. QueuedOnce /\ QueuedRight /\ \A c \in Conns : ~InQueue(c)
  BY <1>2 DEF QueuedOnce, QueuedRight, InQueue
<1>4. Listed = {} /\ Queued = {} /\ \A t \in Callers : Held(t) = {}
  BY <1>2, <1>3 DEF Listed, Queued, Held
<1>5. HeldBySome = {}
  BY <1>4 DEF HeldBySome
<1>6. OwnSets /\ NoConnectionLost
  BY <1>2, <1>4, <1>5 DEF OwnSets, NoConnectionLost
<1>7. NetInv /\ EventInv /\ HearInv /\ ListedIsHeard
  BY <1>2 DEF Init, NetInv, EventInv, HearInv, ListedIsHeard
<1>8. QED
  BY <1>1, <1>3, <1>6, <1>7 DEF OwnerInv

\* The invariant that the theorems about connections follow from.
LEMMA OwnersInvariant == Spec => [](OwnerInv /\ LifeInv)
<1>1. Init => OwnerInv /\ LifeInv
  BY OwnerInit, LifeInit
<1>2. OwnerInv /\ LifeInv /\ [Next]_vars => (OwnerInv /\ LifeInv)'
  BY OwnerStep, LifeStep DEF OwnerInv
<1>3. QED
  BY <1>1, <1>2, PTL DEF Spec

\* However main loop, workers, notifiers and shutdown interleave, a connection is allocated
\* as long as anybody has it and nobody shares it with another.
THEOREM ConnectionsHaveOneOwner == Spec => []OneOwner
<1>1. OwnerInv /\ LifeInv => OneOwner
  BY DEF OwnerInv, OwnSets, QueuedOnce, OneOwner
<1>2. QED
  BY <1>1, OwnersInvariant, PTL

\* Nothing that is allocated is forgotten, also not during the shutdown.
THEOREM ConnectionsAreNotLost == Spec => []NoConnectionLost
<1>1. OwnerInv /\ LifeInv => NoConnectionLost
  BY DEF OwnerInv
<1>2. QED
  BY <1>1, OwnersInvariant, PTL

\* The main loop listens to what it has listed, and never looks up a stranger.
THEOREM SocketsAreHeard == Spec => []SocketsHeard
<1>1. OwnerInv /\ LifeInv => SocketsHeard
  BY DEF OwnerInv, HearInv, EventInv, SocketsHeard, EventsAreListed
<1>2. QED
  BY <1>1, OwnersInvariant, PTL

-------------------------------------------------------------------------------
(* The shutdown.                                                           *)

\* MainDrain leaves nothing in the queues, and nobody puts anything there after it.
Drained == mainPc \in {"closeAll", "returned", "end", "reentered"} => Queued = {}

\* Without a thread manager no thread runs.
LEMMA ThreadsAreGone ==
    ASSUME LifeInv, mainPc \in Unmanaged
    PROVE  watchdog.at = "gone" /\ \A t \in Threads : pc[t] = "off"
BY DEF LifeInv, ListIsPool, Unmanaged, Unwatched, Threads

\* Once the pool is gone nothing is queued any more.
LEMMA DrainedStep ==
    ASSUME OwnerInv, LifeInv, Drained, [Next]_vars
    PROVE  Drained'
<1> USE DEF ctlVars, exitVars, connVars, threadVars
<1>1. CASE UNCHANGED queue
  <2>1. CASE mainPc \in {"closeAll", "returned", "end", "reentered"} \/ mainPc' = mainPc
    BY <1>1, <2>1 DEF Drained, Queued, InQueue
  <2>2. CASE mainPc' \notin {"closeAll", "returned", "end", "reentered"}
    BY <2>2 DEF Drained
  <2>3. CASE MainStep
    BY <2>1, <2>2, <2>3, DrainOwner, TypeStep
       DEF MainStep, MainStart, MainTop, MainWait, MainHandle, MainAccept, MainQueue, MainHangup,
           MainBatchDone, MainDelWatchDog, MainJoinWatchDog, MainSetZero, MainBroadcast,
           MainDelManager, MainJoinPrio, MainDrain, MainCloseAll, MainReturned, MainGoto,
           Drained, OwnerInv
  <2>4. CASE ~MainStep
    <3>1. mainPc' = mainPc
      BY <2>4 DEF Next, Clients, ClientConnect, ClientSend, ClientClose, WatchDogStep,
                  WatchDogCheck, WatchDogAdd, Signals, SigHup, SigHupBroadcast, SigTerm, SigQuit,
                  Terminated, vars, WorkerStep, SpuriousWakeup, GetNextNoWait, NotifyIdle,
                  GetNextWait, GetNextWoken, Serve, Defer, DoneStep, NotifyDone,
                  NotifyDoneInsert, NotifyRestart, NotifierStep, NotifierReply
    <3>2. QED
      BY <2>1, <3>1
  <2>5. QED
    BY <2>3, <2>4
<1>2. CASE MainDrain
  BY <1>2, TypeStep, DrainOwner DEF Drained, OwnerInv
<1>3. CASE \E c \in Conns, kind \in {"in", "hup"} : MainQueue(c, kind)
  BY <1>3 DEF MainQueue, MayHandle, Drained
<1>4. CASE \E t \in Threads : GetNextNoWait(t) \/ GetNextWait(t) \/ GetNextWoken(t)
  <2>1. mainPc \notin Unmanaged /\ mainPc' = mainPc
    BY <1>4, ThreadsAreGone DEF GetNextNoWait, GetNextWait, GetNextWoken
  <2>2. QED
    BY <2>1 DEF Drained, Unmanaged
<1>5. UNCHANGED queue \/ MainDrain \/ (\E c \in Conns, kind \in {"in", "hup"} : MainQueue(c, kind))
      \/ \E t \in Threads : GetNextNoWait(t) \/ GetNextWait(t) \/ GetNextWoken(t)
  BY DEF Next, Clients, ClientConnect, ClientSend, ClientClose, WatchDogStep,
         WatchDogCheck, WatchDogAdd, Signals, SigHup, SigHupBroadcast, SigTerm, SigQuit,
         Terminated, vars, WorkerStep, SpuriousWakeup, NotifyIdle,
         Serve, Defer, DoneStep, NotifyDone, NotifyDoneInsert, NotifyRestart, NotifierStep,
         NotifierReply, MainStep, MainStart, MainTop, MainWait, MainHandle, MainAccept,
         MainHangup, MainBatchDone, MainDelWatchDog, MainJoinWatchDog, MainSetZero,
         MainBroadcast, MainDelManager, MainJoinPrio, MainCloseAll, MainReturned
<1>6. QED
  BY <1>1, <1>2, <1>3, <1>4, <1>5

\* The step that closes the listed sockets leaves what a notifier has in hand or will have.
LEMMA CloseAllStep ==
    ASSUME OwnerInv, LifeInv, Drained, MainCloseAll, TypeInv'
    PROVE  ShutdownClosesConnections
<1> USE DEF exitVars, threadVars
<1>1. OwnerInv' /\ Listed' = {}
  BY CloseAllOwner
<1>2. Queued' = {}
  BY DEF MainCloseAll, Drained, Queued, InQueue
<1>3. \A t \in Threads : Held(t)' = {}
  BY ThreadsAreGone DEF MainCloseAll, Unmanaged, Held, Threads, Callers
<1>4. HeldBySome' \subseteq UNION {Held(n)' : n \in Notifiers}
  BY <1>3 DEF HeldBySome, Callers
<1>5. QED
  BY <1>1, <1>2, <1>4 DEF ShutdownClosesConnections, OwnerInv, NoConnectionLost

\* The shutdown of MainLoop leaves no thread that could use the deleted thread manager, and
\* no connection that is not with the notification manager.
THEOREM ShutdownLeavesNothing == Spec => ShutdownIsComplete
<1>1. Init => Drained
  BY DEF Init, Drained
<1>2. OwnerInv /\ LifeInv /\ Drained /\ [Next]_vars => Drained'
  BY DrainedStep
<1>3. LifeInv => NoThreadOutlivesManager
  BY ThreadsAreGone DEF LifeInv, NoThreadOutlivesManager
<1>4. OwnerInv /\ LifeInv /\ Drained /\ [Next]_vars => ShutdownClosesConnections
  <2> SUFFICES ASSUME OwnerInv, LifeInv, Drained, [Next]_vars
               PROVE  ShutdownClosesConnections
    OBVIOUS
  <2>1. CASE MainCloseAll
    BY <2>1, CloseAllStep, TypeStep DEF OwnerInv
  <2>2. CASE MainStep /\ ~MainCloseAll
    BY <2>2 DEF MainStep, MainStart, MainTop, MainWait, MainHandle, MainAccept, MainQueue,
                MainHangup, MainBatchDone, MainDelWatchDog, MainJoinWatchDog, MainSetZero,
                MainBroadcast, MainDelManager, MainJoinPrio, MainDrain, MainReturned,
                MainGoto, ctlVars, ShutdownClosesConnections
  <2>3. CASE ~MainStep
    BY <2>3 DEF Next, Clients, ClientConnect, ClientSend, ClientClose, WatchDogStep,
                WatchDogCheck, WatchDogAdd, Signals, SigHup, SigHupBroadcast, SigTerm, SigQuit,
                Terminated, vars, WorkerStep, SpuriousWakeup, GetNextNoWait, NotifyIdle,
                GetNextWait, GetNextWoken, Serve, Defer, DoneStep, NotifyDone,
                NotifyDoneInsert, NotifyRestart, NotifierStep, NotifierReply, ctlVars,
                ShutdownClosesConnections
  <2>4. QED
    BY <2>1, <2>2, <2>3
<1>5. QED
  BY <1>1, <1>2, <1>3, <1>4, OwnersInvariant, PTL DEF Spec, ShutdownIsComplete

-------------------------------------------------------------------------------
(* The pool: who takes the next request.                                   *)

\* While the server runs, a worker and the priority worker are there.
PoolInv ==
    ~bExit => /\ ulThreads > 0
              /\ manager = "running" => lstThreads # {} /\ pc[PrioWorker] # "off"

WakeInv == NoLostWakeup /\ PoolInv

\* The threads are finitely many.
LEMMA FiniteThreads ==
    /\ IsFiniteSet(Threads)
    /\ \A S \in SUBSET Threads : IsFiniteSet(S) /\ Cardinality(S) \in Nat
<1>1. IsFiniteSet(Threads)
  BY ThreadsAssumption, FS_AddElement DEF Threads
<1>2. QED
  BY <1>1, FS_Subset, FS_CardinalityType

\* A step that puts no thread to sleep and uses up no wake-up.
LEMMA WakeQuiet ==
    ASSUME NoLostWakeup, bExit => bExit', UNCHANGED queue,
           \A t \in Threads : /\ pc'[t] = "blocked" => pc[t] = "blocked"
                              /\ pc[t] = "woken" => pc'[t] = "woken"
    PROVE  NoLostWakeup'
<1> SUFFICES ASSUME ~bExit', NEW q \in Queues, Waiters(q)' # {}
             PROVE  Len(queue'[q]) <= Cardinality(Woken(q)')
  BY DEF NoLostWakeup
<1>1. Waiters(q) # {} /\ Woken(q) \subseteq Woken(q)'
  BY DEF Waiters, Woken
<1>2. /\ IsFiniteSet(Woken(q)')
      /\ Cardinality(Woken(q)) \in Nat /\ Cardinality(Woken(q)') \in Nat
  BY FiniteThreads DEF Woken
<1>3. Cardinality(Woken(q)) <= Cardinality(Woken(q)')
  BY <1>1, <1>2, FS_Subset
<1>4. Len(queue[q]) <= Cardinality(Woken(q))
  BY <1>1 DEF NoLostWakeup
<1>5. queue'[q] = queue[q]
  OBVIOUS
<1>6. QED
  BY <1>2, <1>3, <1>4, <1>5

\* An item less, and at most one woken thread less.
LEMMA WakeTake ==
    ASSUME TypeInv, NoLostWakeup, NEW t \in Threads, queue[QueueOf(t)] # <<>>, TakeItem(t),
           UNCHANGED bExit
    PROVE  NoLostWakeup'
<1> SUFFICES ASSUME ~bExit', NEW q \in Queues, Waiters(q)' # {}
             PROVE  Len(queue'[q]) <= Cardinality(Woken(q)')
  BY DEF NoLostWakeup
<1>1. /\ queue \in [Queues -> Seq(Conns)] /\ QueueOf(t) \in Queues
      /\ pc \in [Callers -> ThreadStates] /\ t \in Callers /\ Threads \subseteq Callers
  BY DEF TypeInv, TypeOK, QueueOf, Queues, Callers
<1>2. /\ Waiters(q) # {} /\ Woken(q)' = Woken(q) \ {t}
      /\ q # QueueOf(t) => t \notin Woken(q)
  BY <1>1 DEF Waiters, Woken, TakeItem, Goto
<1>3. IsFiniteSet(Woken(q)) /\ Cardinality(Woken(q)) \in Nat
  BY FiniteThreads DEF Woken
<1>4. Cardinality(Woken(q)') = IF t \in Woken(q) THEN Cardinality(Woken(q)) - 1
                                                 ELSE Cardinality(Woken(q))
  BY <1>2, <1>3, FS_RemoveElement
<1>5. Len(queue[q]) <= Cardinality(Woken(q)) /\ Len(queue[q]) \in Nat
  BY <1>1, <1>2 DEF NoLostWakeup, TakeItem
<1>6. CASE q = QueueOf(t)
  <2>1. queue'[q] = Tail(queue[q]) /\ queue[q] \in Seq(Conns) /\ queue[q] # <<>>
    BY <1>1, <1>6 DEF TakeItem
  <2>2. Len(queue'[q]) = Len(queue[q]) - 1
    BY <2>1
  <2>3. QED
    BY <1>3, <1>4, <1>5, <2>2
<1>7. CASE q # QueueOf(t)
  <2>1. queue'[q] = queue[q]
    BY <1>1, <1>7 DEF TakeItem
  <2>2. QED
    BY <1>2, <1>4, <1>5, <1>7, <2>1
<1>8. QED
  BY <1>6, <1>7

\* An item more, and a woken thread more if there is one to wake.
LEMMA WakeQueue ==
    ASSUME TypeInv, NoLostWakeup, NEW c \in Conns, QueueItem(c), UNCHANGED bExit
    PROVE  NoLostWakeup'
<1> SUFFICES ASSUME ~bExit', NEW q \in Queues, Waiters(q)' # {}
             PROVE  Len(queue'[q]) <= Cardinality(Woken(q)')
  BY DEF NoLostWakeup
<1>1. /\ queue \in [Queues -> Seq(Conns)] /\ QueueFor(c) \in Queues
      /\ pc \in [Callers -> ThreadStates] /\ Threads \subseteq Callers
  BY DEF TypeInv, TypeOK, QueueFor, Queues, Callers
<1>2. Waiters(q) # {}
  BY <1>1 DEF Waiters, QueueItem, Signal
<1>3. IsFiniteSet(Woken(q)) /\ Cardinality(Woken(q)) \in Nat
  BY FiniteThreads DEF Woken
<1>4. Len(queue[q]) <= Cardinality(Woken(q)) /\ Len(queue[q]) \in Nat
  BY <1>1, <1>2 DEF NoLostWakeup
<1>5. CASE q = QueueFor(c)
  <2>1. PICK t \in Waiters(q) : pc' = [pc EXCEPT ![t] = "woken"]
    BY <1>2, <1>5 DEF QueueItem, Signal
  <2>2. Woken(q)' = Woken(q) \cup {t} /\ t \notin Woken(q)
    BY <1>1, <2>1 DEF Waiters, Woken
  <2>3. Cardinality(Woken(q)') = Cardinality(Woken(q)) + 1
    BY <1>3, <2>2, FS_AddElement
  <2>4. queue'[q] = Append(queue[q], c) /\ queue[q] \in Seq(Conns)
    BY <1>1, <1>5 DEF QueueItem
  <2>5. Len(queue'[q]) = Len(queue[q]) + 1
    BY <2>4
  <2>6. QED
    BY <1>3, <1>4, <2>3, <2>5
<1>6. CASE q # QueueFor(c)
  <2>1. queue'[q] = queue[q]
    BY <1>1, <1>6 DEF QueueItem
  <2>2. Woken(q)' = Woken(q)
    BY <1>1, <1>6 DEF QueueItem, Signal, Waiters, Woken
  <2>3. QED
    BY <1>4, <2>1, <2>2
<1>7. QED
  BY <1>5, <1>6

\* A thread whose queue is empty may go where it likes.
LEMMA WakeEmpty ==
    ASSUME TypeInv, NoLostWakeup, NEW t \in Threads, NEW where, Goto(t, where),
           queue[QueueOf(t)] = <<>> \/ bExit, UNCHANGED <<queue, bExit>>
    PROVE  NoLostWakeup'
<1> SUFFICES ASSUME ~bExit', NEW q \in Queues, Waiters(q)' # {}
             PROVE  Len(queue'[q]) <= Cardinality(Woken(q)')
  BY DEF NoLostWakeup
<1>1. pc \in [Callers -> ThreadStates] /\ t \in Callers /\ Threads \subseteq Callers
  BY DEF TypeInv, TypeOK, Callers
<1>2. CASE q = QueueOf(t)
  <2>1. queue'[q] = <<>>
    BY <1>2
  <2>2. Cardinality(Woken(q)') \in Nat
    BY FiniteThreads DEF Woken
  <2>3. Len(queue'[q]) = 0
    BY <2>1
  <2>4. QED
    BY <2>2, <2>3
<1>3. CASE q # QueueOf(t)
  <2>1. Waiters(q)' = Waiters(q) /\ Woken(q)' = Woken(q)
    BY <1>1, <1>3 DEF Waiters, Woken, Goto
  <2>2. QED
    BY <2>1 DEF NoLostWakeup
<1>4. QED
  BY <1>2, <1>3

\* A worker or notifier goes to sleep on an empty queue only, or leaves a wake-up behind.
LEMMA WakeCaller ==
    ASSUME TypeInv, NoLostWakeup, NEW t \in Callers,
           \/ t \in Threads /\ (WorkerStep(t) \/ SpuriousWakeup(t))
           \/ t \in Notifiers /\ NotifierStep(t)
    PROVE  NoLostWakeup'
<1> USE DEF ctlVars, exitVars, connVars
<1>1. CASE /\ t \in Threads
           /\ GetNextNoWait(t) \/ GetNextWait(t) \/ GetNextWoken(t)
  <2>1. CASE queue[QueueOf(t)] # <<>> /\ TakeItem(t)
    BY <1>1, <2>1, WakeTake DEF GetNextNoWait, GetNextWait, GetNextWoken
  <2>2. CASE /\ queue[QueueOf(t)] = <<>> \/ bExit
             /\ UNCHANGED queue /\ \E where : Goto(t, where)
    BY <1>1, <2>2, WakeEmpty DEF GetNextNoWait, GetNextWait, GetNextWoken
  <2>3. QED
    BY <1>1, <2>1, <2>2 DEF GetNextNoWait, GetNextWait, GetNextWoken
<1>2. CASE \/ t \in Threads /\ (NotifyIdle(t) \/ SpuriousWakeup(t) \/ Serve(t) \/ Defer(t))
           \/ t \in Notifiers /\ \E c \in Conns : NotifierReply(t, c)
           \/ DoneStep(t)
  <2>1. \A s \in Threads : /\ pc'[s] = "blocked" => pc[s] = "blocked"
                           /\ pc[s] = "woken" => pc'[s] = "woken"
    BY <1>2 DEF NotifyIdle, SpuriousWakeup, Serve, Defer, NotifierReply, DoneStep, NotifyDone,
                NotifyDoneInsert, NotifyRestart, Resume, Goto, TypeInv, TypeOK, Callers
  <2>2. UNCHANGED <<queue, bExit>>
    BY <1>2 DEF NotifyIdle, SpuriousWakeup, Serve, Defer, NotifierReply, DoneStep, NotifyDone,
                NotifyDoneInsert, NotifyRestart
  <2>3. QED
    BY <2>1, <2>2, WakeQuiet
<1>3. QED
  BY <1>1, <1>2 DEF WorkerStep, NotifierStep

\* A queued request has somebody awake or about to wake, over all steps.
LEMMA WakeStep ==
    ASSUME TypeInv, LifeInv, NoLostWakeup, [Next]_vars
    PROVE  NoLostWakeup'
<1> USE DEF ctlVars, exitVars, connVars, threadVars
<1> DEFINE Quiet == \A t \in Threads : /\ pc'[t] = "blocked" => pc[t] = "blocked"
                                       /\ pc[t] = "woken" => pc'[t] = "woken"
<1>1. CASE \/ Clients \/ WatchDogCheck \/ SigTerm \/ SigQuit \/ Terminated \/ UNCHANGED vars
           \/ MainTop \/ MainWait \/ MainBatchDone \/ MainDelWatchDog \/ MainJoinWatchDog
           \/ MainDelManager \/ MainJoinPrio \/ MainCloseAll \/ MainReturned
  <2>1. UNCHANGED <<queue, pc>> /\ (bExit => bExit')
    BY <1>1 DEF Clients, ClientConnect, ClientSend, ClientClose, WatchDogCheck, SigTerm, SigQuit,
                Terminated, vars, MainTop, MainWait, MainBatchDone, MainDelWatchDog,
                MainJoinWatchDog, MainDelManager, MainJoinPrio, MainCloseAll, MainReturned
  <2>2. QED
    BY <2>1, WakeQuiet
<1>2. CASE MainHandle
  <2>1. PICK c \in Conns, kind \in {"in", "hup"} :
            MainAccept(c) \/ MainQueue(c, kind) \/ MainHangup(c, kind)
    BY <1>2 DEF MainHandle
  <2>2. CASE MainAccept(c) \/ MainHangup(c, kind)
    BY <2>2, WakeQuiet DEF MainAccept, MainHangup
  <2>3. CASE MainQueue(c, kind)
    BY <2>3, WakeQueue DEF MainQueue
  <2>4. QED
    BY <2>1, <2>2, <2>3
<1>3. CASE MainDrain
  <2>1. bExit'
    BY <1>3 DEF MainDrain, LifeInv, Serving
  <2>2. QED
    BY <2>1 DEF NoLostWakeup
<1>4. CASE \/ MainStart \/ MainSetZero \/ MainBroadcast \/ SigHupBroadcast \/ WatchDogAdd
           \/ \E n \in ThreadSettings : SigHup(n)
  <2>1. Quiet
    <3>1. CASE MainStart
      BY <3>1, ThreadsAssumption DEF MainStart, LifeInv, ListIsPool, Threads, Callers
    <3>2. CASE (\E S \in SUBSET FreeWorkers : StartThreads(S)) \/ UNCHANGED pc
      BY <3>2 DEF StartThreads, FreeWorkers, Threads, Callers
    <3>3. CASE \E qs : Broadcast(qs)
      BY <3>3 DEF Broadcast, Callers
    <3>4. CASE MainSetZero \/ \E n \in ThreadSettings : SigHup(n)
      BY <3>2, <3>4 DEF MainSetZero, SigHup, SetThreadCount
    <3>5. CASE WatchDogAdd
      BY <3>2, <3>5 DEF WatchDogAdd
    <3>6. QED
      BY <1>4, <3>1, <3>3, <3>4, <3>5 DEF MainBroadcast, SigHupBroadcast
  <2>2. UNCHANGED <<queue, bExit>>
    BY <1>4 DEF MainStart, MainSetZero, MainBroadcast, SigHupBroadcast, WatchDogAdd, SigHup
  <2>3. QED
    BY <2>1, <2>2, WakeQuiet
<1>5. CASE \E t \in Threads : WorkerStep(t) \/ SpuriousWakeup(t)
  BY <1>5, WakeCaller DEF Callers
<1>6. CASE \E n \in Notifiers : NotifierStep(n)
  BY <1>6, WakeCaller DEF Callers
<1>7. QED
  BY <1>1, <1>2, <1>3, <1>4, <1>5, <1>6 DEF Next, MainStep, WatchDogStep, Signals

\* A pool that grows, or loses nobody, has somebody.
LEMMA PoolKept ==
    ASSUME PoolInv, bExit => bExit', manager' = "running" => manager = "running",
           ulThreads' = ulThreads \/ ulThreads' > 0, lstThreads \subseteq lstThreads',
           pc[PrioWorker] # "off" => pc'[PrioWorker] # "off"
    PROVE  PoolInv'
BY DEF PoolInv

\* NotifyIdle lets a worker go only if more are left than are wanted.
LEMMA PoolIdle ==
    ASSUME TypeInv, LifeInv, PoolInv, NEW t \in Threads, NotifyIdle(t)
    PROVE  PoolInv'
<1> USE DEF ctlVars, exitVars
<1> SUFFICES ASSUME manager = "running", ~bExit
             PROVE  ulThreads' > 0 /\ lstThreads' # {} /\ pc'[PrioWorker] # "off"
  BY DEF NotifyIdle, PoolInv, TypeInv, TypeOK
<1>1. ulThreads > 0 /\ lstThreads # {} /\ pc[PrioWorker] # "off" /\ ulThreads \in Nat
  BY DEF PoolInv, TypeInv, TypeOK
<1>2. CASE t = PrioWorker
  <2>1. ulThreads # 0 /\ t \notin lstThreads
    BY <1>1, <1>2, ThreadsAssumption DEF TypeInv, TypeOK
  <2>2. QED
    BY <1>1, <1>2, <2>1 DEF NotifyIdle, Goto, TypeInv, TypeOK, Callers, Threads
<1>3. CASE t # PrioWorker
  <2>1. IsFiniteSet(lstThreads) /\ Cardinality(lstThreads) \in Nat
    BY FiniteThreads DEF TypeInv, TypeOK, Threads
  <2>2. ulThreads' = ulThreads /\ pc'[PrioWorker] = pc[PrioWorker]
    BY <1>3 DEF NotifyIdle, Goto, TypeInv, TypeOK, Callers, Threads
  <2>3. CASE ulThreads < Cardinality(lstThreads)
    <3>1. lstThreads' = lstThreads \ {t}
      BY <1>3, <2>3 DEF NotifyIdle
    <3>2. IsFiniteSet(lstThreads') /\ Cardinality(lstThreads') >= Cardinality(lstThreads) - 1
      BY <2>1, <3>1, FS_RemoveElement
    <3>3. Cardinality(lstThreads') # 0
      BY <1>1, <2>1, <2>3, <3>2
    <3>4. lstThreads' # {}
      BY <3>3, FS_EmptySet
    <3>5. QED
      BY <1>1, <2>2, <3>4
  <2>4. CASE ~(ulThreads < Cardinality(lstThreads))
    BY <1>1, <1>3, <2>2, <2>4 DEF NotifyIdle
  <2>5. QED
    BY <2>3, <2>4
<1>4. QED
  BY <1>2, <1>3

\* A worker and the priority worker are there while the server runs, over all steps.
LEMMA PoolStep ==
    ASSUME TypeInv, LifeInv, PoolInv, [Next]_vars
    PROVE  PoolInv'
<1> USE DEF ctlVars, exitVars, connVars, threadVars
<1>0. PrioWorker \in Threads /\ PrioWorker \in Callers /\ PrioWorker \notin Workers
  BY ThreadsAssumption DEF Threads, Callers
<1>1. CASE MainStart
  <2>1. PICK S \in SUBSET Workers :
            /\ Cardinality(S) = InitialThreads /\ lstThreads' = S
            /\ pc' = [t \in Callers |-> IF t \in S \cup {PrioWorker} THEN "get" ELSE pc[t]]
    BY <1>1 DEF MainStart
  <2>2. S # {}
    BY <2>1, SettingsAssumption, FS_EmptySet
  <2>3. QED
    BY <1>0, <1>1, <2>1, <2>2 DEF MainStart, PoolInv
<1>2. CASE MainSetZero
  <2>1. bExit'
    BY <1>2 DEF MainSetZero, LifeInv, Serving
  <2>2. QED
    BY <2>1 DEF PoolInv
<1>3. CASE \E n \in ThreadSettings : SigHup(n)
  <2>1. PICK n \in ThreadSettings : SigHup(n)
    BY <1>3
  <2>2. n > 0
    BY SettingsAssumption
  <2>3. CASE SetThreadCount(n) /\ UNCHANGED manager
    <3>1. ulThreads' > 0 /\ lstThreads \subseteq lstThreads' /\ pc'[PrioWorker] = pc[PrioWorker]
      BY <1>0, <2>2, <2>3 DEF SetThreadCount, StartThreads, FreeWorkers
    <3>2. QED
      BY <2>1, <2>3, <3>1, PoolKept DEF SigHup
  <2>4. CASE manager \in {"uninit", "wild"} /\ manager' \in {manager, "wild"}
    BY <2>1, <2>4 DEF SigHup, PoolInv
  <2>5. QED
    BY <2>1, <2>3, <2>4 DEF SigHup
<1>4. CASE WatchDogAdd
  <2>1. lstThreads \subseteq lstThreads' /\ pc'[PrioWorker] = pc[PrioWorker]
    BY <1>0, <1>4 DEF WatchDogAdd, StartThreads, FreeWorkers
  <2>2. QED
    BY <1>4, <2>1, PoolKept DEF WatchDogAdd
<1>5. CASE \E t \in Threads : NotifyIdle(t)
  BY <1>5, PoolIdle
<1>6. CASE MainBroadcast \/ SigHupBroadcast
  <2>1. pc'[PrioWorker] = "off" <=> pc[PrioWorker] = "off"
    BY <1>0, <1>6, BroadcastLife DEF MainBroadcast, SigHupBroadcast
  <2>2. QED
    BY <1>6, <2>1, PoolKept DEF MainBroadcast, SigHupBroadcast
<1>7. CASE MainHandle
  <2>1. pc[PrioWorker] # "off" => pc'[PrioWorker] # "off"
    BY <1>0, <1>7 DEF MainHandle, MainAccept, MainQueue, MainHangup, QueueItem, Signal, Waiters,
                      TypeInv, TypeOK
  <2>2. QED
    BY <1>7, <2>1, PoolKept DEF MainHandle, MainAccept, MainQueue, MainHangup
<1>8. CASE \/ Clients \/ WatchDogCheck \/ SigTerm \/ SigQuit \/ Terminated \/ UNCHANGED vars
           \/ MainTop \/ MainWait \/ MainBatchDone \/ MainDelWatchDog \/ MainJoinWatchDog
           \/ MainDelManager \/ MainJoinPrio \/ MainDrain \/ MainCloseAll \/ MainReturned
  <2>1. /\ UNCHANGED <<lstThreads, ulThreads, pc>> /\ (bExit => bExit')
        /\ manager' = "running" => manager = "running"
    BY <1>8 DEF Clients, ClientConnect, ClientSend, ClientClose, WatchDogCheck, SigTerm, SigQuit,
                Terminated, vars, MainTop, MainWait, MainBatchDone, MainDelWatchDog,
                MainJoinWatchDog, MainDelManager, MainJoinPrio, MainDrain, MainCloseAll,
                MainReturned
  <2>2. QED
    BY <2>1, PoolKept
<1>9. ASSUME NEW t \in Callers,
             \/ /\ t \in Threads
                /\ \/ GetNextNoWait(t) \/ GetNextWait(t) \/ GetNextWoken(t)
                   \/ SpuriousWakeup(t) \/ Serve(t) \/ Defer(t)
             \/ \E c \in Conns : NotifierReply(t, c)
             \/ DoneStep(t)
      PROVE  PoolInv'
  <2>1. \E where : where # "off" /\ Goto(t, where)
    BY <1>9 DEF GetNextNoWait, GetNextWait, GetNextWoken, TakeItem, SpuriousWakeup, Serve, Defer,
                NotifierReply, DoneStep, NotifyDone, NotifyDoneInsert, NotifyRestart, Resume
  <2>2. pc[PrioWorker] # "off" => pc'[PrioWorker] # "off"
    BY <1>0, <2>1 DEF Goto, TypeInv, TypeOK
  <2>3. UNCHANGED <<lstThreads, ulThreads, manager, bExit>>
    BY <1>9 DEF GetNextNoWait, GetNextWait, GetNextWoken, SpuriousWakeup, Serve, Defer,
                NotifierReply, DoneStep, NotifyDone, NotifyDoneInsert, NotifyRestart
  <2>4. QED
    BY <2>2, <2>3, PoolKept
<1>10. QED
  BY <1>1, <1>2, <1>3, <1>4, <1>5, <1>6, <1>7, <1>8, <1>9
     DEF Next, MainStep, WatchDogStep, Signals, WorkerStep, NotifierStep, Callers

\* If a thread of the queue sleeps there is a woken one for the item; if none does, the one
\* that is there is awake.
LEMMA SomebodyTakes == TypeInv /\ LifeInv /\ NoLostWakeup /\ PoolInv => ItemHasTaker
<1> SUFFICES ASSUME TypeInv, LifeInv, NoLostWakeup, PoolInv, manager = "running", ~bExit,
                    NEW q \in Queues, queue[q] # <<>>
             PROVE  \E t \in Threads : QueueOf(t) = q /\ pc[t] \notin {"off", "blocked"}
  BY DEF ItemHasTaker
<1>1. CASE Waiters(q) # {}
  <2>1. Len(queue[q]) <= Cardinality(Woken(q)) /\ Len(queue[q]) \in Nat /\ Len(queue[q]) # 0
    BY <1>1 DEF NoLostWakeup, TypeInv, TypeOK
  <2>2. Woken(q) # {}
    <3>1. Cardinality({}) = 0
      BY FS_EmptySet
    <3>2. Woken(q) = {} => Cardinality(Woken(q)) = 0
      BY <3>1
    <3>3. QED
      BY <2>1, <3>2
  <2>3. QED
    BY <2>2 DEF Woken
<1>2. CASE Waiters(q) = {}
  <2>1. PICK t \in Threads : QueueOf(t) = q /\ pc[t] # "off"
    <3>1. PICK w \in lstThreads : w \in Workers /\ pc[w] # "off"
      BY DEF PoolInv, LifeInv, ListIsPool, TypeInv, TypeOK
    <3>2. QueueOf(w) = "normal" /\ QueueOf(PrioWorker) = "prio" /\ pc[PrioWorker] # "off"
      BY <3>1, ThreadsAssumption DEF QueueOf, PoolInv
    <3>3. QED
      BY <3>1, <3>2 DEF Threads, Queues
  <2>2. QED
    BY <1>2, <2>1 DEF Waiters
<1>3. QED
  BY <1>1, <1>2

\* QueueItem signals once, GetNextWorkItem waits once and NotifyIdle lets threads go: still
\* no request is left in a queue with every thread of it asleep or gone.
THEOREM QueuedRequestsAreTaken == Spec => []RequestsAreTaken
<1>1. Init => NoLostWakeup /\ PoolInv
  <2> SUFFICES ASSUME Init PROVE NoLostWakeup /\ PoolInv
    OBVIOUS
  <2>1. \A q \in Queues : Waiters(q) = {}
    BY DEF Init, Waiters, Callers
  <2>2. InitialThreads > 0
    BY SettingsAssumption
  <2>3. QED
    BY <2>1, <2>2 DEF Init, NoLostWakeup, PoolInv
<1>2. OwnerInv /\ LifeInv /\ NoLostWakeup /\ PoolInv /\ [Next]_vars => (NoLostWakeup /\ PoolInv)'
  BY WakeStep, PoolStep DEF OwnerInv
<1>3. OwnerInv /\ LifeInv /\ NoLostWakeup /\ PoolInv => RequestsAreTaken
  BY SomebodyTakes DEF OwnerInv, RequestsAreTaken
<1>4. QED
  BY <1>1, <1>2, <1>3, OwnersInvariant, PTL DEF Spec

-------------------------------------------------------------------------------
(* The size of the pool.                                                   *)

\* Workers that NotifyIdle has let pass and that have found nothing to do since.
Resting == {w \in Workers : pc[w] \in {"wait", "blocked"}}

RestInv == ~bExit => ulThreads = InitialThreads /\ Cardinality(Resting) <= ulThreads

\* Fewer resting threads do no harm.
LEMMA RestKept ==
    ASSUME RestInv, bExit => bExit', ulThreads' = ulThreads, Resting' \subseteq Resting
    PROVE  RestInv'
<1>1. Resting \subseteq Threads
  BY DEF Resting, Threads
<1>2. /\ IsFiniteSet(Resting) /\ Cardinality(Resting) \in Nat
      /\ Cardinality(Resting') \in Nat
  BY <1>1, FiniteThreads
<1>3. Cardinality(Resting') <= Cardinality(Resting)
  BY <1>2, FS_Subset
<1>4. QED
  BY <1>2, <1>3, SettingsAssumption DEF RestInv

\* With one setting of threads, no more than that come to rest, over all steps.
LEMMA RestStep ==
    ASSUME ThreadSettings \subseteq {InitialThreads}, TypeInv, LifeInv, RestInv, [Next]_vars
    PROVE  RestInv'
<1> USE DEF ctlVars, exitVars, connVars, threadVars
<1>1. CASE \E t \in Threads : NotifyIdle(t)
  <2>1. PICK t \in Threads : NotifyIdle(t)
    BY <1>1
  <2>2. CASE t = PrioWorker \/ pc'[t] = "off"
    <3>1. Resting' \subseteq Resting
      BY <2>1, <2>2, ThreadsAssumption DEF NotifyIdle, Goto, Resting, TypeInv, TypeOK, Callers,
                                           Threads
    <3>2. QED
      BY <2>1, <3>1, RestKept DEF NotifyIdle
  <2>3. CASE t # PrioWorker /\ pc'[t] # "off"
    <3>1. ~(ulThreads < Cardinality(lstThreads)) /\ lstThreads' = lstThreads
      BY <2>1, <2>3 DEF NotifyIdle, Goto, TypeInv, TypeOK, Callers
    <3>2. LifeInv'
      BY LifeStep
    <3>3. Resting' \subseteq lstThreads
      BY <3>1, <3>2 DEF LifeInv, ListIsPool, Resting
    <3>4. IsFiniteSet(lstThreads) /\ Cardinality(lstThreads) \in Nat
      BY FiniteThreads DEF TypeInv, TypeOK, Threads
    <3>5. /\ Cardinality(Resting') <= Cardinality(lstThreads)
          /\ Cardinality(Resting') \in Nat
      BY <3>3, <3>4, FS_Subset, FS_CardinalityType
    <3>6. QED
      BY <2>1, <3>1, <3>4, <3>5 DEF RestInv, NotifyIdle, TypeInv, TypeOK
  <2>4. QED
    BY <2>2, <2>3
<1>2. CASE \E n \in ThreadSettings : SigHup(n)
  <2>1. Resting' \subseteq Resting
    BY <1>2 DEF SigHup, SetThreadCount, StartThreads, Resting, Callers, Threads
  <2>2. PICK n \in ThreadSettings : SigHup(n)
    BY <1>2
  <2>3. ~bExit /\ ulThreads' = ulThreads
    BY <2>2 DEF SigHup, SetThreadCount, LifeInv, RestInv
  <2>4. QED
    BY <2>1, <2>2, <2>3, RestKept DEF SigHup
<1>3. CASE MainSetZero
  <2>1. bExit'
    BY <1>3 DEF MainSetZero, LifeInv, Serving
  <2>2. QED
    BY <2>1 DEF RestInv
<1>4. CASE MainStart \/ MainBroadcast \/ SigHupBroadcast \/ WatchDogAdd \/ MainHandle
  <2>1. Resting' \subseteq Resting
    BY <1>4 DEF MainStart, MainBroadcast, SigHupBroadcast, WatchDogAdd, StartThreads, Broadcast,
                MainHandle, MainAccept, MainQueue, MainHangup, QueueItem, Signal, Waiters, Resting,
                TypeInv, TypeOK, Callers, Threads
  <2>2. UNCHANGED <<ulThreads, bExit>>
    BY <1>4 DEF MainStart, MainBroadcast, SigHupBroadcast, WatchDogAdd, MainHandle, MainAccept,
                MainQueue, MainHangup
  <2>3. QED
    BY <2>1, <2>2, RestKept
<1>5. CASE \/ Clients \/ WatchDogCheck \/ SigTerm \/ SigQuit \/ Terminated \/ UNCHANGED vars
           \/ MainTop \/ MainWait \/ MainBatchDone \/ MainDelWatchDog \/ MainJoinWatchDog
           \/ MainDelManager \/ MainJoinPrio \/ MainDrain \/ MainCloseAll \/ MainReturned
  <2>1. UNCHANGED <<ulThreads, pc>> /\ (bExit => bExit')
    BY <1>5 DEF Clients, ClientConnect, ClientSend, ClientClose, WatchDogCheck, SigTerm, SigQuit,
                Terminated, vars, MainTop, MainWait, MainBatchDone, MainDelWatchDog,
                MainJoinWatchDog, MainDelManager, MainJoinPrio, MainDrain, MainCloseAll,
                MainReturned
  <2>2. QED
    BY <2>1, RestKept DEF Resting
<1>6. ASSUME NEW t \in Callers,
             \/ /\ t \in Threads
                /\ \/ GetNextNoWait(t) \/ GetNextWait(t) \/ GetNextWoken(t)
                   \/ SpuriousWakeup(t) \/ Serve(t) \/ Defer(t)
             \/ \E c \in Conns : NotifierReply(t, c)
             \/ DoneStep(t)
      PROVE  RestInv'
  <2>1. PICK where : Goto(t, where) /\ (where \notin {"wait", "blocked"} \/ pc[t] = "wait")
    BY <1>6 DEF GetNextNoWait, GetNextWait, GetNextWoken, TakeItem, SpuriousWakeup, Serve, Defer,
                NotifierReply, DoneStep, NotifyDone, NotifyDoneInsert, NotifyRestart, Resume
  <2>2. Resting' \subseteq Resting
    BY <2>1 DEF Goto, TypeInv, TypeOK, Resting, Callers, Threads
  <2>3. UNCHANGED <<ulThreads, bExit>>
    BY <1>6 DEF GetNextNoWait, GetNextWait, GetNextWoken, SpuriousWakeup, Serve, Defer,
                NotifierReply, DoneStep, NotifyDone, NotifyDoneInsert, NotifyRestart
  <2>4. QED
    BY <2>2, <2>3, RestKept
<1>7. QED
  BY <1>1, <1>2, <1>3, <1>4, <1>5, <1>6
     DEF Next, MainStep, WatchDogStep, Signals, WorkerStep, NotifierStep, Callers

\* However many threads the watchdog has added, those that go to sleep again are not more
\* than the setting wants.  (A SIGHUP that lowers the setting is another matter: a worker
\* between NotifyIdle and its wait does not hear of it.)
THEOREM AddedThreadsLeave ==
    ASSUME ThreadSettings \subseteq {InitialThreads}
    PROVE  Spec => []PoolShrinksBack
<1>1. Init => RestInv
  <2> SUFFICES ASSUME Init PROVE RestInv
    OBVIOUS
  <2>1. Resting = {}
    BY DEF Init, Resting, Callers, Threads
  <2>2. QED
    BY <2>1, FS_EmptySet, SettingsAssumption DEF Init, RestInv
<1>2. OwnerInv /\ LifeInv /\ RestInv /\ [Next]_vars => RestInv'
  BY RestStep DEF OwnerInv
<1>3. OwnerInv /\ LifeInv /\ RestInv => PoolShrinksBack
  <2> SUFFICES ASSUME OwnerInv, RestInv, ~bExit, \A w \in lstThreads : pc[w] = "blocked"
               PROVE  Cardinality(lstThreads) <= ulThreads
    BY DEF PoolShrinksBack
  <2>1. lstThreads \subseteq Resting /\ Resting \subseteq Threads
    BY DEF OwnerInv, TypeInv, TypeOK, Resting, Threads
  <2>2. /\ IsFiniteSet(Resting) /\ Cardinality(Resting) \in Nat
        /\ Cardinality(lstThreads) \in Nat
    BY <2>1, FiniteThreads
  <2>3. Cardinality(lstThreads) <= Cardinality(Resting)
    BY <2>1, <2>2, FS_Subset
  <2>4. QED
    BY <2>2, <2>3, SettingsAssumption DEF RestInv
<1>4. QED
  BY <1>1, <1>2, <1>3, OwnersInvariant, PTL DEF Spec

===============================================================================
