-------------------------- MODULE NotificationManager --------------------------
(***************************************************************************)
(* ECNotificationManager: long-poll requests for notifications.            *)
(*                                                                         *)
(* ns__notifyGetItems hands the connection of a client to the manager,     *)
(* which keeps one request per session.  Its thread answers a request when *)
(* the session group has notifications, when the session has ended, or     *)
(* after a timeout, and passes the connection back to the dispatcher.      *)
(* Whoever changes something marks the session in m_setActiveSessions; the *)
(* thread works through copies of that set.                                *)
(***************************************************************************)
EXTENDS Integers, FiniteSets

CONSTANTS
    Sessions,    \* session ids
    Groups,      \* session groups
    GroupOf,     \* GroupOf[s]: the group that s is in
    Conns,       \* client connections (struct soap)
    NoConn,      \* no connection
    NoSession,   \* no session
    Timeout,     \* m_ulTimeout, in ticks of a second
    MayStop      \* whether the server is ever told to stop

ASSUME SessionsAssumption ==
    GroupOf \in [Sessions -> Groups] /\ NoSession \notin Sessions /\ NoConn \notin Conns
ASSUME TimeoutAssumption == Timeout \in Nat \ {0} /\ MayStop \in BOOLEAN

VARIABLES
    alive,      \* m_mapSessions: sessions that can be validated
    ending,     \* sessions off the map whose NotifyChange in RemoveSession is still to come
    list,       \* groups whose m_listNotification is not empty
    posting,    \* groups where AddNotification is between its two halves
    toNotify,   \* sessions that some thread is about to call NotifyChange for
    handler,    \* handler[c]: session validated by the ns__notifyGetItems running on c
    requests,   \* m_mapRequests
    age,        \* time since ulRequestTime, per session with a request
    active,     \* m_setActiveSessions
    batch,      \* the thread's copy of it, still to be looked at
    nm,         \* the thread: where it is, session, validity and connection at hand
    waited,     \* a second has passed in this round of the thread's loop
    server      \* progress of the shutdown in main()

vars == <<alive, ending, list, posting, toNotify, handler, requests, age, active, batch,
          nm, waited, server>>
sessVars   == <<alive, ending, list, posting>>
threadVars == <<batch, nm, waited>>

NMStates     == {"top", "wait", "process", "reply", "handback", "exited"}
ServerStates == {"run", "stopped", "noDispatcher", "locked", "exiting", "gone"}

TypeOK ==
    /\ alive \subseteq Sessions /\ ending \subseteq Sessions
    /\ list \subseteq Groups /\ posting \subseteq Groups
    /\ toNotify \subseteq Sessions
    /\ handler \in [Conns -> Sessions \cup {NoSession}]
    /\ requests \in [Sessions -> Conns \cup {NoConn}]
    /\ age \in [Sessions -> Nat]
    /\ active \subseteq Sessions /\ batch \subseteq Sessions
    /\ nm \in [at : NMStates, session : Sessions \cup {NoSession}, valid : BOOLEAN,
               item : Conns \cup {NoConn}]
    /\ waited \in BOOLEAN
    /\ server \in ServerStates

Resting == [at |-> "top", session |-> NoSession, valid |-> FALSE, item |-> NoConn]

Init ==
    /\ alive = {} /\ ending = {} /\ list = {} /\ posting = {} /\ toNotify = {}
    /\ handler = [c \in Conns |-> NoSession]
    /\ requests = [s \in Sessions |-> NoConn]
    /\ age = [s \in Sessions |-> 0]
    /\ active = {} /\ batch = {} /\ nm = Resting /\ waited = FALSE /\ server = "run"

\* The dispatcher has the connection: it can bring the next request.
WithDispatcher(c) ==
    handler[c] = NoSession /\ nm.item # c /\ \A s \in Sessions : requests[s] # c

-------------------------------------------------------------------------------
(* Sessions and notifications.                                             *)

Logon(s) ==
    /\ server = "run" /\ s \notin alive \cup ending /\ requests[s] = NoConn
    /\ \A c \in Conns : handler[c] # s
    /\ alive' = alive \cup {s}
    /\ UNCHANGED <<ending, list, posting, toNotify, handler, requests, age, active,
                   threadVars, server>>

\* RemoveSession: the session leaves the map ...
Logoff(s) ==
    /\ server = "run" /\ s \in alive
    /\ alive' = alive \ {s}
    /\ ending' = ending \cup {s}
    /\ UNCHANGED <<list, posting, toNotify, handler, requests, age, active,
                   threadVars, server>>

\* The thread holds a lock on the session it has validated.
LockedByThread(s) == nm.at = "reply" /\ nm.session = s /\ nm.valid

\* Mutant: RemoveSession does not tell the notification manager.
LogoffQuiet(s) ==
    /\ s \in ending /\ ~LockedByThread(s)
    /\ ending' = ending \ {s}
    /\ UNCHANGED <<alive, list, posting, toNotify, handler, requests, age, active,
                   threadVars, server>>

\* ... is deleted once nobody has it locked, and then NotifyChange is called.
LogoffNotify(s) ==
    /\ s \in ending /\ ~LockedByThread(s)
    /\ ending' = ending \ {s}
    /\ active' = active \cup {s}
    /\ UNCHANGED <<alive, list, posting, toNotify, handler, requests, age,
                   threadVars, server>>

\* SessionCleaner takes an idle session off the map and tells nobody.  A session with a
\* request is not idle: the least session timeout, five minutes, is longer than a request.
CleanSession(s) ==
    /\ server = "run" /\ s \in alive /\ requests[s] = NoConn
    /\ \A c \in Conns : handler[c] # s
    /\ alive' = alive \ {s}
    /\ UNCHANGED <<ending, list, posting, toNotify, handler, requests, age, active,
                   threadVars, server>>

\* CancelAllSessions marks every session but one and removes it, with the map locked.
CancelAllSessions(s) ==
    /\ server = "run" /\ s \in alive /\ alive # {s}
    /\ alive' = {s}
    /\ active' = active \cup (alive \ {s})
    /\ UNCHANGED <<ending, list, posting, toNotify, handler, requests, age, threadVars, server>>

\* AddNotification: notifications are appended for the subscribers in the group ...
AddNotification(g) ==
    /\ server = "run" /\ g \notin posting
    /\ list' = list \cup {g}
    /\ posting' = posting \cup {g}
    /\ UNCHANGED <<alive, ending, toNotify, handler, requests, age, active,
                   threadVars, server>>

\* ... and every session of the group is reported ready; one that is ending, only if it is
\* still in the group.
AddNotificationReady(g) ==
    /\ g \in posting
    /\ posting' = posting \ {g}
    /\ \E late \in SUBSET {s \in ending : GroupOf[s] = g} :
           toNotify' = toNotify \cup {s \in alive : GroupOf[s] = g} \cup late
    /\ UNCHANGED <<alive, ending, list, handler, requests, age, active,
                   threadVars, server>>

NotifyChange(s) ==
    /\ s \in toNotify
    /\ toNotify' = toNotify \ {s}
    /\ active' = active \cup {s}
    /\ UNCHANGED <<sessVars, handler, requests, age, threadVars, server>>

-------------------------------------------------------------------------------
(* Requests.                                                               *)

\* ns__notifyGetItems: only a valid session gets further; its lock is released at once.
GetItems(c, s) ==
    /\ server = "run" /\ WithDispatcher(c) /\ s \in alive
    /\ handler' = [handler EXCEPT ![c] = s]
    /\ UNCHANGED <<sessVars, toNotify, requests, age, active, threadVars, server>>

\* Mutant: the caller does not post a change for its own session.
AddRequestQuiet(c) ==
    /\ handler[c] # NoSession /\ nm.at # "reply"
    /\ requests' = [requests EXCEPT ![handler[c]] = c]
    /\ age' = [age EXCEPT ![handler[c]] = 0]
    /\ handler' = [handler EXCEPT ![c] = NoSession]
    /\ UNCHANGED <<sessVars, toNotify, active, threadVars, server>>

\* Mutant: the time of the request is rounded up to the next second.
AddRequestAhead(c) ==
    /\ handler[c] # NoSession /\ nm.at # "reply"
    /\ requests' = [requests EXCEPT ![handler[c]] = c]
    /\ age' = [age EXCEPT ![handler[c]] = -1]
    /\ toNotify' = toNotify \cup {handler[c]}
    /\ handler' = [handler EXCEPT ![c] = NoSession]
    /\ UNCHANGED <<sessVars, active, threadVars, server>>

\* Mutant: the newer request is dropped instead of the older one.
AddRequestKeepsOld(c) ==
    /\ handler[c] # NoSession /\ nm.at # "reply"
    /\ requests' = [requests EXCEPT ![handler[c]] = IF @ = NoConn THEN c ELSE @]
    /\ toNotify' = toNotify \cup {handler[c]}
    /\ UNCHANGED <<sessVars, handler, age, active, threadVars, server>>

\* AddRequest, under m_mutexRequests (which the thread holds while it works on a reply):
\* an older request of the session is answered with an error and its connection goes back
\* to the dispatcher.  Afterwards the caller posts a change for the session.
AddRequest(c) ==
    /\ handler[c] # NoSession /\ nm.at # "reply"
    /\ requests' = [requests EXCEPT ![handler[c]] = c]
    /\ age' = [age EXCEPT ![handler[c]] = 0]
    /\ toNotify' = toNotify \cup {handler[c]}
    /\ handler' = [handler EXCEPT ![c] = NoSession]
    /\ UNCHANGED <<sessVars, active, threadVars, server>>

-------------------------------------------------------------------------------
(* The thread: Work.                                                       *)

Go(where) == nm' = [Resting EXCEPT !.at = where]

Stopping == server \in {"exiting", "gone"}

\* Top of the loop, and the wait when nothing is marked.  The wait ends with the copy of
\* the set: because of a signal, after a second, or spuriously.
WorkTop ==
    /\ nm.at = "top"
    /\ \/ Stopping /\ Go("exited") /\ UNCHANGED <<active, batch>>
       \/ ~Stopping /\ active = {} /\ Go("wait") /\ UNCHANGED <<active, batch>>
       \/ ~Stopping /\ active # {} /\ Go("process") /\ batch' = active /\ active' = {}
    /\ UNCHANGED <<sessVars, toNotify, handler, requests, age, waited, server>>

WorkWoken ==
    /\ nm.at = "wait"
    /\ Go("process") /\ batch' = active /\ active' = {}
    /\ UNCHANGED <<sessVars, toNotify, handler, requests, age, waited, server>>

\* The session map can be read unless ~ECSessionManager has it locked.
MapReadable == server \notin {"locked", "exiting"}

\* The next marked session: without a request it is ignored, otherwise m_mutexRequests
\* stays held and the session is validated (and locked).
WorkLook(s) ==
    /\ nm.at = "process" /\ s \in batch
    /\ batch' = batch \ {s}
    /\ \/ requests[s] = NoConn /\ UNCHANGED nm
       \/ /\ requests[s] # NoConn /\ MapReadable
          /\ nm' = [nm EXCEPT !.at = "reply", !.session = s, !.valid = s \in alive]
    /\ UNCHANGED <<sessVars, toNotify, handler, requests, age, active, waited, server>>

\* The request of session s is answered and removed, its connection kept in lpItem.
Respond(s) ==
    /\ requests' = [requests EXCEPT ![s] = NoConn]
    /\ age' = [age EXCEPT ![s] = 0]
    /\ nm' = [Resting EXCEPT !.at = "handback", !.item = requests[s]]

\* Mutant: a session without notifications is never answered.
WorkReplyForEver ==
    /\ nm.at = "reply"
    /\ LET s == nm.session
           has == nm.valid /\ GroupOf[s] \in list
           wait == nm.valid /\ ~has
       IN  /\ IF wait THEN Go("process") /\ UNCHANGED <<requests, age>> ELSE Respond(s)
           /\ list' = IF has THEN list \ {GroupOf[s]} ELSE list
    /\ UNCHANGED <<alive, ending, posting, toNotify, handler, active, batch, waited, server>>

\* Mutant: the timeout is looked at after the notifications were taken, and the reply with
\* them is put off.
WorkReplyLosesNews ==
    /\ nm.at = "reply"
    /\ LET s == nm.session
           has == nm.valid /\ GroupOf[s] \in list
           wait == nm.valid /\ age[s] < Timeout
       IN  /\ IF wait THEN Go("process") /\ UNCHANGED <<requests, age>> ELSE Respond(s)
           /\ list' = IF has THEN list \ {GroupOf[s]} ELSE list
    /\ UNCHANGED <<alive, ending, posting, toNotify, handler, active, batch, waited, server>>

\* GetNotifyItems takes all notifications of the group.  With none the request stays until
\* it has waited for m_ulTimeout; a dead session is answered with ZARAFA_E_END_OF_SESSION.
WorkReply ==
    /\ nm.at = "reply"
    /\ LET s == nm.session
           has == nm.valid /\ GroupOf[s] \in list
           wait == nm.valid /\ ~has /\ age[s] < Timeout
       IN  /\ IF wait THEN Go("process") /\ UNCHANGED <<requests, age>> ELSE Respond(s)
           /\ list' = IF has THEN list \ {GroupOf[s]} ELSE list
    /\ UNCHANGED <<alive, ending, posting, toNotify, handler, active, batch, waited, server>>

\* zarafa_notify_done, outside the mutex.
WorkHandBack ==
    /\ nm.at = "handback"
    /\ Go("process")
    /\ UNCHANGED <<sessVars, toNotify, handler, requests, age, active, batch, waited, server>>

\* Mutant: requests are marked one second late.
WorkScanLate ==
    /\ nm.at = "process" /\ batch = {}
    /\ active' = active \cup {s \in Sessions : requests[s] # NoConn /\ age[s] > Timeout + 1}
    /\ Go("top")
    /\ waited' = FALSE
    /\ UNCHANGED <<sessVars, toNotify, handler, requests, age, batch, server>>

\* After the batch: requests that have waited for longer than m_ulTimeout are marked.
WorkScan ==
    /\ nm.at = "process" /\ batch = {}
    /\ active' = active \cup {s \in Sessions : requests[s] # NoConn /\ age[s] > Timeout}
    /\ Go("top")
    /\ waited' = FALSE
    /\ UNCHANGED <<sessVars, toNotify, handler, requests, age, batch, server>>

\* Ages above this bound are not told apart.
AgeCap == Timeout + 3

\* A second passes, in the timed wait or while the thread is at work.  One round of the
\* loop, whose wait is limited to a second, lasts a tick at the most.
Tick ==
    /\ nm.at # "exited" /\ ~waited /\ \E s \in Sessions : requests[s] # NoConn
    /\ waited' = TRUE
    /\ age' = [s \in Sessions |-> IF requests[s] = NoConn THEN 0
                                  ELSE IF age[s] < AgeCap THEN age[s] + 1 ELSE age[s]]
    /\ UNCHANGED <<sessVars, toNotify, handler, requests, active, batch, nm, server>>

-------------------------------------------------------------------------------
(* The shutdown, in main() and ~ECSessionManager.                          *)

\* MainLoop has returned, which means that no worker thread is left, and
\* RemoveAllSessions has emptied the session map (waking up nobody).
StopServer ==
    /\ MayStop /\ server = "run"
    /\ toNotify = {} /\ posting = {} /\ ending = {} /\ \A c \in Conns : handler[c] = NoSession
    /\ \A s \in Sessions : ~LockedByThread(s)
    /\ alive' = {}
    /\ server' = "stopped"
    /\ UNCHANGED <<ending, list, posting, toNotify, handler, requests, age, active, threadVars>>

\* delete g_lpSoapServerConn, and later ~ECSessionManager, which locks the session map
\* and only then deletes the notification manager.
ShutdownStep(from, to) ==
    /\ server = from
    /\ server' = to
    /\ UNCHANGED <<sessVars, toNotify, handler, requests, age, active, threadVars>>

DeleteDispatcher   == ShutdownStep("stopped", "noDispatcher")
LockSessions       == ShutdownStep("noDispatcher", "locked")
TellThreadToExit   == ShutdownStep("locked", "exiting")

\* pthread_join, then pending requests are closed and freed.
JoinThread ==
    /\ server = "exiting" /\ nm.at = "exited"
    /\ server' = "gone"
    /\ requests' = [s \in Sessions |-> NoConn]
    /\ UNCHANGED <<sessVars, toNotify, handler, age, active, threadVars>>

\* The thread waits for the session map, its lock for the thread.
ExitDeadlock ==
    /\ ~MapReadable /\ nm.at = "process"
    /\ batch # {} /\ \A s \in batch : requests[s] # NoConn

Terminated == (server = "gone" \/ ExitDeadlock) /\ UNCHANGED vars

-------------------------------------------------------------------------------
ThreadStep ==
    \/ WorkTop \/ WorkWoken \/ WorkReply \/ WorkHandBack \/ WorkScan
    \/ \E s \in Sessions : WorkLook(s)

CallStep ==
    \/ \E s \in Sessions : NotifyChange(s) \/ LogoffNotify(s)
    \/ \E g \in Groups : AddNotificationReady(g)
    \/ \E c \in Conns : AddRequest(c)

ShutdownSteps == DeleteDispatcher \/ LockSessions \/ TellThreadToExit \/ JoinThread

Next ==
    \/ ThreadStep \/ CallStep \/ Tick \/ StopServer \/ ShutdownSteps \/ Terminated
    \/ \E s \in Sessions : Logon(s) \/ Logoff(s) \/ CleanSession(s) \/ CancelAllSessions(s)
    \/ \E g \in Groups : AddNotification(g)
    \/ \E c \in Conns, s \in Sessions : GetItems(c, s)

Spec == Init /\ [][Next]_vars

\* The thread and the RPC handlers that are under way go on, the shutdown sequence too, and
\* time passes.  Clients and sessions may do nothing for ever.  AddRequest waits for a mutex
\* that the thread releases in between: strong fairness.
Fairness ==
    /\ WF_vars(ThreadStep) /\ WF_vars(Tick) /\ WF_vars(ShutdownSteps)
    /\ \A s \in Sessions : WF_vars(NotifyChange(s)) /\ WF_vars(LogoffNotify(s))
    /\ \A g \in Groups : WF_vars(AddNotificationReady(g))
    /\ \A c \in Conns : SF_vars(AddRequest(c))

FairSpec == Spec /\ Fairness

-------------------------------------------------------------------------------
(* Properties                                                              *)

\* A connection is kept for one session only, and is not at the same time with a handler or
\* in the thread's hands: nobody answers on a connection that somebody else already returned.
RequestHeldOnce ==
    /\ \A s, t \in Sessions : requests[s] = requests[t] /\ requests[s] # NoConn => s = t
    /\ \A s \in Sessions : requests[s] # NoConn =>
           handler[requests[s]] = NoSession /\ nm.item # requests[s]
    /\ nm.item # NoConn => handler[nm.item] = NoSession

\* The thread looks at session s again without anybody doing more.
WillLook(s) ==
    \/ s \in active \cup batch \cup toNotify
    \/ nm.at = "reply" /\ nm.session = s

\* A notification does not wait for the timeout: if the group of a live session has
\* notifications and the session a request, the thread is going to look at that session, or
\* the AddNotification that is under way will make it look.
NotificationWakesRequest ==
    \A s \in alive :
        requests[s] # NoConn /\ GroupOf[s] \in list =>
            WillLook(s) \/ GroupOf[s] \in posting

\* Neither does the end of a session: RemoveSession tells the thread after the session is
\* gone, CancelAllSessions before anybody can see that it is, so a client that waits for a
\* session that has ended is answered at once.
LogoffWakesRequest ==
    server = "run" =>
        \A s \in Sessions \ alive :
            requests[s] # NoConn => WillLook(s) \/ s \in ending

\* "We need to respond well within those 70 seconds": however the wake-ups fall, a request
\* is answered two seconds (one round to mark it, one to reply) after the timeout at the
\* latest, unless the thread is being stopped.
AnsweredInTime ==
    MapReadable => \A s \in Sessions : requests[s] # NoConn => age[s] <= Timeout + 2

\* "Close and free any pending requests (clients will receive EOF)": the destructor gets
\* there.
ManagerIsDeleted == server = "locked" ~> server = "gone"

===============================================================================
