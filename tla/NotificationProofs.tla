-------------------------- MODULE NotificationProofs --------------------------
(***************************************************************************)
(* No notification and no end of a session is missed by a client that      *)
(* waits, no connection is held twice, no client waits for much longer     *)
(* than the timeout, and the manager implements LongPoll; for any number   *)
(* of sessions, groups and connections and any timeout.                    *)
(***************************************************************************)
EXTENDS NotificationRefinement, TLAPS

\* Where the thread is tells what it holds: no batch is left when it copies a new one, a
\* connection only while it is handed back, a request while it works on a reply; and a
\* session that ends while the thread has it locked is still to be reported.
ThreadShape ==
    /\ nm.at \in {"top", "wait", "exited"} => batch = {}
    /\ nm.item # NoConn => nm.at = "handback"
    /\ nm.at = "reply" => nm.session \in Sessions /\ requests[nm.session] # NoConn
    /\ nm.at = "reply" /\ nm.valid /\ server = "run" =>
           nm.session \in alive \cup ending \cup active

\* The inductive invariant.
IInv ==
    /\ TypeOK /\ ThreadShape
    /\ RequestHeldOnce /\ NotificationWakesRequest /\ LogoffWakesRequest

\* The step Logon: a new session has no request.
LEMMA LogonInv ==
    ASSUME IInv, NEW s \in Sessions, Logon(s)
    PROVE  IInv'
<1> USE SessionsAssumption DEF Logon, sessVars, threadVars
<1>1. TypeOK'
    BY DEF IInv, TypeOK, NMStates, ServerStates, ThreadShape
<1>2. ThreadShape'
    BY DEF IInv, TypeOK, ThreadShape
<1>3. RequestHeldOnce'
    BY DEF IInv, TypeOK, ThreadShape, RequestHeldOnce
<1>4. NotificationWakesRequest'
    BY DEF IInv, TypeOK, ThreadShape, NotificationWakesRequest, WillLook
<1>5. LogoffWakesRequest'
    BY DEF IInv, TypeOK, ThreadShape, LogoffWakesRequest, WillLook
<1> QED BY <1>1, <1>2, <1>3, <1>4, <1>5 DEF IInv

\* The step Logoff: a session leaves the map.
LEMMA LogoffInv ==
    ASSUME IInv, NEW s \in Sessions, Logoff(s)
    PROVE  IInv'
<1> USE SessionsAssumption DEF Logoff, sessVars, threadVars
<1>1. TypeOK'
    BY DEF IInv, TypeOK, NMStates, ServerStates, ThreadShape
<1>2. ThreadShape'
    BY DEF IInv, TypeOK, ThreadShape
<1>3. RequestHeldOnce'
    BY DEF IInv, TypeOK, ThreadShape, RequestHeldOnce
<1>4. NotificationWakesRequest'
    BY DEF IInv, TypeOK, ThreadShape, NotificationWakesRequest, WillLook
<1>5. LogoffWakesRequest'
    BY DEF IInv, TypeOK, ThreadShape, LogoffWakesRequest, WillLook
<1> QED BY <1>1, <1>2, <1>3, <1>4, <1>5 DEF IInv

\* The step CleanSession: an idle session has no request.
LEMMA CleanSessionInv ==
    ASSUME IInv, NEW s \in Sessions, CleanSession(s)
    PROVE  IInv'
<1> USE SessionsAssumption DEF CleanSession, sessVars, threadVars
<1>1. TypeOK'
    BY DEF IInv, TypeOK, NMStates, ServerStates, ThreadShape
<1>2. ThreadShape'
    BY DEF IInv, TypeOK, ThreadShape
<1>3. RequestHeldOnce'
    BY DEF IInv, TypeOK, ThreadShape, RequestHeldOnce
<1>4. NotificationWakesRequest'
    BY DEF IInv, TypeOK, ThreadShape, NotificationWakesRequest, WillLook
<1>5. LogoffWakesRequest'
    BY DEF IInv, TypeOK, ThreadShape, LogoffWakesRequest, WillLook
<1> QED BY <1>1, <1>2, <1>3, <1>4, <1>5 DEF IInv

\* The step CancelAllSessions: all other sessions leave the map and are marked.
LEMMA CancelAllSessionsInv ==
    ASSUME IInv, NEW s \in Sessions, CancelAllSessions(s)
    PROVE  IInv'
<1> USE SessionsAssumption DEF CancelAllSessions, sessVars, threadVars
<1>1. TypeOK'
    BY DEF IInv, TypeOK, NMStates, ServerStates, ThreadShape
<1>2. ThreadShape'
    BY DEF IInv, TypeOK, ThreadShape
<1>3. RequestHeldOnce'
    BY DEF IInv, TypeOK, ThreadShape, RequestHeldOnce
<1>4. NotificationWakesRequest'
    BY DEF IInv, TypeOK, ThreadShape, NotificationWakesRequest, WillLook
<1>5. LogoffWakesRequest'
    BY DEF IInv, TypeOK, ThreadShape, LogoffWakesRequest, WillLook
<1> QED BY <1>1, <1>2, <1>3, <1>4, <1>5 DEF IInv

\* The step LogoffNotify: the session is deleted and marked.
LEMMA LogoffNotifyInv ==
    ASSUME IInv, NEW s \in Sessions, LogoffNotify(s)
    PROVE  IInv'
<1> USE SessionsAssumption DEF LogoffNotify, LockedByThread, sessVars, threadVars
<1>1. TypeOK'
    BY DEF IInv, TypeOK, NMStates, ServerStates, ThreadShape
<1>2. ThreadShape'
    BY DEF IInv, TypeOK, ThreadShape
<1>3. RequestHeldOnce'
    BY DEF IInv, TypeOK, ThreadShape, RequestHeldOnce
<1>4. NotificationWakesRequest'
    BY DEF IInv, TypeOK, ThreadShape, NotificationWakesRequest, WillLook
<1>5. LogoffWakesRequest'
    BY DEF IInv, TypeOK, ThreadShape, LogoffWakesRequest, WillLook
<1> QED BY <1>1, <1>2, <1>3, <1>4, <1>5 DEF IInv

\* The step NotifyChange: a session is marked.
LEMMA NotifyChangeInv ==
    ASSUME IInv, NEW s \in Sessions, NotifyChange(s)
    PROVE  IInv'
<1> USE SessionsAssumption DEF NotifyChange, sessVars, threadVars
<1>1. TypeOK'
    BY DEF IInv, TypeOK, NMStates, ServerStates, ThreadShape
<1>2. ThreadShape'
    BY DEF IInv, TypeOK, ThreadShape
<1>3. RequestHeldOnce'
    BY DEF IInv, TypeOK, ThreadShape, RequestHeldOnce
<1>4. NotificationWakesRequest'
    BY DEF IInv, TypeOK, ThreadShape, NotificationWakesRequest, WillLook
<1>5. LogoffWakesRequest'
    BY DEF IInv, TypeOK, ThreadShape, LogoffWakesRequest, WillLook
<1> QED BY <1>1, <1>2, <1>3, <1>4, <1>5 DEF IInv

\* The step WorkLook: the thread takes up a session.
LEMMA WorkLookInv ==
    ASSUME IInv, NEW s \in Sessions, WorkLook(s)
    PROVE  IInv'
<1> USE SessionsAssumption DEF WorkLook, sessVars, threadVars
<1>0. \/ nm' = nm
      \/ \E b \in BOOLEAN : nm' = [nm EXCEPT !.at = "reply", !.session = s, !.valid = b]
    <2>1. (s \in alive) \in BOOLEAN
        OBVIOUS
    <2>2. \/ nm' = nm
          \/ nm' = [nm EXCEPT !.at = "reply", !.session = s, !.valid = s \in alive]
        OBVIOUS
    <2> QED BY <2>1, <2>2, Zenon
<1>1. TypeOK'
    <2>1. nm' \in [at : NMStates, session : Sessions \cup {NoSession}, valid : BOOLEAN,
                   item : Conns \cup {NoConn}]
        BY <1>0 DEF IInv, TypeOK, NMStates
    <2> QED BY <2>1 DEF IInv, TypeOK
<1>2. ThreadShape'
    BY DEF IInv, TypeOK, ThreadShape
<1>3. RequestHeldOnce'
    BY DEF IInv, TypeOK, ThreadShape, RequestHeldOnce
<1>4. NotificationWakesRequest'
    BY DEF IInv, TypeOK, ThreadShape, NotificationWakesRequest, WillLook
<1>5. LogoffWakesRequest'
    BY DEF IInv, TypeOK, ThreadShape, LogoffWakesRequest, WillLook
<1> QED BY <1>1, <1>2, <1>3, <1>4, <1>5 DEF IInv

\* The step AddNotification: a notification is queued.
LEMMA AddNotificationInv ==
    ASSUME IInv, NEW g \in Groups, AddNotification(g)
    PROVE  IInv'
<1> USE SessionsAssumption DEF AddNotification, sessVars, threadVars
<1>1. TypeOK'
    BY DEF IInv, TypeOK, NMStates, ServerStates, ThreadShape
<1>2. ThreadShape'
    BY DEF IInv, TypeOK, ThreadShape
<1>3. RequestHeldOnce'
    BY DEF IInv, TypeOK, ThreadShape, RequestHeldOnce
<1>4. NotificationWakesRequest'
    BY DEF IInv, TypeOK, ThreadShape, NotificationWakesRequest, WillLook
<1>5. LogoffWakesRequest'
    BY DEF IInv, TypeOK, ThreadShape, LogoffWakesRequest, WillLook
<1> QED BY <1>1, <1>2, <1>3, <1>4, <1>5 DEF IInv

\* The step AddNotificationReady: its sessions are reported ready.
LEMMA AddNotificationReadyInv ==
    ASSUME IInv, NEW g \in Groups, AddNotificationReady(g)
    PROVE  IInv'
<1> USE SessionsAssumption DEF AddNotificationReady, sessVars, threadVars
<1>1. TypeOK'
    BY DEF IInv, TypeOK, NMStates, ServerStates, ThreadShape
<1>2. ThreadShape'
    BY DEF IInv, TypeOK, ThreadShape
<1>3. RequestHeldOnce'
    BY DEF IInv, TypeOK, ThreadShape, RequestHeldOnce
<1>4. NotificationWakesRequest'
    BY DEF IInv, TypeOK, ThreadShape, NotificationWakesRequest, WillLook
<1>5. LogoffWakesRequest'
    BY DEF IInv, TypeOK, ThreadShape, LogoffWakesRequest, WillLook
<1> QED BY <1>1, <1>2, <1>3, <1>4, <1>5 DEF IInv

\* The step GetItems: a handler has validated the session.
LEMMA GetItemsInv ==
    ASSUME IInv, NEW c \in Conns, NEW s \in Sessions, GetItems(c, s)
    PROVE  IInv'
<1> USE SessionsAssumption DEF GetItems, WithDispatcher, sessVars, threadVars
<1>1. TypeOK'
    BY DEF IInv, TypeOK, NMStates, ServerStates, ThreadShape
<1>2. ThreadShape'
    BY DEF IInv, TypeOK, ThreadShape
<1>3. RequestHeldOnce'
    BY DEF IInv, TypeOK, ThreadShape, RequestHeldOnce
<1>4. NotificationWakesRequest'
    BY DEF IInv, TypeOK, ThreadShape, NotificationWakesRequest, WillLook
<1>5. LogoffWakesRequest'
    BY DEF IInv, TypeOK, ThreadShape, LogoffWakesRequest, WillLook
<1> QED BY <1>1, <1>2, <1>3, <1>4, <1>5 DEF IInv

\* The step AddRequest: a request is stored.
LEMMA AddRequestInv ==
    ASSUME IInv, NEW c \in Conns, AddRequest(c)
    PROVE  IInv'
<1> USE SessionsAssumption DEF AddRequest, sessVars, threadVars
<1>1. TypeOK'
    BY DEF IInv, TypeOK, NMStates, ServerStates, ThreadShape
<1>2. ThreadShape'
    BY DEF IInv, TypeOK, ThreadShape
<1>3. RequestHeldOnce'
    BY DEF IInv, TypeOK, ThreadShape, RequestHeldOnce
<1>4. NotificationWakesRequest'
    BY DEF IInv, TypeOK, ThreadShape, NotificationWakesRequest, WillLook
<1>5. LogoffWakesRequest'
    BY DEF IInv, TypeOK, ThreadShape, LogoffWakesRequest, WillLook
<1> QED BY <1>1, <1>2, <1>3, <1>4, <1>5 DEF IInv

\* The step WorkTop: the thread copies the set or waits.
LEMMA WorkTopInv ==
    ASSUME IInv, WorkTop
    PROVE  IInv'
<1> USE SessionsAssumption DEF WorkTop, Go, Resting, sessVars, threadVars
<1>1. TypeOK'
    BY DEF IInv, TypeOK, NMStates, ServerStates, ThreadShape
<1>2. ThreadShape'
    BY DEF IInv, TypeOK, ThreadShape
<1>3. RequestHeldOnce'
    BY DEF IInv, TypeOK, ThreadShape, RequestHeldOnce
<1>4. NotificationWakesRequest'
    BY DEF IInv, TypeOK, ThreadShape, NotificationWakesRequest, WillLook
<1>5. LogoffWakesRequest'
    BY DEF IInv, TypeOK, ThreadShape, LogoffWakesRequest, WillLook
<1> QED BY <1>1, <1>2, <1>3, <1>4, <1>5 DEF IInv

\* The step WorkWoken: the thread wakes up and copies the set.
LEMMA WorkWokenInv ==
    ASSUME IInv, WorkWoken
    PROVE  IInv'
<1> USE SessionsAssumption DEF WorkWoken, Go, Resting, sessVars, threadVars
<1>1. TypeOK'
    BY DEF IInv, TypeOK, NMStates, ServerStates, ThreadShape
<1>2. ThreadShape'
    BY DEF IInv, TypeOK, ThreadShape
<1>3. RequestHeldOnce'
    BY DEF IInv, TypeOK, ThreadShape, RequestHeldOnce
<1>4. NotificationWakesRequest'
    BY DEF IInv, TypeOK, ThreadShape, NotificationWakesRequest, WillLook
<1>5. LogoffWakesRequest'
    BY DEF IInv, TypeOK, ThreadShape, LogoffWakesRequest, WillLook
<1> QED BY <1>1, <1>2, <1>3, <1>4, <1>5 DEF IInv

\* The step WorkReply: the thread replies or lets the request wait.
LEMMA WorkReplyInv ==
    ASSUME IInv, WorkReply
    PROVE  IInv'
<1> DEFINE s == nm.session
<1> USE SessionsAssumption DEF sessVars
<1>0. /\ s \in Sessions /\ nm.at = "reply" /\ requests[s] \in Conns /\ nm.item = NoConn
      /\ list' \in {list, list \ {GroupOf[s]}}
      /\ UNCHANGED <<alive, ending, posting, toNotify, handler, active, batch, waited, server>>
    BY DEF IInv, TypeOK, ThreadShape, WorkReply
<1>1. CASE nm' = [Resting EXCEPT !.at = "process"] /\ UNCHANGED <<requests, age>>
    <2>0. GroupOf[s] \notin list /\ list' = list /\ nm.valid
        BY <1>1 DEF WorkReply, Respond, Resting
    <2>1. TypeOK'
        BY <1>0, <1>1, <2>0 DEF IInv, TypeOK, NMStates, Resting
    <2>2. ThreadShape'
        BY <1>0, <1>1, <2>0 DEF IInv, ThreadShape, Resting
    <2>3. RequestHeldOnce'
        BY <1>0, <1>1 DEF IInv, RequestHeldOnce, Resting
    <2>4. NotificationWakesRequest'
        BY <1>0, <1>1, <2>0 DEF IInv, NotificationWakesRequest, WillLook, Resting
    <2>5. LogoffWakesRequest'
        BY <1>0, <1>1, <2>0 DEF IInv, ThreadShape, LogoffWakesRequest, WillLook, Resting
    <2> QED BY <2>1, <2>2, <2>3, <2>4, <2>5 DEF IInv
<1>2. CASE Respond(s)
    <2>0. /\ requests' = [requests EXCEPT ![s] = NoConn]
          /\ nm'.at = "handback" /\ nm'.item = requests[s]
          /\ nm'.session = NoSession /\ nm'.valid = FALSE
        BY <1>2 DEF Respond, Resting
    <2>1. TypeOK'
        <3>1. nm' \in [at : NMStates, session : Sessions \cup {NoSession}, valid : BOOLEAN,
                       item : Conns \cup {NoConn}]
            BY <1>0, <1>2 DEF Respond, Resting, NMStates
        <3>2. /\ age' \in [Sessions -> Nat]
              /\ requests' \in [Sessions -> Conns \cup {NoConn}]
              /\ list' \subseteq Groups
            BY <1>0, <1>2 DEF IInv, TypeOK, Respond
        <3> QED BY <1>0, <3>1, <3>2 DEF IInv, TypeOK
    <2>2. ThreadShape'
        BY <1>0, <2>0 DEF ThreadShape
    <2>3. RequestHeldOnce'
        BY <1>0, <2>0 DEF IInv, TypeOK, RequestHeldOnce
    <2>4. NotificationWakesRequest'
        BY <1>0, <2>0 DEF IInv, TypeOK, NotificationWakesRequest, WillLook
    <2>5. LogoffWakesRequest'
        BY <1>0, <2>0 DEF IInv, TypeOK, LogoffWakesRequest, WillLook
    <2> QED BY <2>1, <2>2, <2>3, <2>4, <2>5 DEF IInv
<1> QED BY <1>1, <1>2 DEF WorkReply, Go

\* The step WorkHandBack: the connection goes back.
LEMMA WorkHandBackInv ==
    ASSUME IInv, WorkHandBack
    PROVE  IInv'
<1> USE SessionsAssumption DEF WorkHandBack, Go, Resting, sessVars, threadVars
<1>1. TypeOK'
    BY DEF IInv, TypeOK, NMStates, ServerStates, ThreadShape
<1>2. ThreadShape'
    BY DEF IInv, TypeOK, ThreadShape
<1>3. RequestHeldOnce'
    BY DEF IInv, TypeOK, ThreadShape, RequestHeldOnce
<1>4. NotificationWakesRequest'
    BY DEF IInv, TypeOK, ThreadShape, NotificationWakesRequest, WillLook
<1>5. LogoffWakesRequest'
    BY DEF IInv, TypeOK, ThreadShape, LogoffWakesRequest, WillLook
<1> QED BY <1>1, <1>2, <1>3, <1>4, <1>5 DEF IInv

\* The step WorkScan: old requests are marked.
LEMMA WorkScanInv ==
    ASSUME IInv, WorkScan
    PROVE  IInv'
<1> USE SessionsAssumption DEF WorkScan, Go, Resting, sessVars, threadVars
<1>1. TypeOK'
    BY DEF IInv, TypeOK, NMStates, ServerStates, ThreadShape
<1>2. ThreadShape'
    BY DEF IInv, TypeOK, ThreadShape
<1>3. RequestHeldOnce'
    BY DEF IInv, TypeOK, ThreadShape, RequestHeldOnce
<1>4. NotificationWakesRequest'
    BY DEF IInv, TypeOK, ThreadShape, NotificationWakesRequest, WillLook
<1>5. LogoffWakesRequest'
    BY DEF IInv, TypeOK, ThreadShape, LogoffWakesRequest, WillLook
<1> QED BY <1>1, <1>2, <1>3, <1>4, <1>5 DEF IInv

\* The step Tick: a second passes.
LEMMA TickInv ==
    ASSUME IInv, Tick
    PROVE  IInv'
<1> USE SessionsAssumption, TimeoutAssumption DEF Tick, AgeCap, sessVars, threadVars
<1>1. TypeOK'
    BY DEF IInv, TypeOK, NMStates, ServerStates, ThreadShape
<1>2. ThreadShape'
    BY DEF IInv, TypeOK, ThreadShape
<1>3. RequestHeldOnce'
    BY DEF IInv, TypeOK, ThreadShape, RequestHeldOnce
<1>4. NotificationWakesRequest'
    BY DEF IInv, TypeOK, ThreadShape, NotificationWakesRequest, WillLook
<1>5. LogoffWakesRequest'
    BY DEF IInv, TypeOK, ThreadShape, LogoffWakesRequest, WillLook
<1> QED BY <1>1, <1>2, <1>3, <1>4, <1>5 DEF IInv

\* The step StopServer: the sessions are removed.
LEMMA StopServerInv ==
    ASSUME IInv, StopServer
    PROVE  IInv'
<1> USE SessionsAssumption DEF StopServer, LockedByThread, sessVars, threadVars
<1>1. TypeOK'
    BY DEF IInv, TypeOK, NMStates, ServerStates, ThreadShape
<1>2. ThreadShape'
    BY DEF IInv, TypeOK, ThreadShape
<1>3. RequestHeldOnce'
    BY DEF IInv, TypeOK, ThreadShape, RequestHeldOnce
<1>4. NotificationWakesRequest'
    BY DEF IInv, TypeOK, ThreadShape, NotificationWakesRequest, WillLook
<1>5. LogoffWakesRequest'
    BY DEF IInv, TypeOK, ThreadShape, LogoffWakesRequest, WillLook
<1> QED BY <1>1, <1>2, <1>3, <1>4, <1>5 DEF IInv

\* The step ShutdownSteps: the managers are deleted.
LEMMA ShutdownStepsInv ==
    ASSUME IInv, ShutdownSteps
    PROVE  IInv'
<1> USE SessionsAssumption DEF ShutdownSteps, DeleteDispatcher, LockSessions, TellThreadToExit,
                               ShutdownStep, JoinThread, sessVars, threadVars
<1>1. TypeOK'
    BY DEF IInv, TypeOK, NMStates, ServerStates, ThreadShape
<1>2. ThreadShape'
    BY DEF IInv, TypeOK, ThreadShape
<1>3. RequestHeldOnce'
    BY DEF IInv, TypeOK, ThreadShape, RequestHeldOnce
<1>4. NotificationWakesRequest'
    BY DEF IInv, TypeOK, ThreadShape, NotificationWakesRequest, WillLook
<1>5. LogoffWakesRequest'
    BY DEF IInv, TypeOK, ThreadShape, LogoffWakesRequest, WillLook
<1> QED BY <1>1, <1>2, <1>3, <1>4, <1>5 DEF IInv

\* At first the manager holds no request.
LEMMA InitInv == Init => IInv
<1> SUFFICES ASSUME Init PROVE IInv
    OBVIOUS
<1> USE SessionsAssumption
<1>1. TypeOK
    BY DEF Init, TypeOK, NMStates, ServerStates, Resting
<1>2. ThreadShape
    BY DEF Init, ThreadShape, Resting
<1>3. RequestHeldOnce
    BY DEF Init, RequestHeldOnce, Resting
<1>4. NotificationWakesRequest /\ LogoffWakesRequest
    BY DEF Init, NotificationWakesRequest, LogoffWakesRequest
<1> QED BY <1>1, <1>2, <1>3, <1>4 DEF IInv

\* A step that changes nothing.
LEMMA StutterInv == IInv /\ UNCHANGED vars => IInv'
BY DEF IInv, TypeOK, ThreadShape, RequestHeldOnce, NotificationWakesRequest,
       LogoffWakesRequest, WillLook, vars

\* Whatever clients, sessions, the thread and the shutdown do, in any order.
LEMMA NextInv == IInv /\ [Next]_vars => IInv'
<1> SUFFICES ASSUME IInv, [Next]_vars PROVE IInv'
    OBVIOUS
<1>1. CASE Next
    BY <1>1, StutterInv,
       LogonInv, LogoffInv, CleanSessionInv, CancelAllSessionsInv, LogoffNotifyInv,
       NotifyChangeInv, WorkLookInv,
       AddNotificationInv, AddNotificationReadyInv, GetItemsInv, AddRequestInv, WorkTopInv,
       WorkWokenInv, WorkReplyInv, WorkHandBackInv, WorkScanInv, TickInv, StopServerInv,
       ShutdownStepsInv
       DEF Next, ThreadStep, CallStep, Terminated
<1> QED BY <1>1, StutterInv

\* The invariant holds of every behaviour of the notification manager.
THEOREM NotificationInvariant == Spec => []IInv
<1>1. Init => IInv
    BY InitInv
<1>2. IInv /\ [Next]_vars => IInv'
    BY NextInv
<1> QED BY <1>1, <1>2, PTL DEF Spec

\* A connection that waits for notifications is never held twice.
THEOREM HeldOnce == Spec => []RequestHeldOnce
<1>1. IInv => RequestHeldOnce
    BY DEF IInv
<1> QED BY <1>1, NotificationInvariant, PTL

\* AddNotification reaches every waiting request of its group without the timeout, although
\* it fills the list and wakes up the thread in separate steps.
THEOREM NotificationsWake == Spec => []NotificationWakesRequest
<1>1. IInv => NotificationWakesRequest
    BY DEF IInv
<1> QED BY <1>1, NotificationInvariant, PTL

\* RemoveSession and CancelAllSessions reach every waiting request of their sessions.
THEOREM LogoffsWake == Spec => []LogoffWakesRequest
<1>1. IInv => LogoffWakesRequest
    BY DEF IInv
<1> QED BY <1>1, NotificationInvariant, PTL

\* The state keeps its shape: sets of sessions and groups, one request per session.
THEOREM NotificationTypeCorrect == Spec => []TypeOK
<1>1. IInv => TypeOK
    BY DEF IInv
<1> QED BY <1>1, NotificationInvariant, PTL

-------------------------------------------------------------------------------
(* The refinement.                                                         *)

\* What a client can see of a step is what it does to these four.
LEMMA Invisible ==
    ASSUME UNCHANGED <<alive, list, handler, requests>>
    PROVE  UNCHANGED Promise!vars
BY DEF Promise!vars, Waiting

\* Nobody waits at first.
LEMMA InitPromise == Init => Promise!Init
BY SessionsAssumption DEF Init, Promise!Init, Waiting

\* Steps that only change which sessions are on the map.
LEMMA SessionStep ==
    ASSUME IInv', UNCHANGED <<list, handler, requests>>
    PROVE  Promise!Next
<1>1. alive' \in SUBSET Sessions
    BY DEF IInv, TypeOK
<1>2. Waiting' = Waiting
    BY DEF Waiting
<1> QED BY <1>1, <1>2 DEF Promise!Next, Promise!SessionsChange

\* AddNotification posts.
LEMMA PostStep ==
    ASSUME NEW g \in Groups, AddNotification(g)
    PROVE  Promise!Next
<1>1. Waiting' = Waiting
    BY DEF AddNotification, Waiting
<1>2. Promise!Post(g)
    BY <1>1 DEF AddNotification, Promise!Post
<1> QED BY <1>2 DEF Promise!Next

\* GetItems asks: the dispatcher has the connection, so it waits for nothing yet.
LEMMA AskStep ==
    ASSUME IInv, NEW c \in Conns, NEW s \in Sessions, GetItems(c, s)
    PROVE  Promise!Next
<1> USE SessionsAssumption DEF GetItems, sessVars
<1>1. \A t \in Sessions : <<c, t>> \notin Waiting
    BY DEF Waiting, WithDispatcher
<1>2. Waiting' = Waiting \cup {<<c, s>>}
  <2>1. handler[c] = NoSession /\ handler \in [Conns -> Sessions \cup {NoSession}]
        /\ handler' = [handler EXCEPT ![c] = s] /\ requests' = requests
        BY DEF WithDispatcher, IInv, TypeOK
  <2>2. ASSUME NEW p \in Conns \X Sessions
        PROVE  p \in Waiting' <=> p \in Waiting \/ p = <<c, s>>
    <3>1. PICK d \in Conns, t \in Sessions : p = <<d, t>>
        OBVIOUS
    <3>2. p[1] = d /\ p[2] = t
        BY <3>1
    <3>3. p \in Waiting' <=> handler'[d] = t \/ requests[t] = d
        BY <2>1, <3>1, <3>2 DEF Waiting
    <3>4. p \in Waiting <=> handler[d] = t \/ requests[t] = d
        BY <3>1, <3>2 DEF Waiting
    <3> QED BY <2>1, <3>1, <3>3, <3>4
  <2> QED BY <2>2 DEF Waiting
<1>3. Promise!Ask(c, s)
    BY <1>1, <1>2 DEF Promise!Ask
<1> QED BY <1>3 DEF Promise!Next

\* AddRequest: the client goes on waiting, now in m_mapRequests; the client of an older
\* request of the session is answered with an error.
LEMMA AddRequestStep ==
    ASSUME IInv, NEW c \in Conns, AddRequest(c)
    PROVE  [Promise!Next]_(Promise!vars)
<1> USE SessionsAssumption DEF AddRequest, sessVars
<1> DEFINE s == handler[c]
           o == requests[s]
<1>1. /\ s \in Sessions /\ o \in Conns \cup {NoConn} /\ o # c
      /\ \A t \in Sessions : requests[t] = c => FALSE
      /\ \A t \in Sessions : requests[t] = o /\ o # NoConn => t = s
      /\ o # NoConn => handler[o] = NoSession
      /\ handler' = [handler EXCEPT ![c] = NoSession]
      /\ requests' = [requests EXCEPT ![s] = c]
      /\ handler \in [Conns -> Sessions \cup {NoSession}]
      /\ requests \in [Sessions -> Conns \cup {NoConn}]
    BY DEF IInv, TypeOK, RequestHeldOnce
<1> HIDE DEF s, o
<1>2. ASSUME NEW p \in Conns \X Sessions
      PROVE  p \in Waiting' <=> p \in Waiting /\ p # <<o, s>>
  <2>1. PICK d \in Conns, t \in Sessions : p = <<d, t>>
      OBVIOUS
  <2>2. p[1] = d /\ p[2] = t
      BY <2>1
  <2>3. p \in Waiting' <=> handler'[d] = t \/ requests'[t] = d
      BY <2>1, <2>2 DEF Waiting
  <2>4. p \in Waiting <=> handler[d] = t \/ requests[t] = d
      BY <2>1, <2>2 DEF Waiting
  <2>5. handler[c] = s /\ requests[s] = o
      BY DEF s, o
  <2> QED BY <1>1, <2>1, <2>3, <2>4, <2>5
<1>3. Waiting' = Waiting \ {<<o, s>>}
    BY <1>2 DEF Waiting
<1>4. UNCHANGED <<alive, list>>
    OBVIOUS
<1>5. CASE <<o, s>> \in Waiting
  <2>1. o \in Conns
      BY <1>5 DEF Waiting
  <2>2. Promise!AnswerEmpty(o, s)
      BY <1>3, <1>4, <1>5 DEF Promise!AnswerEmpty
  <2> QED BY <1>1, <2>1, <2>2 DEF Promise!Next
<1>6. CASE <<o, s>> \notin Waiting
  <2>1. Waiting' = Waiting
      BY <1>3, <1>6
  <2> QED BY <1>4, <2>1 DEF Promise!vars
<1> QED BY <1>5, <1>6

\* WorkReply: the client is answered with all notifications of the group or with none, or
\* waits on, and then the group keeps what it has.
LEMMA ReplyStep ==
    ASSUME IInv, WorkReply
    PROVE  [Promise!Next]_(Promise!vars)
<1> USE SessionsAssumption DEF WorkReply
<1> DEFINE s == nm.session
           c == requests[s]
           has == nm.valid /\ GroupOf[s] \in list
           stay == nm.valid /\ ~has /\ age[s] < Timeout
<1>1. /\ s \in Sessions /\ c \in Conns /\ handler[c] = NoSession
      /\ \A t \in Sessions : requests[t] = c => t = s
      /\ requests \in [Sessions -> Conns \cup {NoConn}]
      /\ handler' = handler /\ alive' = alive
    BY DEF IInv, TypeOK, ThreadShape, RequestHeldOnce
<1>2. list' = IF has THEN list \ {GroupOf[s]} ELSE list
    OBVIOUS
<1>3. CASE stay
  <2>1. requests' = requests /\ list' = list
      BY <1>3
  <2> QED BY <1>1, <2>1, Invisible
<1>4. CASE ~stay
  <2>1. requests' = [requests EXCEPT ![s] = NoConn]
      BY <1>4 DEF Respond
  <2> HIDE DEF s, has, stay
  <2>2. requests[s] = c
      OBVIOUS
  <2> HIDE DEF c
  <2>3. ASSUME NEW p \in Conns \X Sessions
        PROVE  p \in Waiting' <=> p \in Waiting /\ p # <<c, s>>
    <3>1. PICK d \in Conns, t \in Sessions : p = <<d, t>>
        OBVIOUS
    <3>2. p[1] = d /\ p[2] = t
        BY <3>1
    <3>3. p \in Waiting' <=> handler'[d] = t \/ requests'[t] = d
        BY <3>1, <3>2 DEF Waiting
    <3>4. p \in Waiting <=> handler[d] = t \/ requests[t] = d
        BY <3>1, <3>2 DEF Waiting
    <3> QED BY <1>1, <2>1, <2>2, <3>1, <3>3, <3>4
  <2>4. Waiting' = Waiting \ {<<c, s>>}
      BY <2>3 DEF Waiting
  <2>5. <<c, s>> \in Waiting
      BY <1>1, <2>2 DEF Waiting
  <2>6. CASE has
    <3>1. GroupOf[s] \in list
        BY <2>6 DEF has
    <3>2. Promise!AnswerNews(c, s)
        BY <1>1, <1>2, <2>4, <2>5, <2>6, <3>1 DEF Promise!AnswerNews
    <3> QED BY <1>1, <3>2 DEF Promise!Next
  <2>7. CASE ~has
    <3>1. Promise!AnswerEmpty(c, s)
        BY <1>1, <1>2, <2>4, <2>5, <2>7 DEF Promise!AnswerEmpty
    <3> QED BY <1>1, <3>1 DEF Promise!Next
  <2> QED BY <2>6, <2>7
<1> QED BY <1>3, <1>4

\* The destructor hangs up on the clients that are left.
LEMMA JoinStep ==
    ASSUME IInv, JoinThread, \A c \in Conns : handler[c] = NoSession
    PROVE  Promise!Next
<1>1. Waiting' = {}
    BY SessionsAssumption DEF JoinThread, Waiting
<1>2. Promise!HangUp
    BY <1>1 DEF JoinThread, sessVars, Promise!HangUp
<1> QED BY <1>2 DEF Promise!Next

\* Once MainLoop has returned no handler runs any more.
HandlersGone == server # "run" => \A c \in Conns : handler[c] = NoSession

\* The dispatcher ends after its workers, and starts no handler then.
LEMMA HandlersGoneStep ==
    ASSUME HandlersGone, [Next]_vars
    PROVE  HandlersGone'
<1> USE DEF HandlersGone
<1>1. CASE UNCHANGED vars
    BY <1>1 DEF vars
<1>2. CASE ThreadStep
    BY <1>2 DEF ThreadStep, WorkTop, WorkWoken, WorkReply, WorkHandBack, WorkScan, WorkLook
<1>3. CASE Tick \/ ShutdownSteps \/ Terminated \/ StopServer
    BY <1>3 DEF Tick, ShutdownSteps, DeleteDispatcher, LockSessions, TellThreadToExit,
                JoinThread, ShutdownStep, Terminated, vars, StopServer
<1>4. CASE \E s \in Sessions : \/ NotifyChange(s) \/ LogoffNotify(s) \/ Logon(s)
                               \/ Logoff(s) \/ CleanSession(s) \/ CancelAllSessions(s)
    BY <1>4 DEF NotifyChange, LogoffNotify, Logon, Logoff, CleanSession, CancelAllSessions
<1>5. CASE \E g \in Groups : AddNotificationReady(g) \/ AddNotification(g)
    BY <1>5 DEF AddNotificationReady, AddNotification
<1>6. CASE \E c \in Conns : AddRequest(c)
  <2>1. PICK c \in Conns : AddRequest(c)
      BY <1>6
  <2> QED BY <2>1 DEF AddRequest
<1>7. CASE \E c \in Conns, s \in Sessions : GetItems(c, s)
    BY <1>7 DEF GetItems
<1> QED BY <1>1, <1>2, <1>3, <1>4, <1>5, <1>6, <1>7 DEF Next, CallStep

\* The manager's steps that no client sees.
LEMMA InnerStep ==
    ASSUME \/ WorkTop \/ WorkWoken \/ WorkHandBack \/ WorkScan \/ Tick \/ Terminated
           \/ DeleteDispatcher \/ LockSessions \/ TellThreadToExit
           \/ \E s \in Sessions : WorkLook(s) \/ NotifyChange(s) \/ LogoffNotify(s)
           \/ \E g \in Groups : AddNotificationReady(g)
    PROVE  UNCHANGED Promise!vars
<1>1. CASE \/ WorkTop \/ WorkWoken \/ WorkHandBack \/ WorkScan
           \/ \E s \in Sessions : WorkLook(s)
  <2>1. UNCHANGED <<alive, list, handler, requests>>
      BY <1>1 DEF WorkTop, WorkWoken, WorkHandBack, WorkScan, WorkLook, sessVars
  <2> QED BY <2>1, Invisible
<1>2. CASE \/ Tick \/ Terminated \/ DeleteDispatcher \/ LockSessions \/ TellThreadToExit
  <2>1. UNCHANGED <<alive, list, handler, requests>>
      BY <1>2 DEF Tick, Terminated, vars, DeleteDispatcher, LockSessions, TellThreadToExit,
                  ShutdownStep, sessVars
  <2> QED BY <2>1, Invisible
<1>3. CASE \/ \E s \in Sessions : NotifyChange(s) \/ LogoffNotify(s)
           \/ \E g \in Groups : AddNotificationReady(g)
  <2>1. UNCHANGED <<alive, list, handler, requests>>
      BY <1>3 DEF NotifyChange, LogoffNotify, AddNotificationReady, sessVars
  <2> QED BY <2>1, Invisible
<1> QED BY <1>1, <1>2, <1>3

\* Every step of the manager is one of the promise, or none.
LEMMA NextPromise ==
    ASSUME IInv, IInv', HandlersGone, [Next]_vars
    PROVE  [Promise!Next]_(Promise!vars)
<1>1. CASE UNCHANGED vars
    BY <1>1, Invisible DEF vars
<1>2. CASE WorkReply
    BY <1>2, ReplyStep
<1>3. CASE \/ StopServer
           \/ \E s \in Sessions : Logon(s) \/ Logoff(s) \/ CleanSession(s) \/ CancelAllSessions(s)
  <2>1. UNCHANGED <<list, handler, requests>>
      BY <1>3 DEF StopServer, Logon, Logoff, CleanSession, CancelAllSessions
  <2> QED BY <2>1, SessionStep
<1>4. CASE \E g \in Groups : AddNotification(g)
    BY <1>4, PostStep
<1>5. CASE \E c \in Conns : AddRequest(c)
    BY <1>5, AddRequestStep
<1>6. CASE \E c \in Conns, s \in Sessions : GetItems(c, s)
    BY <1>6, AskStep
<1>7. CASE JoinThread
    BY <1>7, JoinStep DEF HandlersGone, JoinThread
<1>8. CASE \/ WorkTop \/ WorkWoken \/ WorkHandBack \/ WorkScan \/ Tick \/ Terminated
           \/ DeleteDispatcher \/ LockSessions \/ TellThreadToExit
           \/ \E s \in Sessions : WorkLook(s) \/ NotifyChange(s) \/ LogoffNotify(s)
           \/ \E g \in Groups : AddNotificationReady(g)
    BY <1>8, InnerStep
<1> QED BY <1>1, <1>2, <1>3, <1>4, <1>5, <1>6, <1>7, <1>8
        DEF Next, ThreadStep, CallStep, ShutdownSteps

\* The notification manager implements the long poll: whatever the interleaving, a client
\* is answered once, and notifications leave a group only in an answer to a client that
\* waits for that group.
THEOREM ManagerKeepsPromise == Spec => StepsKeepPromise
<1>1. Init => HandlersGone
    BY DEF Init, HandlersGone
<1>2. HandlersGone /\ [Next]_vars => HandlersGone'
    BY HandlersGoneStep
<1>3. Spec => []HandlersGone
    BY <1>1, <1>2, PTL DEF Spec
<1>4. IInv /\ IInv' /\ HandlersGone /\ [Next]_vars => [Promise!Next]_(Promise!vars)
    BY NextPromise
<1>5. Init => Promise!Init
    BY InitPromise
<1>6. Spec => []IInv
    BY NotificationInvariant
<1> QED BY <1>3, <1>4, <1>5, <1>6, PTL DEF Spec, StepsKeepPromise, Promise!SafeSpec

-------------------------------------------------------------------------------
(* The time that a request waits.                                          *)

\* The thread looks at session s before the next scan.
Due(s) ==
    \/ nm.at \in {"top", "wait"} /\ s \in active
    \/ s \in batch
    \/ nm.at = "reply" /\ nm.session = s

\* How old a request may be, in a round of the thread's loop where no second has passed yet.
AgeLimit(s) == IF Due(s) THEN Timeout + 1 ELSE Timeout

\* The thread and its requests are there until the shutdown has ended them.
ShutdownShape ==
    /\ server = "gone" => \A s \in Sessions : requests[s] = NoConn
    /\ nm.at = "exited" => Stopping

AgesBounded ==
    MapReadable => \A s \in Sessions : requests[s] # NoConn =>
        age[s] <= AgeLimit(s) + (IF waited THEN 1 ELSE 0)

\* What WorkLook does to the thread.
LEMMA LookStep ==
    ASSUME IInv, NEW s \in Sessions, WorkLook(s)
    PROVE  /\ nm.at = "process" /\ nm'.at \in {"process", "reply"}
           /\ requests[s] = NoConn \/ (nm'.at = "reply" /\ nm'.session = s)
<1>1. \/ nm' = nm /\ requests[s] = NoConn
      \/ \E b \in BOOLEAN : nm' = [nm EXCEPT !.at = "reply", !.session = s, !.valid = b]
    <2>1. (s \in alive) \in BOOLEAN
        OBVIOUS
    <2>2. \/ nm' = nm /\ requests[s] = NoConn
          \/ nm' = [nm EXCEPT !.at = "reply", !.session = s, !.valid = s \in alive]
        BY DEF WorkLook
    <2> QED BY <2>1, <2>2, Zenon
<1>2. nm.at = "process"
    BY DEF WorkLook
<1> QED BY <1>1, <1>2 DEF IInv, TypeOK

\* The thread ends only when it is told to, and main goes on only after that.
LEMMA ShutdownShapeStep ==
    ASSUME IInv, ShutdownShape, HandlersGone, [Next]_vars
    PROVE  ShutdownShape'
<1> USE DEF ShutdownShape, Stopping
<1>1. CASE UNCHANGED vars
    BY <1>1 DEF vars
<1>2. CASE WorkTop \/ WorkWoken \/ WorkHandBack \/ WorkScan
    BY <1>2 DEF WorkTop, WorkWoken, WorkHandBack, WorkScan, Go, Resting
<1>3. CASE WorkReply
  <2>1. nm'.at # "exited" /\ server' = server
      BY <1>3 DEF WorkReply, Respond, Go, Resting
  <2>2. ASSUME NEW s \in Sessions, server = "gone" PROVE requests'[s] = NoConn
      BY <1>3, <2>2 DEF WorkReply, Respond, IInv, TypeOK, ThreadShape
  <2> QED BY <2>1, <2>2
<1>4. CASE \E s \in Sessions : WorkLook(s)
  <2>1. nm'.at # "exited"
      BY <1>4, LookStep
  <2>2. UNCHANGED <<requests, server>>
      BY <1>4 DEF WorkLook
  <2> QED BY <2>1, <2>2
<1>5. CASE Tick \/ Terminated \/ StopServer
    BY <1>5 DEF Tick, Terminated, vars, StopServer, threadVars
<1>6. CASE ShutdownSteps
    BY <1>6 DEF ShutdownSteps, DeleteDispatcher, LockSessions, TellThreadToExit, JoinThread,
                ShutdownStep, threadVars
<1>7. CASE \/ \E s \in Sessions : \/ NotifyChange(s) \/ LogoffNotify(s) \/ Logon(s)
                                  \/ Logoff(s) \/ CleanSession(s) \/ CancelAllSessions(s)
           \/ \E g \in Groups : AddNotificationReady(g) \/ AddNotification(g)
           \/ \E c \in Conns, s \in Sessions : GetItems(c, s)
    BY <1>7 DEF NotifyChange, LogoffNotify, Logon, Logoff, CleanSession, CancelAllSessions,
                AddNotificationReady, AddNotification, GetItems, threadVars
<1>8. CASE \E c \in Conns : AddRequest(c)
    BY <1>8 DEF AddRequest, HandlersGone, threadVars
<1> QED BY <1>1, <1>2, <1>3, <1>4, <1>5, <1>6, <1>7, <1>8 DEF Next, CallStep, ThreadStep

\* Steps of sessions and handlers make a session due at most.
LEMMA OutsideKeepsAges ==
    ASSUME IInv, AgesBounded, UNCHANGED <<requests, age, threadVars, server>>,
           active \subseteq active'
    PROVE  AgesBounded'
BY TimeoutAssumption
   DEF AgesBounded, AgeLimit, Due, MapReadable, threadVars, IInv, TypeOK

\* A request gets older by a tick only while the thread has not yet looked at it in its round.
LEMMA AgesStep ==
    ASSUME IInv, ShutdownShape, AgesBounded, [Next]_vars
    PROVE  AgesBounded'
<1> USE TimeoutAssumption, SessionsAssumption DEF AgesBounded, AgeLimit, Due, MapReadable
<1>1. CASE UNCHANGED vars
    BY <1>1 DEF vars
<1>2. CASE WorkTop
    BY <1>2 DEF WorkTop, Go, Resting, Stopping, IInv, TypeOK, ThreadShape, ShutdownShape
<1>3. CASE WorkWoken \/ WorkHandBack
    BY <1>3 DEF WorkWoken, WorkHandBack, Go, Resting, IInv, TypeOK, ThreadShape
<1>4. CASE WorkScan
    BY <1>4 DEF WorkScan, Go, Resting, IInv, TypeOK
<1>5. CASE WorkReply
    BY <1>5 DEF WorkReply, Go, Respond, Resting, IInv, TypeOK, ThreadShape
<1>6. CASE \E s \in Sessions : WorkLook(s)
  <2>1. PICK s \in Sessions : WorkLook(s)
      BY <1>6
  <2>2. /\ batch' = batch \ {s} /\ UNCHANGED <<requests, age, waited, server>>
      BY <2>1 DEF WorkLook
  <2>3. /\ nm.at = "process" /\ nm'.at \in {"process", "reply"}
        /\ requests[s] = NoConn \/ (nm'.at = "reply" /\ nm'.session = s)
      BY <2>1, LookStep
  <2> QED BY <2>2, <2>3 DEF IInv, TypeOK
<1>7. CASE Tick
    BY <1>7 DEF Tick, AgeCap, IInv, TypeOK
<1>8. CASE ShutdownSteps
    BY <1>8 DEF ShutdownSteps, DeleteDispatcher, LockSessions, TellThreadToExit, JoinThread,
                ShutdownStep, threadVars
<1>9. CASE \E c \in Conns : AddRequest(c)
    BY <1>9 DEF AddRequest, threadVars, IInv, TypeOK
<1>10. CASE \/ Terminated \/ StopServer
            \/ \E s \in Sessions : \/ NotifyChange(s) \/ LogoffNotify(s) \/ Logon(s)
                                   \/ Logoff(s) \/ CleanSession(s) \/ CancelAllSessions(s)
            \/ \E g \in Groups : AddNotificationReady(g) \/ AddNotification(g)
            \/ \E c \in Conns, s \in Sessions : GetItems(c, s)
  <2>1. CASE StopServer
      BY <2>1 DEF StopServer, threadVars
  <2>2. CASE ~StopServer
    <3>1. UNCHANGED <<requests, age, threadVars, server>> /\ active \subseteq active'
        BY <1>10, <2>2
           DEF NotifyChange, LogoffNotify, Logon, Logoff, CleanSession, CancelAllSessions,
               AddNotificationReady, AddNotification, GetItems, Terminated, vars, threadVars
    <3> QED BY <3>1, OutsideKeepsAges
  <2> QED BY <2>1, <2>2
<1> QED BY <1>1, <1>2, <1>3, <1>4, <1>5, <1>6, <1>7, <1>8, <1>9, <1>10
        DEF Next, CallStep, ThreadStep

\* A request that has waited for m_ulTimeout is marked by the next scan of the thread and
\* answered in the round after that: two seconds later at the latest, whatever else is marked.
THEOREM RequestsAnsweredInTime == Spec => []AnsweredInTime
<1>1. Init => HandlersGone /\ ShutdownShape /\ AgesBounded
    BY SessionsAssumption, TimeoutAssumption
       DEF Init, HandlersGone, ShutdownShape, Resting, AgesBounded
<1>2. /\ HandlersGone /\ [Next]_vars => HandlersGone'
      /\ IInv /\ HandlersGone /\ ShutdownShape /\ [Next]_vars => ShutdownShape'
      /\ IInv /\ ShutdownShape /\ AgesBounded /\ [Next]_vars => AgesBounded'
    BY HandlersGoneStep, ShutdownShapeStep, AgesStep
<1>3. IInv /\ AgesBounded => AnsweredInTime
    BY TimeoutAssumption DEF IInv, TypeOK, AgesBounded, AgeLimit, AnsweredInTime
<1> QED BY <1>1, <1>2, <1>3, NotificationInvariant, PTL DEF Spec

===============================================================================
