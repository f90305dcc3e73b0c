------------------------ MODULE NotificationRefinement ------------------------
(***************************************************************************)
(* ECNotificationManager keeps the promise of LongPoll.                    *)
(***************************************************************************)
EXTENDS NotificationManager

\* A client waits from the moment ns__notifyGetItems has validated its session until its
\* request is taken off m_mapRequests.
Waiting ==
    {p \in Conns \X Sessions : handler[p[1]] = p[2] \/ requests[p[2]] = p[1]}

Promise == INSTANCE LongPoll WITH live <- alive, news <- list, waiting <- Waiting

\* Every step of the manager's thread, of the handlers and of the shutdown is a step of the
\* promise or none that a client can see: a request is answered once, notifications are
\* taken off a group only for a client that waits for that group and is answered with them,
\* and no request is given up before its connection is answered or closed.
StepsKeepPromise == Promise!SafeSpec

\* The same, and every client that waits is answered, as long as the server runs.
KeepsPromise == Promise!Spec

===============================================================================
