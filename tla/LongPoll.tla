------------------------------- MODULE LongPoll -------------------------------
(***************************************************************************)
(* What the server promises to a client that waits for notifications, with *)
(* nothing said of threads, marks, timeouts or batches: a client asks for  *)
(* the notifications of a valid session and is answered once, with the     *)
(* notifications of the session's group or with none; notifications leave  *)
(* a group only in such an answer.                                         *)
(***************************************************************************)
CONSTANTS
    Sessions,   \* session ids
    Groups,     \* session groups
    GroupOf,    \* GroupOf[s]: the group that s is in
    Conns       \* client connections

VARIABLES
    live,       \* sessions that can be validated
    news,       \* groups that have notifications
    waiting     \* pairs of a connection and the session that it waits for

vars == <<live, news, waiting>>

Init == live = {} /\ news = {} /\ waiting = {}

\* Sessions come and go.
SessionsChange ==
    /\ live' \in SUBSET Sessions
    /\ UNCHANGED <<news, waiting>>

Post(g) ==
    /\ news' = news \cup {g}
    /\ UNCHANGED <<live, waiting>>

\* A connection brings one request at a time.
Ask(c, s) ==
    /\ s \in live
    /\ \A t \in Sessions : <<c, t>> \notin waiting
    /\ waiting' = waiting \cup {<<c, s>>}
    /\ UNCHANGED <<live, news>>

\* The answer that carries the notifications of the group.
AnswerNews(c, s) ==
    /\ <<c, s>> \in waiting /\ GroupOf[s] \in news
    /\ waiting' = waiting \ {<<c, s>>}
    /\ news' = news \ {GroupOf[s]}
    /\ UNCHANGED live

\* The answer without: the time is up, the session has ended, or its client asked again.
AnswerEmpty(c, s) ==
    /\ <<c, s>> \in waiting
    /\ waiting' = waiting \ {<<c, s>>}
    /\ UNCHANGED <<live, news>>

\* The server has stopped.
HangUp ==
    /\ waiting' = {}
    /\ UNCHANGED <<live, news>>

Next ==
    \/ SessionsChange \/ HangUp
    \/ \E g \in Groups : Post(g)
    \/ \E c \in Conns, s \in Sessions : Ask(c, s) \/ AnswerNews(c, s) \/ AnswerEmpty(c, s)

SafeSpec == Init /\ [][Next]_vars

\* Nobody waits for ever.
AllAnswered ==
    \A c \in Conns, s \in Sessions : <<c, s>> \in waiting ~> <<c, s>> \notin waiting

Spec == SafeSpec /\ AllAnswered
===============================================================================
