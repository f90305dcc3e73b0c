---------------------------- MODULE MessageStream ----------------------------
(***************************************************************************)
(* Messages as streams: importMessageFromStream and                        *)
(* exportMessageChangesAsStream.                                           *)
(*                                                                         *)
(* The RPC handler (H) exchanges the attachment of the SOAP call with      *)
(* gSOAP, and a task on a thread pool of one thread (T) turns it into      *)
(* database rows or makes it from them; an ECFifoBuffer of limited size    *)
(* is between them.  Amounts of data are counted, in units that are not    *)
(* divided; each condition variable has one waiter at the most, so that    *)
(* signal and broadcast do the same.                                       *)
(***************************************************************************)
EXTENDS Integers

CONSTANTS
    Cap,        \* m_ulMaxSize of the fifo
    Items,      \* values that a message is made of
    ItemSize,   \* units that a value takes in the stream
    MaxSend,    \* bound: units that a client sends in an import
    MaxChunk,   \* bound: units that gSOAP reads or writes at once
    MaxStreams  \* bound: messages of an export

ASSUME SizesAssumption ==
    /\ Cap \in Nat \ {0} /\ Items \in Nat \ {0} /\ ItemSize \in Nat \ {0}
    /\ MaxSend \in Nat /\ MaxChunk \in Nat \ {0} /\ MaxStreams \in Nat

VARIABLES
    call,       \* the request at hand
    h,          \* where the handler, gSOAP or MTOMSessionDone is
    left,       \* units left of the handler's Read or Write
    good,       \* gSOAP has met no error
    sent,       \* units of the attachment that the handler was given
    streams,    \* messages of the export, and how many of them were opened
    current,    \* lpCurrentWriteStream or lpCurrentReadStream is set
    ending,     \* MTOMSessionDone has been called
    er,         \* lpMTOMSessionInfo->er is an error
    fifo,       \* the ECFifoBuffer exists
    used,       \* units in it
    closed,     \* ends of it that are closed
    task,       \* state of the task
    term,       \* m_ulTermReq
    t,          \* where the thread of the pool is
    trem,       \* units left of its Read or Write
    done,       \* values it has read or written
    res,        \* the result of the task so far
    asleep,     \* threads that wait on a condition variable
    tx,         \* the transaction of an import; abandoned: rolled back with the stream open
    rows,       \* rows inserted in it
    stray,      \* rows inserted after it was rolled back
    cursor      \* values consumed from the result of the export's query

hVars    == <<call, h, left, good, sent, streams, current, ending>>
tVars    == <<t, trem, done, res>>
fifoVars == <<fifo, used, closed>>
dbVars   == <<tx, rows, stray, cursor>>
vars == <<hVars, er, fifoVars, task, term, tVars, asleep, dbVars>>

HandlerAt == {"idle", "attachments", "gsoap", "write", "broken", "close", "wait", "finish",
              "rollback", "next", "read", "done", "release", "join"}
TaskAt == {"none", "pool", "read", "insert", "flush", "write", "shut", "report", "done", "gone"}

Flags ==
    /\ good \in BOOLEAN /\ current \in BOOLEAN /\ ending \in BOOLEAN /\ er \in BOOLEAN
    /\ fifo \in BOOLEAN /\ term \in BOOLEAN

HandlerTypes ==
    /\ call \in {"none", "import", "export"} /\ h \in HandlerAt
    /\ left \in 0 .. MaxChunk /\ sent \in 0 .. MaxSend
    /\ streams \in [all : 0 .. MaxStreams, open : 0 .. MaxStreams]

FifoTypes ==
    /\ used \in 0 .. Cap /\ closed \subseteq {"reader", "writer"}
    /\ asleep \subseteq {"H", "T"}

TaskTypes ==
    /\ task \in {"none", "queued", "running", "ok", "failed"}
    /\ t \in TaskAt /\ trem \in 0 .. ItemSize /\ done \in 0 .. Items /\ res \in {"ok", "failed"}

DbTypes ==
    /\ tx \in {"none", "open", "committed", "rolledback", "abandoned"}
    /\ rows \in 0 .. Items /\ stray \in 0 .. Items /\ cursor \in 0 .. MaxStreams * Items

TypeOK == Flags /\ HandlerTypes /\ FifoTypes /\ TaskTypes /\ DbTypes

Init ==
    /\ left = 0 /\ good = TRUE /\ sent = 0 /\ current = FALSE /\ ending = FALSE /\ er = FALSE
    /\ fifo = FALSE /\ used = 0 /\ closed = {} /\ task = "none" /\ term = FALSE
    /\ trem = 0 /\ done = 0 /\ res = "ok" /\ asleep = {}
    /\ rows = 0 /\ stray = 0 /\ cursor = 0
    /\ call = "none" /\ h = "idle" /\ t = "none"
    /\ streams = [all |-> 0, open |-> 0] /\ tx = "none"

\* All that belongs to a request is made anew for the next one.
Renew ==
    /\ left' = 0 /\ good' = TRUE /\ sent' = 0 /\ current' = FALSE /\ ending' = FALSE /\ er' = FALSE
    /\ fifo' = FALSE /\ used' = 0 /\ closed' = {} /\ task' = "none" /\ term' = FALSE
    /\ trem' = 0 /\ done' = 0 /\ res' = "ok" /\ asleep' = {}
    /\ rows' = 0 /\ stray' = 0 /\ cursor' = 0

-------------------------------------------------------------------------------
(* ECFifoBuffer and condition variables.                                   *)

\* Threads that are woken by a signal on the condition that is waited for at these places.
Woken(places) == {p \in {"H"} : h \in places} \cup {p \in {"T"} : t \in places}

NotFull  == {"write"}
NotEmpty == {"read", "flush"}

\* Write with n units left, up to where it returns or waits: what fits is stored, and if
\* there is more the writer waits, unless the reader has gone.
Rest(n) == IF n <= Cap - used THEN 0 ELSE n - (Cap - used)

\* Mutant: the buffer is only asked whether it is full before all is stored.
WriteOverfull(p, n) ==
    /\ p \notin asleep
    /\ used' = IF used < Cap THEN used + n ELSE used
    /\ asleep' = (IF used < Cap THEN asleep \ Woken(NotEmpty) ELSE asleep) \cup
                 (IF used >= Cap /\ "reader" \notin closed THEN {p} ELSE {})
    /\ UNCHANGED <<fifo, closed>>

Write(p, n) ==
    /\ p \notin asleep
    /\ used' = used + (n - Rest(n))
    /\ asleep' = (IF used < Cap THEN asleep \ Woken(NotEmpty) ELSE asleep) \cup
                 (IF Rest(n) > 0 /\ "reader" \notin closed THEN {p} ELSE {})
    /\ UNCHANGED <<fifo, closed>>

\* Read with n units left: likewise.  Once the writer has gone, what is there is the end.
Lack(n) == IF n <= used THEN 0 ELSE n - used

Read(p, n) ==
    /\ p \notin asleep
    /\ used' = used - (n - Lack(n))
    /\ asleep' = (IF used > 0 THEN asleep \ Woken(NotFull) ELSE asleep) \cup
                 (IF Lack(n) > 0 /\ "writer" \notin closed THEN {p} ELSE {})
    /\ UNCHANGED <<fifo, closed>>

Close(end) ==
    /\ closed' = closed \cup {end}
    /\ asleep' = asleep \ Woken(IF end = "reader" THEN NotFull ELSE NotEmpty)
    /\ UNCHANGED <<fifo, used>>

\* A stream is opened: a new fifo, a task for the pool, and a signal to its thread.
OpenStream ==
    /\ fifo' = TRUE /\ used' = 0 /\ closed' = {}
    /\ task' = "queued" /\ current' = TRUE
    /\ asleep' = asleep \ Woken({"pool"})

-------------------------------------------------------------------------------
(* The handler of an import.                                               *)

\* Begin, then the message is created; any of that may fail (quota, permissions).
ImportBegin ==
    /\ h = "idle"
    /\ Renew
    /\ call' = "import" /\ t' = "pool" /\ tx' = "open"
    /\ h' \in {"attachments", "rollback"}
    /\ UNCHANGED streams

\* A call without an attachment is not refused: the message stays without content.
NoAttachment ==
    /\ h = "attachments"
    /\ h' = "finish"
    /\ UNCHANGED <<call, left, good, sent, streams, current, ending, er, fifoVars, task, term,
                   tVars, asleep, dbVars>>

MTOMWriteOpen ==
    /\ h = "attachments"
    /\ OpenStream
    /\ h' = "gsoap"
    /\ UNCHANGED <<call, left, good, sent, streams, ending, er, term, tVars, dbVars>>

\* gSOAP has received a chunk, the end of the attachment, or an error.
GsoapReceives ==
    /\ h = "gsoap" /\ call = "import"
    /\ \/ \E n \in 1 .. MaxChunk :
              /\ sent + n <= MaxSend
              /\ sent' = sent + n /\ left' = n /\ h' = "write" /\ UNCHANGED good
       \/ h' = "close" /\ UNCHANGED <<left, sent, good>>
       \/ h' = "broken" /\ good' = FALSE /\ UNCHANGED <<left, sent>>
    /\ UNCHANGED <<call, streams, current, ending, er, fifoVars, task, term, tVars, asleep, dbVars>>

MTOMWrite ==
    /\ h = "write" /\ Write("H", left)
    /\ left' = Rest(left)
    /\ LET fails == Rest(left) > 0 /\ "reader" \in closed
       IN  /\ h' = IF fails THEN "broken" ELSE IF Rest(left) = 0 THEN "gsoap" ELSE h
           /\ er' = (er \/ fails)
           /\ good' = (good /\ ~fails)
    /\ UNCHANGED <<call, sent, streams, current, ending, task, term, tVars, dbVars>>

\* After an error gSOAP closes the stream or, as MTOMSessionDone has it, does not.
GsoapGivesUp ==
    /\ h = "broken"
    /\ \/ h' = "close"
       \/ h' = IF call = "import" THEN "rollback" ELSE "done"
    /\ UNCHANGED <<call, left, good, sent, streams, current, ending, er, fifoVars, task, term,
                   tVars, asleep, dbVars>>

\* Mutant: MTOMReadClose leaves the fifo open and just waits for the task.
CloseQuietly ==
    /\ h = "close"
    /\ current' = FALSE
    /\ IF call = "import" THEN Close("writer") ELSE UNCHANGED <<fifoVars, asleep>>
    /\ h' = "wait"
    /\ UNCHANGED <<call, left, good, sent, streams, ending, er, task, term, tVars, dbVars>>

\* MTOMWriteClose and MTOMReadClose: the end of the fifo that is ours is closed ...
StreamClose ==
    /\ h = "close"
    /\ current' = FALSE
    /\ Close(IF call = "import" THEN "writer" ELSE "reader")
    /\ h' = "wait"
    /\ UNCHANGED <<call, left, good, sent, streams, ending, er, task, term, tVars, dbVars>>

\* Where things go on after a stream.
AfterStream(failed) ==
    IF ending THEN "release"
    ELSE IF call = "export" THEN "next"
    ELSE IF good /\ ~failed THEN "finish" ELSE "rollback"

\* Mutant: nobody waits for the task.
TaskNoWait ==
    /\ h = "wait" /\ "H" \notin asleep
    /\ er' = (er \/ (call = "import" /\ task = "failed"))
    /\ h' = AfterStream(er')
    /\ task' = "none" /\ fifo' = FALSE
    /\ UNCHANGED <<asleep, call, left, good, sent, streams, current, ending, used, closed, term,
                   tVars, dbVars>>

\* Mutant: MTOMWriteClose does not look at the result.
TaskWaitOnly ==
    /\ h = "wait" /\ "H" \notin asleep
    /\ \/ /\ task \in {"ok", "failed"}
          /\ h' = AfterStream(er)
          /\ task' = "none" /\ fifo' = FALSE
          /\ UNCHANGED asleep
       \/ /\ task \in {"queued", "running"}
          /\ asleep' = asleep \cup {"H"}
          /\ UNCHANGED <<h, task, fifo>>
    /\ UNCHANGED <<call, left, good, sent, streams, current, ending, er, used, closed, term,
                   tVars, dbVars>>

\* ... and the task waited for and deleted, with the fifo.  An import has its result.
TaskWait ==
    /\ h = "wait" /\ "H" \notin asleep
    /\ \/ /\ task \in {"ok", "failed"}
          /\ er' = (er \/ (call = "import" /\ task = "failed"))
          /\ h' = AfterStream(er')
          /\ task' = "none" /\ fifo' = FALSE
          /\ UNCHANGED asleep
       \/ /\ task \in {"queued", "running"}
          /\ asleep' = asleep \cup {"H"}
          /\ UNCHANGED <<er, h, task, fifo>>
    /\ UNCHANGED <<call, left, good, sent, streams, current, ending, used, closed, term,
                   tVars, dbVars>>

\* The rest of the import, which may fail as well; storage and database commit.
Finish ==
    /\ h = "finish"
    /\ \/ tx' = "committed" /\ h' = "done"
       \/ h' = "rollback" /\ UNCHANGED tx
    /\ UNCHANGED <<call, left, good, sent, streams, current, ending, er, fifoVars, task, term,
                   tVars, asleep, rows, stray, cursor>>

Rollback ==
    /\ h = "rollback"
    /\ rows' = 0
    /\ tx' = IF current THEN "abandoned" ELSE "rolledback"
    /\ h' = "done"
    /\ UNCHANGED <<call, left, good, sent, streams, current, ending, er, fifoVars, task, term,
                   tVars, asleep, stray, cursor>>

-------------------------------------------------------------------------------
(* The handler of an export, and gSOAP sending its reply.                  *)

\* The query for all messages has been made; after an error there are no streams.
ExportBegin ==
    /\ h = "idle"
    /\ Renew
    /\ call' = "export" /\ h' = "next" /\ t' = "pool"
    /\ \E n \in 0 .. MaxStreams : streams' = [all |-> n, open |-> 0]
    /\ tx' = "none"

\* Mutant: the error of an earlier stream is not looked at.
MTOMReadOpenAnyway ==
    /\ h = "next"
    /\ IF good /\ streams.open < streams.all
       THEN /\ OpenStream
            /\ streams' = [streams EXCEPT !.open = @ + 1]
            /\ h' = "gsoap"
       ELSE h' = "done" /\ UNCHANGED <<fifoVars, task, current, asleep, streams>>
    /\ UNCHANGED <<call, left, good, sent, ending, er, term, tVars, dbVars>>

\* gSOAP comes to the next attachment, which is refused once a task has failed.
MTOMReadOpen ==
    /\ h = "next"
    /\ IF good /\ streams.open < streams.all /\ ~er
       THEN /\ OpenStream
            /\ streams' = [streams EXCEPT !.open = @ + 1]
            /\ h' = "gsoap"
       ELSE h' = "done" /\ UNCHANGED <<fifoVars, task, current, asleep, streams>>
    /\ UNCHANGED <<call, left, good, sent, ending, er, term, tVars, dbVars>>

\* gSOAP sends what it has and asks for more, or the connection is broken.
GsoapSends ==
    /\ h = "gsoap" /\ call = "export"
    /\ \/ h' = "read" /\ left' = MaxChunk /\ UNCHANGED good
       \/ h' = "broken" /\ good' = FALSE /\ UNCHANGED left
    /\ UNCHANGED <<call, sent, streams, current, ending, er, fifoVars, task, term, tVars, asleep,
                   dbVars>>

\* A read of nothing is the end of the attachment.
AfterRead(n) == IF n = MaxChunk THEN "close" ELSE "gsoap"

MTOMRead ==
    /\ h = "read" /\ Read("H", left)
    /\ left' = Lack(left)
    /\ h' = IF Lack(left) = 0 \/ "writer" \in closed THEN AfterRead(Lack(left)) ELSE h
    /\ UNCHANGED <<call, good, sent, streams, current, ending, er, task, term, tVars, dbVars>>

-------------------------------------------------------------------------------
(* The end of both: MTOMSessionDone and ~ECThreadPool.                     *)

SessionDone ==
    /\ h = "done"
    /\ ending' = TRUE
    /\ h' = IF current THEN "close" ELSE "release"
    /\ UNCHANGED <<call, left, good, sent, streams, current, er, fifoVars, task, term, tVars,
                   asleep, dbVars>>

\* Storage, session and database connection are let go; the pool's thread is told to stop.
Release ==
    /\ h = "release"
    /\ term' = TRUE
    /\ asleep' = asleep \ Woken({"pool"})
    /\ h' = "join"
    /\ UNCHANGED <<call, left, good, sent, streams, current, ending, er, fifoVars, task, tVars,
                   dbVars>>

Join ==
    /\ h = "join" /\ "H" \notin asleep
    /\ \/ /\ t = "gone"
          /\ Renew
          /\ call' = "none" /\ h' = "idle" /\ t' = "none"
          /\ streams' = [all |-> 0, open |-> 0] /\ tx' = "none"
       \/ /\ t # "gone"
          /\ asleep' = asleep \cup {"H"}
          /\ UNCHANGED <<hVars, er, fifoVars, task, term, tVars, dbVars>>

-------------------------------------------------------------------------------
(* The thread of the pool.                                                 *)

\* getNextTask: a request to stop goes first.
GetNextTask ==
    /\ t = "pool" /\ "T" \notin asleep
    /\ \/ /\ term
          /\ t' = "gone" /\ term' = FALSE
          /\ asleep' = asleep \ Woken({"join"})
          /\ UNCHANGED <<task, trem, done, res>>
       \/ /\ ~term /\ task = "queued"
          /\ task' = "running"
          /\ t' = IF call = "import" THEN "read" ELSE "write"
          /\ trem' = ItemSize /\ done' = 0 /\ res' = "ok"
          /\ UNCHANGED <<term, asleep>>
       \/ /\ ~term /\ task # "queued"
          /\ asleep' = asleep \cup {"T"}
          /\ UNCHANGED <<t, task, term, trem, done, res>>
    /\ UNCHANGED <<hVars, er, fifoVars, dbVars>>

\* DeserializeObject reads the next value: a short read fails ...
TaskRead ==
    /\ t = "read" /\ Read("T", trem)
    /\ trem' = Lack(trem)
    /\ LET short == Lack(trem) > 0 /\ "writer" \in closed
       IN  /\ t' = IF Lack(trem) = 0 THEN "insert" ELSE IF short THEN "flush" ELSE t
           /\ res' = IF short THEN "failed" ELSE res
    /\ UNCHANGED <<hVars, er, task, term, done, dbVars>>

\* ... and the value is inserted, with or without a transaction being open, or refused.
TaskInsert ==
    /\ t = "insert"
    /\ \/ /\ done' = done + 1 /\ trem' = ItemSize
          /\ t' = IF done + 1 = Items THEN "shut" ELSE "read"
          /\ IF tx = "open"
             THEN rows' = rows + 1 /\ UNCHANGED stray
             ELSE stray' = stray + 1 /\ UNCHANGED rows
          /\ UNCHANGED res
       \/ t' = "flush" /\ res' = "failed" /\ UNCHANGED <<trem, done, rows, stray>>
    /\ UNCHANGED <<hVars, er, fifoVars, task, term, asleep, tx, cursor>>

\* Flush reads on to the end, so that the writer can finish.
TaskFlush ==
    /\ t = "flush" /\ Read("T", Cap + 1)
    /\ t' = IF "writer" \in closed THEN "shut" ELSE t
    /\ UNCHANGED <<hVars, er, task, term, trem, done, res, dbVars>>

\* SerializeMessage writes the next value of the query's result, or fails to.
TaskWrite ==
    /\ t = "write"
    /\ \/ /\ Write("T", trem)
          /\ LET fails == Rest(trem) > 0 /\ "reader" \in closed
                 full == Rest(trem) = 0
             IN  /\ trem' = IF full THEN ItemSize ELSE Rest(trem)
                 /\ done' = IF full THEN done + 1 ELSE done
                 /\ cursor' = IF full THEN cursor + 1 ELSE cursor
                 /\ t' = IF fails \/ done' = Items THEN "shut" ELSE t
                 /\ res' = IF fails THEN "failed" ELSE res
       \/ /\ trem = ItemSize /\ "T" \notin asleep
          /\ t' = "shut" /\ res' = "failed"
          /\ UNCHANGED <<trem, done, cursor, fifoVars, asleep>>
    /\ UNCHANGED <<hVars, er, task, term, tx, rows, stray>>

\* ~ECFifoSerializer closes the end of the task.
TaskShut ==
    /\ t = "shut"
    /\ Close(IF call = "import" THEN "reader" ELSE "writer")
    /\ t' = IF call = "import" THEN "done" ELSE "report"
    /\ UNCHANGED <<hVars, er, task, term, trem, done, res, dbVars>>

\* SerializeObject leaves its result in the session info.
TaskReport ==
    /\ t = "report"
    /\ er' = (res = "failed")
    /\ t' = "done"
    /\ UNCHANGED <<hVars, fifoVars, task, term, trem, done, res, asleep, dbVars>>

TaskDone ==
    /\ t = "done"
    /\ task' = res
    /\ asleep' = asleep \ Woken({"wait"})
    /\ t' = "pool"
    /\ UNCHANGED <<hVars, er, fifoVars, term, trem, done, res, dbVars>>

\* STR_DEF_TIMEOUT: Read or Write give up.  MTOMRead returns what it has got.
HandlerTimeout ==
    /\ "H" \in asleep /\ h \in {"read", "write"}
    /\ asleep' = asleep \ {"H"}
    /\ IF h = "write" THEN h' = "broken" /\ er' = TRUE /\ good' = FALSE
                      ELSE h' = AfterRead(left) /\ UNCHANGED <<er, good>>
    /\ UNCHANGED <<call, left, sent, streams, current, ending, fifoVars, task, term, tVars, dbVars>>

TaskTimeout ==
    /\ "T" \in asleep /\ t \in {"read", "flush", "write"}
    /\ asleep' = asleep \ {"T"}
    /\ t' = IF t = "read" THEN "flush" ELSE "shut"
    /\ res' = "failed"
    /\ UNCHANGED <<hVars, er, fifoVars, task, term, trem, done, dbVars>>

SpuriousWakeup ==
    /\ \E p \in asleep : asleep' = asleep \ {p}
    /\ UNCHANGED <<hVars, er, fifoVars, task, term, tVars, dbVars>>

-------------------------------------------------------------------------------
HandlerStep ==
    \/ NoAttachment \/ MTOMWriteOpen \/ GsoapReceives \/ MTOMWrite \/ GsoapGivesUp
    \/ StreamClose \/ TaskWait \/ Finish \/ Rollback
    \/ MTOMReadOpen \/ GsoapSends \/ MTOMRead
    \/ SessionDone \/ Release \/ Join

TaskStep ==
    \/ GetNextTask \/ TaskRead \/ TaskInsert \/ TaskFlush \/ TaskWrite
    \/ TaskShut \/ TaskReport \/ TaskDone

Next ==
    \/ ImportBegin \/ ExportBegin \/ HandlerStep \/ TaskStep
    \/ HandlerTimeout \/ TaskTimeout \/ SpuriousWakeup

Spec == Init /\ [][Next]_vars

\* Both threads run; gSOAP's own timeouts end a connection that is silent.  Nothing is asked
\* of the timeouts of the fifo, which a debug build does not have.
FairSpec == Spec /\ WF_vars(HandlerStep) /\ WF_vars(TaskStep)

-------------------------------------------------------------------------------
(* Properties                                                              *)

Working == task = "queued" \/ t \in {"read", "insert", "flush", "write", "shut", "report"}

\* "We can now safely remove sessions, etc since nobody is using them": the fifo exists for
\* as long as the task works on it, and the task has ended before the handler goes on with
\* the database connection that it lent to it, or lets go of session, storage and
\* connection.  A rollback after gSOAP has left the stream open is the exception.
TaskIsWaitedFor ==
    Working => /\ fifo
               /\ h \notin {"idle", "finish", "next", "release", "join"}
               /\ h = "rollback" => current

\* "we want to be able to perform a complete rollback": no value is inserted once the
\* import has been rolled back, except when gSOAP has left the stream open and the handler
\* rolls back under the hands of the task.
NothingAfterRollback == stray > 0 => tx = "abandoned"

\* Handler and task never use the lent connection at the same time, nor the handler what it
\* has shared with a task that still works; the exception is the abandoned import.
TaskIsAlone == TaskIsWaitedFor /\ NothingAfterRollback

\* An import that is committed has all the values of the message, however the stream was cut
\* off and whoever gave up first; or the call had no attachment and the message has none.
CommittedIsComplete == tx = "committed" => rows = Items \/ (rows = 0 /\ sent = 0)

\* The messages of an export share one query: a task reads the part of the result that is
\* about its own message, even when the one before it has failed half-way.
StreamsNotMixed ==
    t = "write" => cursor = (streams.open - 1) * Items + done

\* "to make sure the writing thread will not lock up": no request hangs, whether the client
\* sends too little, too much or nothing, and whichever side fails; the timeouts of the fifo
\* are not needed for that.
RequestEnds == h # "idle" ~> h = "idle"
===============================================================================
