------------------------- MODULE MessageStreamProofs -------------------------
(***************************************************************************)
(* The handler waits for the task, a committed import is complete, and an  *)
(* export does not mix up its messages; for any size of the fifo, of the   *)
(* messages, of their values and of the chunks that gSOAP exchanges.       *)
(***************************************************************************)
EXTENDS MessageStream, TLAPS

Running == {"read", "insert", "flush", "write", "shut", "report", "done"}

\* Where the handler is tells the kind of the request and whether a stream is open; a task
\* exists from the opening of a stream until the handler has waited for it.
HandlerShape ==
    /\ call = "none" <=> h = "idle"
    /\ h \in {"attachments", "write", "finish", "rollback"} => call = "import"
    /\ h \in {"next", "read"} => call = "export"
    /\ h \in {"gsoap", "write", "read", "broken", "close"} => current
    /\ h \in {"idle", "attachments", "wait", "finish", "next", "release", "join"} => ~current
    /\ task # "none" <=> current \/ h = "wait"
    /\ fifo <=> task # "none"
    /\ ending => h \in {"close", "wait", "release", "join"}
    /\ h \in {"release", "join"} => ending
    /\ term => h = "join"

\* The thread of the pool runs what the handler has queued, and nothing else.
TaskShape ==
    /\ t = "none" <=> h = "idle"
    /\ t \in Running <=> task = "running"
    /\ t = "gone" => h = "join"
    /\ t \in {"read", "insert", "flush"} => call = "import"
    /\ t \in {"write", "report"} => call = "export"
    /\ t \in {"read", "insert", "write"} => done < Items
    /\ t = "flush" => res = "failed"
    /\ t \in {"shut", "report", "done"} /\ res = "ok" => done = Items

\* The transaction of an import is open until the handler has ended it; with a task that is
\* still there, it can only have been abandoned.
TxShape ==
    /\ call # "import" => tx = "none"
    /\ call = "import" =>
           /\ tx = "open" <=> ~ending /\ h # "done"
           /\ tx # "none"
           /\ task # "none" => tx \in {"open", "abandoned"}

\* Rows are counted by the task that inserts them.
RowsShape ==
    /\ call # "import" => rows = 0 /\ stray = 0
    /\ h = "attachments" \/ task = "queued" => rows = 0 /\ stray = 0
    /\ h = "attachments" => sent = 0
    /\ t \in Running /\ call = "import" => rows + stray <= done
    /\ rows + stray <= Items
    /\ stray > 0 => tx = "abandoned"
    /\ tx = "open" /\ t \in Running => rows = done
    /\ tx = "open" /\ task = "ok" => rows = Items
    /\ h = "finish" \/ tx = "committed" => rows = Items \/ (rows = 0 /\ sent = 0)

\* The result of the query is consumed up to the end of a message, unless a task has failed.
CursorShape ==
    /\ call # "export" => cursor = 0
    /\ cursor <= streams.open * Items
    /\ task # "none" /\ call = "export" => streams.open >= 1
    /\ call = "export" =>
           /\ t = "write" => cursor + Items = streams.open * Items + done
           /\ task = "queued" => cursor + Items = streams.open * Items
           /\ t \in {"shut", "report"} /\ res = "ok" => cursor = streams.open * Items
           /\ t = "done" \/ task \in {"none", "ok", "failed"} =>
                  er \/ cursor = streams.open * Items

IInv == TypeOK /\ HandlerShape /\ TaskShape /\ TxShape /\ RowsShape /\ CursorShape

-------------------------------------------------------------------------------
(* The fifo.                                                               *)

\* What Write cannot store is a part of what it was given.
LEMMA RestIsPart ==
    ASSUME FifoTypes, NEW n \in Nat
    PROVE  Rest(n) \in 0 .. n /\ used + (n - Rest(n)) \in 0 .. Cap
BY SizesAssumption DEF FifoTypes, Rest

\* Write never stores more than fits.
LEMMA WriteFifo ==
    ASSUME FifoTypes, NEW p \in {"H", "T"}, NEW n \in Nat, Write(p, n)
    PROVE  FifoTypes' /\ Rest(n) \in 0 .. n
<1>1. used' \in 0 .. Cap /\ Rest(n) \in 0 .. n
    BY RestIsPart DEF Write
<1>2. asleep' \subseteq {"H", "T"} /\ closed' = closed
    BY DEF Write, FifoTypes
<1> QED BY <1>1, <1>2 DEF FifoTypes

\* Read never takes more than there is.
LEMMA ReadFifo ==
    ASSUME FifoTypes, NEW p \in {"H", "T"}, NEW n \in Nat, Read(p, n)
    PROVE  FifoTypes' /\ Lack(n) \in 0 .. n
<1>1. used' \in 0 .. Cap /\ Lack(n) \in 0 .. n
    BY SizesAssumption DEF Read, Lack, FifoTypes
<1>2. asleep' \subseteq {"H", "T"} /\ closed' = closed
    BY DEF Read, FifoTypes
<1> QED BY <1>1, <1>2 DEF FifoTypes

\* A new stream begins with an empty fifo that nobody has closed.
LEMMA OpenFifo == ASSUME FifoTypes, OpenStream PROVE FifoTypes'
<1>1. used' \in 0 .. Cap /\ closed' = {}
    BY SizesAssumption DEF OpenStream
<1>2. asleep' \subseteq {"H", "T"}
    BY DEF OpenStream, FifoTypes
<1> QED BY <1>1, <1>2 DEF FifoTypes

-------------------------------------------------------------------------------
(* One lemma per action.                                                   *)

\* The end of the result's part that belongs to the opened messages.
LEMMA ProductIsNat ==
    ASSUME HandlerTypes
    PROVE  /\ streams.open * Items \in Nat
           /\ streams.open * Items <= MaxStreams * Items /\ MaxStreams * Items \in Nat
<1>1. \A a, b, c \in Nat : a <= b => a * c \in Nat /\ b * c \in Nat /\ a * c <= b * c
    OBVIOUS
<1>2. streams.open \in Nat /\ streams.open <= MaxStreams /\ MaxStreams \in Nat /\ Items \in Nat
    BY SizesAssumption DEF HandlerTypes
<1> QED BY <1>1, <1>2

\* Each value that the task of an export writes is one row of the shared query.
LEMMA WriteMovesCursor ==
    ASSUME IInv, TaskWrite
    PROVE  cursor' \in 0 .. MaxStreams * Items
<1>1. cursor + Items = streams.open * Items + done /\ done < Items
    BY DEF IInv, TaskShape, CursorShape, TaskWrite
<1>2. cursor \in Nat /\ done \in Nat /\ Items \in Nat
    BY SizesAssumption, ProductIsNat DEF IInv, TypeOK, DbTypes, TaskTypes
<1>3. /\ streams.open * Items \in Nat /\ MaxStreams * Items \in Nat
      /\ streams.open * Items <= MaxStreams * Items
    BY ProductIsNat DEF IInv, TypeOK
<1>4. cursor' \in {cursor, cursor + 1}
    BY DEF TaskWrite
<1> QED BY <1>1, <1>2, <1>3, <1>4

\* When the thread has gone all is as it was at first, otherwise the handler waits for it.
LEMMA JoinOrWait ==
    ASSUME Join
    PROVE  \/ Init'
           \/ UNCHANGED <<hVars, er, fifoVars, task, term, tVars, dbVars>>
              /\ asleep' = asleep \cup {"H"}
BY DEF Join, Renew, Init

\* No request is under way at the start.
LEMMA InitInv == Init => IInv
<1> SUFFICES ASSUME Init PROVE IInv
    OBVIOUS
<1> USE SizesAssumption DEF Init
<1>1. Flags
    BY DEF Flags
<1>2. HandlerTypes
    BY DEF HandlerTypes, HandlerAt
<1>3. cursor \in 0 .. MaxStreams * Items
    BY <1>2, ProductIsNat
<1>4. FifoTypes /\ TaskTypes /\ DbTypes
    BY <1>3 DEF FifoTypes, TaskTypes, DbTypes, TaskAt
<1>5. HandlerShape /\ TaskShape /\ TxShape /\ RowsShape
    BY DEF HandlerShape, TaskShape, TxShape, RowsShape, Running
<1>6. CursorShape
    BY <1>2, ProductIsNat DEF CursorShape, Running
<1> QED BY <1>1, <1>2, <1>4, <1>5, <1>6 DEF IInv, TypeOK

\* Join: the request is over.
LEMMA JoinInv ==
    ASSUME IInv, Join
    PROVE  IInv'
<1>1. CASE Init'
    BY <1>1, InitInv, PTL
<1>2. CASE UNCHANGED <<hVars, er, fifoVars, task, term, tVars, dbVars>>
           /\ asleep' = asleep \cup {"H"}
    BY <1>2 DEF IInv, TypeOK, Flags, HandlerTypes, FifoTypes, TaskTypes, DbTypes, HandlerShape,
                TaskShape, TxShape, RowsShape, CursorShape, hVars, tVars, fifoVars, dbVars
<1> QED BY <1>1, <1>2, JoinOrWait

\* ImportBegin: a new request.
LEMMA ImportBeginInv ==
    ASSUME IInv, ImportBegin
    PROVE  IInv'
<1> USE SizesAssumption DEF IInv, TypeOK, ImportBegin, Renew, hVars, tVars, fifoVars, dbVars
<1>1. Flags'
    BY DEF Flags
<1>2. HandlerTypes'
    BY DEF HandlerTypes, HandlerAt
<1>3. FifoTypes'
    BY DEF FifoTypes
<1>4. TaskTypes'
    BY DEF TaskTypes, TaskAt, TaskShape
<1>5. DbTypes'
    BY DEF DbTypes, HandlerShape, TaskShape, RowsShape, CursorShape
<1>6. HandlerShape'
    BY DEF HandlerShape, Flags, HandlerTypes, TaskTypes, TaskShape, Running
<1>7. TaskShape'
    BY DEF TaskShape, Flags, HandlerTypes, TaskTypes, HandlerShape, Running
<1>8. TxShape'
    BY DEF TxShape, Flags, HandlerTypes, DbTypes, HandlerShape, TaskShape, Running
<1>9. RowsShape'
    BY DEF RowsShape, HandlerTypes, TaskTypes, DbTypes, HandlerShape, TaskShape, TxShape, Running
<1>10. CursorShape'
    BY DEF CursorShape, Flags, HandlerTypes, TaskTypes, DbTypes, HandlerShape, TaskShape, Running
<1> QED BY <1>1, <1>2, <1>3, <1>4, <1>5, <1>6, <1>7, <1>8, <1>9, <1>10

\* NoAttachment: the message stays without content.
LEMMA NoAttachmentInv ==
    ASSUME IInv, NoAttachment
    PROVE  IInv'
<1> USE SizesAssumption DEF IInv, TypeOK, NoAttachment, hVars, tVars, fifoVars, dbVars
<1>1. Flags'
    BY DEF Flags
<1>2. HandlerTypes'
    BY DEF HandlerTypes, HandlerAt
<1>3. FifoTypes'
    BY DEF FifoTypes
<1>4. TaskTypes'
    BY DEF TaskTypes, TaskAt, TaskShape
<1>5. DbTypes'
    BY DEF DbTypes, HandlerShape, TaskShape, RowsShape, CursorShape
<1>6. HandlerShape'
    BY DEF HandlerShape, Flags, HandlerTypes, TaskTypes, TaskShape, Running
<1>7. TaskShape'
    BY DEF TaskShape, Flags, HandlerTypes, TaskTypes, HandlerShape, Running
<1>8. TxShape'
    BY DEF TxShape, Flags, HandlerTypes, DbTypes, HandlerShape, TaskShape, Running
<1>9. RowsShape'
    BY DEF RowsShape, HandlerTypes, TaskTypes, DbTypes, HandlerShape, TaskShape, TxShape, Running
<1>10. CursorShape'
    BY DEF CursorShape, Flags, HandlerTypes, TaskTypes, DbTypes, HandlerShape, TaskShape, Running
<1> QED BY <1>1, <1>2, <1>3, <1>4, <1>5, <1>6, <1>7, <1>8, <1>9, <1>10

\* MTOMWriteOpen: the first and only stream of an import.
LEMMA MTOMWriteOpenInv ==
    ASSUME IInv, MTOMWriteOpen
    PROVE  IInv'
<1> USE SizesAssumption DEF IInv, TypeOK, MTOMWriteOpen, OpenStream, Woken, hVars, tVars,
                            fifoVars, dbVars
<1>1. Flags'
    BY DEF Flags
<1>2. HandlerTypes'
    BY DEF HandlerTypes, HandlerAt
<1>3. FifoTypes'
    BY OpenFifo
<1>4. TaskTypes'
    BY DEF TaskTypes, TaskAt, TaskShape
<1>5. DbTypes'
    BY DEF DbTypes, HandlerShape, TaskShape, RowsShape, CursorShape
<1>6. HandlerShape'
    BY DEF HandlerShape, Flags, HandlerTypes, TaskTypes, TaskShape, Running
<1>7. TaskShape'
    BY DEF TaskShape, Flags, HandlerTypes, TaskTypes, HandlerShape, Running
<1>8. TxShape'
    BY DEF TxShape, Flags, HandlerTypes, DbTypes, HandlerShape, TaskShape, Running
<1>9. RowsShape'
    BY DEF RowsShape, HandlerTypes, TaskTypes, DbTypes, HandlerShape, TaskShape, TxShape, Running
<1>10. CursorShape'
    BY DEF CursorShape, Flags, HandlerTypes, TaskTypes, DbTypes, HandlerShape, TaskShape, Running
<1> QED BY <1>1, <1>2, <1>3, <1>4, <1>5, <1>6, <1>7, <1>8, <1>9, <1>10

\* GsoapReceives: a chunk, the end or an error.
LEMMA GsoapReceivesInv ==
    ASSUME IInv, GsoapReceives
    PROVE  IInv'
<1> USE SizesAssumption DEF IInv, TypeOK, GsoapReceives, hVars, tVars, fifoVars, dbVars
<1>1. Flags'
    BY DEF Flags
<1>2. HandlerTypes'
    BY DEF HandlerTypes, HandlerAt
<1>3. FifoTypes'
    BY DEF FifoTypes
<1>4. TaskTypes'
    BY DEF TaskTypes, TaskAt, TaskShape
<1>5. DbTypes'
    BY DEF DbTypes, HandlerShape, TaskShape, RowsShape, CursorShape
<1>6. HandlerShape'
    BY DEF HandlerShape, Flags, HandlerTypes, TaskTypes, TaskShape, Running
<1>7. TaskShape'
    BY DEF TaskShape, Flags, HandlerTypes, TaskTypes, HandlerShape, Running
<1>8. TxShape'
    BY DEF TxShape, Flags, HandlerTypes, DbTypes, HandlerShape, TaskShape, Running
<1>9. RowsShape'
    BY DEF RowsShape, HandlerTypes, TaskTypes, DbTypes, HandlerShape, TaskShape, TxShape, Running
<1>10. CursorShape'
    BY DEF CursorShape, Flags, HandlerTypes, TaskTypes, DbTypes, HandlerShape, TaskShape, Running
<1> QED BY <1>1, <1>2, <1>3, <1>4, <1>5, <1>6, <1>7, <1>8, <1>9, <1>10

\* MTOMWrite: what fits is stored.
LEMMA MTOMWriteInv ==
    ASSUME IInv, MTOMWrite
    PROVE  IInv'
<1> USE SizesAssumption DEF IInv, TypeOK, MTOMWrite, Write, Rest, Woken, NotEmpty, hVars,
                            tVars, fifoVars, dbVars
<1>1. Flags'
    BY DEF Flags
<1>2. HandlerTypes'
  <2>1. left' \in 0 .. MaxChunk
      BY WriteFifo DEF HandlerTypes
  <2>2. h' \in HandlerAt
      BY DEF HandlerTypes, HandlerAt
  <2> QED BY <2>1, <2>2 DEF HandlerTypes
<1>3. FifoTypes'
    BY WriteFifo DEF HandlerTypes
<1>4. TaskTypes'
    BY DEF TaskTypes, TaskAt, TaskShape
<1>5. DbTypes'
    BY DEF DbTypes, HandlerShape, TaskShape, RowsShape, CursorShape
<1>6. HandlerShape'
    BY DEF HandlerShape, Flags, HandlerTypes, TaskTypes, TaskShape, Running
<1>7. TaskShape'
    BY DEF TaskShape, Flags, HandlerTypes, TaskTypes, HandlerShape, Running
<1>8. TxShape'
    BY DEF TxShape, Flags, HandlerTypes, DbTypes, HandlerShape, TaskShape, Running
<1>9. RowsShape'
    BY DEF RowsShape, HandlerTypes, TaskTypes, DbTypes, HandlerShape, TaskShape, TxShape, Running
<1>10. CursorShape'
    BY DEF CursorShape, Flags, HandlerTypes, TaskTypes, DbTypes, HandlerShape, TaskShape, Running
<1> QED BY <1>1, <1>2, <1>3, <1>4, <1>5, <1>6, <1>7, <1>8, <1>9, <1>10

\* GsoapGivesUp: the stream may stay open.
LEMMA GsoapGivesUpInv ==
    ASSUME IInv, GsoapGivesUp
    PROVE  IInv'
<1> USE SizesAssumption DEF IInv, TypeOK, GsoapGivesUp, hVars, tVars, fifoVars, dbVars
<1>1. Flags'
    BY DEF Flags
<1>2. HandlerTypes'
    BY DEF HandlerTypes, HandlerAt
<1>3. FifoTypes'
    BY DEF FifoTypes
<1>4. TaskTypes'
    BY DEF TaskTypes, TaskAt, TaskShape
<1>5. DbTypes'
    BY DEF DbTypes, HandlerShape, TaskShape, RowsShape, CursorShape
<1>6. HandlerShape'
    BY DEF HandlerShape, Flags, HandlerTypes, TaskTypes, TaskShape, Running
<1>7. TaskShape'
    BY DEF TaskShape, Flags, HandlerTypes, TaskTypes, HandlerShape, Running
<1>8. TxShape'
    BY DEF TxShape, Flags, HandlerTypes, DbTypes, HandlerShape, TaskShape, Running
<1>9. RowsShape'
    BY DEF RowsShape, HandlerTypes, TaskTypes, DbTypes, HandlerShape, TaskShape, TxShape, Running
<1>10. CursorShape'
    BY DEF CursorShape, Flags, HandlerTypes, TaskTypes, DbTypes, HandlerShape, TaskShape, Running
<1> QED BY <1>1, <1>2, <1>3, <1>4, <1>5, <1>6, <1>7, <1>8, <1>9, <1>10

\* StreamClose: the handler's end is closed.
LEMMA StreamCloseInv ==
    ASSUME IInv, StreamClose
    PROVE  IInv'
<1> USE SizesAssumption DEF IInv, TypeOK, StreamClose, Close, Woken, NotFull, NotEmpty, hVars,
                            tVars, fifoVars, dbVars
<1>1. Flags'
    BY DEF Flags
<1>2. HandlerTypes'
    BY DEF HandlerTypes, HandlerAt
<1>3. FifoTypes'
    BY DEF FifoTypes
<1>4. TaskTypes'
    BY DEF TaskTypes, TaskAt, TaskShape
<1>5. DbTypes'
    BY DEF DbTypes, HandlerShape, TaskShape, RowsShape, CursorShape
<1>6. HandlerShape'
    BY DEF HandlerShape, Flags, HandlerTypes, TaskTypes, TaskShape, Running
<1>7. TaskShape'
    BY DEF TaskShape, Flags, HandlerTypes, TaskTypes, HandlerShape, Running
<1>8. TxShape'
    BY DEF TxShape, Flags, HandlerTypes, DbTypes, HandlerShape, TaskShape, Running
<1>9. RowsShape'
    BY DEF RowsShape, HandlerTypes, TaskTypes, DbTypes, HandlerShape, TaskShape, TxShape, Running
<1>10. CursorShape'
    BY DEF CursorShape, Flags, HandlerTypes, TaskTypes, DbTypes, HandlerShape, TaskShape, Running
<1> QED BY <1>1, <1>2, <1>3, <1>4, <1>5, <1>6, <1>7, <1>8, <1>9, <1>10

\* TaskWait: the handler goes on only with the result.
LEMMA TaskWaitInv ==
    ASSUME IInv, TaskWait
    PROVE  IInv'
<1> USE SizesAssumption DEF IInv, TypeOK, TaskWait, AfterStream, hVars, tVars, fifoVars, dbVars
<1>1. Flags'
    BY DEF Flags
<1>2. HandlerTypes'
    BY DEF HandlerTypes, HandlerAt
<1>3. FifoTypes'
    BY DEF FifoTypes
<1>4. TaskTypes'
    BY DEF TaskTypes, TaskAt, TaskShape
<1>5. DbTypes'
    BY DEF DbTypes, HandlerShape, TaskShape, RowsShape, CursorShape
<1>6. HandlerShape'
    BY DEF HandlerShape, Flags, HandlerTypes, TaskTypes, TaskShape, Running
<1>7. TaskShape'
    BY DEF TaskShape, Flags, HandlerTypes, TaskTypes, HandlerShape, Running
<1>8. TxShape'
    BY DEF TxShape, Flags, HandlerTypes, DbTypes, HandlerShape, TaskShape, Running
<1>9. RowsShape'
    BY DEF RowsShape, HandlerTypes, TaskTypes, DbTypes, HandlerShape, TaskShape, TxShape, Running
<1>10. CursorShape'
    BY DEF CursorShape, Flags, HandlerTypes, TaskTypes, DbTypes, HandlerShape, TaskShape, Running
<1> QED BY <1>1, <1>2, <1>3, <1>4, <1>5, <1>6, <1>7, <1>8, <1>9, <1>10

\* Finish: the import is committed, or not.
LEMMA FinishInv ==
    ASSUME IInv, Finish
    PROVE  IInv'
<1> USE SizesAssumption DEF IInv, TypeOK, Finish, hVars, tVars, fifoVars, dbVars
<1>1. Flags'
    BY DEF Flags
<1>2. HandlerTypes'
    BY DEF HandlerTypes, HandlerAt
<1>3. FifoTypes'
    BY DEF FifoTypes
<1>4. TaskTypes'
    BY DEF TaskTypes, TaskAt, TaskShape
<1>5. DbTypes'
    BY DEF DbTypes, HandlerShape, TaskShape, RowsShape, CursorShape
<1>6. HandlerShape'
    BY DEF HandlerShape, Flags, HandlerTypes, TaskTypes, TaskShape, Running
<1>7. TaskShape'
    BY DEF TaskShape, Flags, HandlerTypes, TaskTypes, HandlerShape, Running
<1>8. TxShape'
    BY DEF TxShape, Flags, HandlerTypes, DbTypes, HandlerShape, TaskShape, Running
<1>9. RowsShape'
    BY DEF RowsShape, HandlerTypes, TaskTypes, DbTypes, HandlerShape, TaskShape, TxShape, Running
<1>10. CursorShape'
    BY DEF CursorShape, Flags, HandlerTypes, TaskTypes, DbTypes, HandlerShape, TaskShape, Running
<1> QED BY <1>1, <1>2, <1>3, <1>4, <1>5, <1>6, <1>7, <1>8, <1>9, <1>10

\* Rollback: what the task inserts from now on is stray.
LEMMA RollbackInv ==
    ASSUME IInv, Rollback
    PROVE  IInv'
<1> USE SizesAssumption DEF IInv, TypeOK, Rollback, hVars, tVars, fifoVars, dbVars
<1>1. Flags'
    BY DEF Flags
<1>2. HandlerTypes'
    BY DEF HandlerTypes, HandlerAt
<1>3. FifoTypes'
    BY DEF FifoTypes
<1>4. TaskTypes'
    BY DEF TaskTypes, TaskAt, TaskShape
<1>5. DbTypes'
    BY DEF DbTypes, HandlerShape, TaskShape, RowsShape, CursorShape
<1>6. HandlerShape'
    BY DEF HandlerShape, Flags, HandlerTypes, TaskTypes, TaskShape, Running
<1>7. TaskShape'
    BY DEF TaskShape, Flags, HandlerTypes, TaskTypes, HandlerShape, Running
<1>8. TxShape'
    BY DEF TxShape, Flags, HandlerTypes, DbTypes, HandlerShape, TaskShape, Running
<1>9. RowsShape'
    BY DEF RowsShape, HandlerTypes, TaskTypes, DbTypes, HandlerShape, TaskShape, TxShape, Running
<1>10. CursorShape'
    BY DEF CursorShape, Flags, HandlerTypes, TaskTypes, DbTypes, HandlerShape, TaskShape, Running
<1> QED BY <1>1, <1>2, <1>3, <1>4, <1>5, <1>6, <1>7, <1>8, <1>9, <1>10

\* ExportBegin: a new request.
LEMMA ExportBeginInv ==
    ASSUME IInv, ExportBegin
    PROVE  IInv'
<1> USE SizesAssumption DEF IInv, TypeOK, ExportBegin, Renew, hVars, tVars, fifoVars, dbVars
<1>1. Flags'
    BY DEF Flags
<1>2. HandlerTypes'
    BY DEF HandlerTypes, HandlerAt
<1>3. FifoTypes'
    BY DEF FifoTypes
<1>4. TaskTypes'
    BY DEF TaskTypes, TaskAt, TaskShape
<1>5. DbTypes'
    BY DEF DbTypes, HandlerShape, TaskShape, RowsShape, CursorShape
<1>6. HandlerShape'
    BY DEF HandlerShape, Flags, HandlerTypes, TaskTypes, TaskShape, Running
<1>7. TaskShape'
    BY DEF TaskShape, Flags, HandlerTypes, TaskTypes, HandlerShape, Running
<1>8. TxShape'
    BY DEF TxShape, Flags, HandlerTypes, DbTypes, HandlerShape, TaskShape, Running
<1>9. RowsShape'
    BY DEF RowsShape, HandlerTypes, TaskTypes, DbTypes, HandlerShape, TaskShape, TxShape, Running
<1>10. CursorShape'
    BY DEF CursorShape, Flags, HandlerTypes, TaskTypes, DbTypes, HandlerShape, TaskShape, Running
<1> QED BY <1>1, <1>2, <1>3, <1>4, <1>5, <1>6, <1>7, <1>8, <1>9, <1>10

\* MTOMReadOpen: the next message of an export.
LEMMA MTOMReadOpenInv ==
    ASSUME IInv, MTOMReadOpen
    PROVE  IInv'
<1> USE SizesAssumption DEF IInv, TypeOK, MTOMReadOpen, OpenStream, Woken, hVars, tVars,
                            fifoVars, dbVars
<1>1. Flags'
    BY DEF Flags
<1>2. HandlerTypes'
    BY DEF HandlerTypes, HandlerAt
<1>3. FifoTypes'
    BY DEF FifoTypes
<1>4. TaskTypes'
    BY DEF TaskTypes, TaskAt, TaskShape
<1>5. DbTypes'
    BY DEF DbTypes, HandlerShape, TaskShape, RowsShape, CursorShape
<1>6. HandlerShape'
    BY DEF HandlerShape, Flags, HandlerTypes, TaskTypes, TaskShape, Running
<1>7. TaskShape'
    BY DEF TaskShape, Flags, HandlerTypes, TaskTypes, HandlerShape, Running
<1>8. TxShape'
    BY DEF TxShape, Flags, HandlerTypes, DbTypes, HandlerShape, TaskShape, Running
<1>9. RowsShape'
    BY DEF RowsShape, HandlerTypes, TaskTypes, DbTypes, HandlerShape, TaskShape, TxShape, Running
<1>10. CursorShape'
    BY DEF CursorShape, Flags, HandlerTypes, TaskTypes, DbTypes, HandlerShape, TaskShape, Running
<1> QED BY <1>1, <1>2, <1>3, <1>4, <1>5, <1>6, <1>7, <1>8, <1>9, <1>10

\* GsoapSends: gSOAP asks for more, or stops.
LEMMA GsoapSendsInv ==
    ASSUME IInv, GsoapSends
    PROVE  IInv'
<1> USE SizesAssumption DEF IInv, TypeOK, GsoapSends, hVars, tVars, fifoVars, dbVars
<1>1. Flags'
    BY DEF Flags
<1>2. HandlerTypes'
    BY DEF HandlerTypes, HandlerAt
<1>3. FifoTypes'
    BY DEF FifoTypes
<1>4. TaskTypes'
    BY DEF TaskTypes, TaskAt, TaskShape
<1>5. DbTypes'
    BY DEF DbTypes, HandlerShape, TaskShape, RowsShape, CursorShape
<1>6. HandlerShape'
    BY DEF HandlerShape, Flags, HandlerTypes, TaskTypes, TaskShape, Running
<1>7. TaskShape'
    BY DEF TaskShape, Flags, HandlerTypes, TaskTypes, HandlerShape, Running
<1>8. TxShape'
    BY DEF TxShape, Flags, HandlerTypes, DbTypes, HandlerShape, TaskShape, Running
<1>9. RowsShape'
    BY DEF RowsShape, HandlerTypes, TaskTypes, DbTypes, HandlerShape, TaskShape, TxShape, Running
<1>10. CursorShape'
    BY DEF CursorShape, Flags, HandlerTypes, TaskTypes, DbTypes, HandlerShape, TaskShape, Running
<1> QED BY <1>1, <1>2, <1>3, <1>4, <1>5, <1>6, <1>7, <1>8, <1>9, <1>10

\* MTOMRead: what is there is sent.
LEMMA MTOMReadInv ==
    ASSUME IInv, MTOMRead
    PROVE  IInv'
<1> USE SizesAssumption DEF IInv, TypeOK, MTOMRead, Read, Lack, AfterRead, Woken, NotFull,
                            hVars, tVars, fifoVars, dbVars
<1>1. Flags'
    BY DEF Flags
<1>2. HandlerTypes'
  <2>1. left' \in 0 .. MaxChunk
      BY ReadFifo DEF HandlerTypes
  <2>2. h' \in HandlerAt
      BY DEF HandlerTypes, HandlerAt
  <2> QED BY <2>1, <2>2 DEF HandlerTypes
<1>3. FifoTypes'
    BY ReadFifo DEF HandlerTypes
<1>4. TaskTypes'
    BY DEF TaskTypes, TaskAt, TaskShape
<1>5. DbTypes'
    BY DEF DbTypes, HandlerShape, TaskShape, RowsShape, CursorShape
<1>6. HandlerShape'
    BY DEF HandlerShape, Flags, HandlerTypes, TaskTypes, TaskShape, Running
<1>7. TaskShape'
    BY DEF TaskShape, Flags, HandlerTypes, TaskTypes, HandlerShape, Running
<1>8. TxShape'
    BY DEF TxShape, Flags, HandlerTypes, DbTypes, HandlerShape, TaskShape, Running
<1>9. RowsShape'
    BY DEF RowsShape, HandlerTypes, TaskTypes, DbTypes, HandlerShape, TaskShape, TxShape, Running
<1>10. CursorShape'
    BY DEF CursorShape, Flags, HandlerTypes, TaskTypes, DbTypes, HandlerShape, TaskShape, Running
<1> QED BY <1>1, <1>2, <1>3, <1>4, <1>5, <1>6, <1>7, <1>8, <1>9, <1>10

\* SessionDone: a stream that was left open is closed.
LEMMA SessionDoneInv ==
    ASSUME IInv, SessionDone
    PROVE  IInv'
<1> USE SizesAssumption DEF IInv, TypeOK, SessionDone, hVars, tVars, fifoVars, dbVars
<1>1. Flags'
    BY DEF Flags
<1>2. HandlerTypes'
    BY DEF HandlerTypes, HandlerAt
<1>3. FifoTypes'
    BY DEF FifoTypes
<1>4. TaskTypes'
    BY DEF TaskTypes, TaskAt, TaskShape
<1>5. DbTypes'
    BY DEF DbTypes, HandlerShape, TaskShape, RowsShape, CursorShape
<1>6. HandlerShape'
    BY DEF HandlerShape, Flags, HandlerTypes, TaskTypes, TaskShape, Running
<1>7. TaskShape'
    BY DEF TaskShape, Flags, HandlerTypes, TaskTypes, HandlerShape, Running
<1>8. TxShape'
    BY DEF TxShape, Flags, HandlerTypes, DbTypes, HandlerShape, TaskShape, Running
<1>9. RowsShape'
    BY DEF RowsShape, HandlerTypes, TaskTypes, DbTypes, HandlerShape, TaskShape, TxShape, Running
<1>10. CursorShape'
    BY DEF CursorShape, Flags, HandlerTypes, TaskTypes, DbTypes, HandlerShape, TaskShape, Running
<1> QED BY <1>1, <1>2, <1>3, <1>4, <1>5, <1>6, <1>7, <1>8, <1>9, <1>10

\* Release: the thread is told to stop.
LEMMA ReleaseInv ==
    ASSUME IInv, Release
    PROVE  IInv'
<1> USE SizesAssumption DEF IInv, TypeOK, Release, Woken, hVars, tVars, fifoVars, dbVars
<1>1. Flags'
    BY DEF Flags
<1>2. HandlerTypes'
    BY DEF HandlerTypes, HandlerAt
<1>3. FifoTypes'
    BY DEF FifoTypes
<1>4. TaskTypes'
    BY DEF TaskTypes, TaskAt, TaskShape
<1>5. DbTypes'
    BY DEF DbTypes, HandlerShape, TaskShape, RowsShape, CursorShape
<1>6. HandlerShape'
    BY DEF HandlerShape, Flags, HandlerTypes, TaskTypes, TaskShape, Running
<1>7. TaskShape'
    BY DEF TaskShape, Flags, HandlerTypes, TaskTypes, HandlerShape, Running
<1>8. TxShape'
    BY DEF TxShape, Flags, HandlerTypes, DbTypes, HandlerShape, TaskShape, Running
<1>9. RowsShape'
    BY DEF RowsShape, HandlerTypes, TaskTypes, DbTypes, HandlerShape, TaskShape, TxShape, Running
<1>10. CursorShape'
    BY DEF CursorShape, Flags, HandlerTypes, TaskTypes, DbTypes, HandlerShape, TaskShape, Running
<1> QED BY <1>1, <1>2, <1>3, <1>4, <1>5, <1>6, <1>7, <1>8, <1>9, <1>10

\* GetNextTask: the thread starts a task, sleeps or ends.
LEMMA GetNextTaskInv ==
    ASSUME IInv, GetNextTask
    PROVE  IInv'
<1> USE SizesAssumption DEF IInv, TypeOK, GetNextTask, Woken, hVars, tVars, fifoVars, dbVars
<1>1. Flags'
    BY DEF Flags
<1>2. HandlerTypes'
    BY DEF HandlerTypes, HandlerAt
<1>3. FifoTypes'
    BY DEF FifoTypes
<1>4. TaskTypes'
    BY DEF TaskTypes, TaskAt, TaskShape
<1>5. DbTypes'
    BY DEF DbTypes, HandlerShape, TaskShape, RowsShape, CursorShape
<1>6. HandlerShape'
    BY DEF HandlerShape, Flags, HandlerTypes, TaskTypes, TaskShape, Running
<1>7. TaskShape'
    BY DEF TaskShape, Flags, HandlerTypes, TaskTypes, HandlerShape, Running
<1>8. TxShape'
    BY DEF TxShape, Flags, HandlerTypes, DbTypes, HandlerShape, TaskShape, Running
<1>9. RowsShape'
    BY DEF RowsShape, HandlerTypes, TaskTypes, DbTypes, HandlerShape, TaskShape, TxShape, Running
<1>10. CursorShape'
    BY DEF CursorShape, Flags, HandlerTypes, TaskTypes, DbTypes, HandlerShape, TaskShape, Running
<1> QED BY <1>1, <1>2, <1>3, <1>4, <1>5, <1>6, <1>7, <1>8, <1>9, <1>10

\* TaskRead: a value, a part of it, or the end.
LEMMA TaskReadInv ==
    ASSUME IInv, TaskRead
    PROVE  IInv'
<1> USE SizesAssumption DEF IInv, TypeOK, TaskRead, Read, Lack, Woken, NotFull, hVars, tVars,
                            fifoVars, dbVars
<1>1. Flags'
    BY DEF Flags
<1>2. HandlerTypes'
    BY DEF HandlerTypes, HandlerAt
<1>3. FifoTypes'
    BY ReadFifo DEF TaskTypes
<1>4. TaskTypes'
  <2>1. trem' \in 0 .. ItemSize
      BY ReadFifo DEF TaskTypes
  <2>2. t' \in TaskAt /\ res' \in {"ok", "failed"}
      BY DEF TaskTypes, TaskAt
  <2> QED BY <2>1, <2>2 DEF TaskTypes
<1>5. DbTypes'
    BY DEF DbTypes, HandlerShape, TaskShape, RowsShape, CursorShape
<1>6. HandlerShape'
    BY DEF HandlerShape, Flags, HandlerTypes, TaskTypes, TaskShape, Running
<1>7. TaskShape'
    BY DEF TaskShape, Flags, HandlerTypes, TaskTypes, HandlerShape, Running
<1>8. TxShape'
    BY DEF TxShape, Flags, HandlerTypes, DbTypes, HandlerShape, TaskShape, Running
<1>9. RowsShape'
    BY DEF RowsShape, HandlerTypes, TaskTypes, DbTypes, HandlerShape, TaskShape, TxShape, Running
<1>10. CursorShape'
    BY DEF CursorShape, Flags, HandlerTypes, TaskTypes, DbTypes, HandlerShape, TaskShape, Running
<1> QED BY <1>1, <1>2, <1>3, <1>4, <1>5, <1>6, <1>7, <1>8, <1>9, <1>10

\* TaskInsert: a row, in the transaction or after it.
LEMMA TaskInsertInv ==
    ASSUME IInv, TaskInsert
    PROVE  IInv'
<1> USE SizesAssumption DEF IInv, TypeOK, TaskInsert, hVars, tVars, fifoVars, dbVars
<1>1. Flags'
    BY DEF Flags
<1>2. HandlerTypes'
    BY DEF HandlerTypes, HandlerAt
<1>3. FifoTypes'
    BY DEF FifoTypes
<1>4. TaskTypes'
    BY DEF TaskTypes, TaskAt, TaskShape
<1>5. DbTypes'
  <2>1. done < Items /\ rows + stray <= done
      BY DEF HandlerShape, TaskShape, RowsShape, Running
  <2> QED BY <2>1 DEF DbTypes, TaskTypes
<1>6. HandlerShape'
    BY DEF HandlerShape, Flags, HandlerTypes, TaskTypes, TaskShape, Running
<1>7. TaskShape'
    BY DEF TaskShape, Flags, HandlerTypes, TaskTypes, HandlerShape, Running
<1>8. TxShape'
    BY DEF TxShape, Flags, HandlerTypes, DbTypes, HandlerShape, TaskShape, Running
<1>9. RowsShape'
    BY DEF RowsShape, HandlerTypes, TaskTypes, DbTypes, HandlerShape, TaskShape, TxShape, Running
<1>10. CursorShape'
    BY DEF CursorShape, Flags, HandlerTypes, TaskTypes, DbTypes, HandlerShape, TaskShape, Running
<1> QED BY <1>1, <1>2, <1>3, <1>4, <1>5, <1>6, <1>7, <1>8, <1>9, <1>10

\* TaskFlush: the rest is thrown away.
LEMMA TaskFlushInv ==
    ASSUME IInv, TaskFlush
    PROVE  IInv'
<1> USE SizesAssumption DEF IInv, TypeOK, TaskFlush, Read, Lack, Woken, NotFull, hVars, tVars,
                            fifoVars, dbVars
<1>1. Flags'
    BY DEF Flags
<1>2. HandlerTypes'
    BY DEF HandlerTypes, HandlerAt
<1>3. FifoTypes'
  <2>1. Cap + 1 \in Nat
      OBVIOUS
  <2> QED BY <2>1, ReadFifo
<1>4. TaskTypes'
    BY DEF TaskTypes, TaskAt, TaskShape
<1>5. DbTypes'
    BY DEF DbTypes, HandlerShape, TaskShape, RowsShape, CursorShape
<1>6. HandlerShape'
    BY DEF HandlerShape, Flags, HandlerTypes, TaskTypes, TaskShape, Running
<1>7. TaskShape'
    BY DEF TaskShape, Flags, HandlerTypes, TaskTypes, HandlerShape, Running
<1>8. TxShape'
    BY DEF TxShape, Flags, HandlerTypes, DbTypes, HandlerShape, TaskShape, Running
<1>9. RowsShape'
    BY DEF RowsShape, HandlerTypes, TaskTypes, DbTypes, HandlerShape, TaskShape, TxShape, Running
<1>10. CursorShape'
    BY DEF CursorShape, Flags, HandlerTypes, TaskTypes, DbTypes, HandlerShape, TaskShape, Running
<1> QED BY <1>1, <1>2, <1>3, <1>4, <1>5, <1>6, <1>7, <1>8, <1>9, <1>10

\* TaskWrite: a value, a part of it, or an error.
LEMMA TaskWriteInv ==
    ASSUME IInv, TaskWrite
    PROVE  IInv'
<1> USE SizesAssumption DEF IInv, TypeOK, TaskWrite, Write, Rest, Woken, NotEmpty, hVars,
                            tVars, fifoVars, dbVars
<1>1. Flags'
    BY DEF Flags
<1>2. HandlerTypes'
    BY DEF HandlerTypes, HandlerAt
<1>3. FifoTypes'
  <2>1. CASE Write("T", trem)
      BY <2>1, WriteFifo DEF TaskTypes
  <2>2. CASE UNCHANGED <<fifoVars, asleep>>
      BY <2>2 DEF FifoTypes
  <2> QED BY <2>1, <2>2
<1>4. TaskTypes'
  <2>1. Rest(trem) \in 0 .. trem
      BY RestIsPart DEF FifoTypes, TaskTypes
  <2>2. trem' \in 0 .. ItemSize /\ done' \in 0 .. Items
      BY <2>1 DEF TaskTypes, TaskShape
  <2>3. t' \in TaskAt /\ res' \in {"ok", "failed"}
      BY DEF TaskTypes, TaskAt
  <2> QED BY <2>2, <2>3 DEF TaskTypes
<1>5. DbTypes'
  <2>1. cursor' \in 0 .. MaxStreams * Items
      BY WriteMovesCursor
  <2> QED BY <2>1 DEF DbTypes
<1>6. HandlerShape'
    BY DEF HandlerShape, Flags, HandlerTypes, TaskTypes, TaskShape, Running
<1>7. TaskShape'
  <2>1. t \in {"write"} /\ t' \in {"write", "shut"} /\ done < Items /\ done \in Nat
      BY DEF TaskShape, TaskTypes
  <2>2. t' = "write" => done' < Items
      BY <2>1
  <2>3. t' = "shut" /\ res' = "ok" => done' = Items
      BY <2>1
  <2> QED BY <2>1, <2>2, <2>3 DEF TaskShape, HandlerShape, Running
<1>8. TxShape'
    BY DEF TxShape, Flags, HandlerTypes, DbTypes, HandlerShape, TaskShape, Running
<1>9. RowsShape'
    BY DEF RowsShape, HandlerTypes, TaskTypes, DbTypes, HandlerShape, TaskShape, TxShape, Running
<1>10. CursorShape'
  <2>1. CASE UNCHANGED <<cursor, done>>
    <3>1. done' # Items
        BY <2>1 DEF TaskShape, TaskTypes
    <3>2. t' = "write" \/ (t' = "shut" /\ res' = "failed")
        BY <3>1
    <3>3. streams' = streams /\ t = "write" /\ task' = "running" /\ call' = "export"
        BY DEF TaskShape, Running
    <3> QED BY <2>1, <3>2, <3>3 DEF CursorShape, HandlerTypes, HandlerShape, TaskShape
  <2>2. CASE cursor' = cursor + 1 /\ done' = done + 1
    <3> DEFINE B == streams.open * Items
    <3>1. B \in Nat /\ cursor + Items = B + done /\ done < Items
        BY ProductIsNat DEF CursorShape, TaskShape, HandlerTypes
    <3>2. cursor' + Items = B + done' /\ cursor' <= B /\ (done' = Items => cursor' = B)
        BY <2>2, <3>1 DEF DbTypes, TaskTypes
    <3>3. t' = "shut" /\ res' = "ok" => done' = Items
        BY <2>2 DEF TaskTypes
    <3>4. streams' = streams /\ t' \in {"write", "shut"} /\ task' = "running" /\ call' = "export"
        BY DEF TaskShape, Running
    <3> QED BY <3>2, <3>3, <3>4 DEF CursorShape, HandlerTypes, HandlerShape
  <2> QED BY <2>1, <2>2
<1> QED BY <1>1, <1>2, <1>3, <1>4, <1>5, <1>6, <1>7, <1>8, <1>9, <1>10

\* TaskShut: the task's end is closed.
LEMMA TaskShutInv ==
    ASSUME IInv, TaskShut
    PROVE  IInv'
<1> USE SizesAssumption DEF IInv, TypeOK, TaskShut, Close, Woken, NotFull, NotEmpty, hVars,
                            tVars, fifoVars, dbVars
<1>1. Flags'
    BY DEF Flags
<1>2. HandlerTypes'
    BY DEF HandlerTypes, HandlerAt
<1>3. FifoTypes'
    BY DEF FifoTypes
<1>4. TaskTypes'
    BY DEF TaskTypes, TaskAt, TaskShape
<1>5. DbTypes'
    BY DEF DbTypes, HandlerShape, TaskShape, RowsShape, CursorShape
<1>6. HandlerShape'
    BY DEF HandlerShape, Flags, HandlerTypes, TaskTypes, TaskShape, Running
<1>7. TaskShape'
    BY DEF TaskShape, Flags, HandlerTypes, TaskTypes, HandlerShape, Running
<1>8. TxShape'
    BY DEF TxShape, Flags, HandlerTypes, DbTypes, HandlerShape, TaskShape, Running
<1>9. RowsShape'
    BY DEF RowsShape, HandlerTypes, TaskTypes, DbTypes, HandlerShape, TaskShape, TxShape, Running
<1>10. CursorShape'
    BY DEF CursorShape, Flags, HandlerTypes, TaskTypes, DbTypes, HandlerShape, TaskShape, Running
<1> QED BY <1>1, <1>2, <1>3, <1>4, <1>5, <1>6, <1>7, <1>8, <1>9, <1>10

\* TaskReport: the result of an export.
LEMMA TaskReportInv ==
    ASSUME IInv, TaskReport
    PROVE  IInv'
<1> USE SizesAssumption DEF IInv, TypeOK, TaskReport, hVars, tVars, fifoVars, dbVars
<1>1. Flags'
    BY DEF Flags
<1>2. HandlerTypes'
    BY DEF HandlerTypes, HandlerAt
<1>3. FifoTypes'
    BY DEF FifoTypes
<1>4. TaskTypes'
    BY DEF TaskTypes, TaskAt, TaskShape
<1>5. DbTypes'
    BY DEF DbTypes, HandlerShape, TaskShape, RowsShape, CursorShape
<1>6. HandlerShape'
    BY DEF HandlerShape, Flags, HandlerTypes, TaskTypes, TaskShape, Running
<1>7. TaskShape'
    BY DEF TaskShape, Flags, HandlerTypes, TaskTypes, HandlerShape, Running
<1>8. TxShape'
    BY DEF TxShape, Flags, HandlerTypes, DbTypes, HandlerShape, TaskShape, Running
<1>9. RowsShape'
    BY DEF RowsShape, HandlerTypes, TaskTypes, DbTypes, HandlerShape, TaskShape, TxShape, Running
<1>10. CursorShape'
    BY DEF CursorShape, Flags, HandlerTypes, TaskTypes, DbTypes, HandlerShape, TaskShape, Running
<1> QED BY <1>1, <1>2, <1>3, <1>4, <1>5, <1>6, <1>7, <1>8, <1>9, <1>10

\* TaskDone: the handler may go on.
LEMMA TaskDoneInv ==
    ASSUME IInv, TaskDone
    PROVE  IInv'
<1> USE SizesAssumption DEF IInv, TypeOK, TaskDone, Woken, hVars, tVars, fifoVars, dbVars
<1>1. Flags'
    BY DEF Flags
<1>2. HandlerTypes'
    BY DEF HandlerTypes, HandlerAt
<1>3. FifoTypes'
    BY DEF FifoTypes
<1>4. TaskTypes'
    BY DEF TaskTypes, TaskAt, TaskShape
<1>5. DbTypes'
    BY DEF DbTypes, HandlerShape, TaskShape, RowsShape, CursorShape
<1>6. HandlerShape'
    BY DEF HandlerShape, Flags, HandlerTypes, TaskTypes, TaskShape, Running
<1>7. TaskShape'
    BY DEF TaskShape, Flags, HandlerTypes, TaskTypes, HandlerShape, Running
<1>8. TxShape'
    BY DEF TxShape, Flags, HandlerTypes, DbTypes, HandlerShape, TaskShape, Running
<1>9. RowsShape'
    BY DEF RowsShape, HandlerTypes, TaskTypes, DbTypes, HandlerShape, TaskShape, TxShape, Running
<1>10. CursorShape'
    BY DEF CursorShape, Flags, HandlerTypes, TaskTypes, DbTypes, HandlerShape, TaskShape, Running
<1> QED BY <1>1, <1>2, <1>3, <1>4, <1>5, <1>6, <1>7, <1>8, <1>9, <1>10

\* HandlerTimeout: the handler gives up.
LEMMA HandlerTimeoutInv ==
    ASSUME IInv, HandlerTimeout
    PROVE  IInv'
<1> USE SizesAssumption DEF IInv, TypeOK, HandlerTimeout, AfterRead, hVars, tVars, fifoVars,
                            dbVars
<1>1. Flags'
    BY DEF Flags
<1>2. HandlerTypes'
    BY DEF HandlerTypes, HandlerAt
<1>3. FifoTypes'
    BY DEF FifoTypes
<1>4. TaskTypes'
    BY DEF TaskTypes, TaskAt, TaskShape
<1>5. DbTypes'
    BY DEF DbTypes, HandlerShape, TaskShape, RowsShape, CursorShape
<1>6. HandlerShape'
    BY DEF HandlerShape, Flags, HandlerTypes, TaskTypes, TaskShape, Running
<1>7. TaskShape'
    BY DEF TaskShape, Flags, HandlerTypes, TaskTypes, HandlerShape, Running
<1>8. TxShape'
    BY DEF TxShape, Flags, HandlerTypes, DbTypes, HandlerShape, TaskShape, Running
<1>9. RowsShape'
    BY DEF RowsShape, HandlerTypes, TaskTypes, DbTypes, HandlerShape, TaskShape, TxShape, Running
<1>10. CursorShape'
    BY DEF CursorShape, Flags, HandlerTypes, TaskTypes, DbTypes, HandlerShape, TaskShape, Running
<1> QED BY <1>1, <1>2, <1>3, <1>4, <1>5, <1>6, <1>7, <1>8, <1>9, <1>10

\* TaskTimeout: the task gives up.
LEMMA TaskTimeoutInv ==
    ASSUME IInv, TaskTimeout
    PROVE  IInv'
<1> USE SizesAssumption DEF IInv, TypeOK, TaskTimeout, hVars, tVars, fifoVars, dbVars
<1>1. Flags'
    BY DEF Flags
<1>2. HandlerTypes'
    BY DEF HandlerTypes, HandlerAt
<1>3. FifoTypes'
    BY DEF FifoTypes
<1>4. TaskTypes'
    BY DEF TaskTypes, TaskAt, TaskShape
<1>5. DbTypes'
    BY DEF DbTypes, HandlerShape, TaskShape, RowsShape, CursorShape
<1>6. HandlerShape'
    BY DEF HandlerShape, Flags, HandlerTypes, TaskTypes, TaskShape, Running
<1>7. TaskShape'
    BY DEF TaskShape, Flags, HandlerTypes, TaskTypes, HandlerShape, Running
<1>8. TxShape'
    BY DEF TxShape, Flags, HandlerTypes, DbTypes, HandlerShape, TaskShape, Running
<1>9. RowsShape'
    BY DEF RowsShape, HandlerTypes, TaskTypes, DbTypes, HandlerShape, TaskShape, TxShape, Running
<1>10. CursorShape'
    BY DEF CursorShape, Flags, HandlerTypes, TaskTypes, DbTypes, HandlerShape, TaskShape, Running
<1> QED BY <1>1, <1>2, <1>3, <1>4, <1>5, <1>6, <1>7, <1>8, <1>9, <1>10

\* SpuriousWakeup: nothing but a wake-up.
LEMMA SpuriousWakeupInv ==
    ASSUME IInv, SpuriousWakeup
    PROVE  IInv'
<1> USE SizesAssumption DEF IInv, TypeOK, SpuriousWakeup, hVars, tVars, fifoVars, dbVars
<1>1. Flags'
    BY DEF Flags
<1>2. HandlerTypes'
    BY DEF HandlerTypes, HandlerAt
<1>3. FifoTypes'
    BY DEF FifoTypes
<1>4. TaskTypes'
    BY DEF TaskTypes, TaskAt, TaskShape
<1>5. DbTypes'
    BY DEF DbTypes, HandlerShape, TaskShape, RowsShape, CursorShape
<1>6. HandlerShape'
    BY DEF HandlerShape, Flags, HandlerTypes, TaskTypes, TaskShape, Running
<1>7. TaskShape'
    BY DEF TaskShape, Flags, HandlerTypes, TaskTypes, HandlerShape, Running
<1>8. TxShape'
    BY DEF TxShape, Flags, HandlerTypes, DbTypes, HandlerShape, TaskShape, Running
<1>9. RowsShape'
    BY DEF RowsShape, HandlerTypes, TaskTypes, DbTypes, HandlerShape, TaskShape, TxShape, Running
<1>10. CursorShape'
    BY DEF CursorShape, Flags, HandlerTypes, TaskTypes, DbTypes, HandlerShape, TaskShape, Running
<1> QED BY <1>1, <1>2, <1>3, <1>4, <1>5, <1>6, <1>7, <1>8, <1>9, <1>10

\* Stuttering.
LEMMA StutterInv == IInv /\ UNCHANGED vars => IInv'
BY DEF IInv, TypeOK, Flags, HandlerTypes, FifoTypes, TaskTypes, DbTypes, HandlerShape, TaskShape,
       TxShape, RowsShape, CursorShape, vars, hVars, tVars, fifoVars, dbVars

\* Whatever the handler, the task, the client and the timeouts do, in any order.
LEMMA NextInv == IInv /\ [Next]_vars => IInv'
<1> SUFFICES ASSUME IInv, [Next]_vars PROVE IInv'
    OBVIOUS
<1>1. CASE HandlerStep
    BY <1>1, NoAttachmentInv, MTOMWriteOpenInv, GsoapReceivesInv, MTOMWriteInv, GsoapGivesUpInv,
       StreamCloseInv, TaskWaitInv, FinishInv, RollbackInv, MTOMReadOpenInv, GsoapSendsInv,
       MTOMReadInv, SessionDoneInv, ReleaseInv, JoinInv
       DEF HandlerStep
<1>2. CASE TaskStep
    BY <1>2, GetNextTaskInv, TaskReadInv, TaskInsertInv, TaskFlushInv, TaskWriteInv, TaskShutInv,
       TaskReportInv, TaskDoneInv
       DEF TaskStep
<1> QED BY <1>1, <1>2, ImportBeginInv, ExportBeginInv, HandlerTimeoutInv, TaskTimeoutInv,
           SpuriousWakeupInv, StutterInv
        DEF Next

\* The invariant holds of every behaviour.
THEOREM StreamInvariant == Spec => []IInv
BY InitInv, NextInv, PTL DEF Spec

\* Amounts, counters and the places of both threads stay in their ranges: the fifo never
\* holds more than its size, and no task reads or writes more values than a message has.
THEOREM StreamTypeCorrect == Spec => []TypeOK
<1>1. IInv => TypeOK
    BY DEF IInv
<1> QED BY <1>1, StreamInvariant, PTL

\* MTOMWriteClose and MTOMReadClose wait for the task before anybody uses what it was lent,
\* and no row is inserted after a rollback, but for the stream that gSOAP left open.
THEOREM TasksAreAlone == Spec => []TaskIsAlone
<1>1. IInv => TaskIsAlone
    BY DEF IInv, TypeOK, TaskTypes, DbTypes, TaskIsAlone, TaskIsWaitedFor,
           NothingAfterRollback, Working,
           HandlerShape, TaskShape, RowsShape, Running
<1> QED BY <1>1, StreamInvariant, PTL

\* An import that is committed has all of its values, or there was no attachment.
THEOREM CommitsAreComplete == Spec => []CommittedIsComplete
<1>1. IInv => CommittedIsComplete
    BY DEF IInv, RowsShape, CommittedIsComplete
<1> QED BY <1>1, StreamInvariant, PTL

\* Each task of an export reads its own part of the shared query.
THEOREM StreamsStayApart == Spec => []StreamsNotMixed
<1>1. IInv => StreamsNotMixed
  <2> SUFFICES ASSUME IInv, t = "write" PROVE cursor = (streams.open - 1) * Items + done
      BY DEF StreamsNotMixed
  <2>1. streams.open \in Int /\ Items \in Int /\ cursor \in Int /\ done \in Int
      BY SizesAssumption DEF IInv, TypeOK, HandlerTypes, TaskTypes, DbTypes
  <2>2. cursor + Items = streams.open * Items + done
      BY DEF IInv, TaskShape, CursorShape
  <2>3. \A a, b \in Int : a * b \in Int /\ (a - 1) * b = a * b - b
      BY SMTT(30)
  <2>4. /\ (streams.open - 1) * Items = streams.open * Items - Items
        /\ streams.open * Items \in Int
      BY <2>1, <2>3
  <2> DEFINE upto == streams.open * Items
             from == (streams.open - 1) * Items
  <2>5. from = upto - Items /\ upto \in Int /\ cursor + Items = upto + done
      BY <2>2, <2>4
  <2> HIDE DEF upto, from
  <2>6. cursor = from + done
      BY <2>1, <2>5
  <2> QED BY <2>6 DEF from
<1> QED BY <1>1, StreamInvariant, PTL
===============================================================================
