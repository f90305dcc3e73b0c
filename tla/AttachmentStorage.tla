-------------------------- MODULE AttachmentStorage --------------------------
(***************************************************************************)
(* Large properties in files: ECAttachmentStorage and ECFileAttachment.    *)
(*                                                                         *)
(* The table `singleinstances` says which object refers to which instance, *)
(* the file of an instance has its data, and an instance without           *)
(* references is deleted.  Rows are under the transaction of the database; *)
(* files are not, so the storage keeps its own: what it created, what it   *)
(* will delete, and what it has renamed to ".deleted" because something    *)
(* takes its place.  Each thread has a storage object and a database       *)
(* connection of its own, and nothing is locked but rows.                  *)
(*                                                                         *)
(* The database is InnoDB with its default isolation: a plain SELECT reads *)
(* a snapshot of the first one of the transaction with the transaction's   *)
(* own changes on top; writes, and the SELECT of an INSERT ... SELECT, see *)
(* what is committed, and wait for rows that another transaction wrote.    *)
(***************************************************************************)
EXTENDS Integers, FiniteSets

CONSTANTS
    Workers,   \* threads with a transaction
    Objects,   \* hierarchy ids, with one large property each
    MaxInst    \* bound of the model: instance ids that are drawn

ASSUME InstancesAssumption == MaxInst \in Nat

VARIABLES
    rows,      \* `singleinstances`, committed: pairs <<object, instance>>
    nextInst,  \* its auto_increment counter
    files,     \* instances whose file exists
    marked,    \* instances with a ".deleted" file
    tx,        \* per thread: its transaction
    lost,      \* history: instances whose file a fault or a race may have taken from a row
    left       \* history: instances whose file a fault or a race may have left behind

historyVars == <<lost, left>>
storageVars == <<rows, nextInst, files, marked, tx, historyVars>>

Instances == 1..MaxInst
Pairs == Objects \X Instances

NoTx == [st |-> "none", snap |-> {}, ins |-> {}, gone |-> {}, src |-> {},
         new |-> {}, del |-> {}, mark |-> {}]

Transactions ==
    [st : {"none", "open", "stored"},  \* m_bTransaction; "stored": the storage has committed
     snap : SUBSET Pairs,              \* what plain SELECTs read
     ins : SUBSET Pairs,               \* rows it has inserted
     gone : SUBSET Pairs,              \* rows it has deleted
     src : SUBSET Objects,             \* objects whose rows it has locked for reading
     new : SUBSET Instances,           \* m_setNewAttachment
     del : SUBSET Instances,           \* m_setDeletedAttachment
     mark : SUBSET Instances]          \* m_setMarkedAttachment

StorageTypeOK ==
    /\ rows \subseteq Pairs
    /\ \A p, q \in rows : p[1] = q[1] => p = q
    /\ nextInst \in 1..(MaxInst + 1)
    /\ files \subseteq Instances /\ marked \subseteq Instances
    /\ lost \subseteq Instances /\ left \subseteq Instances
    /\ tx \in [Workers -> Transactions]

StorageInit ==
    /\ rows = {} /\ nextInst = 1 /\ files = {} /\ marked = {} /\ lost = {} /\ left = {}
    /\ tx = [w \in Workers |-> NoTx]

-------------------------------------------------------------------------------
(* What a transaction sees, and what it has to wait for.                   *)

RowsOf(S, D) == {p \in S : p[1] \in D}
RefsTo(S, i) == {p \in S : p[2] = i}
IdsOf(S) == {p[2] : p \in S}

View(t) == (t.snap \ t.gone) \cup t.ins

Touched(w) == {p[1] : p \in tx[w].ins \cup tx[w].gone}
Locked(w, D) == \E v \in Workers \ {w} : D \cap Touched(v) # {}
LockedForWrite(w, D) == Locked(w, D) \/ \E v \in Workers \ {w} : D \cap tx[v].src # {}

\* The table as it will be if of the open transactions those of the threads C commit.
Outcome(C) == (rows \ UNION {tx[v].gone : v \in C}) \cup UNION {tx[v].ins : v \in C}

\* Mutant: the snapshot is not asked.
OrphansIgnored(t, ids) == ids

\* IsOrphanedSingleInstance and GetOrphanedSingleInstances: a plain SELECT after the DELETE.
Orphans(t, ids) == {i \in ids : RefsTo(View(t), i) = {}}

\* Whether i has lost its last reference, in table S with the changes of t.
Dropped(t, S, i) == RefsTo((S \ t.gone) \cup t.ins, i) = {}

\* The race of the deletions: a thread judges by its snapshot, but references come and go in
\* transactions that it cannot see and that may be committed or not.  They may leave instance
\* i a reference that the snapshot does not show, or none.
Shown(t, i) == RefsTo(View(t), i) # {}
MayBeKept(t, i) == ~Shown(t, i) /\ \E C \in SUBSET Workers : ~Dropped(t, Outcome(C), i)
MayBeDropped(t, i) == \E C \in SUBSET Workers : Dropped(t, Outcome(C), i)

\* A transaction is about the instance, or it has no file although a row refers to it, or a
\* file although no row does.
Involved(i) ==
    \E w \in Workers : i \in IdsOf(tx[w].ins \cup tx[w].gone) \cup tx[w].new \cup tx[w].del \cup tx[w].mark
Missing(i) == i \notin files /\ RefsTo(rows, i) # {}
Leftover(i) == i \in marked \/ (i \in files /\ RefsTo(rows, i) = {})

\* The histories become L and R, without the instances that are in order again.
History(L, R) ==
    /\ lost' = {i \in L : (Missing(i) \/ Involved(i))'}
    /\ left' = {i \in R : (Leftover(i) \/ Involved(i))'}

-------------------------------------------------------------------------------
(* The operations of a transaction that is open.                           *)

StorageBegin(w, readFirst) ==
    /\ tx[w].st = "none"
    /\ tx' = [tx EXCEPT ![w] = [NoTx EXCEPT !.st = "open", !.snap = IF readFirst THEN rows ELSE {}]]
    /\ UNCHANGED <<rows, nextInst, files, marked, historyVars>>

InstanceExists(i) == i \in files

\* The file gets its other name at once, if there is one.
MarkForDeletion(t, ids) == [t EXCEPT !.mark = @ \cup {i \in ids : InstanceExists(i)}]

\* In a transaction: rename what is replaced, note what is deleted.
DeleteInstances(t, ids, replace) ==
    IF replace THEN MarkForDeletion(t, ids) ELSE [t EXCEPT !.del = @ \cup ids]

\* Thread w deletes the rows of the objects D, if its snapshot has any, and the instances
\* that have become orphans.  When the SELECT for orphans fails, which DeleteAttachment does
\* not tell its caller, none are found.  Also the instances that are taken for orphans, or
\* that are kept, by mistake.
DeleteRows(w, D, replace, asked) ==
    LET t == tx[w]
        ids == IdsOf(RowsOf(View(t), D))
        t2 == [t EXCEPT !.gone = @ \cup (IF ids = {} THEN {} ELSE RowsOf(rows, D))]
        found == IF asked THEN Orphans(t2, ids) ELSE {}
    IN  [t |-> DeleteInstances(t2, found, replace),
         lost |-> {i \in found : MayBeKept(t2, i)},
         left |-> {i \in ids \ found : (asked => Shown(t2, i)) /\ MayBeDropped(t2, i)}
                  \cup (IdsOf(t2.gone \ t.gone) \ ids)]

MayWrite(w, o) == tx[w].st = "open" /\ o \notin Touched(w) /\ ~LockedForWrite(w, {o})

\* The file of a new instance is on disk and known to the transaction.
NewFile(t, o, i) == [t EXCEPT !.ins = @ \cup {<<o, i>>}, !.new = @ \cup {i}]

\* SaveAttachment with data: the old row goes, a new instance is inserted and written.
SaveAttachment(w, o, asked) ==
    LET r == DeleteRows(w, {o}, TRUE, asked)
    IN  /\ MayWrite(w, o) /\ RowsOf(rows, {o}) \subseteq r.t.gone
        /\ nextInst \in Instances /\ nextInst' = nextInst + 1
        /\ files' = (files \ r.t.mark) \cup {nextInst}
        /\ marked' = marked \cup r.t.mark
        /\ tx' = [tx EXCEPT ![w] = NewFile(r.t, o, nextInst)]
        /\ UNCHANGED rows
        /\ History((lost \cup r.lost) \ {nextInst}, (left \cup r.left) \ ({nextInst} \ marked))

\* The data could not all be written: an error, and the part that was written stays, because
\* the instance is noted as new only after the check.
SaveAttachmentShort(w, o, asked) ==
    LET r == DeleteRows(w, {o}, TRUE, asked)
    IN  /\ MayWrite(w, o) /\ RowsOf(rows, {o}) \subseteq r.t.gone
        /\ nextInst \in Instances /\ nextInst' = nextInst + 1
        /\ files' = (files \ r.t.mark) \cup {nextInst}
        /\ marked' = marked \cup r.t.mark
        /\ tx' = [tx EXCEPT ![w] = r.t]
        /\ UNCHANGED rows
        /\ History(lost \cup r.lost, left \cup r.left \cup {nextInst})

\* SaveAttachment with an instance id, of an instance that some object refers to.  The file
\* must exist; that a transaction, this one included, will delete it is not noticed.
SaveAttachmentById(w, o, i, asked) ==
    LET r == DeleteRows(w, {o}, TRUE, asked)
    IN  /\ MayWrite(w, o) /\ RefsTo(rows, i) # {} /\ InstanceExists(i)
        /\ <<o, i>> \notin View(tx[w])
        /\ files' = files \ r.t.mark
        /\ marked' = marked \cup r.t.mark
        /\ tx' = [tx EXCEPT ![w] = [r.t EXCEPT !.gone = @ \cup RowsOf(rows, {o}),
                                               !.ins = @ \cup {<<o, i>>}]]
        /\ UNCHANGED <<rows, nextInst>>
        /\ History(lost \cup r.lost \cup {j \in {i} : \E v \in Workers : j \in tx[v].del},
                   left \cup r.left \cup IdsOf(RowsOf(rows, {o}) \ r.t.gone))

\* The new object refers to the instance of the old one, whose row is locked meanwhile.
CopyAttachment(w, from, o) ==
    /\ MayWrite(w, o) /\ ~Locked(w, {from})
    /\ tx' = [tx EXCEPT ![w] = [tx[w] EXCEPT
                    !.src = @ \cup {from},
                    !.ins = @ \cup {<<o, p[2]>> : p \in RowsOf(rows, {from})}]]
    /\ UNCHANGED <<rows, nextInst, files, marked, historyVars>>

\* The first SELECT of DeleteAttachments, when it is the first of its transaction.
ReadInstances(w) ==
    /\ tx[w].st = "open"
    /\ tx' = [tx EXCEPT ![w].snap = rows]
    /\ UNCHANGED <<rows, nextInst, files, marked, historyVars>>

\* DeleteAttachments: the rows go, and orphans are noted for the commit.
DeleteAttachments(w, D, asked) ==
    LET r == DeleteRows(w, D, FALSE, asked)
    IN  /\ tx[w].st = "open" /\ D \cap Touched(w) = {}
        /\ r.t.gone # tx[w].gone => ~LockedForWrite(w, D)
        /\ tx' = [tx EXCEPT ![w] = r.t]
        /\ UNCHANGED <<rows, nextInst, files, marked>>
        /\ History(lost \cup r.lost, left \cup r.left)

-------------------------------------------------------------------------------
(* The end of a transaction: the storage commits, then the database.       *)

StorageCommit(w) ==
    /\ tx[w].st = "open"
    /\ files' = files \ tx[w].del
    /\ marked' = marked \ tx[w].mark
    /\ tx' = [tx EXCEPT ![w] = [@ EXCEPT !.st = "stored", !.snap = {}]]
    /\ UNCHANGED <<rows, nextInst>>
    /\ History(lost, left)

\* Some file cannot be deleted, the others are: the storage has nothing to roll back any
\* more, the database rolls back.
StorageCommitFails(w) ==
    /\ tx[w].st = "open"
    /\ tx' = [tx EXCEPT ![w] = NoTx]
    /\ UNCHANGED <<rows, nextInst>>
    /\ \E D \in SUBSET tx[w].del, M \in SUBSET tx[w].mark :
          /\ D # tx[w].del \/ M # tx[w].mark
          /\ files' = files \ D
          /\ marked' = marked \ M
          /\ History(lost \cup D \cup tx[w].mark, left \cup tx[w].new \cup (tx[w].mark \ M))

Committed(w) == (rows \ tx[w].gone) \cup tx[w].ins

DbCommit(w) ==
    /\ tx[w].st = "stored"
    /\ rows' = Committed(w)
    /\ tx' = [tx EXCEPT ![w] = NoTx]
    /\ UNCHANGED <<nextInst, files, marked>>
    /\ History(lost, left)

\* The database reports an error and has not committed; the files are gone.  (If it has, the
\* step is that of DbCommit.)
DbCommitFails(w) ==
    /\ tx[w].st = "stored"
    /\ tx' = [tx EXCEPT ![w] = NoTx]
    /\ UNCHANGED <<rows, nextInst, files, marked>>
    /\ History(lost \cup tx[w].del \cup tx[w].mark, left \cup tx[w].new)

\* Mutant: new files stay.
RollbackKeepsNew(w) ==
    /\ tx[w].st = "open"
    /\ files' = files \cup (tx[w].mark \cap marked)
    /\ marked' = marked \ tx[w].mark
    /\ tx' = [tx EXCEPT ![w] = NoTx]
    /\ UNCHANGED <<rows, nextInst>>
    /\ History(lost, left)

\* An error before the commit: new files are deleted, marked ones get their name back, and
\* the database rolls back.
Rollback(w) ==
    /\ tx[w].st = "open"
    /\ files' = (files \ tx[w].new) \cup (tx[w].mark \cap marked)
    /\ marked' = marked \ tx[w].mark
    /\ tx' = [tx EXCEPT ![w] = NoTx]
    /\ UNCHANGED <<rows, nextInst>>
    /\ History(lost, left)

\* Some file cannot be deleted or renamed back: the others are, and the storage forgets all of
\* them, while the database rolls back.
RollbackFails(w) ==
    /\ tx[w].st = "open"
    /\ tx' = [tx EXCEPT ![w] = NoTx]
    /\ UNCHANGED <<rows, nextInst>>
    /\ \E D \in SUBSET tx[w].new, M \in SUBSET tx[w].mark :
          /\ D # tx[w].new \/ M # tx[w].mark
          /\ files' = (files \ D) \cup (M \cap marked)
          /\ marked' = marked \ M
          /\ History(lost \cup (tx[w].mark \ M), left \cup (tx[w].new \ D) \cup (tx[w].mark \ M))

\* The server stops in the middle of everything: the database undoes what is not committed,
\* nobody does so for files.
StorageCrash ==
    /\ tx' = [w \in Workers |-> NoTx]
    /\ UNCHANGED <<rows, nextInst, files, marked>>
    /\ History(lost \cup (UNION {tx[w].mark : w \in Workers})
                    \cup (UNION {tx[w].del : w \in {v \in Workers : tx[v].st = "stored"}}),
               left \cup UNION {tx[w].new \cup tx[w].mark : w \in Workers})

\* If the database was restarted too, its counter begins after the highest instance in use.
StorageRestart ==
    /\ nextInst' \in {nextInst} \cup
           {n \in 1..nextInst : (\A i \in IdsOf(rows) : i < n) /\ (n = 1 \/ n - 1 \in IdsOf(rows))}
    /\ UNCHANGED <<rows, files, marked, tx, historyVars>>

-------------------------------------------------------------------------------
(* Properties                                                              *)

\* "If 2 users have a reference to the same attachment, neither can delete the mail causing
\* the other person to lose the attachment": an object whose row is committed has its file,
\* or the transaction that removes the row holds it under its other name or has just deleted
\* it.  Excepted are instances that met a fault of the file system, of the database commit
\* or of the process between the two commits, or a deletion that could not see references
\* coming or going at the same time.
AttachmentPresent ==
    \A p \in rows :
        \/ p[2] \in files \cup lost
        \/ \E w \in Workers : /\ p \in tx[w].gone
                              /\ p[2] \in tx[w].mark \cap marked \/ tx[w].st = "stored"

\* With the same exceptions no file is left behind: a file belongs to a committed row or to
\* the transaction that created it, a renamed one to the transaction that will delete or
\* restore it.
FileHasReference ==
    /\ \A i \in files \ left : RefsTo(rows, i) # {} \/ \E w \in Workers : i \in tx[w].new
    /\ \A i \in marked \ left : \E w \in Workers : i \in tx[w].mark /\ tx[w].st = "open"

===============================================================================
