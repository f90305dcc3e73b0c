--------------------------- MODULE SaveObjectProofs ---------------------------
(***************************************************************************)
(* The handlers that save, copy and delete messages implement the key      *)
(* allocator: a number that a rolled back transaction has used up is not   *)
(* handed out again, for any block size and any number of threads. And     *)
(* their attachments stay: a row has its file and a file its row, whoever  *)
(* commits, rolls back or crashes in between, for any number of threads,   *)
(* objects and instances.                                                  *)
(***************************************************************************)
EXTENDS SaveObject, KeyAllocatorProofs

\* The steps of a handler that concern its attachments do not touch the numbers.
LEMMA FileStepsKeepNumbers ==
    ASSUME NEW w \in Workers,
           \/ SaveProps(w) \/ SavePropsShort(w) \/ PropsDone(w) \/ CopyObject(w)
           \/ DeleteObjectHard(w) \/ CommitFiles(w) \/ CommitJob(w) \/ JobFails(w)
    PROVE  UNCHANGED vars
BY DEF SaveProps, SavePropsShort, PropsDone, CopyObject, DeleteObjectHard, CommitFiles,
       CommitJob, JobFails, numberVars, vars

\* The others are steps of the allocator.
LEMMA NumberStepsRefine ==
    ASSUME NEW w \in Workers, ReserveNumbers(w) \/ TakeKey(w) \/ TakeSequence(w)
    PROVE  Next
BY DEF ReserveNumbers, TakeKey, TakeSequence, Next

\* Every behaviour of the handlers, with rollbacks, failures, crashes and restarts, is one of
\* the allocator.
THEOREM HandlersImplementAllocator == SaveSpec => Spec
<1>1. SaveInit => Init
    BY DEF SaveInit
<1>2. [SaveNext]_saveVars => [Next]_vars
    <2> SUFFICES ASSUME [SaveNext]_saveVars PROVE [Next]_vars
        OBVIOUS
    <2>1. ASSUME NEW w \in Workers, NEW kind \in DOMAIN Script,
                 NEW objs \in SUBSET Objects \ {{}}, BeginJob(w, kind, objs)
          PROVE  UNCHANGED vars
        BY <2>1 DEF BeginJob, numberVars, vars
    <2>2. CASE ServerStops \/ ServerStarts
        BY <2>2 DEF ServerStops, ServerStarts, Next
    <2>3. CASE UNCHANGED saveVars
        BY <2>3 DEF saveVars, numberVars, vars
    <2> QED BY <2>1, <2>2, <2>3, FileStepsKeepNumbers, NumberStepsRefine DEF SaveNext
<1> QED BY <1>1, <1>2, PTL DEF SaveSpec, Spec

\* No two messages are given the same source key, nor the same IMAP id, whichever
\* transactions are rolled back and whenever the server stops.
THEOREM SavedNumbersNeverRepeat == SaveSpec => []NumbersUnique
BY HandlersImplementAllocator, NumbersNeverRepeat, PTL

-------------------------------------------------------------------------------
(* Attachments.                                                            *)

\* Only handlers of some kinds have these steps.
StepFits(step, kind) ==
    /\ step = "props" => kind \in {"new", "change"}
    /\ step = "copy" => kind = "copy"
    /\ step \in {"ids", "delete"} => kind = "delete"

\* The steps that are left of a handler.
TodoInv ==
    /\ todo \in [Workers -> Seq(StepNames)]
    /\ \A w \in Workers : /\ Len(todo[w]) <= 5
                          /\ \A k \in 1..Len(todo[w]) : StepFits(todo[w][k], job[w].kind)

\* A transaction belongs to a handler that runs.
TxInv ==
    \A w \in Workers :
        /\ ~up => tx[w].st = "none"
        /\ tx[w].st = "none" => tx[w] = NoTx
        /\ job[w].kind = "copy" => tx[w].gone = {} /\ tx[w].del = {} /\ tx[w].mark = {}
        /\ \A p \in tx[w].ins : p[1] \in job[w].objs

\* An object that a handler creates is its own until it commits.
OwnInv ==
    /\ \A w \in Workers :
          /\ job[w].kind \in {"new", "copy"} => job[w].objs \cap made = {}
          /\ job[w].kind \in {"change", "delete"} => job[w].objs \subseteq made
          /\ job[w].kind = "none" => job[w].objs = {}
    /\ \A v, w \in Workers : v # w /\ {job[v].kind, job[w].kind} \subseteq {"new", "copy"} =>
          job[v].objs \cap job[w].objs = {}
    /\ \A p \in rows : p[1] \in made

JobInv == TodoInv /\ TxInv /\ OwnInv

\* Row locks: what a transaction has deleted is still there for the others, what it has
\* inserted takes the place of what it has deleted, and no two of them touch the same object.
LockInv ==
    /\ \A p, q \in rows : p[1] = q[1] => p = q
    /\ \A w \in Workers :
          /\ tx[w].gone \subseteq rows
          /\ \A p \in tx[w].ins : \A q \in rows : p[1] = q[1] => q \in tx[w].gone
          /\ \A p, q \in tx[w].ins : p[1] = q[1] => p = q
    /\ \A v, w \in Workers : v # w =>
          /\ Touched(v) \cap Touched(w) = {}
          /\ tx[v].src \cap Touched(w) = {}

\* Instances that transaction t knows of.
Known(t) == IdsOf(t.snap \cup t.ins \cup t.gone) \cup t.new \cup t.del \cup t.mark

\* An instance id is new when it is drawn, and is known to its transaction only until that
\* one commits.
FreshInv ==
    /\ \A i \in IdsOf(rows) : i < nextInst
    /\ \A w \in Workers : \A i \in Known(tx[w]) : i < nextInst
    /\ \A w \in Workers : \A i \in tx[w].new :
          /\ RefsTo(tx[w].ins, i) # {}
          /\ i \notin IdsOf(rows)
          /\ \A v \in Workers :
                /\ i \notin IdsOf(tx[v].snap) \cup tx[v].del \cup tx[v].mark
                /\ v # w => i \notin IdsOf(tx[v].ins) \cup tx[v].new

\* What a transaction is going to delete, or has renamed, was an instance of a row that it has
\* deleted.  A renamed file is out of reach of the others, until its transaction gives it its
\* name again.
RenamedInv ==
    \A w \in Workers :
        /\ \A i \in tx[w].del \cup tx[w].mark : RefsTo(tx[w].gone, i) # {}
        /\ \A i \in tx[w].mark :
              /\ i \notin files
              /\ tx[w].st = "open" => i \in marked
              /\ \A v \in Workers \ {w} : i \notin tx[v].mark

\* It has no other reference.  Here and below the instances L are excepted.
Doomed(L) ==
    \A w \in Workers : \A i \in (tx[w].del \cup tx[w].mark) \ L :
        /\ RefsTo(rows, i) \subseteq tx[w].gone
        /\ \A v \in Workers : RefsTo(tx[v].ins, i) = {}

\* The file of a reference is there, or on its way out with it.
Present(L) ==
    /\ \A w \in Workers : IdsOf(tx[w].ins) \subseteq files \cup L
    /\ \A i \in IdsOf(rows) \ (files \cup L) :
          \E w \in Workers : i \in tx[w].mark \/ (i \in tx[w].del /\ tx[w].st = "stored")

\* Whichever of the open transactions commit, a file keeps a reference, or one of those that
\* commit is going to delete it, or it is the new file of one that does not.  Here and below
\* the instances R are excepted.
Covered(R) ==
    \A i \in files \ R : \A C \in SUBSET Workers :
        \/ RefsTo(Outcome(C), i) # {}
        \/ \E v \in C : i \in tx[v].del /\ tx[v].st = "open"
        \/ \E v \in Workers \ C : i \in tx[v].new

Marked(R) == \A i \in marked \ R : \E w \in Workers : i \in tx[w].mark /\ tx[w].st = "open"

FilesRight(L, R) == Doomed(L) /\ Present(L) /\ Covered(R) /\ Marked(R)

TablesInv == StorageTypeOK /\ LockInv /\ FreshInv /\ RenamedInv

FilesInv == TablesInv /\ FilesRight(lost, left)

-------------------------------------------------------------------------------
(* What the operations do to the fields of a transaction.                  *)

\* An instance without references.
LEMMA RefsEmpty ==
    ASSUME NEW S, NEW i
    PROVE  RefsTo(S, i) = {} <=> \A p \in S : p[2] # i
BY DEF RefsTo

\* The instances of a set of rows.
LEMMA InIds ==
    ASSUME NEW S, NEW i
    PROVE  i \in IdsOf(S) <=> \E p \in S : p[2] = i
BY DEF IdsOf

\* The objects whose rows a transaction has locked.
LEMMA InTouched ==
    ASSUME NEW w \in Workers, NEW o
    PROVE  o \in Touched(w) <=> \E p \in tx[w].ins \cup tx[w].gone : p[1] = o
BY DEF Touched

\* The rows after the transactions in C have committed, before and after a step.
LEMMA InOutcome ==
    ASSUME NEW C \in SUBSET Workers, NEW p
    PROVE  /\ p \in Outcome(C) <=> \/ p \in rows /\ \A v \in C : p \notin tx[v].gone
                                   \/ \E v \in C : p \in tx[v].ins
           /\ p \in Outcome(C)' <=> \/ p \in rows' /\ \A v \in C : p \notin tx'[v].gone
                                    \/ \E v \in C : p \in tx'[v].ins
BY DEF Outcome

\* DeleteRows when objects are deleted, and when something takes the place of their rows.
Deleting(w, D, asked) == DeleteRows(w, D, FALSE, asked)
Replacing(w, D, asked) == DeleteRows(w, D, TRUE, asked)

\* The instances that DeleteRows looks at.
Judged(w, D) == IdsOf(RowsOf(View(tx[w]), D))

\* Transaction t2 is that of w without the rows of D.
RowsDropped(w, D, t2) ==
    /\ t2 \in Transactions /\ Judged(w, D) \subseteq Instances
    /\ t2.gone = tx[w].gone \/ t2.gone = tx[w].gone \cup RowsOf(rows, D)
    /\ Judged(w, D) # {} => t2.gone = tx[w].gone \cup RowsOf(rows, D)
    /\ t2.st = tx[w].st /\ t2.snap = tx[w].snap /\ t2.ins = tx[w].ins /\ t2.src = tx[w].src
    /\ t2.new = tx[w].new /\ t2.del = tx[w].del /\ t2.mark = tx[w].mark

\* The row of an object goes into the list of deleted ones, or there is none to delete.
LEMMA DroppedRows ==
    ASSUME StorageTypeOK, NEW w \in Workers, NEW D \in SUBSET Objects
    PROVE  RowsDropped(w, D, [tx[w] EXCEPT !.gone = tx[w].gone \cup
                                  (IF Judged(w, D) = {} THEN {} ELSE RowsOf(rows, D))])
<1> DEFINE t == tx[w]
           drop == IF Judged(w, D) = {} THEN {} ELSE RowsOf(rows, D)
           t2 == [t EXCEPT !.gone = t.gone \cup drop]
<1>1. t \in Transactions /\ drop \subseteq Pairs /\ Judged(w, D) \subseteq Instances
    BY DEF StorageTypeOK, RowsOf, IdsOf, View, Transactions, Pairs, Judged
<1>2. drop = {} \/ drop = RowsOf(rows, D)
    OBVIOUS
<1>3. Judged(w, D) # {} => drop = RowsOf(rows, D)
    OBVIOUS
<1> HIDE DEF t, drop
<1>4. /\ t2 \in Transactions /\ t2.gone = t.gone \cup drop
      /\ t2.st = t.st /\ t2.snap = t.snap /\ t2.ins = t.ins /\ t2.src = t.src
      /\ t2.new = t.new /\ t2.del = t.del /\ t2.mark = t.mark
    BY <1>1 DEF Transactions
<1> HIDE DEF t2
<1>5. RowsDropped(w, D, t2)
    BY <1>1, <1>2, <1>3, <1>4 DEF RowsDropped, t
<1> QED BY <1>5 DEF t2, t, drop

\* Of the instances ids DeleteRows finds some without references, and it names those about
\* which it may be mistaken.
Judgement(w, r, ids, found) ==
    /\ found \subseteq Orphans(r.t, ids) /\ found \subseteq Instances
    /\ r.lost = {i \in found : MayBeKept(r.t, i)}
    /\ r.left = {i \in ids \ found : MayBeDropped(r.t, i)}
                \cup (IdsOf(r.t.gone \ tx[w].gone) \ ids)

\* What r, the result of DeleteRows for the rows of D, says of the fields of the transaction.
DeletedFields(w, D, r, ids, found) ==
    /\ r.t \in Transactions
    /\ r.t.st = tx[w].st /\ r.t.snap = tx[w].snap /\ r.t.ins = tx[w].ins
    /\ r.t.src = tx[w].src /\ r.t.new = tx[w].new
    /\ Judgement(w, r, ids, found)
    /\ r.t.gone = tx[w].gone \/ r.t.gone = tx[w].gone \cup RowsOf(rows, D)
    /\ ids # {} => r.t.gone = tx[w].gone \cup RowsOf(rows, D)
    /\ r.t.mark = tx[w].mark /\ r.t.del = tx[w].del \cup found

ReplacedFields(w, D, r, ids, found) ==
    /\ r.t \in Transactions
    /\ r.t.st = tx[w].st /\ r.t.snap = tx[w].snap /\ r.t.ins = tx[w].ins
    /\ r.t.src = tx[w].src /\ r.t.new = tx[w].new
    /\ Judgement(w, r, ids, found)
    /\ r.t.gone = tx[w].gone \/ r.t.gone = tx[w].gone \cup RowsOf(rows, D)
    /\ ids # {} => r.t.gone = tx[w].gone \cup RowsOf(rows, D)
    /\ r.t.del = tx[w].del /\ r.t.mark = tx[w].mark \cup (found \cap files)

\* Deleting an object puts the instances that are found on the list of deletions.
LEMMA DeletingFields ==
    ASSUME StorageTypeOK, NEW w \in Workers, NEW D \in SUBSET Objects, NEW asked \in BOOLEAN
    PROVE  \E found : DeletedFields(w, D, Deleting(w, D, asked), Judged(w, D), found)
<1> DEFINE ids == Judged(w, D)
           t2 == [tx[w] EXCEPT !.gone = tx[w].gone \cup (IF ids = {} THEN {} ELSE RowsOf(rows, D))]
           found == IF asked THEN Orphans(t2, ids) ELSE {}
           u == DeleteInstances(t2, found, FALSE)
           r == Deleting(w, D, asked)
<1>1. /\ r.t = u /\ r.lost = {i \in found : MayBeKept(t2, i)}
      /\ r.left = {i \in ids \ found : (asked => Shown(t2, i)) /\ MayBeDropped(t2, i)}
                  \cup (IdsOf(t2.gone \ tx[w].gone) \ ids)
    BY DEF DeleteRows, Deleting, Judged
<1>2. RowsDropped(w, D, t2)
    BY DroppedRows
<1> HIDE DEF r, t2, ids
<1>3. /\ found \subseteq Instances /\ found \subseteq Orphans(t2, ids)
      /\ \A i \in ids \ found : asked => Shown(t2, i)
    BY <1>2 DEF Orphans, Shown, RowsDropped, ids
<1> HIDE DEF found
<1>4. u = DeleteInstances(t2, found, FALSE)
    OBVIOUS
<1> HIDE DEF u
<1>5. /\ u \in Transactions /\ u.gone = t2.gone
      /\ u.st = t2.st /\ u.snap = t2.snap /\ u.ins = t2.ins /\ u.src = t2.src
      /\ u.new = t2.new /\ u.mark = t2.mark /\ u.del = t2.del \cup found
    BY <1>2, <1>3, <1>4 DEF RowsDropped, DeleteInstances, MarkForDeletion, InstanceExists, Transactions
<1>6. /\ Orphans(u, ids) = Orphans(t2, ids)
      /\ \A i : MayBeKept(u, i) = MayBeKept(t2, i) /\ MayBeDropped(u, i) = MayBeDropped(t2, i)
    BY <1>5 DEF Orphans, View, Shown, MayBeKept, MayBeDropped, Dropped
<1>7. Judgement(w, r, ids, found)
    BY <1>1, <1>3, <1>5, <1>6 DEF Judgement
<1>8. /\ u.st = tx[w].st /\ u.snap = tx[w].snap /\ u.ins = tx[w].ins
      /\ u.src = tx[w].src /\ u.new = tx[w].new /\ t2.del = tx[w].del /\ t2.mark = tx[w].mark
      /\ u.gone = tx[w].gone \/ u.gone = tx[w].gone \cup RowsOf(rows, D)
      /\ ids # {} => u.gone = tx[w].gone \cup RowsOf(rows, D)
    BY <1>2, <1>5 DEF RowsDropped, ids
<1>9. DeletedFields(w, D, r, ids, found)
    BY <1>1, <1>5, <1>7, <1>8 DEF DeletedFields
<1> QED BY <1>9 DEF r, ids

\* Replacing a property renames the files of the instances that are found.
LEMMA ReplacingFields ==
    ASSUME StorageTypeOK, NEW w \in Workers, NEW D \in SUBSET Objects, NEW asked \in BOOLEAN
    PROVE  \E found : ReplacedFields(w, D, Replacing(w, D, asked), Judged(w, D), found)
<1> DEFINE ids == Judged(w, D)
           t2 == [tx[w] EXCEPT !.gone = tx[w].gone \cup (IF ids = {} THEN {} ELSE RowsOf(rows, D))]
           found == IF asked THEN Orphans(t2, ids) ELSE {}
           u == DeleteInstances(t2, found, TRUE)
           r == Replacing(w, D, asked)
<1>1. /\ r.t = u /\ r.lost = {i \in found : MayBeKept(t2, i)}
      /\ r.left = {i \in ids \ found : (asked => Shown(t2, i)) /\ MayBeDropped(t2, i)}
                  \cup (IdsOf(t2.gone \ tx[w].gone) \ ids)
    BY DEF DeleteRows, Replacing, Judged
<1>2. RowsDropped(w, D, t2)
    BY DroppedRows
<1> HIDE DEF r, t2, ids
<1>3. /\ found \subseteq Instances /\ found \subseteq Orphans(t2, ids)
      /\ \A i \in ids \ found : asked => Shown(t2, i)
    BY <1>2 DEF Orphans, Shown, RowsDropped, ids
<1> HIDE DEF found
<1>4. u = DeleteInstances(t2, found, TRUE)
    OBVIOUS
<1> HIDE DEF u
<1>5. /\ u \in Transactions /\ u.gone = t2.gone
      /\ u.st = t2.st /\ u.snap = t2.snap /\ u.ins = t2.ins /\ u.src = t2.src
      /\ u.new = t2.new /\ u.del = t2.del /\ u.mark = t2.mark \cup (found \cap files)
    BY <1>2, <1>3, <1>4 DEF RowsDropped, DeleteInstances, MarkForDeletion, InstanceExists, Transactions
<1>6. /\ Orphans(u, ids) = Orphans(t2, ids)
      /\ \A i : MayBeKept(u, i) = MayBeKept(t2, i) /\ MayBeDropped(u, i) = MayBeDropped(t2, i)
    BY <1>5 DEF Orphans, View, Shown, MayBeKept, MayBeDropped, Dropped
<1>7. Judgement(w, r, ids, found)
    BY <1>1, <1>3, <1>5, <1>6 DEF Judgement
<1>8. /\ u.st = tx[w].st /\ u.snap = tx[w].snap /\ u.ins = tx[w].ins
      /\ u.src = tx[w].src /\ u.new = tx[w].new /\ t2.del = tx[w].del /\ t2.mark = tx[w].mark
      /\ u.gone = tx[w].gone \/ u.gone = tx[w].gone \cup RowsOf(rows, D)
      /\ ids # {} => u.gone = tx[w].gone \cup RowsOf(rows, D)
    BY <1>2, <1>5 DEF RowsDropped, ids
<1>9. ReplacedFields(w, D, r, ids, found)
    BY <1>1, <1>5, <1>7, <1>8 DEF ReplacedFields
<1> QED BY <1>9 DEF r, ids

-------------------------------------------------------------------------------
(* A transaction goes on.  Most operations of the storage only add to the  *)
(* sets of one transaction; what they add is described here once.          *)

\* The transaction of thread w becomes u.
TxGrows(w, u) ==
    /\ tx[w].st = "open" /\ u \in Transactions /\ u.st = "open"
    /\ tx' = [tx EXCEPT ![w] = u] /\ rows' = rows
    /\ tx[w].gone \subseteq u.gone /\ tx[w].ins \subseteq u.ins /\ tx[w].src \subseteq u.src
    /\ tx[w].del \subseteq u.del /\ tx[w].mark \subseteq u.mark

\* It touches rows that nobody else has locked.
LocksGrow(w, u) ==
    /\ u.gone \subseteq rows
    /\ \A p \in (u.gone \ tx[w].gone) \cup (u.ins \ tx[w].ins) : ~LockedForWrite(w, {p[1]})
    /\ \A p \in u.ins \ tx[w].ins :
          /\ \A q \in rows : q[1] = p[1] => q \in u.gone
          /\ \A q \in u.ins : q[1] = p[1] => q = p
    /\ \A o \in u.src \ tx[w].src : ~Locked(w, {o})

\* It learns of instances from rows, or has drawn them.
IdsGrow(w, u, fresh) ==
    /\ fresh \subseteq {nextInst} /\ nextInst' \in {nextInst, nextInst + 1}
    /\ fresh # {} => nextInst' = nextInst + 1
    /\ IdsOf(u.snap) \subseteq IdsOf(tx[w].snap) \cup IdsOf(rows)
    /\ IdsOf(u.ins) \subseteq IdsOf(tx[w].ins) \cup IdsOf(rows) \cup fresh
    /\ u.new = tx[w].new \cup fresh /\ fresh \subseteq IdsOf(u.ins)
    /\ u.del \cup u.mark \subseteq tx[w].del \cup tx[w].mark \cup IdsOf(tx[w].snap)

\* It writes the files that it has drawn and renames those that it marks; L and R are the
\* instances that are excepted afterwards.
FilesGrow(w, u, fresh, L, R) ==
    /\ lost \subseteq L \cup fresh /\ left \subseteq R \cup fresh
    /\ fresh \subseteq files' /\ files \ u.mark \subseteq files'
    /\ files' \subseteq (files \ u.mark) \cup {nextInst} /\ files' \subseteq files \cup R \cup fresh
    /\ u.mark \ tx[w].mark \subseteq files
    /\ marked' = marked \cup u.mark /\ fresh \cap marked' \subseteq R

\* What it deletes or renames was in a row that it has deleted.  An instance that is not
\* excepted is deleted or renamed only with its last reference, is kept only if a reference
\* remains in any case, and is referred to only while nobody is going to delete it.
JudgedRight(w, u, fresh, L, R) ==
    /\ \A i \in (u.del \cup u.mark) \ (tx[w].del \cup tx[w].mark) :
          /\ RefsTo(u.gone, i) # {}
          /\ i \notin L => /\ RefsTo(rows, i) \subseteq u.gone /\ RefsTo(u.ins, i) = {}
                           /\ \A v \in Workers : RefsTo(tx[v].ins, i) = {}
    /\ \A i \in IdsOf(u.gone \ tx[w].gone) \ R :
          \/ i \in u.del \cup u.mark \/ i \notin files
          \/ \A C \in SUBSET Workers : \E p \in (Outcome(C) \ u.gone) \cup u.ins : p[2] = i
    /\ \A i \in IdsOf(u.ins \ tx[w].ins) \ (fresh \cup L) :
          i \in files /\ \A v \in Workers : i \notin tx'[v].del \cup tx'[v].mark

\* No two transactions have the same rows locked after the step.
LEMMA GrowLock ==
    ASSUME StorageTypeOK, LockInv, NEW w \in Workers, NEW u, TxGrows(w, u), LocksGrow(w, u)
    PROVE  LockInv'
<1>1. tx'[w] = u /\ \A v \in Workers \ {w} : tx'[v] = tx[v]
    BY DEF TxGrows, StorageTypeOK
<1>2. rows' = rows
    BY DEF TxGrows
<1>3. /\ \A p, q \in rows' : p[1] = q[1] => p = q
      /\ \A v \in Workers :
            /\ tx'[v].gone \subseteq rows'
            /\ \A p \in tx'[v].ins : \A q \in rows' : p[1] = q[1] => q \in tx'[v].gone
            /\ \A p, q \in tx'[v].ins : p[1] = q[1] => p = q
    BY <1>1, <1>2 DEF LockInv, TxGrows, LocksGrow
<1>4. ASSUME NEW v \in Workers, v # w
      PROVE  Touched(v)' = Touched(v) /\ tx'[v].src = tx[v].src
    BY <1>1, <1>4 DEF Touched
<1>5. ASSUME NEW o \in Touched(w)'
      PROVE  o \in Touched(w) \/ ~LockedForWrite(w, {o})
  <2>1. PICK p \in u.ins \cup u.gone : p[1] = o
      BY <1>1, <1>5 DEF Touched
  <2>2. CASE p \in tx[w].ins \cup tx[w].gone
      BY <2>1, <2>2 DEF Touched
  <2>3. CASE p \notin tx[w].ins \cup tx[w].gone
      BY <2>1, <2>3 DEF LocksGrow
  <2> QED BY <2>2, <2>3
<1>6. ASSUME NEW v \in Workers, v # w
      PROVE  Touched(v) \cap Touched(w)' = {} /\ tx[v].src \cap Touched(w)' = {}
    BY <1>5, <1>6 DEF LockInv, LockedForWrite, Locked
<1>7. ASSUME NEW v \in Workers, v # w
      PROVE  u.src \cap Touched(v) = {}
    BY <1>7 DEF LockInv, LocksGrow, Locked
<1>8. ASSUME NEW v \in Workers, NEW x \in Workers, v # x
      PROVE  Touched(v)' \cap Touched(x)' = {} /\ tx'[v].src \cap Touched(x)' = {}
    BY <1>1, <1>4, <1>6, <1>7, <1>8 DEF LockInv
<1> QED BY <1>3, <1>8 DEF LockInv

\* A drawn instance id is known to nobody else.
LEMMA GrowFresh ==
    ASSUME StorageTypeOK, FreshInv, NEW w \in Workers, NEW u, NEW fresh,
           TxGrows(w, u), LocksGrow(w, u), IdsGrow(w, u, fresh)
    PROVE  FreshInv'
<1>1. tx'[w] = u /\ \A v \in Workers \ {w} : tx'[v] = tx[v]
    BY DEF TxGrows, StorageTypeOK
<1>2. rows' = rows /\ nextInst \in Nat /\ nextInst' \in Nat /\ nextInst <= nextInst'
    BY DEF TxGrows, IdsGrow, StorageTypeOK
<1>3. \A i \in IdsOf(rows) : i < nextInst /\ i < nextInst'
    BY <1>2 DEF FreshInv, StorageTypeOK, IdsOf, Pairs, Instances
<1>4. \A i \in fresh : i < nextInst' /\ i = nextInst
    BY <1>2 DEF IdsGrow
<1>5. \A v \in Workers : \A i \in Known(tx[v]) : i < nextInst /\ i < nextInst'
  <2>1. \A v \in Workers : Known(tx[v]) \subseteq Instances
      BY DEF Known, StorageTypeOK, Transactions, IdsOf, Pairs
  <2> QED BY <1>2, <2>1 DEF FreshInv, Instances
<1>6. IdsOf(u.gone) \subseteq IdsOf(rows)
    BY DEF LocksGrow, IdsOf
<1>7. Known(u) \subseteq Known(tx[w]) \cup IdsOf(rows) \cup fresh
    BY <1>6 DEF Known, IdsGrow, IdsOf
<1>8. \A v \in Workers : \A i \in Known(tx'[v]) : i < nextInst'
    BY <1>1, <1>3, <1>4, <1>5, <1>7
<1>9. ASSUME NEW x \in Workers, NEW i \in tx'[x].new
      PROVE  /\ RefsTo(tx'[x].ins, i) # {} /\ i \notin IdsOf(rows')
             /\ \A v \in Workers :
                   /\ i \notin IdsOf(tx'[v].snap) \cup tx'[v].del \cup tx'[v].mark
                   /\ v # x => i \notin IdsOf(tx'[v].ins) \cup tx'[v].new
  <2>1. CASE i \in fresh
    <3>1. x = w /\ i = nextInst
      <4>1. i = nextInst /\ nextInst \notin Known(tx[x])
          BY <1>2, <1>4, <1>5, <2>1
      <4>2. i \notin tx[x].new
          BY <4>1 DEF Known
      <4> QED BY <1>1, <1>9, <4>1, <4>2
    <3>2. RefsTo(u.ins, i) # {}
        BY <2>1 DEF IdsGrow, IdsOf, RefsTo
    <3>3. i \notin IdsOf(rows) /\ \A v \in Workers : i \notin Known(tx[v])
        BY <1>2, <1>3, <1>5, <3>1
    <3> QED BY <1>1, <1>2, <3>1, <3>2, <3>3 DEF Known, IdsGrow, IdsOf
  <2>2. CASE i \notin fresh
    <3>1. i \in tx[x].new
        BY <1>1, <1>9, <2>2 DEF IdsGrow
    <3>2. /\ RefsTo(tx[x].ins, i) # {} /\ i \notin IdsOf(rows)
          /\ \A v \in Workers :
                /\ i \notin IdsOf(tx[v].snap) \cup tx[v].del \cup tx[v].mark
                /\ v # x => i \notin IdsOf(tx[v].ins) \cup tx[v].new
        BY <3>1 DEF FreshInv
    <3>3. RefsTo(tx'[x].ins, i) # {}
        BY <1>1, <3>2 DEF TxGrows, RefsTo
    <3> QED BY <1>1, <1>2, <2>2, <3>2, <3>3 DEF IdsGrow
  <2> QED BY <2>1, <2>2
<1> QED BY <1>2, <1>3, <1>8, <1>9 DEF FreshInv

\* The transactions after a step of growth, and that the next instance to be drawn was not
\* doomed.
LEMMA GrowFacts ==
    ASSUME StorageTypeOK, FreshInv, NEW w \in Workers, NEW u, NEW fresh,
           TxGrows(w, u), IdsGrow(w, u, fresh)
    PROVE  /\ tx'[w] = u /\ \A v \in Workers \ {w} : tx'[v] = tx[v]
           /\ \A v \in Workers : /\ tx'[v].del \cup tx'[v].mark \subseteq Instances
                                 /\ nextInst \notin tx'[v].del \cup tx'[v].mark
           /\ fresh \subseteq {nextInst}
<1>1. tx'[w] = u /\ \A v \in Workers \ {w} : tx'[v] = tx[v]
    BY DEF TxGrows, StorageTypeOK
<1>2. \A v \in Workers : tx[v] \in Transactions
    BY DEF StorageTypeOK
<1>3. \A v \in Workers : tx'[v].del \cup tx'[v].mark \subseteq Instances
    BY <1>1, <1>2 DEF Transactions, TxGrows
<1>4. \A v \in Workers : tx[v].del \cup tx[v].mark \cup IdsOf(tx[v].snap) \subseteq Known(tx[v])
    BY DEF Known, IdsOf
<1>5. \A v \in Workers : nextInst \notin Known(tx[v])
    BY DEF FreshInv, StorageTypeOK
<1>6. \A v \in Workers : tx'[v].del \cup tx'[v].mark \subseteq
                         tx[v].del \cup tx[v].mark \cup IdsOf(tx[v].snap)
    BY <1>1 DEF IdsGrow
<1>7. \A v \in Workers : nextInst \notin tx'[v].del \cup tx'[v].mark
    BY <1>4, <1>5, <1>6
<1>8. fresh \subseteq {nextInst}
    BY DEF IdsGrow
<1> QED BY <1>1, <1>3, <1>7, <1>8

\* A renamed file is that of one transaction.
LEMMA GrowRenamed ==
    ASSUME StorageTypeOK, FreshInv, RenamedInv, NEW w \in Workers, NEW u, NEW fresh, NEW L, NEW R,
           TxGrows(w, u), IdsGrow(w, u, fresh), FilesGrow(w, u, fresh, L, R),
           JudgedRight(w, u, fresh, L, R)
    PROVE  RenamedInv'
<1>0. /\ tx'[w] = u /\ \A v \in Workers \ {w} : tx'[v] = tx[v]
      /\ \A v \in Workers : nextInst \notin tx'[v].del \cup tx'[v].mark
    BY GrowFacts
<1>1. ASSUME NEW x \in Workers, NEW i \in tx'[x].del \cup tx'[x].mark
      PROVE  RefsTo(tx'[x].gone, i) # {}
  <2>1. CASE i \in tx[x].del \cup tx[x].mark
    <3>1. RefsTo(tx[x].gone, i) # {}
        BY <2>1 DEF RenamedInv
    <3>2. tx[x].gone \subseteq tx'[x].gone
        BY <1>0 DEF TxGrows
    <3> QED BY <3>1, <3>2 DEF RefsTo
  <2>2. CASE i \notin tx[x].del \cup tx[x].mark
      BY <1>0, <1>1, <2>2 DEF JudgedRight
  <2> QED BY <2>1, <2>2
<1>2. ASSUME NEW x \in Workers, NEW i \in tx'[x].mark
      PROVE  /\ i \notin files'
             /\ tx'[x].st = "open" => i \in marked'
             /\ \A v \in Workers \ {x} : i \notin tx'[v].mark
  <2>1. i # nextInst
      BY <1>0
  <2>2. CASE x = w
    <3>1. i \in u.mark
        BY <1>0, <2>2
    <3>2. i \notin files' /\ i \in marked'
        BY <2>1, <3>1 DEF FilesGrow
    <3>3. \A v \in Workers \ {w} : i \notin tx[v].mark
        BY <3>1 DEF FilesGrow, RenamedInv
    <3> QED BY <1>0, <2>2, <3>2, <3>3
  <2>3. CASE x # w
    <3>1. /\ i \in tx[x].mark /\ tx'[x] = tx[x] /\ i \notin files
          /\ tx[x].st = "open" => i \in marked
          /\ \A v \in Workers \ {x} : i \notin tx[v].mark
        BY <1>0, <2>3 DEF RenamedInv
    <3>2. i \notin files' /\ (tx'[x].st = "open" => i \in marked')
        BY <2>1, <3>1 DEF FilesGrow
    <3>3. i \notin u.mark
        BY <2>3, <3>1 DEF FilesGrow
    <3> QED BY <1>0, <3>1, <3>2, <3>3
  <2> QED BY <2>2, <2>3
<1> QED BY <1>1, <1>2 DEF RenamedInv

\* What is on a list of deletions has no reference that stays.
LEMMA GrowDoomed ==
    ASSUME StorageTypeOK, FreshInv, Doomed(lost), NEW w \in Workers, NEW u, NEW fresh,
           NEW L, NEW R, TxGrows(w, u), IdsGrow(w, u, fresh), FilesGrow(w, u, fresh, L, R),
           JudgedRight(w, u, fresh, L, R)
    PROVE  Doomed(L)'
<1>0. /\ tx'[w] = u /\ \A v \in Workers \ {w} : tx'[v] = tx[v]
      /\ \A v \in Workers : nextInst \notin tx'[v].del \cup tx'[v].mark
      /\ fresh \subseteq {nextInst}
    BY GrowFacts
<1> SUFFICES ASSUME NEW x \in Workers, NEW i \in (tx'[x].del \cup tx'[x].mark) \ L
             PROVE  /\ RefsTo(rows', i) \subseteq tx'[x].gone
                    /\ \A v \in Workers : RefsTo(tx'[v].ins, i) = {}
    BY DEF Doomed
<1>1. i \notin fresh /\ i \notin lost
    BY <1>0 DEF FilesGrow
<1>2. rows' = rows /\ tx[x].gone \subseteq tx'[x].gone
    BY <1>0 DEF TxGrows
<1>3. CASE i \in tx[x].del \cup tx[x].mark
  <2>1. /\ RefsTo(rows, i) \subseteq tx[x].gone
        /\ \A v \in Workers : RefsTo(tx[v].ins, i) = {}
      BY <1>1, <1>3 DEF Doomed
  <2>2. i \notin IdsOf(u.ins \ tx[w].ins)
      BY <1>1 DEF JudgedRight
  <2>3. RefsTo(u.ins, i) = {}
      BY <2>1, <2>2 DEF RefsTo, IdsOf
  <2> QED BY <1>0, <1>2, <2>1, <2>3
<1>4. CASE i \notin tx[x].del \cup tx[x].mark
  <2>1. x = w /\ i \in (u.del \cup u.mark) \ (tx[w].del \cup tx[w].mark)
      BY <1>0, <1>4
  <2>2. /\ RefsTo(rows, i) \subseteq u.gone /\ RefsTo(u.ins, i) = {}
        /\ \A v \in Workers : RefsTo(tx[v].ins, i) = {}
      BY <2>1 DEF JudgedRight
  <2> QED BY <1>0, <1>2, <2>1, <2>2
<1> QED BY <1>3, <1>4

\* A reference still has its file.
LEMMA GrowPresent ==
    ASSUME StorageTypeOK, FreshInv, Present(lost), NEW w \in Workers, NEW u, NEW fresh,
           NEW L, NEW R, TxGrows(w, u), IdsGrow(w, u, fresh), FilesGrow(w, u, fresh, L, R),
           JudgedRight(w, u, fresh, L, R), Doomed(L)'
    PROVE  Present(L)'
<1>0. tx'[w] = u /\ \A v \in Workers \ {w} : tx'[v] = tx[v]
    BY GrowFacts
<1>1. ASSUME NEW v \in Workers, NEW i \in IdsOf(tx'[v].ins), i \notin L \cup fresh
      PROVE  i \in files'
  <2>1. i \notin lost
      BY <1>1 DEF FilesGrow
  <2>2. i \notin u.mark
    <3>1. RefsTo(tx'[v].ins, i) # {}
        BY <1>1 DEF RefsTo, IdsOf
    <3> QED BY <1>0, <1>1, <3>1 DEF Doomed
  <2>3. i \in files
    <3>1. CASE i \in IdsOf(tx[v].ins)
        BY <2>1, <3>1 DEF Present
    <3>2. CASE i \notin IdsOf(tx[v].ins)
      <4>1. v = w
          BY <1>0, <1>1, <3>2
      <4>2. i \in IdsOf(u.ins \ tx[w].ins)
          BY <1>0, <1>1, <3>2, <4>1 DEF IdsOf
      <4> QED BY <1>1, <4>2 DEF JudgedRight
    <3> QED BY <3>1, <3>2
  <2> QED BY <2>2, <2>3 DEF FilesGrow
<1>2. ASSUME NEW i \in IdsOf(rows') \ (files' \cup L)
      PROVE  \E v \in Workers : i \in tx'[v].mark \/ (i \in tx'[v].del /\ tx'[v].st = "stored")
  <2>1. i \in IdsOf(rows) /\ i \notin fresh /\ i \notin lost
      BY DEF TxGrows, FilesGrow
  <2>2. CASE i \in files
      BY <1>0, <2>2 DEF FilesGrow
  <2>3. CASE i \notin files
    <3>1. PICK v \in Workers : i \in tx[v].mark \/ (i \in tx[v].del /\ tx[v].st = "stored")
        BY <2>1, <2>3 DEF Present
    <3> QED BY <1>0, <3>1 DEF TxGrows
  <2> QED BY <2>2, <2>3
<1>3. fresh \subseteq files'
    BY DEF FilesGrow
<1> QED BY <1>1, <1>2, <1>3 DEF Present

\* A file still has a reference, whichever transactions commit.
LEMMA GrowCovered ==
    ASSUME StorageTypeOK, FreshInv, Covered(left), NEW w \in Workers, NEW u, NEW fresh,
           NEW L, NEW R, TxGrows(w, u), IdsGrow(w, u, fresh), FilesGrow(w, u, fresh, L, R),
           JudgedRight(w, u, fresh, L, R)
    PROVE  Covered(R)'
<1>0. /\ tx'[w] = u /\ \A v \in Workers \ {w} : tx'[v] = tx[v]
      /\ \A v \in Workers : nextInst \notin tx'[v].del \cup tx'[v].mark
    BY GrowFacts
<1> SUFFICES ASSUME NEW i \in files' \ R, NEW C \in SUBSET Workers
             PROVE  \/ RefsTo(Outcome(C)', i) # {}
                    \/ \E v \in C : i \in tx'[v].del /\ tx'[v].st = "open"
                    \/ \E v \in Workers \ C : i \in tx'[v].new
    BY DEF Covered
<1>1. ASSUME NEW p, p \in Outcome(C)', p[2] = i PROVE RefsTo(Outcome(C)', i) # {}
    BY <1>1 DEF RefsTo
<1>2. CASE i \in fresh
  <2>1. PICK p \in u.ins : p[2] = i
      BY <1>2 DEF IdsGrow, IdsOf
  <2>2. i \in u.new
      BY <1>2 DEF IdsGrow
  <2>3. w \in C => p \in Outcome(C)'
      BY <1>0, InOutcome
  <2> QED BY <1>0, <1>1, <2>1, <2>2, <2>3
<1>3. CASE i \notin fresh
  <2>1. i \in files \ left /\ i \notin u.mark
      BY <1>0, <1>3 DEF FilesGrow
  <2>2. CASE RefsTo(Outcome(C), i) # {}
    <3>1. PICK p \in Outcome(C) : p[2] = i
        BY <2>2 DEF RefsTo
    <3>2. CASE p \in Outcome(C)'
        BY <1>1, <3>1, <3>2
    <3>3. CASE p \notin Outcome(C)'
      <4>1. w \in C /\ p \in u.gone \ tx[w].gone /\ u.st = "open"
          BY <1>0, <3>1, <3>3, InOutcome DEF TxGrows
      <4>2. i \in IdsOf(u.gone \ tx[w].gone)
          BY <3>1, <4>1 DEF IdsOf
      <4>3. \/ i \in u.del
            \/ \E q \in (Outcome(C) \ u.gone) \cup u.ins : q[2] = i
          BY <2>1, <4>2 DEF JudgedRight
      <4>4. ASSUME NEW q \in (Outcome(C) \ u.gone) \cup u.ins PROVE q \in Outcome(C)'
          BY <1>0, <4>1, InOutcome DEF TxGrows
      <4> QED BY <1>0, <1>1, <4>1, <4>3, <4>4
    <3> QED BY <3>2, <3>3
  <2>3. CASE \E v \in C : i \in tx[v].del /\ tx[v].st = "open"
      BY <1>0, <2>3 DEF TxGrows
  <2>4. CASE \E v \in Workers \ C : i \in tx[v].new
      BY <1>0, <2>4 DEF IdsGrow
  <2> QED BY <2>1, <2>2, <2>3, <2>4 DEF Covered
<1> QED BY <1>2, <1>3

\* A renamed file is still that of an open transaction.
LEMMA GrowMarked ==
    ASSUME StorageTypeOK, FreshInv, Marked(left), NEW w \in Workers, NEW u, NEW fresh,
           NEW L, NEW R, TxGrows(w, u), IdsGrow(w, u, fresh), FilesGrow(w, u, fresh, L, R)
    PROVE  Marked(R)'
<1>0. tx'[w] = u /\ \A v \in Workers \ {w} : tx'[v] = tx[v]
    BY GrowFacts
<1> SUFFICES ASSUME NEW i \in marked' \ R
             PROVE  \E v \in Workers : i \in tx'[v].mark /\ tx'[v].st = "open"
    BY DEF Marked
<1>1. i \notin fresh /\ i \notin left /\ (i \in marked \/ i \in u.mark)
    BY DEF FilesGrow
<1>2. CASE i \in u.mark
    BY <1>0, <1>2 DEF TxGrows
<1>3. CASE i \in marked
  <2>1. PICK v \in Workers : i \in tx[v].mark /\ tx[v].st = "open"
      BY <1>1, <1>3 DEF Marked
  <2> QED BY <1>0, <2>1 DEF TxGrows
<1> QED BY <1>1, <1>2, <1>3

\* The histories after a step: as they are given, or without what is in order again.
Histories(L, R) == (lost' = L /\ left' = R) \/ History(L, R)

\* To forget an instance that is in order, and about which there is no transaction, does no
\* harm.
LEMMA Forget ==
    ASSUME NEW L \in SUBSET Instances, NEW R \in SUBSET Instances,
           FilesRight(L, R)', Histories(L, R)
    PROVE  FilesRight(lost, left)' /\ lost' \subseteq Instances /\ left' \subseteq Instances
<1>1. CASE lost' = L /\ left' = R
    BY <1>1 DEF FilesRight, Doomed, Present, Covered, Marked
<1>2. CASE History(L, R)
  <2>1. /\ lost' = {i \in L : Missing(i)' \/ Involved(i)'}
        /\ left' = {i \in R : Leftover(i)' \/ Involved(i)'}
      BY <1>2 DEF History
  <2>2. \A i : Missing(i)' <=> i \notin files' /\ RefsTo(rows', i) # {}
      BY DEF Missing
  <2>3. \A i : Leftover(i)' <=> i \in marked' \/ (i \in files' /\ RefsTo(rows', i) = {})
      BY DEF Leftover
  <2>4. ASSUME NEW i, NEW w \in Workers,
               i \in IdsOf(tx'[w].ins) \cup IdsOf(tx'[w].gone) \cup tx'[w].del \cup tx'[w].mark
        PROVE  Involved(i)'
      BY <2>4 DEF Involved, IdsOf
  <2>5. Doomed(lost)'
    <3>1. ASSUME NEW w \in Workers, NEW i \in (tx'[w].del \cup tx'[w].mark) \ lost' PROVE i \notin L
        BY <2>1, <2>4
    <3> QED BY <3>1 DEF FilesRight, Doomed
  <2>6. Present(lost)'
    <3>1. ASSUME NEW w \in Workers PROVE IdsOf(tx'[w].ins) \subseteq files' \cup lost'
      <4>1. \A i \in IdsOf(tx'[w].ins) : i \in L => i \in lost'
          BY <2>1, <2>4
      <4> QED BY <4>1 DEF FilesRight, Present
    <3>2. ASSUME NEW i \in IdsOf(rows') \ (files' \cup lost') PROVE i \notin L
      <4>1. RefsTo(rows', i) # {}
          BY DEF RefsTo, IdsOf
      <4> QED BY <2>1, <2>2, <4>1
    <3> QED BY <3>1, <3>2 DEF FilesRight, Present
  <2>7. Covered(left)'
    <3> SUFFICES ASSUME NEW i \in files' \ left', NEW C \in SUBSET Workers
                 PROVE  \/ RefsTo(Outcome(C)', i) # {}
                        \/ \E v \in C : i \in tx'[v].del /\ tx'[v].st = "open"
                        \/ \E v \in Workers \ C : i \in tx'[v].new
        BY DEF Covered
    <3>1. CASE i \notin R
        BY <3>1 DEF FilesRight, Covered
    <3>2. CASE i \in R
      <4>1. ~Leftover(i)' /\ ~Involved(i)'
          BY <2>1, <3>2
      <4>2. PICK p \in rows' : p[2] = i
          BY <2>3, <4>1 DEF RefsTo
      <4>3. \A v \in Workers : p \notin tx'[v].gone
          BY <2>4, <4>1, <4>2 DEF IdsOf
      <4>4. p \in Outcome(C)'
          BY <4>3, InOutcome
      <4> QED BY <4>2, <4>4 DEF RefsTo
    <3> QED BY <3>1, <3>2
  <2>8. Marked(left)'
    <3>1. \A i \in marked' \ left' : i \notin R
        BY <2>1, <2>3
    <3> QED BY <3>1 DEF FilesRight, Marked
  <2> QED BY <2>1, <2>5, <2>6, <2>7, <2>8 DEF FilesRight
<1> QED BY <1>1, <1>2 DEF Histories

\* Together: a transaction that goes on keeps the invariant.
LEMMA GrowStep ==
    ASSUME FilesInv, NEW w \in Workers, NEW u, NEW fresh,
           NEW L \in SUBSET Instances, NEW R \in SUBSET Instances,
           TxGrows(w, u), LocksGrow(w, u), IdsGrow(w, u, fresh),
           FilesGrow(w, u, fresh, L, R), JudgedRight(w, u, fresh, L, R), Histories(L, R),
           files' \subseteq Instances, marked' \subseteq Instances,
           nextInst' \in 1..(MaxInst + 1)
    PROVE  FilesInv'
<1> USE DEF FilesInv, TablesInv
<1>1. LockInv' /\ FreshInv' /\ RenamedInv'
    BY GrowLock, GrowFresh, GrowRenamed
<1>2. Doomed(L)'
    BY GrowDoomed DEF FilesRight
<1>3. Present(L)'
    BY <1>2, GrowPresent DEF FilesRight
<1>4. Covered(R)' /\ Marked(R)'
    BY GrowCovered, GrowMarked DEF FilesRight
<1>5. FilesRight(lost, left)' /\ lost' \subseteq Instances /\ left' \subseteq Instances
  <2>1. FilesRight(L, R)'
      BY <1>2, <1>3, <1>4 DEF FilesRight
  <2> QED BY <2>1, Forget
<1>6. StorageTypeOK'
    BY <1>5 DEF StorageTypeOK, TxGrows
<1> QED BY <1>1, <1>5, <1>6

\* What the handlers need to know of it: who has gone on, and with which objects.
TxGrew(w, O) ==
    /\ tx[w].st = "open" /\ tx'[w].st # "none" /\ rows' = rows
    /\ \A v \in Workers \ {w} : tx'[v] = tx[v]
    /\ \A p \in tx'[w].ins : p \in tx[w].ins \/ p[1] \in O

\* What the handlers see of a step of their transaction.
LEMMA GrowShape ==
    ASSUME StorageTypeOK, NEW w \in Workers, NEW u, TxGrows(w, u),
           NEW O, \A p \in u.ins : p \in tx[w].ins \/ p[1] \in O
    PROVE  TxGrew(w, O)
BY DEF StorageTypeOK, TxGrows, TxGrew

\* The instances that DeleteRows judges are those of the snapshot.
LEMMA JudgedIds ==
    ASSUME NEW w \in Workers, NEW D, D \cap Touched(w) = {}
    PROVE  Judged(w, D) \subseteq IdsOf(tx[w].snap)
BY DEF Judged, IdsOf, RowsOf, View, Touched

\* What is found without references was in a row that the transaction has deleted.
LEMMA FoundWasReferred ==
    ASSUME NEW w \in Workers, NEW D, D \cap Touched(w) = {}, NEW t, t.snap = tx[w].snap,
           NEW i \in Orphans(t, Judged(w, D))
    PROVE  RefsTo(t.gone, i) # {}
<1>1. i \in Judged(w, D) /\ RefsTo(View(t), i) = {}
    BY DEF Orphans
<1>2. PICK p \in View(tx[w]) : p[1] \in D /\ p[2] = i
    BY <1>1 DEF Judged, IdsOf, RowsOf
<1>3. p \in t.snap
    BY <1>2 DEF View, Touched
<1>4. p \in t.gone
    BY <1>1, <1>2, <1>3 DEF View, RefsTo
<1> QED BY <1>2, <1>4 DEF RefsTo

\* What a judgement says of the instances in found and of the rows that are gone, but for the
\* instances in mistaken and in missed.
JudgedWell(w, t, found, mistaken, missed) ==
    /\ \A i \in found :
          /\ RefsTo(t.gone, i) # {}
          /\ i \notin mistaken =>
                /\ RefsTo(rows, i) \subseteq t.gone /\ RefsTo(tx[w].ins, i) = {}
                /\ \A v \in Workers : RefsTo(tx[v].ins, i) = {}
    /\ \A i \in IdsOf(t.gone \ tx[w].gone) \ missed :
          \/ i \in found
          \/ \A C \in SUBSET Workers : \E p \in (Outcome(C) \ t.gone) \cup tx[w].ins : p[2] = i

\* What the judgement of DeleteRows is worth.
LEMMA JudgeFacts ==
    ASSUME StorageTypeOK, LockInv, NEW w \in Workers, NEW D, D \cap Touched(w) = {},
           NEW r, r.t.snap = tx[w].snap, r.t.ins = tx[w].ins,
           \A p \in r.t.gone \ tx[w].gone : ~LockedForWrite(w, {p[1]}),
           NEW found, Judgement(w, r, Judged(w, D), found)
    PROVE  JudgedWell(w, r.t, found, r.lost, r.left)
<1> DEFINE t == r.t
           ids == Judged(w, D)
<1>1. /\ found \subseteq Orphans(t, ids)
      /\ r.lost = {i \in found : MayBeKept(t, i)}
      /\ r.left = {i \in ids \ found : MayBeDropped(t, i)} \cup (IdsOf(t.gone \ tx[w].gone) \ ids)
    BY DEF Judgement
<1> HIDE DEF ids
<1>2. ASSUME NEW i \in found PROVE RefsTo(t.gone, i) # {}
    BY <1>1, FoundWasReferred DEF ids
<1> HIDE DEF t
<1>3. t.ins = tx[w].ins /\ \A p \in t.gone \ tx[w].gone : ~LockedForWrite(w, {p[1]})
    BY DEF t
<1>4. ASSUME NEW i \in found, i \notin r.lost
      PROVE  /\ RefsTo(rows, i) \subseteq t.gone
             /\ \A v \in Workers : RefsTo(tx[v].ins, i) = {}
  <2>1. \A C \in SUBSET Workers : Dropped(t, Outcome(C), i)
      BY <1>1, <1>4 DEF MayBeKept, Shown, Orphans
  <2>2. \A C \in SUBSET Workers : \A p \in (Outcome(C) \ t.gone) \cup tx[w].ins : p[2] # i
      BY <1>3, <2>1 DEF Dropped, RefsTo
  <2>3. Outcome({}) = rows
      BY DEF Outcome
  <2>4. RefsTo(rows, i) \subseteq t.gone
      BY <2>2, <2>3 DEF RefsTo
  <2>5. ASSUME NEW v \in Workers, NEW p \in tx[v].ins, p[2] = i
        PROVE  FALSE
    <3>1. p \in Outcome({v})
        BY InOutcome
    <3>2. p \in t.gone /\ v # w
        BY <2>2, <2>5, <3>1
    <3>3. p[1] \in Touched(v)
        BY DEF Touched
    <3>4. CASE p \in tx[w].gone
      <4>1. p[1] \in Touched(w)
          BY <3>4 DEF Touched
      <4> QED BY <3>2, <3>3, <4>1 DEF LockInv
    <3>5. CASE p \notin tx[w].gone
      <4>1. ~LockedForWrite(w, {p[1]})
          BY <1>3, <3>2, <3>5
      <4> QED BY <3>2, <3>3, <4>1 DEF LockedForWrite, Locked
    <3> QED BY <3>4, <3>5
  <2> QED BY <2>4, <2>5 DEF RefsTo
<1>5. ASSUME NEW i \in IdsOf(t.gone \ tx[w].gone), i \notin r.left, i \notin found
      PROVE  \A C \in SUBSET Workers :
                 \E p \in (Outcome(C) \ t.gone) \cup tx[w].ins : p[2] = i
  <2>1. \A C \in SUBSET Workers : ~Dropped(t, Outcome(C), i)
      BY <1>1, <1>5 DEF MayBeDropped
  <2> QED BY <1>3, <2>1 DEF Dropped, RefsTo
<1>6. JudgedWell(w, t, found, r.lost, r.left)
    BY <1>2, <1>4, <1>5 DEF JudgedWell
<1> QED BY <1>6 DEF t

-------------------------------------------------------------------------------
(* The operations of a transaction that is open, one by one.               *)

\* DeleteAttachments: rows and orphans of several objects at once.
LEMMA DeleteAttachmentsKeeps ==
    ASSUME FilesInv, NEW w \in Workers, NEW D \in SUBSET Objects, NEW asked \in BOOLEAN,
           DeleteAttachments(w, D, asked)
    PROVE  FilesInv' /\ TxGrew(w, {})
<1> DEFINE r == Deleting(w, D, asked)
           u == r.t
           ids == Judged(w, D)
<1> USE DEF FilesInv, TablesInv
<1>1. PICK found : DeletedFields(w, D, r, ids, found)
    BY DeletingFields
<1>2. PICK L, R : L = lost \cup r.lost /\ R = left \cup r.left /\ History(L, R)
    BY DEF DeleteAttachments, Deleting
<1>3. /\ tx[w].st = "open" /\ D \cap Touched(w) = {}
      /\ u.gone # tx[w].gone => ~LockedForWrite(w, D)
      /\ tx' = [tx EXCEPT ![w] = u]
      /\ rows' = rows /\ nextInst' = nextInst /\ files' = files /\ marked' = marked
    BY DEF DeleteAttachments, Deleting
<1>4. ids \subseteq IdsOf(tx[w].snap)
    BY <1>3, JudgedIds
<1> HIDE DEF r
<1>5. /\ u \in Transactions /\ u.st = tx[w].st /\ u.snap = tx[w].snap /\ u.ins = tx[w].ins
      /\ u.src = tx[w].src /\ u.new = tx[w].new
      /\ u.gone = tx[w].gone \/ u.gone = tx[w].gone \cup RowsOf(rows, D)
      /\ u.mark = tx[w].mark /\ u.del = tx[w].del \cup found
      /\ Judgement(w, r, ids, found)
    BY <1>1 DEF DeletedFields
<1>6. /\ found \subseteq ids /\ r.lost \subseteq Instances /\ r.left \subseteq Instances
      /\ u.gone \subseteq tx[w].gone \cup RowsOf(rows, D)
  <2>1. found \subseteq ids /\ ids \subseteq Instances
      BY <1>4, <1>5 DEF Judgement, Orphans, StorageTypeOK, Transactions, IdsOf, Pairs
  <2>2. IdsOf(u.gone \ tx[w].gone) \subseteq Instances
      BY <1>5 DEF Transactions, IdsOf, Pairs
  <2> QED BY <1>5, <2>1, <2>2 DEF Judgement
<1>7. \A p \in u.gone \ tx[w].gone : p \in rows /\ ~LockedForWrite(w, {p[1]})
  <2>1. \A p \in u.gone \ tx[w].gone : p[1] \in D /\ p \in rows
      BY <1>6 DEF RowsOf
  <2> QED BY <1>3, <2>1 DEF LockedForWrite, Locked
<1>8. JudgedWell(w, u, found, r.lost, r.left)
    BY <1>3, <1>5, <1>7, JudgeFacts
<1> HIDE DEF u, ids
<1>9. TxGrows(w, u)
    BY <1>3, <1>5 DEF TxGrows
<1>10. LocksGrow(w, u)
    BY <1>5, <1>7 DEF LocksGrow, LockInv
<1>11. IdsGrow(w, u, {})
    BY <1>3, <1>4, <1>5, <1>6 DEF IdsGrow
<1>12. FilesGrow(w, u, {}, L, R)
    BY <1>2, <1>3, <1>5 DEF FilesGrow, RenamedInv
<1>13. JudgedRight(w, u, {}, L, R)
  <2>1. IdsOf(u.ins \ tx[w].ins) = {}
      BY <1>5 DEF IdsOf
  <2>2. \A i \in (u.del \cup u.mark) \ (tx[w].del \cup tx[w].mark) : i \in found
      BY <1>5
  <2>3. \A i \in found : i \in u.del
      BY <1>5
  <2>4. u.ins = tx[w].ins /\ r.lost \subseteq L /\ r.left \subseteq R
      BY <1>2, <1>5
  <2> QED BY <1>8, <2>1, <2>2, <2>3, <2>4 DEF JudgedWell, JudgedRight
<1>14. L \in SUBSET Instances /\ R \in SUBSET Instances
    BY <1>2, <1>6 DEF StorageTypeOK
<1>15. \A p \in u.ins : p \in tx[w].ins \/ p[1] \in {}
    BY <1>5
<1>16. Histories(L, R)
    BY <1>2 DEF Histories
<1> QED BY <1>3, <1>9, <1>10, <1>11, <1>12, <1>13, <1>14, <1>15, <1>16, GrowStep, GrowShape
        DEF StorageTypeOK

\* What the three ways to save a property have in common: transaction t is that of w after
\* the row of o has gone.
Replacement(w, o, t, ids, found, mistaken, missed) ==
    /\ t \in Transactions /\ t.st = "open" /\ t.snap = tx[w].snap /\ t.ins = tx[w].ins
    /\ t.src = tx[w].src /\ t.new = tx[w].new /\ t.del = tx[w].del
    /\ t.mark = tx[w].mark \cup (found \cap files)
    /\ found \subseteq ids /\ ids \subseteq IdsOf(tx[w].snap)
    /\ \A i \in ids : <<o, i>> \in View(tx[w])
    /\ tx[w].gone \subseteq t.gone
    /\ \A p \in t.gone \ tx[w].gone : p \in rows /\ p[1] = o
    /\ mistaken \subseteq Instances /\ missed \subseteq Instances
    /\ JudgedWell(w, t, found, mistaken, missed)

\* The old row goes, and with it the old file if nobody else is seen to refer to it.
LEMMA Replaces ==
    ASSUME FilesInv, NEW w \in Workers, NEW o \in Objects, MayWrite(w, o), NEW asked \in BOOLEAN
    PROVE  \E found : Replacement(w, o, Replacing(w, {o}, asked).t, Judged(w, {o}), found,
                                  Replacing(w, {o}, asked).lost, Replacing(w, {o}, asked).left)
<1> DEFINE r == Replacing(w, {o}, asked)
           t == r.t
           ids == Judged(w, {o})
<1> USE DEF FilesInv, TablesInv
<1>1. PICK found : ReplacedFields(w, {o}, r, ids, found)
    BY ReplacingFields
<1>2. tx[w].st = "open" /\ {o} \cap Touched(w) = {} /\ ~LockedForWrite(w, {o})
    BY DEF MayWrite
<1>3. ids \subseteq IdsOf(tx[w].snap)
    BY <1>2, JudgedIds
<1>4. \A i \in ids : <<o, i>> \in View(tx[w])
  <2>1. View(tx[w]) \subseteq Objects \X Instances
      BY DEF View, StorageTypeOK, Transactions, Pairs
  <2> QED BY <2>1 DEF Judged, IdsOf, RowsOf
<1> HIDE DEF r
<1>5. /\ t \in Transactions /\ t.st = tx[w].st /\ t.snap = tx[w].snap /\ t.ins = tx[w].ins
      /\ t.src = tx[w].src /\ t.new = tx[w].new /\ t.del = tx[w].del
      /\ t.gone = tx[w].gone \/ t.gone = tx[w].gone \cup RowsOf(rows, {o})
      /\ t.mark = tx[w].mark \cup (found \cap files)
      /\ Judgement(w, r, ids, found)
    BY <1>1 DEF ReplacedFields
<1>6. found \subseteq ids /\ r.lost \subseteq Instances /\ r.left \subseteq Instances
  <2>1. found \subseteq ids /\ ids \subseteq Instances
    <3>1. IdsOf(tx[w].snap) \subseteq Instances
        BY DEF StorageTypeOK, Transactions, IdsOf, Pairs
    <3>2. found \subseteq ids
        BY <1>5 DEF Judgement, Orphans
    <3> QED BY <1>3, <3>1, <3>2
  <2>2. IdsOf(t.gone \ tx[w].gone) \subseteq Instances
      BY <1>5 DEF Transactions, IdsOf, Pairs
  <2> QED BY <1>5, <2>1, <2>2 DEF Judgement
<1>7. tx[w].gone \subseteq t.gone /\ \A p \in t.gone \ tx[w].gone : p \in rows /\ p[1] = o
    BY <1>5 DEF RowsOf
<1>8. JudgedWell(w, t, found, r.lost, r.left)
  <2>1. \A p \in t.gone \ tx[w].gone : ~LockedForWrite(w, {p[1]})
      BY <1>2, <1>7
  <2> QED BY <1>2, <1>5, <2>1, JudgeFacts
<1>9. Replacement(w, o, t, ids, found, r.lost, r.left)
    BY <1>2, <1>3, <1>4, <1>5, <1>6, <1>7, <1>8 DEF Replacement
<1> QED BY <1>9 DEF r

\* The counter has not been handed out, and no file with that name is renamed but one that was
\* left behind.
LEMMA NextIsNew ==
    ASSUME StorageTypeOK, FreshInv, Marked(left)
    PROVE  /\ nextInst \notin IdsOf(rows) /\ \A v \in Workers : nextInst \notin Known(tx[v])
           /\ nextInst \in marked => nextInst \in left
<1>1. /\ nextInst \notin IdsOf(rows)
      /\ \A v \in Workers : nextInst \notin Known(tx[v])
    BY DEF FreshInv, StorageTypeOK
<1>2. \A v \in Workers : tx[v].mark \subseteq Known(tx[v])
    BY DEF Known
<1> QED BY <1>1, <1>2 DEF Marked

\* SaveAttachment: a new instance takes the place of the old one.
LEMMA SaveAttachmentKeeps ==
    ASSUME FilesInv, NEW w \in Workers, NEW o \in Objects, NEW asked \in BOOLEAN,
           SaveAttachment(w, o, asked)
    PROVE  FilesInv' /\ TxGrew(w, {o})
<1> DEFINE r == Replacing(w, {o}, asked)
           t == r.t
           mistaken == r.lost
           missed == r.left
           ids == Judged(w, {o})
           n == nextInst
           u == NewFile(t, o, n)
<1> USE DEF FilesInv, TablesInv
<1>1. /\ MayWrite(w, o) /\ RowsOf(rows, {o}) \subseteq t.gone
      /\ n \in Instances /\ nextInst' = n + 1
      /\ files' = (files \ t.mark) \cup {n}
      /\ marked' = marked \cup t.mark
      /\ tx' = [tx EXCEPT ![w] = u]
      /\ rows' = rows
    BY DEF SaveAttachment, Replacing
<1>0. PICK L, R : /\ L = (lost \cup mistaken) \ {n}
                  /\ R = (left \cup missed) \ ({n} \ marked)
                  /\ History(L, R)
    BY DEF SaveAttachment, Replacing
<1>2. PICK found : Replacement(w, o, t, ids, found, mistaken, missed)
    BY <1>1, Replaces
<1> HIDE DEF t, r, ids, mistaken, missed
<1>3. /\ t \in Transactions /\ t.st = "open" /\ t.snap = tx[w].snap /\ t.ins = tx[w].ins
      /\ t.src = tx[w].src /\ t.new = tx[w].new /\ t.del = tx[w].del
      /\ t.mark = tx[w].mark \cup (found \cap files)
      /\ found \subseteq ids /\ ids \subseteq IdsOf(tx[w].snap)
      /\ \A i \in ids : <<o, i>> \in View(tx[w])
      /\ tx[w].gone \subseteq t.gone
      /\ \A p \in t.gone \ tx[w].gone : p \in rows /\ p[1] = o
      /\ mistaken \subseteq Instances /\ missed \subseteq Instances
      /\ JudgedWell(w, t, found, mistaken, missed)
    BY <1>2 DEF Replacement
<1>4. tx[w].st = "open" /\ o \notin Touched(w) /\ ~LockedForWrite(w, {o})
    BY <1>1 DEF MayWrite
<1>5. /\ u \in Transactions /\ u.st = t.st /\ u.snap = t.snap /\ u.gone = t.gone
      /\ u.src = t.src /\ u.del = t.del /\ u.mark = t.mark
      /\ u.ins = tx[w].ins \cup {<<o, n>>} /\ u.new = tx[w].new \cup {n}
  <2> DEFINE ins == t.ins \cup {<<o, n>>}
             new == t.new \cup {n}
  <2>1. ins \subseteq Pairs /\ new \subseteq Instances
      BY <1>1, <1>3 DEF Transactions, Pairs
  <2>2. u = [t EXCEPT !.ins = ins, !.new = new]
      BY DEF NewFile
  <2> HIDE DEF ins, new, u
  <2>3. /\ u \in Transactions /\ u.st = t.st /\ u.snap = t.snap /\ u.gone = t.gone
        /\ u.src = t.src /\ u.del = t.del /\ u.mark = t.mark /\ u.ins = ins /\ u.new = new
      BY <1>3, <2>1, <2>2 DEF Transactions
  <2> QED BY <1>3, <2>3 DEF ins, new
<1>6. /\ n \notin IdsOf(rows) /\ \A v \in Workers : n \notin Known(tx[v])
      /\ n \in marked => n \in left
    BY NextIsNew DEF FilesRight
<1> HIDE DEF u, n
<1>7. TxGrows(w, u)
    BY <1>1, <1>3, <1>4, <1>5 DEF TxGrows
<1>8. LocksGrow(w, u)
  <2>1. \A p \in u.gone : p \in rows
      BY <1>3, <1>5 DEF LockInv
  <2>2. \A p \in (u.gone \ tx[w].gone) \cup (u.ins \ tx[w].ins) : ~LockedForWrite(w, {p[1]})
      BY <1>3, <1>4, <1>5
  <2>3. \A q \in rows : q[1] = o => q \in u.gone
      BY <1>1, <1>5 DEF RowsOf
  <2>4. \A q \in u.ins : q[1] = o => q = <<o, n>>
      BY <1>4, <1>5 DEF Touched
  <2> QED BY <1>3, <1>5, <2>1, <2>2, <2>3, <2>4 DEF LocksGrow
<1>9. IdsOf(u.ins) \subseteq IdsOf(tx[w].ins) \cup {n} /\ n \in IdsOf(u.ins)
  <2>1. ASSUME NEW i \in IdsOf(u.ins) PROVE i \in IdsOf(tx[w].ins) \cup {n}
    <3>1. PICK p \in u.ins : p[2] = i
        BY <2>1 DEF IdsOf
    <3>2. p \in tx[w].ins \/ p = <<o, n>>
        BY <1>5
    <3> QED BY <3>1, <3>2 DEF IdsOf
  <2>2. <<o, n>> \in u.ins /\ <<o, n>>[2] = n
      BY <1>5
  <2> QED BY <2>1, <2>2, InIds
<1>10. IdsGrow(w, u, {n})
  <2>1. n = nextInst
      BY DEF n
  <2> QED BY <1>1, <1>3, <1>5, <1>9, <2>1 DEF IdsGrow
<1>11. n \notin t.mark
    BY <1>3, <1>6 DEF Known, IdsOf
<1>12. FilesGrow(w, u, {n}, L, R)
  <2>1. n = nextInst
      BY DEF n
  <2> QED BY <1>1, <1>0, <1>3, <1>5, <1>6, <1>11, <2>1 DEF FilesGrow
<1>13. JudgedRight(w, u, {n}, L, R)
  <2>1. \A i \in IdsOf(u.ins \ tx[w].ins) : i = n
      BY <1>5 DEF IdsOf
  <2>2. ASSUME NEW i \in (u.del \cup u.mark) \ (tx[w].del \cup tx[w].mark)
        PROVE  /\ RefsTo(u.gone, i) # {}
               /\ i \notin L => /\ RefsTo(rows, i) \subseteq u.gone /\ RefsTo(u.ins, i) = {}
                                /\ \A v \in Workers : RefsTo(tx[v].ins, i) = {}
    <3>1. i \in found /\ i # n
        BY <1>3, <1>5, <1>11
    <3>2. RefsTo(u.ins, i) = RefsTo(tx[w].ins, i)
        BY <1>5, <3>1 DEF RefsTo
    <3>3. i \notin L => i \notin mistaken
        BY <1>0, <3>1
    <3> QED BY <1>3, <1>5, <3>1, <3>2, <3>3 DEF JudgedWell
  <2>3. ASSUME NEW i \in IdsOf(u.gone \ tx[w].gone) \ R
        PROVE  \/ i \in u.del \cup u.mark \/ i \notin files
               \/ \A C \in SUBSET Workers : \E p \in (Outcome(C) \ u.gone) \cup u.ins : p[2] = i
    <3>1. IdsOf(u.gone \ tx[w].gone) \subseteq IdsOf(rows)
        BY <1>3, <1>5 DEF IdsOf
    <3>2. i \notin missed /\ i \in IdsOf(t.gone \ tx[w].gone)
        BY <1>0, <1>5, <1>6, <3>1
    <3>3. \/ i \in found
          \/ \A C \in SUBSET Workers : \E p \in (Outcome(C) \ t.gone) \cup tx[w].ins : p[2] = i
        BY <1>3, <3>2 DEF JudgedWell
    <3>4. \A C : (Outcome(C) \ t.gone) \cup tx[w].ins \subseteq (Outcome(C) \ u.gone) \cup u.ins
        BY <1>5
    <3> QED BY <1>3, <1>5, <3>3, <3>4
  <2> QED BY <2>1, <2>2, <2>3 DEF JudgedRight
<1>14. /\ files' \subseteq Instances /\ marked' \subseteq Instances
       /\ L \in SUBSET Instances /\ R \in SUBSET Instances
       /\ nextInst' \in 1..(MaxInst + 1) /\ Histories(L, R)
  <2>1. t.mark \subseteq Instances
      BY <1>3 DEF Transactions
  <2>2. nextInst' \in 1..(MaxInst + 1)
      BY <1>1, InstancesAssumption DEF n, Instances
  <2> QED BY <1>1, <1>0, <1>3, <2>1, <2>2 DEF StorageTypeOK, Histories
<1>20. \A p \in u.ins : p \in tx[w].ins \/ p[1] \in {o}
    BY <1>5
<1> QED BY <1>20, <1>7, <1>8, <1>10, <1>12, <1>13, <1>14, GrowStep, GrowShape

\* A short write: the new file stays, and counts as left behind.
LEMMA SaveAttachmentShortKeeps ==
    ASSUME FilesInv, NEW w \in Workers, NEW o \in Objects, NEW asked \in BOOLEAN,
           SaveAttachmentShort(w, o, asked)
    PROVE  FilesInv' /\ TxGrew(w, {})
<1> DEFINE r == Replacing(w, {o}, asked)
           t == r.t
           mistaken == r.lost
           missed == r.left
           ids == Judged(w, {o})
           n == nextInst
<1> USE DEF FilesInv, TablesInv
<1>1. /\ MayWrite(w, o)
      /\ n \in Instances /\ nextInst' = n + 1
      /\ files' = (files \ t.mark) \cup {n}
      /\ marked' = marked \cup t.mark
      /\ tx' = [tx EXCEPT ![w] = t]
      /\ rows' = rows
    BY DEF SaveAttachmentShort, Replacing
<1>0. PICK L, R : L = lost \cup mistaken /\ R = left \cup missed \cup {n} /\ History(L, R)
    BY DEF SaveAttachmentShort, Replacing
<1>2. PICK found : Replacement(w, o, t, ids, found, mistaken, missed)
    BY <1>1, Replaces
<1> HIDE DEF t, r, ids, mistaken, missed
<1>3. /\ t \in Transactions /\ t.st = "open" /\ t.snap = tx[w].snap /\ t.ins = tx[w].ins
      /\ t.src = tx[w].src /\ t.new = tx[w].new /\ t.del = tx[w].del
      /\ t.mark = tx[w].mark \cup (found \cap files)
      /\ found \subseteq ids /\ ids \subseteq IdsOf(tx[w].snap)
      /\ \A i \in ids : <<o, i>> \in View(tx[w])
      /\ tx[w].gone \subseteq t.gone
      /\ \A p \in t.gone \ tx[w].gone : p \in rows /\ p[1] = o
      /\ mistaken \subseteq Instances /\ missed \subseteq Instances
      /\ JudgedWell(w, t, found, mistaken, missed)
    BY <1>2 DEF Replacement
<1>4. tx[w].st = "open" /\ ~LockedForWrite(w, {o})
    BY <1>1 DEF MayWrite
<1>5. TxGrows(w, t)
    BY <1>1, <1>3, <1>4 DEF TxGrows
<1>6. LocksGrow(w, t)
    BY <1>3, <1>4 DEF LocksGrow, LockInv
<1>7. IdsGrow(w, t, {})
    BY <1>1, <1>3 DEF IdsGrow
<1>8. FilesGrow(w, t, {}, L, R)
    BY <1>1, <1>0, <1>3 DEF FilesGrow
<1>9. JudgedRight(w, t, {}, L, R)
  <2>1. IdsOf(t.ins \ tx[w].ins) = {}
      BY <1>3 DEF IdsOf
  <2>2. \A i \in (t.del \cup t.mark) \ (tx[w].del \cup tx[w].mark) : i \in found
      BY <1>3
  <2>3. \A i \in found : i \in t.mark \/ i \notin files
      BY <1>3
  <2>4. t.ins = tx[w].ins /\ mistaken \subseteq L /\ missed \subseteq R
      BY <1>0, <1>3
  <2>5. JudgedWell(w, t, found, mistaken, missed)
      BY <1>3
  <2> QED BY <2>1, <2>2, <2>3, <2>4, <2>5 DEF JudgedWell, JudgedRight
<1>10. /\ files' \subseteq Instances /\ marked' \subseteq Instances
       /\ L \in SUBSET Instances /\ R \in SUBSET Instances
       /\ nextInst' \in 1..(MaxInst + 1) /\ Histories(L, R)
  <2>1. t.mark \subseteq Instances
      BY <1>3 DEF Transactions
  <2>2. nextInst' \in 1..(MaxInst + 1)
      BY <1>1, InstancesAssumption DEF Instances
  <2> QED BY <1>1, <1>0, <1>3, <2>1, <2>2 DEF StorageTypeOK, Histories
<1>20. \A p \in t.ins : p \in tx[w].ins \/ p[1] \in {}
    BY <1>3
<1> QED BY <1>20, <1>5, <1>6, <1>7, <1>8, <1>9, <1>10, GrowStep, GrowShape

\* SetSingleInstanceId: a reference to an instance that somebody else has made.
LEMMA SaveAttachmentByIdKeeps ==
    ASSUME FilesInv, NEW w \in Workers, NEW o \in Objects, NEW n \in Instances,
           NEW asked \in BOOLEAN, SaveAttachmentById(w, o, n, asked)
    PROVE  FilesInv' /\ TxGrew(w, {o})
<1> DEFINE r == Replacing(w, {o}, asked)
           t == r.t
           mistaken == r.lost
           missed == r.left
           ids == Judged(w, {o})
           u == [t EXCEPT !.gone = t.gone \cup RowsOf(rows, {o}), !.ins = t.ins \cup {<<o, n>>}]
<1> USE DEF FilesInv, TablesInv
<1>1. /\ MayWrite(w, o) /\ RefsTo(rows, n) # {} /\ n \in files
      /\ <<o, n>> \notin View(tx[w])
      /\ files' = files \ t.mark
      /\ marked' = marked \cup t.mark
      /\ tx' = [tx EXCEPT ![w] = u]
      /\ rows' = rows /\ nextInst' = nextInst
    BY DEF SaveAttachmentById, Replacing, InstanceExists
<1>0. PICK L, R : /\ L = lost \cup mistaken \cup {j \in {n} : \E v \in Workers : j \in tx[v].del}
                  /\ R = left \cup missed \cup IdsOf(RowsOf(rows, {o}) \ t.gone)
                  /\ History(L, R)
    BY DEF SaveAttachmentById, Replacing
<1>2. PICK found : Replacement(w, o, t, ids, found, mistaken, missed)
    BY <1>1, Replaces
<1> HIDE DEF t, r, ids, mistaken, missed
<1>3. /\ t \in Transactions /\ t.st = "open" /\ t.snap = tx[w].snap /\ t.ins = tx[w].ins
      /\ t.src = tx[w].src /\ t.new = tx[w].new /\ t.del = tx[w].del
      /\ t.mark = tx[w].mark \cup (found \cap files)
      /\ found \subseteq ids /\ ids \subseteq IdsOf(tx[w].snap)
      /\ \A i \in ids : <<o, i>> \in View(tx[w])
      /\ tx[w].gone \subseteq t.gone
      /\ \A p \in t.gone \ tx[w].gone : p \in rows /\ p[1] = o
      /\ mistaken \subseteq Instances /\ missed \subseteq Instances
      /\ JudgedWell(w, t, found, mistaken, missed)
    BY <1>2 DEF Replacement
<1>4. tx[w].st = "open" /\ o \notin Touched(w) /\ ~LockedForWrite(w, {o})
    BY <1>1 DEF MayWrite
<1>5. /\ u \in Transactions /\ u.st = t.st /\ u.snap = t.snap
      /\ u.gone = t.gone \cup RowsOf(rows, {o})
      /\ u.src = t.src /\ u.del = t.del /\ u.mark = t.mark
      /\ u.ins = tx[w].ins \cup {<<o, n>>} /\ u.new = tx[w].new
  <2> DEFINE ins == t.ins \cup {<<o, n>>}
             gone == t.gone \cup RowsOf(rows, {o})
  <2>1. ins \subseteq Pairs /\ gone \subseteq Pairs
      BY <1>1, <1>3 DEF Transactions, Pairs, RowsOf, StorageTypeOK
  <2>2. u = [t EXCEPT !.gone = gone, !.ins = ins]
      OBVIOUS
  <2> HIDE DEF ins, gone, u
  <2>3. /\ u \in Transactions /\ u.st = t.st /\ u.snap = t.snap /\ u.gone = gone
        /\ u.src = t.src /\ u.del = t.del /\ u.mark = t.mark /\ u.ins = ins /\ u.new = t.new
      BY <1>3, <2>1, <2>2 DEF Transactions
  <2> QED BY <1>3, <2>3 DEF ins, gone
<1>6. n \notin ids /\ n \in IdsOf(rows)
    BY <1>1, <1>3 DEF RefsTo, IdsOf
<1> HIDE DEF u
<1>7. TxGrows(w, u)
    BY <1>1, <1>3, <1>4, <1>5 DEF TxGrows
<1>8. LocksGrow(w, u)
  <2>1. \A p \in u.gone : p \in rows
      BY <1>3, <1>5 DEF LockInv, RowsOf
  <2>6. \A p \in u.gone \ tx[w].gone : p[1] = o
      BY <1>3, <1>5 DEF RowsOf
  <2>7. \A p \in u.ins \ tx[w].ins : p = <<o, n>>
      BY <1>5
  <2>2. \A p \in (u.gone \ tx[w].gone) \cup (u.ins \ tx[w].ins) : ~LockedForWrite(w, {p[1]})
      BY <1>4, <2>6, <2>7
  <2>3. \A q \in rows : q[1] = o => q \in u.gone
      BY <1>5 DEF RowsOf
  <2>4. \A q \in u.ins : q[1] = o => q = <<o, n>>
      BY <1>4, <1>5 DEF Touched
  <2>5. u.src = tx[w].src
      BY <1>3, <1>5
  <2> QED BY <2>7, <2>1, <2>2, <2>3, <2>4, <2>5 DEF LocksGrow
<1>9. IdsOf(u.ins) \subseteq IdsOf(tx[w].ins) \cup {n}
  <2>1. ASSUME NEW i \in IdsOf(u.ins) PROVE i \in IdsOf(tx[w].ins) \cup {n}
    <3>1. PICK p \in u.ins : p[2] = i
        BY <2>1 DEF IdsOf
    <3>2. p \in tx[w].ins \/ p = <<o, n>>
        BY <1>5
    <3> QED BY <3>1, <3>2 DEF IdsOf
  <2> QED BY <2>1
<1>10. IdsGrow(w, u, {})
    BY <1>1, <1>3, <1>5, <1>6, <1>9 DEF IdsGrow
<1>11. FilesGrow(w, u, {}, L, R)
    BY <1>1, <1>0, <1>3, <1>5 DEF FilesGrow
<1>12. tx'[w] = u /\ \A v \in Workers \ {w} : tx'[v] = tx[v]
    BY <1>1 DEF StorageTypeOK
<1>13. n \notin L => \A v \in Workers : n \notin tx'[v].del \cup tx'[v].mark
  <2> SUFFICES ASSUME n \notin L, NEW v \in Workers PROVE n \notin tx'[v].del \cup tx'[v].mark
      OBVIOUS
  <2>1. n \notin tx[v].del
      BY <1>0
  <2>2. n \notin tx[v].mark
      BY <1>1 DEF RenamedInv
  <2> QED BY <1>3, <1>5, <1>6, <1>12, <2>1, <2>2
<1>14. JudgedRight(w, u, {}, L, R)
  <2>1. \A i \in IdsOf(u.ins \ tx[w].ins) : i = n
      BY <1>5 DEF IdsOf
  <2>2. ASSUME NEW i \in (u.del \cup u.mark) \ (tx[w].del \cup tx[w].mark)
        PROVE  /\ RefsTo(u.gone, i) # {}
               /\ i \notin L => /\ RefsTo(rows, i) \subseteq u.gone /\ RefsTo(u.ins, i) = {}
                                /\ \A v \in Workers : RefsTo(tx[v].ins, i) = {}
    <3>1. i \in found /\ i # n
        BY <1>3, <1>5, <1>6
    <3>2. RefsTo(u.ins, i) = RefsTo(tx[w].ins, i) /\ RefsTo(t.gone, i) \subseteq RefsTo(u.gone, i)
        BY <1>5, <3>1 DEF RefsTo
    <3>3. (i \notin L => i \notin mistaken) /\ t.gone \subseteq u.gone
        BY <1>0, <1>5
    <3>4. /\ RefsTo(t.gone, i) # {}
          /\ i \notin L => /\ RefsTo(rows, i) \subseteq t.gone /\ RefsTo(tx[w].ins, i) = {}
                           /\ \A v \in Workers : RefsTo(tx[v].ins, i) = {}
        BY <1>3, <3>1, <3>3 DEF JudgedWell
    <3> QED BY <3>2, <3>3, <3>4
  <2>3. ASSUME NEW i \in IdsOf(u.gone \ tx[w].gone) \ R
        PROVE  \/ i \in u.del \cup u.mark \/ i \notin files
               \/ \A C \in SUBSET Workers : \E p \in (Outcome(C) \ u.gone) \cup u.ins : p[2] = i
    <3>1. \A p \in RowsOf(rows, {o}) \ t.gone : p[2] # i
        BY <1>0 DEF IdsOf
    <3>2. i \in IdsOf(t.gone \ tx[w].gone)
      <4>1. PICK p \in u.gone \ tx[w].gone : p[2] = i
          BY DEF IdsOf
      <4>2. p \in t.gone
          BY <1>5, <3>1, <4>1
      <4> QED BY <4>1, <4>2 DEF IdsOf
    <3>3. \/ i \in found
          \/ \A C \in SUBSET Workers : \E p \in (Outcome(C) \ t.gone) \cup tx[w].ins : p[2] = i
        BY <1>0, <1>3, <3>2 DEF JudgedWell
    <3>4. \A C : \A p \in (Outcome(C) \ t.gone) \cup tx[w].ins :
              p[2] = i => p \in (Outcome(C) \ u.gone) \cup u.ins
        BY <1>5, <3>1
    <3>5. i \in found => i \in u.mark \/ i \notin files
        BY <1>3, <1>5
    <3> QED BY <3>3, <3>4, <3>5
  <2> QED BY <1>1, <1>13, <2>1, <2>2, <2>3 DEF JudgedRight
<1>15. /\ files' \subseteq Instances /\ marked' \subseteq Instances
       /\ L \in SUBSET Instances /\ R \in SUBSET Instances
       /\ nextInst' \in 1..(MaxInst + 1) /\ Histories(L, R)
  <2>1. t.mark \subseteq Instances
      BY <1>3 DEF Transactions
  <2>2. IdsOf(RowsOf(rows, {o}) \ t.gone) \subseteq Instances
      BY DEF StorageTypeOK, RowsOf, IdsOf, Pairs
  <2> QED BY <1>1, <1>0, <1>3, <2>1, <2>2 DEF StorageTypeOK, Histories
<1>20. \A p \in u.ins : p \in tx[w].ins \/ p[1] \in {o}
    BY <1>5
<1> QED BY <1>20, <1>7, <1>8, <1>10, <1>11, <1>14, <1>15, GrowStep, GrowShape

\* CopyAttachment: the references of another object, which stays locked.
LEMMA CopyAttachmentKeeps ==
    ASSUME FilesInv, NEW w \in Workers, NEW from \in Objects, NEW o \in Objects,
           CopyAttachment(w, from, o),
           tx[w].gone = {}, tx[w].del = {}, tx[w].mark = {}, RowsOf(rows, {o}) = {}
    PROVE  FilesInv' /\ TxGrew(w, {o})
<1> DEFINE t == tx[w]
           copies == {<<o, p[2]>> : p \in RowsOf(rows, {from})}
           u == [t EXCEPT !.src = t.src \cup {from}, !.ins = t.ins \cup copies]
<1> USE DEF FilesInv, TablesInv
<1>1. /\ MayWrite(w, o) /\ ~Locked(w, {from})
      /\ tx' = [tx EXCEPT ![w] = u]
      /\ rows' = rows /\ nextInst' = nextInst /\ files' = files /\ marked' = marked
      /\ lost' = lost /\ left' = left
    BY DEF CopyAttachment, historyVars
<1>0. PICK L, R : L = lost /\ R = left
    OBVIOUS
<1>2. t.st = "open" /\ o \notin Touched(w) /\ ~LockedForWrite(w, {o})
    BY <1>1 DEF MayWrite
<1>3. t \in Transactions /\ t.gone = {} /\ t.del = {} /\ t.mark = {}
    BY DEF StorageTypeOK
<1>4. \A c \in copies : \E p \in rows : p[1] = from /\ c = <<o, p[2]>>
    BY DEF RowsOf
<1>5. copies \subseteq Pairs
    BY <1>4 DEF StorageTypeOK, Pairs
<1> HIDE DEF copies
<1>6. /\ u \in Transactions /\ u.st = "open" /\ u.snap = tx[w].snap /\ u.gone = tx[w].gone
      /\ u.src = tx[w].src \cup {from} /\ u.ins = tx[w].ins \cup copies
      /\ u.new = tx[w].new /\ u.del = {} /\ u.mark = {}
  <2> DEFINE src == t.src \cup {from}
             ins == t.ins \cup copies
  <2>1. src \subseteq Objects /\ ins \subseteq Pairs
      BY <1>3, <1>5 DEF Transactions
  <2>2. u = [t EXCEPT !.src = src, !.ins = ins]
      OBVIOUS
  <2>3. src = tx[w].src \cup {from} /\ ins = tx[w].ins \cup copies
      OBVIOUS
  <2> HIDE DEF src, ins, u
  <2>4. /\ u \in Transactions /\ u.st = t.st /\ u.snap = t.snap /\ u.gone = t.gone
        /\ u.src = src /\ u.ins = ins /\ u.new = t.new /\ u.del = t.del /\ u.mark = t.mark
      BY <1>3, <2>1, <2>2 DEF Transactions
  <2> QED BY <1>2, <1>3, <2>3, <2>4
<1> HIDE DEF u
<1>7. TxGrows(w, u)
    BY <1>1, <1>2, <1>6 DEF TxGrows
<1>8. LocksGrow(w, u)
  <2>1. \A c \in copies : \A q \in rows : q[1] # c[1]
      BY <1>4 DEF RowsOf
  <2>2. \A c \in copies : c[1] = o
      BY <1>4
  <2>3. \A c, d \in copies : c = d
      BY <1>4 DEF LockInv
  <2>4. \A q \in tx[w].ins : q[1] # o
      BY <1>2 DEF Touched
  <2> QED BY <1>1, <1>2, <1>3, <1>6, <2>1, <2>2, <2>3, <2>4 DEF LocksGrow
<1>9. \A c \in copies : c[2] \in IdsOf(rows)
    BY <1>4 DEF IdsOf
<1>10. IdsGrow(w, u, {})
  <2>1. IdsOf(u.ins) \subseteq IdsOf(tx[w].ins) \cup IdsOf(rows)
    <3> SUFFICES ASSUME NEW p \in u.ins PROVE p[2] \in IdsOf(tx[w].ins) \cup IdsOf(rows)
        BY DEF IdsOf
    <3> QED BY <1>6, <1>9 DEF IdsOf
  <2> QED BY <1>1, <1>6, <2>1 DEF IdsGrow
<1>11. FilesGrow(w, u, {}, L, R)
    BY <1>1, <1>0, <1>3, <1>6 DEF FilesGrow
<1>12. tx'[w] = u /\ \A v \in Workers \ {w} : tx'[v] = tx[v]
    BY <1>1 DEF StorageTypeOK
<1>13. ASSUME NEW c \in copies, c[2] \notin lost
       PROVE  c[2] \in files /\ \A v \in Workers : c[2] \notin tx'[v].del \cup tx'[v].mark
  <2>1. PICK p \in rows : p[1] = from /\ c = <<o, p[2]>>
      BY <1>4
  <2>2. ASSUME NEW v \in Workers, c[2] \in tx[v].del \cup tx[v].mark PROVE FALSE
    <3>1. RefsTo(rows, c[2]) \subseteq tx[v].gone
        BY <1>13, <2>2 DEF FilesRight, Doomed
    <3>2. p \in tx[v].gone
        BY <2>1, <3>1 DEF RefsTo
    <3>3. v # w /\ from \in Touched(v)
        BY <2>1, <3>2 DEF Touched
    <3> QED BY <1>1, <3>3 DEF Locked
  <2>3. c[2] \in files
      BY <1>9, <1>13, <2>2 DEF FilesRight, Present
  <2> QED BY <1>6, <1>12, <2>2, <2>3
<1>14. JudgedRight(w, u, {}, L, R)
  <2>1. IdsOf(u.gone \ tx[w].gone) = {}
      BY <1>6 DEF IdsOf
  <2>2. ASSUME NEW i \in IdsOf(u.ins \ tx[w].ins) \ L
        PROVE  i \in files /\ \A v \in Workers : i \notin tx'[v].del \cup tx'[v].mark
    <3>1. PICK c \in copies : c[2] = i
        BY <1>6 DEF IdsOf
    <3> QED BY <1>0, <1>13, <3>1
  <2> QED BY <1>3, <1>6, <2>1, <2>2 DEF JudgedRight
<1>15. L \in SUBSET Instances /\ R \in SUBSET Instances /\ Histories(L, R)
    BY <1>1, <1>0 DEF StorageTypeOK, Histories
<1>20. \A p \in u.ins : p \in tx[w].ins \/ p[1] \in {o}
    BY <1>4, <1>6
<1> QED BY <1>20, <1>1, <1>7, <1>8, <1>10, <1>11, <1>14, <1>15, GrowStep, GrowShape DEF StorageTypeOK

\* The first plain SELECT of a transaction fixes its snapshot.
LEMMA ReadInstancesKeeps ==
    ASSUME FilesInv, NEW w \in Workers, ReadInstances(w)
    PROVE  FilesInv' /\ TxGrew(w, {})
<1> DEFINE t == tx[w]
           u == [t EXCEPT !.snap = rows]
<1> USE DEF FilesInv, TablesInv
<1>1. /\ t.st = "open" /\ tx' = [tx EXCEPT ![w] = u]
      /\ rows' = rows /\ nextInst' = nextInst /\ files' = files /\ marked' = marked
      /\ lost' = lost /\ left' = left
    BY DEF ReadInstances, historyVars
<1>0. PICK L, R : L = lost /\ R = left
    OBVIOUS
<1>2. t \in Transactions /\ rows \subseteq Pairs
    BY DEF StorageTypeOK
<1>3. /\ u \in Transactions /\ u.st = tx[w].st /\ u.snap = rows /\ u.gone = tx[w].gone
      /\ u.src = tx[w].src /\ u.ins = tx[w].ins /\ u.new = tx[w].new /\ u.del = tx[w].del
      /\ u.mark = tx[w].mark
  <2> HIDE DEF t
  <2>1. /\ u \in Transactions /\ u.st = t.st /\ u.snap = rows /\ u.gone = t.gone
        /\ u.src = t.src /\ u.ins = t.ins /\ u.new = t.new /\ u.del = t.del /\ u.mark = t.mark
      BY <1>2 DEF Transactions
  <2> QED BY <2>1 DEF t
<1> HIDE DEF u
<1>4. TxGrows(w, u) /\ IdsGrow(w, u, {})
    BY <1>1, <1>3 DEF TxGrows, IdsGrow
<1>5. LocksGrow(w, u)
    BY <1>3 DEF LocksGrow, LockInv
<1>6. FilesGrow(w, u, {}, L, R)
    BY <1>1, <1>0, <1>3 DEF FilesGrow, RenamedInv
<1>7. JudgedRight(w, u, {}, L, R)
    BY <1>3 DEF JudgedRight, IdsOf
<1>8. L \in SUBSET Instances /\ R \in SUBSET Instances /\ Histories(L, R)
    BY <1>1, <1>0 DEF StorageTypeOK, Histories
<1>20. \A p \in u.ins : p \in tx[w].ins \/ p[1] \in {}
    BY <1>3
<1> QED BY <1>20, <1>1, <1>4, <1>5, <1>6, <1>7, <1>8, GrowStep, GrowShape DEF StorageTypeOK

\* A thread without a transaction.
LEMMA NoTxFields ==
    /\ NoTx \in Transactions /\ NoTx.st = "none" /\ NoTx.snap = {} /\ NoTx.ins = {}
    /\ NoTx.gone = {} /\ NoTx.src = {} /\ NoTx.new = {} /\ NoTx.del = {} /\ NoTx.mark = {}
    /\ Known(NoTx) = {}
<1>1. /\ NoTx \in Transactions /\ NoTx.st = "none" /\ NoTx.snap = {} /\ NoTx.ins = {}
      /\ NoTx.gone = {} /\ NoTx.src = {} /\ NoTx.new = {} /\ NoTx.del = {} /\ NoTx.mark = {}
    BY DEF NoTx, Transactions
<1> QED BY <1>1 DEF Known, IdsOf

\* Begin of both transactions.
LEMMA StorageBeginKeeps ==
    ASSUME FilesInv, NEW w \in Workers, NEW readFirst, StorageBegin(w, readFirst), tx[w] = NoTx
    PROVE  FilesInv'
<1> DEFINE snap == IF readFirst THEN rows ELSE {}
           u == [NoTx EXCEPT !.st = "open", !.snap = snap]
<1> USE DEF FilesInv, TablesInv
<1>1. /\ tx' = [tx EXCEPT ![w] = u] /\ rows' = rows /\ nextInst' = nextInst
      /\ files' = files /\ marked' = marked /\ lost' = lost /\ left' = left
    BY DEF StorageBegin, historyVars
<1>2. snap \subseteq rows
    OBVIOUS
<1> HIDE DEF snap
<1>3. /\ u \in Transactions /\ u.st = "open" /\ u.snap = snap /\ u.ins = {}
      /\ u.gone = {} /\ u.src = {} /\ u.new = {} /\ u.del = {} /\ u.mark = {}
  <2>1. snap \in SUBSET Pairs
      BY <1>2 DEF StorageTypeOK
  <2> QED BY <2>1 DEF NoTx, Transactions
<1> HIDE DEF u
<1>4. tx'[w] = u /\ \A v \in Workers \ {w} : tx'[v] = tx[v]
    BY <1>1 DEF StorageTypeOK
<1>5. \A v \in Workers : /\ tx'[v].ins = tx[v].ins /\ tx'[v].gone = tx[v].gone
                         /\ tx'[v].src = tx[v].src /\ tx'[v].new = tx[v].new
                         /\ tx'[v].del = tx[v].del /\ tx'[v].mark = tx[v].mark
    BY <1>3, <1>4, NoTxFields
<1>6. StorageTypeOK'
    BY <1>1, <1>3 DEF StorageTypeOK
<1>7. LockInv'
  <2>1. \A v \in Workers : Touched(v)' = Touched(v)
      BY <1>5 DEF Touched
  <2> QED BY <1>1, <1>5, <2>1 DEF LockInv
<1>8. FreshInv'
  <2>1. IdsOf(u.snap) \subseteq IdsOf(rows)
      BY <1>2, <1>3 DEF IdsOf
  <2>2. Known(u) \subseteq IdsOf(rows)
      BY <1>2, <1>3 DEF Known, IdsOf
  <2>3. \A v \in Workers : \A i \in Known(tx'[v]) : i < nextInst
      BY <1>4, <2>2 DEF FreshInv
  <2> QED BY <1>1, <1>4, <1>5, <2>1, <2>3 DEF FreshInv
<1>9. RenamedInv' /\ Doomed(lost)' /\ Marked(left)'
  <2>1. \A v \in Workers : v # w => tx'[v].st = tx[v].st
      BY <1>4
  <2>2. tx[w].mark = {} /\ tx[w].del = {}
      BY NoTxFields
  <2> QED BY <1>1, <1>5, <2>1, <2>2 DEF RenamedInv, FilesRight, Doomed, Marked
<1>10. Present(lost)'
  <2>1. \A v \in Workers : tx[v].mark \cup tx[v].del # {} => tx'[v] = tx[v]
      BY <1>4, NoTxFields
  <2> QED BY <1>1, <1>5, <2>1 DEF FilesRight, Present
<1>11. Covered(left)'
  <2>1. \A C \in SUBSET Workers : Outcome(C)' = Outcome(C)
      BY <1>1, <1>5 DEF Outcome
  <2>2. \A v \in Workers : tx[v].del # {} => tx'[v] = tx[v]
      BY <1>4, NoTxFields
  <2> QED BY <1>1, <1>5, <2>1, <2>2 DEF FilesRight, Covered
<1> QED BY <1>6, <1>7, <1>8, <1>9, <1>10, <1>11 DEF FilesRight

-------------------------------------------------------------------------------
(* The end of a transaction.                                               *)

\* The commit of the storage: deleted and renamed files go for good.
LEMMA StorageCommitKeeps ==
    ASSUME FilesInv, NEW w \in Workers, StorageCommit(w)
    PROVE  FilesInv' /\ TxGrew(w, {})
<1> DEFINE t == tx[w]
           u == [t EXCEPT !.st = "stored", !.snap = {}]
<1> USE DEF FilesInv, TablesInv
<1>1. /\ t.st = "open" /\ tx' = [tx EXCEPT ![w] = u]
      /\ files' = files \ tx[w].del /\ marked' = marked \ tx[w].mark
      /\ rows' = rows /\ nextInst' = nextInst
    BY DEF StorageCommit
<1>0. PICK L, R : L = lost /\ R = left /\ History(L, R)
    BY DEF StorageCommit
<1>2. /\ u \in Transactions /\ u.st = "stored" /\ u.snap = {} /\ u.gone = tx[w].gone
      /\ u.src = tx[w].src /\ u.ins = tx[w].ins /\ u.new = tx[w].new /\ u.del = tx[w].del
      /\ u.mark = tx[w].mark
  <2>1. t \in Transactions
      BY DEF StorageTypeOK
  <2> HIDE DEF t
  <2>2. /\ u \in Transactions /\ u.st = "stored" /\ u.snap = {} /\ u.gone = t.gone
        /\ u.src = t.src /\ u.ins = t.ins /\ u.new = t.new /\ u.del = t.del /\ u.mark = t.mark
      BY <2>1 DEF Transactions
  <2> QED BY <2>2 DEF t
<1> HIDE DEF u
<1>3. tx'[w] = u /\ \A v \in Workers \ {w} : tx'[v] = tx[v]
    BY <1>1 DEF StorageTypeOK
<1>4. \A v \in Workers : /\ tx'[v].ins = tx[v].ins /\ tx'[v].gone = tx[v].gone
                         /\ tx'[v].src = tx[v].src /\ tx'[v].new = tx[v].new
                         /\ tx'[v].del = tx[v].del /\ tx'[v].mark = tx[v].mark
    BY <1>2, <1>3
<1>6. LockInv'
  <2>1. \A v \in Workers : Touched(v)' = Touched(v)
      BY <1>4 DEF Touched
  <2> QED BY <1>1, <1>4, <2>1 DEF LockInv
<1>7. FreshInv'
  <2>1. \A v \in Workers : IdsOf(tx'[v].snap) \subseteq IdsOf(tx[v].snap)
      BY <1>2, <1>3 DEF IdsOf
  <2>2. \A v \in Workers : Known(tx'[v]) \subseteq Known(tx[v])
      BY <1>2, <1>3 DEF Known, IdsOf
  <2> QED BY <1>1, <1>4, <2>1, <2>2 DEF FreshInv
<1>8. RenamedInv'
    BY <1>1, <1>2, <1>3, <1>4 DEF RenamedInv
<1>9. Doomed(L)'
    BY <1>1, <1>0, <1>4 DEF FilesRight, Doomed
<1>10. Present(L)'
  <2>1. ASSUME NEW v \in Workers, NEW i \in IdsOf(tx[v].ins) \ lost
        PROVE  i \in files'
    <3>1. i \in files
        BY DEF FilesRight, Present
    <3>2. RefsTo(tx[v].ins, i) # {}
        BY <2>1 DEF IdsOf, RefsTo
    <3> QED BY <1>1, <3>1, <3>2 DEF FilesRight, Doomed
  <2>2. ASSUME NEW i \in IdsOf(rows) \ (files' \cup lost)
        PROVE  \E x \in Workers : i \in tx'[x].mark \/ (i \in tx'[x].del /\ tx'[x].st = "stored")
    <3>1. CASE i \in files
        BY <1>1, <1>2, <1>3, <3>1
    <3>2. CASE i \notin files
      <4>1. PICK x \in Workers : i \in tx[x].mark \/ (i \in tx[x].del /\ tx[x].st = "stored")
          BY <3>2 DEF FilesRight, Present
      <4> QED BY <1>1, <1>3, <1>4, <4>1
    <3> QED BY <3>1, <3>2
  <2> QED BY <1>1, <1>0, <1>4, <2>1, <2>2 DEF Present
<1>11. Covered(R)' /\ Marked(R)'
  <2>1. \A C \in SUBSET Workers : Outcome(C)' = Outcome(C)
      BY <1>1, <1>4 DEF Outcome
  <2>2. \A i \in files' : i \notin tx[w].del
      BY <1>1
  <2>3. Covered(R)'
      BY <1>1, <1>0, <1>3, <1>4, <2>1, <2>2 DEF FilesRight, Covered
  <2> QED BY <1>1, <1>0, <1>3, <2>3 DEF FilesRight, Marked
<1>5. FilesRight(lost, left)' /\ StorageTypeOK'
  <2>1. FilesRight(L, R)'
      BY <1>9, <1>10, <1>11 DEF FilesRight
  <2>2. L \in SUBSET Instances /\ R \in SUBSET Instances /\ Histories(L, R)
      BY <1>0 DEF StorageTypeOK, Histories
  <2>3. FilesRight(lost, left)' /\ lost' \subseteq Instances /\ left' \subseteq Instances
      BY <2>1, <2>2, Forget
  <2> QED BY <1>1, <1>2, <2>3 DEF StorageTypeOK
<1>12. TxGrew(w, {})
    BY <1>1, <1>2, <1>3, <1>4 DEF TxGrew
<1> QED BY <1>5, <1>6, <1>7, <1>8, <1>12

\* The database rolls back: but for the instances L no file of a row is taken, and renamed
\* ones have their name again; but for the instances R the new files are gone.
Undone(w, L, R) ==
    /\ rows' = rows
    /\ \A i \in Instances \ L :
          /\ (i \in files /\ i \notin tx[w].new) \/ i \in tx[w].mark => i \in files'
          /\ ~(i \in tx[w].del /\ tx[w].st = "stored")
    /\ \A i \in files' \ R : (i \in files /\ i \notin tx[w].new) \/ i \in tx[w].mark

\* The database commits, after the storage.
Done(w) == rows' = Committed(w) /\ tx[w].st = "stored" /\ files' = files

TxEnds(w, L, R) ==
    /\ tx' = [tx EXCEPT ![w] = NoTx] /\ nextInst' = nextInst
    /\ lost \subseteq L /\ left \subseteq R /\ L \subseteq Instances /\ R \subseteq Instances
    /\ files' \subseteq files \cup tx[w].mark
    /\ marked' \subseteq marked /\ marked \ tx[w].mark \subseteq marked'
    /\ \A i \in marked' \ R : i \in tx[w].mark => tx[w].st = "stored"
    /\ Undone(w, L, R) \/ Done(w)

\* What the handlers see of the end of their transaction.
TxEnded(w) ==
    /\ tx'[w] = NoTx /\ \A v \in Workers \ {w} : tx'[v] = tx[v]
    /\ rows' \subseteq rows \cup tx[w].ins

\* What the end of a transaction, of either kind, does to the tables.
LEMMA EndTables ==
    ASSUME StorageTypeOK, LockInv, NEW w \in Workers, NEW L, NEW R, TxEnds(w, L, R)
    PROVE  /\ tx'[w] = NoTx /\ \A v \in Workers \ {w} : tx'[v] = tx[v]
           /\ rows' \subseteq rows \cup tx[w].ins /\ rows \ tx[w].gone \subseteq rows'
           /\ rows' \subseteq Pairs /\ \A p, q \in rows' : p[1] = q[1] => p = q
           /\ tx' \in [Workers -> Transactions]
           /\ files' \subseteq Instances /\ marked' \subseteq Instances
<1>1. tx'[w] = NoTx /\ \A v \in Workers \ {w} : tx'[v] = tx[v]
    BY DEF TxEnds, StorageTypeOK
<1>2. rows' = rows \/ rows' = (rows \ tx[w].gone) \cup tx[w].ins
    BY DEF TxEnds, Undone, Done, Committed
<1>3. rows' \subseteq rows \cup tx[w].ins /\ rows \ tx[w].gone \subseteq rows'
    BY <1>2
<1>4. rows' \subseteq Pairs
    BY <1>3 DEF StorageTypeOK, Transactions
<1>5. \A p, q \in rows' : p[1] = q[1] => p = q
    BY <1>2 DEF LockInv
<1>6. tx' \in [Workers -> Transactions]
    BY NoTxFields DEF TxEnds, StorageTypeOK
<1>7. files' \subseteq Instances /\ marked' \subseteq Instances
    BY DEF TxEnds, StorageTypeOK, Transactions
<1> QED BY <1>1, <1>3, <1>4, <1>5, <1>6, <1>7

\* The locks of the transaction are gone, those of the others stay.
LEMMA EndLock ==
    ASSUME StorageTypeOK, LockInv, NEW w \in Workers, NEW L, NEW R, TxEnds(w, L, R)
    PROVE  LockInv'
<1>1. /\ tx'[w] = NoTx /\ \A v \in Workers \ {w} : tx'[v] = tx[v]
      /\ rows' \subseteq rows \cup tx[w].ins /\ rows \ tx[w].gone \subseteq rows'
      /\ \A p, q \in rows' : p[1] = q[1] => p = q
    BY EndTables
<1>2. Touched(w)' = {} /\ tx'[w].src = {} /\ tx'[w].ins = {} /\ tx'[w].gone = {}
    BY <1>1, NoTxFields DEF Touched
<1>3. \A v \in Workers \ {w} : Touched(v)' = Touched(v)
    BY <1>1 DEF Touched
<1>4. ASSUME NEW v \in Workers \ {w}
      PROVE  /\ \A p \in tx[v].ins \cup tx[v].gone : p[1] \in Touched(v)
             /\ \A p \in tx[w].ins \cup tx[w].gone : p[1] \notin Touched(v)
    BY DEF LockInv, Touched
<1>5. ASSUME NEW v \in Workers
      PROVE  /\ tx'[v].gone \subseteq rows'
             /\ \A p \in tx'[v].ins : \A q \in rows' : p[1] = q[1] => q \in tx'[v].gone
             /\ \A p, q \in tx'[v].ins : p[1] = q[1] => p = q
  <2>1. CASE v = w
      BY <1>2, <2>1
  <2>2. CASE v # w
    <3>1. tx[v].gone \subseteq rows'
      <4>1. \A p \in tx[v].gone : p \in rows /\ p \notin tx[w].gone
          BY <1>4, <2>2 DEF LockInv
      <4> QED BY <1>1, <4>1
    <3>2. \A p \in tx[v].ins : \A q \in rows' : p[1] = q[1] => q \in tx[v].gone
      <4>1. \A p \in tx[v].ins : \A q \in rows' : p[1] = q[1] => q \in rows
          BY <1>1, <1>4, <2>2
      <4> QED BY <4>1 DEF LockInv
    <3>3. \A p, q \in tx[v].ins : p[1] = q[1] => p = q
        BY DEF LockInv
    <3> QED BY <1>1, <2>2, <3>1, <3>2, <3>3
  <2> QED BY <2>1, <2>2
<1>6. ASSUME NEW v \in Workers, NEW x \in Workers, v # x
      PROVE  Touched(v)' \cap Touched(x)' = {} /\ tx'[v].src \cap Touched(x)' = {}
    BY <1>1, <1>2, <1>3, <1>6 DEF LockInv
<1>7. \A p, q \in rows' : p[1] = q[1] => p = q
    BY <1>1
<1> QED BY <1>5, <1>6, <1>7 DEF LockInv

\* Its instances are in the rows now, or nowhere.
LEMMA EndFresh ==
    ASSUME StorageTypeOK, LockInv, FreshInv, NEW w \in Workers, NEW L, NEW R, TxEnds(w, L, R)
    PROVE  FreshInv'
<1>1. /\ tx'[w] = NoTx /\ \A v \in Workers \ {w} : tx'[v] = tx[v]
      /\ rows' \subseteq rows \cup tx[w].ins
    BY EndTables
<1>2. nextInst' = nextInst
    BY DEF TxEnds
<1>3. /\ IdsOf(rows') \subseteq IdsOf(rows) \cup IdsOf(tx[w].ins)
      /\ IdsOf(tx[w].ins) \subseteq Known(tx[w])
    BY <1>1 DEF IdsOf, Known
<1>4. \A i \in IdsOf(rows') : i < nextInst'
    BY <1>2, <1>3 DEF FreshInv
<1>5. \A v \in Workers : \A i \in Known(tx'[v]) : i < nextInst'
    BY <1>1, <1>2, NoTxFields DEF FreshInv
<1>6. ASSUME NEW x \in Workers, NEW i \in tx'[x].new
      PROVE  /\ RefsTo(tx'[x].ins, i) # {} /\ i \notin IdsOf(rows')
             /\ \A v \in Workers :
                   /\ i \notin IdsOf(tx'[v].snap) \cup tx'[v].del \cup tx'[v].mark
                   /\ v # x => i \notin IdsOf(tx'[v].ins) \cup tx'[v].new
  <2>1. x # w /\ tx'[x] = tx[x]
      BY <1>1, NoTxFields
  <2>2. /\ RefsTo(tx[x].ins, i) # {} /\ i \notin IdsOf(rows)
        /\ \A v \in Workers :
              /\ i \notin IdsOf(tx[v].snap) \cup tx[v].del \cup tx[v].mark
              /\ v # x => i \notin IdsOf(tx[v].ins) \cup tx[v].new
      BY <2>1 DEF FreshInv
  <2>3. i \notin IdsOf(rows')
      BY <1>3, <2>1, <2>2
  <2>4. IdsOf({}) = {}
      BY DEF IdsOf
  <2> QED BY <1>1, <2>1, <2>2, <2>3, <2>4, NoTxFields
<1> QED BY <1>4, <1>5, <1>6 DEF FreshInv

\* A file that another transaction has renamed is still out of reach.
LEMMA EndRenamed ==
    ASSUME StorageTypeOK, LockInv, RenamedInv, NEW w \in Workers, NEW L, NEW R, TxEnds(w, L, R)
    PROVE  RenamedInv'
<1>1. tx'[w] = NoTx /\ \A v \in Workers \ {w} : tx'[v] = tx[v]
    BY EndTables
<1>2. ASSUME NEW x \in Workers, NEW i \in tx'[x].del \cup tx'[x].mark
      PROVE  RefsTo(tx'[x].gone, i) # {}
  <2>1. x # w /\ tx'[x] = tx[x]
      BY <1>1, NoTxFields
  <2> QED BY <2>1 DEF RenamedInv
<1>3. ASSUME NEW x \in Workers, NEW i \in tx'[x].mark
      PROVE  /\ i \notin files'
             /\ tx'[x].st = "open" => i \in marked'
             /\ \A v \in Workers \ {x} : i \notin tx'[v].mark
  <2>1. x # w /\ tx'[x] = tx[x]
      BY <1>1, NoTxFields
  <2>2. /\ i \notin files /\ i \notin tx[w].mark
        /\ tx[x].st = "open" => i \in marked
        /\ \A v \in Workers \ {x} : i \notin tx[v].mark
      BY <2>1 DEF RenamedInv
  <2>3. i \notin files' /\ (tx'[x].st = "open" => i \in marked')
      BY <2>1, <2>2 DEF TxEnds
  <2> QED BY <1>1, <2>2, <2>3, NoTxFields
<1> QED BY <1>2, <1>3 DEF RenamedInv

\* What the others are going to delete got no new reference.
LEMMA EndDoomed ==
    ASSUME StorageTypeOK, LockInv, Doomed(lost), NEW w \in Workers, NEW L, NEW R, TxEnds(w, L, R)
    PROVE  Doomed(L)'
<1>1. /\ tx'[w] = NoTx /\ \A v \in Workers \ {w} : tx'[v] = tx[v]
      /\ rows' \subseteq rows \cup tx[w].ins
    BY EndTables
<1> SUFFICES ASSUME NEW x \in Workers, NEW i \in (tx'[x].del \cup tx'[x].mark) \ L
             PROVE  /\ RefsTo(rows', i) \subseteq tx'[x].gone
                    /\ \A v \in Workers : RefsTo(tx'[v].ins, i) = {}
    BY DEF Doomed
<1>2. x # w /\ tx'[x] = tx[x] /\ i \notin lost
    BY <1>1, NoTxFields DEF TxEnds
<1>3. /\ RefsTo(rows, i) \subseteq tx[x].gone
      /\ \A v \in Workers : RefsTo(tx[v].ins, i) = {}
    BY <1>2 DEF Doomed
<1>4. RefsTo(rows', i) \subseteq tx'[x].gone
    BY <1>1, <1>2, <1>3 DEF RefsTo
<1>5. \A v \in Workers : RefsTo(tx'[v].ins, i) = {}
    BY <1>1, <1>3, NoTxFields DEF RefsTo
<1> QED BY <1>4, <1>5

\* The committed references have their files.
LEMMA EndPresent ==
    ASSUME FilesInv, NEW w \in Workers, NEW L, NEW R, TxEnds(w, L, R)
    PROVE  Present(L)'
<1> USE DEF FilesInv, TablesInv, FilesRight
<1>1. /\ tx'[w] = NoTx /\ \A v \in Workers \ {w} : tx'[v] = tx[v]
      /\ rows' \subseteq rows \cup tx[w].ins /\ rows' \subseteq Pairs
      /\ tx' \in [Workers -> Transactions]
    BY EndTables
<1>2. ASSUME NEW v \in Workers, NEW i \in IdsOf(tx'[v].ins) \ L
      PROVE  i \in files'
  <2>1. v # w /\ tx'[v] = tx[v]
      BY <1>1, NoTxFields DEF IdsOf
  <2>2. i \in Instances
      BY <1>1 DEF Transactions, IdsOf, Pairs
  <2>3. i \in files
      BY <2>1 DEF Present, TxEnds
  <2>4. i \notin tx[w].new
      BY <2>1 DEF FreshInv
  <2> QED BY <2>2, <2>3, <2>4 DEF TxEnds, Undone, Done
<1>3. ASSUME NEW i \in IdsOf(rows') \ (files' \cup L)
      PROVE  \E v \in Workers : i \in tx'[v].mark \/ (i \in tx'[v].del /\ tx'[v].st = "stored")
  <2>1. i \in Instances /\ i \notin lost
      BY <1>1 DEF IdsOf, Pairs, TxEnds
  <2>2. PICK p \in rows' : p[2] = i
      BY DEF IdsOf
  <2>3. i \notin files
    <3>1. CASE Undone(w, L, R)
      <4>1. i \in IdsOf(rows)
          BY <3>1 DEF Undone
      <4>2. i \notin tx[w].new
          BY <4>1 DEF FreshInv
      <4> QED BY <2>1, <3>1, <4>2 DEF Undone
    <3>2. CASE Done(w)
        BY <3>2 DEF Done
    <3> QED BY <3>1, <3>2 DEF TxEnds
  <2>4. i \in IdsOf(rows)
    <3>1. p \in tx[w].ins => i \in files
        BY <2>1, <2>2 DEF Present, IdsOf
    <3> QED BY <1>1, <2>2, <2>3, <3>1 DEF IdsOf
  <2>5. PICK v \in Workers : i \in tx[v].mark \/ (i \in tx[v].del /\ tx[v].st = "stored")
      BY <2>1, <2>3, <2>4 DEF Present
  <2>6. v # w
    <3> SUFFICES ASSUME v = w PROVE FALSE
        OBVIOUS
    <3>1. CASE Undone(w, L, R)
        BY <2>1, <2>5, <3>1 DEF Undone
    <3>2. CASE Done(w)
      <4>1. RefsTo(rows, i) \subseteq tx[w].gone /\ RefsTo(tx[w].ins, i) = {}
          BY <2>1, <2>5 DEF Doomed
      <4>2. p \in (rows \ tx[w].gone) \cup tx[w].ins
          BY <3>2 DEF Done, Committed
      <4> QED BY <2>2, <4>1, <4>2 DEF RefsTo
    <3> QED BY <3>1, <3>2 DEF TxEnds
  <2> QED BY <1>1, <2>5, <2>6
<1> QED BY <1>2, <1>3 DEF Present

\* Whichever of the other transactions commit, files keep their references.
LEMMA EndCovered ==
    ASSUME FilesInv, NEW w \in Workers, NEW L, NEW R, TxEnds(w, L, R)
    PROVE  Covered(R)'
<1> USE DEF FilesInv, TablesInv, FilesRight
<1>1. tx'[w] = NoTx /\ \A v \in Workers \ {w} : tx'[v] = tx[v]
    BY EndTables
<1> SUFFICES ASSUME NEW i \in files' \ R, NEW C \in SUBSET Workers
             PROVE  \/ RefsTo(Outcome(C)', i) # {}
                    \/ \E v \in C : i \in tx'[v].del /\ tx'[v].st = "open"
                    \/ \E v \in Workers \ C : i \in tx'[v].new
    BY DEF Covered
<1>2. i \notin left
    BY DEF TxEnds
<1>3. ASSUME NEW v \in Workers \ {w}
      PROVE  \A p \in tx[v].ins \cup tx[v].gone : p \notin tx[w].ins \cup tx[w].gone
    BY DEF LockInv, Touched
<1>4. CASE Undone(w, L, R)
  <2> DEFINE B == C \ {w}
  <2>1. \A p : p \in Outcome(C)' <=> p \in Outcome(B)
      BY <1>1, <1>4, InOutcome, NoTxFields DEF Undone
  <2>2. CASE i \in tx[w].mark
    <3>1. PICK p \in tx[w].gone : p[2] = i
        BY <2>2 DEF RenamedInv, RefsTo
    <3>2. p \in rows
        BY <3>1 DEF LockInv
    <3>3. p \in Outcome(B)
        BY <1>3, <3>1, <3>2, InOutcome
    <3> QED BY <2>1, <3>1, <3>3 DEF RefsTo
  <2>3. CASE i \notin tx[w].mark
    <3>1. i \in files /\ i \notin tx[w].new
        BY <1>4, <2>3 DEF Undone
    <3>2. \/ RefsTo(Outcome(B), i) # {}
          \/ \E v \in B : i \in tx[v].del /\ tx[v].st = "open"
          \/ \E v \in Workers \ B : i \in tx[v].new
        BY <1>2, <3>1 DEF Covered
    <3>3. RefsTo(Outcome(B), i) # {} => RefsTo(Outcome(C)', i) # {}
        BY <2>1 DEF RefsTo
    <3> QED BY <1>1, <3>1, <3>2, <3>3
  <2> QED BY <2>2, <2>3
<1>5. CASE Done(w)
  <2> DEFINE B == C \cup {w}
  <2>1. ASSUME NEW p, p \in Outcome(B) PROVE p \in Outcome(C)'
    <3>1. p \in rows' <=> (p \in rows /\ p \notin tx[w].gone) \/ p \in tx[w].ins
        BY <1>5 DEF Done, Committed
    <3>2. B \in SUBSET Workers
        OBVIOUS
    <3>3. \/ p \in rows /\ \A v \in B : p \notin tx[v].gone
          \/ \E v \in B : p \in tx[v].ins
        BY <2>1, <3>2, InOutcome
    <3> HIDE DEF B
    <3>4. \A v \in C : v = w \/ (tx'[v] = tx[v] /\ v \in B)
        BY <1>1 DEF B
    <3>5. w \in B /\ \A v \in B : v = w \/ v \in C
        BY DEF B
    <3>6. CASE p \in tx[w].ins
      <4>1. \A v \in C : p \notin tx'[v].gone
          BY <1>1, <1>3, <3>6, NoTxFields
      <4> QED BY <3>1, <3>6, <4>1, InOutcome
    <3>7. CASE \E v \in B : v # w /\ p \in tx[v].ins
        BY <1>1, <3>5, <3>7, InOutcome
    <3>8. CASE p \in rows /\ \A v \in B : p \notin tx[v].gone
      <4>1. p \in rows' /\ \A v \in C : p \notin tx'[v].gone
          BY <1>1, <3>1, <3>4, <3>5, <3>8, NoTxFields
      <4> QED BY <4>1, InOutcome
    <3> QED BY <3>3, <3>6, <3>7, <3>8
  <2>2. i \in files /\ tx[w].st = "stored"
      BY <1>5 DEF Done
  <2>3. \/ RefsTo(Outcome(B), i) # {}
        \/ \E v \in B : i \in tx[v].del /\ tx[v].st = "open"
        \/ \E v \in Workers \ B : i \in tx[v].new
      BY <1>2, <2>2 DEF Covered
  <2>4. RefsTo(Outcome(B), i) # {} => RefsTo(Outcome(C)', i) # {}
      BY <2>1 DEF RefsTo
  <2> QED BY <1>1, <2>2, <2>3, <2>4
<1> QED BY <1>4, <1>5 DEF TxEnds

\* A transaction that ends, in any way, keeps the invariant.
LEMMA EndStep ==
    ASSUME FilesInv, NEW w \in Workers, NEW L, NEW R, TxEnds(w, L, R), Histories(L, R)
    PROVE  FilesInv' /\ TxEnded(w)
<1> USE DEF FilesInv, TablesInv
<1>1. /\ tx'[w] = NoTx /\ \A v \in Workers \ {w} : tx'[v] = tx[v]
      /\ rows' \subseteq rows \cup tx[w].ins
      /\ rows' \subseteq Pairs /\ \A p, q \in rows' : p[1] = q[1] => p = q
      /\ tx' \in [Workers -> Transactions]
      /\ files' \subseteq Instances /\ marked' \subseteq Instances
    BY EndTables
<1>2. Marked(R)'
  <2> SUFFICES ASSUME NEW i \in marked' \ R
               PROVE  \E v \in Workers : i \in tx'[v].mark /\ tx'[v].st = "open"
      BY DEF Marked
  <2>1. i \in marked /\ i \notin left /\ (i \in tx[w].mark => tx[w].st = "stored")
      BY DEF TxEnds
  <2>2. PICK v \in Workers : i \in tx[v].mark /\ tx[v].st = "open"
      BY <2>1 DEF FilesRight, Marked
  <2> QED BY <1>1, <2>1, <2>2
<1>3. LockInv' /\ FreshInv' /\ RenamedInv' /\ Doomed(L)'
    BY EndLock, EndFresh, EndRenamed, EndDoomed DEF FilesRight
<1>4. FilesRight(L, R)'
    BY <1>2, <1>3, EndPresent, EndCovered DEF FilesRight
<1>5. FilesRight(lost, left)' /\ lost' \subseteq Instances /\ left' \subseteq Instances
  <2>1. L \in SUBSET Instances /\ R \in SUBSET Instances
      BY DEF TxEnds
  <2> QED BY <1>4, <2>1, Forget
<1>6. StorageTypeOK'
    BY <1>1, <1>5 DEF StorageTypeOK, TxEnds
<1> QED BY <1>1, <1>3, <1>5, <1>6 DEF TxEnded

\* The sets of a transaction.
LEMMA TxSets ==
    ASSUME StorageTypeOK, NEW w \in Workers
    PROVE  /\ tx[w].new \subseteq Instances /\ tx[w].del \subseteq Instances
           /\ tx[w].mark \subseteq Instances
BY DEF StorageTypeOK, Transactions

\* A rollback before the commit of the storage undoes what it did to the files.
LEMMA RollbackKeeps ==
    ASSUME FilesInv, NEW w \in Workers, Rollback(w)
    PROVE  FilesInv' /\ TxEnded(w)
<1> USE DEF FilesInv, TablesInv
<1>1. PICK L, R : L = lost /\ R = left /\ History(L, R)
    BY DEF Rollback
<1>2. /\ tx[w].st = "open" /\ files' = (files \ tx[w].new) \cup (tx[w].mark \cap marked)
      /\ marked' = marked \ tx[w].mark /\ tx' = [tx EXCEPT ![w] = NoTx]
      /\ rows' = rows /\ nextInst' = nextInst
    BY DEF Rollback
<1>3. Undone(w, L, R)
    BY <1>2 DEF Undone, RenamedInv
<1>4. TxEnds(w, L, R)
    BY <1>1, <1>2, <1>3 DEF TxEnds, StorageTypeOK
<1> QED BY <1>1, <1>4, EndStep DEF Histories

\* A rollback that cannot delete or rename some of the files.
LEMMA RollbackFailsKeeps ==
    ASSUME FilesInv, NEW w \in Workers, RollbackFails(w)
    PROVE  FilesInv' /\ TxEnded(w)
<1> USE DEF FilesInv, TablesInv
<1> DEFINE L0(M) == lost \cup (tx[w].mark \ M)
           R0(D, M) == left \cup (tx[w].new \ D) \cup (tx[w].mark \ M)
<1>0. PICK D \in SUBSET tx[w].new, M \in SUBSET tx[w].mark :
          /\ files' = (files \ D) \cup (M \cap marked) /\ marked' = marked \ M
          /\ History(L0(M), R0(D, M))
    BY DEF RollbackFails
<1>1. PICK L, R : L = L0(M) /\ R = R0(D, M) /\ History(L, R)
    BY <1>0
<1>2. /\ tx[w].st = "open" /\ tx' = [tx EXCEPT ![w] = NoTx]
      /\ rows' = rows /\ nextInst' = nextInst
    BY DEF RollbackFails
<1>3. Undone(w, L, R)
    BY <1>0, <1>1, <1>2 DEF Undone, RenamedInv
<1>4. TxEnds(w, L, R)
    BY <1>0, <1>1, <1>2, <1>3, TxSets DEF TxEnds, StorageTypeOK
<1> QED BY <1>1, <1>4, EndStep DEF Histories

\* A commit that cannot delete some of the files.
LEMMA StorageCommitFailsKeeps ==
    ASSUME FilesInv, NEW w \in Workers, StorageCommitFails(w)
    PROVE  FilesInv' /\ TxEnded(w)
<1> USE DEF FilesInv, TablesInv
<1> DEFINE L0(D) == lost \cup D \cup tx[w].mark
           R0(M) == left \cup tx[w].new \cup (tx[w].mark \ M)
<1>0. PICK D \in SUBSET tx[w].del, M \in SUBSET tx[w].mark :
          /\ files' = files \ D /\ marked' = marked \ M
          /\ History(L0(D), R0(M))
    BY DEF StorageCommitFails
<1>1. PICK L, R : L = L0(D) /\ R = R0(M) /\ History(L, R)
    BY <1>0
<1>2. /\ tx[w].st = "open" /\ tx' = [tx EXCEPT ![w] = NoTx]
      /\ rows' = rows /\ nextInst' = nextInst
    BY DEF StorageCommitFails
<1>3. Undone(w, L, R)
    BY <1>0, <1>1, <1>2 DEF Undone
<1>4. TxEnds(w, L, R)
    BY <1>0, <1>1, <1>2, <1>3, TxSets DEF TxEnds, StorageTypeOK
<1> QED BY <1>1, <1>4, EndStep DEF Histories

\* The commit of the database, after that of the storage.
LEMMA DbCommitKeeps ==
    ASSUME FilesInv, NEW w \in Workers, DbCommit(w)
    PROVE  FilesInv' /\ TxEnded(w)
<1> USE DEF FilesInv, TablesInv
<1>1. PICK L, R : L = lost /\ R = left /\ History(L, R)
    BY DEF DbCommit
<1>2. Done(w)
    BY DEF DbCommit, Done
<1>3. TxEnds(w, L, R)
    BY <1>1, <1>2 DEF TxEnds, DbCommit, StorageTypeOK
<1> QED BY <1>1, <1>3, EndStep DEF Histories

\* The database fails after the storage has committed, and has not committed.
LEMMA DbCommitFailsKeeps ==
    ASSUME FilesInv, NEW w \in Workers, DbCommitFails(w)
    PROVE  FilesInv' /\ TxEnded(w)
<1> USE DEF FilesInv, TablesInv
<1>1. PICK L, R : /\ L = lost \cup tx[w].del \cup tx[w].mark
                  /\ R = left \cup tx[w].new
                  /\ History(L, R)
    BY DEF DbCommitFails
<1>2. /\ tx[w].st = "stored" /\ rows' = rows /\ tx' = [tx EXCEPT ![w] = NoTx]
      /\ nextInst' = nextInst /\ files' = files /\ marked' = marked
    BY DEF DbCommitFails
<1>3. Undone(w, L, R)
    BY <1>1, <1>2 DEF Undone
<1>4. TxEnds(w, L, R)
    BY <1>1, <1>2, <1>3, TxSets DEF TxEnds, StorageTypeOK
<1> QED BY <1>1, <1>4, EndStep DEF Histories

\* The server stops: open transactions are rolled back by the database only.
LEMMA StorageCrashKeeps ==
    ASSUME FilesInv, StorageCrash
    PROVE  FilesInv'
<1> USE DEF FilesInv, TablesInv
<1>1. /\ tx' = [w \in Workers |-> NoTx] /\ rows' = rows /\ nextInst' = nextInst
      /\ files' = files /\ marked' = marked
    BY DEF StorageCrash
<1> DEFINE stored == {v \in Workers : tx[v].st = "stored"}
           renamed == UNION {tx[w].mark : w \in Workers}
           deleted == UNION {tx[w].del : w \in stored}
           created == UNION {tx[w].new \cup tx[w].mark : w \in Workers}
<1>2. PICK L, R : L = lost \cup renamed \cup deleted /\ R = left \cup created /\ History(L, R)
    BY DEF StorageCrash
<1>3. /\ lost \subseteq L /\ left \subseteq R
      /\ \A w \in Workers : tx[w].mark \subseteq L /\ tx[w].new \cup tx[w].mark \subseteq R
      /\ \A w \in Workers : tx[w].st = "stored" => tx[w].del \subseteq L
  <2>1. \A w \in Workers : tx[w].mark \subseteq renamed /\ tx[w].new \cup tx[w].mark \subseteq created
      OBVIOUS
  <2>2. \A w \in stored : tx[w].del \subseteq deleted
    <3> HIDE DEF stored
    <3> QED OBVIOUS
  <2>3. \A w \in Workers : tx[w].st = "stored" => w \in stored
      OBVIOUS
  <2> HIDE DEF stored, renamed, deleted, created
  <2> QED BY <1>2, <2>1, <2>2, <2>3
<1>4. L \in SUBSET Instances /\ R \in SUBSET Instances
  <2>1. renamed \subseteq Instances /\ created \subseteq Instances
      BY TxSets
  <2>2. stored \subseteq Workers
      OBVIOUS
  <2>3. deleted \subseteq Instances
    <3> HIDE DEF stored
    <3> QED BY <2>2, TxSets
  <2> HIDE DEF stored, renamed, deleted, created
  <2> QED BY <1>2, <2>1, <2>3 DEF StorageTypeOK
<1> HIDE DEF stored, renamed, deleted, created
<1>5. \A w \in Workers : tx'[w] = NoTx
    BY <1>1
<1>6. LockInv'
    BY <1>1, <1>5, NoTxFields DEF LockInv, Touched
<1>7. FreshInv' /\ RenamedInv'
    BY <1>1, <1>5, NoTxFields DEF FreshInv, RenamedInv
<1>8. Doomed(L)'
    BY <1>5, NoTxFields DEF Doomed
<1>9. Present(L)'
  <2>1. IdsOf({}) = {}
      BY DEF IdsOf
  <2>2. IdsOf(rows) \subseteq files \cup L
      BY <1>3 DEF FilesRight, Present
  <2> QED BY <1>1, <1>5, <2>1, <2>2, NoTxFields DEF Present
<1>10. Covered(R)'
  <2>1. ASSUME NEW i \in files \ R PROVE RefsTo(rows, i) # {}
    <3>1. RefsTo(Outcome({}), i) # {} \/ \E v \in Workers : i \in tx[v].new
        BY <1>3 DEF FilesRight, Covered
    <3>2. Outcome({}) = rows
        BY DEF Outcome
    <3> QED BY <1>3, <3>1, <3>2
  <2>2. \A C \in SUBSET Workers : \A p : p \in Outcome(C)' <=> p \in rows
      BY <1>1, <1>5, InOutcome, NoTxFields
  <2>3. ASSUME NEW i \in files \ R, NEW C \in SUBSET Workers
        PROVE  RefsTo(Outcome(C)', i) # {}
      BY <2>1, <2>2 DEF RefsTo
  <2> QED BY <1>1, <2>3 DEF Covered
<1>11. Marked(R)'
    BY <1>1, <1>3 DEF FilesRight, Marked
<1>12. FilesRight(lost, left)' /\ lost' \subseteq Instances /\ left' \subseteq Instances
  <2>1. FilesRight(L, R)' /\ Histories(L, R)
      BY <1>2, <1>8, <1>9, <1>10, <1>11 DEF FilesRight, Histories
  <2> QED BY <1>4, <2>1, Forget
<1>13. StorageTypeOK'
    BY <1>1, <1>12, NoTxFields DEF StorageTypeOK
<1> QED BY <1>6, <1>7, <1>12, <1>13

\* Nothing happens to the tables and files.
LEMMA FilesRightKept ==
    ASSUME FilesRight(lost, left), UNCHANGED <<rows, files, marked, tx, lost, left>>
    PROVE  FilesRight(lost, left)'
<1>1. Doomed(lost)' /\ Present(lost)' /\ Marked(left)'
    BY DEF FilesRight, Doomed, Present, Marked
<1>2. Covered(left)'
  <2>1. \A C \in SUBSET Workers : Outcome(C)' = Outcome(C)
      BY DEF Outcome
  <2> QED BY <2>1 DEF FilesRight, Covered
<1> QED BY <1>1, <1>2 DEF FilesRight

\* The server starts: ids that were drawn but never committed are drawn again.
LEMMA StorageRestartKeeps ==
    ASSUME FilesInv, StorageRestart, \A w \in Workers : tx[w] = NoTx
    PROVE  FilesInv'
<1> USE DEF FilesInv, TablesInv
<1>1. /\ rows' = rows /\ files' = files /\ marked' = marked /\ tx' = tx
      /\ lost' = lost /\ left' = left
    BY DEF StorageRestart, historyVars
<1>2. nextInst' \in 1..(MaxInst + 1) /\ \A i \in IdsOf(rows) : i < nextInst'
    BY InstancesAssumption DEF StorageRestart, StorageTypeOK, FreshInv
<1>3. StorageTypeOK' /\ LockInv' /\ RenamedInv'
    BY <1>1, <1>2 DEF StorageTypeOK, LockInv, RenamedInv, Touched
<1>4. FreshInv'
    BY <1>1, <1>2, NoTxFields DEF FreshInv
<1>5. FilesRight(lost, left)'
    BY <1>1, FilesRightKept
<1> QED BY <1>3, <1>4, <1>5

\* Steps of the handlers that do not touch the storage.
LEMMA FilesUnchanged ==
    ASSUME FilesInv, UNCHANGED storageVars
    PROVE  FilesInv'
<1> USE DEF FilesInv, TablesInv, storageVars, historyVars
<1>1. StorageTypeOK' /\ LockInv'
    BY DEF StorageTypeOK, LockInv, Touched
<1>2. FreshInv' /\ RenamedInv'
    BY DEF FreshInv, RenamedInv
<1>3. FilesRight(lost, left)'
    BY FilesRightKept
<1> QED BY <1>1, <1>2, <1>3

-------------------------------------------------------------------------------
(* The handlers.                                                           *)

HandlerTypes ==
    /\ job \in [Workers -> [kind : {"none"} \cup DOMAIN Script, objs : SUBSET Objects]]
    /\ made \subseteq Objects

HandlersInv == HandlerTypes /\ JobInv /\ FilesInv

\* The handlers.
LEMMA Kinds == DOMAIN Script = {"new", "change", "copy", "delete"}
BY DEF Script

\* The steps of a handler that has just begun are those of its kind.
LEMMA ScriptFits ==
    ASSUME NEW kind \in DOMAIN Script
    PROVE  /\ Script[kind] \in Seq(StepNames) /\ Len(Script[kind]) <= 5
           /\ \A k \in 1..Len(Script[kind]) : StepFits(Script[kind][k], kind)
<1>1. kind \in {"new", "change", "copy", "delete"}
    BY Kinds
<1>2. CASE kind = "new"
  <2>1. Script[kind] = <<"props", "key", "seq", "store", "db">>
      BY <1>2 DEF Script
  <2> QED BY <1>2, <2>1 DEF StepNames, StepFits
<1>3. CASE kind = "change"
  <2>1. Script[kind] = <<"props", "store", "db">>
      BY <1>3 DEF Script
  <2> QED BY <1>3, <2>1 DEF StepNames, StepFits
<1>4. CASE kind = "copy"
  <2>1. Script[kind] = <<"seq", "copy", "key", "store", "db">>
      BY <1>4 DEF Script
  <2> QED BY <1>4, <2>1 DEF StepNames, StepFits
<1>5. CASE kind = "delete"
  <2>1. Script[kind] = <<"ids", "delete", "store", "db">>
      BY <1>5 DEF Script
  <2> QED BY <1>5, <2>1 DEF StepNames, StepFits
<1> QED BY <1>1, <1>2, <1>3, <1>4, <1>5

\* What is left of a handler after its first step.
LEMMA StepDoneKeeps ==
    ASSUME TodoInv, NEW w \in Workers, todo[w] # <<>>, StepDone(w)
    PROVE  TodoInv'
<1>1. todo[w] \in Seq(StepNames) /\ Tail(todo[w]) \in Seq(StepNames)
    BY DEF TodoInv
<1>2. /\ Len(Tail(todo[w])) <= 5
      /\ \A k \in 1..Len(Tail(todo[w])) : StepFits(Tail(todo[w])[k], job[w].kind)
  <2>1. Len(Tail(todo[w])) = Len(todo[w]) - 1 /\ Len(todo[w]) \in Nat
      BY <1>1
  <2>2. ASSUME NEW k \in 1..Len(Tail(todo[w]))
        PROVE  k + 1 \in 1..Len(todo[w]) /\ Tail(todo[w])[k] = todo[w][k + 1]
      BY <1>1, <2>1
  <2>3. ASSUME NEW k \in 1..Len(Tail(todo[w])) PROVE StepFits(Tail(todo[w])[k], job[w].kind)
      BY <2>2 DEF TodoInv
  <2> QED BY <2>1, <2>3 DEF TodoInv
<1>3. /\ todo'[w] = Tail(todo[w]) /\ job' = job
      /\ \A v \in Workers \ {w} : todo'[v] = todo[v]
      /\ todo' \in [Workers -> Seq(StepNames)]
    BY <1>1 DEF StepDone, TodoInv
<1>4. ASSUME NEW v \in Workers
      PROVE  /\ Len(todo'[v]) <= 5
             /\ \A k \in 1..Len(todo'[v]) : StepFits(todo'[v][k], job'[v].kind)
    BY <1>2, <1>3 DEF TodoInv
<1> QED BY <1>3, <1>4 DEF TodoInv

\* A handler goes through its steps from the first.
LEMMA HeadFits ==
    ASSUME TodoInv, NEW w \in Workers, NEW step, Doing(w, step)
    PROVE  StepFits(step, job[w].kind)
<1>1. todo[w] \in Seq(StepNames) /\ todo[w] # <<>> /\ todo[w][1] = step
    BY DEF Doing, TodoInv
<1>2. 1 \in 1..Len(todo[w])
    BY <1>1
<1> QED BY <1>1, <1>2 DEF TodoInv

\* A transaction that goes on is that of the handler, with objects of the handler.
LEMMA GrowJob ==
    ASSUME TxInv, OwnInv, NEW w \in Workers, NEW O, TxGrew(w, O), O \subseteq job[w].objs,
           up' = up, job' = job, made' = made,
           job[w].kind = "copy" => tx'[w].gone = {} /\ tx'[w].del = {} /\ tx'[w].mark = {}
    PROVE  TxInv' /\ OwnInv'
<1>1. ASSUME NEW v \in Workers
      PROVE  /\ ~up => tx'[v].st = "none"
             /\ tx'[v].st = "none" => tx'[v] = NoTx
             /\ job[v].kind = "copy" => tx'[v].gone = {} /\ tx'[v].del = {} /\ tx'[v].mark = {}
             /\ \A p \in tx'[v].ins : p[1] \in job[v].objs
  <2>1. CASE v = w
      BY <2>1 DEF TxInv, TxGrew
  <2>2. CASE v # w
    <3>1. tx'[v] = tx[v]
        BY <2>2 DEF TxGrew
    <3> QED BY <3>1 DEF TxInv
  <2> QED BY <2>1, <2>2
<1>2. TxInv'
    BY <1>1 DEF TxInv
<1>3. OwnInv'
    BY DEF OwnInv, TxGrew
<1> QED BY <1>2, <1>3

\* Steps that neither begin nor end a handler.
LEMMA JobUnchanged ==
    ASSUME TxInv, OwnInv, UNCHANGED <<up, tx, rows, job, made>>
    PROVE  TxInv' /\ OwnInv'
BY DEF TxInv, OwnInv

\* A handler ends; if its transaction is committed, its objects are made.
LEMMA EndJob ==
    ASSUME HandlersInv, NEW w \in Workers, TxEnded(w), JobOver(w), up' = up,
           \/ rows' = rows /\ made' = made
           \/ made' = made \cup job[w].objs
    PROVE  HandlerTypes' /\ JobInv'
<1> USE DEF HandlersInv, JobInv
<1>1. /\ tx'[w] = NoTx /\ \A v \in Workers \ {w} : tx'[v] = tx[v]
      /\ rows' \subseteq rows \cup tx[w].ins
    BY DEF TxEnded
<1>2. NoJob \in [kind : {"none"} \cup DOMAIN Script, objs : SUBSET Objects]
    BY DEF NoJob
<1>3. /\ todo'[w] = <<>> /\ job'[w] = NoJob
      /\ \A v \in Workers \ {w} : todo'[v] = todo[v] /\ job'[v] = job[v]
    BY DEF JobOver, TodoInv, HandlerTypes
<1>4. NoJob.kind = "none" /\ NoJob.objs = {}
    BY DEF NoJob
<1>5. job[w].objs \subseteq Objects
    BY DEF HandlerTypes
<1>6. HandlerTypes'
    BY <1>2, <1>5 DEF HandlerTypes, JobOver
<1>7. TodoInv'
  <2>1. todo' \in [Workers -> Seq(StepNames)]
      BY DEF TodoInv, JobOver
  <2>2. ASSUME NEW v \in Workers
        PROVE  /\ Len(todo'[v]) <= 5
               /\ \A k \in 1..Len(todo'[v]) : StepFits(todo'[v][k], job'[v].kind)
    <3>1. CASE v = w
        BY <1>3, <3>1
    <3>2. CASE v # w
        BY <1>3, <3>2 DEF TodoInv
    <3> QED BY <3>1, <3>2
  <2> QED BY <2>1, <2>2 DEF TodoInv
<1>8. TxInv'
  <2>1. ASSUME NEW v \in Workers
        PROVE  /\ ~up => tx'[v].st = "none"
               /\ tx'[v].st = "none" => tx'[v] = NoTx
               /\ job'[v].kind = "copy" =>
                     tx'[v].gone = {} /\ tx'[v].del = {} /\ tx'[v].mark = {}
               /\ \A p \in tx'[v].ins : p[1] \in job'[v].objs
    <3>1. CASE v = w
        BY <1>1, <3>1, NoTxFields
    <3>2. CASE v # w
        BY <1>1, <1>3, <3>2 DEF TxInv
    <3> QED BY <3>1, <3>2
  <2> QED BY <2>1 DEF TxInv
<1>9. OwnInv'
  <2>1. ASSUME NEW v \in Workers
        PROVE  /\ job'[v].kind \in {"new", "copy"} => job'[v].objs \cap made' = {}
               /\ job'[v].kind \in {"change", "delete"} => job'[v].objs \subseteq made'
               /\ job'[v].kind = "none" => job'[v].objs = {}
    <3>1. CASE v = w
        BY <1>3, <1>4, <3>1
    <3>2. CASE v # w
      <4>1. job'[v] = job[v] /\ made \subseteq made'
          BY <1>3, <3>2
      <4>2. /\ job[v].kind \in {"change", "delete"} => job[v].objs \subseteq made
            /\ job[v].kind = "none" => job[v].objs = {}
          BY DEF OwnInv
      <4>3. job[v].kind \in {"new", "copy"} =>
                job[v].objs \cap made = {} /\ job[v].objs \cap (made \cup job[w].objs) = {}
        <5> SUFFICES ASSUME job[v].kind \in {"new", "copy"}
                     PROVE  job[v].objs \cap made = {} /\ job[v].objs \cap job[w].objs = {}
            OBVIOUS
        <5>1. job[v].objs \cap made = {}
            BY DEF OwnInv
        <5>2. CASE job[w].kind \in {"new", "copy"}
            BY <3>2, <5>1, <5>2 DEF OwnInv
        <5>3. CASE job[w].kind \in {"change", "delete"}
            BY <5>1, <5>3 DEF OwnInv
        <5>4. CASE job[w].kind = "none"
            BY <5>1, <5>4 DEF OwnInv
        <5>5. job[w].kind \in {"none", "new", "change", "copy", "delete"}
            BY Kinds DEF HandlerTypes
        <5> QED BY <5>2, <5>3, <5>4, <5>5
      <4> QED BY <4>1, <4>2, <4>3
    <3> QED BY <3>1, <3>2
  <2>2. ASSUME NEW v \in Workers, NEW x \in Workers, v # x,
               {job'[v].kind, job'[x].kind} \subseteq {"new", "copy"}
        PROVE  job'[v].objs \cap job'[x].objs = {}
    <3>1. v # w /\ x # w
        BY <1>3, <1>4, <2>2
    <3> QED BY <1>3, <2>2, <3>1 DEF OwnInv
  <2>3. \A p \in rows' : p[1] \in made'
      BY <1>1 DEF OwnInv, TxInv
  <2> QED BY <2>1, <2>2, <2>3 DEF OwnInv
<1> QED BY <1>6, <1>7, <1>8, <1>9

\* A request comes in and begins its transaction.
LEMMA BeginJobKeeps ==
    ASSUME HandlersInv, NEW w \in Workers, NEW kind \in DOMAIN Script,
           NEW objs \in SUBSET Objects \ {{}}, BeginJob(w, kind, objs)
    PROVE  HandlersInv'
<1> USE DEF HandlersInv, JobInv
<1> DEFINE new == [kind |-> kind, objs |-> objs]
<1>1. /\ up /\ up' = up /\ made' = made /\ rows' = rows
      /\ job' = [job EXCEPT ![w] = new] /\ todo' = [todo EXCEPT ![w] = Script[kind]]
      /\ StorageBegin(w, kind = "change")
    BY DEF BeginJob, StorageBegin, numberVars
<1>2. tx[w] = NoTx
    BY <1>1 DEF StorageBegin, TxInv
<1>3. FilesInv'
    BY <1>1, <1>2, StorageBeginKeeps
<1>4. /\ tx'[w].st = "open" /\ tx'[w].ins = {}
      /\ tx'[w].gone = {} /\ tx'[w].del = {} /\ tx'[w].mark = {}
      /\ \A v \in Workers \ {w} : tx'[v] = tx[v]
    BY <1>1 DEF StorageBegin, NoTx, FilesInv, TablesInv, StorageTypeOK
<1>5. /\ job'[w].kind = kind /\ job'[w].objs = objs /\ todo'[w] = Script[kind]
      /\ \A v \in Workers \ {w} : job'[v] = job[v] /\ todo'[v] = todo[v]
    BY <1>1 DEF HandlerTypes, TodoInv
<1>6. HandlerTypes'
    BY <1>1 DEF HandlerTypes
<1>7. TodoInv'
  <2>1. todo' \in [Workers -> Seq(StepNames)]
      BY <1>1, ScriptFits DEF TodoInv
  <2>2. ASSUME NEW v \in Workers
        PROVE  /\ Len(todo'[v]) <= 5
               /\ \A k \in 1..Len(todo'[v]) : StepFits(todo'[v][k], job'[v].kind)
    <3>1. CASE v = w
        BY <1>5, <3>1, ScriptFits
    <3>2. CASE v # w
        BY <1>5, <3>2 DEF TodoInv
    <3> QED BY <3>1, <3>2
  <2> QED BY <2>1, <2>2 DEF TodoInv
<1>8. TxInv'
  <2>1. ASSUME NEW v \in Workers
        PROVE  /\ ~up => tx'[v].st = "none"
               /\ tx'[v].st = "none" => tx'[v] = NoTx
               /\ job'[v].kind = "copy" =>
                     tx'[v].gone = {} /\ tx'[v].del = {} /\ tx'[v].mark = {}
               /\ \A p \in tx'[v].ins : p[1] \in job'[v].objs
    <3>1. CASE v = w
        BY <1>1, <1>4, <3>1
    <3>2. CASE v # w
        BY <1>4, <1>5, <3>2 DEF TxInv
    <3> QED BY <3>1, <3>2
  <2> QED BY <1>1, <2>1 DEF TxInv
<1>9. /\ kind \in {"new", "copy"} =>
            objs \cap made = {} /\ \A v \in Workers : job[v].kind \in {"new", "copy"} =>
                                                      objs \cap job[v].objs = {}
      /\ kind \in {"change", "delete"} => objs \subseteq made
      /\ kind # "none"
  <2>1. kind \in {"new", "change", "copy", "delete"}
      BY Kinds
  <2>2. kind \in {"new", "copy"} => objs \cap (made \cup BusyWith({"new", "copy"})) = {}
      BY DEF BeginJob
  <2>3. \A v \in Workers : job[v].kind \in {"new", "copy"} =>
            job[v].objs \subseteq BusyWith({"new", "copy"})
      BY DEF BusyWith
  <2>4. kind \in {"change", "delete"} => objs \subseteq made
      BY DEF BeginJob
  <2> QED BY <2>1, <2>2, <2>3, <2>4
<1>10. OwnInv'
  <2>1. ASSUME NEW v \in Workers
        PROVE  /\ job'[v].kind \in {"new", "copy"} => job'[v].objs \cap made' = {}
               /\ job'[v].kind \in {"change", "delete"} => job'[v].objs \subseteq made'
               /\ job'[v].kind = "none" => job'[v].objs = {}
    <3>1. CASE v = w
        BY <1>1, <1>5, <1>9, <3>1
    <3>2. CASE v # w
        BY <1>1, <1>5, <3>2 DEF OwnInv
    <3> QED BY <3>1, <3>2
  <2>2. ASSUME NEW v \in Workers, NEW x \in Workers, v # x,
               {job'[v].kind, job'[x].kind} \subseteq {"new", "copy"}
        PROVE  job'[v].objs \cap job'[x].objs = {}
    <3>1. CASE v = w
        BY <1>5, <1>9, <2>2, <3>1
    <3>2. CASE x = w
        BY <1>5, <1>9, <2>2, <3>2
    <3>3. CASE v # w /\ x # w
        BY <1>5, <2>2, <3>3 DEF OwnInv
    <3> QED BY <3>1, <3>2, <3>3
  <2>3. \A p \in rows' : p[1] \in made'
      BY <1>1 DEF OwnInv
  <2> QED BY <2>1, <2>2, <2>3 DEF OwnInv
<1> QED BY <1>3, <1>6, <1>7, <1>8, <1>10

\* The steps of a handler between its begin and its end.
LEMMA HandlerStepKeeps ==
    ASSUME HandlersInv, NEW w \in Workers,
           \/ SaveProps(w) \/ SavePropsShort(w) \/ PropsDone(w) \/ ReserveNumbers(w)
           \/ TakeKey(w) \/ TakeSequence(w) \/ CopyObject(w) \/ DeleteObjectHard(w)
           \/ CommitFiles(w)
    PROVE  HandlersInv'
<1> USE DEF HandlersInv, JobInv
<1>0. job[w].objs \subseteq Objects /\ up \in BOOLEAN
    BY DEF HandlerTypes, SaveProps, SavePropsShort, PropsDone, ReserveNumbers, TakeKey,
           TakeSequence, CopyObject, DeleteObjectHard, CommitFiles, Doing
<1>1. CASE SaveProps(w)
  <2>1. /\ Doing(w, "props") /\ up' = up /\ job' = job /\ todo' = todo /\ made' = made
      BY <1>1 DEF SaveProps, handlerVars, numberVars
  <2>2. job[w].kind # "copy"
      BY <2>1, HeadFits DEF StepFits
  <2>3. PICK o \in job[w].objs, asked \in BOOLEAN :
            \/ SaveAttachment(w, o, asked)
            \/ \E i \in Instances : SaveAttachmentById(w, o, i, asked)
            \/ DeleteAttachments(w, {o}, asked)
      BY <1>1 DEF SaveProps
  <2>4. FilesInv' /\ (TxGrew(w, {o}) \/ TxGrew(w, {}))
      BY <1>0, <2>3, SaveAttachmentKeeps, SaveAttachmentByIdKeeps, DeleteAttachmentsKeeps
  <2>5. TxInv' /\ OwnInv'
      BY <2>1, <2>2, <2>4, GrowJob
  <2>6. TodoInv' /\ HandlerTypes'
      BY <2>1 DEF TodoInv, HandlerTypes
  <2> QED BY <2>4, <2>5, <2>6
<1>2. CASE SavePropsShort(w)
  <2>1. /\ Doing(w, "props") /\ up' = up /\ job' = job /\ made' = made
        /\ todo' = [todo EXCEPT ![w] = <<"fail">>]
      BY <1>2 DEF SavePropsShort, numberVars
  <2>2. job[w].kind # "copy"
      BY <2>1, HeadFits DEF StepFits
  <2>3. PICK o \in job[w].objs, asked \in BOOLEAN : SaveAttachmentShort(w, o, asked)
      BY <1>2 DEF SavePropsShort
  <2>4. FilesInv' /\ TxGrew(w, {})
      BY <1>0, <2>3, SaveAttachmentShortKeeps
  <2>5. TxInv' /\ OwnInv'
      BY <2>1, <2>2, <2>4, GrowJob
  <2>6. TodoInv'
    <3>1. <<"fail">> \in Seq(StepNames)
        BY DEF StepNames
    <3>2. todo' \in [Workers -> Seq(StepNames)]
        BY <2>1, <3>1 DEF TodoInv
    <3>3. ASSUME NEW v \in Workers
          PROVE  /\ Len(todo'[v]) <= 5
                 /\ \A k \in 1..Len(todo'[v]) : StepFits(todo'[v][k], job[v].kind)
      <4>1. CASE v = w
        <5>1. todo'[v] = <<"fail">>
            BY <2>1, <4>1 DEF TodoInv
        <5> QED BY <5>1 DEF StepFits
      <4>2. CASE v # w
        <5>1. todo'[v] = todo[v]
            BY <2>1, <4>2 DEF TodoInv
        <5> QED BY <5>1 DEF TodoInv
      <4> QED BY <4>1, <4>2
    <3> QED BY <2>1, <3>2, <3>3 DEF TodoInv
  <2>7. HandlerTypes'
      BY <2>1 DEF HandlerTypes
  <2> QED BY <2>4, <2>5, <2>6, <2>7
<1>3. CASE PropsDone(w) \/ TakeKey(w) \/ TakeSequence(w)
  <2>1. todo[w] # <<>> /\ StepDone(w) /\ up' = up /\ UNCHANGED storageVars
      BY <1>3 DEF PropsDone, TakeKey, TakeSequence, Doing, numberVars, GetNewSourceKey,
                  GetNewSequence
  <2>2. FilesInv' /\ TodoInv'
      BY <2>1, FilesUnchanged, StepDoneKeeps
  <2>3. TxInv' /\ OwnInv' /\ HandlerTypes'
      BY <2>1, JobUnchanged DEF StepDone, storageVars, HandlerTypes
  <2> QED BY <2>2, <2>3
<1>4. CASE ReserveNumbers(w)
  <2>1. up' = up /\ UNCHANGED storageVars /\ UNCHANGED handlerVars
      BY <1>4 DEF ReserveNumbers, ReserveKeys, ReserveKeysFails, DoSequence, DoSequenceFails
  <2>2. FilesInv'
      BY <2>1, FilesUnchanged
  <2>3. TxInv' /\ OwnInv'
      BY <2>1, JobUnchanged DEF handlerVars, storageVars
  <2>4. TodoInv' /\ HandlerTypes'
      BY <2>1 DEF handlerVars, TodoInv, HandlerTypes
  <2> QED BY <2>2, <2>3, <2>4
<1>5. CASE CopyObject(w)
  <2>1. Doing(w, "copy") /\ todo[w] # <<>> /\ StepDone(w) /\ up' = up
      BY <1>5 DEF CopyObject, Doing, numberVars
  <2>2. job[w].kind = "copy"
      BY <2>1, HeadFits DEF StepFits
  <2>3. PICK from \in made, o \in job[w].objs : CopyAttachment(w, from, o)
      BY <1>5 DEF CopyObject
  <2>4. RowsOf(rows, {o}) = {}
      BY <2>2, <2>3 DEF OwnInv, RowsOf
  <2>5. tx[w].gone = {} /\ tx[w].del = {} /\ tx[w].mark = {}
      BY <2>2 DEF TxInv
  <2>6. FilesInv' /\ TxGrew(w, {o})
      BY <1>0, <2>3, <2>4, <2>5, CopyAttachmentKeeps DEF HandlerTypes
  <2>7. tx'[w].gone = {} /\ tx'[w].del = {} /\ tx'[w].mark = {}
    <3> DEFINE ins == tx[w].ins \cup {<<o, p[2]>> : p \in RowsOf(rows, {from})}
    <3>1. tx' = [tx EXCEPT ![w] = [tx[w] EXCEPT !.src = tx[w].src \cup {from}, !.ins = ins]]
        BY <2>3 DEF CopyAttachment
    <3> HIDE DEF ins
    <3> QED BY <2>5, <3>1 DEF FilesInv, TablesInv, StorageTypeOK, Transactions
  <2>8. TxInv' /\ OwnInv'
      BY <2>1, <2>6, <2>7, GrowJob DEF StepDone
  <2>9. TodoInv' /\ HandlerTypes'
      BY <2>1, StepDoneKeeps DEF StepDone, HandlerTypes
  <2> QED BY <2>6, <2>8, <2>9
<1>6. CASE DeleteObjectHard(w)
  <2>1. /\ Doing(w, "ids") \/ Doing(w, "delete")
        /\ ReadInstances(w) \/ DeleteAttachments(w, job[w].objs, TRUE)
        /\ StepDone(w) /\ up' = up
      BY <1>6 DEF DeleteObjectHard, numberVars
  <2>2. job[w].kind = "delete" /\ todo[w] # <<>>
      BY <2>1, HeadFits DEF StepFits, Doing
  <2>3. FilesInv' /\ TxGrew(w, {})
      BY <1>0, <2>1, ReadInstancesKeeps, DeleteAttachmentsKeeps
  <2>4. TxInv' /\ OwnInv'
      BY <2>1, <2>2, <2>3, GrowJob DEF StepDone
  <2>5. TodoInv' /\ HandlerTypes'
      BY <2>1, <2>2, StepDoneKeeps DEF StepDone, HandlerTypes
  <2> QED BY <2>3, <2>4, <2>5
<1>7. CASE CommitFiles(w)
  <2>1. Doing(w, "store") /\ StorageCommit(w) /\ StepDone(w) /\ up' = up /\ todo[w] # <<>>
      BY <1>7 DEF CommitFiles, numberVars, Doing
  <2>2. FilesInv' /\ TxGrew(w, {})
      BY <2>1, StorageCommitKeeps
  <2>3. tx'[w].gone = tx[w].gone /\ tx'[w].del = tx[w].del /\ tx'[w].mark = tx[w].mark
      BY <2>1 DEF StorageCommit, FilesInv, TablesInv, StorageTypeOK, Transactions
  <2>4. TxInv' /\ OwnInv'
      BY <2>1, <2>2, <2>3, GrowJob DEF StepDone, TxInv
  <2>5. TodoInv' /\ HandlerTypes'
      BY <2>1, StepDoneKeeps DEF StepDone, HandlerTypes
  <2> QED BY <2>2, <2>4, <2>5
<1> QED BY <1>1, <1>2, <1>3, <1>4, <1>5, <1>6, <1>7

\* The end of a handler.
LEMMA HandlerEndKeeps ==
    ASSUME HandlersInv, NEW w \in Workers, CommitJob(w) \/ JobFails(w)
    PROVE  HandlersInv'
<1> USE DEF HandlersInv
<1>1. JobOver(w) /\ up' = up
    BY DEF CommitJob, JobFails, numberVars
<1>2. \/ DbCommit(w) /\ made' = made \cup job[w].objs
      \/ (Rollback(w) \/ RollbackFails(w)) /\ made' = made
      \/ StorageCommitFails(w) /\ made' = made
      \/ DbCommitFails(w) /\ made' = made
    BY DEF CommitJob, JobFails
<1>3. FilesInv' /\ TxEnded(w)
    BY <1>2, DbCommitKeeps, RollbackKeeps, RollbackFailsKeeps, StorageCommitFailsKeeps,
       DbCommitFailsKeeps
<1>4. \/ rows' = rows /\ made' = made
      \/ made' = made \cup job[w].objs
    BY <1>2 DEF Rollback, RollbackFails, StorageCommitFails, DbCommitFails
<1> QED BY <1>1, <1>3, <1>4, EndJob

\* The server stops or starts.
LEMMA ServerStepKeeps ==
    ASSUME HandlersInv, ServerStops \/ ServerStarts
    PROVE  HandlersInv'
<1> USE DEF HandlersInv, JobInv
<1>1. CASE ServerStops
  <2>1. /\ StorageCrash /\ todo' = [w \in Workers |-> <<>>] /\ job' = [w \in Workers |-> NoJob]
        /\ made' = made
      BY <1>1 DEF ServerStops
  <2>2. FilesInv'
      BY <2>1, StorageCrashKeeps
  <2>3. /\ NoJob \in [kind : {"none"} \cup DOMAIN Script, objs : SUBSET Objects]
        /\ NoJob.kind = "none" /\ NoJob.objs = {}
      BY DEF NoJob
  <2>4. \A w \in Workers : tx'[w] = NoTx /\ job'[w] = NoJob /\ todo'[w] = <<>>
      BY <2>1 DEF StorageCrash
  <2>5. HandlerTypes'
      BY <2>1, <2>3 DEF HandlerTypes
  <2>6. TodoInv'
      BY <2>1, <2>4 DEF TodoInv
  <2>7. TxInv'
      BY <2>4, NoTxFields DEF TxInv
  <2>8. OwnInv'
      BY <2>1, <2>3, <2>4 DEF OwnInv, StorageCrash
  <2> QED BY <2>2, <2>5, <2>6, <2>7, <2>8
<1>2. CASE ServerStarts
  <2>1. ~up /\ up' /\ StorageRestart /\ UNCHANGED handlerVars /\ tx' = tx /\ rows' = rows
      BY <1>2 DEF ServerStarts, LoadSettings, StorageRestart
  <2>2. \A w \in Workers : tx[w] = NoTx
      BY <2>1 DEF TxInv
  <2>3. FilesInv'
      BY <2>1, <2>2, StorageRestartKeeps
  <2>4. HandlerTypes' /\ TodoInv'
      BY <2>1 DEF HandlerTypes, TodoInv, handlerVars
  <2>5. TxInv' /\ OwnInv'
      BY <2>1, <2>2 DEF TxInv, OwnInv, handlerVars
  <2> QED BY <2>3, <2>4, <2>5
<1> QED BY <1>1, <1>2

\* The server starts on an empty database the first time.
LEMMA HandlersStart == SaveInit => HandlersInv
<1> SUFFICES ASSUME SaveInit PROVE HandlersInv
    OBVIOUS
<1>1. /\ rows = {} /\ nextInst = 1 /\ files = {} /\ marked = {} /\ made = {}
      /\ lost = {} /\ left = {}
      /\ tx = [w \in Workers |-> NoTx] /\ job = [w \in Workers |-> NoJob]
      /\ todo = [w \in Workers |-> <<>>] /\ up = TRUE
    BY DEF SaveInit, StorageInit, Init
<1>2. /\ NoJob \in [kind : {"none"} \cup DOMAIN Script, objs : SUBSET Objects]
      /\ NoJob.kind = "none" /\ NoJob.objs = {}
    BY DEF NoJob
<1>3. \A w \in Workers : tx[w] = NoTx /\ job[w] = NoJob /\ todo[w] = <<>>
    BY <1>1
<1>4. HandlerTypes /\ TodoInv
    BY <1>1, <1>2, <1>3 DEF HandlerTypes, TodoInv
<1>5. TxInv /\ OwnInv
    BY <1>1, <1>2, <1>3, NoTxFields DEF TxInv, OwnInv
<1>6. StorageTypeOK
    BY <1>1, NoTxFields, InstancesAssumption DEF StorageTypeOK
<1>7. IdsOf({}) = {}
    BY DEF IdsOf
<1>8. LockInv /\ FreshInv /\ RenamedInv
    BY <1>1, <1>3, <1>7, NoTxFields DEF LockInv, FreshInv, RenamedInv, Touched
<1>9. FilesRight(lost, left)
    BY <1>1, <1>3, <1>7, NoTxFields DEF FilesRight, Doomed, Present, Covered, Marked
<1> QED BY <1>4, <1>5, <1>6, <1>8, <1>9 DEF HandlersInv, JobInv, FilesInv, TablesInv

\* Every step of the handlers keeps the invariant.
LEMMA HandlersStep == HandlersInv /\ [SaveNext]_saveVars => HandlersInv'
<1> SUFFICES ASSUME HandlersInv, [SaveNext]_saveVars PROVE HandlersInv'
    OBVIOUS
<1>1. CASE UNCHANGED saveVars
  <2>1. UNCHANGED storageVars /\ UNCHANGED handlerVars /\ up' = up
      BY <1>1 DEF saveVars, numberVars
  <2>2. FilesInv'
      BY <2>1, FilesUnchanged DEF HandlersInv
  <2>3. TxInv' /\ OwnInv'
      BY <2>1, JobUnchanged DEF HandlersInv, JobInv, storageVars, handlerVars
  <2>4. HandlerTypes' /\ TodoInv'
      BY <2>1 DEF HandlersInv, JobInv, HandlerTypes, TodoInv, handlerVars
  <2> QED BY <2>2, <2>3, <2>4 DEF HandlersInv, JobInv
<1>2. CASE SaveNext
    BY <1>2, BeginJobKeeps, HandlerStepKeeps, HandlerEndKeeps, ServerStepKeeps DEF SaveNext
<1> QED BY <1>1, <1>2

\* The rows, files and transactions of the storage, and the handlers that use it, fit
\* together in every reachable state, for any number of threads, objects and instances.
THEOREM StorageInvariant == SaveSpec => []HandlersInv
BY HandlersStart, HandlersStep, PTL DEF SaveSpec

\* Types of the handlers and of the storage, and one row per object.
THEOREM SaveTypeCorrect == SaveSpec => []SaveTypeOK
<1>1. HandlersInv /\ IInv => SaveTypeOK
  <2> SUFFICES ASSUME HandlersInv, IInv PROVE SaveTypeOK
      OBVIOUS
  <2>1. \A w \in Workers : /\ Len(todo[w]) <= 5
                           /\ \A k \in 1..Len(todo[w]) : todo[w][k] \in StepNames
      BY DEF HandlersInv, JobInv, TodoInv
  <2> QED BY <2>1 DEF HandlersInv, HandlerTypes, FilesInv, TablesInv, IInv, SaveTypeOK
<1>2. SaveSpec => []IInv
    BY HandlersImplementAllocator, AllocatorInvariant, PTL
<1> QED BY <1>1, <1>2, StorageInvariant, PTL

\* An object whose row is committed has its file, or the transaction that removes the row has
\* taken it. Excepted is an instance only while it has met one of the faults and races that
\* the actions name: a file that cannot be deleted or renamed back, a commit of the database
\* that fails after that of the storage, a stop between the two, or a deletion beside
\* references that its snapshot cannot see.
THEOREM AttachmentsStay == SaveSpec => []AttachmentPresent
<1>1. HandlersInv => AttachmentPresent
  <2> SUFFICES ASSUME HandlersInv, NEW p \in rows, p[2] \notin files \cup lost
               PROVE  \E w \in Workers : /\ p \in tx[w].gone
                                         /\ p[2] \in tx[w].mark \cap marked \/ tx[w].st = "stored"
      BY DEF AttachmentPresent
  <2> USE DEF HandlersInv, FilesInv, TablesInv, FilesRight
  <2>1. p[2] \in IdsOf(rows)
      BY DEF IdsOf
  <2>2. PICK w \in Workers :
            p[2] \in tx[w].mark \/ (p[2] \in tx[w].del /\ tx[w].st = "stored")
      BY <2>1 DEF Present
  <2>3. p \in tx[w].gone
      BY <2>2 DEF Doomed, RefsTo
  <2>4. tx[w].st \in {"none", "open", "stored"} /\ (tx[w].st = "none" => tx[w].mark = {})
      BY NoTxFields DEF StorageTypeOK, Transactions, JobInv, TxInv
  <2>5. p[2] \in tx[w].mark \cap marked \/ tx[w].st = "stored"
      BY <2>2, <2>4 DEF RenamedInv
  <2> QED BY <2>3, <2>5
<1> QED BY <1>1, StorageInvariant, PTL

\* No file is left without a row or a transaction that answers for it. Excepted is an instance
\* only while it has met one of the faults and races that the actions name: besides those
\* above, a file that was written in part, and a look-up of orphans that failed.
THEOREM NoFileIsLeft == SaveSpec => []FileHasReference
<1>1. HandlersInv => FileHasReference
  <2> SUFFICES ASSUME HandlersInv PROVE FileHasReference
      OBVIOUS
  <2> USE DEF HandlersInv, FilesInv, FilesRight
  <2>1. Outcome({}) = rows
      BY DEF Outcome
  <2>2. \A i \in files \ left : RefsTo(rows, i) # {} \/ \E w \in Workers : i \in tx[w].new
      BY <2>1 DEF Covered
  <2> QED BY <2>2 DEF FileHasReference, Marked
<1> QED BY <1>1, StorageInvariant, PTL

===============================================================================
