----------------------------- MODULE SaveObject -----------------------------
(***************************************************************************)
(* The handlers that create, change, copy and delete messages, as far as   *)
(* they concern the attachment storage and the numbers of a new message:   *)
(* saveObject, importMessageFromStream, CopyObject and DeleteObjectHard.   *)
(*                                                                         *)
(* Each runs in one transaction of the storage and of the database, on the *)
(* connection of its thread.  The numbers come from the session manager,   *)
(* which reserves them on a connection of its own: a transaction that is   *)
(* rolled back has used them up.                                           *)
(***************************************************************************)
EXTENDS KeyAllocator, AttachmentStorage, Sequences


VARIABLES
    job,    \* per thread: the kind of its handler and the objects that it is about
    todo,   \* per thread: the steps that are left of it
    made    \* the objects there are, or have been

handlerVars == <<job, todo, made>>
numberVars == <<up, keyVars, seqVars>>
saveVars == <<numberVars, storageVars, handlerVars>>

NoJob == [kind |-> "none", objs |-> {}]

Script ==
    [new    |-> <<"props", "key", "seq", "store", "db">>,
     change |-> <<"props", "store", "db">>,
     copy   |-> <<"seq", "copy", "key", "store", "db">>,
     delete |-> <<"ids", "delete", "store", "db">>]

StepNames == {"props", "key", "seq", "copy", "ids", "delete", "store", "db", "fail"}

SaveTypeOK ==
    /\ TypeOK /\ StorageTypeOK
    /\ job \in [Workers -> [kind : {"none"} \cup DOMAIN Script, objs : SUBSET Objects]]
    /\ \A w \in Workers : Len(todo[w]) <= 5 /\ \A k \in 1..Len(todo[w]) : todo[w][k] \in StepNames
    /\ made \subseteq Objects

SaveInit ==
    /\ Init /\ StorageInit
    /\ job = [w \in Workers |-> NoJob]
    /\ todo = [w \in Workers |-> <<>>]
    /\ made = {}

-------------------------------------------------------------------------------
(* Steps of a handler.                                                     *)

Doing(w, step) == up /\ todo[w] # <<>> /\ Head(todo[w]) = step

StepDone(w) ==
    /\ todo' = [todo EXCEPT ![w] = Tail(@)]
    /\ UNCHANGED <<job, made>>

JobOver(w) ==
    /\ todo' = [todo EXCEPT ![w] = <<>>]
    /\ job' = [job EXCEPT ![w] = NoJob]

BusyWith(kinds) == UNION {job[w].objs : w \in {v \in Workers : job[v].kind \in kinds}}

\* The storage begins, then the database.  saveObject locks the counters of the folder, so
\* that an object is changed by one thread at a time, and reads the flags of an old object.
BeginJob(w, kind, objs) ==
    /\ up /\ todo[w] = <<>>
    /\ CASE kind \in {"new", "copy"} -> /\ Cardinality(objs) = 1
                                        /\ objs \cap (made \cup BusyWith({"new", "copy"})) = {}
         [] kind = "change" -> objs \subseteq made /\ objs \cap BusyWith({"change"}) = {}
         [] kind = "delete" -> objs \subseteq made
    /\ job' = [job EXCEPT ![w] = [kind |-> kind, objs |-> objs]]
    /\ todo' = [todo EXCEPT ![w] = Script[kind]]
    /\ StorageBegin(w, kind = "change")
    /\ UNCHANGED <<made, numberVars>>

\* WriteProps and DeleteProps on an object of the message, and DeleteObjectHard on a part of
\* it that the client removed.
SaveProps(w) ==
    /\ Doing(w, "props")
    /\ \E o \in job[w].objs, asked \in BOOLEAN :
          \/ SaveAttachment(w, o, asked)
          \/ \E i \in Instances : SaveAttachmentById(w, o, i, asked)
          \/ DeleteAttachments(w, {o}, asked) /\ job[w].kind = "change"
    /\ UNCHANGED <<handlerVars, numberVars>>

\* All properties are written.
PropsDone(w) ==
    /\ Doing(w, "props")
    /\ StepDone(w)
    /\ UNCHANGED <<storageVars, numberVars>>

\* The data of an attachment does not fit on the disk: the handler can only roll back.
SavePropsShort(w) ==
    /\ Doing(w, "props")
    /\ \E o \in job[w].objs, asked \in BOOLEAN : SaveAttachmentShort(w, o, asked)
    /\ todo' = [todo EXCEPT ![w] = <<"fail">>]
    /\ UNCHANGED <<job, made, numberVars>>

\* A message whose source key the client has not given.
TakeKey(w) ==
    /\ Doing(w, "key")
    /\ GetNewSourceKey
    /\ StepDone(w)
    /\ UNCHANGED storageVars

TakeSequence(w) ==
    /\ Doing(w, "seq")
    /\ GetNewSequence
    /\ StepDone(w)
    /\ UNCHANGED storageVars

CopyObject(w) ==
    /\ Doing(w, "copy")
    /\ \E from \in made, o \in job[w].objs : from # o /\ CopyAttachment(w, from, o)
    /\ StepDone(w)
    /\ UNCHANGED numberVars

DeleteObjectHard(w) ==
    /\ \/ Doing(w, "ids") /\ ReadInstances(w)
       \/ Doing(w, "delete") /\ DeleteAttachments(w, job[w].objs, TRUE)
    /\ StepDone(w)
    /\ UNCHANGED numberVars

CommitFiles(w) ==
    /\ Doing(w, "store")
    /\ StorageCommit(w)
    /\ StepDone(w)
    /\ UNCHANGED numberVars

CommitJob(w) ==
    /\ Doing(w, "db")
    /\ DbCommit(w)
    /\ made' = made \cup job[w].objs
    /\ JobOver(w)
    /\ UNCHANGED numberVars

\* Any call may fail; each failure ends in the rollback of what has not been committed.
JobFails(w) ==
    /\ up /\ todo[w] # <<>>
    /\ \/ (Rollback(w) \/ RollbackFails(w)) /\ UNCHANGED made
       \/ Doing(w, "store") /\ StorageCommitFails(w) /\ UNCHANGED made
       \/ DbCommitFails(w) /\ UNCHANGED made
       \/ DbCommit(w) /\ made' = made \cup job[w].objs
    /\ JobOver(w)
    /\ UNCHANGED numberVars

-------------------------------------------------------------------------------
(* The session manager and the server.                                     *)

\* A block is used up and a handler asks for a number.
ReserveNumbers(w) ==
    /\ \/ Doing(w, "key") /\ (ReserveKeys \/ ReserveKeysFails)
       \/ Doing(w, "seq") /\ (DoSequence \/ DoSequenceFails)
    /\ UNCHANGED <<storageVars, handlerVars>>

ServerStops ==
    /\ Crash /\ StorageCrash
    /\ todo' = [w \in Workers |-> <<>>]
    /\ job' = [w \in Workers |-> NoJob]
    /\ UNCHANGED made

ServerStarts == LoadSettings /\ StorageRestart /\ UNCHANGED handlerVars

SaveNext ==
    \/ \E w \in Workers, kind \in DOMAIN Script, objs \in SUBSET Objects \ {{}} : BeginJob(w, kind, objs)
    \/ \E w \in Workers :
          \/ SaveProps(w) \/ SavePropsShort(w) \/ PropsDone(w)
          \/ ReserveNumbers(w) \/ TakeKey(w) \/ TakeSequence(w) \/ CopyObject(w) \/ DeleteObjectHard(w)
          \/ CommitFiles(w) \/ CommitJob(w) \/ JobFails(w)
    \/ ServerStops \/ ServerStarts

SaveSpec == SaveInit /\ [][SaveNext]_saveVars
=============================================================================
