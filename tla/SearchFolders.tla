---------------------------- MODULE SearchFolders ----------------------------
(***************************************************************************)
(* ECSearchFolders: the results of a search folder are kept in the         *)
(* database.  A search thread per folder fills them once; after that a     *)
(* single thread brings them up to date from a queue of message changes.   *)
(*                                                                         *)
(* The module has one search folder, whose criteria clients set, stop and  *)
(* remove while messages change and the server is killed and started       *)
(* again.  The queue, the map of folders and the threads are in memory;    *)
(* messages, results, counts, criteria and status are in the database.     *)
(* A transaction that writes results holds the row locks of the folder     *)
(* (SELECT ... FOR UPDATE) from its first read to its commit, and is one   *)
(* step.                                                                   *)
(***************************************************************************)
EXTENDS Integers, FiniteSets, Sequences

CONSTANTS
    Clients,      \* threads that handle tableSetSearchCriteria and deleteObjects
    Writers,      \* threads that change messages
    Msgs,         \* messages of the store
    Contents,     \* what a message may look like: does it match, is it read
    Folders,      \* hierarchy ids of the folders that messages are in
    Criteria,     \* search criteria
    Scope,        \* the folders that a search with some criteria goes through
    Objs,         \* SEARCHFOLDER objects, by address
    None,         \* a null pointer; no criteria, no message, no change
    BatchSize,    \* 500: events that FlushEvents takes at a time
    RowBatch,     \* 20: rows that Search takes at a time
    Attempts,     \* 4: how often an update of the results is tried
    MaxQueue,     \* bound on the queue
    MaxChanges    \* bound on the changes of messages

ASSUME ContentsAssumption == Contents \subseteq [hit : BOOLEAN, read : BOOLEAN]
ASSUME ScopeAssumption == Scope \in [Criteria -> SUBSET Folders]
ASSUME FoldersAssumption == Folders \subseteq Nat \ {0}
ASSUME NumbersAssumption ==
    {BatchSize, RowBatch, Attempts, MaxQueue, MaxChanges} \subseteq Nat \ {0}
ASSUME MsgsAssumption == IsFiniteSet(Msgs)

VARIABLES
    msgs,      \* the messages: folder, deleted or not, contents
    changes,   \* number of changes so far
    writer,    \* the change that a writer has committed and not yet notified
    results,   \* table searchresults
    counts,    \* PR_CONTENT_COUNT and PR_CONTENT_UNREAD of the search folder
    status,    \* PR_EC_SEARCHFOLDER_STATUS
    saved,     \* PR_EC_SEARCHCRIT
    removed,   \* the folder is deleted
    map,       \* its entry of m_mapSearchFolders
    obj,       \* the SEARCHFOLDER objects
    search,    \* the search threads, one per object
    client,    \* the calls under way
    queue,     \* m_lstEvents
    proc,      \* the thread in ProcessThread
    up,        \* the server runs
    lost,      \* history: results, criteria or a change skipped since the last search began
    strayed,   \* history: messages with changes that FlushEvents has put in another order
    crossed    \* history: messages that two writers have changed before either told of it

store == <<msgs, changes, writer>>
rows == <<results, counts>>
props == <<status, saved, removed>>
folder == <<map, obj, search, client>>
history == <<lost, strayed, crossed>>
vars == <<store, rows, props, folder, queue, proc, up, history>>

Rows == {"none", "read", "unread"}
Types == {"add", "modify", "delete"}
Event == [type : Types, m : Msgs, folder : Folders]
Message == [folder : Folders, live : BOOLEAN, hit : BOOLEAN, read : BOOLEAN]

ASSUME NoneAssumption ==
    None \notin Objs \cup Criteria \cup Message \cup [e : Event, ready : BOOLEAN]

NoObj == [live |-> FALSE, crit |-> None, exit |-> FALSE, free |-> TRUE]
NoSearch == [at |-> "none", todo |-> {}, cands |-> {}]
NoCall == [at |-> "idle", op |-> "none", crit |-> None, o |-> None]
NoEvents == [i \in {} |-> None]
NoFlush == [at |-> "idle", batch |-> NoEvents, group |-> {}, type |-> "add",
            folder |-> 0, tries |-> 0]
Batches == UNION {[I -> Event] : I \in SUBSET (1 .. BatchSize)}

ObjStates == [live : BOOLEAN, crit : Criteria \cup {None}, exit : BOOLEAN, free : BOOLEAN]
SearchStates == [at : {"none", "never", "reset", "folders", "rows", "end"},
                 todo : SUBSET Folders, cands : SUBSET Msgs]
CallPlaces == {"idle", "cancel", "wait", "stopped", "rebuild", "reset", "insert", "save", "delete"}
CallStates == [at : CallPlaces, op : {"none", "set", "stop", "remove"},
               crit : Criteria \cup {None}, o : Objs \cup {None}]

StoreTypes ==
    /\ msgs \in [Msgs -> Message \cup {None}]
    /\ changes \in 0 .. MaxChanges
    /\ writer \in [Writers -> [e : Event, ready : BOOLEAN] \cup {None}]

RowTypes ==
    /\ results \in [Msgs -> Rows]
    /\ counts \in [all : 0 .. Cardinality(Msgs), unread : 0 .. Cardinality(Msgs)]

PropTypes ==
    /\ status \in {"stopped", "rebuild", "running"}
    /\ saved \in Criteria \cup {None}
    /\ removed \in BOOLEAN /\ up \in BOOLEAN /\ lost \in BOOLEAN
    /\ strayed \subseteq Msgs /\ crossed \subseteq Msgs

FolderTypes ==
    /\ map \in Objs \cup {None}
    /\ obj \in [Objs -> ObjStates]
    /\ search \in [Objs -> SearchStates]
    /\ client \in [Clients -> CallStates]

QueueTypes ==
    /\ queue \in Seq(Event) /\ Len(queue) <= MaxQueue
    /\ proc \in [at : {"idle", "next", "update"}, batch : Batches,
                 group : SUBSET Msgs, type : Types, folder : Folders \cup {0},
                 tries : 0 .. Attempts]

\* Every variable has its type, and the queue keeps its bound.
TypeOK == StoreTypes /\ RowTypes /\ PropTypes /\ FolderTypes /\ QueueTypes

\* The store may have messages already.
Init ==
    /\ msgs \in [Msgs -> {n \in Message : n.live /\ [hit |-> n.hit, read |-> n.read] \in Contents}
                        \cup {None}]
    /\ changes = 0 /\ writer = [w \in Writers |-> None]
    /\ results = [m \in Msgs |-> "none"] /\ counts = [all |-> 0, unread |-> 0]
    /\ status = "running" /\ saved = None /\ removed = FALSE
    /\ map = None /\ obj = [o \in Objs |-> NoObj] /\ search = [o \in Objs |-> NoSearch]
    /\ client = [c \in Clients |-> NoCall]
    /\ queue = <<>> /\ proc = NoFlush
    /\ up = TRUE /\ lost = FALSE /\ strayed = {} /\ crossed = {}

-------------------------------------------------------------------------------
(* Messages                                                                *)

\* Writer w has changed m and not yet told the search folders.
InHand(w, m) == writer[w] # None /\ writer[w].e.m = m

\* The transaction of a writer; the search folders hear of it in later steps.
Store(w, m, new, type) ==
    /\ up /\ writer[w] = None /\ changes < MaxChanges
    /\ changes' = changes + 1
    /\ msgs' = [msgs EXCEPT ![m] = new]
    /\ writer' = [writer EXCEPT ![w] = [e |-> [type |-> type, m |-> m, folder |-> new.folder],
                                        ready |-> FALSE]]
    /\ crossed' = crossed \cup {n \in {m} : \E v \in Writers : InHand(v, n)}
    /\ UNCHANGED <<rows, props, folder, queue, proc, up, lost, strayed>>

SaveObject(w, m) ==
    \E c \in Contents :
        \/ /\ msgs[m] = None
           /\ \E f \in Folders :
                 Store(w, m, [folder |-> f, live |-> TRUE, hit |-> c.hit, read |-> c.read], "add")
        \/ /\ msgs[m] # None /\ msgs[m].live
           /\ Store(w, m, [msgs[m] EXCEPT !.hit = c.hit, !.read = c.read], "modify")

\* MoveObjects also takes back a message that was deleted, if need be in the same folder.
MoveObjects(w, m) ==
    /\ msgs[m] # None
    /\ \E f \in Folders :
          /\ msgs[m].live => f # msgs[m].folder
          /\ Store(w, m, [msgs[m] EXCEPT !.folder = f, !.live = TRUE], "modify")

\* DeleteObjectSoft keeps the properties of the message.
DeleteObjectSoft(w, m) ==
    /\ msgs[m] # None /\ msgs[m].live
    /\ Store(w, m, [msgs[m] EXCEPT !.live = FALSE], "delete")

\* AddNotification looks up where the message is by now; only a delete brings its folder
\* along.  Changes of messages that are deleted by now are skipped.
AddNotification(w) ==
    /\ writer[w] # None /\ ~writer[w].ready
    /\ LET e == writer[w].e
       IN writer' = [writer EXCEPT ![w] =
                        CASE e.type = "delete" -> [e |-> e, ready |-> TRUE]
                          [] e.type # "delete" /\ msgs[e.m].live ->
                               [e |-> [e EXCEPT !.folder = msgs[e.m].folder], ready |-> TRUE]
                          [] OTHER -> None]
    /\ UNCHANGED <<msgs, changes, rows, props, folder, queue, proc, up, history>>

UpdateSearchFolders(w) ==
    /\ writer[w] # None /\ writer[w].ready
    /\ Len(queue) < MaxQueue
    /\ queue' = Append(queue, writer[w].e)
    /\ writer' = [writer EXCEPT ![w] = None]
    /\ UNCHANGED <<msgs, changes, rows, props, folder, proc, up, history>>

-------------------------------------------------------------------------------
(* The thread that processes the queue                                     *)

\* ProcessMessageChange holds m_mutexMapSearchFolders all the time.
MapHeld == proc.at = "update"

\* Some change of m stands behind one of a folder that the sort puts after its own.
OutOfOrder(events) ==
    {m \in Msgs : \E i, j \in DOMAIN events :
        /\ i < j /\ events[i].m = m /\ events[j].m = m
        /\ events[j].folder < events[i].folder}

\* FlushEvents takes events off the queue.
FlushEvents ==
    /\ proc.at = "idle" /\ queue # <<>>
    /\ LET n == IF Len(queue) < BatchSize THEN Len(queue) ELSE BatchSize
           events == [i \in 1 .. n |-> queue[i]]
       IN /\ proc' = [proc EXCEPT !.at = "next", !.batch = events]
          /\ queue' = SubSeq(queue, n + 1, Len(queue))
          /\ strayed' = strayed \cup OutOfOrder(events)
    /\ UNCHANGED <<store, rows, props, folder, up, lost, crossed>>

\* The order in which FlushEvents sorts them: by folder, and within a folder as they came.
SortedBefore(i, j) ==
    \/ proc.batch[i].folder < proc.batch[j].folder
    \/ proc.batch[i].folder = proc.batch[j].folder /\ i < j

\* The next run of events of one folder and one type goes to ProcessMessageChange, which
\* leaves when there is no search folder.
NextGroup ==
    /\ proc.at = "next"
    /\ \E i \in DOMAIN proc.batch :
          LET Same(j) == /\ proc.batch[j].folder = proc.batch[i].folder
                         /\ proc.batch[j].type = proc.batch[i].type
              run == {j \in DOMAIN proc.batch :
                        Same(j) /\ \A k \in DOMAIN proc.batch : SortedBefore(k, j) => Same(k)}
          IN /\ \A j \in DOMAIN proc.batch : ~SortedBefore(j, i)
             /\ proc' = [at |-> IF map = None THEN "next" ELSE "update",
                         batch |-> [j \in DOMAIN proc.batch \ run |-> proc.batch[j]],
                         group |-> {proc.batch[j].m : j \in run},
                         type |-> proc.batch[i].type, folder |-> proc.batch[i].folder,
                         tries |-> Attempts]
    /\ UNCHANGED <<store, rows, props, folder, queue, up, history>>

FlushDone ==
    /\ proc.at = "next" /\ DOMAIN proc.batch = {}
    /\ proc' = NoFlush
    /\ UNCHANGED <<store, rows, props, folder, queue, up, history>>

\* The row that a match gets.
Row(m) == IF msgs[m].read THEN "read" ELSE "unread"

\* The row of m after the update.  The message is looked at as it is now, in the folder that
\* the event names.
Updated(m) ==
    CASE proc.type = "delete" \/ proc.folder \notin Scope[obj[map].crit] -> "none"
      [] OTHER -> IF msgs[m].hit THEN Row(m)
                  ELSE IF proc.type = "modify" THEN "none" ELSE results[m]

\* What is added to the counts: for a row inserted, deleted and changed, one by one.
Counted(new) ==
    LET inserted == {m \in Msgs : results[m] = "none" /\ new[m] # "none"}
        deleted == {m \in Msgs : results[m] # "none" /\ new[m] = "none"}
        Flagged(r) == {m \in Msgs : results[m] \notin {"none", r} /\ new[m] = r}
    IN [all |-> counts.all + Cardinality(inserted) - Cardinality(deleted),
        unread |-> counts.unread
                   + Cardinality({m \in inserted : new[m] = "unread"})
                   - Cardinality({m \in deleted : results[m] = "unread"})
                   + Cardinality(Flagged("unread")) - Cardinality(Flagged("read"))]

ProcessMessageChange ==
    /\ proc.at = "update"
    /\ LET new == [m \in Msgs |-> IF m \in proc.group THEN Updated(m) ELSE results[m]]
       IN results' = new /\ counts' = Counted(new)
    /\ proc' = [proc EXCEPT !.at = "next"]
    /\ UNCHANGED <<store, props, folder, queue, up, history>>

\* Mutant: the attempts are not counted.
UpdateFailsAgain ==
    /\ proc.at = "update"
    /\ proc' = [proc EXCEPT !.tries = @ - 1]
    /\ UNCHANGED <<store, rows, props, folder, queue, up, history>>

\* A lock time-out or deadlock rolls the update back; after the last attempt it is given up.
UpdateFails ==
    /\ proc.at = "update"
    /\ proc' = [proc EXCEPT !.tries = @ - 1, !.at = IF proc.tries = 1 THEN "next" ELSE @]
    /\ lost' = (lost \/ proc.tries = 1)
    /\ UNCHANGED <<store, rows, props, folder, queue, up, strayed, crossed>>

-------------------------------------------------------------------------------
(* The search thread of a folder                                           *)

SearchAt(o, at) == search' = [search EXCEPT ![o].at = at]

Emptied ==
    /\ results' = [m \in Msgs |-> "none"]
    /\ counts' = [all |-> 0, unread |-> 0]

\* There is a change of m that the results may not show yet.
UnderWay(m) ==
    \/ \E w \in Writers : InHand(w, m)
    \/ \E i \in 1 .. Len(queue) : queue[i].m = m
    \/ \E i \in DOMAIN proc.batch : proc.batch[i].m = m
    \/ proc.at = "update" /\ m \in proc.group

\* Search begins with ResetResults.
SearchReset(o) ==
    /\ search[o].at = "reset"
    /\ Emptied
    /\ search' = [search EXCEPT ![o] = [at |-> "folders", todo |-> Scope[obj[o].crit],
                                        cands |-> {}]]
    /\ lost' = FALSE /\ strayed' = IF proc.at = "idle" THEN {} ELSE strayed
    /\ crossed' = {m \in crossed : UnderWay(m)}
    /\ UNCHANGED <<store, props, map, obj, client, queue, proc, up>>

\* Mutant: the status is set behind the label that errors jump to.
SearchFailsRunning(o) ==
    /\ search[o].at \in {"reset", "rows"}
    /\ SearchAt(o, "end")
    /\ status' = "running"
    /\ UNCHANGED <<store, rows, saved, removed, map, obj, client, queue, proc, up, history>>

\* Any of the statements may fail: the search ends, and the status is left as it is.
SearchFails(o) ==
    /\ search[o].at \in {"reset", "rows"}
    /\ SearchAt(o, "end")
    /\ UNCHANGED <<store, rows, props, map, obj, client, queue, proc, up, history>>

\* The messages of the next folder; a SELECT that fails skips the folder.
SearchFolder(o) ==
    /\ search[o].at = "folders" /\ ~obj[o].exit
    /\ \E f \in search[o].todo, ok \in BOOLEAN :
          LET found == {m \in Msgs : msgs[m] # None /\ msgs[m].live /\ msgs[m].folder = f}
          IN /\ search' = [search EXCEPT ![o] = [at |-> IF ok THEN "rows" ELSE "folders",
                                                 todo |-> @.todo \ {f},
                                                 cands |-> IF ok THEN found ELSE {}]]
             /\ lost' = (lost \/ ~ok)
    /\ UNCHANGED <<store, rows, props, map, obj, client, queue, proc, up, strayed, crossed>>

\* Mutant: what is read or unread already is counted again.
RowsCountedTwice(o) ==
    /\ search[o].at = "rows" /\ ~obj[o].exit
    /\ LET found == {m \in search[o].cands : msgs[m].hit}
           unread == {m \in found : ~msgs[m].read}
       IN /\ results' = [m \in Msgs |-> IF m \in found THEN Row(m) ELSE results[m]]
          /\ counts' = [all |-> counts.all + Cardinality(found),
                        unread |-> counts.unread + Cardinality(unread)]
    /\ search' = [search EXCEPT ![o].cands = {}]
    /\ UNCHANGED <<store, props, map, obj, client, queue, proc, up, history>>

\* ProcessCandidateRows takes the next rows and does not look again where the messages are.
\* It inserts what is missing as read, and then sets the flags of what is unread to 0.
ProcessCandidateRows(o) ==
    /\ search[o].at = "rows" /\ ~obj[o].exit
    /\ \E batch \in SUBSET search[o].cands :
          LET full == Cardinality(search[o].cands) > RowBatch
              found == {m \in batch : msgs[m].hit}
              unread == {m \in found : ~msgs[m].read /\ results[m] # "unread"}
          IN /\ IF full THEN Cardinality(batch) = RowBatch
                        ELSE batch = search[o].cands /\ batch # {}
             /\ results' = [m \in Msgs |->
                               CASE m \in unread -> "unread"
                                 [] m \in found \ unread /\ results[m] = "none" -> "read"
                                 [] OTHER -> results[m]]
             /\ counts' = [all |-> counts.all + Cardinality({m \in found : results[m] = "none"}),
                           unread |-> counts.unread + Cardinality(unread)]
             /\ search' = [search EXCEPT ![o].cands = @ \ batch]
    /\ UNCHANGED <<store, props, map, obj, client, queue, proc, up, history>>

FolderDone(o) ==
    /\ search[o].at = "rows" /\ (search[o].cands = {} \/ obj[o].exit)
    /\ search' = [search EXCEPT ![o].at = "folders", ![o].cands = {}]
    /\ UNCHANGED <<store, rows, props, map, obj, client, queue, proc, up, history>>

\* The end of the loop, reached by a search that was cancelled as well.
SetRunning(o) ==
    /\ search[o].at = "folders" /\ (search[o].todo = {} \/ obj[o].exit)
    /\ status' = "running"
    /\ SearchAt(o, "end")
    /\ UNCHANGED <<store, rows, saved, removed, map, obj, client, queue, proc, up, history>>

\* The thread gives the object free.
SearchThreadEnds(o) ==
    /\ search[o].at = "end"
    /\ obj' = [obj EXCEPT ![o].free = TRUE]
    /\ search' = [search EXCEPT ![o] = NoSearch]
    /\ UNCHANGED <<store, rows, props, map, client, queue, proc, up, history>>

-------------------------------------------------------------------------------
(* Calls: the criteria are set, the search is stopped, the folder is removed *)

Becomes(c, at) == client' = [client EXCEPT ![c] = IF at = "idle" THEN NoCall
                                                  ELSE [@ EXCEPT !.at = at]]

\* The step behind the cancellation.
AfterCancel(c) ==
    CASE client[c].op = "set" -> "rebuild"
      [] client[c].op = "remove" -> "reset"
      [] OTHER -> "idle"

Call(c) ==
    /\ up /\ ~removed /\ client[c].at = "idle"
    /\ \E op \in {"set", "stop", "remove"}, crit \in Criteria \cup {None} :
          /\ (op = "set") <=> (crit # None)
          /\ client' = [client EXCEPT ![c] = [at |-> "cancel", op |-> op, crit |-> crit,
                                              o |-> None]]
    /\ UNCHANGED <<store, rows, props, map, obj, search, queue, proc, up, history>>

\* The folder goes off the map, and its search is told to stop.
CancelSearchFolder(c) ==
    /\ client[c].at = "cancel" /\ ~MapHeld
    /\ IF map = None
       THEN Becomes(c, AfterCancel(c)) /\ UNCHANGED <<map, obj>>
       ELSE /\ client' = [client EXCEPT ![c] = [@ EXCEPT !.at = "wait", !.o = map]]
            /\ obj' = [obj EXCEPT ![map].exit = TRUE]
            /\ map' = None
    /\ UNCHANGED <<store, rows, props, search, queue, proc, up, history>>

\* Mutant: nobody waits for the thread.
DestroyAtOnce(c) ==
    /\ client[c].at = "wait"
    /\ obj' = [obj EXCEPT ![client[c].o] = NoObj]
    /\ Becomes(c, "stopped")
    /\ UNCHANGED <<store, rows, props, map, search, queue, proc, up, history>>

\* DestroySearchFolder waits until the thread has given the object free, and deletes it.
DestroySearchFolder(c) ==
    /\ client[c].at = "wait" /\ obj[client[c].o].free
    /\ obj' = [obj EXCEPT ![client[c].o] = NoObj]
    /\ Becomes(c, "stopped")
    /\ UNCHANGED <<store, rows, props, map, search, queue, proc, up, history>>

SetStopped(c) ==
    /\ client[c].at = "stopped"
    /\ status' = "stopped"
    /\ Becomes(c, AfterCancel(c))
    /\ UNCHANGED <<store, rows, saved, removed, map, obj, search, queue, proc, up, history>>

\* Mutant: the status is left for the thread to set.
SetRebuildLater(c) ==
    /\ client[c].at = "rebuild"
    /\ Becomes(c, "reset")
    /\ UNCHANGED <<store, rows, props, map, obj, search, queue, proc, up, history>>

SetRebuild(c) ==
    /\ client[c].at = "rebuild"
    /\ status' = "rebuild"
    /\ Becomes(c, "reset")
    /\ UNCHANGED <<store, rows, saved, removed, map, obj, search, queue, proc, up, history>>

\* When ResetResults fails, AddSearchFolder does too; RemoveSearchFolder does not look.
ResetResults(c) ==
    /\ client[c].at = "reset"
    /\ \/ /\ Emptied
          /\ Becomes(c, IF client[c].op = "set" THEN "insert" ELSE "delete")
       \/ /\ Becomes(c, IF client[c].op = "set" THEN "idle" ELSE "delete")
          /\ UNCHANGED rows
    /\ UNCHANGED <<store, props, map, obj, search, queue, proc, up, history>>

\* AddSearchFolder puts the folder on the map, where it does not replace another, and starts
\* the search thread.
AddSearchFolder(c) ==
    /\ client[c].at = "insert" /\ ~MapHeld
    /\ \E o \in Objs, spawned \in BOOLEAN :
          /\ ~obj[o].live /\ search[o].at = "none"
          /\ obj' = [obj EXCEPT ![o] = [live |-> TRUE, crit |-> client[c].crit, exit |-> FALSE,
                                        free |-> FALSE]]
          /\ map' = IF map = None THEN o ELSE map
          /\ SearchAt(o, IF spawned THEN "reset" ELSE "never")
          /\ Becomes(c, IF spawned THEN "save" ELSE "idle")
    /\ UNCHANGED <<store, rows, props, queue, proc, up, history>>

SaveSearchCriteria(c) ==
    /\ client[c].at = "save"
    /\ saved' \in {client[c].crit, saved}
    /\ Becomes(c, "idle")
    /\ UNCHANGED <<store, rows, status, removed, map, obj, search, queue, proc, up, history>>

\* What DeleteObjects does behind RemoveSearchFolder may fail.
DeleteFolder(c) ==
    /\ client[c].at = "delete"
    /\ removed' \in BOOLEAN
    /\ Becomes(c, "idle")
    /\ UNCHANGED <<store, rows, status, saved, map, obj, search, queue, proc, up, history>>

-------------------------------------------------------------------------------
(* The server is killed and started again                                  *)

\* What is under way at the time is gone.
Killed ==
    /\ up
    /\ up' = FALSE
    /\ lost' = \/ lost \/ queue # <<>> \/ proc.at # "idle"
               \/ \E w \in Writers : writer[w] # None
               \/ \E c \in Clients : client[c].at # "idle"
               \/ map # None /\ saved # obj[map].crit
    /\ map' = None /\ obj' = [o \in Objs |-> NoObj] /\ search' = [o \in Objs |-> NoSearch]
    /\ client' = [c \in Clients |-> NoCall] /\ writer' = [w \in Writers |-> None]
    /\ queue' = <<>> /\ proc' = NoFlush
    /\ UNCHANGED <<msgs, changes, rows, props, strayed, crossed>>

\* A folder that is not stopped is loaded, and one that was being rebuilt is searched again.
LoadSearchFolders ==
    /\ ~up
    /\ up' = TRUE
    /\ IF status = "stopped" \/ saved = None \/ removed
       THEN UNCHANGED <<rows, map, obj, search>>
       ELSE \E o \in Objs :
              LET Load(free, at) ==
                      /\ map' = o
                      /\ obj' = [obj EXCEPT ![o] = [live |-> TRUE, crit |-> saved,
                                                    exit |-> FALSE, free |-> free]]
                      /\ SearchAt(o, at)
              IN \/ status = "running" /\ Load(TRUE, "none") /\ UNCHANGED rows
                 \/ status = "rebuild" /\ Load(FALSE, "reset") /\ Emptied
                 \/ status = "rebuild" /\ UNCHANGED <<rows, map, obj, search>>
    /\ UNCHANGED <<store, props, client, queue, proc, history>>

-------------------------------------------------------------------------------
(* Specification                                                           *)

Change == \E w \in Writers, m \in Msgs :
    SaveObject(w, m) \/ MoveObjects(w, m) \/ DeleteObjectSoft(w, m)
Notify(w) == AddNotification(w) \/ UpdateSearchFolders(w)
Process == FlushEvents \/ NextGroup \/ FlushDone \/ ProcessMessageChange \/ UpdateFails
Search(o) ==
    \/ SearchReset(o) \/ SearchFails(o) \/ SearchFolder(o) \/ ProcessCandidateRows(o)
    \/ FolderDone(o) \/ SetRunning(o) \/ SearchThreadEnds(o)
CallStep(c) ==
    \/ DestroySearchFolder(c) \/ SetStopped(c) \/ SetRebuild(c) \/ ResetResults(c)
    \/ SaveSearchCriteria(c) \/ DeleteFolder(c)

Next ==
    \/ Change \/ Process \/ Killed \/ LoadSearchFolders
    \/ \E w \in Writers : Notify(w)
    \/ \E o \in Objs : Search(o)
    \/ \E c \in Clients : Call(c) \/ CancelSearchFolder(c) \/ AddSearchFolder(c) \/ CallStep(c)

Spec == Init /\ [][Next]_vars

-------------------------------------------------------------------------------
(* Properties                                                              *)

\* The counts that ProcessMessageChange and ProcessCandidateRows keep by increments are the
\* numbers of rows, whatever the two have found in the table that the other put there.
CountsMatch ==
    /\ counts.all = Cardinality({m \in Msgs : results[m] # "none"})
    /\ counts.unread = Cardinality({m \in Msgs : results[m] = "unread"})

\* The search is over and every change has been processed.
Quiet ==
    /\ map # None /\ search[map].at = "none" /\ status = "running"
    /\ queue = <<>> /\ proc.at = "idle" /\ \A w \in Writers : writer[w] = None

\* What the search folder must show for m, if it must show anything.
Due(m) ==
    msgs[m] # None /\ msgs[m].live /\ msgs[m].folder \in Scope[obj[map].crit]
        => results[m] = IF msgs[m].hit THEN Row(m) ELSE "none"

\* Once it is quiet, every message in the folders of the search has its row, with the flag
\* that it has now, if it matches, and no row if it does not: the search and the queue
\* between them miss no change.  Excepted is what the code gives up (an update that fails
\* four times, a folder that cannot be read, what is under way when the server is killed)
\* and messages whose changes are processed in another order than they were made: because
\* FlushEvents has sorted them, or because two threads changed the message and the second
\* told of it first.
MatchesAreFound ==
    Quiet /\ ~lost => \A m \in Msgs \ (strayed \cup crossed) : Due(m)

\* The same of every message: the comment of FlushEvents has it that the order of deletes
\* and adds remains unchanged when the events are sorted by folder.
OrderIsKept == Quiet /\ ~lost => \A m \in Msgs : Due(m)

\* The folder that is on the map with a search under way has the status from which the next
\* start of the server begins the search anew.
HalfBuiltIsRebuilt ==
    \A o \in Objs : map = o /\ search[o].at \notin {"none", "end"} => status = "rebuild"

\* A search thread works on an object that exists and that is on the map, or that somebody
\* has taken off it who waits for the thread; and who waits for a thread will not wait for
\* one that has left already.
SearchIsOwned ==
    /\ \A o \in Objs : search[o].at # "none" =>
          /\ obj[o].live
          /\ map = o \/ \E c \in Clients : client[c].at = "wait" /\ client[c].o = o
    /\ \A c \in Clients : client[c].at = "wait" =>
          LET o == client[c].o IN obj[o].live /\ (obj[o].free \/ search[o].at # "none")

===============================================================================
